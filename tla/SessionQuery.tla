---------------------------- MODULE SessionQuery ----------------------------
(***************************************************************************)
(* querySessions, queryMessages and queryToolCalls of the two SQL stores,  *)
(* and a reader that fetches a result page by page.  Each query selects    *)
(* rows by the filters that are given, sorts them by one column and cuts a *)
(* page out.  A filter that is 0 or empty is falsy, that is not given: an  *)
(* endDate of 0 selects everything, and an offset counts only beside a     *)
(* limit.                                                                  *)
(*                                                                         *)
(* Rows with equal sort keys come in an order of the database's choice:    *)
(* SQLite takes the same one every time, PostgreSQL any.                   *)
(***************************************************************************)
EXTENDS Naturals, Sequences, FiniteSets, SequencesExt

CONSTANTS RowIds,    \* rows of the table, numbers
          Values,    \* values of the columns that are compared for equality
          MaxStamp,  \* bound: times are in 1..MaxStamp
          MaxPage    \* bound: the limit a reader uses

ASSUME QueryAssumption == MaxStamp \in Nat /\ MaxPage \in Nat \ {0} /\ RowIds \subseteq Nat

VARIABLES table,  \* the rows of the table queried
          query,  \* what the reader asks, in which store
          pages   \* the pages it got

queryVars == <<table, query, pages>>

NoFilter == "not given"
NoNumber == 0

\* WHERE: each column that the filter names, and the two ends of the time.
Accepts(f, row, columns) ==
    /\ \A c \in columns : f[c] = NoFilter \/ row[c] = f[c]
    /\ f.startDate = NoNumber \/ row.createdAt >= f.startDate
    /\ f.endDate = NoNumber \/ row.createdAt <= f.endDate

\* ORDER BY `key`, with ties in any order.
Orders(rows, key, desc) ==
    {s \in SetToSeqs(rows) : \A i, j \in 1..Len(s) :
        i < j => IF desc THEN s[i][key] >= s[j][key] ELSE s[i][key] <= s[j][key]}

\* Faulty variant: the page ends at the limit, wherever it begins.
PageToLimit(s, f) == IF f.limit = NoNumber THEN s
                     ELSE SubSeq(s, f.offset + 1, Min({f.limit, Len(s)}))

\* LIMIT and OFFSET.
Page(s, f) == IF f.limit = NoNumber THEN s
              ELSE SubSeq(s, f.offset + 1, Min({f.offset + f.limit, Len(s)}))

Selected(f, columns) == {row \in table : Accepts(f, row, columns)}

SqliteQuerySessions(f) ==
    LET orders == Orders(Selected(f, {"agentId", "templateId"}), f.sortBy, f.desc)
    IN {Page(CHOOSE s \in orders : TRUE, f)}

SqliteQueryMessages(f) ==
    LET orders == Orders(Selected(f, {"agentId", "role"}), "createdAt", TRUE)
    IN {Page(CHOOSE s \in orders : TRUE, f)}

SqliteQueryToolCalls(f) ==
    LET orders == Orders(Selected(f, {"agentId", "toolName", "state"}), "createdAt", TRUE)
    IN {Page(CHOOSE s \in orders : TRUE, f)}

PostgresQuerySessions(f) ==
    {Page(s, f) : s \in Orders(Selected(f, {"agentId", "templateId"}), f.sortBy, f.desc)}

PostgresQueryMessages(f) ==
    {Page(s, f) : s \in Orders(Selected(f, {"agentId", "role"}), "createdAt", TRUE)}

PostgresQueryToolCalls(f) ==
    {Page(s, f) : s \in Orders(Selected(f, {"agentId", "toolName", "state"}),
                               "createdAt", TRUE)}

Answers(f) ==
    CASE query.store = "sqlite" /\ query.of = "sessions"    -> SqliteQuerySessions(f)
      [] query.store = "sqlite" /\ query.of = "messages"    -> SqliteQueryMessages(f)
      [] query.store = "sqlite" /\ query.of = "toolCalls"   -> SqliteQueryToolCalls(f)
      [] query.store = "postgres" /\ query.of = "sessions"  -> PostgresQuerySessions(f)
      [] query.store = "postgres" /\ query.of = "messages"  -> PostgresQueryMessages(f)
      [] query.store = "postgres" /\ query.of = "toolCalls" -> PostgresQueryToolCalls(f)
-----------------------------------------------------------------------------
\* One value stands in all the columns that a table compares with a filter.
Row(id, value, stamp) ==
    [id |-> id, agentId |-> value, templateId |-> value, role |-> value,
     toolName |-> value, state |-> value, createdAt |-> stamp, messageCount |-> id]

QueryInit ==
    /\ \E values \in [RowIds -> Values], stamps \in [RowIds -> 1..MaxStamp] :
          table = {Row(i, values[i], stamps[i]) : i \in RowIds}
    /\ \E store \in {"sqlite", "postgres"}, of \in {"sessions", "messages", "toolCalls"},
          value \in Values \cup {NoFilter}, start, end \in 0..MaxStamp, limit \in 0..MaxPage,
          sortBy \in {"createdAt", "messageCount"}, desc \in BOOLEAN :
          /\ of = "sessions" \/ (sortBy = "createdAt" /\ desc)
          /\ query = [store |-> store, of |-> of, sortBy |-> sortBy, desc |-> desc,
                      agentId |-> value, templateId |-> NoFilter, role |-> value,
                      toolName |-> NoFilter, state |-> value,
                      startDate |-> start, endDate |-> end, limit |-> limit, offset |-> 0]
    /\ pages = <<>>

Finished == pages # <<>> /\ (query.limit = NoNumber \/ Last(pages) = <<>>)

\* The reader asks for what follows the rows it has.
NextPage ==
    /\ ~Finished
    /\ \E page \in Answers([query EXCEPT !.offset = Len(FlattenSeq(pages))]) :
          pages' = Append(pages, page)
    /\ UNCHANGED <<table, query>>

QueryNext == NextPage

\* Nothing is saved while a reader fetches its pages: together they hold every
\* row that was asked for, once and in order.  In PostgreSQL, whose order of
\* rows with one time is any, this takes rows of different times, and
\* saveMessages gives all the rows of a list about the same.
PagesCover ==
    LET wanted == {row \in table : /\ query.agentId \in {NoFilter, row.agentId}
                                   /\ query.startDate <= row.createdAt
                                   /\ query.endDate = NoNumber \/ row.createdAt <= query.endDate}
        got == FlattenSeq(pages)
        apart == \A r, s \in table : r[query.sortBy] = s[query.sortBy] => r = s
    IN Finished /\ (query.store = "sqlite" \/ apart)
         => /\ Len(got) = Cardinality(wanted) /\ ToSet(got) = wanted
            /\ got \in Orders(wanted, query.sortBy, query.desc)
=============================================================================
