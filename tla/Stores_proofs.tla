---------------------------- MODULE Stores_proofs ----------------------------
(***************************************************************************)
(* Theorems about the SQL stores, for any number of callers, clients,      *)
(* sessions, agents, messages and calls: PostgresStore implements          *)
(* SessionTable, and its callers do not wait for each other for good; the  *)
(* tables of SqliteStore agree.                                            *)
(***************************************************************************)
EXTENDS PostgresStore, SqliteStore,
        FiniteSetTheorems, SequenceTheorems, WellFoundedInduction, TLAPS

-----------------------------------------------------------------------------
(* PostgresStore implements SessionTable.                                  *)

Places == 0..MaxRows
MessageList(m, n) == {<<k, m>> : k \in 0..(n - 1)}
StoredLists == {MessageList(m, n) : m \in 1..MaxCalls, n \in Places}
Rows == Nat \X Nat
Working == {w \in Callers : job[w] # NoJob}

Stages == {"connect", "delete", "deleting", "insert", "count", "commit", "upsert",
           "row", "cascade", "files", "fork", "fork messages", "fork write"}
Ops == {"save", "info", "delete", "fork", "fork messages", "fork write"}
Forks == {"fork", "fork messages", "fork write"}
Jobs == [op : Ops, at : Stages, agent : AllSessions, size : Places, seen : SUBSET Rows,
         gone : SUBSET Rows, put : Places, new : NewSessions \cup {NoSession},
         number : 1..MaxCalls]

TableTypeOK == /\ counts \in [AllSessions -> Places \cup {NoSession}]
               /\ rows \in [AllSessions -> StoredLists]
               /\ job \in [Callers -> Jobs \cup {NoJob}]
               /\ fresh \subseteq NewSessions
               /\ calls \in 0..MaxCalls

\* What a call may be doing, by its operation and the statement it has reached.
JobOK(j) ==
    /\ j.at \in {"delete", "deleting", "insert", "count", "commit"} => j.op = "save"
    /\ j.op = "save" => j.size > 0
    /\ j.op = "save" => j.at \in {"connect", "delete", "deleting", "insert", "count", "commit"}
    /\ j.at \in {"count", "commit"} => j.put = j.size
    /\ j.at = "insert" => j.put < j.size
    /\ j.at \notin {"insert", "count", "commit"} => j.put = 0 /\ j.gone = {}
    /\ j.at \in Forks => j.op = j.at
    /\ j.op \in Forks => j.at \in {"connect", j.op} /\ j.new \in NewSessions
    /\ j.seen \in StoredLists

JobsOK == \A w \in Working : JobOK(job[w])

\* Lists that share a message are the same list, whoever has read or copied
\* them; and no message has the number of a call that is still under way.
Known == {rows[a] : a \in AllSessions} \cup {job[w].seen : w \in Working}
ListsAreWhole == \A x, y \in Known : x \cap y # {} => x = y
NumbersAreNew ==
    /\ \A x \in Known : \A r \in x : r[2] <= calls /\ \A w \in Working : job[w].number # r[2]
    /\ \A w \in Working : job[w].number <= calls
    /\ \A v, w \in Working : job[v].number = job[w].number => v = w

\* What the locks give: a transaction that has deleted messages has deleted
\* all, one that has inserted some leaves none beside its own, and rivals have
\* neither while it is at it.
DeletesAll == \A w \in Working : job[w].gone \in {{}, rows[job[w].agent]}
InsertsAlone == \A w \in Working : job[w].put > 0 => /\ rows[job[w].agent] \subseteq job[w].gone
                                                     /\ counts[job[w].agent] # NoSession
OneWriter == \A v, w \in Working : v # w /\ job[v].agent = job[w].agent =>
                /\ job[v].gone = {} \/ job[w].gone = {}
                /\ job[v].put = 0 \/ job[w].put = 0
                /\ job[v].at = "cascade" => job[w].put = 0

\* The agent that a batchFork is about to write is nobody else's.
NewIsNew ==
    /\ \A b \in fresh : /\ counts[b] = NoSession
                        /\ \A w \in Working : b \notin {job[w].agent, job[w].new}
    /\ \A w \in Working : job[w].op \in Forks =>
          /\ counts[job[w].new] = NoSession
          /\ \A v \in Working : job[v].agent # job[w].new /\ (job[v].new = job[w].new => v = w)

tableVars == <<counts, rows>>

TableIInv == /\ TableTypeOK /\ JobsOK /\ ListsAreWhole /\ NumbersAreNew
             /\ DeletesAll /\ InsertsAlone /\ OneWriter /\ NewIsNew

-----------------------------------------------------------------------------
\* A caller at a statement has a call under way.
LEMMA AtWorks ==
    ASSUME TableIInv, NEW w \in Callers, job[w].at # "none"
    PROVE  w \in Working /\ job[w] \in Jobs /\ JobOK(job[w])
BY DEF TableIInv, TableTypeOK, JobsOK, Working, NoJob

\* A call under way is not the absence of one.
LEMMA NoJobApart == \A j \in Jobs : j # NoJob
<1> SUFFICES ASSUME NEW j \in Jobs, j = NoJob PROVE FALSE
  OBVIOUS
<1>1. j.at \in Stages
  BY DEF Jobs
<1>2. j.at = "none"
  BY DEF NoJob
<1>3. QED
  BY <1>1, <1>2 DEF Stages

\* The stored lists as values.
LEMMA StoredRows ==
    ASSUME TableIInv, NEW a \in AllSessions
    PROVE  rows[a] \in StoredLists /\ rows[a] \in SUBSET Rows /\ rows[a] \in Known
BY DEF TableIInv, TableTypeOK, StoredLists, MessageList, Rows, Places, Known

\* j is the call of w, further on.
Continues(w, j) ==
    /\ j.agent = job[w].agent /\ j.new = job[w].new /\ j.number = job[w].number
    /\ j.op \in Forks => job[w].op \in Forks
    /\ j.seen \in Known \cup {{}}

\* The locks that j has are those that the rivals of w leave it.
LocksOK(w, j) ==
    /\ j.gone \in {{}, rows[j.agent]}
    /\ j.put > 0 => rows[j.agent] \subseteq j.gone /\ counts[j.agent] # NoSession
    /\ \A v \in Working : v # w /\ job[v].agent = j.agent =>
          /\ job[v].gone = {} \/ j.gone = {}
          /\ job[v].put = 0 \/ j.put = 0
          /\ job[v].at = "cascade" => j.put = 0
          /\ j.at = "cascade" => job[v].put = 0

\* A call that keeps its locks has what its rivals left it.
LEMMA SameLocks ==
    ASSUME TableIInv, NEW w \in Working, NEW j,
           j.agent = job[w].agent, j.gone = job[w].gone, j.put = job[w].put, j.at # "cascade"
    PROVE  LocksOK(w, j)
BY DEF LocksOK, TableIInv, DeletesAll, InsertsAlone, OneWriter

\* A call that goes on without touching the tables keeps the invariant.
LEMMA JobMoves ==
    ASSUME TableIInv, NEW w \in Working, NEW j \in Jobs, JobOK(j), Continues(w, j), LocksOK(w, j),
           job' = [job EXCEPT ![w] = j],
           UNCHANGED <<counts, rows, fresh, calls>>
    PROVE  TableIInv'
<1> USE DEF Continues, LocksOK
<1>1. Working' = Working /\ \A v \in Working : v # w => job'[v] = job[v]
  BY NoJobApart DEF Working, TableIInv, TableTypeOK
<1>2. job'[w] = j
  BY DEF Working, TableIInv, TableTypeOK
<1>3. TableTypeOK'
  BY DEF TableIInv, TableTypeOK
<1>4. JobsOK'
  BY <1>1, <1>2 DEF TableIInv, JobsOK
<1>5. Known' \subseteq Known \cup {{}}
  BY <1>1, <1>2 DEF Known
<1>6. ListsAreWhole'
  BY <1>5 DEF TableIInv, ListsAreWhole
<1>7. NumbersAreNew'
  BY <1>1, <1>2, <1>5 DEF TableIInv, NumbersAreNew
<1>8. DeletesAll' /\ InsertsAlone'
  BY <1>1, <1>2 DEF TableIInv, DeletesAll, InsertsAlone
<1>9. OneWriter'
  BY <1>1, <1>2 DEF TableIInv, OneWriter
<1>10. NewIsNew'
  BY <1>1, <1>2 DEF TableIInv, NewIsNew
<1>11. QED
  BY <1>3, <1>4, <1>6, <1>7, <1>8, <1>9, <1>10 DEF TableIInv

\* Calls that end, one or all of them, leave the others as they were.
LEMMA JobsEnd ==
    ASSUME TableIInv, NEW S \in SUBSET Callers,
           job' = [w \in Callers |-> IF w \in S THEN NoJob ELSE job[w]],
           UNCHANGED <<counts, rows, fresh, calls>>
    PROVE  TableIInv'
<1>1. Working' = Working \ S /\ \A v \in Working' : job'[v] = job[v]
  BY DEF Working
<1>2. TableTypeOK'
  BY DEF TableIInv, TableTypeOK
<1>3. JobsOK'
  BY <1>1 DEF TableIInv, JobsOK
<1>4. Known' \subseteq Known
  BY <1>1 DEF Known
<1>5. ListsAreWhole'
  BY <1>4 DEF TableIInv, ListsAreWhole
<1>6. NumbersAreNew'
  BY <1>1, <1>4 DEF TableIInv, NumbersAreNew
<1>7. DeletesAll' /\ InsertsAlone'
  BY <1>1 DEF TableIInv, DeletesAll, InsertsAlone
<1>8. OneWriter'
  BY <1>1 DEF TableIInv, OneWriter
<1>9. NewIsNew'
  BY <1>1 DEF TableIInv, NewIsNew
<1>10. QED
  BY <1>2, <1>3, <1>5, <1>6, <1>7, <1>8, <1>9 DEF TableIInv
\* One call ends.
LEMMA JobEnds ==
    ASSUME TableIInv, NEW w \in Callers, job' = [job EXCEPT ![w] = NoJob],
           UNCHANGED <<counts, rows, fresh, calls>>
    PROVE  TableIInv'
<1>1. job' = [v \in Callers |-> IF v \in {w} THEN NoJob ELSE job[v]]
  BY DEF TableIInv, TableTypeOK
<1>2. QED
  BY <1>1, JobsEnd

\* Only a call that has reached a statement waits.
LEMMA DeadlockWorks ==
    ASSUME NEW w \in Callers, DeadlockDetected(w)
    PROVE  job' = [job EXCEPT ![w] = NoJob] /\ UNCHANGED <<counts, rows, fresh, calls>>
BY DEF DeadlockDetected, Ends

\* The statements that leave the committed tables alone.
LEMMA QuietStep ==
    ASSUME TableIInv, NEW w \in Callers,
           \/ Connect(w) \/ ConnectTimeout(w) \/ StartDelete(w) \/ FinishDelete(w)
           \/ Insert(w) \/ InsertFails(w) \/ UpdateCount(w) \/ DeleteAgentRow(w)
           \/ DeleteFiles(w) \/ ForkReadsInfo(w) \/ ForkReadsMessages(w)
           \/ DeadlockDetected(w)
    PROVE  TableIInv' /\ UNCHANGED tableVars
<1> USE PostgresAssumption DEF At
<1> DEFINE j == job[w]
<1>1. CASE ConnectTimeout(w) \/ InsertFails(w) \/ DeleteFiles(w) \/ DeadlockDetected(w)
  BY <1>1, JobEnds DEF ConnectTimeout, InsertFails, DeleteFiles, DeadlockDetected, Ends, tableVars
<1>2. CASE Connect(w)
  <2> DEFINE stage == CASE j.op = "save" -> "delete"
                        [] j.op = "info" -> "upsert"
                        [] j.op = "delete" -> "row"
                        [] OTHER -> j.op
             k == [j EXCEPT !.at = stage]
  <2>1. w \in Working /\ j \in Jobs /\ JobOK(j) /\ j.at = "connect"
    BY <1>2, AtWorks DEF Connect
  <2>2. \/ j.op = "save" /\ stage = "delete"
        \/ j.op = "info" /\ stage = "upsert"
        \/ j.op = "delete" /\ stage = "row"
        \/ j.op \in Forks /\ stage = j.op
    BY <2>1 DEF Jobs, Ops, Forks
  <2>3. job' = [job EXCEPT ![w] = k]
    BY <1>2 DEF Connect, Goes
  <2> HIDE DEF stage
  <2>4. k \in Jobs /\ k.at = stage /\ k.op = j.op /\ k.size = j.size /\ k.put = j.put
        /\ k.gone = j.gone /\ k.seen = j.seen /\ k.agent = j.agent /\ k.new = j.new
        /\ k.number = j.number
    BY <2>1, <2>2 DEF Jobs, Forks, Stages
  <2> HIDE DEF k
  <2>5. j.size > 0 \/ j.op # "save"
    BY <2>1 DEF JobOK
  <2>6. JobOK(k)
    BY <2>1, <2>2, <2>4, <2>5 DEF JobOK, Forks
  <2>7. Continues(w, k) /\ LocksOK(w, k)
    BY <2>1, <2>2, <2>4, SameLocks DEF Continues, Known, Forks
  <2>8. QED
    BY <1>2, <2>1, <2>3, <2>4, <2>6, <2>7, JobMoves DEF Connect, tableVars
<1>3. CASE StartDelete(w)
  <2> DEFINE k == [j EXCEPT !.at = "deleting", !.seen = rows[j.agent]]
  <2>1. w \in Working /\ j \in Jobs /\ JobOK(j) /\ j.at = "delete"
    BY <1>3, AtWorks DEF StartDelete
  <2>2. rows[j.agent] \in StoredLists /\ rows[j.agent] \in SUBSET Rows /\ rows[j.agent] \in Known
    BY <2>1, StoredRows DEF Jobs
  <2>3. k \in Jobs /\ JobOK(k)
    BY <2>1, <2>2 DEF Jobs, Stages, JobOK, Forks
  <2>4. Continues(w, k)
    BY <2>1, <2>2 DEF Continues, Jobs
  <2>5. LocksOK(w, k)
    <3>1. k.agent = j.agent /\ k.gone = j.gone /\ k.put = j.put /\ k.at # "cascade"
      BY <2>1 DEF Jobs
    <3> HIDE DEF k
    <3>2. QED
      BY <2>1, <3>1, SameLocks
  <2>6. job' = [job EXCEPT ![w] = k]
    BY <1>3 DEF StartDelete
  <2> HIDE DEF k
  <2>7. QED
    BY <1>3, <2>1, <2>3, <2>4, <2>5, <2>6, JobMoves DEF StartDelete, tableVars
<1>4. CASE FinishDelete(w)
  <2> DEFINE k == [j EXCEPT !.at = "insert", !.seen = {}, !.gone = j.seen \cap rows[j.agent]]
  <2>1. w \in Working /\ j \in Jobs /\ JobOK(j) /\ j.at = "deleting"
    BY <1>4, AtWorks DEF FinishDelete
  <2>2. j.seen \in Known /\ rows[j.agent] \in Known
    BY <2>1 DEF Jobs, Known
  <2>3. k.gone \in {{}, rows[j.agent]} /\ (k.gone # {} => j.seen = rows[j.agent])
    BY <2>1, <2>2 DEF TableIInv, ListsAreWhole, Jobs
  <2>4. k \in Jobs /\ JobOK(k)
    <3>1. MessageList(1, 0) = {}
      BY DEF MessageList
    <3>2. {} \in StoredLists
      BY <2>1, <3>1 DEF StoredLists, Places, TableIInv, TableTypeOK, Jobs
    <3>3. QED
      BY <2>1, <3>2 DEF Jobs, Stages, JobOK, Forks, Places
  <2>5. job' = [job EXCEPT ![w] = k]
    BY <1>4 DEF FinishDelete
  <2>6. ASSUME NEW v \in Working, v # w, job[v].agent = j.agent
        PROVE  job[v].gone = {} \/ k.gone = {}
    <3>1. v \in Rivals(w) /\ Deleting(w, j.seen) = {}
      BY <1>4, <2>1, <2>6
         DEF FinishDelete, WaitsFor, Rivals, Working, TableIInv, TableTypeOK, Jobs, Stages
    <3>2. job[v].gone \cap j.seen = {}
      BY <3>1 DEF Deleting
    <3>3. job[v].gone \in {{}, rows[j.agent]}
      BY <2>6 DEF TableIInv, DeletesAll
    <3>4. QED
      BY <2>3, <3>2, <3>3
  <2>7. k.put = 0 /\ k.at = "insert" /\ k.agent = j.agent
    BY <2>1 DEF JobOK, Jobs
  <2>8. Continues(w, k)
    BY <2>1 DEF Continues, Jobs
  <2> HIDE DEF k
  <2>9. LocksOK(w, k)
    BY <2>3, <2>6, <2>7 DEF LocksOK
  <2>10. QED
    BY <1>4, <2>1, <2>4, <2>5, <2>8, <2>9, JobMoves DEF FinishDelete, tableVars
<1>5. CASE Insert(w)
  <2> DEFINE k == [j EXCEPT !.put = j.put + 1,
                            !.at = IF j.put + 1 = j.size THEN "count" ELSE "insert"]
  <2>1. w \in Working /\ j \in Jobs /\ JobOK(j) /\ j.at = "insert"
    BY <1>5, AtWorks DEF Insert
  <2>2. j.put \in Places /\ j.size \in Places /\ j.put < j.size /\ j.op = "save"
    BY <2>1 DEF Jobs, JobOK
  <2>3. job' = [job EXCEPT ![w] = k]
    BY <1>5, <2>1 DEF Insert, Jobs
  <2>4. /\ k.put = j.put + 1 /\ k.op = j.op /\ k.size = j.size /\ k.gone = j.gone
        /\ k.seen = j.seen /\ k.agent = j.agent /\ k.new = j.new /\ k.number = j.number
        /\ k.at = IF k.put = k.size THEN "count" ELSE "insert"
    BY <2>1 DEF Jobs
  <2>5. k \in Jobs
    <3>1. j.put + 1 \in Places
      BY <2>2 DEF Places
    <3>2. QED
      BY <2>1, <3>1 DEF Jobs, Stages
  <2> HIDE DEF k
  <2>6. JobOK(k)
    BY <2>1, <2>2, <2>4 DEF JobOK, Forks, Places
  <2>7. counts[j.agent] # NoSession
    BY <1>5 DEF Insert, Refused
  <2>8. rows[j.agent] \subseteq j.gone
    <3>1. CASE j.put > 0
      BY <2>1, <3>1 DEF TableIInv, InsertsAlone
    <3>2. CASE j.put = 0
      <4>1. j.gone \in {{}, rows[j.agent]}
        BY <2>1 DEF TableIInv, DeletesAll
      <4>2. PICK m \in 1..MaxCalls, n \in Places : rows[j.agent] = MessageList(m, n)
        BY <2>1 DEF TableIInv, TableTypeOK, StoredLists, Jobs
      <4>3. n = 0 \/ <<0, m>> \in rows[j.agent]
        BY <4>2 DEF MessageList, Places
      <4>4. \A r \in rows[j.agent] \ j.gone : r[1] # 0
        BY <1>5, <3>2 DEF Insert, Refused
      <4>5. n = 0 => rows[j.agent] = {}
        BY <4>2 DEF MessageList
      <4>6. QED
        BY <4>1, <4>3, <4>4, <4>5
    <3>3. QED
      BY <2>2, <3>1, <3>2 DEF Places
  <2>9. ASSUME NEW v \in Working, v # w, job[v].agent = j.agent
        PROVE  job[v].put = 0 /\ job[v].at # "cascade"
    <3>1. v \in Rivals(w) /\ job[v] \in Jobs
      BY <2>9 DEF Rivals, Working, TableIInv, TableTypeOK, Jobs, Stages
    <3>2. ~(job[v].put > j.put) /\ job[v].at # "cascade"
      BY <1>5, <2>1, <3>1 DEF Insert, WaitsFor
    <3>3. CASE j.put = 0
      BY <3>1, <3>2, <3>3 DEF Jobs, Places
    <3>4. CASE j.put # 0
      BY <2>1, <2>9, <3>2, <3>4 DEF TableIInv, OneWriter
    <3>5. QED
      BY <3>3, <3>4
  <2>10. Continues(w, k)
    BY <2>1, <2>4 DEF Continues, Known
  <2>11. LocksOK(w, k)
    <3>1. j.gone \in {{}, rows[j.agent]}
      BY <2>1 DEF TableIInv, DeletesAll
    <3>2. \A v \in Working : v # w /\ job[v].agent = j.agent => job[v].gone = {} \/ j.gone = {}
      BY <2>1 DEF TableIInv, OneWriter
    <3>3. k.at # "cascade"
      BY <2>4
    <3>4. QED
      BY <2>4, <2>7, <2>8, <2>9, <3>1, <3>2, <3>3 DEF LocksOK
  <2>12. QED
    BY <1>5, <2>1, <2>3, <2>5, <2>6, <2>10, <2>11, JobMoves DEF Insert, tableVars
<1>6. CASE UpdateCount(w)
  <2> DEFINE k == [j EXCEPT !.at = "commit"]
  <2>1. w \in Working /\ j \in Jobs /\ JobOK(j) /\ j.at = "count"
    BY <1>6, AtWorks DEF UpdateCount
  <2>2. k \in Jobs /\ JobOK(k)
    BY <2>1 DEF Jobs, Stages, JobOK, Forks
  <2>3. job' = [job EXCEPT ![w] = k]
    BY <1>6 DEF UpdateCount, Goes
  <2>4. Continues(w, k)
    BY <2>1 DEF Continues, Jobs, Known
  <2>5. LocksOK(w, k)
    BY <2>1, SameLocks DEF Jobs
  <2> HIDE DEF k
  <2>6. QED
    BY <1>6, <2>1, <2>2, <2>3, <2>4, <2>5, JobMoves DEF UpdateCount, tableVars
<1>7. CASE DeleteAgentRow(w)
  <2> DEFINE stage == IF counts[j.agent] = NoSession THEN "files" ELSE "cascade"
             k == [j EXCEPT !.at = stage]
  <2>1. w \in Working /\ j \in Jobs /\ JobOK(j) /\ j.at = "row"
    BY <1>7, AtWorks DEF DeleteAgentRow
  <2>2. k \in Jobs /\ JobOK(k)
    BY <2>1 DEF Jobs, Stages, JobOK, Forks
  <2>3. job' = [job EXCEPT ![w] = k]
    BY <1>7 DEF DeleteAgentRow, Goes
  <2>4. ASSUME NEW v \in Working, v # w, job[v].agent = j.agent
        PROVE  job[v].put = 0
    <3>1. v \in Rivals(w) /\ job[v] \in Jobs
      BY <2>4 DEF Rivals, Working, TableIInv, TableTypeOK, Jobs, Stages
    <3>2. v \notin Sharing(w)
      BY <1>7, <2>1 DEF DeleteAgentRow, WaitsFor
    <3>3. QED
      BY <3>1, <3>2 DEF Sharing, Jobs, Places
  <2>5. k.put = 0 /\ k.gone = {} /\ k.agent = j.agent
    BY <2>1 DEF JobOK, Jobs
  <2>6. Continues(w, k)
    BY <2>1 DEF Continues, Jobs, Known
  <2> HIDE DEF k
  <2>7. LocksOK(w, k)
    BY <2>4, <2>5 DEF LocksOK
  <2>8. QED
    BY <1>7, <2>1, <2>2, <2>3, <2>6, <2>7, JobMoves DEF DeleteAgentRow, tableVars
<1>8. CASE ForkReadsInfo(w)
  <2>1. CASE counts[j.agent] = NoSession
    BY <1>8, <2>1, JobEnds DEF ForkReadsInfo, tableVars
  <2>2. CASE counts[j.agent] # NoSession
    <3> DEFINE k == [j EXCEPT !.op = "fork messages", !.at = "connect",
                              !.size = counts[j.agent]]
    <3>1. w \in Working /\ j \in Jobs /\ JobOK(j) /\ j.at = "fork" /\ j.op = "fork"
      BY <1>8, AtWorks DEF ForkReadsInfo, JobOK, Forks
    <3>2. counts[j.agent] \in Places
      BY <2>2, <3>1 DEF TableIInv, TableTypeOK, Jobs
    <3>3. k \in Jobs /\ JobOK(k)
      BY <3>1, <3>2 DEF Jobs, Stages, Ops, JobOK, Forks
    <3>4. job' = [job EXCEPT ![w] = k]
      BY <1>8, <2>2 DEF ForkReadsInfo
    <3>5. Continues(w, k)
      BY <3>1 DEF Continues, Known, Jobs, Forks
    <3>6. LocksOK(w, k)
      <4>1. k.agent = j.agent /\ k.gone = j.gone /\ k.put = j.put /\ k.at # "cascade"
        BY <3>1 DEF Jobs
      <4> HIDE DEF k
      <4>2. QED
        BY <3>1, <4>1, SameLocks
    <3> HIDE DEF k
    <3>7. QED
      BY <1>8, <3>1, <3>3, <3>4, <3>5, <3>6, JobMoves DEF ForkReadsInfo, tableVars
  <2>3. QED
    BY <2>1, <2>2
<1>9. CASE ForkReadsMessages(w)
  <2> DEFINE k == [j EXCEPT !.op = "fork write", !.at = "connect", !.seen = rows[j.agent]]
  <2>1. w \in Working /\ j \in Jobs /\ JobOK(j) /\ j.at = "fork messages" /\ j.op = "fork messages"
    BY <1>9, AtWorks DEF ForkReadsMessages, JobOK, Forks
  <2>2. rows[j.agent] \in StoredLists /\ rows[j.agent] \in SUBSET Rows /\ rows[j.agent] \in Known
    BY <2>1, StoredRows DEF Jobs
  <2>3. k \in Jobs /\ JobOK(k)
    BY <2>1, <2>2 DEF Jobs, Stages, Ops, JobOK, Forks
  <2>4. job' = [job EXCEPT ![w] = k]
    BY <1>9 DEF ForkReadsMessages
  <2>5. Continues(w, k)
    BY <2>1, <2>2 DEF Continues, Jobs, Forks
  <2>6. LocksOK(w, k)
    <3>1. k.agent = j.agent /\ k.gone = j.gone /\ k.put = j.put /\ k.at # "cascade"
      BY <2>1 DEF Jobs
    <3> HIDE DEF k
    <3>2. QED
      BY <2>1, <3>1, SameLocks
  <2> HIDE DEF k
  <2>7. QED
    BY <1>9, <2>1, <2>3, <2>4, <2>5, <2>6, JobMoves DEF ForkReadsMessages, tableVars
<1>10. QED
  BY <1>1, <1>2, <1>3, <1>4, <1>5, <1>6, <1>7, <1>8, <1>9
-----------------------------------------------------------------------------
\* A list that is known already, or of a call that ends.
MayStore(list) ==
    /\ \A x \in Known : x \cap list # {} => x = list
    /\ \A r \in list : r[2] <= calls /\ \A v \in Working' : job[v].number # r[2]

\* A list and a count of agent a that go past no lock, nor to the agent of
\* somebody's fork.
MayWrite(w, a, list, n) ==
    /\ a \notin fresh
    /\ \A v \in Working \ {w} : job[v].agent = a => \/ list = rows[a] /\ n # NoSession
                                                    \/ job[v].gone = {} /\ job[v].put = 0
    /\ \A v \in Working \ {w} : job[v].op \in Forks => job[v].new # a

\* w writes a list and a count for agent a, and is done with the tables.
LEMMA TableChanges ==
    ASSUME TableIInv, NEW w \in Working, NEW a \in AllSessions, NEW list \in StoredLists,
           NEW n \in Places \cup {NoSession},
           counts' = [counts EXCEPT ![a] = n], rows' = [rows EXCEPT ![a] = list],
           \/ job' = [job EXCEPT ![w] = NoJob]
           \/ job[w].at = "cascade" /\ job' = [job EXCEPT ![w].at = "files"],
           UNCHANGED <<fresh, calls>>,
           MayStore(list), MayWrite(w, a, list, n)
    PROVE  TableIInv'
<1> USE DEF MayStore, MayWrite
<1>1. \/ Working' = Working \ {w}
      \/ /\ Working' = Working /\ job[w] \in Jobs /\ JobOK(job[w])
         /\ job[w].at = "cascade" /\ job'[w] = [job[w] EXCEPT !.at = "files"]
  BY NoJobApart DEF Working, TableIInv, TableTypeOK, JobsOK, NoJob
<1>2. \A v \in Working' : v # w => v \in Working /\ job'[v] = job[v]
  BY <1>1 DEF TableIInv, TableTypeOK, Working
<1>3. w \in Working' => /\ job'[w] \in Jobs /\ JobOK(job'[w])
                        /\ job'[w].at = "files" /\ job'[w].put = 0 /\ job'[w].gone = {}
                        /\ job'[w].agent = job[w].agent /\ job'[w].new = job[w].new
                        /\ job'[w].number = job[w].number /\ job'[w].op = job[w].op
                        /\ job'[w].seen = job[w].seen
                        /\ job'[w].op \notin Forks
  BY <1>1 DEF Jobs, Stages, JobOK, Forks, Working
<1>4. TableTypeOK'
  <2>1. job' \in [Callers -> Jobs \cup {NoJob}]
    BY <1>3 DEF TableIInv, TableTypeOK, Working
  <2>2. QED
    BY <2>1 DEF TableIInv, TableTypeOK
<1>5. JobsOK'
  BY <1>2, <1>3 DEF TableIInv, JobsOK
<1>6. Known' \subseteq Known \cup {list}
  BY <1>2, <1>3 DEF Known, TableIInv, TableTypeOK, Working
<1>7. ListsAreWhole'
  BY <1>6 DEF TableIInv, ListsAreWhole
<1>8. NumbersAreNew'
  <2>1. \A v \in Working' : v \in Working /\ job'[v].number = job[v].number
    BY <1>1, <1>2, <1>3
  <2>2. \A x \in Known' : \A r \in x : r[2] <= calls /\ \A v \in Working' : job[v].number # r[2]
    BY <1>6, <2>1 DEF TableIInv, NumbersAreNew
  <2>3. QED
    BY <2>1, <2>2 DEF TableIInv, NumbersAreNew
<1>9. DeletesAll' /\ InsertsAlone'
  <2> SUFFICES ASSUME NEW v \in Working'
               PROVE  /\ job'[v].gone \in {{}, rows'[job'[v].agent]}
                      /\ job'[v].put > 0 => /\ rows'[job'[v].agent] \subseteq job'[v].gone
                                            /\ counts'[job'[v].agent] # NoSession
    BY DEF DeletesAll, InsertsAlone
  <2>1. CASE v = w
    BY <1>3, <2>1
  <2>2. CASE v # w
    <3>1. v \in Working /\ job'[v] = job[v] /\ job[v] \in Jobs
      BY <1>2, <2>2 DEF Working, TableIInv, TableTypeOK
    <3>2. CASE job[v].agent = a
      BY <2>2, <3>1, <3>2 DEF TableIInv, TableTypeOK, DeletesAll, InsertsAlone
    <3>3. CASE job[v].agent # a
      BY <3>1, <3>3 DEF TableIInv, TableTypeOK, DeletesAll, InsertsAlone, Jobs
    <3>4. QED
      BY <3>2, <3>3
  <2>3. QED
    BY <2>1, <2>2
<1>10. OneWriter'
  BY <1>2, <1>3 DEF TableIInv, OneWriter
<1>11. NewIsNew'
  <2>1. \A v \in Working' : /\ v \in Working
                            /\ job'[v].agent = job[v].agent /\ job'[v].new = job[v].new
                            /\ job'[v].op = job[v].op /\ (job[v].op \in Forks => v # w)
    BY <1>1, <1>2, <1>3
  <2>2. \A b \in AllSessions : b # a => counts'[b] = counts[b]
    BY DEF TableIInv, TableTypeOK
  <2>3. \A v \in Working : job[v].op \in Forks => job[v].new \in AllSessions
    BY DEF TableIInv, JobsOK, JobOK, AllSessions
  <2>4. fresh \subseteq AllSessions
    BY DEF TableIInv, TableTypeOK, AllSessions
  <2>5. QED
    BY <2>1, <2>2, <2>3, <2>4 DEF TableIInv, NewIsNew
<1>12. QED
  BY <1>4, <1>5, <1>7, <1>8, <1>9, <1>10, <1>11 DEF TableIInv

\* The end of saveMessages: the list that is left is the new one, since the
\* transaction has deleted all of the old.
LEMMA CommitStep ==
    ASSUME TableIInv, NEW w \in Callers, Commit(w)
    PROVE  TableIInv' /\ Table!Next
<1> DEFINE j == job[w]
           a == j.agent
           list == MessageList(j.number, j.put)
<1>1. w \in Working /\ j \in Jobs /\ JobOK(j) /\ j.at = "commit"
  BY AtWorks DEF Commit, At
<1>2. /\ j.put = j.size /\ j.put > 0 /\ a \in AllSessions /\ j.size \in Places
      /\ j.number \in 1..MaxCalls
  BY <1>1 DEF JobOK, Jobs, Places
<1>3. counts[a] # NoSession /\ rows[a] \subseteq j.gone
  BY <1>1, <1>2 DEF TableIInv, InsertsAlone
<1>4. list \in StoredLists
  BY <1>2 DEF StoredLists
<1>5. rows' = [rows EXCEPT ![a] = list] /\ counts' = [counts EXCEPT ![a] = j.size]
  BY <1>2, <1>3 DEF Commit, MessageList, TableIInv, TableTypeOK
<1>6. ASSUME NEW v \in Working \ {w}, job[v].agent = a
      PROVE  job[v].gone = {} /\ job[v].put = 0
  <2>1. job[v].put = 0
    BY <1>1, <1>2, <1>6 DEF TableIInv, OneWriter
  <2>2. job[v].gone \in {{}, rows[a]} /\ (job[v].gone = {} \/ j.gone = {})
    BY <1>1, <1>6 DEF TableIInv, DeletesAll, OneWriter
  <2>3. QED
    BY <1>3, <2>1, <2>2
<1>7. \A r \in list : r[2] = j.number
  BY DEF MessageList
<1>8. \A x \in Known : x \cap list = {}
  BY <1>1, <1>7 DEF TableIInv, NumbersAreNew
<1>9. Working' = Working \ {w} /\ job' = [job EXCEPT ![w] = NoJob]
  BY DEF Commit, Ends, Working, TableIInv, TableTypeOK
<1>10. \A r \in list : r[2] <= calls /\ \A v \in Working' : job[v].number # r[2]
  BY <1>1, <1>7, <1>9 DEF TableIInv, NumbersAreNew
<1>11. a \notin fresh /\ \A v \in Working \ {w} : job[v].op \in Forks => job[v].new # a
  BY <1>1 DEF TableIInv, NewIsNew
<1>12. Table!Next
  <2>1. list = Table!List(j.number, j.size)
    BY <1>2 DEF Table!List, MessageList
  <2>2. Table!Put(a, j.size, Table!List(j.number, j.size))
    BY <1>5, <2>1 DEF Table!Put
  <2>3. Table!Save(a)
    BY <1>2, <1>3, <2>2 DEF Table!Save, Places
  <2>4. QED
    BY <1>2, <2>3 DEF Table!Next
<1>13. UNCHANGED <<fresh, calls>>
  BY DEF Commit
<1>14. TableIInv'
  <2>1. MayStore(list)
    BY <1>8, <1>10 DEF MayStore
  <2>2. MayWrite(w, a, list, j.size)
    BY <1>6, <1>11 DEF MayWrite
  <2> HIDE DEF a, list
  <2>3. QED
    BY <1>1, <1>2, <1>4, <1>5, <1>9, <1>13, <2>1, <2>2, TableChanges
<1>15. QED
  BY <1>12, <1>14

\* saveInfo changes the count alone.
LEMMA SaveInfoStep ==
    ASSUME TableIInv, NEW w \in Callers, SaveInfoRow(w)
    PROVE  TableIInv' /\ Table!Next
<1> DEFINE j == job[w]
           a == j.agent
           list == rows[a]
<1>1. w \in Working /\ j \in Jobs /\ JobOK(j) /\ j.at = "upsert"
  BY AtWorks DEF SaveInfoRow, At
<1>2. a \in AllSessions /\ j.size \in Places /\ j.size # NoSession
  BY <1>1, PostgresAssumption DEF Jobs, Places
<1>3. rows' = [rows EXCEPT ![a] = list] /\ counts' = [counts EXCEPT ![a] = j.size]
  BY <1>2 DEF SaveInfoRow, TableIInv, TableTypeOK
<1>4. list \in StoredLists /\ list \in Known
  BY <1>2, StoredRows
<1>5. /\ \A x \in Known : x \cap list # {} => x = list
      /\ \A r \in list : r[2] <= calls /\ \A v \in Working : job[v].number # r[2]
  BY <1>4 DEF TableIInv, ListsAreWhole, NumbersAreNew
<1>6. Working' = Working \ {w} /\ job' = [job EXCEPT ![w] = NoJob] /\ UNCHANGED <<fresh, calls>>
  BY DEF SaveInfoRow, Ends, Working, TableIInv, TableTypeOK
<1>7. a \notin fresh /\ \A v \in Working \ {w} : job[v].op \in Forks => job[v].new # a
  BY <1>1 DEF TableIInv, NewIsNew
<1>8. Table!Next
  <2>1. Table!SaveInfo(a)
    BY <1>2, <1>3 DEF Table!SaveInfo, Table!Put, Places
  <2>2. QED
    BY <1>2, <2>1 DEF Table!Next
<1>9. TableIInv'
  <2>1. MayStore(list)
    BY <1>5, <1>6 DEF MayStore
  <2>2. MayWrite(w, a, list, j.size)
    BY <1>2, <1>7 DEF MayWrite
  <2> HIDE DEF a, list
  <2>3. QED
    BY <1>1, <1>2, <1>3, <1>4, <1>6, <2>1, <2>2, TableChanges
<1>10. QED
  BY <1>8, <1>9

\* delete removes the row and its messages, under nobody's lock.
LEMMA CascadeStep ==
    ASSUME TableIInv, NEW w \in Callers, Cascade(w)
    PROVE  TableIInv' /\ Table!Next
<1> DEFINE j == job[w]
           a == j.agent
<1>1. w \in Working /\ j \in Jobs /\ JobOK(j) /\ j.at = "cascade"
  BY AtWorks DEF Cascade, At
<1>2. a \in AllSessions /\ j.number \in 1..MaxCalls
  BY <1>1 DEF Jobs
<1>3. rows' = [rows EXCEPT ![a] = {}] /\ counts' = [counts EXCEPT ![a] = NoSession]
  BY DEF Cascade
<1>4. {} \in StoredLists
  <2>1. MessageList(j.number, 0) = {}
    BY DEF MessageList
  <2>2. QED
    BY <1>2, <2>1, PostgresAssumption DEF StoredLists, Places
<1>5. ASSUME NEW v \in Working \ {w}, job[v].agent = a
      PROVE  job[v].gone = {} /\ job[v].put = 0
  <2>1. job[v].put = 0
    BY <1>1, <1>5 DEF TableIInv, OneWriter
  <2>2. v \in Rivals(w)
    BY <1>5 DEF Rivals, Working, TableIInv, TableTypeOK, Jobs, Stages
  <2>3. job[v].gone \cap rows[a] = {}
    BY <1>1, <2>2 DEF Cascade, WaitsFor, Deleting
  <2>4. job[v].gone \in {{}, rows[a]}
    BY <1>5 DEF TableIInv, DeletesAll
  <2>5. QED
    BY <2>1, <2>3, <2>4
<1>6. job[w].at = "cascade" /\ job' = [job EXCEPT ![w].at = "files"] /\ UNCHANGED <<fresh, calls>>
  BY <1>1 DEF Cascade, Goes
<1>7. a \notin fresh /\ \A v \in Working \ {w} : job[v].op \in Forks => job[v].new # a
  BY <1>1 DEF TableIInv, NewIsNew
<1>8. Table!Next
  <2>1. Table!Remove(a)
    BY <1>3 DEF Table!Remove, Table!Put
  <2>2. QED
    BY <1>2, <2>1 DEF Table!Next
<1>9. TableIInv'
  <2>1. MayStore({})
    BY DEF MayStore
  <2>2. MayWrite(w, a, {}, NoSession)
    BY <1>5, <1>7 DEF MayWrite
  <2> HIDE DEF a
  <2>3. QED
    BY <1>1, <1>2, <1>3, <1>4, <1>6, <2>1, <2>2, TableChanges
<1>10. QED
  BY <1>8, <1>9

\* batchFork writes an agent that was nobody's.
LEMMA ForkStep ==
    ASSUME TableIInv, NEW w \in Callers, ForkCommits(w)
    PROVE  TableIInv' /\ Table!Next
<1> DEFINE j == job[w]
           a == j.new
           list == j.seen
<1>1. w \in Working /\ j \in Jobs /\ JobOK(j) /\ j.at = "fork write"
  BY AtWorks DEF ForkCommits, At
<1>2. j.op \in Forks /\ a \in AllSessions /\ j.size \in Places /\ list \in StoredLists
      /\ list \in Known
  BY <1>1 DEF JobOK, Jobs, Forks, AllSessions, Known
<1>3. rows' = [rows EXCEPT ![a] = list] /\ counts' = [counts EXCEPT ![a] = j.size]
  BY DEF ForkCommits
<1>4. /\ \A x \in Known : x \cap list # {} => x = list
      /\ \A r \in list : r[2] <= calls /\ \A v \in Working : job[v].number # r[2]
  BY <1>2 DEF TableIInv, ListsAreWhole, NumbersAreNew
<1>5. Working' = Working \ {w} /\ job' = [job EXCEPT ![w] = NoJob] /\ UNCHANGED <<fresh, calls>>
  BY DEF ForkCommits, Ends, Working, TableIInv, TableTypeOK
<1>6. /\ a \notin fresh /\ counts[a] = NoSession
      /\ \A v \in Working : job[v].agent # a /\ (v # w => job[v].new # a)
  BY <1>1, <1>2 DEF TableIInv, NewIsNew
<1>7. Table!Next
  <2>1. list \in Table!Lists
    BY <1>2 DEF StoredLists, MessageList, Table!Lists, Table!List, Places
  <2>2. Table!Fork(a)
    BY <1>2, <1>3, <1>6, <2>1 DEF Table!Fork, Table!Put, Places
  <2>3. QED
    BY <1>2, <2>2 DEF Table!Next
<1>8. TableIInv'
  <2>1. MayStore(list)
    BY <1>4, <1>5 DEF MayStore
  <2>2. MayWrite(w, a, list, j.size)
    BY <1>6 DEF MayWrite
  <2> HIDE DEF a, list
  <2>3. QED
    BY <1>1, <1>2, <1>3, <1>5, <2>1, <2>2, TableChanges
<1>9. QED
  BY <1>7, <1>8
-----------------------------------------------------------------------------
\* A new call has nothing yet, and a number of its own.
LEMMA CallStep ==
    ASSUME TableIInv, NEW w \in Callers, Call(w)
    PROVE  TableIInv' /\ UNCHANGED tableVars
<1>1. w \notin Working /\ calls < MaxCalls /\ calls' = calls + 1 /\ UNCHANGED <<counts, rows>>
  BY DEF Call, Working
<1>2. calls \in Nat /\ calls + 1 \in 1..MaxCalls /\ MaxCalls \in Nat
  BY <1>1, PostgresAssumption DEF TableIInv, TableTypeOK
<1>3. PICK a \in Sessions \cup {b \in NewSessions : counts[b] # NoSession},
           op \in {"save", "info", "delete", "fork"}, size \in Places,
           new \in NewSessions \cup {NoSession} :
        /\ job' = [job EXCEPT ![w] = Job(op, a, size, new)]
        /\ op = "save" => size > 0
        /\ IF op = "fork" THEN new \in fresh /\ fresh' = fresh \ {new}
                          ELSE new = NoSession /\ fresh' = fresh
  BY PostgresAssumption DEF Call, TableIInv, TableTypeOK, Places
<1> DEFINE j == Job(op, a, size, new)
<1>4. /\ j.op = op /\ j.at = "connect" /\ j.agent = a /\ j.size = size /\ j.seen = {}
      /\ j.gone = {} /\ j.put = 0 /\ j.new = new /\ j.number = calls + 1
  BY DEF Job
<1>5. a \in AllSessions /\ j \in Jobs
  <2>1. a \in AllSessions
    BY DEF AllSessions
  <2>2. 0 \in Places
    BY PostgresAssumption DEF Places
  <2>3. op \in Ops /\ "connect" \in Stages
    BY DEF Ops, Stages
  <2>4. QED
    BY <1>2, <2>1, <2>2, <2>3 DEF Job, Jobs
<1> HIDE DEF j
<1>6. Working' = Working \cup {w} /\ job'[w] = j /\ \A v \in Working : job'[v] = job[v]
  BY <1>1, <1>3, <1>5, NoJobApart DEF j, Working, TableIInv, TableTypeOK
<1>7. {} \in StoredLists
  <2>1. MessageList(calls + 1, 0) = {}
    BY DEF MessageList
  <2>2. QED
    BY <1>2, <2>1, PostgresAssumption DEF StoredLists, Places
<1>8. JobOK(j)
  BY <1>3, <1>4, <1>7 DEF JobOK, Forks, TableIInv, TableTypeOK
<1>9. TableTypeOK'
  <2>1. job' \in [Callers -> Jobs \cup {NoJob}]
    BY <1>3, <1>5 DEF j, TableIInv, TableTypeOK
  <2>2. fresh' \subseteq NewSessions
    BY <1>3 DEF TableIInv, TableTypeOK
  <2>3. QED
    BY <1>1, <1>2, <2>1, <2>2 DEF TableIInv, TableTypeOK
<1>10. JobsOK'
  BY <1>6, <1>8 DEF TableIInv, JobsOK
<1>11. Known' \subseteq Known \cup {{}}
  BY <1>1, <1>4, <1>6 DEF Known
<1>12. ListsAreWhole'
  BY <1>11 DEF TableIInv, ListsAreWhole
<1>13. NumbersAreNew'
  <2>1. \A x \in Known : \A r \in x : r[2] <= calls /\ r[2] \in Nat
    <3>1. \A x \in Known : x \in SUBSET Rows
      BY StoredRows DEF Known, TableIInv, TableTypeOK, Working, Jobs
    <3>2. QED
      BY <3>1 DEF Rows, TableIInv, NumbersAreNew
  <2>2. \A v \in Working : job[v].number <= calls /\ job[v].number \in Nat
    BY DEF TableIInv, NumbersAreNew, TableTypeOK, Working, Jobs
  <2>3. \A x \in Known' : \A r \in x :
          r[2] <= calls + 1 /\ \A v \in Working' : job'[v].number # r[2]
    BY <1>2, <1>4, <1>6, <1>11, <2>1 DEF TableIInv, NumbersAreNew
  <2>4. \A u, v \in Working' : job'[u].number = job'[v].number => u = v
    BY <1>2, <1>4, <1>6, <2>2 DEF TableIInv, NumbersAreNew
  <2>5. \A v \in Working' : job'[v].number <= calls + 1
    BY <1>2, <1>4, <1>6, <2>2
  <2>6. QED
    BY <1>1, <2>3, <2>4, <2>5 DEF NumbersAreNew
<1>14. DeletesAll' /\ InsertsAlone'
  BY <1>1, <1>4, <1>6 DEF TableIInv, DeletesAll, InsertsAlone
<1>15. OneWriter'
  BY <1>1, <1>4, <1>6 DEF TableIInv, OneWriter
<1>16. NewIsNew'
  <2>1. a \notin fresh /\ \A v \in Working : job[v].op \in Forks => job[v].new # a
    <3>1. \A v \in Working : job[v].op \in Forks => job[v].new \in NewSessions
                                                    /\ counts[job[v].new] = NoSession
      BY DEF TableIInv, JobsOK, JobOK, NewIsNew
    <3>2. \A b \in fresh : b \in NewSessions /\ counts[b] = NoSession
      BY DEF TableIInv, TableTypeOK, NewIsNew
    <3>3. QED
      BY <1>3, <3>1, <3>2, PostgresAssumption
  <2>2. fresh' \subseteq fresh /\ new \notin fresh' /\ a \notin fresh'
    BY <1>3, <2>1, PostgresAssumption DEF TableIInv, TableTypeOK
  <2>3. op \in Forks => new \in fresh /\ a # new
    BY <1>3, <2>1 DEF Forks
  <2>4. \A b \in fresh' : /\ counts'[b] = NoSession
                          /\ \A v \in Working' : b \notin {job'[v].agent, job'[v].new}
    BY <1>1, <1>4, <1>6, <2>2 DEF TableIInv, NewIsNew
  <2>5. \A b \in fresh : counts[b] = NoSession
                        /\ \A v \in Working : job[v].agent # b /\ job[v].new # b
    BY DEF TableIInv, NewIsNew
  <2>6. op \in Forks => /\ counts'[new] = NoSession
                        /\ \A v \in Working' : job'[v].agent # new /\ (job'[v].new = new => v = w)
    BY <1>1, <1>4, <1>6, <2>3, <2>5
  <2>7. ASSUME NEW v \in Working, job[v].op \in Forks
        PROVE  /\ counts'[job[v].new] = NoSession
               /\ \A u \in Working' : job'[u].agent # job[v].new
                                     /\ (job'[u].new = job[v].new => u = v)
    <3>1. job[v].new \in NewSessions
      BY <2>7 DEF TableIInv, JobsOK, JobOK
    <3>2. new # job[v].new
      BY <1>3, <2>5, <3>1, PostgresAssumption
    <3>3. QED
      BY <1>1, <1>4, <1>6, <2>1, <2>7, <3>2 DEF TableIInv, NewIsNew
  <2>8. QED
    BY <1>4, <1>6, <2>4, <2>6, <2>7 DEF NewIsNew
<1>17. QED
  BY <1>1, <1>9, <1>10, <1>12, <1>13, <1>14, <1>15, <1>16 DEF TableIInv, tableVars

\* A crash rolls back what was under way.
LEMMA CrashStep ==
    ASSUME TableIInv, CallersCrash
    PROVE  TableIInv' /\ UNCHANGED tableVars
<1>1. job' = [w \in Callers |-> IF w \in Callers THEN NoJob ELSE job[w]]
  BY DEF CallersCrash
<1>2. QED
  BY <1>1, JobsEnd DEF CallersCrash, tableVars

\* The beginning.
LEMMA TableInitHolds == PostgresInit => TableIInv /\ Table!Init
<1> SUFFICES ASSUME PostgresInit PROVE TableIInv /\ Table!Init
  OBVIOUS
<1>1. Working = {}
  BY DEF PostgresInit, Working
<1>2. Known \subseteq {{}}
  BY <1>1 DEF PostgresInit, Known
<1>3. JobsOK /\ ListsAreWhole /\ NumbersAreNew /\ DeletesAll /\ InsertsAlone /\ OneWriter
  BY <1>1, <1>2 DEF JobsOK, ListsAreWhole, NumbersAreNew, DeletesAll, InsertsAlone, OneWriter
<1>4. NewIsNew
  BY <1>1 DEF PostgresInit, NewIsNew
<1>5. Table!Init
  BY DEF PostgresInit, Table!Init
<1>6. {} \in StoredLists
  <2>1. MessageList(1, 0) = {}
    BY DEF MessageList
  <2>2. QED
    BY <2>1, PostgresAssumption DEF StoredLists, Places
<1>7. TableTypeOK
  BY <1>6, PostgresAssumption DEF TableTypeOK, PostgresInit, Places
<1>8. QED
  BY <1>3, <1>4, <1>5, <1>7 DEF TableIInv

\* Every step keeps the invariant and is one of the abstract store, or none.
LEMMA TableStep ==
    TableIInv /\ [PostgresNext]_postgresVars => TableIInv' /\ [Table!Next]_tableVars
<1> SUFFICES ASSUME TableIInv, [PostgresNext]_postgresVars
             PROVE  TableIInv' /\ [Table!Next]_tableVars
  OBVIOUS
<1>1. CASE UNCHANGED postgresVars
  <2>1. job' = [w \in Callers |-> IF w \in {} THEN NoJob ELSE job[w]]
    BY <1>1 DEF postgresVars, TableIInv, TableTypeOK
  <2>2. UNCHANGED <<counts, rows, fresh, calls>> /\ {} \in SUBSET Callers
    BY <1>1 DEF postgresVars
  <2>3. TableIInv'
    BY <2>1, <2>2, JobsEnd
  <2>4. QED
    BY <2>2, <2>3 DEF tableVars
<1>2. CASE CallersCrash
  BY <1>2, CrashStep
<1>3. ASSUME NEW w \in Callers, Call(w)
      PROVE  TableIInv' /\ UNCHANGED tableVars
  BY <1>3, CallStep
<1>4. ASSUME NEW w \in Callers, Statement(w)
      PROVE  TableIInv' /\ [Table!Next]_tableVars
  BY <1>4, QuietStep, CommitStep, SaveInfoStep, CascadeStep, ForkStep DEF Statement
<1>5. QED
  BY <1>1, <1>2, <1>3, <1>4 DEF PostgresNext

-----------------------------------------------------------------------------
\* Whatever saves, deletes and forks overlap, and wherever they fail, time out,
\* deadlock or die with their process, the committed tables of PostgreSQL are
\* those of a store that replaces lists whole (saveMessages, saveInfo, delete and
\* batchFork).
THEOREM PostgresImplementsTable == PostgresSpec => ImplementsTable
<1>1. PostgresInit => Table!Init
  BY TableInitHolds
<1>2. PostgresInit /\ [][PostgresNext]_postgresVars => []TableIInv
  BY TableInitHolds, TableStep, PTL
<1>3. PostgresInit /\ [][PostgresNext]_postgresVars => [][Table!Next]_tableVars
  BY <1>2, TableStep, PTL
<1>4. QED
  BY <1>1, <1>3, PTL DEF PostgresSpec, ImplementsTable, Table!Spec, tableVars
-----------------------------------------------------------------------------
(* The clients of the pool, and who waits for whom.                        *)

Holders == {w \in Callers : ~At(w, {"none", "connect"})}

ClientsKept == /\ idle \in Nat
               /\ IsFiniteSet(Holders)
               /\ idle + Cardinality(Holders) = PoolSize

PostgresIInv == TableIInv /\ ClientsKept

\* What a caller does changes who holds a client for that caller alone.
LEMMA OneHolder ==
    ASSUME TableTypeOK, NEW w \in Callers, NEW j \in Jobs \cup {NoJob},
           job' = [job EXCEPT ![w] = j]
    PROVE  Holders' = IF j.at \in {"none", "connect"} THEN Holders \ {w} ELSE Holders \cup {w}
<1>1. job'[w] = j /\ \A v \in Callers \ {w} : job'[v] = job[v]
  BY DEF TableTypeOK
<1>2. QED
  BY <1>1 DEF Holders, At

\* A client stays where it is.
LEMMA ClientStays ==
    ASSUME TableTypeOK, ClientsKept, NEW w \in Callers, NEW j \in Jobs \cup {NoJob},
           job' = [job EXCEPT ![w] = j], idle' = idle,
           w \in Holders <=> j.at \notin {"none", "connect"}
    PROVE  ClientsKept'
<1>1. Holders' = Holders
  <2>1. CASE w \in Holders
    <3>1. Holders' = Holders \cup {w}
      BY <2>1, OneHolder
    <3>2. QED
      BY <2>1, <3>1
  <2>2. CASE w \notin Holders
    BY <2>2, OneHolder
  <2>3. QED
    BY <2>1, <2>2
<1>2. QED
  BY <1>1 DEF ClientsKept

\* A call takes a client from the pool.
LEMMA ClientTaken ==
    ASSUME TableTypeOK, ClientsKept, NEW w \in Callers \ Holders, NEW j \in Jobs \cup {NoJob},
           job' = [job EXCEPT ![w] = j], idle > 0, idle' = idle - 1,
           j.at \notin {"none", "connect"}
    PROVE  ClientsKept'
<1>1. Holders' = Holders \cup {w}
  BY OneHolder
<1>2. IsFiniteSet(Holders') /\ Cardinality(Holders') = Cardinality(Holders) + 1
  BY <1>1, FS_AddElement DEF ClientsKept
<1>3. Cardinality(Holders) \in Nat
  BY FS_CardinalityType DEF ClientsKept
<1>4. QED
  BY <1>2, <1>3 DEF ClientsKept

\* A call gives its client back.
LEMMA ClientReturned ==
    ASSUME TableTypeOK, ClientsKept, NEW w \in Holders, NEW j \in Jobs \cup {NoJob},
           job' = [job EXCEPT ![w] = j], idle' = idle + 1,
           j.at \in {"none", "connect"}
    PROVE  ClientsKept'
<1>1. w \in Callers /\ Holders' = Holders \ {w}
  BY OneHolder DEF Holders
<1>2. IsFiniteSet(Holders') /\ Cardinality(Holders') = Cardinality(Holders) - 1
  BY <1>1, FS_RemoveElement DEF ClientsKept
<1>3. Cardinality(Holders) \in Nat
  BY FS_CardinalityType DEF ClientsKept
<1>4. QED
  BY <1>2, <1>3 DEF ClientsKept

\* Only statements wait, for callers that are at a statement.
LEMMA Waiters ==
    ASSUME NEW w \in Callers, WaitsFor(w) # {}
    PROVE  w \in Holders /\ WaitsFor(w) \subseteq Working
BY DEF WaitsFor, Holders, At, Updating, Sharing, Deleting, Rivals, Working, NoJob

\* Ending a call that holds a client.
LEMMA EndKeepsClients ==
    ASSUME TableTypeOK, ClientsKept, NEW w \in Holders, Ends(w)
    PROVE  ClientsKept'
<1>1. NoJob.at = "none"
  BY DEF NoJob
<1>2. w \in Callers
  BY DEF Holders
<1>3. QED
  BY <1>1, <1>2, ClientReturned DEF Ends

\* Every statement takes, holds or returns the client that it needs.
LEMMA StatementKeepsClients ==
    ASSUME TableIInv, ClientsKept, NEW w \in Callers, Statement(w)
    PROVE  ClientsKept'
<1> DEFINE j == job[w]
<1>1. TableTypeOK /\ (j.at # "none" => j \in Jobs)
  BY AtWorks DEF TableIInv
<1>2. NoJob.at = "none" /\ (w \in Holders <=> j.at \notin {"none", "connect"})
  BY DEF NoJob, Holders, At
<1>3. CASE Connect(w)
  <2> DEFINE stage == CASE j.op = "save" -> "delete"
                        [] j.op = "info" -> "upsert"
                        [] j.op = "delete" -> "row"
                        [] OTHER -> j.op
             k == [j EXCEPT !.at = stage]
  <2>1. j \in Jobs /\ j.at = "connect" /\ idle > 0 /\ idle' = idle - 1
        /\ job' = [job EXCEPT ![w] = k]
    BY <1>1, <1>3 DEF Connect, At, Goes
  <2>2. stage \in Stages \ {"connect"}
    BY <2>1 DEF Jobs, Ops, Stages
  <2> HIDE DEF stage
  <2>3. k \in Jobs /\ k.at = stage
    BY <2>1, <2>2 DEF Jobs
  <2> HIDE DEF k
  <2>4. k.at \notin {"none", "connect"} /\ w \in Callers \ Holders
    BY <1>2, <2>1, <2>2, <2>3 DEF Stages
  <2>5. QED
    BY <1>1, <2>1, <2>3, <2>4, ClientTaken
<1>4. CASE ConnectTimeout(w)
  BY <1>1, <1>2, <1>4, ClientStays DEF ConnectTimeout, At
<1>5. CASE InsertFails(w) \/ Commit(w) \/ SaveInfoRow(w) \/ DeleteFiles(w) \/ ForkCommits(w)
  <2>1. Ends(w) /\ j.at \notin {"none", "connect"}
    BY <1>5 DEF InsertFails, Commit, SaveInfoRow, DeleteFiles, ForkCommits, At
  <2>2. QED
    BY <1>1, <1>2, <2>1, EndKeepsClients
<1>6. CASE DeadlockDetected(w)
  <2>1. Ends(w) /\ w \in Holders
    BY <1>6, Waiters DEF DeadlockDetected, InCircle, Circle
  <2>2. QED
    BY <1>1, <2>1, EndKeepsClients
<1>7. CASE ForkReadsInfo(w) \/ ForkReadsMessages(w)
  <2>1. j \in Jobs /\ j.at \notin {"none", "connect"} /\ idle' = idle + 1
    BY <1>1, <1>7 DEF ForkReadsInfo, ForkReadsMessages, At
  <2>2. CASE job' = [job EXCEPT ![w] = NoJob]
    BY <1>1, <1>2, <2>1, <2>2, ClientReturned
  <2>3. CASE job' # [job EXCEPT ![w] = NoJob]
    <3>1. PICK k \in Jobs : job' = [job EXCEPT ![w] = k] /\ k.at = "connect"
      <4>1. CASE ForkReadsInfo(w)
        <5>1. counts[j.agent] \in Places
          BY <1>1, <2>1, <2>3, <4>1 DEF ForkReadsInfo, TableTypeOK, Jobs
        <5>2. [j EXCEPT !.op = "fork messages", !.at = "connect", !.size = counts[j.agent]] \in Jobs
          BY <2>1, <5>1 DEF Jobs, Ops, Stages
        <5>3. [j EXCEPT !.op = "fork messages", !.at = "connect", !.size = counts[j.agent]].at
                = "connect"
          BY <2>1 DEF Jobs
        <5>4. QED
          BY <2>3, <4>1, <5>2, <5>3 DEF ForkReadsInfo
      <4>2. CASE ForkReadsMessages(w)
        <5>1. rows[j.agent] \in SUBSET Rows
          BY <2>1, StoredRows DEF Jobs
        <5>2. [j EXCEPT !.op = "fork write", !.at = "connect", !.seen = rows[j.agent]] \in Jobs
          BY <2>1, <5>1 DEF Jobs, Ops, Stages
        <5>3. [j EXCEPT !.op = "fork write", !.at = "connect", !.seen = rows[j.agent]].at
                = "connect"
          BY <2>1 DEF Jobs
        <5>4. QED
          BY <4>2, <5>2, <5>3 DEF ForkReadsMessages
      <4>3. QED
        BY <1>7, <4>1, <4>2
    <3>2. QED
      BY <1>1, <1>2, <2>1, <3>1, ClientReturned
  <2>4. QED
    BY <2>2, <2>3
<1>8. CASE StartDelete(w) \/ FinishDelete(w) \/ Insert(w) \/ UpdateCount(w) \/ DeleteAgentRow(w)
           \/ Cascade(w)
  <2>1. j \in Jobs /\ j.at \notin {"none", "connect"} /\ idle' = idle
    BY <1>1, <1>8 DEF StartDelete, FinishDelete, Insert, UpdateCount, DeleteAgentRow, Cascade, At
  <2>2. \A v \in Callers \ {w} : job'[v] = job[v]
    BY <1>1, <1>8 DEF StartDelete, FinishDelete, Insert, UpdateCount, DeleteAgentRow, Cascade,
                      Goes, TableTypeOK
  <2>3. job'[w].at \in Stages \ {"connect"}
    <3>1. CASE StartDelete(w) \/ FinishDelete(w)
      <4>1. job'[w].at \in {"deleting", "insert"}
        <5>1. CASE StartDelete(w)
          BY <1>1, <2>1, <5>1 DEF StartDelete, TableTypeOK, Jobs
        <5>2. CASE FinishDelete(w)
          BY <1>1, <2>1, <5>2 DEF FinishDelete, TableTypeOK, Jobs
        <5>3. QED
          BY <3>1, <5>1, <5>2
      <4>2. QED
        BY <4>1 DEF Stages
    <3>2. CASE Insert(w)
      <4>1. PICK p : p = j.put + 1
        OBVIOUS
      <4>2. job' = [job EXCEPT ![w] = [j EXCEPT !.put = p,
                                                !.at = IF p = j.size THEN "count" ELSE "insert"]]
        BY <2>1, <3>2, <4>1 DEF Insert, Jobs
      <4>3. job'[w].at = IF p = j.size THEN "count" ELSE "insert"
        BY <1>1, <2>1, <4>2 DEF TableTypeOK, Jobs
      <4>4. QED
        BY <4>3 DEF Stages
    <3>3. CASE UpdateCount(w) \/ DeleteAgentRow(w) \/ Cascade(w)
      <4>1. PICK stage \in {"commit", "files", "cascade"} : Goes(w, stage)
        BY <3>3 DEF UpdateCount, DeleteAgentRow, Cascade
      <4>2. job'[w].at = stage
        BY <1>1, <2>1, <4>1 DEF Goes, TableTypeOK, Jobs
      <4>3. QED
        BY <4>2 DEF Stages
    <3>4. QED
      BY <1>8, <3>1, <3>2, <3>3
  <2>4. Holders' = Holders
    BY <1>2, <2>1, <2>2, <2>3 DEF Holders, At, Stages
  <2>5. QED
    BY <2>1, <2>4 DEF ClientsKept
<1>9. QED
  BY <1>3, <1>4, <1>5, <1>6, <1>7, <1>8 DEF Statement

\* So does every step: new calls hold none yet, and a crash returns all.
LEMMA ClientsStep ==
    ASSUME TableIInv, ClientsKept, [PostgresNext]_postgresVars
    PROVE  ClientsKept'
<1>1. CASE UNCHANGED postgresVars
  BY <1>1 DEF postgresVars, ClientsKept, Holders, At
<1>2. CASE CallersCrash
  <2>1. Holders' = {}
    BY <1>2 DEF CallersCrash, Holders, At, NoJob
  <2>2. QED
    BY <1>2, <2>1, FS_EmptySet, PostgresAssumption DEF CallersCrash, ClientsKept
<1>3. ASSUME NEW w \in Callers, Call(w)
      PROVE  ClientsKept'
  <2>1. job[w] = NoJob /\ idle' = idle /\ TableTypeOK
    BY <1>3 DEF Call, TableIInv
  <2>2. \A v \in Callers \ {w} : job'[v] = job[v]
    BY <1>3, <2>1 DEF Call, TableTypeOK
  <2>3. job'[w].at = "connect"
    BY <1>3, <2>1 DEF Call, Job, TableTypeOK
  <2>4. Holders' = Holders
    BY <2>1, <2>2, <2>3 DEF Holders, At, NoJob
  <2>5. QED
    BY <2>1, <2>4 DEF ClientsKept
<1>4. ASSUME NEW w \in Callers, Statement(w)
      PROVE  ClientsKept'
  BY <1>4, StatementKeepsClients
<1>5. QED
  BY <1>1, <1>2, <1>3, <1>4 DEF PostgresNext

\* When calls are under way, one is answered: if each waited, for others under
\* way, a least set of callers that wait for nobody else would be a circle.
LEMMA SomeoneIsAnswered ==
    ASSUME ClientsKept, Working # {}
    PROVE  \E w \in Callers : GetsAnswer(w)
<1> SUFFICES ASSUME \A w \in Callers : ~GetsAnswer(w) PROVE FALSE
  OBVIOUS
<1>1. \A w \in Working : WaitsFor(w) # {} /\ WaitsFor(w) \subseteq Working /\ w \in Holders
  BY Waiters DEF GetsAnswer, Working
<1>2. IsFiniteSet(Working)
  BY <1>1, FS_Subset DEF ClientsKept
<1> DEFINE Closed == {C \in (SUBSET Working) \ {{}} : \A v \in C : WaitsFor(v) \subseteq C}
<1>3. Working \in Closed
  BY <1>1
<1>4. PICK C \in Closed : \A D \in Closed : ~(D \subseteq C /\ D # C)
  <2>1. IsWellFoundedOn(StrictSubsetOrdering(Working), SUBSET Working)
    BY <1>2, FS_StrictSubsetOrderingWellFounded, FS_FiniteSubsetsOfFinite
  <2>2. Closed \subseteq SUBSET Working /\ Closed # {}
    BY <1>3
  <2> HIDE DEF Closed
  <2>3. PICK C \in Closed : \A D \in Closed : ~(<<D, C>> \in StrictSubsetOrdering(Working))
    BY <2>1, <2>2, WFMin
  <2>4. QED
    BY <2>2, <2>3 DEF StrictSubsetOrdering
<1>5. C \in SUBSET Callers /\ C # {} /\ \A v \in C : WaitsFor(v) # {} /\ WaitsFor(v) \subseteq C
  BY <1>1 DEF Working
<1>6. ASSUME NEW T \in (SUBSET C) \ {{}, C}
      PROVE  \E v \in T : WaitsFor(v) \cap (C \ T) # {}
  <2>1. T \notin Closed
    BY <1>4, <1>6
  <2>2. PICK v \in T : ~(WaitsFor(v) \subseteq T)
    BY <1>6, <2>1
  <2>3. QED
    BY <1>5, <2>2
<1>7. Circle(C)
  BY <1>5, <1>6 DEF Circle
<1>8. PICK w \in C : TRUE
  BY <1>5
<1>9. InCircle(w)
  BY <1>5, <1>7 DEF InCircle
<1>10. w \in Working /\ w \in Callers
  BY <1>5 DEF Working
<1>11. QED
  BY <1>9, <1>10 DEF GetsAnswer, Working

\* However calls overlap, fail, time out, deadlock or die, while some are under
\* way one of them is answered, and every client of the pool is idle or held by
\* a call that gives it back (pool.connect, the locks of saveMessages, saveInfo
\* and delete, and client.release in their finally clauses).
THEOREM PostgresCallsGoOn == PostgresSpec => []CallsGoOn
<1>1. PostgresInit => ClientsKept
  <2> SUFFICES ASSUME PostgresInit PROVE ClientsKept
    OBVIOUS
  <2>1. Holders = {}
    BY DEF PostgresInit, Holders, At, NoJob
  <2>2. QED
    BY <2>1, FS_EmptySet, PostgresAssumption DEF PostgresInit, ClientsKept
<1>2. PostgresIInv /\ [PostgresNext]_postgresVars => PostgresIInv'
  BY TableStep, ClientsStep DEF PostgresIInv
<1>3. PostgresIInv => CallsGoOn
  BY SomeoneIsAnswered DEF PostgresIInv, ClientsKept, CallsGoOn, Holders, Working
<1>4. PostgresInit => PostgresIInv
  BY <1>1, TableInitHolds DEF PostgresIInv
<1>5. QED
  BY <1>2, <1>3, <1>4, PTL DEF PostgresSpec

-----------------------------------------------------------------------------
(* Sums over a finite set (GetMetrics of SqliteStore).                     *)

\* A set of numbers has a least one.
LEMMA LeastOf ==
    ASSUME NEW T \in SUBSET Nat, T # {}
    PROVE  \E n \in T : \A m \in T : n <= m
<1>1. PICK x \in T : \A y \in T : ~(<<y, x>> \in OpToRel(<, Nat))
  BY NatLessThanWellFounded, WFMin
<1>2. \A y \in T : ~(y < x)
  BY <1>1 DEF OpToRel
<1> QED BY <1>2

\* A smallest one among sets of agents.
LEMMA SmallestSet ==
    ASSUME NEW S, IsFiniteSet(S), NEW Bad \in SUBSET SUBSET S, Bad # {}
    PROVE  \E t \in Bad : IsFiniteSet(t) /\ \A x \in t : t \ {x} \notin Bad
<1>1. \A t \in SUBSET S : IsFiniteSet(t) /\ Cardinality(t) \in Nat
  BY FS_Subset, FS_CardinalityType
<1>2. PICK T : T = {Cardinality(t) : t \in Bad}
  OBVIOUS
<1>3. T \in SUBSET Nat /\ T # {}
  BY <1>1, <1>2
<1>4. PICK n \in T : \A m \in T : n <= m
  BY <1>3, LeastOf
<1>5. PICK t \in Bad : n = Cardinality(t)
  BY <1>2, <1>4
<1>6. ASSUME NEW x \in t PROVE t \ {x} \notin Bad
  <2>1. Cardinality(t \ {x}) = n - 1 /\ n \in Nat
    BY <1>1, <1>3, <1>5, FS_RemoveElement
  <2>2. n - 1 \notin T
    BY <1>4, <2>1
  <2>3. QED
    BY <1>2, <2>1, <2>2
<1>7. QED
  BY <1>1, <1>5, <1>6

\* An element of s, the one that the fold takes first.
First(s) == CHOOSE x \in s : TRUE
\* f adds the weights w of up to k elements.
Adds(f, S, w, k) ==
    /\ f = [s \in SUBSET S |-> f[s]]
    /\ \A s \in SUBSET S : Cardinality(s) <= k =>
          f[s] = IF s = {} THEN 0 ELSE w[First(s)] + f[s \ {First(s)}]
\* f adds the weights of any of them.
Sums(f, S, w) ==
    f = [s \in SUBSET S |-> IF s = {} THEN 0 ELSE w[First(s)] + f[s \ {First(s)}]]

\* There is such an f.
LEMMA AddsExists ==
    ASSUME NEW S, IsFiniteSet(S), NEW w, NEW n \in Nat
    PROVE  \E f : Adds(f, S, w, n)
<1>1. \A t \in SUBSET S : IsFiniteSet(t) /\ Cardinality(t) \in Nat
  BY FS_Subset, FS_CardinalityType
<1> DEFINE Bad == {k \in Nat : ~\E f : Adds(f, S, w, k)}
<1> SUFFICES ASSUME Bad # {} PROVE FALSE
  OBVIOUS
<1>2. PICK k \in Bad : \A m \in Bad : k <= m
  <2>1. Bad \in SUBSET Nat
    OBVIOUS
  <2>2. QED
    <3> HIDE DEF Bad
    <3> QED BY <2>1, LeastOf
<1>3. k # 0
  <2>1. PICK f : f = [s \in SUBSET S |-> 0]
    OBVIOUS
  <2>2. \A s \in SUBSET S : Cardinality(s) <= 0 => s = {}
    BY <1>1, FS_EmptySet
  <2>3. Adds(f, S, w, 0)
    BY <2>1, <2>2 DEF Adds
  <2>4. QED
    BY <2>3
<1>4. k - 1 \in Nat /\ k - 1 \notin Bad
  BY <1>2, <1>3
<1>5. PICK g : Adds(g, S, w, k - 1)
  BY <1>4
<1>6. PICK f : f = [s \in SUBSET S |-> IF Cardinality(s) = k THEN w[First(s)] + g[s \ {First(s)}]
                                       ELSE g[s]]
  OBVIOUS
<1>7. ASSUME NEW s \in SUBSET S, Cardinality(s) <= k
      PROVE  f[s] = IF s = {} THEN 0 ELSE w[First(s)] + f[s \ {First(s)}]
  <2>1. CASE s = {}
    <3>1. Cardinality(s) = 0
      BY <2>1, FS_EmptySet
    <3>2. f[s] = g[s]
      BY <1>3, <1>6, <3>1
    <3>3. g[s] = 0
      <4>1. 0 <= k - 1
        BY <1>4
      <4>2. s \in SUBSET S /\ Cardinality(s) <= k - 1
        BY <3>1, <4>1
      <4>3. QED
        BY <1>5, <2>1, <4>2 DEF Adds
    <3>4. QED
      BY <2>1, <3>2, <3>3
  <2>2. CASE s # {}
    <3>1. First(s) \in s
      BY <2>2 DEF First
    <3>2. PICK r \in SUBSET S : r = s \ {First(s)} /\ Cardinality(r) = Cardinality(s) - 1
      BY <1>1, <3>1, FS_RemoveElement
    <3>3. f[r] = g[r]
      <4>1. PICK c \in Nat : c = Cardinality(s) /\ c <= k
        BY <1>1, <1>7
      <4>2. Cardinality(r) # k
        BY <1>2, <3>2, <4>1
      <4>3. QED
        BY <1>6, <4>2
    <3>4. CASE Cardinality(s) = k
      BY <1>6, <2>2, <3>2, <3>3, <3>4
    <3>5. CASE Cardinality(s) # k
      <4>1. Cardinality(s) <= k - 1
        <5>1. PICK c \in Nat : c = Cardinality(s) /\ c <= k
          BY <1>1, <1>7
        <5>2. QED
          BY <1>2, <3>5, <5>1
      <4>2. f[s] = w[First(s)] + g[r]
        BY <1>5, <1>6, <2>2, <3>2, <3>5, <4>1 DEF Adds
      <4>3. QED
        BY <2>2, <3>2, <3>3, <4>2
    <3>6. QED
      BY <3>4, <3>5
  <2>3. QED
    BY <2>1, <2>2
<1>8. f = [s \in SUBSET S |-> f[s]]
  BY <1>6
<1>9. Adds(f, S, w, k)
  BY <1>7, <1>8 DEF Adds
<1>10. QED
  BY <1>9

\* And it adds the weights of any of them.
LEMMA SumsExists ==
    ASSUME NEW S, IsFiniteSet(S), NEW w
    PROVE  \E f : Sums(f, S, w)
<1>1. PICK n \in Nat : n = Cardinality(S)
  BY FS_CardinalityType
<1>2. PICK f : Adds(f, S, w, n)
  BY AddsExists
<1>3. \A s \in SUBSET S : Cardinality(s) <= n
  BY <1>1, FS_Subset
<1>4. \A s \in SUBSET S : f[s] = IF s = {} THEN 0 ELSE w[First(s)] + f[s \ {First(s)}]
  BY <1>2, <1>3 DEF Adds
<1>5. f = [s \in SUBSET S |-> f[s]]
  BY <1>2 DEF Adds
<1>6. Sums(f, S, w)
  BY <1>4, <1>5 DEF Sums
<1>7. QED
  BY <1>6

\* A sum is of the first element and of the rest.
LEMMA SumsFirst ==
    ASSUME NEW S, NEW w, NEW f, Sums(f, S, w), NEW s \in SUBSET S, s # {}
    PROVE  First(s) \in s /\ f[s] = w[First(s)] + f[s \ {First(s)}]
BY DEF Sums, First

\* And nothing has the sum zero.
LEMMA SumsNothing ==
    ASSUME NEW S, NEW w, NEW f, Sums(f, S, w)
    PROVE  f[{}] = 0
BY DEF Sums

\* It is a number.
LEMMA SumsNumber ==
    ASSUME NEW S, IsFiniteSet(S), NEW w \in [S -> Nat], NEW f, Sums(f, S, w), NEW u \in SUBSET S
    PROVE  f[u] \in Nat
<1> DEFINE Bad == {s \in SUBSET S : f[s] \notin Nat}
<1> SUFFICES ASSUME Bad # {} PROVE FALSE
  OBVIOUS
<1>1. PICK t \in Bad : \A x \in t : t \ {x} \notin Bad
  <2>1. Bad \in SUBSET SUBSET S
    OBVIOUS
  <2>2. QED
    <3> HIDE DEF Bad
    <3> QED BY <2>1, SmallestSet
<1>2. t # {} /\ t \in SUBSET S
  <2>1. f[{}] \in Nat
    BY SumsNothing
  <2>2. QED
    BY <2>1
<1>3. PICK x \in t : f[t] = w[x] + f[t \ {x}]
  <2>1. First(t) \in t /\ f[t] = w[First(t)] + f[t \ {First(t)}]
    BY <1>2, SumsFirst
  <2>2. QED
    BY <2>1
<1>4. t \ {x} \in SUBSET S /\ t \ {x} \notin Bad
  BY <1>1, <1>2
<1>5. PICK n \in Nat : n = f[t \ {x}]
  BY <1>4
<1>6. w[x] \in Nat
  BY <1>2
<1>7. QED
  BY <1>3, <1>5, <1>6

\* Any element may be taken off.
LEMMA SumsWithout ==
    ASSUME NEW S, IsFiniteSet(S), NEW w \in [S -> Nat], NEW f, Sums(f, S, w),
           NEW u \in SUBSET S, NEW z \in u
    PROVE  f[u] = w[z] + f[u \ {z}]
<1> DEFINE Bad == {s \in SUBSET S : \E x \in s : f[s] # w[x] + f[s \ {x}]}
<1> SUFFICES ASSUME Bad # {} PROVE FALSE
  OBVIOUS
<1>2. PICK t \in Bad : \A x \in t : t \ {x} \notin Bad
  <2>1. Bad \in SUBSET SUBSET S
    OBVIOUS
  <2>2. QED
    <3> HIDE DEF Bad
    <3> QED BY <2>1, SmallestSet
<1>3. PICK x \in t : f[t] # w[x] + f[t \ {x}]
  OBVIOUS
<1>4. PICK y \in t : f[t] = w[y] + f[t \ {y}]
  <2>1. t \in SUBSET S /\ t # {}
    BY <1>3
  <2>2. First(t) \in t /\ f[t] = w[First(t)] + f[t \ {First(t)}]
    BY <2>1, SumsFirst
  <2>3. QED
    BY <2>2
<1>5. x # y /\ x \in S /\ y \in S
  BY <1>3, <1>4
<1>6. PICK a \in Nat, b \in Nat : a = w[x] /\ b = w[y]
  BY <1>5
<1>7. PICK r \in SUBSET S : r = (t \ {x}) \ {y} /\ r = (t \ {y}) \ {x}
  OBVIOUS
<1>8. f[t \ {y}] = a + f[r]
  <2>1. t \ {y} \notin Bad /\ t \ {y} \in SUBSET S /\ x \in t \ {y}
    BY <1>2, <1>3, <1>4, <1>5
  <2>2. f[t \ {y}] = w[x] + f[(t \ {y}) \ {x}]
    BY <2>1
  <2>3. QED
    BY <1>6, <1>7, <2>2
<1>9. f[t \ {x}] = b + f[r]
  <2>1. t \ {x} \notin Bad /\ t \ {x} \in SUBSET S /\ y \in t \ {x}
    BY <1>2, <1>3, <1>4, <1>5
  <2>2. f[t \ {x}] = w[y] + f[(t \ {x}) \ {y}]
    BY <2>1
  <2>3. QED
    BY <1>6, <1>7, <2>2
<1>10. f[r] \in Nat
  BY SumsNumber
<1>11. QED
  BY <1>3, <1>4, <1>6, <1>8, <1>9, <1>10

\* Elements without weight may be left out.
LEMMA SumsAgree ==
    ASSUME NEW S, IsFiniteSet(S), NEW T \in SUBSET S, NEW w \in [S -> Nat], NEW f, Sums(f, S, w),
           NEW v \in [T -> Nat], NEW g, Sums(g, T, v),
           \A x \in S : IF x \in T THEN v[x] = w[x] ELSE w[x] = 0
    PROVE  f[S] = g[T]
<1>1. IsFiniteSet(T)
  BY FS_Subset
<1>2. f[{}] = 0 /\ g[{}] = 0
  BY SumsNothing
<1> DEFINE Bad == {s \in SUBSET S : f[s] # g[s \cap T]}
<1>4. Bad = {}
  <2> SUFFICES ASSUME Bad # {} PROVE FALSE
    OBVIOUS
  <2>1. PICK t \in Bad : \A x \in t : t \ {x} \notin Bad
    <3>1. Bad \in SUBSET SUBSET S
      OBVIOUS
    <3>2. QED
      <4> HIDE DEF Bad
      <4> QED BY <3>1, SmallestSet
  <2>2. t # {} /\ t \in SUBSET S
    <3>1. {} \cap T = {}
      OBVIOUS
    <3>2. QED
      BY <1>2, <3>1
  <2>3. PICK x \in t : f[t] = w[x] + f[t \ {x}]
    <3>1. First(t) \in t /\ f[t] = w[First(t)] + f[t \ {First(t)}]
      BY <2>2, SumsFirst
    <3>2. QED
      BY <3>1
  <2>4. PICK r \in SUBSET S : r = t \ {x} /\ f[r] = g[r \cap T]
    BY <2>1, <2>3
  <2>5. CASE x \in T
    <3>1. x \in t \cap T /\ t \cap T \in SUBSET T /\ (t \cap T) \ {x} = r \cap T
      BY <2>3, <2>4, <2>5
    <3>2. g[t \cap T] = v[x] + g[r \cap T]
      <4>1. PICK u \in SUBSET T : u = t \cap T
        BY <3>1
      <4>2. x \in u
        BY <3>1, <4>1
      <4>3. g[u] = v[x] + g[u \ {x}]
        BY <1>1, <4>2, SumsWithout
      <4>4. QED
        BY <3>1, <4>1, <4>3
    <3>3. v[x] = w[x]
      BY <2>3, <2>5
    <3>4. QED
      BY <2>3, <2>4, <3>2, <3>3
  <2>6. CASE x \notin T
    <3>1. t \cap T = r \cap T
      BY <2>4, <2>6
    <3>2. w[x] = 0 /\ f[r] \in Nat
      BY <2>3, <2>6, SumsNumber
    <3>3. PICK n \in Nat : n = f[r]
      BY <3>2
    <3>4. f[t] = n
      <4>1. f[t] = 0 + n
        BY <2>3, <2>4, <3>2, <3>3
      <4>2. QED
        BY <4>1
    <3>5. g[t \cap T] = n
      BY <2>4, <3>1, <3>3
    <3>6. QED
      BY <2>1, <3>4, <3>5
  <2>7. QED
    BY <2>5, <2>6
<1>5. S \cap T = T
  OBVIOUS
<1>6. QED
  BY <1>4, <1>5


-----------------------------------------------------------------------------
(* Tables that agree (SqliteStore).                                        *)

CallIds == Seq(SqliteCalls \cup Nat)
LiveStates == [up : BOOLEAN, messages : Nat, calls : SUBSET CallIds, next : {"rest", "info"},
               unsaved : BOOLEAN, deleted : BOOLEAN]

TablesOK == /\ agentRow \in [Agents -> Nat \cup {NoRow}]
            /\ messageRows \in [Agents -> Nat]
            /\ callRows \in [Agents -> SUBSET CallIds]
            /\ snapshotRows \in [Agents -> SUBSET SnapshotIds]
            /\ knownIds \subseteq Agents
            /\ live \in [Agents -> LiveStates]

\* What a batchFork has read.
BatchOK == batch.stage \in {"messages", "calls"} =>
               /\ batch.source \in Agents /\ batch.count \in Nat /\ batch.info \in Nat
               /\ batch.stage = "calls" => batch.messages \in Nat

\* The rows of a, those of no agent and those of an agent that runs.  What the
\* properties say of an agent at rest is not inductive: it depends on what the
\* agent has yet to save.
OwnRows(a) ==
    /\ IsFiniteSet(callRows[a]) /\ IsFiniteSet(live[a].calls)
    /\ agentRow[a] = NoRow => messageRows[a] = 0 /\ callRows[a] = {} /\ snapshotRows[a] = {}
    /\ live[a].up => a \in knownIds
    /\ live[a].up /\ ~live[a].deleted /\ ~live[a].unsaved =>
          /\ messageRows[a] = live[a].messages
          /\ live[a].next = "rest" => agentRow[a] = live[a].messages

\* No record is in the rows of two agents: its id is a primary key.
CallsApart == \A a, b \in Agents : a # b => callRows[a] \cap callRows[b] = {}

SqliteIInv == TablesOK /\ BatchOK /\ CallsApart /\ \A a \in Agents : OwnRows(a)

-----------------------------------------------------------------------------
\* A fold over agents is a sum.
LEMMA MessagesFold ==
    ASSUME NEW S, IsFiniteSet(S)
    PROVE  \E f : /\ Sums(f, S, messageRows)
                  /\ MapThenSumSet(LoadMessages, S) = f[S]
<1>1. PICK g : Sums(g, S, messageRows)
  BY SumsExists
<1>2. PICK f : f = CHOOSE iter : Sums(iter, S, messageRows)
  OBVIOUS
<1>3. Sums(f, S, messageRows)
  BY <1>1, <1>2
<1>4. MapThenSumSet(LoadMessages, S) = f[S]
  BY <1>2 DEF MapThenSumSet, MapThenFoldSet, Sums, First, LoadMessages
<1>5. QED
  BY <1>3, <1>4

\* Over a whole table and over the agents that are listed.
LEMMA MessagesAddUp ==
    ASSUME SqliteIInv
    PROVE  LET messagesOf(a) == AggregateStats(a).messages
           IN GetMetrics.messages = MapThenSumSet(messagesOf, List)
<1> DEFINE messagesOf(a) == AggregateStats(a).messages
<1>1. IsFiniteSet(Agents) /\ List \in SUBSET Agents
  BY SqliteAssumption DEF List
<1>2. PICK f : /\ Sums(f, Agents, messageRows)
               /\ MapThenSumSet(LoadMessages, Agents) = f[Agents]
  BY <1>1, MessagesFold
<1>3. IsFiniteSet(List)
  BY <1>1, FS_Subset
<1>4. \A a \in Agents : messagesOf(a) = messageRows[a]
  BY DEF AggregateStats
<1>5. PICK v : v = [a \in List |-> messageRows[a]]
  OBVIOUS
<1>6. ASSUME NEW g
      PROVE  Sums(g, List, v) <=>
                g = [s \in SUBSET List |-> IF s = {} THEN 0
                                           ELSE messagesOf(First(s)) + g[s \ {First(s)}]]
  <2>1. ASSUME NEW s \in SUBSET List, s # {} PROVE v[First(s)] = messagesOf(First(s))
    <3>1. First(s) \in s
      BY <2>1 DEF First
    <3>2. QED
      BY <1>1, <1>4, <1>5, <3>1
  <2>2. [s \in SUBSET List |-> IF s = {} THEN 0 ELSE v[First(s)] + g[s \ {First(s)}]] =
           [s \in SUBSET List |-> IF s = {} THEN 0 ELSE messagesOf(First(s)) + g[s \ {First(s)}]]
    <3> HIDE DEF messagesOf
    <3> QED BY <2>1
  <2>3. QED
    BY <2>2 DEF Sums
<1>7. PICK g : g = CHOOSE iter : iter = [s \in SUBSET List |->
                       IF s = {} THEN 0 ELSE messagesOf(First(s)) + iter[s \ {First(s)}]]
  OBVIOUS
<1>14. PICK h : Sums(h, List, v)
  BY <1>3, SumsExists
<1>15. Sums(g, List, v)
  <2> HIDE DEF messagesOf
  <2> QED BY <1>6, <1>7, <1>14
<1>8. MapThenSumSet(messagesOf, List) = g[List]
  <2> HIDE DEF messagesOf
  <2> QED BY <1>7 DEF MapThenSumSet, MapThenFoldSet, First
<1>9. messageRows \in [Agents -> Nat] /\ v \in [List -> Nat]
  BY <1>1, <1>5 DEF SqliteIInv, TablesOK
<1>10. \A a \in Agents : IF a \in List THEN v[a] = messageRows[a] ELSE messageRows[a] = 0
  BY <1>5 DEF SqliteIInv, OwnRows, List, Exists
<1>11. f[Agents] = g[List]
  BY <1>1, <1>2, <1>15, <1>9, <1>10, SumsAgree
<1>12. GetMetrics.messages = f[Agents]
  BY <1>2 DEF GetMetrics
<1>13. QED
  BY <1>8, <1>11, <1>12

\* The records in the rows of some agents.
RecordsOf(s) == UNION {callRows[a] : a \in s}

\* Rows that have no record in common are counted one by one.
LEMMA RecordsAddUp ==
    ASSUME IsFiniteSet(Agents), CallsApart, \A a \in Agents : IsFiniteSet(callRows[a]),
           NEW w, w = [a \in Agents |-> Cardinality(callRows[a])],
           NEW f, Sums(f, Agents, w), NEW u \in SUBSET Agents
    PROVE  IsFiniteSet(RecordsOf(u)) /\ Cardinality(RecordsOf(u)) = f[u]
<1> DEFINE Bad == {s \in SUBSET Agents :
                     ~(IsFiniteSet(RecordsOf(s)) /\ Cardinality(RecordsOf(s)) = f[s])}
<1> SUFFICES ASSUME Bad # {} PROVE FALSE
  OBVIOUS
<1>1. PICK t \in Bad : \A x \in t : t \ {x} \notin Bad
  <2>1. Bad \in SUBSET SUBSET Agents
    OBVIOUS
  <2>2. QED
    <3> HIDE DEF Bad
    <3> QED BY <2>1, SmallestSet
<1>2. t # {} /\ t \in SUBSET Agents
  <2>1. RecordsOf({}) = {}
    BY DEF RecordsOf
  <2>2. IsFiniteSet(RecordsOf({})) /\ Cardinality(RecordsOf({})) = f[{}]
    BY <2>1, SumsNothing, FS_EmptySet
  <2>3. QED
    BY <2>2
<1>3. PICK x \in t : f[t] = w[x] + f[t \ {x}]
  <2>1. First(t) \in t /\ f[t] = w[First(t)] + f[t \ {First(t)}]
    BY <1>2, SumsFirst
  <2>2. QED
    BY <2>1
<1>4. PICK r \in SUBSET Agents : r = t \ {x} /\ IsFiniteSet(RecordsOf(r)) /\ Cardinality(RecordsOf(r)) = f[r]
  BY <1>1, <1>2
<1>5. RecordsOf(t) = RecordsOf(r) \cup callRows[x]
  BY <1>2, <1>4 DEF RecordsOf
<1>6. RecordsOf(r) \cap callRows[x] = {}
  <2>1. \A a \in r : callRows[a] \cap callRows[x] = {}
    BY <1>2, <1>4 DEF CallsApart
  <2>2. QED
    BY <2>1 DEF RecordsOf
<1>7. x \in Agents /\ IsFiniteSet(callRows[x]) /\ w[x] = Cardinality(callRows[x])
  BY <1>2
<1>8. PICK P, Q : P = RecordsOf(r) /\ Q = callRows[x]
  OBVIOUS
<1>9. IsFiniteSet(P \cup Q) /\ Cardinality(P \cup Q) = Cardinality(P) + Cardinality(Q) - Cardinality(P \cap Q)
  BY <1>4, <1>7, <1>8, FS_Union
<1>10. Cardinality(P \cap Q) = 0
  BY <1>6, <1>8, FS_EmptySet
<1>11. Cardinality(P) \in Nat /\ Cardinality(Q) \in Nat
  BY <1>4, <1>7, <1>8, FS_CardinalityType
<1>12. Cardinality(P \cup Q) = Cardinality(Q) + Cardinality(P)
  BY <1>9, <1>10, <1>11
<1>13. RecordsOf(t) = P \cup Q /\ f[t] = Cardinality(Q) + Cardinality(P)
  BY <1>3, <1>4, <1>5, <1>7, <1>8
<1>14. QED
  BY <1>9, <1>12, <1>13

\* The records of the whole table are those of the agents that are listed.
LEMMA CallsAddUp ==
    ASSUME SqliteIInv
    PROVE  LET callsOf(a) == AggregateStats(a).toolCalls
           IN GetMetrics.toolCalls = MapThenSumSet(callsOf, List)
<1> DEFINE callsOf(a) == AggregateStats(a).toolCalls
<1>1. IsFiniteSet(Agents) /\ List \in SUBSET Agents
  BY SqliteAssumption DEF List
<1>2. PICK w : w = [a \in Agents |-> Cardinality(callRows[a])]
  OBVIOUS
<1>3. PICK f : Sums(f, Agents, w)
  BY <1>1, SumsExists
<1>4. CallsApart /\ \A a \in Agents : IsFiniteSet(callRows[a])
  BY DEF SqliteIInv, OwnRows
<1>5. w \in [Agents -> Nat]
  BY <1>2, <1>4, FS_CardinalityType
<1>6. GetMetrics.toolCalls = f[Agents]
  <2>1. Agents \in SUBSET Agents
    OBVIOUS
  <2>2. Cardinality(RecordsOf(Agents)) = f[Agents]
    BY <1>1, <1>2, <1>3, <1>4, <2>1, RecordsAddUp
  <2>3. DOMAIN callRows = Agents
    BY DEF SqliteIInv, TablesOK
  <2>4. RecordsOf(Agents) = UNION Range(callRows)
    BY <2>3 DEF RecordsOf, Range
  <2>5. QED
    BY <2>2, <2>4 DEF GetMetrics
<1>7. IsFiniteSet(List)
  BY <1>1, FS_Subset
<1>8. \A a \in Agents : callsOf(a) = w[a]
  BY <1>2 DEF AggregateStats
<1>9. PICK v : v = [a \in List |-> w[a]]
  OBVIOUS
<1>10. ASSUME NEW g
       PROVE  Sums(g, List, v) <=>
                 g = [s \in SUBSET List |-> IF s = {} THEN 0
                                            ELSE callsOf(First(s)) + g[s \ {First(s)}]]
  <2>1. ASSUME NEW s \in SUBSET List, s # {} PROVE v[First(s)] = callsOf(First(s))
    <3>1. First(s) \in s
      BY <2>1 DEF First
    <3>2. QED
      BY <1>1, <1>8, <1>9, <3>1
  <2>2. [s \in SUBSET List |-> IF s = {} THEN 0 ELSE v[First(s)] + g[s \ {First(s)}]] =
           [s \in SUBSET List |-> IF s = {} THEN 0 ELSE callsOf(First(s)) + g[s \ {First(s)}]]
    <3> HIDE DEF callsOf
    <3> QED BY <2>1
  <2>3. QED
    BY <2>2 DEF Sums
<1>11. PICK g : g = CHOOSE iter : iter = [s \in SUBSET List |->
                       IF s = {} THEN 0 ELSE callsOf(First(s)) + iter[s \ {First(s)}]]
  OBVIOUS
<1>12. PICK h : Sums(h, List, v)
  BY <1>7, SumsExists
<1>13. Sums(g, List, v)
  <2> HIDE DEF callsOf
  <2> QED BY <1>10, <1>11, <1>12
<1>14. MapThenSumSet(callsOf, List) = g[List]
  <2> HIDE DEF callsOf
  <2> QED BY <1>11 DEF MapThenSumSet, MapThenFoldSet, First
<1>15. \A a \in Agents : IF a \in List THEN v[a] = w[a] ELSE w[a] = 0
  <2>1. ASSUME NEW a \in Agents, a \notin List PROVE w[a] = 0
    <3>1. callRows[a] = {}
      BY <2>1 DEF SqliteIInv, OwnRows, List, Exists
    <3>2. QED
      BY <1>2, <3>1, FS_EmptySet
  <2>2. QED
    BY <1>9, <2>1
<1>16. v \in [List -> Nat]
  BY <1>1, <1>5, <1>9
<1>17. f[Agents] = g[List]
  BY <1>1, <1>3, <1>5, <1>13, <1>15, <1>16, SumsAgree
<1>18. QED
  BY <1>6, <1>14, <1>17

-----------------------------------------------------------------------------

\* The rows of an agent that nothing happens to.
LEMMA RowsStay ==
    ASSUME NEW b \in Agents, OwnRows(b), knownIds \subseteq knownIds',
           agentRow'[b] = agentRow[b], messageRows'[b] = messageRows[b],
           callRows'[b] = callRows[b], snapshotRows'[b] = snapshotRows[b], live'[b] = live[b]
    PROVE  OwnRows(b)'
BY DEF OwnRows

\* An agent in memory changes, its rows do not.
LEMMA LiveMoves ==
    ASSUME SqliteIInv, NEW a \in Agents, NEW l \in LiveStates,
           live' = [live EXCEPT ![a] = l], UNCHANGED <<tables, batch>>,
           knownIds \subseteq knownIds', knownIds' \subseteq Agents,
           IsFiniteSet(l.calls), l.up => a \in knownIds',
           l.up /\ ~l.deleted /\ ~l.unsaved =>
              messageRows[a] = l.messages /\ (l.next = "rest" => agentRow[a] = l.messages)
    PROVE  SqliteIInv'
<1>1. TablesOK /\ BatchOK /\ CallsApart /\ \A b \in Agents : OwnRows(b)
  BY DEF SqliteIInv
<1>2. /\ agentRow' = agentRow /\ messageRows' = messageRows /\ callRows' = callRows
      /\ snapshotRows' = snapshotRows /\ batch' = batch
  BY DEF tables
<1>3. live' \in [Agents -> LiveStates] /\ live'[a] = l
      /\ \A b \in Agents \ {a} : live'[b] = live[b]
  BY <1>1 DEF TablesOK
<1>4. TablesOK' /\ BatchOK' /\ CallsApart'
  BY <1>1, <1>2, <1>3 DEF TablesOK, BatchOK, CallsApart
<1>5. ASSUME NEW b \in Agents PROVE OwnRows(b)'
  <2>1. CASE b = a
    <3>1. OwnRows(a)
      BY <1>1
    <3>2. OwnRows(a)'
      BY <1>2, <1>3, <3>1 DEF OwnRows
    <3>3. QED
      BY <2>1, <3>2
  <2>2. CASE b # a
    <3>1. OwnRows(b) /\ live'[b] = live[b]
      BY <1>1, <1>3, <2>2
    <3>2. QED
      BY <1>2, <3>1, RowsStay
  <2>3. QED
    BY <2>1, <2>2
<1>6. QED
  BY <1>4, <1>5 DEF SqliteIInv

\* Whole records of agents in memory.
LEMMA LiveRecord ==
    ASSUME NEW d \in LiveStates
    PROVE  /\ d = [up |-> d.up, messages |-> d.messages, calls |-> d.calls, next |-> d.next,
                   unsaved |-> d.unsaved, deleted |-> d.deleted]
           /\ d.up \in BOOLEAN /\ d.messages \in Nat /\ d.calls \in SUBSET CallIds
           /\ d.next \in {"rest", "info"} /\ d.unsaved \in BOOLEAN /\ d.deleted \in BOOLEAN
BY DEF LiveStates

\* An agent is loaded.
LEMMA StartKeeps ==
    ASSUME SqliteIInv, NEW a \in Agents, Start(a)
    PROVE  SqliteIInv'
<1>1. messageRows[a] \in Nat /\ callRows[a] \in SUBSET CallIds /\ IsFiniteSet(callRows[a])
      /\ knownIds \subseteq Agents
  BY DEF SqliteIInv, TablesOK, OwnRows
<1>2. PICK m \in Nat, c \in SUBSET CallIds : m = messageRows[a] /\ c = callRows[a]
  BY <1>1
<1>3. PICK l : l = [up |-> TRUE, messages |-> m, calls |-> c, next |-> "info",
                    unsaved |-> FALSE, deleted |-> FALSE]
  OBVIOUS
<1>4. l \in LiveStates
  BY <1>2, <1>3 DEF LiveStates
<1>5. live' = [live EXCEPT ![a] = l] /\ knownIds' = knownIds \cup {a} /\ UNCHANGED <<tables, batch>>
  <2>1. [Down EXCEPT !.up = TRUE, !.next = "info", !.messages = m, !.calls = c] = l
    <3>1. PICK p : p = [Down EXCEPT !.up = TRUE]
      OBVIOUS
    <3>2. p = [up |-> TRUE, messages |-> 0, calls |-> {}, next |-> "rest",
               unsaved |-> FALSE, deleted |-> FALSE]
      BY <3>1 DEF Down
    <3>3. PICK q : q = [p EXCEPT !.next = "info"]
      OBVIOUS
    <3>4. q = [up |-> TRUE, messages |-> 0, calls |-> {}, next |-> "info",
               unsaved |-> FALSE, deleted |-> FALSE]
      BY <3>2, <3>3
    <3>5. PICK r : r = [q EXCEPT !.messages = m]
      OBVIOUS
    <3>6. r = [up |-> TRUE, messages |-> m, calls |-> {}, next |-> "info",
               unsaved |-> FALSE, deleted |-> FALSE]
      BY <3>4, <3>5
    <3>7. PICK z : z = [r EXCEPT !.calls = c]
      OBVIOUS
    <3>8. z = [up |-> TRUE, messages |-> m, calls |-> c, next |-> "info",
               unsaved |-> FALSE, deleted |-> FALSE]
      BY <3>6, <3>7
    <3>9. z = l
      BY <1>3, <3>8
    <3>10. QED
      BY <3>1, <3>3, <3>5, <3>7, <3>9
  <2>2. /\ live' = [live EXCEPT ![a] = [Down EXCEPT !.up = TRUE, !.next = "info",
                                                   !.messages = m, !.calls = c]]
        /\ knownIds' = knownIds \cup {a} /\ UNCHANGED <<tables, batch>>
    BY <1>2 DEF Start, LoadMessages, LoadToolCallRecords
  <2>3. QED
    BY <2>1, <2>2
<1>6. l.calls = c /\ l.messages = m /\ l.next = "info" /\ a \in knownIds'
  BY <1>3, <1>5
<1>7. QED
  BY <1>1, <1>2, <1>4, <1>5, <1>6, LiveMoves

\* It adds a message.
LEMMA PushKeeps ==
    ASSUME SqliteIInv, NEW a \in Agents, Push(a)
    PROVE  SqliteIInv'
<1>1. PICK d \in LiveStates : d = live[a]
  BY DEF SqliteIInv, TablesOK
<1>2. PICK n \in Nat : n = d.messages + 1
  BY <1>1, LiveRecord
<1>3. PICK l : l = [up |-> d.up, messages |-> n, calls |-> d.calls, next |-> d.next,
                    unsaved |-> TRUE, deleted |-> d.deleted]
  OBVIOUS
<1>4. l \in LiveStates
  BY <1>1, <1>2, <1>3, LiveRecord DEF LiveStates
<1>5. live' = [live EXCEPT ![a] = [d EXCEPT !.messages = n, !.unsaved = TRUE]]
      /\ UNCHANGED <<tables, knownIds, batch>>
  BY <1>1, <1>2 DEF Push, SqliteIInv, TablesOK
<1>6. [d EXCEPT !.messages = n, !.unsaved = TRUE] = l
  <2>1. PICK u, m, c, x, s, e : /\ u = d.up /\ c = d.calls /\ x = d.next /\ e = d.deleted
                                /\ m = d.messages /\ s = d.unsaved
    OBVIOUS
  <2>2. d = [up |-> u, messages |-> m, calls |-> c, next |-> x, unsaved |-> s, deleted |-> e]
    BY <2>1, LiveRecord
  <2>3. l = [up |-> u, messages |-> n, calls |-> c, next |-> x, unsaved |-> TRUE, deleted |-> e]
    BY <1>3, <2>1
  <2>4. PICK p : p = [d EXCEPT !.messages = n]
    OBVIOUS
  <2>5. p = [up |-> u, messages |-> n, calls |-> c, next |-> x, unsaved |-> s, deleted |-> e]
    BY <2>2, <2>4
  <2>6. PICK z : z = [p EXCEPT !.unsaved = TRUE]
    OBVIOUS
  <2>7. z = [up |-> u, messages |-> n, calls |-> c, next |-> x, unsaved |-> TRUE, deleted |-> e]
    BY <2>5, <2>6
  <2>8. QED
    BY <2>3, <2>4, <2>6, <2>7
<1>7. live[a].up /\ IsFiniteSet(d.calls) /\ a \in knownIds /\ knownIds \subseteq Agents
  BY <1>1 DEF Push, SqliteIInv, OwnRows, TablesOK
<1>8. l.calls = d.calls /\ l.unsaved
  BY <1>3
<1>9. live' = [live EXCEPT ![a] = l] /\ knownIds' = knownIds
  BY <1>5, <1>6
<1>10. QED
  BY <1>4, <1>5, <1>7, <1>8, <1>9, LiveMoves

\* The row of an agent and the agent change, and its messages with them.
LEMMA RowMoves ==
    ASSUME SqliteIInv, NEW a \in Agents, NEW l \in LiveStates, NEW n \in Nat, NEW k \in Nat,
           live' = [live EXCEPT ![a] = l], agentRow' = [agentRow EXCEPT ![a] = n],
           messageRows' = [messageRows EXCEPT ![a] = k],
           UNCHANGED <<callRows, snapshotRows, knownIds, batch>>,
           l.calls = live[a].calls, l.up, live[a].up,
           ~l.deleted /\ ~l.unsaved => k = l.messages /\ n = l.messages
    PROVE  SqliteIInv'
<1>1. TablesOK /\ BatchOK /\ CallsApart /\ \A b \in Agents : OwnRows(b)
  BY DEF SqliteIInv
<1>2. /\ live' \in [Agents -> LiveStates] /\ live'[a] = l
      /\ agentRow' \in [Agents -> Nat \cup {NoRow}] /\ agentRow'[a] = n
      /\ messageRows' \in [Agents -> Nat] /\ messageRows'[a] = k
      /\ \A b \in Agents \ {a} : live'[b] = live[b] /\ agentRow'[b] = agentRow[b]
                                 /\ messageRows'[b] = messageRows[b]
  BY <1>1 DEF TablesOK
<1>3. TablesOK' /\ BatchOK' /\ CallsApart'
  BY <1>1, <1>2 DEF TablesOK, BatchOK, CallsApart
<1>4. ASSUME NEW b \in Agents PROVE OwnRows(b)'
  <2>1. CASE b = a
    <3>1. OwnRows(a) /\ n # NoRow
      BY <1>1, SqliteAssumption
    <3>2. OwnRows(a)'
      BY <1>2, <3>1 DEF OwnRows
    <3>3. QED
      BY <2>1, <3>2
  <2>2. CASE b # a
    <3>1. OwnRows(b) /\ live'[b] = live[b] /\ agentRow'[b] = agentRow[b]
          /\ messageRows'[b] = messageRows[b]
      BY <1>1, <1>2, <2>2
    <3>2. QED
      BY <3>1, RowsStay
  <2>3. QED
    BY <2>1, <2>2
<1>5. QED
  BY <1>3, <1>4 DEF SqliteIInv

\* Its messages are saved, or the transaction fails.
LEMMA SaveMessagesKeeps ==
    ASSUME SqliteIInv, NEW a \in Agents, SaveMessages(a)
    PROVE  SqliteIInv'
<1>1. PICK d \in LiveStates : d = live[a]
  BY DEF SqliteIInv, TablesOK
<1>2. CASE Exists(a)
  <2>1. PICK n \in Nat : n = d.messages
    BY LiveRecord
  <2>2. PICK l : l = [up |-> d.up, messages |-> n, calls |-> d.calls, next |-> "info",
                      unsaved |-> FALSE, deleted |-> FALSE]
    OBVIOUS
  <2>3. l \in LiveStates
    BY <2>1, <2>2, LiveRecord DEF LiveStates
  <2>4. /\ live' = [live EXCEPT ![a] = [d EXCEPT !.next = "info", !.unsaved = FALSE, !.deleted = FALSE]]
        /\ agentRow' = [agentRow EXCEPT ![a] = n] /\ messageRows' = [messageRows EXCEPT ![a] = n]
        /\ UNCHANGED <<callRows, snapshotRows, knownIds, batch>>
        /\ live[a].up
    BY <1>1, <1>2, <2>1 DEF SaveMessages, SqliteIInv, TablesOK
  <2>5. [d EXCEPT !.next = "info", !.unsaved = FALSE, !.deleted = FALSE] = l
    <3>1. PICK u, c, x, s, e : /\ u = d.up /\ c = d.calls /\ x = d.next /\ e = d.deleted
                               /\ s = d.unsaved
      OBVIOUS
    <3>2. d = [up |-> u, messages |-> n, calls |-> c, next |-> x, unsaved |-> s, deleted |-> e]
      BY <2>1, <3>1, LiveRecord
    <3>3. l = [up |-> u, messages |-> n, calls |-> c, next |-> "info", unsaved |-> FALSE,
               deleted |-> FALSE]
      BY <2>2, <3>1
    <3>4. PICK p : p = [d EXCEPT !.next = "info"]
      OBVIOUS
    <3>5. p = [up |-> u, messages |-> n, calls |-> c, next |-> "info", unsaved |-> s, deleted |-> e]
      BY <3>2, <3>4
    <3>6. PICK q : q = [p EXCEPT !.unsaved = FALSE]
      OBVIOUS
    <3>7. q = [up |-> u, messages |-> n, calls |-> c, next |-> "info", unsaved |-> FALSE, deleted |-> e]
      BY <3>5, <3>6
    <3>8. PICK z : z = [q EXCEPT !.deleted = FALSE]
      OBVIOUS
    <3>9. z = [up |-> u, messages |-> n, calls |-> c, next |-> "info", unsaved |-> FALSE,
               deleted |-> FALSE]
      BY <3>7, <3>8
    <3>10. QED
      BY <3>3, <3>4, <3>6, <3>8, <3>9
  <2>6. l.calls = live[a].calls /\ l.up /\ l.messages = n
    BY <1>1, <2>2, <2>4
  <2>7. live' = [live EXCEPT ![a] = l]
    BY <2>4, <2>5
  <2>8. QED
    BY <2>3, <2>4, <2>6, <2>7, RowMoves
<1>3. CASE ~Exists(a)
  <2>1. UNCHANGED <<agentRow, messageRows, live, callRows, snapshotRows, knownIds, batch>>
    BY <1>3 DEF SaveMessages
  <2>2. QED
    BY <2>1 DEF SqliteIInv, TablesOK, BatchOK, CallsApart, OwnRows
<1>4. QED
  BY <1>2, <1>3

\* Its info is saved.
LEMMA SaveInfoKeeps ==
    ASSUME SqliteIInv, NEW a \in Agents, SaveInfo(a)
    PROVE  SqliteIInv'
<1>1. PICK d \in LiveStates : d = live[a]
  BY DEF SqliteIInv, TablesOK
<1>2. PICK n \in Nat : n = d.messages
  BY LiveRecord
<1>3. PICK k \in Nat : k = messageRows[a]
  BY DEF SqliteIInv, TablesOK
<1>4. PICK l : l = [up |-> d.up, messages |-> n, calls |-> d.calls, next |-> "rest",
                    unsaved |-> d.unsaved, deleted |-> d.deleted]
  OBVIOUS
<1>5. l \in LiveStates
  BY <1>2, <1>4, LiveRecord DEF LiveStates
<1>6. /\ live' = [live EXCEPT ![a] = [d EXCEPT !.next = "rest"]]
      /\ agentRow' = [agentRow EXCEPT ![a] = n]
      /\ UNCHANGED <<messageRows, callRows, snapshotRows, knownIds, batch>>
      /\ live[a].up
  BY <1>1, <1>2 DEF SaveInfo, SqliteIInv, TablesOK
<1>7. [d EXCEPT !.next = "rest"] = l
  BY <1>2, <1>4, LiveRecord
<1>8. messageRows' = [messageRows EXCEPT ![a] = k]
  BY <1>3, <1>6 DEF SqliteIInv, TablesOK
<1>9. l.calls = live[a].calls /\ l.up /\ l.messages = n /\ l.deleted = d.deleted /\ l.unsaved = d.unsaved
  BY <1>1, <1>4, <1>6
<1>10. ~d.deleted /\ ~d.unsaved => k = n
  BY <1>1, <1>2, <1>3, <1>6 DEF SqliteIInv, OwnRows
<1>11. live' = [live EXCEPT ![a] = l]
  BY <1>6, <1>7
<1>12. QED
  BY <1>5, <1>6, <1>8, <1>9, <1>10, <1>11, RowMoves


\* The records of its calls are saved, unless one is another's.
LEMMA SaveCallsKeeps ==
    ASSUME SqliteIInv, NEW a \in Agents, SaveToolCallRecords(a)
    PROVE  SqliteIInv'
<1>1. TablesOK /\ BatchOK /\ CallsApart /\ \A b \in Agents : OwnRows(b)
  BY DEF SqliteIInv
<1>2. PICK c \in SqliteCalls :
        /\ live[a].up /\ Exists(a)
        /\ live' = [live EXCEPT ![a].calls = @ \cup {<<c>>}]
        /\ callRows' = IF \E b \in Agents \ {a} : callRows[b] \cap live'[a].calls # {}
                       THEN callRows
                       ELSE [callRows EXCEPT ![a] = live'[a].calls]
        /\ UNCHANGED <<agentRow, messageRows, snapshotRows, knownIds, batch, sqliteCrashes>>
  BY DEF SaveToolCallRecords
<1>3. PICK d \in LiveStates : d = live[a]
  BY <1>1 DEF TablesOK
<1>4. PICK k \in SUBSET CallIds : k = d.calls \cup {<<c>>} /\ IsFiniteSet(k)
  <2>1. <<c>> \in CallIds
    BY DEF CallIds
  <2>2. IsFiniteSet(d.calls)
    BY <1>1, <1>3 DEF OwnRows
  <2>3. IsFiniteSet(d.calls \cup {<<c>>}) /\ d.calls \in SUBSET CallIds
    BY <2>2, FS_AddElement, LiveRecord
  <2>4. QED
    BY <2>1, <2>3
<1>5. PICK l : l = [up |-> d.up, messages |-> d.messages, calls |-> k, next |-> d.next,
                    unsaved |-> d.unsaved, deleted |-> d.deleted]
  OBVIOUS
<1>6. l \in LiveStates
  BY <1>4, <1>5, LiveRecord DEF LiveStates
<1>7. [d EXCEPT !.calls = k] = l
  BY <1>5, LiveRecord
<1>8. live' = [live EXCEPT ![a] = l]
  BY <1>1, <1>2, <1>3, <1>4, <1>7 DEF TablesOK
<1>9. /\ live' \in [Agents -> LiveStates] /\ live'[a] = l /\ l.calls = k
      /\ l.up = d.up /\ l.messages = d.messages /\ l.next = d.next
      /\ l.unsaved = d.unsaved /\ l.deleted = d.deleted
      /\ \A b \in Agents \ {a} : live'[b] = live[b]
  BY <1>1, <1>5, <1>6, <1>8 DEF TablesOK
<1>10. /\ callRows' \in [Agents -> SUBSET CallIds]
       /\ \A b \in Agents \ {a} : callRows'[b] = callRows[b]
       /\ callRows'[a] \in {callRows[a], k}
       /\ callRows'[a] = k => \A b \in Agents \ {a} : callRows[b] \cap k = {} \/ callRows'[a] = callRows[a]
  <2>1. callRows \in [Agents -> SUBSET CallIds]
    BY <1>1 DEF TablesOK
  <2>2. CASE \E b \in Agents \ {a} : callRows[b] \cap k # {}
    <3>1. callRows' = callRows
      BY <1>2, <1>9, <2>2
    <3>2. QED
      BY <2>1, <3>1
  <2>3. CASE ~\E b \in Agents \ {a} : callRows[b] \cap k # {}
    <3>1. callRows' = [callRows EXCEPT ![a] = k]
      BY <1>2, <1>9, <2>3
    <3>2. QED
      BY <2>1, <2>3, <3>1
  <2>4. QED
    BY <2>2, <2>3
<1>11. TablesOK' /\ BatchOK'
  BY <1>1, <1>2, <1>9, <1>10 DEF TablesOK, BatchOK
<1>12. CallsApart'
  <2> SUFFICES ASSUME NEW b \in Agents, NEW e \in Agents, b # e
               PROVE  callRows'[b] \cap callRows'[e] = {}
    BY DEF CallsApart
  <2>1. callRows[b] \cap callRows[e] = {}
    BY <1>1 DEF CallsApart
  <2>2. QED
    BY <1>10, <2>1
<1>13. ASSUME NEW b \in Agents PROVE OwnRows(b)'
  <2>1. CASE b = a
    <3>1. OwnRows(a) /\ agentRow[a] # NoRow
      BY <1>1, <1>2 DEF Exists
    <3>2. IsFiniteSet(callRows'[a])
      BY <1>4, <1>10, <3>1 DEF OwnRows
    <3>3. OwnRows(a)'
      BY <1>2, <1>3, <1>4, <1>9, <3>1, <3>2 DEF OwnRows
    <3>4. QED
      BY <2>1, <3>3
  <2>2. CASE b # a
    <3>1. OwnRows(b) /\ live'[b] = live[b] /\ callRows'[b] = callRows[b]
      BY <1>1, <1>9, <1>10, <2>2
    <3>2. QED
      BY <1>2, <3>1, RowsStay
  <2>3. QED
    BY <2>1, <2>2
<1>14. QED
  BY <1>11, <1>12, <1>13 DEF SqliteIInv

\* A snapshot of it is saved.
LEMMA SaveSnapshotKeeps ==
    ASSUME SqliteIInv, NEW a \in Agents, SaveSnapshot(a)
    PROVE  SqliteIInv'
<1>1. TablesOK /\ BatchOK /\ CallsApart /\ \A b \in Agents : OwnRows(b)
  BY DEF SqliteIInv
<1>2. PICK id \in SnapshotIds :
        /\ agentRow[a] # NoRow
        /\ snapshotRows' = [snapshotRows EXCEPT ![a] = @ \cup {id}]
        /\ UNCHANGED <<agentRow, messageRows, callRows, knownIds, live, batch, sqliteCrashes>>
  BY DEF SaveSnapshot, Exists
<1>3. snapshotRows' \in [Agents -> SUBSET SnapshotIds]
  BY <1>1, <1>2 DEF TablesOK
<1>4. TablesOK' /\ BatchOK' /\ CallsApart'
  BY <1>1, <1>2, <1>3 DEF TablesOK, BatchOK, CallsApart
<1>5. ASSUME NEW b \in Agents PROVE OwnRows(b)'
  <2>1. agentRow[b] = NoRow => snapshotRows'[b] = snapshotRows[b]
    BY <1>1, <1>2 DEF TablesOK
  <2>2. OwnRows(b)
    BY <1>1
  <2>3. QED
    BY <1>2, <2>1, <2>2 DEF OwnRows
<1>6. QED
  BY <1>4, <1>5 DEF SqliteIInv

\* It is deleted, with all its rows.
LEMMA DeleteKeeps ==
    ASSUME SqliteIInv, NEW a \in Agents, Delete(a)
    PROVE  SqliteIInv'
<1>1. TablesOK /\ BatchOK /\ CallsApart /\ \A b \in Agents : OwnRows(b)
  BY DEF SqliteIInv
<1>2. PICK d \in LiveStates : d = live[a]
  BY <1>1 DEF TablesOK
<1>3. PICK l \in LiveStates :
        /\ live' = [live EXCEPT ![a] = l] /\ l.calls = d.calls /\ l.up = d.up
        /\ l.up => l.deleted
  <2>1. CASE live[a].up
    <3>1. PICK l : l = [up |-> d.up, messages |-> d.messages, calls |-> d.calls, next |-> d.next,
                        unsaved |-> d.unsaved, deleted |-> TRUE]
      OBVIOUS
    <3>2. l \in LiveStates
      BY <3>1, LiveRecord DEF LiveStates
    <3>3. [d EXCEPT !.deleted = TRUE] = l
      <4>1. PICK u, m, c, x, s, e : /\ u = d.up /\ c = d.calls /\ x = d.next /\ e = d.deleted
                                    /\ m = d.messages /\ s = d.unsaved
        OBVIOUS
      <4>2. d = [up |-> u, messages |-> m, calls |-> c, next |-> x, unsaved |-> s, deleted |-> e]
        BY <4>1, LiveRecord
      <4>3. PICK z : z = [d EXCEPT !.deleted = TRUE]
        OBVIOUS
      <4>4. z = [up |-> u, messages |-> m, calls |-> c, next |-> x, unsaved |-> s, deleted |-> TRUE]
        BY <4>2, <4>3
      <4>5. l = [up |-> u, messages |-> m, calls |-> c, next |-> x, unsaved |-> s, deleted |-> TRUE]
        BY <3>1, <4>1
      <4>6. QED
        BY <4>3, <4>4, <4>5
    <3>4. live' = [live EXCEPT ![a] = [d EXCEPT !.deleted = TRUE]]
      BY <1>1, <1>2, <2>1 DEF Delete, TablesOK
    <3>5. l.calls = d.calls /\ l.up = d.up /\ l.deleted
      BY <3>1
    <3>6. QED
      BY <3>2, <3>3, <3>4, <3>5
  <2>2. CASE ~live[a].up
    <3>1. live' = live
      BY <2>2 DEF Delete
    <3>2. live' = [live EXCEPT ![a] = d]
      BY <1>1, <1>2, <3>1 DEF TablesOK
    <3>3. QED
      BY <1>2, <2>2, <3>2
  <2>3. QED
    BY <2>1, <2>2
<1>4. /\ agentRow' = [agentRow EXCEPT ![a] = NoRow] /\ messageRows' = [messageRows EXCEPT ![a] = 0]
      /\ callRows' = [callRows EXCEPT ![a] = {}] /\ snapshotRows' = [snapshotRows EXCEPT ![a] = {}]
      /\ UNCHANGED <<knownIds, batch>>
  BY DEF Delete
<1>5. /\ live' \in [Agents -> LiveStates] /\ live'[a] = l
      /\ agentRow' \in [Agents -> Nat \cup {NoRow}] /\ agentRow'[a] = NoRow
      /\ messageRows' \in [Agents -> Nat] /\ messageRows'[a] = 0
      /\ callRows' \in [Agents -> SUBSET CallIds] /\ callRows'[a] = {}
      /\ snapshotRows' \in [Agents -> SUBSET SnapshotIds] /\ snapshotRows'[a] = {}
  <2>1. live' \in [Agents -> LiveStates] /\ live'[a] = l
    BY <1>1, <1>3 DEF TablesOK
  <2>2. agentRow' \in [Agents -> Nat \cup {NoRow}] /\ agentRow'[a] = NoRow
    BY <1>1, <1>4 DEF TablesOK
  <2>3. messageRows' \in [Agents -> Nat] /\ messageRows'[a] = 0
    BY <1>1, <1>4 DEF TablesOK
  <2>4. callRows' \in [Agents -> SUBSET CallIds] /\ callRows'[a] = {}
    BY <1>1, <1>4 DEF TablesOK
  <2>5. snapshotRows' \in [Agents -> SUBSET SnapshotIds] /\ snapshotRows'[a] = {}
    BY <1>1, <1>4 DEF TablesOK
  <2>6. QED
    BY <2>1, <2>2, <2>3, <2>4, <2>5
<1>6. ASSUME NEW b \in Agents \ {a}
      PROVE  /\ live'[b] = live[b] /\ agentRow'[b] = agentRow[b] /\ messageRows'[b] = messageRows[b]
             /\ callRows'[b] = callRows[b] /\ snapshotRows'[b] = snapshotRows[b]
  <2>1. live'[b] = live[b] /\ agentRow'[b] = agentRow[b] /\ messageRows'[b] = messageRows[b]
    BY <1>1, <1>3, <1>4 DEF TablesOK
  <2>2. callRows'[b] = callRows[b] /\ snapshotRows'[b] = snapshotRows[b]
    BY <1>1, <1>4 DEF TablesOK
  <2>3. QED
    BY <2>1, <2>2
<1>7. TablesOK' /\ BatchOK'
  BY <1>1, <1>4, <1>5 DEF TablesOK, BatchOK
<1>8. CallsApart'
  <2> SUFFICES ASSUME NEW b \in Agents, NEW e \in Agents, b # e
               PROVE  callRows'[b] \cap callRows'[e] = {}
    BY DEF CallsApart
  <2>1. callRows[b] \cap callRows[e] = {}
    BY <1>1 DEF CallsApart
  <2>2. QED
    BY <1>5, <1>6, <2>1
<1>9. ASSUME NEW b \in Agents PROVE OwnRows(b)'
  <2>1. CASE b = a
    <3>1. OwnRows(a) /\ IsFiniteSet({})
      BY <1>1, FS_EmptySet
    <3>4. l.up => a \in knownIds
      BY <1>2, <1>3, <3>1 DEF OwnRows
    <3>5. IsFiniteSet(l.calls)
      BY <1>2, <1>3, <3>1 DEF OwnRows
    <3>2. OwnRows(a)'
      BY <1>3, <1>4, <1>5, <3>1, <3>4, <3>5 DEF OwnRows
    <3>3. QED
      BY <2>1, <3>2
  <2>2. CASE b # a
    BY <1>1, <1>4, <1>6, <2>2, RowsStay
  <2>3. QED
    BY <2>1, <2>2
<1>10. QED
  BY <1>7, <1>8, <1>9 DEF SqliteIInv


\* The count of an agent is read for a batchFork, and then its messages.
LEMMA ForkReadsKeep ==
    ASSUME SqliteIInv, ForkMessages \/ \E a \in Agents : ForkInfo(a)
    PROVE  SqliteIInv'
<1>1. TablesOK /\ BatchOK /\ CallsApart /\ \A b \in Agents : OwnRows(b)
  BY DEF SqliteIInv
<1>2. UNCHANGED <<tables, knownIds, live>>
  BY DEF ForkMessages, ForkInfo
<1>3. TablesOK' /\ CallsApart' /\ (\A b \in Agents : OwnRows(b)')
  BY <1>1, <1>2 DEF TablesOK, CallsApart, OwnRows, tables
<1>4. BatchOK'
  <2>1. CASE ForkMessages
    <3>1. /\ batch' = [stage |-> "calls", source |-> batch.source, count |-> batch.count,
                       info |-> batch.info, messages |-> messageRows[batch.source]]
          /\ batch.source \in Agents /\ batch.count \in Nat /\ batch.info \in Nat
      BY <1>1, <2>1 DEF ForkMessages, LoadMessages, BatchOK
    <3>2. messageRows[batch.source] \in Nat
      BY <1>1, <3>1 DEF TablesOK
    <3>3. QED
      BY <3>1, <3>2 DEF BatchOK
  <2>2. ASSUME NEW a \in Agents, ForkInfo(a) PROVE BatchOK'
    <3>1. PICK count \in 1..MaxForks :
             /\ agentRow[a] # NoRow
             /\ batch' = [stage |-> "messages", source |-> a, count |-> count, info |-> agentRow[a]]
      BY <2>2 DEF ForkInfo, Exists, LoadInfo
    <3>2. agentRow[a] \in Nat
      BY <1>1, <3>1 DEF TablesOK
    <3>3. QED
      BY <3>1, <3>2 DEF BatchOK
  <2>3. QED
    BY <2>1, <2>2
<1>5. QED
  BY <1>1, <1>3, <1>4 DEF SqliteIInv

\* The names of the copies.
LEMMA ForkedIdsAre ==
    ASSUME NEW ids \in SUBSET CallIds, IsFiniteSet(ids), NEW i \in Nat
    PROVE  ForkedIds(ids, i) \in SUBSET CallIds /\ IsFiniteSet(ForkedIds(ids, i))
<1>1. ForkedIds(ids, i) \in SUBSET CallIds
  <2>1. ASSUME NEW id \in ids PROVE Append(id, i) \in CallIds
    BY DEF CallIds
  <2>2. QED
    BY <2>1 DEF ForkedIds
<1>2. PICK f : f = [id \in ids |-> Append(id, i)]
  OBVIOUS
<1>3. f \in Surjection(ids, ForkedIds(ids, i))
  BY <1>2 DEF Surjection, ForkedIds
<1>4. QED
  BY <1>1, <1>3, FS_Surjection

\* Copies for different agents have different names.
LEMMA ForkedApart ==
    ASSUME NEW ids \in SUBSET CallIds, NEW i \in Nat, NEW j \in Nat, i # j
    PROVE  ForkedIds(ids, i) \cap ForkedIds(ids, j) = {}
<1> SUFFICES ASSUME NEW x \in ids, NEW y \in ids, Append(x, i) = Append(y, j) PROVE FALSE
  BY DEF ForkedIds
<1>1. x \in Seq(SqliteCalls \cup Nat) /\ y \in Seq(SqliteCalls \cup Nat)
  BY DEF CallIds
<1>2. Len(Append(x, i)) = Len(x) + 1 /\ Append(x, i)[Len(x) + 1] = i /\ Len(x) \in Nat
  BY <1>1
<1>3. Len(Append(y, j)) = Len(y) + 1 /\ Append(y, j)[Len(y) + 1] = j /\ Len(y) \in Nat
  BY <1>1
<1>4. Len(x) = Len(y)
  BY <1>2, <1>3
<1>5. QED
  BY <1>2, <1>3, <1>4

\* The transaction of a batchFork writes all new agents, or nothing.
LEMMA ForkCommitKeeps ==
    ASSUME SqliteIInv, ForkCommit
    PROVE  SqliteIInv'
<1>1. TablesOK /\ BatchOK /\ CallsApart /\ \A b \in Agents : OwnRows(b)
  BY DEF SqliteIInv
<1>2. /\ batch.stage = "calls" /\ batch.source \in Agents /\ batch.count \in Nat
      /\ batch.info \in Nat /\ batch.messages \in Nat
  BY <1>1 DEF ForkCommit, BatchOK
<1>3. PICK ids \in SUBSET CallIds : ids = callRows[batch.source] /\ IsFiniteSet(ids)
  BY <1>1, <1>2 DEF TablesOK, OwnRows
<1>4. PICK taken : taken = UNION Range(callRows)
  OBVIOUS
<1>5. PICK new \in [0..(batch.count - 1) -> Agents \ knownIds] :
        /\ IsInjective(new)
        /\ IF \E i \in DOMAIN new : ForkedIds(ids, i) \cap taken # {}
           THEN /\ batch' = [stage |-> "rejected"]
                /\ UNCHANGED <<agentRow, messageRows, callRows, knownIds>>
           ELSE /\ batch' = [stage |-> "done"]
                /\ agentRow' = [a \in Agents |-> IF a \in Range(new) THEN batch.info ELSE agentRow[a]]
                /\ messageRows' = [a \in Agents |-> IF a \in Range(new) THEN batch.messages
                                                    ELSE messageRows[a]]
                /\ callRows' = [a \in Agents |->
                                  IF a \in Range(new)
                                  THEN ForkedIds(ids, Inverse(new, DOMAIN new, Agents)[a])
                                  ELSE callRows[a]]
                /\ knownIds' = knownIds \cup Range(new)
  BY <1>3, <1>4 DEF ForkCommit, LoadToolCallRecords
<1>6. UNCHANGED <<snapshotRows, live>>
  BY DEF ForkCommit
<1>7. CASE \E i \in DOMAIN new : ForkedIds(ids, i) \cap taken # {}
  <2>1. batch' = [stage |-> "rejected"] /\ UNCHANGED <<agentRow, messageRows, callRows, knownIds>>
    BY <1>5, <1>7
  <2>2. BatchOK'
    BY <2>1 DEF BatchOK
  <2>3. QED
    BY <1>1, <1>6, <2>1, <2>2 DEF SqliteIInv, TablesOK, CallsApart, OwnRows
<1>8. CASE ~\E i \in DOMAIN new : ForkedIds(ids, i) \cap taken # {}
  <2>1. PICK N \in SUBSET Agents : N = Range(new) /\ N \cap knownIds = {}
    <3>1. \A i \in DOMAIN new : new[i] \in Agents \ knownIds
      BY <1>5
    <3>2. Range(new) \in SUBSET Agents /\ Range(new) \cap knownIds = {}
      BY <3>1 DEF Range
    <3>3. QED
      BY <3>2
  <2>2. DOMAIN new = 0..(batch.count - 1) /\ DOMAIN new \in SUBSET Nat
    BY <1>2, <1>5
  <2>3. PICK at : at = Inverse(new, DOMAIN new, Agents)
    OBVIOUS
  <2>4. ASSUME NEW a \in N PROVE at[a] \in DOMAIN new /\ at[a] \in Nat /\ new[at[a]] = a
    <3>1. \E s \in DOMAIN new : new[s] = a
      BY <2>1 DEF Range
    <3>2. at[a] = CHOOSE s \in DOMAIN new : a \in Range(new) => new[s] = a
      BY <2>1, <2>3 DEF Inverse
    <3>3. at[a] \in DOMAIN new /\ new[at[a]] = a
      BY <2>1, <3>1, <3>2
    <3>4. QED
      BY <2>2, <3>3
  <2>5. /\ batch' = [stage |-> "done"] /\ knownIds' = knownIds \cup N
        /\ agentRow' = [a \in Agents |-> IF a \in N THEN batch.info ELSE agentRow[a]]
        /\ messageRows' = [a \in Agents |-> IF a \in N THEN batch.messages ELSE messageRows[a]]
        /\ callRows' = [a \in Agents |-> IF a \in N THEN ForkedIds(ids, at[a]) ELSE callRows[a]]
    BY <1>5, <1>8, <2>1, <2>3
  <2>6. ASSUME NEW a \in N
        PROVE  /\ callRows'[a] = ForkedIds(ids, at[a]) /\ callRows'[a] \in SUBSET CallIds
               /\ IsFiniteSet(callRows'[a]) /\ agentRow'[a] = batch.info
               /\ messageRows'[a] = batch.messages
    <3>1. callRows'[a] = ForkedIds(ids, at[a]) /\ at[a] \in Nat
      BY <2>4, <2>5
    <3>2. QED
      BY <1>3, <2>5, <3>1, ForkedIdsAre
  <2>7. ASSUME NEW a \in Agents \ N
        PROVE  /\ callRows'[a] = callRows[a] /\ agentRow'[a] = agentRow[a]
               /\ messageRows'[a] = messageRows[a]
    BY <2>5
  <2>8. TablesOK'
    <3>1. agentRow' \in [Agents -> Nat \cup {NoRow}]
      BY <1>1, <1>2, <2>5 DEF TablesOK
    <3>2. messageRows' \in [Agents -> Nat]
      BY <1>1, <1>2, <2>5 DEF TablesOK
    <3>3. callRows' \in [Agents -> SUBSET CallIds]
      <4>1. ASSUME NEW a \in Agents PROVE callRows'[a] \in SUBSET CallIds
        BY <1>1, <2>6, <2>7 DEF TablesOK
      <4>2. callRows' = [a \in Agents |-> callRows'[a]]
        BY <2>5
      <4>3. QED
        BY <4>1, <4>2
    <3>4. knownIds' \subseteq Agents
      BY <1>1, <2>1, <2>5 DEF TablesOK
    <3>5. QED
      BY <1>1, <1>6, <3>1, <3>2, <3>3, <3>4 DEF TablesOK
  <2>9. BatchOK'
    BY <2>5 DEF BatchOK
  <2>10. ASSUME NEW a \in N, NEW b \in Agents \ N PROVE callRows'[a] \cap callRows'[b] = {}
    <3>1. ForkedIds(ids, at[a]) \cap taken = {}
      BY <1>8, <2>4
    <3>2. callRows[b] \subseteq taken
      <4>1. b \in DOMAIN callRows
        BY <1>1 DEF TablesOK
      <4>2. QED
        BY <1>4, <4>1 DEF Range
    <3>3. QED
      BY <2>6, <2>7, <3>1, <3>2
  <2>11. CallsApart'
    <3> SUFFICES ASSUME NEW a \in Agents, NEW b \in Agents, a # b
                 PROVE  callRows'[a] \cap callRows'[b] = {}
      BY DEF CallsApart
    <3>1. CASE a \in N /\ b \in N
      <4>1. at[a] # at[b] /\ at[a] \in Nat /\ at[b] \in Nat
        BY <2>4, <3>1
      <4>2. QED
        BY <2>6, <3>1, <4>1, ForkedApart
    <3>2. CASE a \in N /\ b \notin N
      BY <2>10, <3>2
    <3>3. CASE a \notin N /\ b \in N
      <4>1. callRows'[b] \cap callRows'[a] = {}
        BY <2>10, <3>3
      <4>2. QED
        BY <4>1
    <3>4. CASE a \notin N /\ b \notin N
      BY <1>1, <2>7, <3>4 DEF CallsApart
    <3>5. QED
      BY <3>1, <3>2, <3>3, <3>4
  <2>12. ASSUME NEW b \in Agents PROVE OwnRows(b)'
    <3>1. CASE b \in N
      <4>1. OwnRows(b) /\ b \notin knownIds /\ batch.info # NoRow
        BY <1>1, <1>2, <2>1, <3>1, SqliteAssumption
      <4>2. ~live[b].up
        BY <4>1 DEF OwnRows
      <4>3. QED
        BY <1>6, <2>6, <3>1, <4>1, <4>2 DEF OwnRows
    <3>2. CASE b \notin N
      <4>1. knownIds \subseteq knownIds' /\ snapshotRows'[b] = snapshotRows[b] /\ live'[b] = live[b]
        BY <1>6, <2>5
      <4>2. QED
        BY <1>1, <2>7, <3>2, <4>1, RowsStay
    <3>3. QED
      BY <3>1, <3>2
  <2>13. QED
    BY <2>8, <2>9, <2>11, <2>12 DEF SqliteIInv
<1>9. QED
  BY <1>7, <1>8

\* The process ends.
LEMMA SqliteCrashKeeps ==
    ASSUME SqliteIInv, SqliteCrash
    PROVE  SqliteIInv'
<1>1. TablesOK /\ BatchOK /\ CallsApart /\ \A b \in Agents : OwnRows(b)
  BY DEF SqliteIInv
<1>2. PICK down : down = Down
  OBVIOUS
<1>3. down \in LiveStates /\ ~down.up /\ down.calls = {}
  BY <1>2 DEF Down, LiveStates
<1>4. /\ live' = [a \in Agents |-> down] /\ batch' = NoBatch /\ UNCHANGED <<tables, knownIds>>
  BY <1>2 DEF SqliteCrash
<1>5. TablesOK' /\ BatchOK' /\ CallsApart'
  BY <1>1, <1>3, <1>4 DEF TablesOK, BatchOK, CallsApart, NoBatch, tables
<1>6. ASSUME NEW b \in Agents PROVE OwnRows(b)'
  <2>1. OwnRows(b) /\ live'[b] = down
    BY <1>1, <1>4
  <2>2. QED
    BY <1>3, <1>4, <2>1, FS_EmptySet DEF OwnRows, tables
<1>7. QED
  BY <1>5, <1>6 DEF SqliteIInv

\* Every step keeps the tables in order.
LEMMA SqliteStep ==
    SqliteIInv /\ [SqliteNext]_sqliteVars => SqliteIInv'
<1> SUFFICES ASSUME SqliteIInv, [SqliteNext]_sqliteVars PROVE SqliteIInv'
  OBVIOUS
<1>1. CASE UNCHANGED sqliteVars
  BY <1>1 DEF sqliteVars, tables, SqliteIInv, TablesOK, BatchOK, CallsApart, OwnRows
<1>2. ASSUME NEW a \in Agents,
             \/ Start(a) \/ Push(a) \/ SaveMessages(a) \/ SaveInfo(a)
             \/ SaveToolCallRecords(a) \/ SaveSnapshot(a) \/ Delete(a)
      PROVE  SqliteIInv'
  BY <1>2, StartKeeps, PushKeeps, SaveMessagesKeeps, SaveInfoKeeps, SaveCallsKeeps,
     SaveSnapshotKeeps, DeleteKeeps
<1>3. CASE ForkMessages \/ \E a \in Agents : ForkInfo(a)
  BY <1>3, ForkReadsKeep
<1>4. CASE ForkCommit \/ SqliteCrash
  BY <1>4, ForkCommitKeeps, SqliteCrashKeeps
<1>5. QED
  BY <1>1, <1>2, <1>3, <1>4 DEF SqliteNext

\* The tables agree about every agent at rest, and their counts over all rows
\* are those of the listed agents: after any crash between two saves, any delete
\* under a running agent and any fork of a moving one (SqliteStore).
THEOREM SqliteTablesAgree == SqliteSpec => []TablesAgree
<1>1. SqliteInit => SqliteIInv
  <2> SUFFICES ASSUME SqliteInit PROVE SqliteIInv
    OBVIOUS
  <2>1. PICK down : down = Down
    OBVIOUS
  <2>2. down \in LiveStates /\ ~down.up /\ down.calls = {}
    BY <2>1 DEF Down, LiveStates
  <2>3. TablesOK
    BY <2>1, <2>2 DEF SqliteInit, TablesOK
  <2>4. BatchOK /\ CallsApart
    BY DEF SqliteInit, BatchOK, CallsApart, NoBatch
  <2>5. \A a \in Agents : OwnRows(a)
    BY <2>1, <2>2, FS_EmptySet DEF SqliteInit, OwnRows
  <2>6. QED
    BY <2>3, <2>4, <2>5 DEF SqliteIInv
<1>2. SqliteIInv => TablesAgree
  <2> SUFFICES ASSUME SqliteIInv PROVE TablesAgree
    OBVIOUS
  <2>1. ConsistentAtRest
    <3> SUFFICES ASSUME NEW a \in Agents, AtRest(a), ~live[a].deleted PROVE CheckConsistency(a)
      BY DEF ConsistentAtRest
    <3>1. messageRows[a] = live[a].messages /\ agentRow[a] = live[a].messages
      BY DEF SqliteIInv, OwnRows, AtRest
    <3>2. messageRows[a] \in Nat
      BY DEF SqliteIInv, TablesOK
    <3>3. QED
      BY <3>1, <3>2, SqliteAssumption DEF CheckConsistency, Exists, LoadInfo, LoadMessages
  <2>2. \A a \in Agents \ List : AggregateStats(a).snapshots = 0
    <3> SUFFICES ASSUME NEW a \in Agents \ List PROVE AggregateStats(a).snapshots = 0
      OBVIOUS
    <3>1. snapshotRows[a] = {}
      BY DEF SqliteIInv, OwnRows, List, Exists
    <3>2. ListSnapshots(a) = {}
      BY <3>1 DEF ListSnapshots, LoadSnapshot
    <3>3. QED
      BY <3>2, FS_EmptySet DEF AggregateStats
  <2>3. RowsHaveAgents
    BY <2>2, MessagesAddUp, CallsAddUp DEF RowsHaveAgents
  <2>4. QED
    BY <2>1, <2>3 DEF TablesAgree
<1>3. QED
  BY <1>1, <1>2, SqliteStep, PTL DEF SqliteSpec
=============================================================================
