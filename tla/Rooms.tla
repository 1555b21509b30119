------------------------------- MODULE Rooms -------------------------------
(***************************************************************************)
(* A room of agents (core/room.ts).  say() is asynchronous: it walks the   *)
(* live Map of members and waits for agent.complete() of each in turn, so  *)
(* members join, leave and come back, and agents enter and leave the pool, *)
(* while a message is on its way.                                          *)
(*                                                                         *)
(* A JavaScript Map keeps its entries in the order of insertion; an        *)
(* iterator sees an entry added behind it and skips one that was deleted.  *)
(* `entries` is that list, with the deleted entries kept as gaps, so that  *)
(* an iterator is a position in it.                                        *)
(***************************************************************************)
EXTENDS Naturals, Sequences, FiniteSets

CONSTANTS MemberNames,   \* names under which agents join, each its own agent
          Speeches,      \* calls of say()
          Senders,       \* who speaks: a member's name, or somebody else's
          MentionLists,  \* the @mentions of a text in order, <<>> in a broadcast
          MaxEntries,    \* bound: joins of the room
          MaxMoves       \* bound: changes of the pool

(* The mentions of a text are a list, of whatever names (extractMentions).  *)
ASSUME RoomAssumption == \A ms \in MentionLists : ms \in Seq({ms[i] : i \in DOMAIN ms})

VARIABLES entries,  \* Seq([name, present]): the Map `members` with its gaps
          pooled,   \* the agents that pool.get finds
          moves,    \* changes of the pool so far
          speech,   \* speech[s]: the say() s
          received  \* received[s][n]: deliveries of s that n's agent completed

roomVars == <<entries, pooled, moves, speech, received>>

Present == {entries[i].name : i \in {i \in DOMAIN entries : entries[i].present}}

Unsaid == [status |-> "unsaid", from |-> CHOOSE n \in Senders : TRUE,
           mentions |-> <<>>, at |-> 0, waiting |-> FALSE, steady |-> {}]

RoomInit ==
  /\ entries = <<>>
  /\ pooled = MemberNames
  /\ moves = 0
  /\ speech = [s \in Speeches |-> Unsaid]
  /\ received = [s \in Speeches |-> [n \in MemberNames |-> 0]]

-----------------------------------------------------------------------------

(* Faulty variant: a list of members to whose front join() adds the new    *)
(* one, so that the others move back under the index of a say().           *)
JoinInFront(n) ==
  /\ n \notin Present
  /\ Len(entries) < MaxEntries
  /\ entries' = <<[name |-> n, present |-> TRUE]>> \o entries
  /\ UNCHANGED <<pooled, moves, speech, received>>

Join(n) ==
  /\ n \notin Present
  /\ Len(entries) < MaxEntries
  /\ entries' = Append(entries, [name |-> n, present |-> TRUE])
  /\ UNCHANGED <<pooled, moves, speech, received>>

(* From now on n was not with the room throughout any speech in progress.  *)
Unsteady(n) == [s \in Speeches |-> [speech[s] EXCEPT !.steady = @ \ {n}]]

Leave(n) ==
  /\ n \in Present
  /\ entries' = [i \in DOMAIN entries |->
                   IF entries[i].name = n THEN [name |-> n, present |-> FALSE] ELSE entries[i]]
  /\ speech' = Unsteady(n)
  /\ UNCHANGED <<pooled, moves, received>>

(* The agent leaves the pool (pool.delete) or returns to it (pool.resume). *)
PoolChanges(n) ==
  /\ moves < MaxMoves
  /\ moves' = moves + 1
  /\ pooled' = IF n \in pooled THEN pooled \ {n} ELSE pooled \cup {n}
  /\ speech' = Unsteady(n)
  /\ UNCHANGED <<entries, received>>

-----------------------------------------------------------------------------

(* Whom s turns to next when it stands behind position i of its list: the  *)
(* positions of live members other than the sender, of agents in the pool. *)
Stops(s) ==
  IF speech[s].mentions = <<>>
  THEN {i \in DOMAIN entries : /\ entries[i].present
                               /\ entries[i].name # speech[s].from
                               /\ entries[i].name \in pooled}
  ELSE {i \in 1..Len(speech[s].mentions) : speech[s].mentions[i] \in Present \cap pooled}

NameAt(s, i) == IF speech[s].mentions = <<>> THEN entries[i].name ELSE speech[s].mentions[i]

Ahead(s, stops) == {i \in stops : i > speech[s].at}

Say(s) ==
  /\ speech[s].status = "unsaid"
  /\ \E n \in Senders, ms \in MentionLists :
       speech' = [speech EXCEPT ![s] = [status |-> "saying", from |-> n, mentions |-> ms, at |-> 0,
                                        waiting |-> FALSE, steady |-> Present \cap pooled]]
  /\ UNCHANGED <<entries, pooled, moves, received>>

(* The loop moves on to the first stop ahead and calls complete() of that  *)
(* agent, or ends: the members in between are skipped without an await.    *)
MoveOn(s) ==
  /\ speech[s].status = "saying"
  /\ ~speech[s].waiting
  /\ LET ahead == Ahead(s, Stops(s)) IN
       speech' = IF ahead = {}
                 THEN [speech EXCEPT ![s].status = "said"]
                 ELSE [speech EXCEPT ![s].at = CHOOSE i \in ahead : \A j \in ahead : i <= j,
                                     ![s].waiting = TRUE]
  /\ UNCHANGED <<entries, pooled, moves, received>>

(* complete() resolves, whether or not the member is still in the room.    *)
Completed(s) ==
  /\ speech[s].waiting
  /\ received' = [received EXCEPT ![s][NameAt(s, speech[s].at)] = @ + 1]
  /\ speech' = [speech EXCEPT ![s].waiting = FALSE]
  /\ UNCHANGED <<entries, pooled, moves>>

(* complete() rejects: say() rejects, and nobody after this member hears.  *)
Rejected(s) ==
  /\ speech[s].waiting
  /\ speech' = [speech EXCEPT ![s].waiting = FALSE, ![s].status = "failed"]
  /\ UNCHANGED <<entries, pooled, moves, received>>

RoomNext ==
  \/ \E n \in MemberNames : Join(n) \/ Leave(n) \/ PoolChanges(n)
  \/ \E s \in Speeches : Say(s) \/ MoveOn(s) \/ Completed(s) \/ Rejected(s)

RoomSpec == RoomInit /\ [][RoomNext]_roomVars

-----------------------------------------------------------------------------

Mentioned(s, n) == Cardinality({i \in DOMAIN speech[s].mentions : speech[s].mentions[i] = n})

Owed(s, n) ==
  IF speech[s].mentions = <<>> THEN IF n = speech[s].from THEN 0 ELSE 1
  ELSE Mentioned(s, n)

(* When say() resolves, every member that was in the room, with its agent  *)
(* in the pool, from the call to the end has answered it exactly as often  *)
(* as it was addressed, whoever else came and went while say() waited; and *)
(* one that rejects never repeated it to such a member.                    *)
SteadyMembersHear ==
  \A s \in Speeches : \A n \in speech[s].steady :
    /\ received[s][n] <= Owed(s, n)
    /\ speech[s].status = "said" => received[s][n] = Owed(s, n)
=============================================================================
