---------------------------- MODULE AgentLineage ----------------------------
(***************************************************************************)
(* Snapshots, forks, sub-agents and resumption of agents (core/agent.ts):  *)
(* who descends from whom, in memory and in the store.                     *)
(*                                                                         *)
(* fork() saves a snapshot, loads it, creates an agent (which stores an    *)
(* info record without lineage), copies messages and lineage into it and   *)
(* stores them, with an await between any two of these; a sub-agent gets   *)
(* its lineage persisted by its first turn.  Each turn's own saves are     *)
(* atomic here: AgentRecovery splits them.                                 *)
(*                                                                         *)
(* The id of a snapshot is the index of the last safe fork point, the id   *)
(* of a fork its parent's and the time: neither is unique by itself.       *)
(***************************************************************************)
EXTENDS Naturals, Sequences

CONSTANTS ForkCallers,   \* calls of fork()
          SubIds,        \* generated ids of sub-agents, never repeated
          Depth,         \* template.runtime.subagents.depth
          MaxForkDepth,  \* bound: forks of forks
          MaxTurns,      \* bound: turns of the root
          MaxInstants,   \* bound: instants at which a fork gets its id
          MaxCrashes     \* bound: ends of the process

VARIABLES live,       \* live[a]: [lineage, messages, limit] of the agents in memory
          persisted,  \* persisted[a]: [lineage, messages, limit, snapshots] in the store
          forking,    \* forking[f]: [stage, parent, snapshot, messages, child] of a fork()
          inherit,    \* subagents.inheritConfig
          named,      \* named[<<a, id>>]: what snapshot() first called by that id (observation)
          reused,     \* the <<a, id>> that named different messages later (observation)
          wiped,      \* agents deleted and created anew
          turns,      \* turns of the root so far
          clock,
          crashes

lineageVars == <<live, persisted, forking, inherit, named, reused, wiped, turns, clock, crashes>>

(* Agent ids: a fork's extends its parent's.                               *)
Root == <<"root">>
ForkId(a, time) == Append(a, time)

(* A sub-agent has a name of its own.                                      *)
ASSUME LineageAssumption ==
  /\ Depth \in Nat
  /\ \A s \in SubIds : s \in Seq(STRING) /\ Len(s) = 1 /\ s # Root

Including(f, x, y) == [z \in DOMAIN f \cup {x} |-> IF z = x THEN y ELSE f[z]]

(* Agent.create() and initialize(): it takes what messages the store has   *)
(* for the id, and stores an info record with an empty lineage.  `limit`   *)
(* is its subagents configuration: the depth left, and (observation) how   *)
(* many spawns it is away from an agent with the full depth.               *)
FullLimit == [depth |-> Depth, level |-> 0]
Nothing == [lineage |-> <<>>, messages |-> <<>>, limit |-> FullLimit, snapshots |-> <<>>]
Stored(a) == IF a \in DOMAIN persisted THEN persisted[a] ELSE Nothing
Initialized(a, limit) == [Stored(a) EXCEPT !.lineage = <<>>, !.limit = limit]

NoFork == [stage |-> "idle", parent |-> Root, snapshot |-> 0, messages |-> <<>>, child |-> Root]

LineageInit ==
  /\ persisted = [a \in {Root} |-> [lineage |-> <<>>, messages |-> <<1>>, limit |-> FullLimit,
                                    snapshots |-> <<>>]]
  /\ live = [a \in {Root} |-> [lineage |-> <<>>, messages |-> <<1>>, limit |-> FullLimit]]
  /\ forking = [f \in ForkCallers |-> NoFork]
  /\ inherit \in BOOLEAN
  /\ named = <<>>
  /\ reused = {}
  /\ wiped = {}
  /\ turns = 1
  /\ clock = 1
  /\ crashes = 0

-----------------------------------------------------------------------------

(* A turn of the root; persistMessages() stores messages and info.         *)
TurnPersisted(a, messages) ==
  /\ live' = [live EXCEPT ![a].messages = messages]
  /\ persisted' = [persisted EXCEPT ![a].messages = messages, ![a].lineage = live[a].lineage]

Turn(a) ==
  /\ a \in DOMAIN live /\ a \in DOMAIN persisted
  /\ turns < MaxTurns
  /\ turns' = turns + 1
  /\ TurnPersisted(a, Append(live[a].messages, turns'))
  /\ UNCHANGED <<forking, inherit, named, reused, wiped, clock, crashes>>

(* Compression replaces the history by a shorter one.                      *)
Compress(a) ==
  /\ a \in DOMAIN live /\ a \in DOMAIN persisted
  /\ Len(live[a].messages) > 1
  /\ TurnPersisted(a, <<live[a].messages[Len(live[a].messages)]>>)
  /\ UNCHANGED <<forking, inherit, named, reused, wiped, turns, clock, crashes>>

ClockTicks ==
  /\ clock < MaxInstants
  /\ clock' = clock + 1
  /\ UNCHANGED <<live, persisted, forking, inherit, named, reused, wiped, turns, crashes>>

-----------------------------------------------------------------------------

(* fork() without a selection: snapshot() stores the messages under the    *)
(* index of the last safe fork point.                                      *)
SnapshotId(a) == Len(live[a].messages)

ForkSnapshots(f, a) ==
  /\ forking[f].stage = "idle"
  /\ a \in DOMAIN live /\ a \in DOMAIN persisted
  /\ LET id == SnapshotId(a) IN
       /\ persisted' = [persisted EXCEPT ![a].snapshots = Including(@, id, live[a].messages)]
       /\ forking' = [forking EXCEPT ![f] = [NoFork EXCEPT !.stage = "saved", !.parent = a,
                                                          !.snapshot = id]]
       /\ named' = IF <<a, id>> \in DOMAIN named THEN named
                   ELSE Including(named, <<a, id>>, live[a].messages)
       /\ reused' = IF named'[<<a, id>>] = live[a].messages THEN reused ELSE reused \cup {<<a, id>>}
  /\ UNCHANGED <<live, inherit, wiped, turns, clock, crashes>>

(* Faulty variant: fork() takes the parent's messages of now.              *)
ForkLoadsLive(f) ==
  LET a == forking[f].parent IN
    /\ forking[f].stage = "saved"
    /\ IF a \in DOMAIN live
       THEN forking' = [forking EXCEPT ![f].stage = "loaded", ![f].messages = live[a].messages,
                                       ![f].child = ForkId(a, clock)]
       ELSE forking' = [forking EXCEPT ![f].stage = "failed"]
    /\ UNCHANGED <<live, persisted, inherit, named, reused, wiped, turns, clock, crashes>>

(* loadSnapshot(), and the id of the fork from the clock.                  *)
ForkLoads(f) ==
  LET a == forking[f].parent IN
    /\ forking[f].stage = "saved"
    /\ IF a \in DOMAIN persisted /\ forking[f].snapshot \in DOMAIN persisted[a].snapshots
       THEN forking' = [forking EXCEPT ![f].stage = "loaded",
                                       ![f].messages = persisted[a].snapshots[forking[f].snapshot],
                                       ![f].child = ForkId(a, clock)]
       ELSE forking' = [forking EXCEPT ![f].stage = "failed"]
    /\ UNCHANGED <<live, persisted, inherit, named, reused, wiped, turns, clock, crashes>>

(* Agent.create() persisted the info record; then the snapshot's messages  *)
(* and the lineage are set without an await, and saveMessages() starts.    *)
ForkCreates(f) ==
  LET c == forking[f].child
      p == forking[f].parent IN
    /\ forking[f].stage = "loaded"
    /\ p \in DOMAIN live
    /\ persisted' = Including(persisted, c, Initialized(c, live[p].limit))
    /\ live' = Including(live, c, [lineage |-> Append(live[p].lineage, p),
                                   messages |-> forking[f].messages, limit |-> live[p].limit])
    /\ forking' = [forking EXCEPT ![f].stage = "created"]
    /\ UNCHANGED <<inherit, named, reused, wiped, turns, clock, crashes>>

ForkSavesMessages(f) ==
  LET c == forking[f].child IN
    /\ forking[f].stage = "created"
    /\ persisted' = [persisted EXCEPT ![c].messages = live[c].messages]
    /\ forking' = [forking EXCEPT ![f].stage = "filed"]
    /\ UNCHANGED <<live, inherit, named, reused, wiped, turns, clock, crashes>>

ForkReturns(f) ==
  LET c == forking[f].child IN
    /\ forking[f].stage = "filed"
    /\ persisted' = [persisted EXCEPT ![c].lineage = live[c].lineage]
    /\ forking' = [forking EXCEPT ![f].stage = "returned"]
    /\ UNCHANGED <<live, inherit, named, reused, wiped, turns, clock, crashes>>

-----------------------------------------------------------------------------

NewSub(s, a, limit) ==
  /\ s \notin DOMAIN live /\ s \notin DOMAIN persisted
  /\ persisted' = Including(persisted, s, Initialized(s, limit))
  /\ live' = Including(live, s, [lineage |-> Append(live[a].lineage, a), messages |-> <<>>,
                                 limit |-> limit])
  /\ UNCHANGED <<forking, inherit, named, reused, wiped, turns, clock, crashes>>

(* spawnSubAgent(): refused at depth 0.  Without inheritConfig the new     *)
(* agent has its template's own configuration, and the full depth again.   *)
SpawnSubAgent(a, s) ==
  /\ a \in DOMAIN live
  /\ live[a].limit.depth > 0
  /\ NewSub(s, a, [depth |-> IF inherit THEN live[a].limit.depth - 1 ELSE Depth,
                   level |-> live[a].limit.level + 1])

(* delegateTask(), what the tool task_run calls: it consults no limit.     *)
DelegateTask(a, s) ==
  /\ a \in DOMAIN live
  /\ NewSub(s, a, FullLimit)

(* The sub-agent's first turn stores its messages and its lineage.         *)
SubTurn(s) ==
  /\ s \in DOMAIN live
  /\ live[s].messages = <<>>
  /\ TurnPersisted(s, <<0>>)
  /\ UNCHANGED <<forking, inherit, named, reused, wiped, turns, clock, crashes>>

-----------------------------------------------------------------------------

(* The process ends.                                                       *)
Crash ==
  /\ crashes < MaxCrashes
  /\ crashes' = crashes + 1
  /\ live' = <<>>
  /\ forking' = [f \in ForkCallers |->
                   IF forking[f].stage \in {"idle", "returned"} THEN forking[f]
                   ELSE [forking[f] EXCEPT !.stage = "failed"]]
  /\ UNCHANGED <<persisted, inherit, named, reused, wiped, turns, clock>>

(* resumeFromStore(): the lineage and the messages of the store.           *)
ResumeFromStore(a) ==
  /\ a \in DOMAIN persisted /\ a \notin DOMAIN live
  /\ live' = Including(live, a, [lineage |-> persisted[a].lineage, messages |-> persisted[a].messages,
                                 limit |-> persisted[a].limit])
  /\ UNCHANGED <<persisted, forking, inherit, named, reused, wiped, turns, clock, crashes>>

(* resumeOrCreate() of an agent one of whose tools the registry does not   *)
(* know: taken for corrupted data, it is deleted and created anew.         *)
RecreateUnknown(a) ==
  /\ a \in DOMAIN persisted /\ a \notin DOMAIN live
  /\ persisted' = [persisted EXCEPT ![a] = Nothing]
  /\ live' = Including(live, a, [lineage |-> <<>>, messages |-> <<>>, limit |-> FullLimit])
  /\ wiped' = wiped \cup {a}
  /\ UNCHANGED <<forking, inherit, named, reused, turns, clock, crashes>>

FamilyGoesOn ==
  \/ Turn(Root) \/ Compress(Root) \/ ClockTicks \/ Crash
  \/ \E a \in DOMAIN persisted : ResumeFromStore(a) \/ RecreateUnknown(a)

ForkStep ==
  \E f \in ForkCallers :
    \/ \E a \in DOMAIN live : Len(a) <= MaxForkDepth /\ ForkSnapshots(f, a)
    \/ ForkLoads(f) \/ ForkCreates(f) \/ ForkSavesMessages(f) \/ ForkReturns(f)

SubStep ==
  \E s \in SubIds :
    \/ \E a \in DOMAIN live : SpawnSubAgent(a, s) \/ DelegateTask(a, s)
    \/ SubTurn(s)

LineageNext == FamilyGoesOn \/ ForkStep \/ SubStep

LineageSpec == LineageInit /\ [][LineageNext]_lineageVars

-----------------------------------------------------------------------------

(* The ancestors that the id of a fork names, the oldest first.            *)
Ancestors(a) == [i \in 1..(Len(a) - 1) |-> SubSeq(a, 1, i)]

Suffix(xs, ys) == \E i \in 0..Len(ys) : xs = SubSeq(ys, i + 1, Len(ys))

(* No interruption of a fork, and no resumption of what it leaves behind,  *)
(* ever stores a lineage that names somebody who is no ancestor or leaves  *)
(* out one in between: the oldest may be missing, of an agent that was     *)
(* resumed from a fork cut short.                                          *)
LineageIsTrue ==
  \A a \in DOMAIN persisted \ SubIds :
    Head(a) = "root" => Suffix(persisted[a].lineage, Ancestors(a))

Clashes(f) == \E g \in ForkCallers \ {f} :
  forking[g].child = forking[f].child /\ forking[g].stage \notin {"idle", "saved"}

(* When fork() has returned, the store holds the new agent with the parent *)
(* last in its lineage and with the messages that its snapshot's id was    *)
(* given for, whatever the parent did meanwhile - unless another fork got  *)
(* the same id in the same instant, or that snapshot's id was used again   *)
(* after a compression.                                                    *)
ForksAreStored ==
  \A f \in ForkCallers :
    LET c == forking[f].child
        origin == <<forking[f].parent, forking[f].snapshot>> IN
      forking[f].stage = "returned" /\ c \notin wiped /\ ~Clashes(f) =>
        /\ c \in DOMAIN persisted
        /\ persisted[c].lineage # <<>>
        /\ persisted[c].lineage[Len(persisted[c].lineage)] = forking[f].parent
        /\ origin \notin reused => persisted[c].messages = named[origin]

(* spawnSubAgent() nests no deeper than the configured depth, where        *)
(* sub-agents inherit that configuration.                                  *)
SpawnsAreBounded == inherit => \A a \in DOMAIN live : live[a].limit.level <= Depth

(* Forks and sub-agents descend as their records say.                      *)
FamilyKept == LineageIsTrue /\ ForksAreStored /\ SpawnsAreBounded
=============================================================================
