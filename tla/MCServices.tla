----------------------------- MODULE MCServices -----------------------------
(***************************************************************************)
(* The services that agents share: the tool runner, the pool of agents,    *)
(* the family of one agent, and skills.  In the instances checked here     *)
(* they share no state, so that one of them works at a time, chosen at the *)
(* start.                                                                  *)
(***************************************************************************)
EXTENDS ToolRunner, AgentPool, AgentLineage, SkillLibrary

VARIABLE part

MCSubIds == {<<"sub1">>, <<"sub2">>}

(* Ids are interchangeable, and so are callers with no call: the sessions  *)
(* in the store are taken to be the first ids, and a call to be made by the *)
(* first caller that has none.                                             *)
MaxStored == Cardinality(Ids)
FirstIdleCalls ==
    \A v, w \in Callers :
        v < w /\ call[v].pc = "idle" /\ call[w].pc = "idle" => call'[w].pc = "idle"

(* Calls, restarts and failures of the pool, together.                     *)
MaxPoolEvents == 4
PoolBounded == env'.calls + env'.restarts + env'.faults <= MaxPoolEvents

ServicesInit ==
    /\ part \in {"runner", "pool", "forks", "subs", "skills"}
    /\ RunnerInit
    /\ Init /\ (part # "pool" => stored = {}) /\ \E n \in 0..MaxStored : stored = 1..n
    /\ LineageInit /\ (part # "subs" => inherit)
    /\ SkillInit /\ (part # "skills" => platform = "posix" /\ serial /\ ~restricted)

ServicesNext ==
    /\ part' = part
    /\ \/ part = "runner" /\ RunnerNext /\ UNCHANGED <<vars, lineageVars, skillVars>>
       \/ /\ part = "pool" /\ Next /\ FirstIdleCalls /\ PoolBounded
          /\ UNCHANGED <<runnerVars, lineageVars, skillVars>>
       \/ /\ \/ FamilyGoesOn /\ part \in {"forks", "subs"}
             \/ part = "forks" /\ ForkStep
             \/ part = "subs" /\ SubStep
          /\ UNCHANGED <<runnerVars, vars, skillVars>>
       \/ part = "skills" /\ SkillNext /\ UNCHANGED <<runnerVars, vars, lineageVars>>

(* Only the runner and the pool are assumed to go on.                      *)
ServicesSpec ==
    /\ ServicesInit /\ [][ServicesNext]_<<part, runnerVars, vars, lineageVars, skillVars>>
    /\ Fairness /\ PoolFairness
=============================================================================
