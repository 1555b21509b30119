------------------------------ MODULE TaskPool ------------------------------
(***************************************************************************)
(* What a caller of ToolRunner may rely on, without its queue and without  *)
(* its counter: every submitted task is either waiting or in service, at   *)
(* most Limit tasks are in service, and a task in service settles once.    *)
(* Dropping a waiting task is a separate, explicit step.                   *)
(***************************************************************************)
EXTENDS Integers, FiniteSets

CONSTANTS Tasks, Limit

VARIABLE phase

Phases == {"new", "waiting", "running", "settled", "dropped"}

In(p) == {t \in Tasks : phase[t] = p}

HasRoom == Cardinality(In("running")) < Limit

Init == phase = [t \in Tasks |-> "new"]

Submit(t) ==
    /\ phase[t] = "new"
    /\ \/ HasRoom /\ phase' = [phase EXCEPT ![t] = "running"]
       \/ phase' = [phase EXCEPT ![t] = "waiting"]

Start(t) ==
    /\ phase[t] = "waiting"
    /\ HasRoom
    /\ phase' = [phase EXCEPT ![t] = "running"]

Settle(t) ==
    /\ phase[t] = "running"
    /\ phase' = [phase EXCEPT ![t] = "settled"]

DropWaiting ==
    /\ phase' = [t \in Tasks |-> IF phase[t] = "waiting" THEN "dropped" ELSE phase[t]]

Next ==
    \/ \E t \in Tasks : Submit(t) \/ Start(t) \/ Settle(t)
    \/ DropWaiting

Spec == Init /\ [][Next]_phase

=============================================================================
