----------------------------- MODULE EventFeed ------------------------------
(***************************************************************************)
(* What a live subscriber of the event bus may rely on: from the moment it *)
(* subscribes it is handed every event, in the order of emission, without  *)
(* gaps and without repetitions, until it closes its stream.               *)
(***************************************************************************)
EXTENDS Integers, Sequences

CONSTANT Readers

VARIABLES emitted,    \* how many events there have been
          from,       \* Readers -> emitted at subscription, or NotReading
          received    \* Readers -> the events handed to the reader

feedVars == <<emitted, from, received>>

NotReading == -1

Init ==
    /\ emitted = 0
    /\ from = [r \in Readers |-> NotReading]
    /\ received = [r \in Readers |-> <<>>]

Emit ==
    /\ emitted' = emitted + 1
    /\ UNCHANGED <<from, received>>

Subscribe(r) ==
    /\ from[r] = NotReading
    /\ from' = [from EXCEPT ![r] = emitted]
    /\ UNCHANGED <<emitted, received>>

NextEvent(r) == from[r] + Len(received[r]) + 1

Deliver(r) ==
    /\ from[r] # NotReading
    /\ NextEvent(r) <= emitted
    /\ received' = [received EXCEPT ![r] = Append(@, NextEvent(r))]
    /\ UNCHANGED <<emitted, from>>

\* An emission may hand the event at once to readers that wait for it.
EmitTo(R) ==
    /\ emitted' = emitted + 1
    /\ \A r \in R : from[r] # NotReading /\ NextEvent(r) = emitted'
    /\ received' = [r \in Readers |-> IF r \in R THEN Append(received[r], emitted')
                                      ELSE received[r]]
    /\ UNCHANGED from

Next ==
    \/ Emit
    \/ \E R \in SUBSET Readers : EmitTo(R)
    \/ \E r \in Readers : Subscribe(r) \/ Deliver(r)

Spec == Init /\ [][Next]_feedVars

=============================================================================
