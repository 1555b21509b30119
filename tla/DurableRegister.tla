-------------------------- MODULE DurableRegister ---------------------------
(***************************************************************************)
(* What saving under a write-ahead log is for: versions 1, 2, ... are      *)
(* saved one after the other; at any moment, crashes included, a load      *)
(* yields one complete version, never an older one than the last save that *)
(* returned, and a save that fails or dies has either happened or not.     *)
(* The promise ends when operations on the file overlap.                   *)
(***************************************************************************)
EXTENDS Integers

VARIABLES value,   \* what a load yields; the first versions may be there already
          acked,   \* the last version whose save returned
          begun,   \* the last version whose save was called
          shared   \* whether two operations have overlapped

registerVars == <<value, acked, begun, shared>>

Init == value \in Nat /\ acked = value /\ begun = value /\ shared = FALSE

Begin ==
    /\ begun' = begun + 1
    /\ UNCHANGED <<value, acked, shared>>

Commit ==
    /\ value' = begun
    /\ UNCHANGED <<acked, begun, shared>>

Acknowledge ==
    /\ value = begun
    /\ acked' = begun
    /\ UNCHANGED <<value, begun, shared>>

\* A version whose save never returned may be given up when it is recovered.
GiveUp ==
    /\ value > acked
    /\ value' \in acked..(value - 1)
    /\ UNCHANGED <<acked, begun, shared>>

\* No promise any more: whatever follows.
Overlap == shared'

Next == Begin \/ Commit \/ Acknowledge \/ GiveUp \/ Overlap

Spec == Init /\ [][Next]_registerVars

=============================================================================
