-------------------------- MODULE MCAgentRecovery ---------------------------
(***************************************************************************)
(* What an agent keeps in the store and takes up again when it is resumed: *)
(* its messages and records, the bookmarks of its events, its todo list    *)
(* and the conversation as compression left it.  They share no state in    *)
(* the instances checked here, so that one of them is at work, chosen at   *)
(* the start; the others stay in their initial state.  Tool call ids are   *)
(* interchangeable.                                                        *)
(***************************************************************************)
EXTENDS AgentRecovery, EventCursor, TodoBoard, ContextWindow, TLC

VARIABLE part

Symmetry == Permutations(Calls)

ResumableInit == /\ part \in {"history", "bookmarks", "todos", "context"}
                 /\ RecoveryInit /\ CursorInit /\ TodoInit /\ ContextInit

ResumableNext ==
    /\ part' = part
    /\ \/ part = "history" /\ RecoveryNext /\ UNCHANGED <<cursorVars, todoVars, contextVars>>
       \/ part = "bookmarks" /\ CursorNext /\ UNCHANGED <<allVars, todoVars, contextVars>>
       \/ part = "todos" /\ TodoNext /\ UNCHANGED <<allVars, cursorVars, contextVars>>
       \/ part = "context" /\ ContextNext /\ UNCHANGED <<allVars, cursorVars, todoVars>>

ResumableSpec ==
    ResumableInit /\ [][ResumableNext]_<<part, allVars, cursorVars, todoVars, contextVars>>

=============================================================================
