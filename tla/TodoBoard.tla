----------------------------- MODULE TodoBoard -----------------------------
(***************************************************************************)
(* An agent's todo list: the service that holds it (core/todo.ts), the     *)
(* manager that announces its changes and reminds the model of it          *)
(* (core/agent/todo-manager.ts) and the tool that writes it.               *)
(*                                                                         *)
(* A change replaces the list in memory at once, with the next version,    *)
(* and then waits for the store; several changes may wait at a time (tools *)
(* of one round, the application), their saves may land in any order, or   *)
(* fail.  Only after its save does a change announce itself, with the list *)
(* as it is by then.                                                       *)
(***************************************************************************)
EXTENDS Naturals, Sequences

CONSTANTS TodoIds,      \* ids of todos
          TodoChanges,  \* calls of setTodos, update and remove, numbered as they begin
          MaxTodos,     \* bound: todos in a list
          RemindEvery,  \* config.remindIntervalSteps
          MaxRounds     \* bound: steps of the agent

\* Without an interval, or with one that is not positive, nothing reminds.
ASSUME TodoAssumption == TodoChanges \subseteq Nat /\ RemindEvery \in Nat \ {0}

VARIABLES board,          \* snapshot.todos: Seq([id, status])
          version,        \* snapshot.version
          filed,          \* the snapshot in the store, [todos, version]
          change,         \* change[c]: [status, prev, saving]
          announced,      \* the list of the last todo_changed event
          sinceReminder,  \* stepsSinceReminder
          silentRounds,   \* steps since open todos were last spoken of (observation)
          troubled,       \* a save failed, or landed after a later one (observation)
          rounds          \* steps so far

todoVars == <<board, version, filed, change, announced, sinceReminder, silentRounds,
              troubled, rounds>>

TodoStatuses == {"pending", "in_progress", "completed"}
Todo == [id : TodoIds, status : TodoStatuses]
Lists == UNION {[1..n -> Todo] : n \in 0..MaxTodos}
Unfinished(todos) == {i \in DOMAIN todos : todos[i].status # "completed"}

TodoInit ==
  /\ board = <<>>
  /\ version = 1
  /\ filed = [todos |-> <<>>, version |-> 1]
  /\ change = [c \in TodoChanges |-> [status |-> "idle", saving |-> filed]]
  /\ announced = <<>>
  /\ sinceReminder = 0
  /\ silentRounds = 0
  /\ troubled = FALSE
  /\ rounds = 0

-----------------------------------------------------------------------------

(* validateTodos()                                                         *)
Valid(todos) ==
  /\ \A i, j \in DOMAIN todos : todos[i].id = todos[j].id => i = j
  /\ \A i, j \in DOMAIN todos :
       todos[i].status = "in_progress" /\ todos[j].status = "in_progress" => i = j

(* The new list is in memory, and persist() has handed it to the store.    *)
Replace(c, todos) ==
  /\ board' = todos
  /\ version' = version + 1
  /\ change' = [change EXCEPT ![c] = [status |-> "saving",
                                      saving |-> [todos |-> todos, version |-> version + 1]]]
  /\ UNCHANGED <<filed, announced, sinceReminder, silentRounds, troubled, rounds>>

TodoRefused(c) ==
  /\ change' = [change EXCEPT ![c].status = "refused"]
  /\ UNCHANGED <<board, version, filed, announced, sinceReminder, silentRounds, troubled, rounds>>

Begins(c) == \A d \in TodoChanges : change[d].status = "idle" <=> d >= c

(* setTodos(): the model's todo_write, or the application.                 *)
SetTodos(c, todos) ==
  /\ Begins(c)
  /\ IF Valid(todos) THEN Replace(c, todos) ELSE TodoRefused(c)

(* update(): of one todo, which must be on the list.                       *)
Update(c, todo) ==
  LET next == [i \in DOMAIN board |-> IF board[i].id = todo.id THEN todo ELSE board[i]] IN
    /\ Begins(c)
    /\ IF (\E i \in DOMAIN board : board[i].id = todo.id) /\ Valid(next)
       THEN Replace(c, next)
       ELSE TodoRefused(c)

(* The list without the todos of that id.                                  *)
Removed(todos, id) ==
  LET upTo[n \in 0..Len(todos)] ==
        IF n = 0 THEN <<>>
        ELSE IF todos[n].id # id THEN Append(upTo[n - 1], todos[n]) ELSE upTo[n - 1]
  IN  upTo[Len(todos)]

(* remove(): an id that is not on the list changes only the version.       *)
RemoveTodo(c, id) ==
  /\ Begins(c)
  /\ Replace(c, Removed(board, id))

(* The store's write ends: the file holds what this change handed over.    *)
SaveLands(c) ==
  /\ change[c].status = "saving"
  /\ filed' = change[c].saving
  /\ troubled' = (troubled \/ filed.version > change[c].saving.version)
  /\ change' = [change EXCEPT ![c].status = "saved"]
  /\ UNCHANGED <<board, version, announced, sinceReminder, silentRounds, rounds>>

(* It fails: the change stays in memory, and nothing announces it.         *)
TodoSaveFails(c) ==
  /\ change[c].status = "saving"
  /\ troubled' = TRUE
  /\ change' = [change EXCEPT ![c].status = "failed"]
  /\ UNCHANGED <<board, version, filed, announced, sinceReminder, silentRounds, rounds>>

(* Faulty variant: the event shows the list that this change had set.      *)
AnnounceOwn(c) ==
  /\ change[c].status = "saved"
  /\ announced' = change[c].saving.todos
  /\ sinceReminder' = 0
  /\ silentRounds' = 0
  /\ change' = [change EXCEPT ![c].status = "done"]
  /\ UNCHANGED <<board, version, filed, troubled, rounds>>

(* publishChange() shows the list of now, and starts counting afresh.      *)
Announce(c) ==
  /\ change[c].status = "saved"
  /\ announced' = board
  /\ sinceReminder' = 0
  /\ silentRounds' = 0
  /\ change' = [change EXCEPT ![c].status = "done"]
  /\ UNCHANGED <<board, version, filed, troubled, rounds>>

(* onStep(): counts, and reminds when open todos were not mentioned for so *)
(* many steps; with none open the count goes on.                           *)
OnStep ==
  /\ rounds < MaxRounds
  /\ rounds' = rounds + 1
  /\ IF sinceReminder + 1 >= RemindEvery /\ Unfinished(board) # {}
     THEN sinceReminder' = 0 /\ silentRounds' = 0
     ELSE /\ sinceReminder' = sinceReminder + 1
          /\ silentRounds' = IF Unfinished(board) = {} THEN 0 ELSE silentRounds + 1
  /\ UNCHANGED <<board, version, filed, change, announced, troubled>>

(* The process ends with a change under way, and the agent is resumed:     *)
(* load() reads the store.                                                 *)
Reload ==
  /\ \E c \in TodoChanges : change[c].status \in {"saving", "saved"}
  /\ board' = filed.todos /\ version' = filed.version
  /\ announced' = filed.todos
  /\ sinceReminder' = 0 /\ silentRounds' = 0
  /\ change' = [c \in TodoChanges |->
                  IF change[c].status \in {"saving", "saved"}
                  THEN [change[c] EXCEPT !.status = "failed"] ELSE change[c]]
  /\ UNCHANGED <<filed, troubled, rounds>>

TodoNext ==
  \/ \E c \in TodoChanges :
       \/ \E todos \in Lists : SetTodos(c, todos)
       \/ \E todo \in Todo : Update(c, todo)
       \/ \E id \in TodoIds : RemoveTodo(c, id)
       \/ SaveLands(c) \/ TodoSaveFails(c) \/ Announce(c)
  \/ OnStep
  \/ Reload

TodoSpec == TodoInit /\ [][TodoNext]_todoVars

-----------------------------------------------------------------------------

Settled == \A c \in TodoChanges : change[c].status \notin {"saving", "saved"}

(* No order of changes, and none that fails halfway, leaves a list in      *)
(* memory or in the store with a repeated id or two todos in progress.     *)
ListsAreValid == Valid(board) /\ Valid(filed.todos)

(* Once every change has ended, the application was last shown the list as *)
(* it is, and the store holds it too, unless a save failed or landed after *)
(* one that was handed over later.                                         *)
ShownAndFiled == Settled /\ ~troubled => announced = board /\ filed.todos = board

(* While todos are open, the model hears of them within the interval.      *)
RemindsInTime == silentRounds < RemindEvery

(* The board keeps its list valid, shown, stored and remembered.           *)
BoardKept == ListsAreValid /\ ShownAndFiled /\ RemindsInTime
=============================================================================
