---------------------------- MODULE SessionTable ----------------------------
(***************************************************************************)
(* What a SQL store promises of saves that run side by side: the stored    *)
(* messages of an agent are always one list that somebody saved, replaced  *)
(* whole and together with the agent's count, and only of an agent that    *)
(* has a row.  A message is known by its place and by who saved it.        *)
(***************************************************************************)
EXTENDS Naturals

CONSTANTS Agents, Writers, MaxMessages, NoRow

VARIABLES count,    \* agents.message_count of each agent, or NoRow
          messages  \* the stored messages of each agent

List(w, n) == {<<k, w>> : k \in 0..(n - 1)}
Lists == {List(w, n) : w \in Writers, n \in 0..MaxMessages}

Init == /\ count \in [Agents -> {0, NoRow}]
        /\ messages = [a \in Agents |-> {}]

Put(a, n, list) == /\ count' = [count EXCEPT ![a] = n]
                   /\ messages' = [messages EXCEPT ![a] = list]

\* saveMessages
Save(a) == /\ count[a] # NoRow
           /\ \E w \in Writers, n \in 0..MaxMessages : Put(a, n, List(w, n))

\* saveInfo
SaveInfo(a) == \E n \in 0..MaxMessages : Put(a, n, messages[a])

\* batchFork: a new agent with a list and a count that were stored, though
\* not always at the same time.
Fork(a) == /\ count[a] = NoRow
           /\ \E n \in 0..MaxMessages, list \in Lists : Put(a, n, list)

\* delete
Remove(a) == Put(a, NoRow, {})

Next == \E a \in Agents : Save(a) \/ SaveInfo(a) \/ Fork(a) \/ Remove(a)

Spec == Init /\ [][Next]_<<count, messages>>
=============================================================================
