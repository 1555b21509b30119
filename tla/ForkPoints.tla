----------------------------- MODULE ForkPoints -----------------------------
(***************************************************************************)
(* Where a conversation may be cut, and what is made of it for another     *)
(* provider (src/infra/providers/core/fork.ts).  The analysis of a message *)
(* looks at its neighbours only; that a cut there leaves no call without   *)
(* its result is a matter of the whole conversation.                       *)
(*                                                                         *)
(* A message is its role, the calls it makes or answers, and its thoughts, *)
(* each signed or not.  The conversation grows as an agent's does, also    *)
(* wrongly: a user may write while calls are open, and results may be      *)
(* incomplete.                                                             *)
(***************************************************************************)
EXTENDS Naturals, Sequences, FiniteSets, SequencesExt

CONSTANTS ForkCalls,        \* ids of tool calls
          ResumeProviders,  \* names that getResumeHandler is asked for
          MaxMessages       \* bound: messages of a conversation

ASSUME ForkAssumption == MaxMessages \in Nat

VARIABLES talk,  \* the conversation
          cuts   \* forks and resumes so far

forkVars == <<talk, cuts>>

Says(role, uses, results, thoughts) ==
    [role |-> role, uses |-> uses, results |-> results, thoughts |-> thoughts]

Used == UNION {m.uses : m \in Range(talk)}
-----------------------------------------------------------------------------
\* Faulty variant: every answer of the model is a safe point.
SafeAfterAnswer(messages, i) ==
    LET m == messages[i]
    IN m.role = "user" =>
           \/ i = 1 \/ messages[i - 1].role # "assistant"
           \/ messages[i - 1].uses \subseteq m.results

\* analyzeForkSafety
AnalyzeForkSafety(messages, i) ==
    LET m == messages[i]
    IN IF m.role = "user"
       THEN i = 1 \/ messages[i - 1].role # "assistant"
            \/ messages[i - 1].uses \subseteq m.results
       ELSE m.uses = {}

FindSafeForkPoints(messages) == {i \in DOMAIN messages : AnalyzeForkSafety(messages, i)}

GetLastSafeForkPoint(messages) ==
    LET points == FindSafeForkPoints(messages)
    IN IF points = {} THEN 0 ELSE Max(points)

CanForkAt(messages, i) == i \in FindSafeForkPoints(messages)

\* What the handlers do to the thoughts of an answer.
AnthropicResume(thoughts) == thoughts
DeepseekResume(thoughts) == {}
OpenaiChatResume(thoughts) == {}     \* they become text
GeminiResume(thoughts) == thoughts \cap {"signed"}

Kept(provider, thoughts) ==
    CASE provider \in {"anthropic", "openai-responses"} -> AnthropicResume(thoughts)
      [] provider = "openai"                            -> OpenaiChatResume(thoughts)
      [] provider = "gemini"                            -> GeminiResume(thoughts)
      [] OTHER                                          -> DeepseekResume(thoughts)

PrepareMessagesForResume(messages, provider) ==
    [i \in DOMAIN messages |->
        IF messages[i].role = "assistant"
        THEN [messages[i] EXCEPT !.thoughts = Kept(provider, @)] ELSE messages[i]]

\* serializeForResume treats the messages of every role alike.
SerializeForResume(messages, transport) ==
    [i \in DOMAIN messages |->
        [messages[i] EXCEPT !.thoughts = IF transport = "provider" THEN @ ELSE {}]]

AnthropicErrors(messages) ==
    {i \in DOMAIN messages :
        /\ messages[i].uses # {} /\ i < Len(messages)
        /\ \/ messages[i + 1].role # "user"
           \/ ~(messages[i].uses \subseteq messages[i + 1].results)}

DeepseekErrors(messages) ==
    {i \in DOMAIN messages : i < Len(messages) /\ messages[i].role = "assistant"
                             /\ messages[i].thoughts # {}}

ValidateMessagesForResume(messages, provider) ==
    CASE provider = "anthropic" -> AnthropicErrors(messages) = {}
      [] provider = "deepseek"  -> DeepseekErrors(messages) = {}
      [] OTHER                  -> TRUE
-----------------------------------------------------------------------------
ForkInit == talk = <<>> /\ cuts = 0

Add(m) == /\ Len(talk) < MaxMessages
          /\ talk' = Append(talk, m)
          /\ UNCHANGED cuts

UserWrites == Add(Says("user", {}, {}, {}))

ModelAnswers ==
    \E uses \in SUBSET (ForkCalls \ Used), thoughts \in SUBSET {"signed", "plain"} :
        /\ talk # <<>> /\ Last(talk).role = "user"
        /\ Add(Says("assistant", uses, {}, thoughts))

\* The results of a round, all of them or, when it was cut short, some.
ToolsReturn ==
    \E k \in DOMAIN talk : \E results \in SUBSET talk[k].uses :
        /\ results # {}
        /\ \A j \in k+1..Len(talk) : talk[j].role = "user" /\ talk[j].results = {}
        /\ Add(Says("user", {}, results, {}))

\* forkAt: the messages up to a safe point.
ForkAt(i) ==
    /\ CanForkAt(talk, i) /\ cuts < 1
    /\ talk' = SubSeq(talk, 1, i)
    /\ cuts' = cuts + 1

Resume(provider) ==
    /\ cuts < 1
    /\ talk' = PrepareMessagesForResume(talk, provider)
    /\ ValidateMessagesForResume(talk', provider)
    /\ cuts' = cuts + 1

Store(transport) ==
    /\ cuts < 1
    /\ talk' = SerializeForResume(talk, transport)
    /\ cuts' = cuts + 1

ForkNext == \/ UserWrites \/ ModelAnswers \/ ToolsReturn
            \/ \E i \in DOMAIN talk : ForkAt(i)
            \/ \E provider \in ResumeProviders : Resume(provider)
            \/ \E transport \in {"provider", "text", "omit"} : Store(transport)

ForkSpec == ForkInit /\ [][ForkNext]_forkVars
-----------------------------------------------------------------------------
\* Every call among the first i messages is answered by the message after it.
Complete(i) ==
    \A k \in 1..i : talk[k].uses # {} => k < i /\ talk[k].uses \subseteq talk[k + 1].results

\* In a conversation that Anthropic accepts, a message is a safe fork point
\* exactly when no call is open after it; in any other, a safe point may come
\* after a call that was never answered, since only the neighbour is looked at.
SafePointsAreComplete ==
    ValidateMessagesForResume(talk, "anthropic") =>
        \A i \in DOMAIN talk : CanForkAt(talk, i) <=> Complete(i)

\* Preparing for a provider makes the conversation one it accepts, if its
\* calls are answered, and moves no fork point.
PreparedIsAccepted ==
    \A provider \in ResumeProviders :
        LET prepared == PrepareMessagesForResume(talk, provider)
        IN /\ FindSafeForkPoints(prepared) = FindSafeForkPoints(talk)
           /\ ValidateMessagesForResume(talk, "anthropic") =>
                 ValidateMessagesForResume(prepared, provider)

\* A conversation that Anthropic accepts always has a safe point, and at most the
\* last message, one with open calls, comes after the last safe point.
LastPointIsSafe ==
    ValidateMessagesForResume(talk, "anthropic") /\ talk # <<>> /\ talk[1].role = "user" =>
        /\ GetLastSafeForkPoint(talk) > 0
        /\ Len(talk) - GetLastSafeForkPoint(talk) <= 1

\* Safe points are where a conversation may be cut, resumed and converted.
ForksAreWhole == SafePointsAreComplete /\ PreparedIsAccepted /\ LastPointIsSafe
=============================================================================
