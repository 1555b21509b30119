---------------------------- MODULE ContextWindow ----------------------------
(***************************************************************************)
(* How a conversation that has become too long is cut.  At the beginning   *)
(* of a step the agent has ContextManager.compress save the whole          *)
(* conversation as a history window, keep the later part of it and put a   *)
(* summary in front; then it saves what is left.  Every save is an await,  *)
(* may fail, and the process may crash at each.                            *)
(*                                                                         *)
(* A message has an id, an estimate of its tokens and a number of media    *)
(* blocks.  A summary has the id 0.                                        *)
(***************************************************************************)
EXTENDS Integers, Sequences, FiniteSets, FiniteSetsExt, SequencesExt

CONSTANTS MaxTokens, CompressToTokens,
          KeepRecentMultimodal,
          TextSizes,   \* tokens of a text
          MediaSize,   \* tokens of a media block, a constant of the code
          MaxContext,  \* bound: messages added
          MaxBreaks    \* bound: crashes and failed saves

ASSUME ContextAssumption == /\ {MaxTokens, CompressToTokens, KeepRecentMultimodal, MediaSize,
                                 MaxContext, MaxBreaks} \subseteq Nat
                            /\ TextSizes \subseteq Nat

VARIABLES messages,        \* Agent.messages
          storedMessages,  \* the store has
          windows,         \* the ids of the messages in the store's history windows
          step,            \* idle, saving (the window), recording or replaced
          cut,             \* how many messages compress removes
          added,           \* every message that was added
          breaks

contextVars == <<messages, storedMessages, windows, step, cut, added, breaks>>

MessageIds(seq) == {m.id : m \in Range(seq)}
WindowMessage(id, text, media) == [id |-> id, tokens |-> text + media * MediaSize, media |-> media]
Summary == [id |-> 0, tokens |-> 1, media |-> 0]

CeilDiv(a, b) == (a + b - 1) \div b
Smaller(a, b) == IF a < b THEN a ELSE b
Larger(a, b) == IF a > b THEN a ELSE b
-----------------------------------------------------------------------------
SumOf(field, seq) == FoldLeft(LAMBDA sum, m : sum + m[field], 0, seq)

\* analyze
WindowTokens(seq) == SumOf("tokens", seq)
ShouldCompress(seq) == WindowTokens(seq) > MaxTokens

\* findKeepFromIndexForMultimodal: how many messages come before the last
\* media blocks that are to stay.
MediaAfter(seq, i) == SumOf("media", SubSeq(seq, i + 1, Len(seq)))
RecentMedia(seq) == {i \in DOMAIN seq : /\ seq[i].media > 0
                                        /\ MediaAfter(seq, i) < KeepRecentMultimodal}
BeforeRecentMedia(seq) == IF RecentMedia(seq) = {} THEN Len(seq) ELSE Min(RecentMedia(seq)) - 1

\* The later part: a share by tokens, at least 60 percent; slice(-n) keeps all
\* when there are fewer than n.
KeepCount(seq) == Larger(CeilDiv(Len(seq) * CompressToTokens, WindowTokens(seq)),
                         CeilDiv(Len(seq) * 6, 10))

\* Faulty variant: media do not count.
KeepFromTokens(seq) == Larger(0, Len(seq) - KeepCount(seq))

\* compress: the number of messages it removes.
KeepFrom(seq) == Larger(0, Smaller(Len(seq) - KeepCount(seq), BeforeRecentMedia(seq)))

ContextInit == /\ messages = <<>> /\ storedMessages = <<>> /\ windows = {}
               /\ step = "idle" /\ cut = 0 /\ added = <<>> /\ breaks = 0

\* Messages enter the conversation and are saved.
AddMessage(text, media) ==
    /\ step = "idle" /\ Len(added) < MaxContext
    /\ LET new == WindowMessage(Len(added) + 1, text, media)
       IN added' = Append(added, new) /\ messages' = Append(messages, new)
    /\ storedMessages' = messages'
    /\ UNCHANGED <<windows, step, cut, breaks>>

BeginCompress ==
    /\ step = "idle" /\ ShouldCompress(messages)
    /\ step' = "saving"
    /\ UNCHANGED <<messages, storedMessages, windows, cut, added, breaks>>

SaveHistoryWindow ==
    /\ step = "saving"
    /\ windows' = windows \cup MessageIds(messages)
    /\ cut' = KeepFrom(messages)
    /\ step' = "recording"
    /\ UNCHANGED <<messages, storedMessages, added, breaks>>

\* The recovered files and the record are saved, and the agent replaces its
\* messages.
ReplaceMessages ==
    /\ step = "recording"
    /\ messages' = <<Summary>> \o SubSeq(messages, cut + 1, Len(messages))
    /\ step' = "replaced" /\ cut' = 0
    /\ UNCHANGED <<storedMessages, windows, added, breaks>>

PersistMessages ==
    /\ step = "replaced"
    /\ storedMessages' = messages
    /\ step' = "idle"
    /\ UNCHANGED <<messages, windows, cut, added, breaks>>

\* A save fails, the step with it; what the step did so far stays.
HistorySaveFails ==
    /\ step # "idle" /\ breaks < MaxBreaks
    /\ step' = "idle" /\ cut' = 0 /\ breaks' = breaks + 1
    /\ UNCHANGED <<messages, storedMessages, windows, added>>

CrashAndResume ==
    /\ breaks < MaxBreaks
    /\ messages' = storedMessages
    /\ step' = "idle" /\ cut' = 0 /\ breaks' = breaks + 1
    /\ UNCHANGED <<storedMessages, windows, added>>

ContextNext ==
    \/ \E text \in TextSizes : AddMessage(text, 0)
    \/ \E media \in 1..2 : AddMessage(0, media)
    \/ BeginCompress \/ SaveHistoryWindow \/ ReplaceMessages \/ PersistMessages
    \/ HistorySaveFails \/ CrashAndResume

ContextSpec == ContextInit /\ [][ContextNext]_contextVars
-----------------------------------------------------------------------------
\* Every message that was ever saved is in the stored conversation or in a
\* history window, at every moment at which the process may crash.
NothingForgotten == DOMAIN added \subseteq MessageIds(storedMessages) \cup windows

\* The last media blocks of the whole conversation are still in it after any
\* number of compressions, and what is left of it has no gap.
RecentMediaStay ==
    /\ RecentMedia(added) \subseteq MessageIds(messages)
    /\ \E from \in 0..Len(added) : MessageIds(messages) \ {0} = (from + 1)..Len(added)

\* No message is lost to compressions, failed saves and crashes, and the recent
\* media stay in view.
ContextKept == NothingForgotten /\ RecentMediaStay
=============================================================================
