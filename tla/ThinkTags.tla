----------------------------- MODULE ThinkTags -----------------------------
(***************************************************************************)
(* Thinking as text.  With reasoningTransport "text" a model writes its    *)
(* thinking between <think> tags: runStep splits the text blocks of an     *)
(* answer at the tags, and concatTextWithReasoning writes them again when  *)
(* the answer is part of the next request.                                 *)
(*                                                                         *)
(* A text is a sequence of words and tags; a hole in the blocks is <<>>.   *)
(***************************************************************************)
EXTENDS Naturals, Sequences, FiniteSetsExt, SequencesExt

CONSTANTS MaxWords   \* bound: words and tags of an answer

VARIABLES thinkTransport,  \* reasoningTransport
          answer           \* assistantBlocks

thinkVars == <<thinkTransport, answer>>

Symbols == {"word", "<think>", "</think>"}
TextBlock(text) == [type |-> "text", text |-> text]
ReasoningBlock(text) == [type |-> "reasoning", text |-> text]
IfAny(text) == IF text = <<>> THEN <<>> ELSE <<TextBlock(text)>>

\* Faulty variant: the expression takes as much as it can.
SplitGreedily(text) ==
    LET opens == {i \in DOMAIN text : text[i] = "<think>"
                                      /\ \E j \in i .. Len(text) : text[j] = "</think>"}
        i == Min(opens)
        j == Max({k \in DOMAIN text : text[k] = "</think>"})
    IN IF opens = {} THEN <<>>
       ELSE IfAny(SubSeq(text, 1, i - 1)) \o <<ReasoningBlock(SubSeq(text, i + 1, j - 1))>>
            \o IfAny(SubSeq(text, j + 1, Len(text)))

\* splitThinkText: from the first opening tag that has a closing one to the
\* first that closes it, and so on in the rest; nothing if there is none.
SplitThinkText(text) ==
    LET closing(i) == {j \in i + 1 .. Len(text) : text[j] = "</think>"}
        opens(from) == {i \in from .. Len(text) : text[i] = "<think>" /\ closing(i) # {}}
        split[from \in 1 .. Len(text) + 1] ==
            IF opens(from) = {} THEN IfAny(SubSeq(text, from, Len(text)))
            ELSE LET i == Min(opens(from))
                     j == Min(closing(i))
                 IN IfAny(SubSeq(text, from, i - 1))
                    \o <<ReasoningBlock(SubSeq(text, i + 1, j - 1))>> \o split[j + 1]
    IN IF opens(1) = {} THEN <<>> ELSE split[1]

SplitThinkBlocksIfNeeded(blocks) ==
    LET split(b) == IF b.type # "text" \/ SplitThinkText(b.text) = <<>> THEN <<b>>
                    ELSE SplitThinkText(b.text)
    IN FlattenSeq([i \in DOMAIN blocks |->
                      IF thinkTransport # "text" \/ blocks[i] = <<>> THEN blocks[i]
                      ELSE split(blocks[i][1])])

ConcatTextWithReasoning(blocks) ==
    FlattenSeq([i \in DOMAIN blocks |->
        IF blocks[i].type = "text" THEN blocks[i].text
        ELSE IF thinkTransport = "text" THEN <<"<think>">> \o blocks[i].text \o <<"</think>">>
        ELSE <<>>])

ThinkInit == thinkTransport \in {"text", "provider", "omit"} /\ answer = <<>>

Words == FoldLeft(LAMBDA n, b : n + 1 + (IF b = <<>> THEN 0 ELSE Len(b[1].text)), 0, answer)

\* The stream starts a block, or leaves a hole for one it does not know, ...
NewBlock(block) ==
    /\ Words < MaxWords
    /\ answer' = Append(answer, block)
    /\ UNCHANGED thinkTransport

\* ... or goes on with the last one; thinking that comes in a field of its own
\* has no tags.
NextWord(symbol) ==
    /\ Words < MaxWords /\ answer # <<>> /\ Last(answer) # <<>>
    /\ Last(answer)[1].type = "text" \/ symbol = "word"
    /\ answer' = [answer EXCEPT ![Len(answer)][1].text = Append(@, symbol)]
    /\ UNCHANGED thinkTransport

ThinkNext ==
    \/ \E block \in {<<>>, <<TextBlock(<<>>)>>, <<ReasoningBlock(<<>>)>>} : NewBlock(block)
    \/ \E symbol \in Symbols : NextWord(symbol)

ThinkSpec == ThinkInit /\ [][ThinkNext]_thinkVars
-----------------------------------------------------------------------------
\* The next request says what the model said, word for word and tag for tag,
\* whichever tags are missing or doubled; with another transport all but the
\* thinking.
WordsAreKept ==
    ConcatTextWithReasoning(SplitThinkBlocksIfNeeded(answer))
        = ConcatTextWithReasoning(FlattenSeq(answer))

\* No thinking is left in a text, and no thought runs over the end of another:
\* to split what was split changes nothing.
ThinkingIsApart ==
    LET stored == SplitThinkBlocksIfNeeded(answer)
    IN thinkTransport = "text" =>
          /\ \A b \in Range(stored) : b.type = "text" => SplitThinkText(b.text) = <<>>
          /\ \A b \in Range(stored) : b.type = "reasoning" => "</think>" \notin Range(b.text)

\* Thinking written as text is taken apart and put together again.
ThinkingIsKept == WordsAreKept /\ ThinkingIsApart
=============================================================================
