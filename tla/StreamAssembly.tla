--------------------------- MODULE StreamAssembly ---------------------------
(***************************************************************************)
(* How one streamed answer becomes a message: what the model says arrives  *)
(* in pieces, the provider's stream() turns each event into chunks that    *)
(* carry a block index, and Agent.runStep builds the blocks of the message *)
(* and shows text and thinking to subscribers as it goes.  The generator   *)
(* is pulled, so the chunks of an event are consumed at once.              *)
(*                                                                         *)
(* runStep keeps the index of the block that was started last and ignores  *)
(* the index of deltas and stops.  Anthropic's and Gemini's translations   *)
(* stop a block before they start the next; OpenAI's keeps text and        *)
(* reasoning open to the end and holds tool calls back until then.         *)
(*                                                                         *)
(* Blocks count from 1 and a current block of 0 is the code's -1.  The     *)
(* arguments of a call are JSON, of which only the whole parses.           *)
(***************************************************************************)
EXTENDS Naturals, Sequences, FiniteSets, SequencesExt

CONSTANTS StreamProviders,  \* subset of {"anthropic", "openai", "gemini"}
          RawCalls,         \* the indices OpenAI gives to the calls of an answer
          MaxPieces         \* bound: the pieces of an answer

ASSUME StreamAssumption == MaxPieces \in Nat

VARIABLES provider,
          messageTransport,  \* Anthropic's reasoningTransport
          said,              \* the pieces the model has sent, in order
          translator,        \* what stream() remembers between events
          blocks,            \* assistantBlocks
          current,           \* currentBlockIndex and currentToolBuffer
          shown,             \* the starts and ends that subscribers saw
          over               \* the stream has ended

streamVars == <<provider, messageTransport, said, translator, blocks, current, shown, over>>

\* A piece of a block: text and thinking as they come, a call's arguments in
\* two halves or, from Gemini, whole.  `block` tells blocks of one kind apart.
Piece(kind, block, part, signed) ==
    [kind |-> kind, block |-> block, part |-> part, signed |-> signed]

StreamStart(i, kind) == [type |-> "start", index |-> i, kind |-> kind, pieces |-> <<>>]
Delta(i, kind, pieces) == [type |-> "delta", index |-> i, kind |-> kind, pieces |-> pieces]
Stop(i) == [type |-> "stop", index |-> i, kind |-> "none", pieces |-> <<>>]

\* The numbers of the pieces are their content.
Whole(pieces, numbers) ==
    LET parts == [k \in DOMAIN numbers |-> pieces[numbers[k]].part]
    IN /\ parts \in {<<"head", "tail">>, <<"whole">>}
       /\ \A k \in DOMAIN numbers : pieces[numbers[k]].block = pieces[numbers[1]].block
-----------------------------------------------------------------------------
(* The consumer, in runStep.                                               *)

Assembly == [blocks |-> blocks, current |-> current, shown |-> shown]

StartBlock(asm, c) ==
    [blocks  |-> [i \in 1..Max({c.index, Len(asm.blocks)}) |->
                    IF i = c.index THEN <<[kind |-> c.kind, content |-> <<>>]>>
                    ELSE IF i <= Len(asm.blocks) THEN asm.blocks[i] ELSE <<>>],
     current |-> [index |-> c.index, buffer |-> <<>>],
     shown   |-> IF c.kind = "tool" THEN asm.shown
                 ELSE Append(asm.shown, <<"start", c.kind>>)]

KindAt(asm, i) == IF i \in DOMAIN asm.blocks /\ asm.blocks[i] # <<>>
                  THEN asm.blocks[i][1].kind ELSE "none"

TakeDelta(asm, c, pieces) ==
    LET i == asm.current.index
        buffer == asm.current.buffer \o c.pieces
        fits == KindAt(asm, i) = c.kind
    IN CASE c.kind = "tool" ->
              [asm EXCEPT !.current.buffer = buffer,
                          !.blocks = IF fits /\ Whole(pieces, buffer)
                                     THEN [@ EXCEPT ![i] = <<[kind |-> "tool",
                                                              content |-> buffer]>>]
                                     ELSE @]
         [] OTHER ->
              [asm EXCEPT !.blocks = IF fits
                                     THEN [@ EXCEPT ![i][1].content = @ \o c.pieces]
                                     ELSE @]

StopBlock(asm) ==
    LET kind == KindAt(asm, asm.current.index)
    IN [asm EXCEPT !.current = [index |-> 0, buffer |-> <<>>],
                   !.shown = IF kind \in {"text", "reasoning"}
                             THEN Append(@, <<"end", kind>>) ELSE @]

Consumed(chunks, pieces) ==
    LET take(asm, c) == CASE c.type = "start" -> StartBlock(asm, c)
                          [] c.type = "delta" -> TakeDelta(asm, c, pieces)
                          [] OTHER            -> StopBlock(asm)
    IN FoldLeft(take, Assembly, chunks)

\* The answer goes on by a piece, or ends, and its chunks are consumed.
Consume(chunks, pieces) ==
    LET asm == Consumed(chunks, pieces)
    IN blocks' = asm.blocks /\ current' = asm.current /\ shown' = asm.shown

\* The message: compactContentBlocks drops the holes between the blocks.
StreamedMessage == FlattenSeq(blocks)
-----------------------------------------------------------------------------
(* Anthropic: one block at a time, and the indices are the server's.  A    *)
(* block of a type the SDK does not know is not started.  With messageTransport    *)
(* "text" a thinking block is started as text, and its deltas stay thinking. *)

AnthropicKind(kind) == IF kind = "reasoning" /\ messageTransport = "text" THEN "text" ELSE kind

AnthropicOpens(kind) ==
    /\ provider = "anthropic"
    /\ LET i == translator.next
           n == Len(said) + 1
           stop == IF i > 1 THEN <<Stop(i - 1)>> ELSE <<>>
           start == IF kind = "unknown" THEN <<>> ELSE <<StreamStart(i, AnthropicKind(kind))>>
           delta == IF kind = "unknown" THEN Delta(i, "text", <<n>>) ELSE Delta(i, kind, <<n>>)
       IN /\ said' = Append(said, Piece(kind, i, "head", FALSE))
          /\ Consume(stop \o start \o <<delta>>, said')
          /\ translator' = [translator EXCEPT !.next = i + 1]

AnthropicGoesOn ==
    /\ provider = "anthropic" /\ said # <<>>
    /\ LET i == translator.next - 1
           last == Last(said)
       IN /\ last.kind = "tool" => last.part = "head"
          /\ said' = Append(said, [last EXCEPT !.part = "tail"])
          /\ Consume(<<Delta(i, IF last.kind = "unknown" THEN "text" ELSE last.kind,
                             <<Len(said')>>)>>, said')
          /\ UNCHANGED translator

AnthropicEnd == IF translator.next > 1 THEN <<Stop(translator.next - 1)>> ELSE <<>>
-----------------------------------------------------------------------------
(* OpenAI: `slots` has what a block index was allocated for, in order, and *)
(* `args` the fragments of each call, in the order of their first.         *)

Slot(kind, call) == <<kind, call>>
IndexOf(slots, slot) == SelectInSeq(slots, LAMBDA s : s = slot)
WithSlot(slots, slot) == IF IndexOf(slots, slot) = 0 THEN Append(slots, slot) ELSE slots

OpenAITalks(kind) ==
    /\ provider = "openai" /\ kind \in {"text", "reasoning"}
    /\ LET slot == Slot(kind, 0)
           slots == WithSlot(translator.slots, slot)
           i == IndexOf(slots, slot)
           start == IF slots # translator.slots THEN <<StreamStart(i, kind)>> ELSE <<>>
       IN /\ said' = Append(said, Piece(kind, 0, "head", FALSE))
          /\ Consume(start \o <<Delta(i, kind, <<Len(said')>>)>>, said')
          /\ translator' = [translator EXCEPT !.slots = slots]

\* A fragment of a call; those of several calls may alternate.
OpenAICalls(call) ==
    /\ provider = "openai"
    /\ LET before == {k \in DOMAIN said : said[k].kind = "tool" /\ said[k].block = call}
       IN /\ Cardinality(before) < 2
          /\ said' = Append(said, Piece("tool", call, IF before = {} THEN "head" ELSE "tail",
                                        FALSE))
          /\ translator' =
                [translator EXCEPT !.slots = WithSlot(@, Slot("tool", call)),
                                   !.args[call] = Append(@, Len(said'))]
          /\ Consume(<<>>, said')

\* flushToolCalls
OpenAIFlush ==
    LET call(i) == translator.slots[i][2]
        chunks == [i \in DOMAIN translator.slots |->
                     IF translator.slots[i][1] # "tool" THEN <<>>
                     ELSE <<StreamStart(i, "tool"), Delta(i, "tool", translator.args[call(i)]),
                            Stop(i)>>]
    IN FlattenSeq(chunks)

OpenAIEnd ==
    LET stops(kind) == IF IndexOf(translator.slots, Slot(kind, 0)) = 0 THEN <<>>
                       ELSE <<Stop(IndexOf(translator.slots, Slot(kind, 0)))>>
    IN stops("text") \o stops("reasoning") \o OpenAIFlush
-----------------------------------------------------------------------------
(* Gemini: `active` is the kind of the open block.                         *)

\* Faulty variant: a new block does not close the one before.
LeaveActiveBlockOpen == <<>>

CloseActiveBlock == IF translator.active = "none" THEN <<>> ELSE <<Stop(translator.next - 1)>>

\* A call, or a text or thought that carries a signature, is a block of its
\* own; other pieces extend the open block of their kind or start one.
EmitPart(kind, signed) ==
    /\ provider = "gemini"
    /\ LET i == translator.next
           n == <<Len(said) + 1>>
           alone == kind = "tool" \/ signed
       IN /\ said' = Append(said, Piece(kind, 0, "whole", signed))
          /\ IF alone
             THEN /\ Consume(CloseActiveBlock
                             \o <<StreamStart(i, kind), Delta(i, kind, n), Stop(i)>>, said')
                  /\ translator' = [translator EXCEPT !.next = i + 1, !.active = "none"]
             ELSE IF translator.active = kind
             THEN /\ Consume(<<Delta(i - 1, kind, n)>>, said')
                  /\ UNCHANGED translator
             ELSE /\ Consume(CloseActiveBlock \o <<StreamStart(i, kind), Delta(i, kind, n)>>, said')
                  /\ translator' = [translator EXCEPT !.next = i + 1, !.active = kind]
-----------------------------------------------------------------------------
StreamInit ==
    /\ provider \in StreamProviders
    /\ messageTransport \in {"provider", "text"}
    /\ provider # "anthropic" => messageTransport = "provider"
    /\ said = <<>> /\ blocks = <<>> /\ shown = <<>> /\ over = FALSE
    /\ translator = [next |-> 1, active |-> "none", slots |-> <<>>,
                     args |-> [c \in RawCalls |-> <<>>]]
    /\ current = [index |-> 0, buffer |-> <<>>]

StreamEvent ==
    /\ ~over /\ Len(said) < MaxPieces
    /\ \/ \E kind \in {"text", "reasoning", "tool", "unknown"} : AnthropicOpens(kind)
       \/ AnthropicGoesOn
       \/ \E kind \in {"text", "reasoning"} : OpenAITalks(kind)
       \/ \E call \in RawCalls : OpenAICalls(call)
       \/ \E kind \in {"text", "reasoning", "tool"}, signed \in BOOLEAN : EmitPart(kind, signed)
    /\ UNCHANGED <<provider, messageTransport, over>>

StreamEnds ==
    /\ ~over /\ over' = TRUE
    /\ Consume(CASE provider = "anthropic" -> AnthropicEnd
                 [] provider = "openai"    -> OpenAIEnd
                 [] OTHER                  -> CloseActiveBlock, said)
    /\ UNCHANGED <<provider, messageTransport, said, translator>>

StreamNext == StreamEvent \/ StreamEnds

StreamSpec == StreamInit /\ [][StreamNext]_streamVars
-----------------------------------------------------------------------------
\* Pieces that belong to one block of the answer.
SameBlock(j, k) ==
    LET p == said[j] q == said[k]
    IN IF provider = "gemini"
       THEN j = k \/ \A m \in Min({j, k})..Max({j, k}) :
                        said[m].kind = p.kind /\ p.kind # "tool" /\ ~said[m].signed
       ELSE p.kind = q.kind /\ p.block = q.block

\* The blocks the model sent, in the order in which they begin.
Answer ==
    LET pieces == [k \in DOMAIN said |-> k]
        numbers(k) == SelectSeq(pieces, LAMBDA j : SameBlock(j, k))
        begins(k) == numbers(k)[1] = k /\ said[k].kind # "unknown"
        block(k) ==
            CASE said[k].kind = "tool" ->
                   [kind |-> "tool",
                    content |-> IF Whole(said, numbers(k)) THEN numbers(k) ELSE <<>>]
              [] said[k].kind = "reasoning" /\ messageTransport = "text" ->
                   [kind |-> "text", content |-> <<>>]
              [] OTHER -> [kind |-> said[k].kind, content |-> numbers(k)]
        order == SelectSeq(pieces, begins)
    IN [i \in DOMAIN order |-> block(order[i])]

\* Text that goes on after thinking has begun, or the other way about.
Resumes(kind, other) ==
    \E j, k \in DOMAIN said : j < k /\ said[j].kind = other /\ said[k].kind = kind
                              /\ \E m \in 1..(j - 1) : said[m].kind = kind

\* The message is the answer: every piece is in the block it was sent for, in
\* order, and every call has the arguments that were sent for it, or none when
\* they were cut short.  Only OpenAI's translation loses pieces, when text or
\* thinking resumes after the other: deltas go to the block started last.
MessageIsAnswer ==
    over /\ (provider = "openai" => ~Resumes("text", "reasoning")
                                    /\ ~Resumes("reasoning", "text"))
        => StreamedMessage = Answer

\* Subscribers see an end for every start, before the next start: the chunks
\* of text and of thinking never nest.
ShownInTurn ==
    /\ \A k \in DOMAIN shown : k % 2 = 1 => shown[k][1] = "start"
    /\ \A k \in DOMAIN shown : k % 2 = 0 => shown[k] = <<"end", shown[k - 1][2]>>
    /\ over => Len(shown) % 2 = 0

\* ... except under OpenAI's translation, when an answer has both.
ShownInTurnUnlessBoth ==
    \/ ShownInTurn
    \/ provider = "openai" /\ {"text", "reasoning"} \subseteq {said[k].kind : k \in DOMAIN said}

\* A streamed answer becomes the message that the model sent, and subscribers
\* see its text and thinking one after the other, but for what OpenAI's
\* translation does to answers that mix the two.
AnswerArrives == MessageIsAnswer /\ ShownInTurnUnlessBoth
=============================================================================
