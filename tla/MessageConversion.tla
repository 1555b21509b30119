------------------------- MODULE MessageConversion -------------------------
(***************************************************************************)
(* How a conversation becomes a request: buildOpenAIMessages and           *)
(* buildOpenAIResponsesInput, Anthropic's formatMessages, Gemini's         *)
(* buildGeminiContents.  A conversion may find that a block cannot be sent *)
(* to its model; it sends a placeholder text instead and marks the stored  *)
(* message as degraded, so that a conversion changes the conversation that *)
(* later ones, of other providers too, start from.                         *)
(*                                                                         *)
(* A block is its kind and, for media, where its bytes are; a call and its *)
(* result have the call's id.  A part of a request is how a block is sent; *)
(* adjacent texts, which OpenAI's conversions join, stay apart here.       *)
(***************************************************************************)
EXTENDS Naturals, Sequences, FiniteSets, SequencesExt

CONSTANTS Apis,        \* subset of {"chat", "responses", "anthropic", "gemini"}
          CallIds,     \* ids of tool calls
          MaxBlocks,   \* bound: blocks of an answer
          MaxRequests  \* bound: requests made from one conversation

ASSUME ConversionAssumption == {MaxBlocks, MaxRequests} \subseteq Nat

VARIABLES history,    \* the messages of the conversation
          transport,  \* reasoningTransport
          request,    \* the last request, and for which API
          requests,   \* requests made so far
          unmarked    \* the requests that the conversation led to at first

conversionVars == <<history, transport, request, requests, unmarked>>

Block(kind, from) == [kind |-> kind, from |-> from]
Sources == {"base64", "url", "gs", "file_id", "nowhere"}
Media == {Block(kind, from) : kind \in {"image", "audio", "video", "file"}, from \in Sources}
         \cup {Block("other audio", "base64")}
Calls == {Block("tool_use", c) : c \in CallIds}
IsCall(b) == b.kind = "tool_use"
IsMedia(b) == b \in Media
Answered(calls) == [i \in DOMAIN calls |-> Block("tool_result", calls[i].from)]

\* shouldPreserveBlocks and buildMessageMetadata: `kept` is content_blocks.
ShouldPreserve(blocks) ==
    LET kinds == {b.kind : b \in Range(blocks)}
        reasoning == "reasoning" \in kinds
        multimodal == kinds \cap {"image", "audio", "other audio", "file"} # {}
    IN \/ Len(blocks) > 1 /\ (reasoning \/ multimodal)
       \/ reasoning /\ kinds \cap {"tool_use", "tool_result"} # {}

Message(role, original, stored, mark) ==
    IF ~ShouldPreserve(original) /\ Len(original) = Len(stored)
    THEN [role |-> role, content |-> stored, kept |-> <<>>, mark |-> "none"]
    ELSE [role |-> role, content |-> stored, kept |-> <<original>>, mark |-> mark]

\* runStep: an answer is stored with its thinking or without.
Assistant(blocks, retain) ==
    LET stored == SelectSeq(blocks, LAMBDA b : retain \/ b.kind # "reasoning")
    IN Message("assistant", stored, stored, IF retain THEN "provider" ELSE "omit")

GetMessageBlocks(m) == IF m.mark = "omit" \/ m.kept = <<>> THEN m.content ELSE m.kept[1]

MarkTransportIfDegraded(m) ==
    IF m.mark = "omit" THEN m
    ELSE [m EXCEPT !.mark = "text", !.kept = IF @ = <<>> THEN <<GetMessageBlocks(m)>> ELSE @]
-----------------------------------------------------------------------------
(* How one block is sent: <<part>>, or nothing.                            *)

Part(b, as) == <<[block |-> b, as |-> as]>>
Plain(b) == Part(b, b.kind)
Placeholder(b) == Part(b, "placeholder")
IfFrom(b, sources) == IF b.from \in sources THEN Plain(b) ELSE Placeholder(b)
IfText(b) == IF transport = "text" THEN Part(b, "text") ELSE <<>>

\* Faulty variant: media that Chat Completions cannot carry are left out.
ChatPartUnsaid(b) ==
    CASE b.kind = "reasoning"               -> IfText(b)
      [] b.kind = "image"                   -> IfFrom(b, {"base64", "url", "gs"})
      [] b.kind = "audio"                   -> IfFrom(b, {"base64"})
      [] IsMedia(b) /\ b.kind \notin {"image", "audio"} -> <<>>
      [] OTHER                              -> Plain(b)

ChatPart(b) ==
    CASE b.kind = "reasoning"               -> IfText(b)
      [] b.kind = "image"                   -> IfFrom(b, {"base64", "url", "gs"})
      [] b.kind = "audio"                   -> IfFrom(b, {"base64"})
      [] IsMedia(b) /\ b.kind \notin {"image", "audio"} -> Placeholder(b)
      [] OTHER                              -> Plain(b)

ResponsesPart(b) ==
    CASE b.kind = "text"                    -> Plain(b)
      [] b.kind = "reasoning"               -> IfText(b)
      [] b.kind = "audio"                   -> IfFrom(b, {"base64"})
      [] b.kind \in {"video", "other audio"} -> Placeholder(b)
      [] b.kind = "file"                    -> IfFrom(b, Sources \ {"nowhere"})
      [] OTHER                              -> <<>>

AnthropicPart(b) ==
    CASE b.kind = "reasoning"               -> Part(b, IF transport = "text" THEN "text"
                                                                      ELSE "reasoning")
      [] b.kind = "image"                   -> IfFrom(b, {"base64"})
      [] b.kind = "file"                    -> IfFrom(b, Sources \ {"nowhere"})
      [] IsMedia(b) /\ b.kind \notin {"image", "file"} -> Placeholder(b)
      [] OTHER                              -> Plain(b)

GeminiPart(b) ==
    CASE b.kind = "reasoning"               -> IF transport = "provider" THEN Plain(b)
                                               ELSE IfText(b)
      [] b.kind \in {"image", "file"}       -> IfFrom(b, {"file_id", "gs", "base64"})
      [] b.kind \in {"audio", "video"}      -> IfFrom(b, Sources \ {"nowhere"})
      [] OTHER                              -> Plain(b)
-----------------------------------------------------------------------------
(* How one message is sent: a sequence of entries.                         *)

Entry(role, parts) == [role |-> role, parts |-> parts]
Entries(role, parts) == IF parts = <<>> THEN <<>> ELSE <<Entry(role, parts)>>
Parts(m, part(_)) == FlattenSeq([i \in DOMAIN GetMessageBlocks(m) |->
                                    part(GetMessageBlocks(m)[i])])

\* Text, then the calls, then thinking in a field of its own; nothing else.
ChatAssistant(m) ==
    LET parts == Parts(m, ChatPart)
        thoughts == SelectSeq(GetMessageBlocks(m), LAMBDA b : b.kind = "reasoning")
    IN Entries("assistant",
               SelectSeq(parts, LAMBDA p : p.as = "text")
               \o SelectSeq(parts, LAMBDA p : IsCall(p.block))
               \o IF transport = "provider" THEN [i \in DOMAIN thoughts |-> Plain(thoughts[i])[1]]
                  ELSE <<>>)

\* buildOpenAIUserMessages: a result is an entry of its own, and what came
\* before it is one.
ChatUser(m) ==
    LET add(state, p) ==
            IF p.as = "tool_result"
            THEN [done |-> state.done \o Entries("user", state.open) \o <<Entry("tool", <<p>>)>>,
                  open |-> <<>>]
            ELSE [state EXCEPT !.open = Append(@, p)]
        last == FoldLeft(add, [done |-> <<>>, open |-> <<>>], Parts(m, ChatPart))
    IN last.done \o Entries("user", last.open)

Converted(api, m) ==
    CASE api = "chat"      -> IF m.role = "assistant" THEN ChatAssistant(m) ELSE ChatUser(m)
      [] api = "responses" -> Entries(m.role, Parts(m, ResponsesPart))
      [] api = "anthropic" -> <<Entry(m.role, Parts(m, AnthropicPart))>>
      [] api = "gemini"    -> Entries(m.role, Parts(m, GeminiPart))

IsPlaceholder(p) == p.as = "placeholder"
Degrades(api, m) ==
    /\ ~(api = "chat" /\ m.role = "assistant")
    /\ \E e \in Range(Converted(api, m)) : \E p \in Range(e.parts) : IsPlaceholder(p)

Request(api) == FlattenSeq([k \in DOMAIN history |-> Converted(api, history[k])])

\* resolveOpenAIApi: the Responses API only for a conversation with a file.
HasFile == \E m \in Range(history) : \E b \in Range(GetMessageBlocks(m)) : b.kind = "file"
-----------------------------------------------------------------------------
Histories(user, answer, retain) ==
    LET calls == SelectSeq(answer, IsCall)
    IN {<<Message("user", user, user, "provider"), Assistant(answer, retain)>>
        \o IF calls = <<>> THEN <<>>
           ELSE <<Message("user", order, order, "provider")>> :
            order \in SetToSeqs(Range(Answered(calls)))}

ConversionInit ==
    /\ \E b \in Media \cup {Block("text", "user")}, alone \in BOOLEAN,
          answer \in BoundedSeq(Calls \cup {Block("text", "model"), Block("reasoning", "model")},
                                MaxBlocks),
          retain \in BOOLEAN :
          /\ answer # <<>>
          /\ IsInjective(SelectSeq(answer, IsCall))
          /\ history \in Histories(IF alone THEN <<b>> ELSE <<Block("text", "user"), b>>,
                                   answer, retain)
    /\ transport \in {"text", "provider", "omit"}
    /\ request = [api |-> "none", entries |-> <<>>]
    /\ requests = 0
    /\ unmarked = [api \in Apis |-> Request(api)]

\* A request is built, and the messages it degraded are marked.
Convert(api) ==
    /\ requests < MaxRequests
    /\ api = "responses" => HasFile
    /\ requests' = requests + 1
    /\ request' = [api |-> api, entries |-> Request(api)]
    /\ history' = [k \in DOMAIN history |->
                     IF Degrades(api, history[k]) THEN MarkTransportIfDegraded(history[k])
                     ELSE history[k]]
    /\ UNCHANGED <<transport, unmarked>>

ConversionNext == \E api \in Apis : Convert(api)

ConversionSpec == ConversionInit /\ [][ConversionNext]_conversionVars
-----------------------------------------------------------------------------
CallsOf(e) == {p.block.from : p \in {q \in Range(e.parts) : IsCall(q.block)}}
ResultsOf(e) == {p.block.from : p \in {q \in Range(e.parts) : q.as = "tool_result"}}

\* In every request each call is answered at once, as the APIs demand: by a
\* tool message each, in the entries that follow, or all in the next entry;
\* and no answer is without its call.  The Responses API gets neither.
CallsAreAnswered ==
    LET es == request.entries
        span(k) == IF request.api = "chat" THEN Cardinality(CallsOf(es[k])) ELSE 1
        after(k) == {j \in DOMAIN es : k < j /\ j <= k + span(k)}
    IN /\ \A k \in DOMAIN es : CallsOf(es[k]) = UNION {ResultsOf(es[j]) : j \in after(k)}
                               \/ CallsOf(es[k]) = {}
       /\ \A j \in DOMAIN es : ResultsOf(es[j]) # {} =>
             \E k \in DOMAIN es : j \in after(k) /\ ResultsOf(es[j]) \subseteq CallsOf(es[k])

\* No block disappears from a request unsaid: what is neither sent nor part of
\* the thinking is replaced by a placeholder, and the message is marked, which
\* stays so.  The Responses API is the exception: images, calls and results
\* are left out without a word.
NothingLostSilently ==
    \A m \in Range(history) : \A b \in Range(GetMessageBlocks(m)) :
        LET parts == {p \in UNION {Range(e.parts) : e \in Range(request.entries)} : p.block = b}
        IN \/ request.api = "none" \/ b.kind = "reasoning"
           \/ request.api = "responses" /\ b.kind \in {"image", "tool_use", "tool_result"}
           \/ /\ parts # {}
              /\ (\E p \in parts : IsPlaceholder(p)) => m.mark = "text"

\* A degraded message keeps its blocks: a request made after others, of any
\* provider, is the one that would have been made first.
MarkingChangesNoRequest ==
    request.api # "none" => request.entries = unmarked[request.api]

\* However often and for whichever APIs a conversation was converted before,
\* each request carries it whole, with answered calls and with placeholders for
\* what its API cannot take.
ConversationIsSent == CallsAreAnswered /\ NothingLostSilently /\ MarkingChangesNoRequest
=============================================================================
