--------------------------- MODULE StreamFraming ---------------------------
(***************************************************************************)
(* How the providers cut the body of a streamed response into events.  The *)
(* network hands the bytes over in reads of any size; a body is a sequence *)
(* of symbols, the smallest parts that the code tells apart: "data:", the  *)
(* two halves of an event's JSON, "[DONE]", ":" for a comment, newlines,   *)
(* and the brackets of a JSON array, in which Gemini may answer instead.   *)
(*                                                                         *)
(* OpenAI and Anthropic are read line by line; a line that is not JSON is  *)
(* skipped.  Gemini is read by frames, in which an empty line ends a group *)
(* of data lines; one that is not JSON fails the stream.                   *)
(***************************************************************************)
EXTENDS Naturals, Sequences, SequencesExt

CONSTANTS Readers,   \* subset of {"lines", "frames"}
          MaxFrames  \* bound: frames of a body

ASSUME FramingAssumption == MaxFrames \in Nat

VARIABLES reader,
          body,       \* the response, with its symbols and its frames
          position,   \* how much of it was read
          buffer,     \* what is not a line yet
          dataLines,  \* Gemini: the data of the frame
          delivered,  \* the events that were yielded
          outcome     \* reading, ended or failed

framingVars == <<reader, body, position, buffer, dataLines, delivered, outcome>>

Head1(k) == <<"head", k>>
Tail1(k) == <<"tail", k>>
Symbol(s) == <<s, 0>>
Newline == Symbol("newline")

\* The k-th frame on the wire.
FrameSymbols(kind, k) ==
    CASE kind = "event"   -> <<Symbol("data:"), Head1(k), Tail1(k), Newline, Newline>>
      [] kind = "split"   -> <<Symbol("data:"), Head1(k), Newline,
                               Symbol("data:"), Tail1(k), Newline, Newline>>
      [] kind = "comment" -> <<Symbol(":"), Newline>>
      [] kind = "done"    -> <<Symbol("data:"), Symbol("DONE"), Newline, Newline>>

\* An event in a JSON array.
Element(k) == <<Head1(k), Tail1(k)>>

Bodies(frames, array) ==
    IF array THEN <<Symbol("[")>> \o FlattenSeq([k \in DOMAIN frames |-> Element(k)])
                  \o <<Symbol("]")>>
    ELSE FlattenSeq([k \in DOMAIN frames |-> FrameSymbols(frames[k], k)])

\* JSON.parse succeeds on a whole event.
IsJson(symbols) == Len(symbols) = 2 /\ symbols[1][1] = "head"
                   /\ symbols[2] = Tail1(symbols[1][2])
-----------------------------------------------------------------------------
Yield(state, symbols) == [state EXCEPT !.delivered = Append(@, symbols[1][2])]

\* OpenAI and Anthropic: one line.
LineRead(state, line) ==
    IF line # <<>> /\ line[1] = Symbol("data:") /\ IsJson(Tail(line))
    THEN Yield(state, Tail(line)) ELSE state

\* Gemini: dispatchFrame and consumeLine.
DispatchFrame(state) ==
    LET data == FlattenSeq(state.dataLines)
        cleared == [state EXCEPT !.dataLines = <<>>]
    IN IF state.dataLines = <<>> THEN state
       ELSE CASE data = <<Symbol("DONE")>> -> [cleared EXCEPT !.outcome = "ended"]
              [] IsJson(data)              -> Yield(cleared, data)
              [] OTHER                     -> [cleared EXCEPT !.outcome = "failed"]

ConsumeLine(state, line) ==
    IF state.outcome # "reading" THEN state
    ELSE IF line = <<>> THEN DispatchFrame(state)
    ELSE IF line[1] = Symbol("data:") THEN [state EXCEPT !.dataLines = Append(@, Tail(line))]
    ELSE state

\* buffer.split('\n'): the lines that are complete, and the rest.
Lines(symbols) ==
    LET ends == SelectSeq([i \in DOMAIN symbols |-> i], LAMBDA i : symbols[i] = Newline)
    IN [i \in DOMAIN ends |-> SubSeq(symbols, IF i = 1 THEN 1 ELSE ends[i - 1] + 1, ends[i] - 1)]

\* Faulty variant: what has no newline yet is dropped with each read.
NothingLeft(symbols) == <<>>

Rest(symbols) ==
    LET last == SelectLastInSeq(symbols, LAMBDA s : s = Newline)
    IN SubSeq(symbols, last + 1, Len(symbols))

\* The mode is settled by the first symbol of the body that is not blank.
JsonMode(symbols) == symbols # <<>> /\ symbols[1] = Symbol("[")

State == [dataLines |-> dataLines, delivered |-> delivered, outcome |-> outcome]
Apply(state) == /\ dataLines' = state.dataLines
                /\ delivered' = state.delivered
                /\ outcome' = state.outcome

FramingInit ==
    /\ reader \in Readers
    /\ \E frames \in BoundedSeq({"event", "split", "comment", "done"}, MaxFrames),
          array \in BOOLEAN :
          /\ reader = "lines" => ~array /\ "split" \notin Range(frames)
          /\ array => Range(frames) \subseteq {"event"}
          /\ LET all == Bodies(frames, array)
             IN \E n \in 0..Len(all) : body = [symbols |-> SubSeq(all, 1, n),
                                               frames  |-> frames]
    /\ position = 0 /\ buffer = <<>> /\ dataLines = <<>> /\ delivered = <<>>
    /\ outcome = "reading"

\* reader.read() returns the next bytes, at least one, and their lines are
\* worked off.
ReadLines ==
    /\ reader = "lines" /\ outcome = "reading"
    /\ \E n \in (position + 1)..Len(body.symbols) :
          LET text == buffer \o SubSeq(body.symbols, position + 1, n)
          IN /\ Apply(FoldLeft(LineRead, State, Lines(text)))
             /\ buffer' = Rest(text)
             /\ position' = n
    /\ UNCHANGED <<reader, body>>

ReadFrames ==
    /\ reader = "frames" /\ outcome = "reading"
    /\ \E n \in (position + 1)..Len(body.symbols) :
          LET text == buffer \o SubSeq(body.symbols, position + 1, n)
          IN /\ IF JsonMode(body.symbols)
                THEN buffer' = text /\ UNCHANGED <<dataLines, delivered, outcome>>
                ELSE /\ Apply(FoldLeft(ConsumeLine, State, Lines(text)))
                     /\ buffer' = Rest(text)
             /\ position' = n
    /\ UNCHANGED <<reader, body>>

\* The body is over: what has no newline is dropped ...
LinesEnd ==
    /\ reader = "lines" /\ outcome = "reading" /\ position = Len(body.symbols)
    /\ outcome' = "ended"
    /\ UNCHANGED <<reader, body, position, buffer, dataLines, delivered>>

\* ... or is the last line of the last frame, or the JSON of all.
FramesEnd ==
    /\ reader = "frames" /\ outcome = "reading" /\ position = Len(body.symbols)
    /\ LET last == DispatchFrame(IF buffer = <<>> THEN State ELSE ConsumeLine(State, buffer))
           whole == \E n \in 0..MaxFrames : buffer = Bodies([k \in 1..n |-> "event"], TRUE)
           parsed == IF ~JsonMode(body.symbols) THEN last
                     ELSE IF whole
                     THEN [State EXCEPT !.delivered = [k \in 1..((Len(buffer) - 2) \div 2) |-> k]]
                     ELSE [State EXCEPT !.outcome = "failed"]
       IN Apply([parsed EXCEPT !.outcome = IF @ = "failed" THEN @ ELSE "ended"])
    /\ UNCHANGED <<reader, body, position, buffer>>

FramingNext == ReadLines \/ ReadFrames \/ LinesEnd \/ FramesEnd

FramingSpec == FramingInit /\ [][FramingNext]_framingVars
-----------------------------------------------------------------------------
\* The events of which the whole JSON is in the body, and its newline too for
\* the readers by line, up to the mark of the end.
Sent ==
    LET has(s) == s \in Range(body.symbols)
        ended(k) == \E j \in DOMAIN body.frames : j < k /\ body.frames[j] = "done"
        stop(k) == \E i \in DOMAIN body.symbols :
                      body.symbols[i] = Tail1(k) /\ i < Len(body.symbols)
    IN SelectSeq([k \in DOMAIN body.frames |-> k], LAMBDA k :
          has(Tail1(k)) /\ (IF reader = "lines" THEN stop(k) ELSE ~ended(k)))

\* However the network cuts the body, the provider gets the events that were
\* sent whole, once and in order.  A body that ends inside an event fails the
\* Gemini stream, after the events before it, and is a regular end to the
\* others; only Gemini's array is all or nothing.
EventsAreSent ==
    /\ outcome = "ended" => delivered = Sent
    /\ outcome = "failed" => \/ JsonMode(body.symbols) /\ delivered = <<>>
                             \/ delivered = Sent
    /\ outcome = "failed" =>
          Last(body.symbols) # Newline \/ \E k \in DOMAIN body.frames : body.frames[k] = "split"
=============================================================================
