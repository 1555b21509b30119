---------------------------- MODULE MediaUploads ----------------------------
(***************************************************************************)
(* Agent.send with blocks: the blocks are validated, then resolved one     *)
(* after the other.  Audio and video go through callbacks where the        *)
(* provider does not take them; images and files that come as base64 are   *)
(* uploaded to the provider, and the file id is kept in mediaCache, which  *)
(* every upload saves as a whole and a resumed agent loads.  Callbacks,    *)
(* uploads and saves are awaits, and several sends may be under way.       *)
(***************************************************************************)
EXTENDS Naturals, Sequences, SequencesExt, FiniteSetsExt

CONSTANTS MediaConfigs,      \* multimodal: the mode, and whether there are callbacks
          Messages,          \* the messages sent: sequences of blocks
          Contents,          \* what a base64 payload encodes
          NoContent,
          Encoded,           \* content -> [length, padding] of its base64
          MaxBase64Bytes,
          AllowMimeTypes,
          Uploaders,         \* providers whose model has uploadFile
          MediaProviders,
          MaxSends,          \* bound: calls of send()
          MaxAtOnce,         \* bound: calls of send() under way
          MaxTroubles        \* bound: crashes, and calls that fail

VARIABLES multimodal,   \* the configuration
          model,        \* the provider of the agent's model
          sends,        \* the calls of send(), in the order they were made
          mediaCache,   \* content -> [provider, file]; file 0 for none
          stored,       \* the saved cache: [text: "", "whole" or "mixed", records]
          uploads,      \* what was uploaded: [content, provider, send]
          queued,       \* messages that reached the queue: [send, provider, blocks]
          doubtful,     \* contents whose uploads overlapped, or whose records may
                        \* have been lost in a crash
          unsure,       \* a save has failed, or two have overlapped
          troubles      \* crashes, and calls that have failed

uploadVars == <<multimodal, model, sends, mediaCache, stored, uploads, queued, doubtful, unsure,
                troubles>>

\* A file id is the number of the upload, plus one; Theirs is one that the user
\* gave.
Theirs == 1
Text == [type |-> "text"]
MediaTypes == {"image", "audio", "video", "file"}
Attached(type, url, file, base64, mime) ==
    [type |-> type, url |-> url, file |-> file, base64 |-> base64, mime |-> mime]

\* A message is a sequence of blocks, in which a file id is the user's.
ASSUME UploadAssumption ==
    /\ NoContent \notin Contents
    /\ Messages \subseteq Seq({Text} \cup [type : MediaTypes, url : STRING, file : {0, Theirs},
                                          base64 : Contents \cup {NoContent}, mime : STRING])

NoRecords == [c \in Contents |-> [provider |-> "none", file |-> 0]]

UploadInit ==
    /\ multimodal \in MediaConfigs
    /\ model = CHOOSE p \in Uploaders : TRUE
    /\ sends = <<>> /\ mediaCache = NoRecords
    /\ stored = [text |-> "", records |-> NoRecords]
    /\ uploads = <<>> /\ queued = <<>> /\ doubtful = {} /\ unsure = FALSE /\ troubles = 0

EstimateBase64Bytes(content) ==
    (Encoded[content].length * 3) \div 4 - Encoded[content].padding

\* validateBlocks, for one block.
ValidBlock(b) ==
    b.type \in MediaTypes =>
        /\ b.url # "" \/ b.file # 0 \/ b.base64 # NoContent
        /\ b.base64 # NoContent =>
              /\ multimodal.mode = "url+base64"
              /\ b.mime # ""
              /\ EstimateBase64Bytes(b.base64) <= MaxBase64Bytes
        /\ b.mime \in AllowMimeTypes \cup {""}
        /\ b.url \in {"", "http", "https"} \cup (IF b.type = "file" THEN {"gs"} ELSE {})

\* applyMediaCache
ApplyMediaCache(b, record) == [b EXCEPT !.file = record.file, !.base64 = NoContent]

\* Blocks that are uploaded, and the record that the cache has for one.
UploadNeeded(b) ==
    /\ model \in Uploaders /\ b.type \in {"image", "file"}
    /\ b.base64 # NoContent /\ b.mime # "" /\ b.file = 0 /\ b.url = ""
\* Faulty variant: an upload to whatever provider will do.
CachedForAny(cache, b) == cache[b.base64].file # 0
Cached(cache, b) == cache[b.base64].file # 0 /\ cache[b.base64].provider = model

\* What resolveMultimodalBlocks awaits for a block.
Awaits(cache, b) ==
    CASE b.type = "audio" /\ model \notin {"gemini", "openai"} /\ multimodal.callbacks -> "callback"
      [] b.type = "video" /\ model # "gemini" /\ multimodal.callbacks -> "callback"
      [] UploadNeeded(b) /\ ~Cached(cache, b) -> "upload"
      [] OTHER -> "nothing"

Pass(cache, b) ==
    IF UploadNeeded(b) /\ Cached(cache, b) THEN ApplyMediaCache(b, cache[b.base64]) ELSE b

\* The loop of resolveMultimodalBlocks over the blocks that come after those
\* resolved: up to the next await, or to the end.
Resolve(call, cache) ==
    LET from == call.at + 1
        awaiting == {i \in from .. Len(call.message) : Awaits(cache, call.message[i]) # "nothing"}
        next == Min(awaiting \cup {Len(call.message) + 1})
    IN [call EXCEPT !.at = next,
            !.resolved = @ \o [i \in 1 .. next - from |->
                                  Pass(cache, call.message[from + i - 1])],
            !.step = IF awaiting = {} THEN "sent" ELSE Awaits(cache, call.message[next])]

UnderWaySends == {s \in DOMAIN sends : sends[s].step \notin {"sent", "rejected", "lost"}}

\* send() is called, or goes on with what its block has become.
Queues(s, call) ==
    queued' = IF call.step # "sent" THEN queued
              ELSE Append(queued, [send |-> s, provider |-> model, blocks |-> call.resolved])

Send(message) ==
    LET called == [message |-> message, at |-> 0, resolved |-> <<>>, step |-> "called",
                   records |-> NoRecords]
        call == IF \A i \in DOMAIN message : ValidBlock(message[i])
                THEN Resolve(called, mediaCache) ELSE [called EXCEPT !.step = "rejected"]
    IN /\ Len(sends) < MaxSends /\ Cardinality(UnderWaySends) < MaxAtOnce
       /\ sends' = Append(sends, call)
       /\ Queues(Len(sends'), call)
    /\ UNCHANGED <<multimodal, model, mediaCache, stored, uploads, doubtful, unsure, troubles>>

GoesOnWith(s, blocks) ==
    LET call == Resolve([sends[s] EXCEPT !.resolved = @ \o blocks, !.records = NoRecords],
                        mediaCache)
    IN sends' = [sends EXCEPT ![s] = call] /\ Queues(s, call)

Trouble == troubles < MaxTroubles /\ troubles' = troubles + 1
BlockOf(s) == sends[s].message[sends[s].at]
SendAt(s, step) == sends[s].step = step

\* The transcriber or the frame extractor returns, or fails: the block stays.
CallbackReturns(s) ==
    /\ SendAt(s, "callback")
    /\ \/ Trouble /\ GoesOnWith(s, <<BlockOf(s)>>)
       \/ BlockOf(s).type = "audio" /\ GoesOnWith(s, <<Text>>) /\ UNCHANGED troubles
       \/ /\ UNCHANGED troubles
          /\ BlockOf(s).type = "video"
          /\ GoesOnWith(s, <<Attached("image", "", 0, BlockOf(s).base64, "image/png"), Text>>)
    /\ UNCHANGED <<multimodal, model, mediaCache, stored, uploads, doubtful, unsure>>

\* The upload returns: with a file id, which goes to the cache; without one,
\* or with an error, and the block stays as it is.
UploadReturns(s) ==
    /\ SendAt(s, "upload")
    /\ LET content == BlockOf(s).base64
       IN /\ uploads' = Append(uploads, [content |-> content, provider |-> model, send |-> s])
          /\ mediaCache' = [mediaCache EXCEPT ![content] =
                               [provider |-> model, file |-> Len(uploads') + 1]]
          /\ sends' = [sends EXCEPT ![s].step = "open", ![s].records = mediaCache']
          /\ doubtful' = doubtful \cup
                {content : other \in {o \in DOMAIN sends \ {s} :
                                        SendAt(o, "upload") /\ BlockOf(o).base64 = content}}
    /\ unsure' = (unsure \/ \E other \in DOMAIN sends : SendAt(other, "open") \/ SendAt(other, "write"))
    /\ UNCHANGED <<multimodal, model, stored, queued, troubles>>

UploadFails(s) ==
    /\ SendAt(s, "upload")
    /\ Trouble
    /\ GoesOnWith(s, <<BlockOf(s)>>)
    /\ UNCHANGED <<multimodal, model, mediaCache, stored, uploads, doubtful, unsure>>

\* saveMediaCache of the JSON store: opens the file, which empties it, and
\* writes the records, which does not shorten what a save that overlaps wrote.
OpenCache(s) ==
    /\ SendAt(s, "open")
    /\ stored' = [stored EXCEPT !.text = ""]
    /\ sends' = [sends EXCEPT ![s].step = "write"]
    /\ UNCHANGED <<multimodal, model, mediaCache, uploads, queued, doubtful, unsure, troubles>>

Size(records) == Cardinality({c \in Contents : records[c].file # 0})

WriteCache(s) ==
    /\ SendAt(s, "write")
    /\ LET records == sends[s].records
           covers == stored.text = "" \/ (stored.text = "whole"
                                          /\ Size(stored.records) <= Size(records))
       IN stored' = [text |-> IF covers THEN "whole" ELSE "mixed", records |-> records]
    /\ GoesOnWith(s, <<ApplyMediaCache(BlockOf(s), sends[s].records[BlockOf(s).base64])>>)
    /\ UNCHANGED <<multimodal, model, mediaCache, uploads, doubtful, unsure, troubles>>

\* A save that fails leaves the block as it was, though its file is uploaded.
SaveFails(s) ==
    /\ SendAt(s, "open") \/ SendAt(s, "write")
    /\ Trouble
    /\ unsure' = TRUE
    /\ GoesOnWith(s, <<BlockOf(s)>>)
    /\ UNCHANGED <<multimodal, model, mediaCache, stored, uploads, doubtful>>

\* loadMediaCache, of a resumed agent: a file that does not parse counts as none.
LoadMediaCache == IF stored.text = "whole" THEN stored.records ELSE NoRecords

\* The process dies and the agent is resumed, perhaps with another model.
Restart(provider) ==
    /\ Trouble
    /\ model' = provider
    /\ mediaCache' = LoadMediaCache
    /\ sends' = [s \in DOMAIN sends |->
                    IF sends[s].step \in {"sent", "rejected"} THEN sends[s]
                    ELSE [sends[s] EXCEPT !.step = "lost"]]
    /\ doubtful' = IF unsure \/ \E s \in DOMAIN sends : sends[s].step \in {"open", "write"}
                   THEN Contents ELSE doubtful
    /\ UNCHANGED <<multimodal, stored, uploads, queued, unsure>>

UploadNext ==
    \/ \E message \in Messages : Send(message)
    \/ \E s \in DOMAIN sends :
          \/ CallbackReturns(s) \/ UploadReturns(s) \/ UploadFails(s)
          \/ OpenCache(s) \/ WriteCache(s) \/ SaveFails(s)
    \/ \E provider \in MediaProviders : Restart(provider)

UploadSpec == UploadInit /\ [][UploadNext]_uploadVars
-----------------------------------------------------------------------------
\* A file id that reaches the model is the user's own, or names a file that
\* was uploaded to that very provider, with the content of the block that the
\* user sent: whatever the cache held, also after a restart with another model.
FileIdsAreRight ==
    \A q \in Range(queued) : \A b \in Range(q.blocks) :
        b.type \in MediaTypes /\ b.file \notin {0, Theirs} =>
            LET upload == uploads[b.file - 1]
            IN /\ upload.provider = q.provider
               /\ \E sent \in Range(sends[q.send].message) :
                     sent.type = b.type /\ sent.base64 = upload.content

\* Nothing is uploaded for a message that is rejected, not even the blocks
\* before the one that is wrong.
RejectedLeavesNothing ==
    /\ \A u \in Range(uploads) : ~SendAt(u.send, "rejected")
    /\ \A q \in Range(queued) : SendAt(q.send, "sent")

\* A content is not uploaded twice to a provider, restarts included, unless it
\* went to another provider in between, two sends were uploading it at once, or
\* a crash came when a save had failed, was under way, or had overlapped with
\* another one.
UploadedOnce ==
    \A i, j \in DOMAIN uploads :
        /\ i < j /\ uploads[i].content = uploads[j].content
        /\ uploads[i].provider = uploads[j].provider
        => \/ uploads[i].content \in doubtful
           \/ \E k \in i + 1 .. j - 1 : uploads[k].content = uploads[i].content

\* Uploads are made for the messages sent, for their provider, and once.
UploadsKept == FileIdsAreRight /\ RejectedLeavesNothing /\ UploadedOnce
=============================================================================
