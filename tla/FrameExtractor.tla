---------------------------- MODULE FrameExtractor ----------------------------
(***************************************************************************)
(* FrameExtractor (src/src/framing.rs): cuts the documents out of the      *)
(* camera's multipart stream, which the network splits into chunks at any  *)
(* byte.                                                                   *)
(*                                                                         *)
(* The buffer only ever grows at its end (extend_from_slice) and shrinks   *)
(* at its beginning (advance, split_to): it is a window on the stream, and *)
(* the model keeps the place of the window.  A document, too, is the place *)
(* of its bytes.  The loops of push and next_frame are steps.              *)
(***************************************************************************)
EXTENDS Integers, Sequences

CONSTANTS
    Byte,       \* the bytes of the model
    OPEN_TAG,   \* `<EventNotificationAlert`, a sequence of bytes
    CLOSE_TAG,  \* `</EventNotificationAlert>`
    Delimiters, \* the bytes that may follow OPEN_TAG
    Streams,    \* the byte streams a camera may send
    SLICE,      \* a chunk is ingested in pieces of this length
    MAX         \* limit of the residual buffer

ASSUME ExtractorAssumption ==
    /\ OPEN_TAG \in Seq(Byte) \ {<< >>}
    /\ CLOSE_TAG \in Seq(Byte) \ {<< >>}
    /\ Delimiters \subseteq Byte
    /\ Streams \subseteq Seq(Byte)
    /\ SLICE \in Nat \ {0}
    /\ MAX \in Nat
    /\ MAX >= Len(OPEN_TAG)

VARIABLES
    stream,     \* what the camera sends in this session
    received,   \* how many bytes of it have come in
    buf,        \* FrameExtractor.buf
    push,       \* where push is; "idle" when the session reads
    cut,        \* the documents cut since push was called
    frames      \* those it has returned to the session

extractorVars == <<stream, received, buf, push, cut, frames>>

Place(first, last) == [first |-> first, last |-> last]
Length(place) == place.last - place.first + 1

ExtractorInit ==
    /\ stream \in Streams
    /\ received = 0
    /\ buf = Place(1, 0)
    /\ push = "idle"
    /\ cut = << >>
    /\ frames = << >>

------------------------------------------------------------------------------
(* Where a tag is in the bytes of the stream up to end.                    *)

TagAt(tag, i, end) ==
    i + Len(tag) - 1 <= end /\ SubSeq(stream, i, i + Len(tag) - 1) = tag

(* An opening tag with the delimiter that ends the element's name.         *)
Opening(i, end) ==
    /\ i + Len(OPEN_TAG) <= end
    /\ TagAt(OPEN_TAG, i, end)
    /\ stream[i + Len(OPEN_TAG)] \in Delimiters

Closing(j, end) == TagAt(CLOSE_TAG, j, end)

(* find: the first tag in the buffer, from position p on.                  *)
NoneFound(tag, p) == \A i \in p .. buf.last : ~TagAt(tag, i, buf.last)
Found(tag, p) ==
    {i \in p .. buf.last :
        /\ TagAt(tag, i, buf.last)
        /\ \A h \in p .. i - 1 : ~TagAt(tag, h, buf.last)}

------------------------------------------------------------------------------
(* next_frame.                                                             *)

Retained_Everything == Length(buf)
Retained_Nothing == 0
(* Noise is discarded, but for a tail that may be the beginning of a tag.  *)
Retained == Len(OPEN_TAG) - 1

Discard_Unchecked == [buf EXCEPT !.first = buf.last - Retained + 1]
Discard ==
    IF Length(buf) > Retained
    THEN [buf EXCEPT !.first = buf.last - Retained + 1] ELSE buf

DiscardNoise ==
    /\ NoneFound(OPEN_TAG, buf.first)
    /\ buf' = Discard
    /\ push' = "between"
    /\ UNCHANGED cut

(* The buffer ends with an opening tag: what follows it will tell.         *)
AwaitDelimiter ==
    \E i \in Found(OPEN_TAG, buf.first) :
        /\ i + Len(OPEN_TAG) > buf.last
        /\ buf' = [buf EXCEPT !.first = i]
        /\ push' = "between"
        /\ UNCHANGED cut

(* The tag is the beginning of a longer element name.                      *)
SkipLongerName ==
    \E i \in Found(OPEN_TAG, buf.first) :
        /\ i + Len(OPEN_TAG) <= buf.last
        /\ ~Opening(i, buf.last)
        /\ buf' = [buf EXCEPT !.first = i + 1]
        /\ UNCHANGED <<push, cut>>

AwaitClose ==
    \E i \in Found(OPEN_TAG, buf.first) :
        /\ Opening(i, buf.last)
        /\ NoneFound(CLOSE_TAG, i)
        /\ buf' = [buf EXCEPT !.first = i]
        /\ push' = "between"
        /\ UNCHANGED cut

CutFrame ==
    \E i \in Found(OPEN_TAG, buf.first) :
        /\ Opening(i, buf.last)
        /\ \E j \in Found(CLOSE_TAG, i) :
              LET last == j + Len(CLOSE_TAG) - 1
              IN  /\ cut' = Append(cut, Place(i, last))
                  /\ buf' = [buf EXCEPT !.first = last + 1]
        /\ UNCHANGED push

NextFrame ==
    /\ push = "scan"
    /\ DiscardNoise \/ AwaitDelimiter \/ SkipLongerName
       \/ AwaitClose \/ CutFrame
    /\ UNCHANGED <<stream, received, frames>>

------------------------------------------------------------------------------
(* push: a chunk is ingested piece by piece; the residual is checked       *)
(* after each.                                                             *)

TooLong_OnlyAtTheEnd == Length(buf) > MAX /\ buf.last = received
TooLong == Length(buf) > MAX

IngestPiece ==
    /\ push = "between"
    /\ ~TooLong
    /\ buf.last < received
    /\ buf' = [buf EXCEPT !.last = IF @ + SLICE <= received
                                   THEN @ + SLICE ELSE received]
    /\ push' = "scan"
    /\ UNCHANGED <<stream, received, cut, frames>>

(* The documents of the chunk are lost, and the session is over.           *)
Overflow ==
    /\ push = "between"
    /\ TooLong
    /\ push' = "overflow"
    /\ cut' = << >>
    /\ UNCHANGED <<stream, received, buf, frames>>

ReturnFrames ==
    /\ push = "between"
    /\ ~TooLong
    /\ buf.last = received
    /\ push' = "idle"
    /\ frames' = frames \o cut
    /\ cut' = << >>
    /\ UNCHANGED <<stream, received, buf>>

PushStep == NextFrame \/ IngestPiece \/ Overflow \/ ReturnFrames

(* The session reads the next n bytes from the network.                    *)
ReadChunk(n) ==
    /\ push = "idle"
    /\ received + n <= Len(stream)
    /\ received' = received + n
    /\ push' = "between"
    /\ UNCHANGED <<stream, buf, cut, frames>>

ExtractorNext == PushStep \/ \E n \in 1 .. Len(stream) : ReadChunk(n)

ExtractorSpec == ExtractorInit /\ [][ExtractorNext]_extractorVars

------------------------------------------------------------------------------
(* Properties.                                                             *)

PlaceIn(end) == [first : 1 .. end, last : 1 .. end]

(* Where the search for the next document begins.                          *)
After(documents) ==
    IF documents = << >> THEN 1 ELSE documents[Len(documents)].last + 1

(* The window never leaves what has come in, nor goes back over a document *)
(* that was cut: no position underflows (framing.rs, next_frame).          *)
ExtractorTypeOK ==
    /\ stream \in Seq(Byte)
    /\ received \in 0 .. Len(stream)
    /\ buf.last \in 0 .. received
    /\ buf.first \in After(frames \o cut) .. buf.last + 1
    /\ buf = Place(buf.first, buf.last)
    /\ push \in {"idle", "between", "scan", "overflow"}
    /\ push = "idle" => buf.last = received
    /\ push \in {"idle", "overflow"} => cut = << >>
    /\ cut \in Seq(PlaceIn(received))
    /\ frames \in Seq(PlaceIn(received))

(* The document d is the first from position p on, read with the whole of  *)
(* the stream in sight: from the first delimited opening tag to the end of *)
(* the first closing tag after it.                                         *)
FirstDocument(d, p) ==
    LET close == d.last - Len(CLOSE_TAG) + 1
    IN  /\ p <= d.first /\ d.first <= close
        /\ Opening(d.first, Len(stream))
        /\ \A i \in p .. d.first - 1 : ~Opening(i, Len(stream))
        /\ Closing(close, d.last)
        /\ \A j \in d.first .. close - 1 : ~Closing(j, Len(stream))

Reading(documents) ==
    \A k \in DOMAIN documents :
        FirstDocument(documents[k], After(SubSeq(documents, 1, k - 1)))

NothingLeft(p, end) ==
    \A i \in p .. end : Opening(i, end) => \A j \in i .. end : ~Closing(j, end)

(* Wherever the network splits the stream, the session gets the documents  *)
(* that the bytes received so far contain, each once and in order, and not *)
(* one is held back; those it got before an overflow are the first ones    *)
(* (framing.rs, push: "every complete XML document it completes").         *)
ChunkingIrrelevant ==
    /\ Reading(frames)
    /\ push = "idle" => NothingLeft(After(frames), received)

(* The buffer stays within the limit, and one piece beyond it when the     *)
(* limit trips, however large a chunk is (framing.rs, push).               *)
BufferBounded ==
    Length(buf) <= IF push = "idle" THEN MAX ELSE MAX + SLICE

(* Only a document that is not closed overflows: boundaries, headers and   *)
(* longer element names are discarded as they come (framing.rs,            *)
(* next_frame), so a session does not die of noise.                        *)
OverflowsInDocument ==
    push = "overflow" =>
        /\ Opening(buf.first, buf.last)
        /\ \A j \in buf.first .. buf.last : ~Closing(j, buf.last)
==============================================================================
