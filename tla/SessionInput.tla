---------------------------- MODULE SessionInput ----------------------------
(***************************************************************************)
(* What a session makes of the bytes of the camera (src/src/camera.rs,     *)
(* session): it reads a chunk, the extractor cuts the documents out of it, *)
(* and each is parsed by itself before the next chunk is read.             *)
(*                                                                         *)
(* The extractor does not look inside a document, but for the two tags; so *)
(* a token of the XML between them counts as one byte.                     *)
(***************************************************************************)
EXTENDS FrameExtractor, EventParser

CONSTANTS
    Tokens,     \* the bytes that stand for an event of the reader
    Blanks,     \* the bytes of whitespace, which trim_text removes
    TAG_END,    \* `>`
    SELF_CLOSE  \* `/>`

Root == Name("", "EventNotificationAlert")

ASSUME InputAssumption ==
    /\ Tokens \cup Blanks \cup {TAG_END} \subseteq Byte
    /\ Tokens \subseteq Token
    /\ Root \in Names
    /\ TAG_END \in Delimiters
    /\ SELF_CLOSE \in Seq(Byte)

VARIABLES
    handled,    \* how many of the frames the session has handled
    at          \* where in the stream the reader is

inputVars == <<extractorVars, parserVars, handled, at>>

InputInit ==
    /\ ExtractorInit
    /\ ParserInit
    /\ handled = 0
    /\ at = 1

------------------------------------------------------------------------------
(* quick_xml::Reader on a frame.  The only tags it may contain as bytes    *)
(* are those of the root; other markup is a syntax error.                  *)

ParsedFrame == frames[handled + 1]

AtEnd == at = ParsedFrame.last - Len(CLOSE_TAG) + 1

AtRoot ==
    /\ TagAt(OPEN_TAG, at, ParsedFrame.last)
    /\ at + Len(OPEN_TAG) <= ParsedFrame.last
    /\ stream[at + Len(OPEN_TAG)] = TAG_END

(* A root that closes itself opens nothing for the reader.  The extractor   *)
(* goes on to the next closing tag all the same, which then matches none.  *)
EmptyRoot == OPEN_TAG \o SELF_CLOSE
AtEmptyRoot == TagAt(EmptyRoot, at, ParsedFrame.last)

ReadToken(token, length) ==
    ReadEvent(token) /\ at' = at + length /\ UNCHANGED handled

ReadNext ==
    /\ at <= ParsedFrame.last
    /\ CASE AtEnd -> ReadToken(End(Root), Len(CLOSE_TAG))
         [] ~AtEnd /\ AtRoot -> ReadToken(Start(Root), Len(OPEN_TAG) + 1)
         [] ~AtEnd /\ ~AtRoot /\ AtEmptyRoot ->
                ReadToken(Ignored, Len(EmptyRoot))
         [] ~AtEnd /\ ~AtRoot /\ ~AtEmptyRoot ->
                CASE stream[at] \in Tokens -> ReadToken(stream[at], 1)
                  [] stream[at] \in Blanks -> ReadToken(Ignored, 1)
                  [] OTHER -> ReadToken(Broken, 1)

------------------------------------------------------------------------------
(* The session.                                                            *)

Handling == push = "idle" /\ handled < Len(frames)

ParseFrame ==
    /\ Handling
    /\ BeginDocument
    /\ at' = ParsedFrame.first
    /\ UNCHANGED <<extractorVars, handled>>

(* An error returns from parse_event at once.                              *)
ReadFrame ==
    /\ Handling
    /\ parser.phase = "reading"
    /\ ReadNext
    /\ UNCHANGED extractorVars

EndOfDocument ==
    /\ Handling
    /\ parser.phase = "reading"
    /\ at > ParsedFrame.last
    /\ Eof
    /\ UNCHANGED <<extractorVars, handled, at>>

(* It forwards an event, ignores a document without one, counts a          *)
(* malformed one (CameraSupervisor).                                       *)
HandleFrame ==
    /\ Handling
    /\ parser.phase = "parsed"
    /\ handled' = handled + 1
    /\ parser' = Parser("idle")
    /\ UNCHANGED <<extractorVars, result, seen, at>>

InputNext ==
    \/ /\ PushStep
       /\ UNCHANGED <<parserVars, handled, at>>
    \/ /\ handled = Len(frames)
       /\ \E n \in 1 .. Len(stream) : ReadChunk(n)
       /\ UNCHANGED <<parserVars, handled, at>>
    \/ ParseFrame \/ ReadFrame \/ EndOfDocument \/ HandleFrame

InputSpec == InputInit /\ [][InputNext]_inputVars

------------------------------------------------------------------------------
(* Properties.                                                             *)

(* Every document that push returns is handled before the next chunk is    *)
(* read, and the reader stays inside of it.                                *)
InputTypeOK ==
    /\ ExtractorTypeOK
    /\ ParserTypeOK
    /\ handled \in 0 .. Len(frames)
    /\ push # "idle" => handled = Len(frames)
    /\ parser.phase # "idle" => handled < Len(frames)
    /\ at \in Nat
    /\ parser.phase = "reading" =>
          at \in ParsedFrame.first .. ParsedFrame.last + 1
==============================================================================
