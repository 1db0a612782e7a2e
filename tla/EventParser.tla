----------------------------- MODULE EventParser -----------------------------
(***************************************************************************)
(* parse_event (src/src/event.rs): one document, an event of the XML       *)
(* reader at a time, to a CameraEvent.  The parser keeps the element that  *)
(* was opened last and the fields found so far; it knows nothing of        *)
(* nesting.  The reader does: it refuses an end tag that does not match.   *)
(*                                                                         *)
(* A text is a string of the model.  How it is spelled is in the constants *)
(* below: which texts mean active and inactive, and what becomes of a      *)
(* channel.  An Option is a set of at most one element.                    *)
(***************************************************************************)
EXTENDS Integers, Sequences

CONSTANTS
    Names,          \* the names of elements
    Texts,          \* the decoded, trimmed texts a document may contain
    ActiveTexts,    \* those that are "active", "true" or "1" in lower case
    InactiveTexts,  \* those that are "inactive", "false" or "0"
    SANITIZED       \* [Texts -> Texts], a channel without control
                    \* characters, cut at 64

ASSUME ParserAssumption ==
    /\ ActiveTexts \subseteq Texts
    /\ InactiveTexts \subseteq Texts \ ActiveTexts
    /\ SANITIZED \in [Texts -> Texts]

VARIABLES
    parser,     \* parse_event: its phase and its variables
    result,     \* what it returned for the latest document
    seen        \* what the reader has read of the document: its events, and
                \* the elements that are open after each, the innermost last

parserVars == <<parser, result, seen>>

------------------------------------------------------------------------------
(* The events of the reader.  A name has a namespace prefix or none.       *)

Name(prefix, local) == [prefix |-> prefix, local |-> local]
LocalName(name) == name.local

Start(name) == [kind |-> "Start", name |-> name]
End(name) == [kind |-> "End", name |-> name]
Text(value) == [kind |-> "Text", value |-> value]
CData(value) == [kind |-> "CData", value |-> value]
(* An empty element, a comment, a processing instruction, a reference.     *)
Ignored == [kind |-> "Ignored"]
(* Where the reader finds a syntax error, or a text it cannot decode.      *)
Broken == [kind |-> "Broken"]

Token ==
    [kind : {"Start", "End"}, name : Names]
        \cup [kind : {"Text", "CData"}, value : Texts]
        \cup {Ignored, Broken}

IsText(token) == token.kind \in {"Text", "CData"}
IsTag(token) == token.kind \in {"Start", "End"}

Opened == IF seen = << >> THEN << >> ELSE seen[Len(seen)].open

Innermost(open) == open[Len(open)]

(* The reader does not miss the end tags that are absent when the document *)
(* is over.                                                                *)
Refused(token) ==
    \/ token.kind = "Broken"
    \/ token.kind = "End" /\ (Opened = << >> \/ Innermost(Opened) # token.name)

OpenAfter(token) ==
    CASE token.kind = "Start" -> Append(Opened, token.name)
      [] token.kind = "End" -> SubSeq(Opened, 1, Len(Opened) - 1)
      [] OTHER -> Opened

------------------------------------------------------------------------------
(* The parser.                                                             *)

NoEvent == [kind |-> "NoEvent"]
Malformed == [kind |-> "Malformed"]

Parser(phase) ==
    [phase |-> phase, current |-> "",
     event_type |-> {}, event_state |-> {}, channel |-> {}]

ParserInit ==
    /\ parser = Parser("idle")
    /\ result = NoEvent
    /\ seen = << >>

FirstWins_LastWins(option, value) == {value}
FirstWins(option, value) == IF option = {} THEN {value} ELSE option

Assign(p, value) ==
    CASE p.current = "eventType" ->
            [p EXCEPT !.event_type = FirstWins(@, value)]
      [] p.current = "eventState" ->
            [p EXCEPT !.event_state = FirstWins(@, value)]
      [] p.current \in {"channelID", "dynChannelID"} ->
            [p EXCEPT !.channel = FirstWins(@, SANITIZED[value])]
      [] OTHER -> p

Closed(p) == [p EXCEPT !.current = ""]

Consume(p, token) ==
    CASE token.kind = "Start" -> [p EXCEPT !.current = LocalName(token.name)]
      [] IsText(token) -> Assign(p, token.value)
      [] token.kind = "End" -> Closed(p)
      [] OTHER -> p

StateOf_MissingInactive(event_state) ==
    IF event_state \cap ActiveTexts # {} THEN "Active" ELSE "Inactive"
StateOf(event_state) ==
    CASE event_state = {} -> "Missing"
      [] event_state \cap ActiveTexts # {} -> "Active"
      [] event_state \cap InactiveTexts # {} -> "Inactive"
      [] OTHER -> "Unknown"

BeginDocument ==
    /\ parser.phase = "idle"
    /\ parser' = Parser("reading")
    /\ seen' = << >>
    /\ UNCHANGED result

ReadEvent(token) ==
    /\ parser.phase = "reading"
    /\ IF Refused(token)
       THEN /\ parser' = [parser EXCEPT !.phase = "parsed"]
            /\ result' = Malformed
            /\ UNCHANGED seen
       ELSE /\ parser' = Consume(parser, token)
            /\ seen' = Append(seen, [token |-> token, open |-> OpenAfter(token)])
            /\ UNCHANGED result

Eof ==
    /\ parser.phase = "reading"
    /\ parser' = [parser EXCEPT !.phase = "parsed"]
    /\ IF parser.event_type = {} THEN result' = NoEvent
       ELSE \E event_type \in parser.event_type :
               result' = [kind |-> "Event",
                          event_type |-> event_type,
                          state |-> StateOf(parser.event_state),
                          channel |-> parser.channel]
    /\ UNCHANGED seen

------------------------------------------------------------------------------
(* Properties.                                                             *)

Event ==
    [kind : {"Event"}, event_type : Texts, channel : SUBSET Texts,
     state : {"Active", "Inactive", "Missing", "Unknown"}]

ParserTypeOK ==
    /\ parser \in [phase : {"idle", "reading", "parsed"},
                   current : {""} \cup {LocalName(name) : name \in Names},
                   event_type : SUBSET Texts, event_state : SUBSET Texts,
                   channel : SUBSET Texts]
    /\ \A option \in {parser.event_type, parser.event_state, parser.channel} :
          \A v, w \in option : v = w
    /\ result \in Event \cup {NoEvent, Malformed}
    /\ seen \in Seq([token : Token, open : Seq(Names)])

TypeField == {"eventType"}
StateField == {"eventState"}
ChannelField == {"channelID", "dynChannelID"}

(* What the document says, read with its nesting in sight.                 *)

TextsIn(fields) ==
    {i \in DOMAIN seen :
        /\ IsText(seen[i].token)
        /\ seen[i].open # << >>
        /\ LocalName(Innermost(seen[i].open)) \in fields}

TopLevelTexts(fields) == {i \in TextsIn(fields) : Len(seen[i].open) = 2}

Earliest(indices) == {i \in indices : \A j \in indices : i <= j}

(* No element began or ended since the one the text is in was opened.      *)
Uninterrupted(i) ==
    \E j \in 1 .. i :
        /\ seen[j].token.kind = "Start"
        /\ \A k \in j + 1 .. i : ~IsTag(seen[k].token)

(* A field that occurs at all occurs at the top level before any nested    *)
(* repetition of it, as one piece of text.                                 *)
Ordinary(fields) ==
    \A i \in Earliest(TextsIn(fields)) :
        i \in TopLevelTexts(fields) /\ Uninterrupted(i)

TopLevel(fields) ==
    {seen[i].token.value : i \in Earliest(TopLevelTexts(fields))}

Readable == parser.phase = "parsed" /\ result # Malformed

(* Where the fields of a document precede any nested repetition of them,   *)
(* the event has the document's own type, state and channel, although the  *)
(* parser does not track nesting (event.rs:102, "First occurrence wins").  *)
FieldsReadTopLevel ==
    Readable /\ (\A f \in {TypeField, StateField, ChannelField} : Ordinary(f))
        => IF TopLevel(TypeField) = {} THEN result = NoEvent
           ELSE /\ result.kind = "Event"
                /\ {result.event_type} = TopLevel(TypeField)
                /\ result.state = StateOf(TopLevel(StateField))
                /\ result.channel = {SANITIZED[c] : c \in TopLevel(ChannelField)}

(* However unusual the document, one that can be read and has a type at    *)
(* the top level is an event, and it counts as active unless some state in *)
(* it says otherwise (event.rs:47, "the caller decides how to fail safe";  *)
(* lib.rs:196, "fail toward alert, never drop").                           *)
NoFireSilenced ==
    Readable /\ (\E i \in TopLevelTexts(TypeField) : Uninterrupted(i))
        => /\ result.kind = "Event"
           /\ (\A i \in TextsIn(StateField) : seen[i].token.value \in ActiveTexts)
                 => result.state \in {"Active", "Missing"}
==============================================================================
