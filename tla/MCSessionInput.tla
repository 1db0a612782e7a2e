---------------------------- MODULE MCSessionInput ----------------------------
(* Instances of SessionInput for TLC: streams put together from whole and  *)
(* broken pieces, with `<E` and `</` for the two tags, and streams of one  *)
(* document put together from elements of all kinds.                       *)
EXTENDS SessionInput, SequencesExt

CONSTANTS lt, e, gt, slash, text

MCTexts == {"tma", "ACTIVE", "0", "testing", "1\n", "1"}
MCActiveTexts == {"ACTIVE", "1"}
MCInactiveTexts == {"0"}
MCSanitized == [t \in MCTexts |-> IF t = "1\n" THEN "1" ELSE t]

eventType == Name("", "eventType")
nsEventType == Name("ns", "eventType")
eventState == Name("ns", "eventState")
channelID == Name("", "channelID")
dynChannelID == Name("", "dynChannelID")
region == Name("", "region")

Leaf(name, t) == <<Start(name), Text(t), End(name)>>
Nest(element) == <<Start(region)>> \o element \o <<End(region)>>

(* The fields of an event, as cameras send them.                           *)
Fields ==
    {Leaf(eventType, "tma"), Leaf(eventState, "ACTIVE"),
     Leaf(eventState, "0"), Leaf(channelID, "1\n"),
     Nest(Leaf(eventState, "0")), Nest(Leaf(dynChannelID, "1"))}

(* Elements that are rare, odd or wrong.                                   *)
Oddities ==
    {Leaf(nsEventType, "testing"), Leaf(eventState, "testing"),
     Leaf(dynChannelID, "1"), Nest(Leaf(eventType, "testing")),
     <<Start(eventState), End(eventState)>>,
     <<Start(eventType), End(eventType), Text("testing")>>,
     <<Start(eventType), Ignored, CData("tma"), End(eventType)>>,
     <<Start(eventState), Text("0"), Ignored, Text("ACTIVE"), End(eventState)>>,
     <<Start(eventType), Start(region), End(region), Text("tma"),
       End(eventType)>>,
     <<Ignored>>, <<Start(region)>>, <<End(region)>>, <<Broken>>}

Bodies ==
    {FlattenSeq(b) : b \in
        UNION {[1 .. n -> Fields \cup Oddities] : n \in 1 .. 2}
        \cup [1 .. 3 -> Fields]}

MCNames ==
    {Root, eventType, nsEventType, eventState, channelID, dynChannelID, region}
MCTokens == UNION {ToSet(f) : f \in Fields \cup Oddities}
MCBlanks == {text}
MCByte == {lt, e, gt, slash, text} \cup MCTokens
MCOpenTag == <<lt, e>>
MCCloseTag == <<lt, slash>>
MCSelfClose == <<slash, gt>>
MCDelimiters == {gt, slash}

Document(body) == <<lt, e, gt>> \o body \o <<lt, slash>>
Parts ==
    {Document(<<text>> \o Leaf(nsEventType, "tma")),
     <<lt, e, slash, gt>>,          \* a root that closes itself
     <<text, lt>>,                  \* a boundary that ends like a tag
     <<lt, e, e, gt>>,              \* a longer element name
     <<lt, e, gt>>,                 \* a document that is not closed
     <<lt, slash>>}                 \* a closing tag by itself

NeverClosed == <<lt, e, gt>> \o [i \in 1 .. 20 |-> text]

MCStreams ==
    {FlattenSeq(p) : p \in UNION {[1 .. n -> Parts] : n \in 1 .. 3}}
    \cup {Document(b) : b \in Bodies}
    \cup {NeverClosed, [i \in 1 .. 20 |-> text],
          Document(<< >>) \o NeverClosed}
==============================================================================
