-------------------------- MODULE SessionInputProofs --------------------------
(***************************************************************************)
(* What a session makes of the camera's bytes, for every stream, every     *)
(* split of it, every tag, slice and limit, and every text: the extractor  *)
(* first, then the parser, then the two together.                          *)
(***************************************************************************)
EXTENDS SessionInput, SequenceTheorems, WellFoundedInduction, TLAPS

------------------------------------------------------------------------------
(* Sequences of documents.                                                 *)

Places == [first : Nat, last : Nat]

LEMMA PlaceProperties ==
    ASSUME NEW end \in Nat, NEW d \in PlaceIn(end)
    PROVE  /\ d \in Places
           /\ d.first \in 1 .. end /\ d.last \in 1 .. end
           /\ \A e \in Nat : end <= e => d \in PlaceIn(e)
BY DEF PlaceIn, Places

LEMMA PlacesStay ==
    ASSUME NEW end \in Nat, NEW docs \in Seq(PlaceIn(end))
    PROVE  /\ docs \in Seq(Places)
           /\ \A e \in Nat : end <= e => docs \in Seq(PlaceIn(e))
<1>1. PlaceIn(end) \subseteq Places
  BY PlaceProperties
<1>2. \A e \in Nat : end <= e => PlaceIn(end) \subseteq PlaceIn(e)
  BY PlaceProperties
<1> QED
  BY <1>1, <1>2, SeqMonotonic

(* Where the search begins, before each document and after the last.       *)
LEMMA AfterPrefix ==
    ASSUME NEW docs \in Seq(Places), NEW k \in 1 .. Len(docs)
    PROVE  After(SubSeq(docs, 1, k - 1)) =
              IF k = 1 THEN 1 ELSE docs[k - 1].last + 1
<1>1. \A i \in 1 .. k - 1 : docs[i] \in Places
  BY ElementOfSeq, LenProperties
<1>2. /\ Len(SubSeq(docs, 1, k - 1)) = k - 1
      /\ \A i \in 1 .. k - 1 : SubSeq(docs, 1, k - 1)[i] = docs[i]
  BY <1>1, SubSeqProperties, LenProperties
<1>3. CASE k = 1
  BY <1>3, SubSeqEmpty DEF After
<1>4. CASE k # 1
  <2>1. SubSeq(docs, 1, k - 1) # << >>
    BY <1>2, <1>4, LenProperties
  <2> QED
    BY <1>2, <1>4, <2>1, LenProperties DEF After
<1> QED
  BY <1>3, <1>4

(* A reading, document by document.                                        *)
Begins(docs, k) == IF k = 1 THEN 1 ELSE docs[k - 1].last + 1

LEMMA ReadingByDocument ==
    ASSUME NEW docs \in Seq(Places)
    PROVE  Reading(docs) <=>
              \A k \in 1 .. Len(docs) : FirstDocument(docs[k], Begins(docs, k))
BY AfterPrefix, LenProperties DEF Reading, Begins

LEMMA AppendReads ==
    ASSUME NEW docs \in Seq(Places), NEW d \in Places,
           Reading(docs), FirstDocument(d, After(docs))
    PROVE  /\ Append(docs, d) \in Seq(Places)
           /\ Reading(Append(docs, d))
           /\ After(Append(docs, d)) = d.last + 1
<1> DEFINE more == Append(docs, d)
<1>1. /\ more \in Seq(Places)
      /\ more # << >>
      /\ Len(more) = Len(docs) + 1
      /\ \A i \in 1 .. Len(docs) : more[i] = docs[i]
      /\ more[Len(docs) + 1] = d
  BY AppendProperties
<1>2. Len(docs) \in Nat
  BY LenProperties
<1>3. After(docs) = Begins(more, Len(docs) + 1)
  <2>1. docs = << >> <=> Len(docs) = 0
    BY EmptySeq
  <2> QED
    BY <1>1, <1>2, <2>1 DEF After, Begins
<1>4. ASSUME NEW k \in 1 .. Len(docs) + 1
      PROVE  FirstDocument(more[k], Begins(more, k))
  <2>1. CASE k = Len(docs) + 1
    BY <1>1, <1>3, <2>1
  <2>2. CASE k \in 1 .. Len(docs)
    <3>1. more[k] = docs[k] /\ Begins(more, k) = Begins(docs, k)
      BY <1>1, <1>2, <2>2 DEF Begins
    <3> QED
      BY <2>2, <3>1, ReadingByDocument
  <2> QED
    BY <1>2, <2>1, <2>2
<1>5. Reading(more)
  BY <1>1, <1>4, ReadingByDocument
<1> HIDE DEF more
<1>6. After(more) = d.last + 1
  BY <1>1, <1>2 DEF After
<1> QED
  BY <1>1, <1>5, <1>6 DEF more

LEMMA PrefixReads ==
    ASSUME NEW docs \in Seq(Places), NEW more \in Seq(Places),
           Reading(docs \o more)
    PROVE  Reading(docs)
<1>1. /\ docs \o more \in Seq(Places)
      /\ Len(docs \o more) = Len(docs) + Len(more)
      /\ \A i \in 1 .. Len(docs) : (docs \o more)[i] = docs[i]
      /\ Len(docs) \in Nat /\ Len(more) \in Nat
  BY ConcatProperties, LenProperties
<1>2. \A k \in 1 .. Len(docs) :
          Begins(docs \o more, k) = Begins(docs, k)
  BY <1>1 DEF Begins
<1>3. \A k \in 1 .. Len(docs \o more) :
          FirstDocument((docs \o more)[k], Begins(docs \o more, k))
  BY <1>1, ReadingByDocument
<1>4. ASSUME NEW k \in 1 .. Len(docs)
      PROVE  FirstDocument(docs[k], Begins(docs, k))
  <2>1. /\ k \in 1 .. Len(docs \o more)
        /\ (docs \o more)[k] = docs[k]
        /\ Begins(docs \o more, k) = Begins(docs, k)
    BY <1>1, <1>2
  <2> QED
    BY <1>3, <2>1
<1> QED
  BY <1>4, ReadingByDocument

LEMMA ConcatAppend ==
    ASSUME NEW docs \in Seq(Places), NEW more \in Seq(Places),
           NEW d \in Places
    PROVE  docs \o Append(more, d) = Append(docs \o more, d)
<1>1. /\ Append(more, d) = more \o <<d>>
      /\ docs \o more \in Seq(Places)
      /\ <<d>> \in Seq(Places)
  BY AppendIsConcat, ConcatProperties
<1>2. Append(docs \o more, d) = (docs \o more) \o <<d>>
  BY <1>1, AppendIsConcat
<1> QED
  BY <1>1, <1>2, ConcatAssociative

------------------------------------------------------------------------------
(* The extractor.                                                          *)

(* A document that is open: everything that is left may belong to it.      *)
OpenDocument(p, end) ==
    Opening(p, end) /\ \A j \in p .. end : ~Closing(j, end)

(* What lies between the last document and the window is no document,      *)
(* however the stream goes on.                                             *)
NothingBefore(documents, p) ==
    \A i \in After(documents) .. p - 1 : ~Opening(i, Len(stream))

(* The inductive invariant.  A scan that has come to its end leaves no     *)
(* document in the window, and a long window only if a document is open.   *)
ExtractorInv ==
    /\ ExtractorTypeOK
    /\ Reading(frames \o cut)
    /\ After(frames) <= buf.first
    /\ push # "overflow" => NothingBefore(frames \o cut, buf.first)
    /\ push # "scan" => NothingLeft(buf.first, buf.last)
    /\ push # "scan" /\ TooLong => OpenDocument(buf.first, buf.last)
    /\ push = "overflow" => TooLong
    /\ push = "idle" => ~TooLong
    /\ Length(buf) <= MAX + SLICE

LEMMA TagLengths ==
    /\ Len(OPEN_TAG) \in Nat \ {0}
    /\ Len(CLOSE_TAG) \in Nat \ {0}
    /\ Len(OPEN_TAG) <= MAX
    /\ MAX \in Nat /\ SLICE \in Nat \ {0}
BY EmptySeq, LenProperties, ExtractorAssumption

LEMMA AfterIsNat ==
    ASSUME NEW docs \in Seq(Places)
    PROVE  After(docs) \in Nat /\ 1 <= After(docs)
<1>1. CASE docs = << >>
  BY <1>1 DEF After
<1>2. CASE docs # << >>
  <2>1. Len(docs) \in 1 .. Len(docs)
    BY <1>2, EmptySeq
  <2>2. docs[Len(docs)] \in Places
    BY <2>1, ElementOfSeq
  <2> QED
    BY <1>2, <2>2 DEF After, Places
<1> QED
  BY <1>1, <1>2

LEMMA ExtractorTypes ==
    ASSUME ExtractorTypeOK
    PROVE  /\ Len(stream) \in Nat
           /\ received \in Nat /\ received <= Len(stream)
           /\ buf.last \in Nat /\ buf.last <= received
           /\ buf.first \in Nat
           /\ frames \in Seq(Places) /\ cut \in Seq(Places)
           /\ frames \o cut \in Seq(Places)
           /\ After(frames \o cut) \in Nat /\ After(frames) \in Nat
           /\ After(frames \o cut) <= buf.first
           /\ buf.first <= buf.last + 1
           /\ Length(buf) = buf.last - buf.first + 1
           /\ TooLong <=> buf.last - buf.first + 1 > MAX
<1>1. Len(stream) \in Nat /\ received \in 0 .. Len(stream)
  BY LenProperties DEF ExtractorTypeOK
<1>2. frames \in Seq(Places) /\ cut \in Seq(Places)
  BY <1>1, PlacesStay DEF ExtractorTypeOK
<1>3. frames \o cut \in Seq(Places)
  BY <1>2, ConcatProperties
<1>4. After(frames \o cut) \in Nat /\ After(frames) \in Nat
  BY <1>2, <1>3, AfterIsNat
<1> QED
  BY <1>1, <1>2, <1>3, <1>4, TagLengths DEF ExtractorTypeOK, Length, TooLong

(* The stream stays, so what was read of it stays read.                    *)
LEMMA ReadingStays ==
    ASSUME stream' = stream, Reading(frames' \o cut')
    PROVE  Reading(frames \o cut)'
BY DEF Reading, FirstDocument, Opening, Closing, TagAt, After

LEMMA ExtractorInitInv == ASSUME ExtractorInit PROVE ExtractorInv
<1>1. /\ stream \in Seq(Byte) /\ received = 0 /\ buf = Place(1, 0)
      /\ push = "idle" /\ cut = << >> /\ frames = << >>
      /\ Len(stream) \in Nat
  BY ExtractorAssumption, LenProperties DEF ExtractorInit
<1>2. /\ frames \o cut = << >>
      /\ << >> \in Seq(PlaceIn(0))
  BY <1>1, ConcatEmptySeq, EmptySeq
<1>3. After(<< >>) = 1 /\ buf.first = 1 /\ buf.last = 0
  BY <1>1 DEF After, Place
<1>4. Reading(<< >>)
  BY DEF Reading
<1>5. ExtractorTypeOK
  BY <1>1, <1>2, <1>3 DEF ExtractorTypeOK
<1>6. NothingBefore(<< >>, 1) /\ NothingLeft(1, 0)
  BY <1>3 DEF NothingBefore, NothingLeft
<1>7. ~TooLong /\ Length(buf) <= MAX + SLICE
  BY <1>3, TagLengths DEF TooLong, Length
<1> QED
  BY <1>1, <1>2, <1>3, <1>4, <1>5, <1>6, <1>7 DEF ExtractorInv

(* next_frame moves the window over bytes where no document begins.        *)
LEMMA MoveKeepsInv ==
    ASSUME ExtractorInv, push = "scan",
           NEW i \in Nat, buf.first <= i, i <= buf.last + 1,
           \A h \in buf.first .. i - 1 : ~Opening(h, Len(stream)),
           buf' = Place(i, buf.last),
           UNCHANGED <<stream, received, cut, frames>>,
           \/ push' = "scan"
           \/ /\ push' = "between"
              /\ NothingLeft(i, buf.last)
              /\ buf.last - i + 1 > MAX => OpenDocument(i, buf.last)
    PROVE  ExtractorInv'
<1>1. buf'.first = i /\ buf'.last = buf.last
  BY DEF Place
<1>2. ExtractorTypeOK'
  BY <1>1, ExtractorTypes DEF ExtractorInv, ExtractorTypeOK
<1>3. Reading(frames \o cut)'
  BY ReadingStays DEF ExtractorInv
<1>4. (After(frames) <= buf.first)'
  BY <1>1, ExtractorTypes DEF ExtractorInv, After
<1>5. \A h \in After(frames \o cut) .. i - 1 : ~Opening(h, Len(stream))
  BY ExtractorTypes DEF ExtractorInv, NothingBefore
<1>6. NothingBefore(frames \o cut, buf.first)'
  BY <1>1, <1>5 DEF NothingBefore, Opening, TagAt, After
<1>7. (Length(buf) <= MAX + SLICE)'
  <2>1. /\ buf.first \in Nat /\ buf.last \in Nat
        /\ buf.last - buf.first + 1 <= MAX + SLICE
    BY ExtractorTypes DEF ExtractorInv
  <2>2. buf.last - i + 1 <= MAX + SLICE
    BY <2>1, TagLengths
  <2> QED
    BY <1>1, <2>2 DEF Length
<1>8. TooLong' <=> buf.last - i + 1 > MAX
  BY <1>1 DEF TooLong, Length
<1>9. ASSUME push' = "between"
      PROVE  /\ NothingLeft(buf.first, buf.last)'
             /\ TooLong' => OpenDocument(buf.first, buf.last)'
  BY <1>1, <1>8, <1>9
  DEF NothingLeft, OpenDocument, Opening, Closing, TagAt
<1> QED
  BY <1>2, <1>3, <1>4, <1>6, <1>7, <1>9 DEF ExtractorInv

(* Where a tag would fit in the window and is not, there is none.          *)
LEMMA NoTag ==
    ASSUME NEW tag, Len(tag) \in Nat, NEW h \in Nat, NEW end \in Nat,
           h + Len(tag) - 1 <= end, ~TagAt(tag, h, end)
    PROVE  \A e \in Nat : ~TagAt(tag, h, e)
BY DEF TagAt

LEMMA OpeningStays ==
    ASSUME NEW i \in Nat, NEW end \in Nat, NEW e \in Nat, end <= e,
           Opening(i, end)
    PROVE  Opening(i, e)
BY TagLengths DEF Opening, TagAt

LEMMA FoundProperties ==
    ASSUME NEW tag, NEW p \in Nat, buf.last \in Nat, Len(tag) \in Nat \ {0},
           NEW i \in Found(tag, p)
    PROVE  /\ i \in Nat /\ p <= i /\ i + Len(tag) - 1 <= buf.last
           /\ TagAt(tag, i, buf.last)
           /\ \A h \in p .. i - 1 : \A e \in Nat : ~TagAt(tag, h, e)
<1>1. /\ i \in Nat /\ p <= i /\ i + Len(tag) - 1 <= buf.last
      /\ TagAt(tag, i, buf.last)
      /\ \A h \in p .. i - 1 : ~TagAt(tag, h, buf.last)
  BY DEF Found, TagAt
<1>2. ASSUME NEW h \in p .. i - 1
      PROVE  \A e \in Nat : ~TagAt(tag, h, e)
  <2>1. h \in Nat /\ h + Len(tag) - 1 <= buf.last
    BY <1>1
  <2> QED
    BY <1>1, <2>1, NoTag
<1> QED
  BY <1>1, <1>2

LEMMA DiscardNoiseKeepsInv ==
    ASSUME ExtractorInv, NextFrame, DiscardNoise PROVE ExtractorInv'
<1> DEFINE i == IF Length(buf) > Retained
                THEN buf.last - Retained + 1 ELSE buf.first
<1>1. /\ buf.first \in Nat /\ buf.last \in Nat
      /\ buf.first <= buf.last + 1
      /\ Length(buf) = buf.last - buf.first + 1
      /\ Len(stream) \in Nat
      /\ buf = Place(buf.first, buf.last)
  BY ExtractorTypes DEF ExtractorInv, ExtractorTypeOK
<1>2. Retained = Len(OPEN_TAG) - 1 /\ Retained \in Nat
  BY TagLengths DEF Retained
<1>3. /\ i \in Nat /\ buf.first <= i /\ i <= buf.last + 1
      /\ \A h \in buf.first .. i - 1 : h + Len(OPEN_TAG) - 1 <= buf.last
      /\ buf.last - i + 1 <= Retained
  <2>1. CASE Length(buf) > Retained
    <3>1. i = buf.last - (Len(OPEN_TAG) - 1) + 1
      BY <1>2, <2>1
    <3>2. buf.last - buf.first + 1 > Len(OPEN_TAG) - 1
      BY <1>1, <1>2, <2>1
    <3> HIDE DEF i
    <3>3. i = buf.last - Len(OPEN_TAG) + 2 /\ i \in Int
      BY <1>1, <3>1, TagLengths
    <3>4. i >= buf.first /\ i <= buf.last + 1
      BY <1>1, <3>2, <3>3, TagLengths
    <3>5. \A h \in buf.first .. i - 1 : h + Len(OPEN_TAG) - 1 <= buf.last
      BY <1>1, <3>3, TagLengths
    <3>6. buf.last - i + 1 <= Retained
      BY <1>1, <1>2, <3>3, TagLengths
    <3> QED
      BY <1>1, <3>3, <3>4, <3>5, <3>6
  <2>2. CASE ~(Length(buf) > Retained)
    <3>1. i = buf.first
      BY <2>2
    <3>2. buf.last - buf.first + 1 <= Retained
      BY <1>1, <1>2, <2>2
    <3> HIDE DEF i
    <3> QED
      BY <1>1, <1>2, <3>1, <3>2
  <2> QED
    BY <2>1, <2>2
<1>4. buf' = Place(i, buf.last)
  BY <1>1 DEF DiscardNoise, Discard, Place
<1> HIDE DEF i
<1>5. ASSUME NEW h \in buf.first .. i - 1
      PROVE  ~Opening(h, Len(stream))
  <2>1. /\ h \in Nat /\ h \in buf.first .. buf.last
        /\ h + Len(OPEN_TAG) - 1 <= buf.last
    BY <1>1, <1>3, TagLengths
  <2>2. ~TagAt(OPEN_TAG, h, buf.last)
    BY <2>1 DEF DiscardNoise, NoneFound
  <2> QED
    BY <1>1, <2>1, <2>2, NoTag, TagLengths DEF Opening
<1>6. NothingLeft(i, buf.last)
  <2>1. i .. buf.last \subseteq buf.first .. buf.last
    BY <1>1, <1>3
  <2> QED
    BY <2>1 DEF DiscardNoise, NoneFound, NothingLeft, Opening
<1>7. push = "scan" /\ push' = "between"
      /\ UNCHANGED <<stream, received, cut, frames>>
  BY DEF NextFrame, DiscardNoise
<1>8. ~(buf.last - i + 1 > MAX)
  BY <1>1, <1>2, <1>3, TagLengths
<1> QED
  BY <1>3, <1>4, <1>5, <1>6, <1>7, <1>8, MoveKeepsInv

(* The three outcomes of next_frame where a tag is found but no document   *)
(* can be cut.                                                             *)
LEMMA WaitOrSkipKeepsInv ==
    ASSUME ExtractorInv, NextFrame,
           AwaitDelimiter \/ SkipLongerName \/ AwaitClose
    PROVE  ExtractorInv'
<1>1. /\ buf.first \in Nat /\ buf.last \in Nat
      /\ Len(stream) \in Nat /\ buf.last <= Len(stream)
      /\ buf = Place(buf.first, buf.last)
  BY ExtractorTypes DEF ExtractorInv, ExtractorTypeOK
<1>2. push = "scan" /\ UNCHANGED <<stream, received, frames>>
  BY DEF NextFrame
<1>3. ASSUME NEW i \in Found(OPEN_TAG, buf.first)
      PROVE  /\ i \in Nat /\ buf.first <= i
             /\ i + Len(OPEN_TAG) - 1 <= buf.last
             /\ i <= buf.last + 1 /\ i + 1 <= buf.last + 1
             /\ \A h \in buf.first .. i - 1 : ~Opening(h, Len(stream))
             /\ [buf EXCEPT !.first = i] = Place(i, buf.last)
             /\ [buf EXCEPT !.first = i + 1] = Place(i + 1, buf.last)
  <2>1. /\ i \in Nat /\ buf.first <= i
        /\ i + Len(OPEN_TAG) - 1 <= buf.last
        /\ \A h \in buf.first .. i - 1 :
              \A e \in Nat : ~TagAt(OPEN_TAG, h, e)
    BY <1>1, FoundProperties, TagLengths
  <2>2. \A h \in buf.first .. i - 1 : ~Opening(h, Len(stream))
    BY <1>1, <2>1 DEF Opening
  <2>3. i <= buf.last
    BY <1>1, <2>1, TagLengths
  <2> QED
    BY <1>1, <2>1, <2>2, <2>3 DEF Place
<1>4. CASE AwaitDelimiter
  <2>1. PICK i \in Found(OPEN_TAG, buf.first) :
          /\ i + Len(OPEN_TAG) > buf.last
          /\ buf' = [buf EXCEPT !.first = i]
          /\ push' = "between"
          /\ cut' = cut
    BY <1>4 DEF AwaitDelimiter
  <2>2. /\ i \in Nat /\ buf.first <= i /\ i <= buf.last + 1
        /\ \A h \in buf.first .. i - 1 : ~Opening(h, Len(stream))
        /\ buf' = Place(i, buf.last)
    BY <1>3, <2>1
  <2>3. \A h \in i .. buf.last : ~Opening(h, buf.last)
    BY <1>1, <2>1, <2>2, TagLengths DEF Opening
  <2>4. ~(buf.last - i + 1 > MAX)
    BY <1>1, <2>1, <2>2, TagLengths
  <2>5. NothingLeft(i, buf.last)
    BY <2>3 DEF NothingLeft
  <2> QED
    BY <1>2, <2>1, <2>2, <2>4, <2>5, MoveKeepsInv
<1>5. CASE SkipLongerName
  <2>1. PICK i \in Found(OPEN_TAG, buf.first) :
          /\ i + Len(OPEN_TAG) <= buf.last
          /\ ~Opening(i, buf.last)
          /\ buf' = [buf EXCEPT !.first = i + 1]
          /\ UNCHANGED <<push, cut>>
    BY <1>5 DEF SkipLongerName
  <2>2. /\ i \in Nat /\ buf.first <= i /\ i + 1 <= buf.last + 1
        /\ i + Len(OPEN_TAG) - 1 <= buf.last
        /\ \A h \in buf.first .. i - 1 : ~Opening(h, Len(stream))
        /\ buf' = Place(i + 1, buf.last)
    BY <1>3, <2>1
  <2>3. ~Opening(i, Len(stream))
    BY <1>1, <2>1, <2>2, TagLengths DEF Opening, TagAt
  <2>4. /\ i + 1 \in Nat /\ buf.first <= i + 1
        /\ \A h \in buf.first .. (i + 1) - 1 : h = i \/ h \in buf.first .. i - 1
    BY <1>1, <2>2
  <2>5. \A h \in buf.first .. (i + 1) - 1 : ~Opening(h, Len(stream))
    BY <2>2, <2>3, <2>4
  <2> QED
    BY <1>2, <2>1, <2>2, <2>4, <2>5, MoveKeepsInv
<1>6. CASE AwaitClose
  <2>1. PICK i \in Found(OPEN_TAG, buf.first) :
          /\ Opening(i, buf.last)
          /\ NoneFound(CLOSE_TAG, i)
          /\ buf' = [buf EXCEPT !.first = i]
          /\ push' = "between"
          /\ cut' = cut
    BY <1>6 DEF AwaitClose
  <2>2. /\ i \in Nat /\ buf.first <= i /\ i <= buf.last + 1
        /\ \A h \in buf.first .. i - 1 : ~Opening(h, Len(stream))
        /\ buf' = Place(i, buf.last)
    BY <1>3, <2>1
  <2>3. \A j \in i .. buf.last : ~Closing(j, buf.last)
    BY <2>1 DEF NoneFound, Closing
  <2>4. OpenDocument(i, buf.last)
    BY <2>1, <2>3 DEF OpenDocument
  <2>5. NothingLeft(i, buf.last)
    <3>1. \A h \in i .. buf.last : h .. buf.last \subseteq i .. buf.last
      BY <1>1, <2>2
    <3> QED
      BY <2>3, <3>1 DEF NothingLeft
  <2> QED
    BY <1>2, <2>1, <2>2, <2>4, <2>5, MoveKeepsInv
<1> QED
  BY <1>4, <1>5, <1>6

LEMMA CutFrameKeepsInv ==
    ASSUME ExtractorInv, NextFrame, CutFrame PROVE ExtractorInv'
<1>1. /\ buf.first \in Nat /\ buf.last \in Nat /\ received \in Nat
      /\ Len(stream) \in Nat /\ buf.last <= received
      /\ received <= Len(stream)
      /\ buf = Place(buf.first, buf.last)
      /\ frames \in Seq(Places) /\ cut \in Seq(Places)
      /\ frames \o cut \in Seq(Places)
      /\ After(frames \o cut) \in Nat /\ After(frames) \in Nat
      /\ After(frames) <= buf.first
      /\ After(frames \o cut) <= buf.first
      /\ Reading(frames \o cut)
      /\ buf.last - buf.first + 1 <= MAX + SLICE
      /\ buf.first >= 1
  <2>1. 1 <= After(frames \o cut)
    <3>1. \A docs \in Seq(Places) : 1 <= After(docs)
      BY AfterIsNat
    <3> QED
      BY <3>1, ExtractorTypes DEF ExtractorInv
  <2> QED
    BY <2>1, ExtractorTypes DEF ExtractorInv, ExtractorTypeOK
<1>20. PICK i \in Found(OPEN_TAG, buf.first) :
        /\ Opening(i, buf.last)
        /\ \E j \in Found(CLOSE_TAG, i) :
              /\ cut' = Append(cut, Place(i, j + Len(CLOSE_TAG) - 1))
              /\ buf' = [buf EXCEPT !.first = (j + Len(CLOSE_TAG) - 1) + 1]
        /\ push' = push
  BY DEF CutFrame
<1>2. PICK j \in Found(CLOSE_TAG, i) :
        /\ cut' = Append(cut, Place(i, j + Len(CLOSE_TAG) - 1))
        /\ buf' = [buf EXCEPT !.first = (j + Len(CLOSE_TAG) - 1) + 1]
  BY <1>20
<1> DEFINE last == j + Len(CLOSE_TAG) - 1
           d == Place(i, last)
<1>3. /\ i \in Nat /\ buf.first <= i
      /\ \A h \in buf.first .. i - 1 : ~Opening(h, Len(stream))
  <2>1. /\ i \in Nat /\ buf.first <= i
        /\ \A h \in buf.first .. i - 1 :
              \A e \in Nat : ~TagAt(OPEN_TAG, h, e)
    BY <1>1, FoundProperties, TagLengths
  <2> QED
    BY <1>1, <2>1 DEF Opening
<1>4. /\ j \in Nat /\ i <= j /\ last \in Nat /\ last <= buf.last /\ j <= last
      /\ TagAt(CLOSE_TAG, j, buf.last)
      /\ \A h \in i .. j - 1 : ~Closing(h, Len(stream))
  <2>1. /\ j \in Nat /\ i <= j /\ j + Len(CLOSE_TAG) - 1 <= buf.last
        /\ TagAt(CLOSE_TAG, j, buf.last)
        /\ \A h \in i .. j - 1 :
              \A e \in Nat : ~TagAt(CLOSE_TAG, h, e)
    BY <1>1, <1>2, <1>3, FoundProperties, TagLengths
  <2>2. last \in Nat /\ last <= buf.last /\ j <= last
    BY <1>1, <2>1, TagLengths
  <2> HIDE DEF last
  <2> QED
    BY <1>1, <2>1, <2>2 DEF Closing
<1>21. buf.first <= last /\ last \in Nat
  <2> HIDE DEF last
  <2>1. i <= last
    BY <1>3, <1>4
  <2> QED
    BY <1>1, <1>3, <1>4, <2>1
<1>5. d.first = i /\ d.last = last /\ d \in Places /\ d \in PlaceIn(received)
  BY <1>1, <1>3, <1>4 DEF Place, Places, PlaceIn
<1>6. FirstDocument(d, After(frames \o cut))
  <2>1. d.last - Len(CLOSE_TAG) + 1 = j
    <3>1. d.last = j + Len(CLOSE_TAG) - 1
      BY <1>5
    <3> HIDE DEF d, last
    <3> QED
      BY <1>4, <3>1, TagLengths
  <2>2. Opening(i, Len(stream))
    <3>1. buf.last <= Len(stream)
      BY <1>1
    <3> QED
      BY <1>1, <1>20, <1>3, <3>1, OpeningStays
  <2>3. Closing(j, last)
    BY <1>4 DEF Closing, TagAt
  <2>4. \A h \in After(frames \o cut) .. i - 1 : ~Opening(h, Len(stream))
    <3>1. NothingBefore(frames \o cut, buf.first)
      BY DEF ExtractorInv, NextFrame
    <3> QED
      BY <1>1, <1>3, <3>1 DEF NothingBefore
  <2>5. After(frames \o cut) <= i
    BY <1>1, <1>3
  <2> HIDE DEF d, last
  <2> QED
    BY <1>4, <1>5, <2>1, <2>2, <2>3, <2>4, <2>5 DEF FirstDocument
<1> HIDE DEF d, last
<1>7. /\ stream' = stream /\ received' = received /\ frames' = frames
      /\ push = "scan" /\ push' = "scan"
      /\ cut' = Append(cut, d)
      /\ buf' = Place(last + 1, buf.last)
  <2>1. buf' = [buf EXCEPT !.first = last + 1]
    BY <1>2 DEF last
  <2> QED
    BY <1>1, <1>2, <1>20, <2>1 DEF NextFrame, Place, d, last
<1>8. /\ frames' \o cut' = Append(frames \o cut, d)
      /\ Reading(frames' \o cut')
      /\ After(frames' \o cut') = last + 1
  BY <1>1, <1>5, <1>6, <1>7, ConcatAppend, AppendReads
<1>9. buf'.first = last + 1 /\ buf'.last = buf.last
  BY <1>7 DEF Place
<1>10. ExtractorTypeOK'
  <2>1. cut' \in Seq(PlaceIn(received))
    BY <1>5, <1>7, AppendProperties DEF ExtractorInv, ExtractorTypeOK
  <2>2. After(frames \o cut)' = last + 1
    BY <1>8 DEF After
  <2>3. buf'.first \in After(frames \o cut)' .. buf'.last + 1
    BY <1>1, <1>4, <1>9, <2>2
  <2> QED
    BY <1>7, <1>9, <2>1, <2>3 DEF ExtractorInv, ExtractorTypeOK
<1>11. Reading(frames \o cut)'
  BY <1>7, <1>8, ReadingStays
<1>12. (After(frames) <= buf.first)'
  <2>1. After(frames) <= last + 1
    BY <1>1, <1>21
  <2>2. After(frames)' = After(frames)
    BY <1>7 DEF After
  <2> QED
    BY <1>9, <2>1, <2>2
<1>13. NothingBefore(frames \o cut, buf.first)'
  <2>1. After(frames \o cut)' = last + 1
    BY <1>8 DEF After
  <2>2. \A h \in After(frames \o cut)' .. buf'.first - 1 : FALSE
    BY <1>4, <1>9, <2>1
  <2> QED
    BY <2>2 DEF NothingBefore
<1>14. (Length(buf) <= MAX + SLICE)'
  <2>1. buf.last - (last + 1) + 1 <= MAX + SLICE
    <3>1. buf.last - (last + 1) + 1 <= buf.last - buf.first + 1
      BY <1>1, <1>21
    <3>2. MAX + SLICE \in Nat
      BY TagLengths
    <3> QED
      BY <1>1, <1>21, <3>1, <3>2
  <2> QED
    BY <1>9, <2>1 DEF Length
<1> QED
  BY <1>7, <1>10, <1>11, <1>12, <1>13, <1>14 DEF ExtractorInv

LEMMA NextFrameKeepsInv == ASSUME ExtractorInv, NextFrame PROVE ExtractorInv'
BY DiscardNoiseKeepsInv, WaitOrSkipKeepsInv, CutFrameKeepsInv DEF NextFrame

(* The window as it is, or longer at its end.                              *)
LEMMA GrowKeepsInv ==
    ASSUME ExtractorInv, push \in {"idle", "between"},
           NEW n \in Nat, received <= n, n <= Len(stream),
           NEW last \in Nat, buf.last <= last, last <= n,
           last - buf.first + 1 <= MAX + SLICE,
           received' = n, buf' = Place(buf.first, last),
           UNCHANGED <<stream, cut, frames>>,
           \/ push' = "scan"
           \/ push' = "between" /\ last = buf.last /\ ~TooLong
    PROVE  ExtractorInv'
<1>1. buf'.first = buf.first /\ buf'.last = last
  BY DEF Place
<1>2. /\ buf.first \in Nat /\ buf.last \in Nat /\ received \in Nat
      /\ After(frames \o cut) \in Nat
      /\ buf.first <= buf.last + 1
      /\ After(frames \o cut) <= buf.first
      /\ After(frames) <= buf.first
  BY ExtractorTypes DEF ExtractorInv
<1>3. cut' \in Seq(PlaceIn(n)) /\ frames' \in Seq(PlaceIn(n))
  BY <1>2, PlacesStay DEF ExtractorInv, ExtractorTypeOK
<1>4. /\ After(frames \o cut)' = After(frames \o cut)
      /\ After(frames)' = After(frames)
  BY DEF After
<1>5. buf'.first \in After(frames \o cut)' .. buf'.last + 1
  BY <1>1, <1>2, <1>4
<1>6. n \in 0 .. Len(stream) /\ last \in 0 .. n
  BY ExtractorTypes DEF ExtractorInv
<1>7. ExtractorTypeOK'
  BY <1>1, <1>3, <1>5, <1>6 DEF ExtractorInv, ExtractorTypeOK
<1>8. Reading(frames \o cut)'
  BY ReadingStays DEF ExtractorInv
<1>9. (After(frames) <= buf.first)'
  BY <1>1, <1>2, <1>4
<1>10. NothingBefore(frames \o cut, buf.first)'
  BY <1>1, <1>4 DEF ExtractorInv, NothingBefore, Opening, TagAt
<1>11. (Length(buf) <= MAX + SLICE)'
  BY <1>1 DEF Length
<1>12. ASSUME push' = "between"
       PROVE  NothingLeft(buf.first, buf.last)' /\ ~TooLong'
  BY <1>1, <1>12
  DEF ExtractorInv, NothingLeft, Opening, Closing, TagAt, TooLong, Length
<1> QED
  BY <1>7, <1>8, <1>9, <1>10, <1>11, <1>12 DEF ExtractorInv

LEMMA IngestPieceKeepsInv ==
    ASSUME ExtractorInv, IngestPiece PROVE ExtractorInv'
<1> DEFINE last == IF buf.last + SLICE <= received
                   THEN buf.last + SLICE ELSE received
<1>1. /\ buf.first \in Nat /\ buf.last \in Nat /\ received \in Nat
      /\ received <= Len(stream)
      /\ buf.last < received
      /\ buf.last - buf.first + 1 <= MAX
      /\ buf = Place(buf.first, buf.last)
      /\ push = "between"
  BY ExtractorTypes, TagLengths
  DEF ExtractorInv, ExtractorTypeOK, IngestPiece
<1>2. /\ last \in Nat /\ buf.last <= last /\ last <= received
      /\ last <= buf.last + SLICE
  BY <1>1, TagLengths
<1>3. buf' = Place(buf.first, last)
  BY <1>1 DEF IngestPiece, Place
<1> HIDE DEF last
<1>4. last - buf.first + 1 <= MAX + SLICE
  BY <1>1, <1>2, TagLengths
<1>5. received <= received
  BY <1>1
<1> QED
  BY <1>1, <1>2, <1>3, <1>4, <1>5, GrowKeepsInv DEF IngestPiece

LEMMA ReadChunkKeepsInv ==
    ASSUME ExtractorInv, NEW n \in 1 .. Len(stream), ReadChunk(n)
    PROVE  ExtractorInv'
<1>1. /\ buf.first \in Nat /\ buf.last \in Nat /\ received \in Nat
      /\ Len(stream) \in Nat /\ buf.last <= received
      /\ buf.last - buf.first + 1 <= MAX + SLICE
      /\ buf = Place(buf.first, buf.last)
      /\ push = "idle" /\ ~TooLong
  BY ExtractorTypes, TagLengths DEF ExtractorInv, ExtractorTypeOK, ReadChunk
<1>2. /\ received + n \in Nat /\ received <= received + n
      /\ received + n <= Len(stream)
      /\ buf.last <= buf.last /\ buf.last <= received + n
  BY <1>1 DEF ReadChunk
<1> QED
  BY <1>1, <1>2, GrowKeepsInv DEF ReadChunk

(* The documents of the push are lost; those returned before it are not.   *)
LEMMA OverflowKeepsInv == ASSUME ExtractorInv, Overflow PROVE ExtractorInv'
<1>1. /\ frames \in Seq(Places) /\ cut \in Seq(Places)
      /\ After(frames) \in Nat /\ After(frames) <= buf.first
      /\ buf.first \in Nat /\ buf.last \in Nat
      /\ buf.first <= buf.last + 1
  BY ExtractorTypes DEF ExtractorInv
<1>2. /\ cut' = << >> /\ frames' = frames /\ stream' = stream
      /\ frames' \o cut' = frames
  BY <1>1, ConcatEmptySeq DEF Overflow
<1>3. Reading(frames' \o cut')
  BY <1>1, <1>2, PrefixReads DEF ExtractorInv
<1>4. Reading(frames \o cut)'
  BY <1>2, <1>3, ReadingStays
<1>5. After(frames \o cut)' = After(frames) /\ After(frames)' = After(frames)
  BY <1>2 DEF After
<1>6. buf.first \in After(frames \o cut)' .. buf.last + 1
  BY <1>1, <1>5
<1>7. << >> \in Seq(PlaceIn(received))
  BY EmptySeq
<1>8. ExtractorTypeOK'
  BY <1>2, <1>6, <1>7 DEF Overflow, ExtractorInv, ExtractorTypeOK
<1>9. NothingLeft(buf.first, buf.last)'
  BY DEF Overflow, ExtractorInv, NothingLeft, Opening, Closing, TagAt
<1>10. TooLong' /\ OpenDocument(buf.first, buf.last)'
  BY DEF Overflow, ExtractorInv, TooLong, Length, OpenDocument, Opening,
         Closing, TagAt
<1>11. (Length(buf) <= MAX + SLICE)'
  BY DEF Overflow, ExtractorInv, Length
<1> QED
  BY <1>1, <1>4, <1>5, <1>8, <1>9, <1>10, <1>11 DEF Overflow, ExtractorInv

LEMMA ReturnFramesKeepsInv ==
    ASSUME ExtractorInv, ReturnFrames PROVE ExtractorInv'
<1>1. /\ frames \in Seq(Places) /\ cut \in Seq(Places)
      /\ frames \o cut \in Seq(Places)
      /\ After(frames \o cut) <= buf.first
  BY ExtractorTypes DEF ExtractorInv
<1>2. /\ cut' = << >> /\ frames' = frames \o cut /\ stream' = stream
      /\ frames' \o cut' = frames \o cut
  BY <1>1, ConcatEmptySeq DEF ReturnFrames
<1>3. Reading(frames \o cut)'
  BY <1>2, ReadingStays DEF ExtractorInv
<1>4. /\ After(frames \o cut)' = After(frames \o cut)
      /\ After(frames)' = After(frames \o cut)
  BY <1>2 DEF After
<1>5. << >> \in Seq(PlaceIn(received))
      /\ frames' \in Seq(PlaceIn(received))
  BY <1>2, EmptySeq, ConcatProperties DEF ExtractorInv, ExtractorTypeOK
<1>6. ExtractorTypeOK'
  BY <1>2, <1>4, <1>5 DEF ReturnFrames, ExtractorInv, ExtractorTypeOK
<1>7. NothingBefore(frames \o cut, buf.first)'
  BY <1>2, <1>4
  DEF ReturnFrames, ExtractorInv, NothingBefore, Opening, TagAt
<1>8. NothingLeft(buf.first, buf.last)'
  BY DEF ReturnFrames, ExtractorInv, NothingLeft, Opening, Closing, TagAt
<1>9. ~TooLong'
  BY DEF ReturnFrames, TooLong, Length
<1>10. (Length(buf) <= MAX + SLICE)'
  BY DEF ReturnFrames, ExtractorInv, Length
<1> QED
  BY <1>1, <1>3, <1>4, <1>6, <1>7, <1>8, <1>9, <1>10
  DEF ReturnFrames, ExtractorInv

LEMMA PushStepKeepsInv == ASSUME ExtractorInv, PushStep PROVE ExtractorInv'
BY NextFrameKeepsInv, IngestPieceKeepsInv, OverflowKeepsInv,
   ReturnFramesKeepsInv
DEF PushStep

LEMMA ExtractorStays ==
    ASSUME ExtractorInv, UNCHANGED extractorVars PROVE ExtractorInv'
BY DEF extractorVars, ExtractorInv, ExtractorTypeOK, Reading, FirstDocument,
       After, NothingBefore, NothingLeft, OpenDocument, TooLong, Length,
       Opening, Closing, TagAt

(* What the invariant says of the properties.                              *)
LEMMA ExtractorSafe ==
    ASSUME ExtractorInv
    PROVE  ExtractorTypeOK /\ ChunkingIrrelevant /\ BufferBounded
           /\ OverflowsInDocument
<1>1. /\ received \in Nat /\ received <= Len(stream) /\ Len(stream) \in Nat
      /\ buf.first \in Nat /\ buf.last \in Nat
      /\ frames \in Seq(Places) /\ cut \in Seq(Places)
      /\ After(frames) \in Nat
      /\ TooLong <=> buf.last - buf.first + 1 > MAX
      /\ Length(buf) = buf.last - buf.first + 1
  BY ExtractorTypes DEF ExtractorInv
<1>2. Reading(frames)
  BY <1>1, PrefixReads DEF ExtractorInv
<1>3. ASSUME push = "idle" PROVE NothingLeft(After(frames), received)
  <2>1. cut = << >> /\ buf.last = received /\ frames \o cut = frames
    BY <1>1, <1>3, ConcatEmptySeq DEF ExtractorInv, ExtractorTypeOK
  <2>2. /\ NothingBefore(frames, buf.first)
        /\ NothingLeft(buf.first, received)
    BY <1>3, <2>1 DEF ExtractorInv
  <2> SUFFICES ASSUME NEW i \in After(frames) .. received,
                      Opening(i, received)
               PROVE  \A j \in i .. received : ~Closing(j, received)
    BY DEF NothingLeft
  <2>3. Opening(i, Len(stream))
    BY <1>1, OpeningStays
  <2>4. i \in buf.first .. received
    BY <1>1, <2>2, <2>3 DEF NothingBefore
  <2> QED
    BY <2>2, <2>4 DEF NothingLeft
<1>4. BufferBounded
  BY <1>1, TagLengths DEF ExtractorInv, BufferBounded
<1>5. OverflowsInDocument
  BY DEF ExtractorInv, OpenDocument, OverflowsInDocument
<1> QED
  BY <1>2, <1>3, <1>4, <1>5 DEF ExtractorInv, ChunkingIrrelevant

------------------------------------------------------------------------------
(* The parser.  Its history, as a function of what the reader has read.    *)

Entry == [token : Token, open : Seq(Names)]

OpenIn(history) ==
    IF history = << >> THEN << >> ELSE history[Len(history)].open

Unbroken(history, i) ==
    \E j \in 1 .. i :
        /\ history[j].token.kind = "Start"
        /\ \A k \in j + 1 .. i : ~IsTag(history[k].token)

InField(entry, fields) ==
    /\ IsText(entry.token)
    /\ entry.open # << >>
    /\ LocalName(Innermost(entry.open)) \in fields

(* The texts the parser takes for a field: those that no tag separates     *)
(* from the one that opened their element.                                 *)
Direct(history, fields) ==
    {i \in DOMAIN history :
        InField(history[i], fields) /\ Unbroken(history, i)}

(* The first of them, if there is one, is what the field says.             *)
Said(history, fields) ==
    {history[i].token.value : i \in Earliest(Direct(history, fields))}

CurrentIn(history) ==
    IF Unbroken(history, Len(history))
    THEN LocalName(Innermost(OpenIn(history))) ELSE ""

LEMMA LeastIndex ==
    ASSUME NEW indices, indices \subseteq Nat, indices # {}
    PROVE  Earliest(indices) # {}
<1>1. PICK i \in indices :
        \A j \in indices : <<j, i>> \notin OpToRel(<, Nat)
  BY WFMin, NatLessThanWellFounded
<1>2. \A j \in indices : ~(j < i)
  BY <1>1 DEF OpToRel
<1>3. \A j \in indices : i <= j
  BY <1>2
<1> QED
  BY <1>3 DEF Earliest

LEMMA TokenKinds ==
    ASSUME NEW token \in Token
    PROVE  /\ token.kind \in {"Start", "End", "Text", "CData",
                              "Ignored", "Broken"}
           /\ IsTag(token) => token.name \in Names
           /\ IsText(token) => token.value \in Texts
           /\ ~(IsTag(token) /\ IsText(token))
BY DEF Token, IsTag, IsText, Ignored, Broken

LEMMA LongerHistory ==
    ASSUME NEW history \in Seq(Entry), NEW entry \in Entry
    PROVE  /\ Append(history, entry) \in Seq(Entry)
           /\ Append(history, entry) # << >>
           /\ Len(history) \in Nat
           /\ Len(Append(history, entry)) = Len(history) + 1
           /\ DOMAIN history = 1 .. Len(history)
           /\ DOMAIN Append(history, entry) = 1 .. Len(history) + 1
           /\ \A i \in 1 .. Len(history) :
                 Append(history, entry)[i] = history[i]
           /\ Append(history, entry)[Len(history) + 1] = entry
           /\ OpenIn(Append(history, entry)) = entry.open
<1>1. /\ Append(history, entry) \in Seq(Entry)
      /\ Append(history, entry) # << >>
      /\ Len(Append(history, entry)) = Len(history) + 1
      /\ \A i \in 1 .. Len(history) : Append(history, entry)[i] = history[i]
      /\ Append(history, entry)[Len(history) + 1] = entry
  BY AppendProperties
<1>2. /\ Len(history) \in Nat
      /\ DOMAIN history = 1 .. Len(history)
      /\ DOMAIN Append(history, entry) = 1 .. Len(Append(history, entry))
  BY <1>1, LenProperties
<1> QED
  BY <1>1, <1>2 DEF OpenIn

(* A tag breaks what came before; a start tag begins anew.                 *)
LEMMA UnbrokenAppend ==
    ASSUME NEW history \in Seq(Entry), NEW entry \in Entry
    PROVE  /\ \A i \in 1 .. Len(history) :
                 Unbroken(Append(history, entry), i) <=> Unbroken(history, i)
           /\ Unbroken(Append(history, entry), Len(history) + 1) <=>
                 \/ entry.token.kind = "Start"
                 \/ ~IsTag(entry.token) /\ Unbroken(history, Len(history))
<1> DEFINE longer == Append(history, entry)
           n == Len(history)
<1>1. /\ n \in Nat
      /\ \A i \in 1 .. n : longer[i] = history[i]
      /\ longer[n + 1] = entry
  BY LongerHistory
<1> HIDE DEF longer, n
<1>2. ASSUME NEW i \in 1 .. n
      PROVE  Unbroken(longer, i) <=> Unbroken(history, i)
  <2>1. \A j \in 1 .. i : longer[j] = history[j]
    BY <1>1
  <2>2. \A j \in 1 .. i : j + 1 .. i \subseteq 1 .. i
    OBVIOUS
  <2> QED
    BY <2>1, <2>2 DEF Unbroken
<1>3. CASE entry.token.kind = "Start"
  <2>1. n + 1 \in 1 .. n + 1 /\ (n + 1) + 1 .. n + 1 = {}
    BY <1>1
  <2> QED
    BY <1>1, <1>2, <1>3, <2>1 DEF Unbroken, longer, n
<1>4. CASE entry.token.kind # "Start" /\ IsTag(entry.token)
  <2>1. ~Unbroken(longer, n + 1)
    <3> SUFFICES ASSUME NEW j \in 1 .. n + 1,
                        longer[j].token.kind = "Start",
                        \A k \in j + 1 .. n + 1 : ~IsTag(longer[k].token)
                 PROVE  FALSE
      BY DEF Unbroken
    <3>1. j # n + 1
      BY <1>1, <1>4
    <3>2. n + 1 \in j + 1 .. n + 1
      BY <1>1, <3>1
    <3> QED
      BY <1>1, <1>4, <3>2
  <2> QED
    BY <1>2, <1>4, <2>1 DEF longer, n
<1>5. CASE ~IsTag(entry.token)
  <2>1. entry.token.kind # "Start"
    BY <1>5 DEF IsTag
  <2>2. ASSUME Unbroken(history, n) PROVE Unbroken(longer, n + 1)
    <3>1. PICK j \in 1 .. n :
            /\ history[j].token.kind = "Start"
            /\ \A k \in j + 1 .. n : ~IsTag(history[k].token)
      BY <2>2 DEF Unbroken
    <3>2. j \in 1 .. n + 1 /\ longer[j].token.kind = "Start"
      BY <1>1, <3>1
    <3>3. ASSUME NEW k \in j + 1 .. n + 1 PROVE ~IsTag(longer[k].token)
      <4>1. CASE k = n + 1
        BY <1>1, <1>5, <4>1
      <4>2. CASE k # n + 1
        <5>1. k \in j + 1 .. n /\ k \in 1 .. n
          BY <1>1, <3>1, <4>2
        <5> QED
          BY <1>1, <3>1, <5>1
      <4> QED
        BY <4>1, <4>2
    <3> QED
      BY <3>2, <3>3 DEF Unbroken
  <2>3. ASSUME Unbroken(longer, n + 1) PROVE Unbroken(history, n)
    <3>1. PICK j \in 1 .. n + 1 :
            /\ longer[j].token.kind = "Start"
            /\ \A k \in j + 1 .. n + 1 : ~IsTag(longer[k].token)
      BY <2>3 DEF Unbroken
    <3>2. j # n + 1
      BY <1>1, <2>1, <3>1
    <3>3. j \in 1 .. n /\ history[j].token.kind = "Start"
      BY <1>1, <3>1, <3>2
    <3>4. ASSUME NEW k \in j + 1 .. n PROVE ~IsTag(history[k].token)
      <4>1. k \in j + 1 .. n + 1 /\ k \in 1 .. n
        BY <1>1, <3>3
      <4> QED
        BY <1>1, <3>1, <4>1
    <3> QED
      BY <3>3, <3>4 DEF Unbroken
  <2> QED
    BY <1>2, <1>5, <2>1, <2>2, <2>3 DEF longer, n
<1> QED
  BY <1>3, <1>4, <1>5

LEMMA DirectAppend ==
    ASSUME NEW history \in Seq(Entry), NEW entry \in Entry, NEW fields
    PROVE  Direct(Append(history, entry), fields) =
              IF InField(entry, fields) /\ Unbroken(history, Len(history))
              THEN Direct(history, fields) \cup {Len(history) + 1}
              ELSE Direct(history, fields)
<1> DEFINE longer == Append(history, entry)
           n == Len(history)
<1>1. /\ n \in Nat
      /\ \A i \in 1 .. n : longer[i] = history[i]
      /\ longer[n + 1] = entry
      /\ DOMAIN history = 1 .. n /\ DOMAIN longer = 1 .. n + 1
  BY LongerHistory
<1>2. /\ \A i \in 1 .. n : Unbroken(longer, i) <=> Unbroken(history, i)
      /\ Unbroken(longer, n + 1) <=>
            \/ entry.token.kind = "Start"
            \/ ~IsTag(entry.token) /\ Unbroken(history, n)
  BY UnbrokenAppend
<1>3. InField(entry, fields) =>
          entry.token.kind # "Start" /\ ~IsTag(entry.token)
  BY DEF InField, IsText, IsTag
<1> HIDE DEF longer, n
<1>4. 1 .. n + 1 = 1 .. n \cup {n + 1}
  BY <1>1
<1>5. ASSUME NEW i \in 1 .. n
      PROVE  i \in Direct(longer, fields) <=> i \in Direct(history, fields)
  BY <1>1, <1>2, <1>4 DEF Direct
<1>6. n + 1 \in Direct(longer, fields) <=>
          InField(entry, fields) /\ Unbroken(history, n)
  BY <1>1, <1>2, <1>3, <1>4 DEF Direct
<1>7. /\ Direct(longer, fields) \subseteq 1 .. n \cup {n + 1}
      /\ Direct(history, fields) \subseteq 1 .. n
  BY <1>1, <1>4 DEF Direct
<1>8. n + 1 \notin 1 .. n
  BY <1>1
<1>9. Direct(longer, fields) =
         IF InField(entry, fields) /\ Unbroken(history, n)
         THEN Direct(history, fields) \cup {n + 1} ELSE Direct(history, fields)
  BY <1>5, <1>6, <1>7, <1>8
<1> QED
  BY <1>9 DEF longer, n

(* A field says what it said first.                                        *)
LEMMA SaidAppend ==
    ASSUME NEW history \in Seq(Entry), NEW entry \in Entry, NEW fields
    PROVE  Said(Append(history, entry), fields) =
              IF InField(entry, fields) /\ Unbroken(history, Len(history))
              THEN FirstWins(Said(history, fields), entry.token.value)
              ELSE Said(history, fields)
<1> DEFINE longer == Append(history, entry)
           n == Len(history)
           old == Direct(history, fields)
           new == Direct(longer, fields)
<1>1. /\ n \in Nat
      /\ \A i \in 1 .. n : longer[i] = history[i]
      /\ longer[n + 1] = entry
      /\ DOMAIN history = 1 .. n
  BY LongerHistory
<1>2. old \subseteq 1 .. n
  BY <1>1 DEF Direct
<1>3. new = IF InField(entry, fields) /\ Unbroken(history, n)
            THEN old \cup {n + 1} ELSE old
  BY DirectAppend
<1>4. /\ Said(history, fields) = {history[i].token.value : i \in Earliest(old)}
      /\ Said(longer, fields) = {longer[i].token.value : i \in Earliest(new)}
  BY DEF Said
<1> HIDE DEF longer, n, old, new
<1>5. Earliest(old) \subseteq 1 .. n
  BY <1>2 DEF Earliest
<1>6. ASSUME new = old PROVE Said(longer, fields) = Said(history, fields)
  BY <1>1, <1>4, <1>5, <1>6
<1>7. ASSUME new = old \cup {n + 1}, old = {}
      PROVE  Said(longer, fields) = FirstWins(Said(history, fields),
                                              entry.token.value)
  <2>1. Earliest(old) = {} /\ Earliest(new) = {n + 1}
    BY <1>1, <1>7 DEF Earliest
  <2> QED
    BY <1>1, <1>4, <2>1 DEF FirstWins
<1>8. ASSUME new = old \cup {n + 1}, old # {}
      PROVE  Said(longer, fields) = FirstWins(Said(history, fields),
                                              entry.token.value)
  <2>1. Earliest(old) # {}
    <3>1. old \subseteq Nat
      BY <1>2
    <3> QED
      BY <1>8, <3>1, LeastIndex
  <2>2. Earliest(new) = Earliest(old)
    <3>1. \A i \in old : i <= n + 1 /\ ~(n + 1 <= i)
      BY <1>1, <1>2
    <3>2. n + 1 <= n + 1
      BY <1>1
    <3> QED
      BY <1>8, <3>1, <3>2 DEF Earliest
  <2>3. Said(history, fields) # {}
    <3>1. PICK i \in Earliest(old) : TRUE
      BY <2>1
    <3>2. history[i].token.value \in Said(history, fields)
      BY <1>4, <3>1
    <3> QED
      BY <3>2
  <2>4. Said(longer, fields) = Said(history, fields)
    BY <1>1, <1>4, <1>5, <2>2
  <2> QED
    BY <2>3, <2>4 DEF FirstWins
<1> QED
  BY <1>3, <1>6, <1>7, <1>8 DEF longer, n

(* The parser's fields and the element it is in, by the history: this is   *)
(* what makes the invariant inductive.                                     *)
FieldsSaid ==
    /\ parser.current = CurrentIn(seen)
    /\ Unbroken(seen, Len(seen)) => OpenIn(seen) # << >>
    /\ parser.event_type = Said(seen, TypeField)
    /\ parser.event_state = Said(seen, StateField)
    /\ parser.channel = {SANITIZED[v] : v \in Said(seen, ChannelField)}

ResultSaid ==
    IF parser.event_type = {} THEN result = NoEvent
    ELSE /\ result.kind = "Event"
         /\ {result.event_type} = parser.event_type
         /\ result.state = StateOf(parser.event_state)
         /\ result.channel = parser.channel

ParserInv ==
    /\ ParserTypeOK
    /\ parser.phase # "idle" => FieldsSaid
    /\ parser.phase = "parsed" /\ result # Malformed => ResultSaid

ParserRecord ==
    [phase : {"idle", "reading", "parsed"},
     current : {""} \cup {LocalName(name) : name \in Names},
     event_type : SUBSET Texts, event_state : SUBSET Texts,
     channel : SUBSET Texts]

LEMMA EmptyHistory ==
    /\ << >> \in Seq(Entry)
    /\ ~Unbroken(<< >>, Len(<< >>))
    /\ CurrentIn(<< >>) = ""
    /\ \A fields : Said(<< >>, fields) = {}
<1>1. << >> \in Seq(Entry) /\ Len(<< >>) = 0 /\ DOMAIN << >> = {}
  BY EmptySeq
<1>2. ~Unbroken(<< >>, Len(<< >>))
  BY <1>1 DEF Unbroken
<1> QED
  BY <1>1, <1>2 DEF CurrentIn, Said, Direct, Earliest

LEMMA FreshParser ==
    ASSUME NEW phase \in {"idle", "reading", "parsed"}
    PROVE  /\ Parser(phase) \in ParserRecord
           /\ Parser(phase).phase = phase
           /\ Parser(phase).current = ""
           /\ Parser(phase).event_type = {}
           /\ Parser(phase).event_state = {}
           /\ Parser(phase).channel = {}
<1>1. Parser(phase) \in ParserRecord
  BY DEF Parser, ParserRecord
<1>2. /\ Parser(phase).phase = phase
      /\ Parser(phase).current = ""
  BY DEF Parser
<1>3. /\ Parser(phase).event_type = {}
      /\ Parser(phase).event_state = {}
      /\ Parser(phase).channel = {}
  BY DEF Parser
<1> QED
  BY <1>1, <1>2, <1>3

LEMMA ParserInitInv == ASSUME ParserInit PROVE ParserInv
<1>1. parser \in ParserRecord /\ parser.phase = "idle"
      /\ parser.event_type = {} /\ parser.event_state = {}
      /\ parser.channel = {}
  BY FreshParser DEF ParserInit
<1>2. seen \in Seq(Entry)
  BY EmptyHistory DEF ParserInit
<1>3. ParserTypeOK
  <2>1. result \in Event \cup {NoEvent, Malformed}
    BY DEF ParserInit
  <2>2. \A option \in {parser.event_type, parser.event_state, parser.channel} :
           \A v, w \in option : v = w
    BY <1>1
  <2> QED
    BY <1>1, <1>2, <2>1, <2>2 DEF ParserTypeOK, ParserRecord, Entry
<1> QED
  BY <1>1, <1>3 DEF ParserInv

LEMMA BeginDocumentKeepsInv ==
    ASSUME ParserInv, BeginDocument PROVE ParserInv'
<1>1. /\ parser' \in ParserRecord /\ parser'.phase = "reading"
      /\ parser'.current = "" /\ parser'.event_type = {}
      /\ parser'.event_state = {} /\ parser'.channel = {}
      /\ seen' = << >> /\ result' = result
  BY FreshParser DEF BeginDocument
<1>2. ParserTypeOK'
  BY <1>1, EmptyHistory DEF ParserInv, ParserTypeOK, ParserRecord, Entry
<1>3. FieldsSaid'
  BY <1>1, EmptyHistory DEF FieldsSaid
<1> QED
  BY <1>1, <1>2, <1>3 DEF ParserInv

LEMMA FirstWinsOption ==
    ASSUME NEW option \in SUBSET Texts, \A v, w \in option : v = w,
           NEW value \in Texts
    PROVE  /\ FirstWins(option, value) \in SUBSET Texts
           /\ \A v, w \in FirstWins(option, value) : v = w
BY DEF FirstWins

(* assign: the text goes to the field of the element that is open.         *)
LEMMA AssignProperties ==
    ASSUME NEW p \in ParserRecord, NEW value \in Texts,
           \A option \in {p.event_type, p.event_state, p.channel} :
              \A v, w \in option : v = w
    PROVE  LET q == Assign(p, value)
           IN  /\ q \in ParserRecord
               /\ q.phase = p.phase /\ q.current = p.current
               /\ q.event_type = IF p.current \in TypeField
                                 THEN FirstWins(p.event_type, value)
                                 ELSE p.event_type
               /\ q.event_state = IF p.current \in StateField
                                  THEN FirstWins(p.event_state, value)
                                  ELSE p.event_state
               /\ q.channel = IF p.current \in ChannelField
                              THEN FirstWins(p.channel, SANITIZED[value])
                              ELSE p.channel
               /\ \A option \in {q.event_type, q.event_state, q.channel} :
                     \A v, w \in option : v = w
<1>1. /\ FirstWins(p.event_type, value) \in SUBSET Texts
      /\ \A v, w \in FirstWins(p.event_type, value) : v = w
      /\ FirstWins(p.event_state, value) \in SUBSET Texts
      /\ \A v, w \in FirstWins(p.event_state, value) : v = w
      /\ FirstWins(p.channel, SANITIZED[value]) \in SUBSET Texts
      /\ \A v, w \in FirstWins(p.channel, SANITIZED[value]) : v = w
  <2>1. /\ p.event_type \in SUBSET Texts /\ p.event_state \in SUBSET Texts
        /\ p.channel \in SUBSET Texts
    BY DEF ParserRecord
  <2>2. SANITIZED[value] \in Texts
    BY ParserAssumption
  <2> QED
    BY <2>1, <2>2, FirstWinsOption
<1>2. CASE p.current = "eventType"
  BY <1>1, <1>2
  DEF Assign, ParserRecord, TypeField, StateField, ChannelField
<1>3. CASE p.current = "eventState"
  BY <1>1, <1>3
  DEF Assign, ParserRecord, TypeField, StateField, ChannelField
<1>4. CASE p.current \in {"channelID", "dynChannelID"}
  BY <1>1, <1>4
  DEF Assign, ParserRecord, TypeField, StateField, ChannelField
<1>5. CASE p.current \notin {"eventType", "eventState", "channelID",
                            "dynChannelID"}
  BY <1>5 DEF Assign, ParserRecord, TypeField, StateField, ChannelField
<1> QED
  BY <1>2, <1>3, <1>4, <1>5

(* Reading an event that the reader refuses.                               *)
LEMMA RefusedKeepsInv ==
    ASSUME ParserInv, parser.phase = "reading",
           parser' = [parser EXCEPT !.phase = "parsed"],
           result' = Malformed, seen' = seen
    PROVE  ParserInv'
<1>1. parser \in ParserRecord
  BY DEF ParserInv, ParserTypeOK, ParserRecord
<1>2. /\ parser' \in ParserRecord
      /\ parser'.current = parser.current
      /\ parser'.event_type = parser.event_type
      /\ parser'.event_state = parser.event_state
      /\ parser'.channel = parser.channel
  BY <1>1 DEF ParserRecord
<1>3. ParserTypeOK'
  BY <1>2 DEF ParserInv, ParserTypeOK, ParserRecord
<1>4. FieldsSaid'
  BY <1>2 DEF ParserInv, FieldsSaid
<1> QED
  BY <1>3, <1>4 DEF ParserInv

LEMMA OpenAfterType ==
    ASSUME ParserTypeOK, NEW token \in Token, ~Refused(token)
    PROVE  /\ [token |-> token, open |-> OpenAfter(token)] \in Entry
           /\ token.kind = "Start" =>
                 /\ OpenAfter(token) # << >>
                 /\ Innermost(OpenAfter(token)) = token.name
           /\ ~IsTag(token) => OpenAfter(token) = OpenIn(seen)
<1>1. Opened = OpenIn(seen) /\ Opened \in Seq(Names)
  <2>1. CASE seen = << >>
    BY <2>1, EmptySeq DEF Opened, OpenIn
  <2>2. CASE seen # << >>
    <3>1. seen \in Seq(Entry)
      BY DEF ParserTypeOK, Entry
    <3>2. Len(seen) \in 1 .. Len(seen)
      BY <2>2, <3>1, EmptySeq
    <3>3. seen[Len(seen)] \in Entry
      BY <3>1, <3>2, ElementOfSeq
    <3> QED
      BY <2>2, <3>3 DEF Opened, OpenIn, Entry
  <2> QED
    BY <2>1, <2>2
<1>2. CASE token.kind = "Start"
  <2>1. token.name \in Names /\ IsTag(token)
    BY <1>2, TokenKinds DEF IsTag
  <2>2. OpenAfter(token) = Append(Opened, token.name)
    BY <1>2 DEF OpenAfter
  <2>3. /\ OpenAfter(token) \in Seq(Names) /\ OpenAfter(token) # << >>
        /\ OpenAfter(token)[Len(OpenAfter(token))] = token.name
    BY <1>1, <2>1, <2>2, AppendProperties
  <2> QED
    BY <2>1, <2>3 DEF Entry, Innermost
<1>3. CASE token.kind = "End"
  <2>1. OpenAfter(token) = SubSeq(Opened, 1, Len(Opened) - 1)
    BY <1>3 DEF OpenAfter
  <2>2. Len(Opened) \in Nat /\ Len(Opened) - 1 \in Int
    BY <1>1, LenProperties
  <2>3. \A i \in 1 .. Len(Opened) - 1 : Opened[i] \in Names
    BY <1>1, <2>2, ElementOfSeq
  <2>4. OpenAfter(token) \in Seq(Names)
    BY <2>1, <2>2, <2>3, SubSeqProperties
  <2> QED
    BY <1>3, <2>4 DEF Entry, IsTag
<1>4. CASE token.kind \notin {"Start", "End"}
  <2>1. OpenAfter(token) = Opened
    BY <1>4 DEF OpenAfter
  <2> QED
    BY <1>1, <1>4, <2>1 DEF Entry
<1> QED
  BY <1>2, <1>3, <1>4

(* A text that the parser takes is one it says, for each of the fields.    *)
LEMMA TakenIsSaid ==
    ASSUME ParserInv, parser.phase = "reading", NEW entry \in Entry,
           IsText(entry.token), entry.open = OpenIn(seen),
           NEW fields \in {TypeField, StateField, ChannelField}
    PROVE  Said(Append(seen, entry), fields) =
              IF parser.current \in fields
              THEN FirstWins(Said(seen, fields), entry.token.value)
              ELSE Said(seen, fields)
<1>1. /\ seen \in Seq(Entry)
      /\ parser.current = CurrentIn(seen)
      /\ Unbroken(seen, Len(seen)) => OpenIn(seen) # << >>
  BY DEF ParserInv, ParserTypeOK, Entry, FieldsSaid
<1>2. "" \notin fields
  <2>1. /\ "" \notin TypeField /\ "" \notin StateField
        /\ "" \notin ChannelField
    BY DEF TypeField, StateField, ChannelField
  <2> QED
    BY <2>1
<1>3. parser.current \in fields <=>
         InField(entry, fields) /\ Unbroken(seen, Len(seen))
  BY <1>1, <1>2 DEF CurrentIn, InField
<1> QED
  BY <1>1, <1>3, SaidAppend

LEMMA ReadEventKeepsInv ==
    ASSUME ParserInv, NEW token \in Token, ReadEvent(token)
    PROVE  ParserInv'
<1> DEFINE entry == [token |-> token, open |-> OpenAfter(token)]
           longer == Append(seen, entry)
<1>1. CASE Refused(token)
  BY <1>1, RefusedKeepsInv DEF ReadEvent
<1>2. CASE ~Refused(token)
  <2>1. /\ parser.phase = "reading"
        /\ parser' = Consume(parser, token)
        /\ seen' = longer
        /\ result' = result
    BY <1>2 DEF ReadEvent
  <2>2. /\ parser \in ParserRecord /\ seen \in Seq(Entry)
        /\ result \in Event \cup {NoEvent, Malformed}
        /\ \A option \in {parser.event_type, parser.event_state,
                           parser.channel} : \A v, w \in option : v = w
    BY DEF ParserInv, ParserTypeOK, ParserRecord, Entry
  <2>3. /\ entry \in Entry
        /\ token.kind = "Start" =>
              OpenAfter(token) # << >> /\ Innermost(OpenAfter(token)) = token.name
        /\ ~IsTag(token) => OpenAfter(token) = OpenIn(seen)
    BY <1>2, OpenAfterType DEF ParserInv
  <2>4. entry.token = token /\ entry.open = OpenAfter(token)
    OBVIOUS
  <2> HIDE DEF entry
  <2>5. /\ longer \in Seq(Entry)
        /\ OpenIn(longer) = OpenAfter(token)
        /\ Len(longer) = Len(seen) + 1
        /\ Unbroken(longer, Len(longer)) <=>
              \/ token.kind = "Start"
              \/ ~IsTag(token) /\ Unbroken(seen, Len(seen))
    BY <2>2, <2>3, <2>4, LongerHistory, UnbrokenAppend
  <2>6. /\ parser.current = CurrentIn(seen)
        /\ Unbroken(seen, Len(seen)) => OpenIn(seen) # << >>
        /\ parser.event_type = Said(seen, TypeField)
        /\ parser.event_state = Said(seen, StateField)
        /\ parser.channel = {SANITIZED[v] : v \in Said(seen, ChannelField)}
    BY <2>1 DEF ParserInv, FieldsSaid
  <2>7. /\ token.kind \in {"Start", "End", "Text", "CData", "Ignored", "Broken"}
        /\ IsTag(token) => token.name \in Names
        /\ IsText(token) => token.value \in Texts
    BY TokenKinds
  <2>8. ~IsText(token) => \A fields : Said(longer, fields) = Said(seen, fields)
    BY <2>2, <2>3, <2>4, SaidAppend DEF InField
  <2> HIDE DEF longer
  <2>9. /\ parser' \in ParserRecord /\ parser'.phase = "reading"
        /\ parser'.current = CurrentIn(longer)
        /\ Unbroken(longer, Len(longer)) => OpenIn(longer) # << >>
        /\ parser'.event_type = Said(longer, TypeField)
        /\ parser'.event_state = Said(longer, StateField)
        /\ parser'.channel = {SANITIZED[v] : v \in Said(longer, ChannelField)}
        /\ \A option \in {parser'.event_type, parser'.event_state,
                           parser'.channel} : \A v, w \in option : v = w
    <3>1. CASE token.kind = "Start"
      <4>1. /\ IsTag(token) /\ ~IsText(token)
            /\ parser' = [parser EXCEPT !.current = LocalName(token.name)]
        BY <2>1, <3>1 DEF Consume, IsTag, IsText
      <4>2. CurrentIn(longer) = LocalName(token.name)
        BY <2>3, <2>5, <3>1 DEF CurrentIn
      <4>3. /\ parser' \in ParserRecord /\ parser'.phase = "reading"
            /\ parser'.current = LocalName(token.name)
            /\ parser'.event_type = parser.event_type
            /\ parser'.event_state = parser.event_state
            /\ parser'.channel = parser.channel
        <5>1. LocalName(token.name) \in
                 {""} \cup {LocalName(name) : name \in Names}
          BY <2>7, <4>1
        <5> QED
          BY <2>1, <2>2, <4>1, <5>1 DEF ParserRecord
      <4> QED
        BY <2>2, <2>3, <2>5, <2>6, <2>8, <3>1, <4>1, <4>2, <4>3
    <3>2. CASE token.kind = "End"
      <4>1. /\ IsTag(token) /\ ~IsText(token) /\ token.kind # "Start"
            /\ parser' = [parser EXCEPT !.current = ""]
        BY <2>1, <3>2 DEF Consume, Closed, IsTag, IsText
      <4>2. ~Unbroken(longer, Len(longer)) /\ CurrentIn(longer) = ""
        BY <2>5, <4>1 DEF CurrentIn
      <4>3. /\ parser' \in ParserRecord /\ parser'.phase = "reading"
            /\ parser'.current = ""
            /\ parser'.event_type = parser.event_type
            /\ parser'.event_state = parser.event_state
            /\ parser'.channel = parser.channel
        BY <2>1, <2>2, <4>1 DEF ParserRecord
      <4> QED
        BY <2>2, <2>6, <2>8, <4>1, <4>2, <4>3
    <3>3. CASE IsText(token)
      <4>1. /\ ~IsTag(token) /\ token.kind # "Start" /\ token.value \in Texts
            /\ parser' = Assign(parser, token.value)
        BY <2>1, <2>7, <3>3 DEF Consume, IsTag, IsText
      <4>2. /\ Unbroken(longer, Len(longer)) <=> Unbroken(seen, Len(seen))
            /\ OpenIn(longer) = OpenIn(seen)
            /\ CurrentIn(longer) = CurrentIn(seen)
        BY <2>3, <2>5, <4>1 DEF CurrentIn
      <4>3. \A fields \in {TypeField, StateField, ChannelField} :
               Said(longer, fields) =
                  IF parser.current \in fields
                  THEN FirstWins(Said(seen, fields), token.value)
                  ELSE Said(seen, fields)
        BY <2>1, <2>3, <2>4, <3>3, <4>1, TakenIsSaid DEF longer
      <4>4. /\ parser' \in ParserRecord
            /\ parser'.phase = parser.phase /\ parser'.current = parser.current
            /\ parser'.event_type = IF parser.current \in TypeField
                                    THEN FirstWins(parser.event_type, token.value)
                                    ELSE parser.event_type
            /\ parser'.event_state = IF parser.current \in StateField
                                     THEN FirstWins(parser.event_state, token.value)
                                     ELSE parser.event_state
            /\ parser'.channel = IF parser.current \in ChannelField
                                 THEN FirstWins(parser.channel,
                                                SANITIZED[token.value])
                                 ELSE parser.channel
            /\ \A option \in {parser'.event_type, parser'.event_state,
                               parser'.channel} : \A v, w \in option : v = w
        BY <2>2, <4>1, AssignProperties
      <4>5. parser'.channel = {SANITIZED[v] : v \in Said(longer, ChannelField)}
        <5>1. CASE parser.current \in ChannelField
          <6>1. Said(longer, ChannelField) =
                   FirstWins(Said(seen, ChannelField), token.value)
            BY <4>3, <5>1
          <6>2. parser'.channel = FirstWins(parser.channel,
                                            SANITIZED[token.value])
            BY <4>4, <5>1
          <6>3. CASE Said(seen, ChannelField) = {}
            <7>1. parser.channel = {}
              BY <2>6, <6>3
            <7>2. /\ Said(longer, ChannelField) = {token.value}
                  /\ parser'.channel = {SANITIZED[token.value]}
              BY <6>1, <6>2, <6>3, <7>1 DEF FirstWins
            <7> QED
              BY <7>2
          <6>4. CASE Said(seen, ChannelField) # {}
            <7>1. parser.channel # {}
              BY <2>6, <6>4
            <7>2. /\ Said(longer, ChannelField) = Said(seen, ChannelField)
                  /\ parser'.channel = parser.channel
              BY <6>1, <6>2, <6>4, <7>1 DEF FirstWins
            <7> QED
              BY <2>6, <7>2
          <6> QED
            BY <6>3, <6>4
        <5>2. CASE parser.current \notin ChannelField
          <6>1. Said(longer, ChannelField) = Said(seen, ChannelField)
            BY <4>3, <5>2
          <6> QED
            BY <2>6, <4>4, <5>2, <6>1
        <5> QED
          BY <5>1, <5>2
      <4>6. /\ parser'.event_type = Said(longer, TypeField)
            /\ parser'.event_state = Said(longer, StateField)
        BY <2>6, <4>3, <4>4
      <4> QED
        BY <2>1, <2>6, <4>2, <4>4, <4>5, <4>6
    <3>4. CASE token.kind \in {"Ignored", "Broken"}
      <4>1. /\ ~IsTag(token) /\ ~IsText(token) /\ token.kind # "Start"
            /\ parser' = parser
        BY <2>1, <3>4 DEF Consume, IsTag, IsText
      <4>2. /\ Unbroken(longer, Len(longer)) <=> Unbroken(seen, Len(seen))
            /\ OpenIn(longer) = OpenIn(seen)
            /\ CurrentIn(longer) = CurrentIn(seen)
        BY <2>3, <2>5, <4>1 DEF CurrentIn
      <4> QED
        BY <2>1, <2>2, <2>6, <2>8, <4>1, <4>2
    <3> QED
      BY <2>7, <3>1, <3>2, <3>3, <3>4 DEF IsText
  <2>10. ParserTypeOK'
    BY <2>1, <2>2, <2>5, <2>9 DEF ParserTypeOK, ParserRecord, Entry
  <2>11. FieldsSaid'
    BY <2>1, <2>9 DEF FieldsSaid
  <2> QED
    BY <2>9, <2>10, <2>11 DEF ParserInv
<1> QED
  BY <1>1, <1>2

LEMMA EofKeepsInv == ASSUME ParserInv, Eof PROVE ParserInv'
<1>1. /\ parser.phase = "reading" /\ seen' = seen
      /\ parser' = [parser EXCEPT !.phase = "parsed"]
      /\ parser \in ParserRecord
      /\ \A v, w \in parser.event_type : v = w
  BY DEF Eof, ParserInv, ParserTypeOK, ParserRecord
<1>2. /\ parser' \in ParserRecord
      /\ parser'.current = parser.current
      /\ parser'.event_type = parser.event_type
      /\ parser'.event_state = parser.event_state
      /\ parser'.channel = parser.channel
  BY <1>1 DEF ParserRecord
<1>3. CASE parser.event_type = {}
  <2>1. result' = NoEvent
    BY <1>3 DEF Eof
  <2>2. ParserTypeOK'
    BY <1>1, <1>2, <2>1 DEF ParserInv, ParserTypeOK, ParserRecord
  <2>3. ResultSaid'
    BY <1>2, <1>3, <2>1 DEF ResultSaid
  <2>4. FieldsSaid'
    BY <1>1, <1>2 DEF ParserInv, FieldsSaid
  <2> QED
    BY <2>2, <2>3, <2>4 DEF ParserInv
<1>4. CASE parser.event_type # {}
  <2>1. PICK t \in parser.event_type :
          result' = [kind |-> "Event", event_type |-> t,
                     state |-> StateOf(parser.event_state),
                     channel |-> parser.channel]
    BY <1>4 DEF Eof
  <2>2. StateOf(parser.event_state) \in {"Active", "Inactive", "Missing", "Unknown"}
    BY DEF StateOf
  <2>3. t \in Texts /\ parser.channel \in SUBSET Texts
    BY <1>1 DEF ParserRecord
  <2>4. result' \in Event
    BY <2>1, <2>2, <2>3 DEF Event
  <2>5. ParserTypeOK'
    BY <1>1, <1>2, <2>4 DEF ParserInv, ParserTypeOK, ParserRecord
  <2>6. {t} = parser.event_type
    BY <1>1
  <2>7. /\ result'.kind = "Event" /\ result'.event_type = t
        /\ result'.state = StateOf(parser.event_state)
        /\ result'.channel = parser.channel
    BY <2>1
  <2>8. ResultSaid'
    BY <1>2, <1>4, <2>6, <2>7 DEF ResultSaid, StateOf
  <2>9. FieldsSaid'
    BY <1>1, <1>2 DEF ParserInv, FieldsSaid
  <2> QED
    BY <2>5, <2>8, <2>9 DEF ParserInv
<1> QED
  BY <1>3, <1>4

LEMMA ParserForgets ==
    ASSUME ParserInv, parser' = Parser("idle"), UNCHANGED <<result, seen>>
    PROVE  ParserInv'
<1>1. /\ parser' \in ParserRecord /\ parser'.phase = "idle"
      /\ parser'.event_type = {} /\ parser'.event_state = {}
      /\ parser'.channel = {}
  BY FreshParser
<1>2. ParserTypeOK'
  BY <1>1 DEF ParserInv, ParserTypeOK, ParserRecord
<1> QED
  BY <1>1, <1>2 DEF ParserInv

LEMMA ParserStays ==
    ASSUME ParserInv, UNCHANGED parserVars PROVE ParserInv'
<1>1. UNCHANGED <<parser, result, seen>>
  BY DEF parserVars
<1>2. ParserTypeOK' /\ (FieldsSaid => FieldsSaid') /\ (ResultSaid => ResultSaid')
  BY <1>1 DEF ParserInv, ParserTypeOK, FieldsSaid, ResultSaid, StateOf
<1> QED
  BY <1>1, <1>2 DEF ParserInv

(* Where a field is in order, what the parser takes for it is what the     *)
(* document says at the top level.                                         *)
LEMMA OrdinaryIsTopLevel ==
    ASSUME seen \in Seq(Entry), NEW fields, Ordinary(fields)
    PROVE  TopLevel(fields) = Said(seen, fields)
<1> DEFINE all == TextsIn(fields)
           top == TopLevelTexts(fields)
           direct == Direct(seen, fields)
<1>1. /\ top \subseteq all /\ direct \subseteq all /\ all \subseteq Nat
      /\ \A i \in all : Uninterrupted(i) => i \in direct
  <2>1. DOMAIN seen \subseteq Nat
    BY LenProperties
  <2> QED
    BY <2>1
    DEF TextsIn, TopLevelTexts, Direct, InField, Unbroken, Uninterrupted
<1>2. /\ TopLevel(fields) = {seen[i].token.value : i \in Earliest(top)}
      /\ Said(seen, fields) = {seen[i].token.value : i \in Earliest(direct)}
  BY DEF TopLevel, Said
<1>3. \A i \in Earliest(all) : i \in top /\ Uninterrupted(i)
  BY DEF Ordinary
<1> HIDE DEF all, top, direct
<1>4. CASE all = {}
  <2>1. Earliest(top) = {} /\ Earliest(direct) = {}
    BY <1>1, <1>4 DEF Earliest
  <2> QED
    BY <1>2, <2>1
<1>5. CASE all # {}
  <2>1. PICK m \in Earliest(all) : TRUE
    BY <1>1, <1>5, LeastIndex
  <2>2. m \in Nat /\ m \in top /\ m \in direct /\ \A j \in all : m <= j
    BY <1>1, <1>3, <2>1 DEF Earliest
  <2>3. \A i \in Nat : i <= m /\ m <= i => i = m
    BY <2>2
  <2>4. Earliest(top) = {m} /\ Earliest(direct) = {m}
    BY <1>1, <2>2, <2>3 DEF Earliest
  <2> QED
    BY <1>2, <2>4
<1> QED
  BY <1>4, <1>5

LEMMA ParserSafe ==
    ASSUME ParserInv PROVE FieldsReadTopLevel /\ NoFireSilenced
<1> SUFFICES ASSUME Readable PROVE FieldsReadTopLevel /\ NoFireSilenced
  BY DEF FieldsReadTopLevel, NoFireSilenced
<1>1. /\ seen \in Seq(Entry) /\ FieldsSaid /\ ResultSaid
  BY DEF Readable, ParserInv, ParserTypeOK, Entry
<1>2. FieldsReadTopLevel
  <2> SUFFICES ASSUME \A f \in {TypeField, StateField, ChannelField} :
                         Ordinary(f)
               PROVE  IF TopLevel(TypeField) = {} THEN result = NoEvent
                      ELSE /\ result.kind = "Event"
                           /\ {result.event_type} = TopLevel(TypeField)
                           /\ result.state = StateOf(TopLevel(StateField))
                           /\ result.channel =
                                 {SANITIZED[c] : c \in TopLevel(ChannelField)}
    BY DEF FieldsReadTopLevel
  <2>1. /\ TopLevel(TypeField) = parser.event_type
        /\ TopLevel(StateField) = parser.event_state
        /\ TopLevel(ChannelField) = Said(seen, ChannelField)
    BY <1>1, OrdinaryIsTopLevel DEF FieldsSaid
  <2> QED
    BY <1>1, <2>1 DEF FieldsSaid, ResultSaid
<1>3. NoFireSilenced
  <2> SUFFICES ASSUME NEW i \in TopLevelTexts(TypeField), Uninterrupted(i)
               PROVE  /\ result.kind = "Event"
                      /\ (\A k \in TextsIn(StateField) :
                             seen[k].token.value \in ActiveTexts)
                            => result.state \in {"Active", "Missing"}
    BY DEF NoFireSilenced
  <2>1. Direct(seen, TypeField) # {} /\ Direct(seen, TypeField) \subseteq Nat
    <3>1. DOMAIN seen \subseteq Nat
      BY <1>1, LenProperties
    <3>2. i \in Direct(seen, TypeField)
      BY DEF TopLevelTexts, TextsIn, Direct, InField, Unbroken, Uninterrupted
    <3> QED
      BY <3>1, <3>2 DEF Direct
  <2>2. PICK k \in Earliest(Direct(seen, TypeField)) : TRUE
    BY <2>1, LeastIndex
  <2>3. parser.event_type # {}
    <3>1. seen[k].token.value \in Said(seen, TypeField)
      BY <2>2 DEF Said
    <3> QED
      BY <1>1, <3>1 DEF FieldsSaid
  <2>4. result.kind = "Event" /\ result.state = StateOf(parser.event_state)
    BY <1>1, <2>3 DEF ResultSaid
  <2>5. ASSUME \A j \in TextsIn(StateField) : seen[j].token.value \in ActiveTexts
        PROVE  StateOf(parser.event_state) \in {"Active", "Missing"}
    <3>1. Direct(seen, StateField) \subseteq TextsIn(StateField)
      BY DEF Direct, TextsIn, InField
    <3>2. parser.event_state \subseteq ActiveTexts
      BY <1>1, <2>5, <3>1 DEF FieldsSaid, Said, Earliest
    <3>3. parser.event_state \cap InactiveTexts = {}
      BY <3>2, ParserAssumption
    <3>4. CASE parser.event_state = {}
      BY <3>4 DEF StateOf
    <3>5. CASE parser.event_state # {}
      <4>1. parser.event_state \cap ActiveTexts # {}
        BY <3>2, <3>5
      <4> QED
        BY <3>3, <3>5, <4>1 DEF StateOf
    <3> QED
      BY <3>4, <3>5
  <2> QED
    BY <2>4, <2>5
<1> QED
  BY <1>2, <1>3

------------------------------------------------------------------------------
(* The session.                                                            *)

InputInv == InputTypeOK /\ ExtractorInv /\ ParserInv

(* The frame in hand is a document of the stream, and not an empty one.    *)
LEMMA FrameInHand ==
    ASSUME ExtractorInv, handled \in 0 .. Len(frames), handled < Len(frames)
    PROVE  /\ ParsedFrame \in Places
           /\ ParsedFrame.first <= ParsedFrame.last
<1>1. /\ frames \in Seq(Places) /\ cut \in Seq(Places)
      /\ Len(frames) \in Nat
  BY ExtractorTypes, LenProperties DEF ExtractorInv
<1>2. handled + 1 \in 1 .. Len(frames)
  BY <1>1
<1>3. ParsedFrame \in Places
  BY <1>1, <1>2, ElementOfSeq DEF ParsedFrame
<1>4. Reading(frames)
  BY <1>1, PrefixReads DEF ExtractorInv
<1>5. FirstDocument(ParsedFrame, Begins(frames, handled + 1))
  BY <1>1, <1>2, <1>4, ReadingByDocument DEF ParsedFrame
<1>6. /\ ParsedFrame.first \in Nat /\ ParsedFrame.last \in Nat
      /\ ParsedFrame.first <= ParsedFrame.last - Len(CLOSE_TAG) + 1
  BY <1>3, <1>5 DEF FirstDocument, Places
<1> QED
  BY <1>3, <1>6, TagLengths

LEMMA InputInitInv == ASSUME InputInit PROVE InputInv
<1>1. ExtractorInv /\ ParserInv
  BY ExtractorInitInv, ParserInitInv DEF InputInit
<1>2. handled = 0 /\ at = 1 /\ frames = << >> /\ push = "idle"
      /\ parser.phase = "idle" /\ Len(<< >>) = 0
  BY FreshParser, EmptySeq DEF InputInit, ExtractorInit, ParserInit
<1> QED
  BY <1>1, <1>2 DEF InputInv, InputTypeOK, ExtractorInv, ParserInv

LEMMA PushKeepsInv ==
    ASSUME InputInv, PushStep, UNCHANGED <<parserVars, handled, at>>
    PROVE  InputInv'
<1>1. ExtractorInv' /\ ParserInv'
  BY PushStepKeepsInv, ParserStays DEF InputInv
<1>2. push # "idle"
  BY DEF PushStep, NextFrame, IngestPiece, Overflow, ReturnFrames
<1>3. /\ handled = Len(frames) /\ handled \in Nat
      /\ parser.phase = "idle" /\ parser' = parser /\ at \in Nat
  BY <1>2, LenProperties DEF InputInv, InputTypeOK, parserVars, ExtractorTypeOK
<1>4. CASE frames' = frames
  BY <1>1, <1>3, <1>4 DEF InputInv, InputTypeOK, ExtractorInv, ParserInv
<1>5. CASE ReturnFrames
  <2>1. /\ push' = "idle" /\ frames' = frames \o cut
        /\ Len(frames \o cut) = Len(frames) + Len(cut)
        /\ Len(cut) \in Nat
    BY <1>5, ExtractorTypes, ConcatProperties, LenProperties
    DEF ReturnFrames, InputInv, ExtractorInv
  <2>2. handled \in 0 .. Len(frames')
    BY <1>3, <2>1
  <2> QED
    BY <1>1, <1>3, <2>1, <2>2 DEF InputInv, InputTypeOK, ExtractorInv, ParserInv
<1> QED
  BY <1>4, <1>5 DEF PushStep, NextFrame, IngestPiece, Overflow

LEMMA ChunkKeepsInv ==
    ASSUME InputInv, handled = Len(frames),
           NEW n \in 1 .. Len(stream), ReadChunk(n),
           UNCHANGED <<parserVars, handled, at>>
    PROVE  InputInv'
<1>1. ExtractorInv' /\ ParserInv'
  BY ReadChunkKeepsInv, ParserStays DEF InputInv
<1>2. /\ frames' = frames /\ parser' = parser /\ handled \in Nat
      /\ parser.phase = "idle"
  BY LenProperties
  DEF ReadChunk, parserVars, InputInv, InputTypeOK, ExtractorTypeOK
<1> QED
  BY <1>1, <1>2 DEF InputInv, InputTypeOK, ExtractorInv, ParserInv

LEMMA ParseFrameKeepsInv == ASSUME InputInv, ParseFrame PROVE InputInv'
<1>1. /\ ExtractorInv' /\ ParserInv'
      /\ UNCHANGED <<push, frames, handled>>
      /\ push = "idle" /\ handled < Len(frames)
  BY ExtractorStays, BeginDocumentKeepsInv
  DEF ParseFrame, Handling, InputInv, extractorVars
<1>2. /\ ParsedFrame \in Places /\ ParsedFrame.first <= ParsedFrame.last
      /\ handled \in 0 .. Len(frames)
  BY <1>1, FrameInHand DEF InputInv, InputTypeOK
<1>3. at' = ParsedFrame.first /\ ParsedFrame' = ParsedFrame
  BY <1>1 DEF ParseFrame, ParsedFrame
<1>4. at' \in Nat /\ at' \in ParsedFrame.first .. ParsedFrame.last + 1
  BY <1>2, <1>3 DEF Places
<1> QED
  BY <1>1, <1>2, <1>3, <1>4 DEF InputInv, InputTypeOK, ExtractorInv, ParserInv

(* The reader takes an event of the document, and stays inside of it.      *)
LEMMA ReadNextStep ==
    ASSUME ReadNext, at \in Nat, ParsedFrame \in Places
    PROVE  \E token \in Token, length \in Nat :
              /\ ReadEvent(token)
              /\ at' = at + length
              /\ at + length <= ParsedFrame.last + 1
              /\ UNCHANGED handled
<1>1. at <= ParsedFrame.last /\ ParsedFrame.last \in Nat
  BY DEF ReadNext, Places
<1>2. /\ Start(Root) \in Token /\ End(Root) \in Token
      /\ Ignored \in Token /\ Broken \in Token
      /\ stream[at] \in Tokens => stream[at] \in Token
  BY InputAssumption DEF Start, End, Token
<1>3. CASE AtEnd
  <2>1. ReadToken(End(Root), Len(CLOSE_TAG))
    BY <1>3 DEF ReadNext
  <2>2. at = ParsedFrame.last - Len(CLOSE_TAG) + 1
    BY <1>3 DEF AtEnd
  <2>3. at + Len(CLOSE_TAG) <= ParsedFrame.last + 1
    BY <1>1, <2>2, TagLengths
  <2>4. Len(CLOSE_TAG) \in Nat
    BY TagLengths
  <2> QED
    BY <1>2, <2>1, <2>3, <2>4 DEF ReadToken
<1>4. CASE ~AtEnd /\ AtRoot
  <2>1. ReadToken(Start(Root), Len(OPEN_TAG) + 1)
    BY <1>4 DEF ReadNext
  <2>2. at + Len(OPEN_TAG) <= ParsedFrame.last
    BY <1>4 DEF AtRoot
  <2>3. Len(OPEN_TAG) + 1 \in Nat
        /\ at + (Len(OPEN_TAG) + 1) <= ParsedFrame.last + 1
    BY <1>1, <2>2, TagLengths
  <2> QED
    BY <1>2, <2>1, <2>3 DEF ReadToken
<1>5. CASE ~AtEnd /\ ~AtRoot /\ AtEmptyRoot
  <2>1. ReadToken(Ignored, Len(EmptyRoot))
    BY <1>5 DEF ReadNext
  <2>2. Len(EmptyRoot) \in Nat
    BY InputAssumption, ExtractorAssumption, ConcatProperties, LenProperties
    DEF EmptyRoot
  <2>3. at + Len(EmptyRoot) - 1 <= ParsedFrame.last
    BY <1>5 DEF AtEmptyRoot, TagAt
  <2> QED
    BY <1>1, <1>2, <2>1, <2>2, <2>3 DEF ReadToken
<1>6. CASE ~AtEnd /\ ~AtRoot /\ ~AtEmptyRoot
  <2>1. \/ stream[at] \in Tokens /\ ReadToken(stream[at], 1)
        \/ ReadToken(Ignored, 1)
        \/ ReadToken(Broken, 1)
    BY <1>6 DEF ReadNext
  <2>2. 1 \in Nat /\ at + 1 <= ParsedFrame.last + 1
    BY <1>1
  <2> QED
    BY <1>2, <2>1, <2>2 DEF ReadToken
<1> QED
  BY <1>3, <1>4, <1>5, <1>6

LEMMA ReadFrameKeepsInv == ASSUME InputInv, ReadFrame PROVE InputInv'
<1>1. /\ ExtractorInv' /\ UNCHANGED <<push, frames>>
      /\ push = "idle" /\ handled < Len(frames)
      /\ handled \in 0 .. Len(frames) /\ at \in Nat
      /\ at \in ParsedFrame.first .. ParsedFrame.last + 1
  BY ExtractorStays
  DEF ReadFrame, Handling, InputInv, InputTypeOK, extractorVars
<1>2. ParsedFrame \in Places
  BY <1>1, FrameInHand DEF InputInv
<1>3. PICK token \in Token, length \in Nat :
        /\ ReadEvent(token)
        /\ at' = at + length
        /\ at + length <= ParsedFrame.last + 1
        /\ handled' = handled
  BY <1>1, <1>2, ReadNextStep DEF ReadFrame
<1>4. ParserInv'
  BY <1>3, ReadEventKeepsInv DEF InputInv
<1>5. ParsedFrame' = ParsedFrame
  BY <1>1, <1>3 DEF ParsedFrame
<1>6. at' \in Nat /\ at' \in ParsedFrame.first .. ParsedFrame.last + 1
  BY <1>1, <1>2, <1>3 DEF Places
<1> QED
  BY <1>1, <1>3, <1>4, <1>5, <1>6
  DEF InputInv, InputTypeOK, ExtractorInv, ParserInv

LEMMA HandledKeepsInv ==
    ASSUME InputInv, EndOfDocument \/ HandleFrame PROVE InputInv'
<1>1. /\ ExtractorInv' /\ UNCHANGED <<push, frames, at>>
      /\ push = "idle" /\ handled < Len(frames)
      /\ handled \in 0 .. Len(frames) /\ at \in Nat
      /\ Len(frames) \in Nat
  BY ExtractorStays, LenProperties
  DEF EndOfDocument, HandleFrame, Handling, InputInv, InputTypeOK,
      extractorVars, ExtractorTypeOK
<1>2. CASE EndOfDocument
  <2>1. ParserInv' /\ handled' = handled /\ parser'.phase = "parsed"
    BY <1>2, EofKeepsInv
    DEF EndOfDocument, Eof, InputInv, ParserInv, ParserTypeOK
  <2> QED
    BY <1>1, <2>1 DEF InputInv, InputTypeOK, ExtractorInv, ParserInv
<1>3. CASE HandleFrame
  <2>1. ParserInv' /\ handled' = handled + 1 /\ parser'.phase = "idle"
    BY <1>3, ParserForgets, FreshParser DEF HandleFrame, InputInv
  <2>2. handled' \in 0 .. Len(frames)
    BY <1>1, <2>1
  <2> QED
    BY <1>1, <2>1, <2>2 DEF InputInv, InputTypeOK, ExtractorInv, ParserInv
<1> QED
  BY <1>2, <1>3

(* The invariant of the two machines and of the session that drives them.  *)
THEOREM InputInvariant == InputSpec => []InputInv
<1>1. InputInit => InputInv
  BY InputInitInv
<1>2. InputInv /\ [InputNext]_inputVars => InputInv'
  <2> SUFFICES ASSUME InputInv, [InputNext]_inputVars PROVE InputInv'
    OBVIOUS
  <2>1. CASE PushStep /\ UNCHANGED <<parserVars, handled, at>>
    BY <2>1, PushKeepsInv
  <2>2. ASSUME handled = Len(frames),
               NEW n \in 1 .. Len(stream), ReadChunk(n),
               UNCHANGED <<parserVars, handled, at>>
        PROVE  InputInv'
    BY <2>2, ChunkKeepsInv
  <2>3. CASE ParseFrame
    BY <2>3, ParseFrameKeepsInv
  <2>4. CASE ReadFrame
    BY <2>4, ReadFrameKeepsInv
  <2>5. CASE EndOfDocument \/ HandleFrame
    BY <2>5, HandledKeepsInv
  <2>6. CASE UNCHANGED inputVars
    <3>1. ExtractorInv' /\ ParserInv'
      BY <2>6, ExtractorStays, ParserStays DEF InputInv, inputVars
    <3>2. UNCHANGED <<push, frames, parser, handled, at>>
      BY <2>6 DEF inputVars, extractorVars, parserVars
    <3> QED
      BY <3>1, <3>2
      DEF InputInv, InputTypeOK, ExtractorInv, ParserInv, ParsedFrame
  <2> QED
    BY <2>1, <2>2, <2>3, <2>4, <2>5, <2>6 DEF InputNext
<1> QED
  BY <1>1, <1>2, PTL DEF InputSpec

(* Every document that push returns is handled before the next chunk is    *)
(* read, and the reader stays inside of it (camera.rs, session).           *)
THEOREM InputTypes == InputSpec => []InputTypeOK
<1>1. InputInv => InputTypeOK
  BY DEF InputInv
<1> QED
  BY <1>1, InputInvariant, PTL

(* For every stream and every split of it, every pair of tags, slice and   *)
(* limit: the session gets the documents of the bytes received, and no     *)
(* other, in order and once each (framing.rs, push).                       *)
THEOREM EverySplitReadsTheSame == InputSpec => []ChunkingIrrelevant
<1>1. InputInv => ChunkingIrrelevant
  BY ExtractorSafe DEF InputInv
<1> QED
  BY <1>1, InputInvariant, PTL

(* The buffer passes its limit by one slice at most (framing.rs, push).    *)
THEOREM MemoryIsBounded == InputSpec => []BufferBounded
<1>1. InputInv => BufferBounded
  BY ExtractorSafe DEF InputInv
<1> QED
  BY <1>1, InputInvariant, PTL

(* Noise never overflows the buffer (framing.rs, next_frame).              *)
THEOREM NoiseNeverOverflows == InputSpec => []OverflowsInDocument
<1>1. InputInv => OverflowsInDocument
  BY ExtractorSafe DEF InputInv
<1> QED
  BY <1>1, InputInvariant, PTL

(* For every document: an event has the fields the document has at the top *)
(* level, if no nested repetition comes first (event.rs, parse_event).     *)
THEOREM FieldsAreTopLevel == InputSpec => []FieldsReadTopLevel
<1>1. InputInv => FieldsReadTopLevel
  BY ParserSafe DEF InputInv
<1> QED
  BY <1>1, InputInvariant, PTL

(* For every document: one with a type is an event, and active unless some *)
(* state in it says otherwise (event.rs, parse_event).                     *)
THEOREM NoDocumentSilencesAFire == InputSpec => []NoFireSilenced
<1>1. InputInv => NoFireSilenced
  BY ParserSafe DEF InputInv
<1> QED
  BY <1>1, InputInvariant, PTL
==============================================================================
