------------------------- MODULE CameraSessionsProofs -------------------------
(***************************************************************************)
(* Why no event of a session reaches the tracker before the Reset of the   *)
(* session before it, for every capacity of the event channel.             *)
(***************************************************************************)
EXTENDS CameraSessions, CameraSupervisorProofs

(* The items in the order they are received, counted from the one taken    *)
(* last, number 0.                                                         *)
At(last, items, from, i) ==
    IF i = 0 THEN last ELSE Tagged(items[i], from[i])

Follows(this, next) ==
    next.session = this.session <=> this.item # StreamReset

Chain(last, items, from) ==
    \A i \in 0 .. Len(items) - 1 :
        Follows(At(last, items, from, i), At(last, items, from, i + 1))

Newest(last, items, from) == At(last, items, from, Len(items))

Items == Events \cup {StreamReset}
Parity == {0, 1}

(* The strengthening: what the task sends next continues the chain.  In a  *)
(* session the newest item is an event of it or the Reset of the one       *)
(* before; between sessions it is the Reset of the latest.                 *)
ReadyToSend ==
    LET newest == Newest(taken, events, origins)
    IN  IF camera.phase \in {"top", "sleep"}
        THEN newest.item = StreamReset /\ newest.session = session
        ELSE Follows(newest, Tagged(StreamReset, session))

SessionsInv ==
    /\ session \in Parity
    /\ taken \in [item : Items, session : Parity]
    /\ origins \in Seq(Parity)
    /\ Len(origins) = Len(events)
    /\ Chain(taken, events, origins)
    /\ "processor" \notin running => events = << >>
    /\ {"processor", "supervisor"} \subseteq running => ReadyToSend

------------------------------------------------------------------------------
(* Chains.                                                                 *)

LEMMA ChainAppend ==
    ASSUME NEW last, NEW items \in Seq(Items), NEW from \in Seq(Parity),
           Len(from) = Len(items), Chain(last, items, from),
           NEW item \in Items, NEW s \in Parity,
           Follows(Newest(last, items, from), Tagged(item, s))
    PROVE  /\ Chain(last, Append(items, item), Append(from, s))
           /\ Newest(last, Append(items, item), Append(from, s))
                = Tagged(item, s)
<1> DEFINE items2 == Append(items, item)
           from2 == Append(from, s)
<1>1. /\ Len(items) \in Nat
      /\ Len(items2) = Len(items) + 1
      /\ \A i \in 1 .. Len(items) : items2[i] = items[i] /\ from2[i] = from[i]
      /\ items2[Len(items) + 1] = item
      /\ from2[Len(items) + 1] = s
  BY AppendProperties, LenProperties
<1>2. \A i \in 0 .. Len(items) :
         At(last, items2, from2, i) = At(last, items, from, i)
  BY <1>1 DEF At
<1>3. At(last, items2, from2, Len(items) + 1) = Tagged(item, s)
  BY <1>1 DEF At
<1> HIDE DEF items2, from2
<1>4. ASSUME NEW i \in 0 .. Len(items2) - 1
      PROVE  Follows(At(last, items2, from2, i), At(last, items2, from2, i + 1))
  <2>1. CASE i = Len(items)
    BY <1>1, <1>2, <1>3, <2>1 DEF Newest
  <2>2. CASE i # Len(items)
    <3>1. i \in 0 .. Len(items) - 1 /\ i \in 0 .. Len(items)
          /\ i + 1 \in 0 .. Len(items)
      BY <1>1, <2>2
    <3> QED
      BY <1>2, <3>1 DEF Chain
  <2> QED
    BY <2>1, <2>2
<1> QED
  BY <1>1, <1>3, <1>4 DEF Chain, Newest, items2, from2

LEMMA ChainTaken ==
    ASSUME NEW last, NEW items \in Seq(Items), NEW from \in Seq(Parity),
           Len(from) = Len(items), Chain(last, items, from), items # << >>
    PROVE  LET taken2 == Tagged(Head(items), Head(from))
           IN  /\ Chain(taken2, Tail(items), Tail(from))
               /\ Newest(taken2, Tail(items), Tail(from))
                    = Newest(last, items, from)
               /\ taken2 \in [item : Items, session : Parity]
               /\ Tail(from) \in Seq(Parity)
               /\ Len(Tail(from)) = Len(Tail(items))
<1> DEFINE taken2 == Tagged(Head(items), Head(from))
           items2 == Tail(items)
           from2 == Tail(from)
<1>1. /\ Len(items) \in Nat \ {0}
      /\ from # << >>
  BY LenProperties, EmptySeq
<1>2. /\ Head(items) = items[1] /\ Head(from) = from[1]
      /\ Head(items) \in Items /\ Head(from) \in Parity
      /\ from2 \in Seq(Parity)
      /\ Len(items2) = Len(items) - 1
      /\ Len(from2) = Len(from) - 1
      /\ \A i \in 1 .. Len(items) - 1 :
            items2[i] = items[i + 1] /\ from2[i] = from[i + 1]
  BY <1>1, HeadTailProperties
<1>3. \A i \in 0 .. Len(items) - 1 :
         At(taken2, items2, from2, i) = At(last, items, from, i + 1)
  BY <1>1, <1>2 DEF At
<1>4. taken2 \in [item : Items, session : Parity]
  BY <1>2 DEF Tagged
<1> HIDE DEF taken2, items2, from2
<1>5. ASSUME NEW i \in 0 .. Len(items2) - 1
      PROVE  Follows(At(taken2, items2, from2, i),
                     At(taken2, items2, from2, i + 1))
  <2>1. /\ i \in 0 .. Len(items) - 1 /\ i + 1 \in 0 .. Len(items) - 1
    BY <1>1, <1>2
  <2> QED
    BY <1>3, <2>1 DEF Chain
<1>6. Newest(taken2, items2, from2) = Newest(last, items, from)
  <2>1. Len(items2) \in 0 .. Len(items) - 1 /\ Len(items2) + 1 = Len(items)
    BY <1>1, <1>2
  <2> QED
    BY <1>3, <2>1 DEF Newest
<1> QED
  BY <1>2, <1>4, <1>5, <1>6 DEF Chain, taken2, items2, from2

(* The chain is what ResetBetweenSessions says of InOrder.                 *)
LEMMA ChainInOrder ==
    ASSUME EventsOK, Chain(taken, events, origins)
    PROVE  ResetBetweenSessions
<1> DEFINE rest == [i \in DOMAIN events |-> Tagged(events[i], origins[i])]
           Things == {taken} \cup {rest[i] : i \in DOMAIN events}
<1>1. Len(events) \in Nat /\ DOMAIN events = 1 .. Len(events)
  BY LenProperties DEF EventsOK
<1>2. rest \in Seq(Things) /\ Len(rest) = Len(events)
  <2>1. rest \in [1 .. Len(events) -> Things]
    BY <1>1
  <2> QED
    BY <1>1, <2>1, SeqDef, LenProperties
<1>3. <<taken>> \in Seq(Things) /\ Len(<<taken>>) = 1 /\ <<taken>>[1] = taken
  <2>1. taken \in Things
    OBVIOUS
  <2> HIDE DEF Things
  <2>2. Len(<<taken>>) = 1
    OBVIOUS
  <2>3. <<taken>>[1] = taken
    OBVIOUS
  <2>4. <<taken>> \in [1 .. 1 -> Things]
    BY <2>1
  <2>5. <<taken>> \in Seq(Things)
    <3>1. 1 \in Nat
      OBVIOUS
    <3> HIDE DEF Things
    <3> QED
      BY <2>4, <3>1, SeqDef, Zenon
  <2> QED
    BY <2>2, <2>3, <2>5
<1>4. /\ Len(InOrder) = Len(events) + 1
      /\ \A i \in 1 .. Len(events) + 1 :
            InOrder[i] = IF i <= 1 THEN <<taken>>[i] ELSE rest[i - 1]
  BY <1>1, <1>2, <1>3, ConcatProperties DEF InOrder
<1>5. \A i \in 1 .. Len(events) + 1 :
         InOrder[i] = At(taken, events, origins, i - 1)
  <2>1. \A i \in 1 .. Len(events) : rest[i] = Tagged(events[i], origins[i])
    BY <1>1
  <2> HIDE DEF rest, Things
  <2> SUFFICES ASSUME NEW i \in 1 .. Len(events) + 1
               PROVE  InOrder[i] = At(taken, events, origins, i - 1)
    OBVIOUS
  <2>2. CASE i = 1
    BY <1>1, <1>3, <1>4, <2>2 DEF At
  <2>3. CASE i # 1
    <3>1. i - 1 \in 1 .. Len(events) /\ ~(i <= 1) /\ i - 1 # 0
      BY <1>1, <2>3
    <3> QED
      BY <1>4, <2>1, <3>1 DEF At
  <2> QED
    BY <2>2, <2>3
<1>6. ASSUME NEW i \in 1 .. Len(InOrder) - 1
      PROVE  Follows(InOrder[i], InOrder[i + 1])
  <2>1. /\ i \in 1 .. Len(events) + 1 /\ i + 1 \in 1 .. Len(events) + 1
        /\ i - 1 \in 0 .. Len(events) - 1
        /\ (i - 1) + 1 = (i + 1) - 1
    BY <1>1, <1>4
  <2>2. Follows(At(taken, events, origins, i - 1),
                At(taken, events, origins, (i - 1) + 1))
    BY <2>1 DEF Chain
  <2> QED
    BY <1>5, <2>1, <2>2
<1> QED
  BY <1>6 DEF ResetBetweenSessions, Follows

------------------------------------------------------------------------------
(* The invariant.                                                          *)

LEMMA SessionsInvInit == SessionsInit => SessionsInv
<1> SUFFICES ASSUME SessionsInit PROVE SessionsInv
  OBVIOUS
<1>1. /\ events = << >> /\ origins = << >> /\ session = 0
      /\ taken = Tagged(StreamReset, 0)
      /\ camera.phase = "top"
  BY DEF SessionsInit, SupervisorInit, BridgeInit, CameraInit, NewCamera
<1>2. Len(<< >>) = 0 /\ << >> \in Seq(Parity)
  BY EmptySeq
<1>3. /\ taken \in [item : Items, session : Parity] /\ session \in Parity
      /\ taken.item = StreamReset /\ taken.session = 0
  BY <1>1 DEF Tagged, Items, Parity
<1>4. Chain(taken, events, origins)
  BY <1>1, <1>2 DEF Chain
<1>5. ReadyToSend
  BY <1>1, <1>2, <1>3 DEF ReadyToSend, Newest, At
<1> QED
  BY <1>1, <1>2, <1>3, <1>4, <1>5 DEF SessionsInv

(* One more item at the end: an event of the session, or its Reset.        *)
LEMMA SendKeeps ==
    ASSUME SessionsInv, EventsOK, NEW item \in Items,
           events' = Append(events, item),
           Follows(Newest(taken, events, origins), Tagged(item, session)),
           NoteItems, camera.phase # "top", running' = running,
           ReceiverOpen,
           IF item = StreamReset THEN camera'.phase = "sleep"
                                 ELSE camera'.phase = "frames"
    PROVE  SessionsInv'
<1>1. Len(events') = Len(events) + 1 /\ Len(events) \in Nat
  BY AppendProperties, LenProperties DEF EventsOK
<1>2. Sent /\ ~Received
  BY <1>1 DEF Sent, Received
<1>3. /\ session' = session /\ taken' = taken
      /\ origins' = Append(origins, session)
  BY <1>2 DEF NoteItems
<1>4. /\ origins' \in Seq(Parity)
      /\ Len(origins') = Len(events')
  BY <1>1, <1>3, AppendProperties DEF SessionsInv
<1>5. /\ Chain(taken', events', origins')
      /\ Newest(taken', events', origins') = Tagged(item, session)
  BY <1>3, ChainAppend DEF SessionsInv, EventsOK, Items
<1>6. ReadyToSend'
  BY <1>3, <1>5 DEF ReadyToSend, Follows, Tagged
<1> QED
  BY <1>3, <1>4, <1>5, <1>6 DEF SessionsInv, ReceiverOpen

(* Nothing is sent or received.                                            *)
LEMMA QuietKeeps ==
    ASSUME SessionsInv, EventsOK, events' = events, NoteItems,
           "processor" \in running' => "processor" \in running,
           "processor" \in running \ running' => events = << >>,
           "supervisor" \in running' =>
              /\ "supervisor" \in running
              /\ \/ camera'.phase = camera.phase
                 \/ camera.phase = "top" /\ camera'.phase = "request"
                 \/ camera.phase = "sleep" /\ camera'.phase = "top"
                 \/ /\ camera.phase \notin {"top", "sleep"}
                    /\ camera'.phase \notin {"top", "sleep"}
                 \/ "processor" \notin running
    PROVE  SessionsInv'
<1>1. ~Sent /\ ~Received
  BY LenProperties DEF Sent, Received, EventsOK
<1>2. /\ taken' = taken /\ origins' = origins
      /\ session' = IF camera.phase = "top" /\ camera'.phase = "request"
                    THEN 1 - session ELSE session
  BY <1>1 DEF NoteItems
<1>3. session' \in Parity
  BY <1>2 DEF SessionsInv, Parity
<1>4. ASSUME {"processor", "supervisor"} \subseteq running'
      PROVE  ReadyToSend'
  <2>1. ReadyToSend /\ session \in Parity
    BY <1>4 DEF SessionsInv
  <2>2. Newest(taken', events', origins') = Newest(taken, events, origins)
    BY <1>2
  <2>3. CASE camera.phase = "top" /\ camera'.phase = "request"
    BY <1>2, <2>1, <2>2, <2>3 DEF ReadyToSend, Follows, Tagged, Parity
  <2>4. CASE ~(camera.phase = "top" /\ camera'.phase = "request")
    BY <1>2, <1>4, <2>1, <2>2, <2>4 DEF ReadyToSend
  <2> QED
    BY <2>3, <2>4
<1> QED
  BY <1>2, <1>3, <1>4 DEF SessionsInv

(* The receiver takes the oldest item.                                     *)
LEMMA TakeKeeps ==
    ASSUME SessionsInv, EventsOK, TakeItem, NoteItems
    PROVE  SessionsInv'
<1>1. /\ events # << >> /\ events' = Tail(events)
      /\ camera' = camera /\ running' = running
      /\ "processor" \in running
  BY DEF TakeItem, ReceiverOpen
<1>2. Len(events') = Len(events) - 1 /\ Len(events) \in Nat \ {0}
      /\ events' \in Seq(Items)
  BY <1>1, HeadTailProperties, EmptySeq DEF EventsOK, Items
<1>3. ~Sent /\ Received
  BY <1>2 DEF Sent, Received
<1>4. /\ taken' = Tagged(Head(events), Head(origins))
      /\ session' = session
      /\ origins' = IF events' = << >> THEN << >> ELSE Tail(origins)
  BY <1>1, <1>3 DEF NoteItems
<1>5. /\ Chain(taken', Tail(events), Tail(origins))
      /\ Newest(taken', Tail(events), Tail(origins))
           = Newest(taken, events, origins)
      /\ taken' \in [item : Items, session : Parity]
      /\ Tail(origins) \in Seq(Parity)
      /\ Len(Tail(origins)) = Len(Tail(events))
  BY <1>1, <1>4, ChainTaken DEF SessionsInv, EventsOK, Items
<1>6. origins' = Tail(origins)
  <2>1. CASE events' = << >>
    <3>1. Len(Tail(origins)) = 0
      BY <1>1, <1>5, <2>1, EmptySeq
    <3>2. Tail(origins) = << >>
      BY <1>5, <3>1, EmptySeq
    <3> QED
      BY <1>4, <2>1, <3>2
  <2> QED
    BY <1>4, <2>1
<1>7. ReadyToSend => ReadyToSend'
  BY <1>1, <1>4, <1>5, <1>6 DEF ReadyToSend
<1> QED
  BY <1>1, <1>4, <1>5, <1>6, <1>7 DEF SessionsInv

(* The receiver is gone, and what was in the channel with it.              *)
LEMMA ReceiverGone ==
    ASSUME SessionsInv, EventsOK, ReceiverStops, NoteItems
    PROVE  SessionsInv'
<1>1. /\ events' = << >> /\ camera' = camera
      /\ running' = running \ {"processor"}
  BY DEF ReceiverStops, Return
<1>2. CASE events = << >>
  <2> QED
    BY <1>1, <1>2, QuietKeeps
<1>3. CASE events # << >>
  <2>1. Len(events) \in Nat \ {0} /\ Len(<< >>) = 0 /\ << >> \in Seq(Parity)
        /\ Head(events) \in Items
    BY <1>3, EmptySeq, HeadTailProperties DEF EventsOK, Items
  <2>2. ~Sent /\ Received
    BY <1>1, <2>1 DEF Sent, Received
  <2>3. /\ taken' = Tagged(Head(events), Head(origins))
        /\ session' = session /\ origins' = << >>
    BY <1>1, <2>2 DEF NoteItems
  <2>4. Head(origins) \in Parity
    <3>1. origins # << >>
      BY <2>1 DEF SessionsInv
    <3> QED
      BY <3>1, HeadTailProperties DEF SessionsInv
  <2>5. taken' \in [item : Items, session : Parity]
    BY <2>1, <2>3, <2>4 DEF Tagged
  <2>6. Chain(taken', events', origins')
    BY <1>1, <2>1 DEF Chain
  <2> QED
    BY <1>1, <2>1, <2>3, <2>5, <2>6 DEF SessionsInv
<1> QED
  BY <1>2, <1>3

LEMMA SessionsInvKept ==
    ASSUME SessionsInv, CameraInv, SupervisorNext, NoteItems
    PROVE  SessionsInv'
<1>0. camera \in CameraRecord /\ EventsOK
  BY CameraTypeParts DEF CameraInv
<1>1. CASE ForwardEvent
  <2>1. /\ camera'.phase = "frames" /\ camera.phase = "frames"
        /\ Head(camera.frames) \in Events
        /\ events' = Append(events, Head(camera.frames))
        /\ running' = running /\ ReceiverOpen /\ "supervisor" \in running
    BY <1>0, <1>1 DEF ForwardEvent, AtFrame, InPhase, NextFrame, CameraRecord
  <2>2. /\ Head(camera.frames) \in Items
        /\ Head(camera.frames) # StreamReset
    BY <2>1, SessionsAssumption DEF Items
  <2>3. ReadyToSend
    BY <2>1 DEF SessionsInv, ReceiverOpen
  <2>4. Follows(Newest(taken, events, origins),
                Tagged(Head(camera.frames), session))
    BY <2>1, <2>3 DEF ReadyToSend, Follows, Tagged
  <2> QED
    BY <1>0, <2>1, <2>2, <2>4, SendKeeps
<1>2. CASE SendReset
  <2>1. /\ camera'.phase = "sleep" /\ camera.phase = "reset"
        /\ running' = running /\ "supervisor" \in running
    BY <1>0, <1>2 DEF SendReset, InPhase, CameraRecord
  <2>2. CASE ReceiverOpen /\ events' = Append(events, StreamReset)
    <3>1. ReadyToSend
      BY <2>1, <2>2 DEF SessionsInv, ReceiverOpen
    <3>2. Follows(Newest(taken, events, origins), Tagged(StreamReset, session))
      BY <2>1, <3>1 DEF ReadyToSend
    <3> QED
      BY <1>0, <2>1, <2>2, <3>2, SendKeeps DEF Items
  <2>3. CASE ~ReceiverOpen /\ events' = events
    BY <1>0, <2>1, <2>3, QuietKeeps DEF ReceiverOpen
  <2> QED
    BY <1>2, <2>2, <2>3 DEF SendReset
<1>3. CASE StopAtTop \/ StopAsleep
  BY <1>0, <1>3, QuietKeeps DEF StopAtTop, StopAsleep, Return
<1>4. CASE StartSession
  <2>1. /\ camera'.phase = "request" /\ camera.phase = "top"
        /\ running' = running /\ events' = events
    BY <1>0, <1>4 DEF StartSession, InPhase, CameraRecord
  <2> QED
    BY <1>0, <2>1, QuietKeeps
<1>5. CASE WakeUp
  <2>1. /\ camera'.phase = "top" /\ camera.phase = "sleep"
        /\ running' = running /\ events' = events
    BY <1>0, <1>5 DEF WakeUp, InPhase, CameraRecord
  <2> QED
    BY <1>0, <2>1, QuietKeeps
<1>6. CASE CameraTick
  <2>1. /\ camera'.phase = camera.phase
        /\ running' = running /\ events' = events
    BY <1>0, <1>6 DEF CameraTick, CameraRecord
  <2> QED
    BY <1>0, <2>1, QuietKeeps
<1>7. CASE \/ CancelSession \/ IdleTimeout \/ StreamEnds \/ RequestFails
           \/ RequestSucceeds \/ ChunkDone
           \/ SkipFrame \/ DropEvent
           \/ \E chunk \in Chunks : ReceiveChunk(chunk)
  <2>1. /\ camera.phase \in {"request", "stream", "frames"}
        /\ camera'.phase \in {"stream", "frames", "ended"}
        /\ running' = running /\ events' = events
    BY <1>0, <1>7
    DEF CancelSession, IdleTimeout, StreamEnds, RequestFails, RequestSucceeds,
        ChunkDone, SkipFrame, DropEvent, ReceiveChunk, EndSession, Goto,
        AtFrame, NextFrame, InPhase, CameraRecord
  <2> QED
    BY <1>0, <2>1, QuietKeeps
<1>8. CASE Disconnect
  <2>1. /\ camera.phase = "ended" /\ events' = events
        /\ "processor" \in running' <=> "processor" \in running
        /\ \/ running' = running \ {"supervisor"}
           \/ running' = running /\ camera'.phase = "reset"
    BY <1>0, <1>8 DEF Disconnect, Return, Goto, InPhase, CameraRecord
  <2>2. "supervisor" \in running' =>
           "supervisor" \in running /\ camera'.phase = "reset"
    BY <2>1
  <2> QED
    BY <1>0, <2>1, <2>2, QuietKeeps
<1>9. CASE TakeItem
  BY <1>0, <1>9, TakeKeeps
<1>10. CASE ReceiverStops
  BY <1>0, <1>10, ReceiverGone
<1>11. CASE SignalArrives
  BY <1>0, <1>11, QuietKeeps DEF SignalArrives
<1> QED
  BY <1>1, <1>2, <1>3, <1>4, <1>5, <1>6, <1>7, <1>8, <1>9, <1>10, <1>11
  DEF SupervisorNext, SupervisorStep, CameraAnswers, CameraSends

------------------------------------------------------------------------------

(* A Reset stands between any two sessions: no event of a session is       *)
(* handled before the tracker has forgotten the one before it.             *)
THEOREM ResetsSeparate == SessionsSpec => []ResetBetweenSessions
<1>1. SessionsInit => CameraInv /\ SessionsInv
  BY CameraInvInit, SessionsInvInit DEF SessionsInit
<1>2. ASSUME CameraInv, SessionsInv, [SupervisorNext /\ NoteItems]_sessionVars
      PROVE  CameraInv' /\ SessionsInv'
  <2>1. CASE SupervisorNext /\ NoteItems
    BY <1>2, <2>1, CameraInvKept, SessionsInvKept
  <2>2. CASE UNCHANGED sessionVars
    <3>1. CameraInv'
      BY <1>2, <2>2, CameraInvKept DEF sessionVars
    <3>2. SessionsInv'
      BY <1>2, <2>2
      DEF SessionsInv, ReadyToSend, sessionVars, supervisorVars
    <3> QED
      BY <3>1, <3>2
  <2> QED
    BY <1>2, <2>1, <2>2
<1>3. CameraInv /\ SessionsInv => ResetBetweenSessions
  BY ChainInOrder, CameraTypeParts DEF CameraInv, SessionsInv
<1> QED
  BY <1>1, <1>2, <1>3, PTL DEF SessionsSpec
==============================================================================
