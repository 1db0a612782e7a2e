------------------------ MODULE CameraSupervisorProofs ------------------------
(***************************************************************************)
(* What the camera task guarantees for every capacity of the event         *)
(* channel, every chunk size and every choice of its timers.               *)
(***************************************************************************)
EXTENDS CameraSupervisor, SequenceTheorems, TLAPS

(* The inductive invariant.  That the snapshot is one is needed to read its *)
(* flag after an update; the camera task lists no event types.             *)
CameraInv ==
    /\ CameraTypeOK
    /\ health \in HealthSnapshot({})
    /\ ConnectedInSession

------------------------------------------------------------------------------
(* Facts about the operators.                                              *)

LEMMA CameraUpdates ==
    ASSUME NEW T, NEW h \in HealthSnapshot(T)
    PROVE  /\ CameraConnected(h) \in HealthSnapshot(T)
           /\ CameraDisconnected(h) \in HealthSnapshot(T)
           /\ ~CameraDisconnected(h).camera_connected
           /\ MalformedFrame(h) \in HealthSnapshot(T)
           /\ MalformedFrame(h).camera_connected = h.camera_connected
           /\ CameraEventDropped(h) \in HealthSnapshot(T)
           /\ CameraEventDropped(h).camera_connected = h.camera_connected
<1>1. \A n \in 0 .. COUNTER_CAP : Bump(n) \in 0 .. COUNTER_CAP
  BY HealthAssumption DEF Bump
<1>2. CameraConnected(h) \in HealthSnapshot(T)
  BY DEF CameraConnected, HealthSnapshot
<1>3. /\ CameraDisconnected(h) \in HealthSnapshot(T)
      /\ ~CameraDisconnected(h).camera_connected
  BY <1>1 DEF CameraDisconnected, HealthSnapshot
<1>4. /\ MalformedFrame(h) \in HealthSnapshot(T)
      /\ MalformedFrame(h).camera_connected = h.camera_connected
  BY <1>1 DEF MalformedFrame, HealthSnapshot
<1>5. /\ CameraEventDropped(h) \in HealthSnapshot(T)
      /\ CameraEventDropped(h).camera_connected = h.camera_connected
  BY <1>1 DEF CameraEventDropped, HealthSnapshot
<1> QED
  BY <1>2, <1>3, <1>4, <1>5

(* The rest of a chunk is a chunk, and so is no frame at all.              *)
LEMMA ChunkTail ==
    ASSUME NEW chunk \in Chunks
    PROVE  /\ << >> \in Chunks
           /\ chunk # << >> => Tail(chunk) \in Chunks
<1>1. << >> \in [1 .. 0 -> Frames]
  BY EmptySeq, LenProperties
<1>2. << >> \in Chunks
  BY <1>1, CameraAssumption DEF Chunks
<1>3. ASSUME chunk # << >> PROVE Tail(chunk) \in Chunks
  <2>1. PICK n \in 0 .. CHUNK_FRAMES : chunk \in [1 .. n -> Frames]
    BY DEF Chunks
  <2>2. n \in Nat /\ chunk \in Seq(Frames)
    BY <2>1, CameraAssumption, SeqDef
  <2>3. Len(chunk) = n
    BY <2>1, <2>2, LenProperties
  <2>4. Tail(chunk) \in Seq(Frames) /\ Len(Tail(chunk)) = n - 1
    BY <1>3, <2>2, <2>3, HeadTailProperties
  <2>5. Tail(chunk) \in [1 .. n - 1 -> Frames] /\ n - 1 \in Nat
    BY <2>4, LenProperties
  <2> QED
    BY <2>1, <2>5, CameraAssumption DEF Chunks
<1> QED
  BY <1>2, <1>3

(* The delay stays between its two ends, and does not shrink by doubling.  *)
LEMMA DelayRange ==
    ASSUME NEW d \in RECONNECT_INITIAL .. RECONNECT_MAX
    PROVE  /\ Doubled(d) \in RECONNECT_INITIAL .. RECONNECT_MAX
           /\ Doubled(d) >= d
BY CameraAssumption DEF Doubled

LEMMA AgedRange ==
    ASSUME NEW limit \in Nat, NEW age \in 0 .. limit
    PROVE  Aged(age, limit) \in 0 .. limit
BY DEF Aged

LEMMA Timers ==
    /\ LongestTimer \in Nat
    /\ STREAM_IDLE <= LongestTimer
    /\ RECONNECT_MAX <= LongestTimer
    /\ RECONNECT_INITIAL \in RECONNECT_INITIAL .. RECONNECT_MAX
BY CameraAssumption DEF LongestTimer

------------------------------------------------------------------------------
(* Every step keeps the record of the task in its type.                    *)

Delays == RECONNECT_INITIAL .. RECONNECT_MAX
Ages == 0 .. HEALTHY_SESSION
Waits == 0 .. LongestTimer

CameraRecord ==
    [phase : Phases, delay : Delays, started : Ages, waited : Waits,
     frames : Chunks]

LEMMA Zeros == 0 \in Ages /\ 0 \in Waits /\ RECONNECT_INITIAL \in Delays
BY Timers, CameraAssumption DEF Ages, Waits, Delays

LEMMA GotoType ==
    ASSUME camera \in CameraRecord, NEW p \in Phases, Goto(p)
    PROVE  camera' \in CameraRecord /\ camera'.phase = p
<1>1. camera' = [camera EXCEPT !.phase = p, !.waited = 0] /\ 0 \in Waits
  BY Zeros DEF Goto
<1> QED
  BY <1>1 DEF CameraRecord

LEMMA CameraRecordKept ==
    ASSUME camera \in CameraRecord,
           SupervisorStep \/ CameraAnswers \/ CameraSends \/ CameraTick
    PROVE  camera' \in CameraRecord
<1> USE Zeros
<1>1. CASE StopAtTop \/ StopAsleep
  BY <1>1 DEF StopAtTop, StopAsleep
<1>2. CASE StartSession
  <2>1. camera' = [camera EXCEPT !.phase = "request", !.started = 0]
    BY <1>2 DEF StartSession
  <2>2. "request" \in Phases
    BY DEF Phases
  <2> QED
    BY <2>1, <2>2 DEF CameraRecord
<1>3. CASE CancelSession \/ IdleTimeout \/ StreamEnds \/ RequestFails
  <2>1. Goto("ended") /\ "ended" \in Phases
    BY <1>3
    DEF CancelSession, IdleTimeout, StreamEnds, RequestFails, EndSession, Phases
  <2> QED
    BY <2>1, GotoType
<1>4. CASE RequestSucceeds \/ ChunkDone
  <2>1. Goto("stream") /\ "stream" \in Phases
    BY <1>4 DEF RequestSucceeds, ChunkDone, Phases
  <2> QED
    BY <2>1, GotoType
<1>5. ASSUME NEW chunk \in Chunks, ReceiveChunk(chunk)
      PROVE  camera' \in CameraRecord
  <2>1. camera' = [camera EXCEPT !.phase = "frames", !.frames = chunk]
    BY <1>5 DEF ReceiveChunk
  <2>2. "frames" \in Phases
    BY DEF Phases
  <2> QED
    BY <2>1, <2>2 DEF CameraRecord
<1>6. CASE SkipFrame \/ ForwardEvent \/ DropEvent
  <2>1. /\ camera' = [camera EXCEPT !.frames = Tail(@), !.waited = 0]
        /\ camera.frames # << >>
    BY <1>6 DEF SkipFrame, ForwardEvent, DropEvent, NextFrame, AtFrame
  <2>2. camera.frames \in Chunks
    BY DEF CameraRecord
  <2>3. Tail(camera.frames) \in Chunks
    BY <2>1, <2>2, ChunkTail
  <2> QED
    BY <2>1, <2>3 DEF CameraRecord
<1>7. CASE Disconnect
  <2>1. camera' = camera \/ Goto("reset")
    BY <1>7 DEF Disconnect
  <2>2. "reset" \in Phases
    BY DEF Phases
  <2> QED
    BY <2>1, <2>2, GotoType
<1>8. CASE SendReset
  <2>1. camera' = [camera EXCEPT !.phase = "sleep", !.waited = 0,
                                 !.started = 0, !.delay = HealthyDelay]
    BY <1>8 DEF SendReset
  <2>2. HealthyDelay \in Delays /\ "sleep" \in Phases
    BY DEF HealthyDelay, CameraRecord, Phases
  <2> QED
    BY <2>1, <2>2 DEF CameraRecord
<1>9. CASE WakeUp
  <2>1. camera' = [camera EXCEPT !.phase = "top", !.waited = 0,
                                 !.delay = Doubled(@)]
    BY <1>9 DEF WakeUp
  <2>2. Doubled(camera.delay) \in Delays /\ "top" \in Phases
    BY DelayRange DEF CameraRecord, Delays, Phases
  <2> QED
    BY <2>1, <2>2 DEF CameraRecord
<1>10. CASE CameraTick
  <2> DEFINE started == IF camera.phase \in {"top", "sleep"} THEN 0
                        ELSE Aged(camera.started, HEALTHY_SESSION)
             waited == CASE camera.phase = "stream"
                              -> Aged(camera.waited, STREAM_IDLE)
                         [] camera.phase = "sleep"
                              -> Aged(camera.waited, camera.delay)
                         [] OTHER -> 0
  <2>1. camera' = [camera EXCEPT !.started = started, !.waited = waited]
    BY <1>10 DEF CameraTick
  <2>2. started \in Ages
    BY AgedRange, CameraAssumption DEF CameraRecord, Ages
  <2>3. waited \in Waits
    <3>1. /\ camera.waited \in 0 .. LongestTimer
          /\ camera.delay \in 0 .. LongestTimer
      BY Timers, CameraAssumption DEF CameraRecord, Waits, Delays
    <3>2. \A limit \in 0 .. LongestTimer :
             Aged(camera.waited, limit) \in 0 .. LongestTimer
      BY <3>1, Timers DEF Aged
    <3> QED
      BY <3>1, <3>2, Timers, CameraAssumption DEF Waits
  <2> HIDE DEF started, waited
  <2> QED
    BY <2>1, <2>2, <2>3 DEF CameraRecord
<1> QED
  BY <1>1, <1>2, <1>3, <1>4, <1>5, <1>6, <1>7, <1>8, <1>9, <1>10
  DEF SupervisorStep, CameraAnswers, CameraSends

(* What the task does to the event channel: nothing, or one more item      *)
(* where there is room.                                                    *)
Adds(item) ==
    /\ item \in Events \cup {StreamReset}
    /\ Len(events) < EVENT_QUEUE
    /\ events' = Append(events, item)

LEMMA TaskSends ==
    ASSUME SupervisorStep \/ CameraAnswers \/ CameraSends \/ CameraTick
    PROVE  \/ events' = events
           \/ \E item \in Events \cup {StreamReset} : Adds(item)
BY DEF Adds, SupervisorStep, CameraAnswers, CameraSends, CameraTick, EventRoom,
       StopAtTop, StopAsleep, StartSession, CancelSession, IdleTimeout,
       StreamEnds, RequestFails, RequestSucceeds, ChunkDone, ReceiveChunk,
       SkipFrame, ForwardEvent, DropEvent, Disconnect, SendReset, WakeUp

EventsOK ==
    /\ events \in Seq(Events \cup {StreamReset})
    /\ Len(events) <= EVENT_QUEUE

LEMMA AddsKeeps ==
    ASSUME EventsOK, NEW item \in Events \cup {StreamReset}, Adds(item)
    PROVE  EventsOK'
<1>1. Append(events, item) \in Seq(Events \cup {StreamReset})
      /\ Len(Append(events, item)) = Len(events) + 1
      /\ Len(events) \in Nat
  BY AppendProperties, LenProperties DEF EventsOK
<1> QED
  BY <1>1, BridgeAssumption DEF EventsOK, Adds

LEMMA TailKeeps ==
    ASSUME EventsOK, events # << >>
    PROVE  /\ Tail(events) \in Seq(Events \cup {StreamReset})
           /\ Len(Tail(events)) <= EVENT_QUEUE
<1>1. Tail(events) \in Seq(Events \cup {StreamReset})
      /\ Len(Tail(events)) = Len(events) - 1
      /\ Len(events) \in Nat
  BY HeadTailProperties, LenProperties DEF EventsOK
<1> QED
  BY <1>1, BridgeAssumption DEF EventsOK

(* The event channel is kept by every step, the receiver's included.       *)
LEMMA EventsKept ==
    ASSUME EventsOK, SupervisorNext
    PROVE  EventsOK'
<1>1. CASE SupervisorStep \/ CameraAnswers \/ CameraSends \/ CameraTick
  BY <1>1, TaskSends, AddsKeeps DEF EventsOK
<1>2. CASE TakeItem
  BY <1>2, TailKeeps DEF TakeItem, EventsOK
<1>3. CASE ReceiverStops
  <2>1. events' = << >>
    BY <1>3 DEF ReceiverStops
  <2>2. << >> \in Seq(Events \cup {StreamReset}) /\ Len(<< >>) = 0
    BY EmptySeq
  <2> QED
    BY <2>1, <2>2, BridgeAssumption DEF EventsOK
<1>4. CASE SignalArrives
  BY <1>4 DEF SignalArrives, EventsOK
<1> QED
  BY <1>1, <1>2, <1>3, <1>4 DEF SupervisorNext

------------------------------------------------------------------------------
(* The invariant.                                                          *)

LEMMA CameraTypeParts ==
    CameraTypeOK <=> /\ camera \in CameraRecord
                     /\ EventsOK
                     /\ running \subseteq Tasks
                     /\ cancelled \in BOOLEAN
BY DEF CameraTypeOK, CameraRecord, EventsOK, Delays, Ages, Waits

LEMMA CameraInvInit == SupervisorInit => CameraInv
<1> SUFFICES ASSUME SupervisorInit PROVE CameraInv
  OBVIOUS
<1>1. camera \in CameraRecord
  <2>1. "top" \in Phases /\ << >> \in Chunks
    <3>1. << >> \in [1 .. 0 -> Frames]
      BY EmptySeq, LenProperties
    <3> QED
      BY <3>1, CameraAssumption DEF Chunks, Phases
  <2> QED
    BY <2>1, Zeros DEF SupervisorInit, CameraInit, NewCamera, CameraRecord
<1>2. EventsOK
  <2>1. << >> \in Seq(Events \cup {StreamReset}) /\ Len(<< >>) = 0
    BY EmptySeq
  <2> QED
    BY <2>1, BridgeAssumption DEF SupervisorInit, BridgeInit, EventsOK
<1>3. running \subseteq Tasks /\ cancelled \in BOOLEAN
  BY DEF SupervisorInit, BridgeInit
<1>4. /\ health \in HealthSnapshot({})
      /\ ~health.camera_connected
  <2>1. health = NewHealth(TRUE) /\ 0 \in 0 .. COUNTER_CAP
    BY HealthAssumption DEF SupervisorInit, BridgeInit
  <2> QED
    BY <2>1 DEF NewHealth, HealthSnapshot
<1> QED
  BY <1>1, <1>2, <1>3, <1>4, CameraTypeParts DEF CameraInv, ConnectedInSession

(* Only an answered request connects; before the task leaves a session it  *)
(* says so.                                                                *)
LEMMA SnapshotKept ==
    ASSUME NEW T, camera \in CameraRecord, health \in HealthSnapshot(T),
           ConnectedInSession, SupervisorNext
    PROVE  health' \in HealthSnapshot(T) /\ ConnectedInSession'
<1>0. camera \in CameraRecord
  OBVIOUS
<1>1. CASE StopAtTop \/ StopAsleep
  BY <1>1 DEF StopAtTop, StopAsleep, ConnectedInSession, InPhase, Return
<1>2. CASE StartSession \/ WakeUp \/ SendReset
  BY <1>2 DEF StartSession, WakeUp, SendReset, ConnectedInSession, InPhase
<1>3. CASE CancelSession \/ IdleTimeout \/ StreamEnds
  <2>1. /\ camera'.phase = "ended" /\ "supervisor" \in running'
        /\ health' = health
    BY <1>0, <1>3, GotoType
    DEF CancelSession, IdleTimeout, StreamEnds, EndSession, Phases, InPhase
  <2> QED
    BY <2>1 DEF ConnectedInSession, InPhase
<1>4. CASE RequestFails
  BY <1>4 DEF RequestFails, ConnectedInSession, InPhase
<1>5. CASE RequestSucceeds \/ ChunkDone
  <2>1. /\ camera'.phase = "stream" /\ "supervisor" \in running'
        /\ health' = health \/ health' = CameraConnected(health)
    BY <1>0, <1>5, GotoType DEF RequestSucceeds, ChunkDone, Phases, InPhase
  <2> QED
    BY <2>1, CameraUpdates DEF ConnectedInSession, InPhase
<1>6. ASSUME NEW chunk \in Chunks, ReceiveChunk(chunk)
      PROVE  health' \in HealthSnapshot(T) /\ ConnectedInSession'
  <2>1. /\ camera'.phase = "frames" /\ "supervisor" \in running'
        /\ health' = health
    BY <1>0, <1>6 DEF ReceiveChunk, InPhase, CameraRecord
  <2> QED
    BY <2>1 DEF ConnectedInSession, InPhase
<1>7. CASE SkipFrame \/ ForwardEvent \/ DropEvent
  <2>1. /\ camera'.phase = "frames" /\ "supervisor" \in running'
        /\ health' \in {health, MalformedFrame(health),
                         CameraEventDropped(health)}
    BY <1>0, <1>7
    DEF SkipFrame, ForwardEvent, DropEvent, AtFrame, NextFrame, InPhase,
        CameraRecord
  <2> QED
    BY <2>1, CameraUpdates DEF ConnectedInSession, InPhase
<1>8. CASE Disconnect
  <2>1. health' = CameraDisconnected(health)
    BY <1>8 DEF Disconnect
  <2> QED
    BY <2>1, CameraUpdates DEF ConnectedInSession
<1>9. CASE CameraTick
  <2>1. /\ camera'.phase = camera.phase
        /\ running' = running /\ health' = health
    BY <1>0, <1>9 DEF CameraTick, CameraRecord
  <2> QED
    BY <2>1 DEF ConnectedInSession, InPhase
<1>10. CASE TakeItem \/ ReceiverStops \/ SignalArrives
  <2>1. /\ camera' = camera /\ health' = health
        /\ running' = running \/ running' = running \ {"processor"}
    BY <1>10 DEF TakeItem, ReceiverStops, SignalArrives, Return
  <2> QED
    BY <2>1 DEF ConnectedInSession, InPhase
<1> QED
  BY <1>1, <1>2, <1>3, <1>4, <1>5, <1>6, <1>7, <1>8, <1>9, <1>10
  DEF SupervisorNext, SupervisorStep, CameraAnswers, CameraSends

LEMMA CameraInvKept ==
    CameraInv /\ [SupervisorNext]_supervisorVars => CameraInv'
<1> SUFFICES ASSUME CameraInv, [SupervisorNext]_supervisorVars PROVE CameraInv'
  OBVIOUS
<1>1. CASE SupervisorNext
  <2>1. camera \in CameraRecord /\ EventsOK
    BY CameraTypeParts DEF CameraInv
  <2>2. camera' \in CameraRecord
    BY <1>1, <2>1, CameraRecordKept
    DEF SupervisorNext, TakeItem, ReceiverStops, SignalArrives
  <2>3. EventsOK'
    BY <1>1, <2>1, EventsKept
  <2>4. running' \subseteq Tasks /\ cancelled' \in BOOLEAN
    BY <1>1
    DEF CameraInv, CameraTypeOK, SupervisorNext, SupervisorStep, CameraAnswers,
        CameraSends, CameraTick, StopAtTop, StopAsleep, StartSession,
        CancelSession, IdleTimeout, StreamEnds, RequestFails, RequestSucceeds,
        ChunkDone, ReceiveChunk, SkipFrame, ForwardEvent, DropEvent,
        Disconnect, SendReset, WakeUp, TakeItem, ReceiverStops, SignalArrives,
        Cancel, Return
  <2> QED
    BY <1>1, <2>2, <2>3, <2>4, CameraTypeParts, SnapshotKept
    DEF CameraInv, CameraTypeOK, CameraRecord, EventsOK, Delays, Ages, Waits
<1>2. CASE UNCHANGED supervisorVars
  BY <1>2
  DEF CameraInv, CameraTypeOK, ConnectedInSession, InPhase, supervisorVars
<1> QED
  BY <1>1, <1>2

------------------------------------------------------------------------------
(* The theorems.                                                           *)

(* The types: the delay stays between its two ends, the timers and the     *)
(* event channel within their bounds, whatever the camera does.            *)
THEOREM CameraTypes == SupervisorSafety => []CameraTypeOK
<1>1. CameraInv => CameraTypeOK
  BY DEF CameraInv
<1> QED
  BY <1>1, CameraInvInit, CameraInvKept, PTL DEF SupervisorSafety

(* The snapshot says connected only during a session.                      *)
THEOREM ConnectedIsTrue == SupervisorSafety => []ConnectedInSession
<1>1. CameraInv => ConnectedInSession
  BY DEF CameraInv
<1> QED
  BY <1>1, CameraInvInit, CameraInvKept, PTL DEF SupervisorSafety

(* Doubling never shortens the delay, and only SendReset sets it back.     *)
LEMMA DelayStep ==
    ASSUME camera \in CameraRecord, SupervisorNext
    PROVE  camera'.delay < camera.delay => camera.started >= HEALTHY_SESSION
<1> SUFFICES ASSUME camera'.delay < camera.delay
             PROVE  camera.started >= HEALTHY_SESSION
  OBVIOUS
<1>1. camera \in CameraRecord /\ camera.delay \in Delays
  BY DEF CameraRecord
<1>2. ~(camera.delay < camera.delay)
  BY <1>1, CameraAssumption DEF Delays
<1>3. CASE SendReset
  <2>1. camera'.delay = HealthyDelay
    BY <1>1, <1>3 DEF SendReset, CameraRecord
  <2> QED
    BY <1>2, <2>1 DEF HealthyDelay
<1>4. CASE WakeUp
  <2>1. camera'.delay = Doubled(camera.delay)
    BY <1>1, <1>4 DEF WakeUp, CameraRecord
  <2>2. Doubled(camera.delay) >= camera.delay
        /\ Doubled(camera.delay) \in RECONNECT_INITIAL .. RECONNECT_MAX
    BY <1>1, DelayRange DEF Delays
  <2> QED
    BY <1>1, <2>1, <2>2, CameraAssumption DEF Delays
<1>5. ASSUME ~SendReset, ~WakeUp PROVE camera'.delay = camera.delay
  BY <1>1, <1>5
  DEF SupervisorNext, SupervisorStep, CameraAnswers, CameraSends, CameraTick,
      StopAtTop, StopAsleep, StartSession, CancelSession, IdleTimeout,
      StreamEnds, RequestFails, RequestSucceeds, ChunkDone, ReceiveChunk,
      SkipFrame, ForwardEvent, DropEvent, Disconnect, EndSession, Goto,
      NextFrame, TakeItem, ReceiverStops, SignalArrives, CameraRecord
<1> QED
  BY <1>2, <1>3, <1>4, <1>5

(* A shorter delay needs a session that lived.                             *)
THEOREM BackoffIsHonest == SupervisorSafety => DelayShrinksAfterHealthy
<1>1. CameraInv /\ [SupervisorNext]_supervisorVars
        => [camera'.delay < camera.delay
              => camera.started >= HEALTHY_SESSION]_supervisorVars
  BY DelayStep, CameraTypeParts DEF CameraInv
<1> QED
  BY <1>1, CameraInvInit, CameraInvKept, PTL
  DEF SupervisorSafety, DelayShrinksAfterHealthy
==============================================================================
