------------------------- MODULE AlertPipelineProofs -------------------------
(***************************************************************************)
(* The three tasks together: what each keeps by itself it keeps beside the *)
(* others, and none of them returns unless it is asked to.                 *)
(***************************************************************************)
EXTENDS AlertPipeline, AlertDeliveryProofs, CameraSupervisorProofs

(* The inductive invariant.                                                *)
PipelineInv == CameraTypeOK /\ DeliveryInv /\ NoTaskReturnsUnasked

LEMMA ItemsUnderstood == Events \cup {StreamReset} \subseteq StreamItem
BY PipelineAssumption DEF StreamItem

------------------------------------------------------------------------------
(* The camera task leaves the books alone.                                 *)

LEMMA CameraCounts ==
    ASSUME NEW h \in HealthSnapshot(OtherTypes),
           NEW g \in {h, CameraConnected(h), CameraDisconnected(h),
                      MalformedFrame(h), CameraEventDropped(h)}
    PROVE  g \in HealthSnapshot(OtherTypes) /\ SameCounters(g, h)
<1>1. g \in HealthSnapshot(OtherTypes)
  BY CameraUpdates
<1>2. SameCounters(g, h)
  BY DEF CameraConnected, CameraDisconnected, MalformedFrame,
         CameraEventDropped, HealthSnapshot, SameCounters
<1> QED
  BY <1>1, <1>2

LEMMA CameraTouches ==
    ASSUME SupervisorStep \/ CameraAnswers \/ CameraSends
    PROVE  /\ health' \in {health, CameraConnected(health),
                           CameraDisconnected(health), MalformedFrame(health),
                           CameraEventDropped(health)}
           /\ alarms' = alarms
           /\ cancelled' = cancelled
           /\ \/ running' = running
              \/ running' = running \ {"supervisor"} /\ cancelled
BY DEF SupervisorStep, CameraAnswers, CameraSends, StopAtTop, StopAsleep,
       StartSession, CancelSession, IdleTimeout, StreamEnds, RequestFails,
       RequestSucceeds, ChunkDone, ReceiveChunk, SkipFrame, ForwardEvent,
       DropEvent, Disconnect, SendReset, WakeUp, Return

LEMMA CameraSide ==
    ASSUME PipelineInv, Supervise \/ Answer \/ Send
    PROVE  PipelineInv'
<1>0. /\ SupervisorStep \/ CameraAnswers \/ CameraSends
      /\ UNCHANGED <<sources, raised, processor, worker, rung>>
  BY DEF Supervise, Answer, Send, othersThanCamera
<1>1. /\ camera \in CameraRecord /\ EventsOK
      /\ running \subseteq Tasks /\ cancelled \in BOOLEAN
      /\ events \in Seq(StreamItem)
      /\ health \in HealthSnapshot(OtherTypes)
  BY CameraTypeParts, ProcessorTypeParts DEF PipelineInv, DeliveryInv
<1>2. camera' \in CameraRecord
  BY <1>0, <1>1, CameraRecordKept
<1>3. EventsOK'
  BY <1>0, <1>1, TaskSends, AddsKeeps DEF EventsOK
<1>4. events' \in Seq(StreamItem)
  BY <1>0, <1>1, TaskSends, ItemsUnderstood, AppendProperties DEF Adds
<1>5. /\ alarms' = alarms /\ cancelled' = cancelled
      /\ \/ running' = running
         \/ running' = running \ {"supervisor"} /\ cancelled
  BY <1>0, CameraTouches
<1>6. /\ health' \in HealthSnapshot(OtherTypes)
      /\ SameCounters(health', health)
  BY <1>0, <1>1, CameraTouches, CameraCounts
<1>7. CameraTypeOK'
  BY <1>1, <1>2, <1>3, <1>5
  DEF CameraTypeOK, CameraRecord, EventsOK, Delays, Ages, Waits
<1>8. ProcessorTypeOK' /\ RequestInHand' /\ WorkerInv'
  BY <1>0, <1>4, <1>5, <1>6
  DEF PipelineInv, DeliveryInv, ProcessorTypeOK, SlotsTyped, RequestInHand,
      WorkerInv, WorkerTypeOK, EndedAttempts
<1>9. AlertsAccounted'
  BY <1>0, <1>5, <1>6, BalanceKept DEF PipelineInv, DeliveryInv
<1>10. NoTaskReturnsUnasked'
  BY <1>5 DEF PipelineInv, NoTaskReturnsUnasked
<1> QED
  BY <1>7, <1>8, <1>9, <1>10 DEF PipelineInv, DeliveryInv

------------------------------------------------------------------------------
(* The processor and the worker leave the camera task alone.               *)

LEMMA DeliverySide ==
    ASSUME PipelineInv, Process \/ Deliver
    PROVE  PipelineInv'
<1>0. /\ (ProcessorStep /\ UNCHANGED <<worker, rung>>)
         \/ (WorkerStep /\ UNCHANGED <<sources, raised, processor>>)
      /\ camera' = camera
  BY DEF Process, Deliver, Processing, Delivering
<1>1. DeliveryInv'
  BY DeliveryStep
  DEF Process, Deliver, PipelineInv, DeliveryNext
<1>2. \/ events' = events
      \/ events' = << >>
      \/ events # << >> /\ events' = Tail(events)
  BY <1>0
  DEF ProcessorStep, ProcessReset, ProcessEvent, ProcessUnmatched,
      ProcessActive, ProcessInactive, ProcessUnknown, Receives,
      ProcessorReturns, SendAlarm, SendTimesOut, RecordSent, RecordDropped,
      RecordLoss, WorkerStep, TakeAlarm, WorkerReturns, AttemptEnds,
      PauseEnds, RecordSuccess, RecordFailure
<1>3. EventsOK /\ EventsOK'
  <2>1. EventsOK
    BY CameraTypeParts DEF PipelineInv
  <2>2. << >> \in Seq(Events \cup {StreamReset}) /\ Len(<< >>) = 0
    BY EmptySeq
  <2>3. CASE events' = << >>
    BY <2>1, <2>2, <2>3, BridgeAssumption DEF EventsOK
  <2> QED
    BY <1>2, <2>1, <2>3, TailKeeps DEF EventsOK
<1>4. /\ cancelled' = cancelled
      /\ \/ running' = running
         \/ running' \subseteq running /\ (cancelled \/ running # Tasks)
  BY <1>0
  DEF ProcessorStep, ProcessReset, ProcessEvent, ProcessUnmatched,
      ProcessActive, ProcessInactive, ProcessUnknown, Receives,
      ProcessorReturns, SendAlarm, SendTimesOut, RecordSent, RecordDropped,
      RecordLoss, WorkerStep, TakeAlarm, WorkerReturns, AttemptEnds,
      PauseEnds, RecordSuccess, RecordFailure, Return, Tasks
<1>5. CameraTypeOK'
  BY <1>0, <1>3, <1>4 DEF PipelineInv, CameraTypeOK, EventsOK
<1>6. NoTaskReturnsUnasked'
  BY <1>4 DEF PipelineInv, NoTaskReturnsUnasked
<1> QED
  BY <1>1, <1>5, <1>6 DEF PipelineInv

LEMMA ClockAndSignal ==
    ASSUME PipelineInv, Clock \/ Shutdown \/ UNCHANGED pipelineVars
    PROVE  PipelineInv'
<1>0. /\ SlotsTyped /\ camera \in CameraRecord
      /\ events \in Seq(StreamItem)
  BY CameraTypeParts
  DEF PipelineInv, DeliveryInv, ProcessorTypeOK
<1>1. /\ UNCHANGED <<processor, worker, rung, events, alarms, health, running>>
      /\ cancelled' \in {cancelled, TRUE}
  BY DEF Clock, CameraTick, Shutdown, Cancel, othersThanCamera, pipelineVars
<1>2. SlotsTyped'
  <2>1. CASE Clock
    BY <1>0, <2>1, TypeStep DEF Clock, TrackerNext
  <2>2. CASE Shutdown \/ UNCHANGED pipelineVars
    BY <1>0, <2>2 DEF Shutdown, othersThanCamera, pipelineVars, SlotsTyped
  <2> QED
    BY <2>1, <2>2
<1>3. camera' \in CameraRecord
  <2>1. CASE Clock
    BY <1>0, <2>1, CameraRecordKept DEF Clock
  <2>2. CASE Shutdown \/ UNCHANGED pipelineVars
    BY <1>0, <2>2 DEF Shutdown, pipelineVars
  <2> QED
    BY <2>1, <2>2
<1>4. DeliveryInv'
  BY <1>0, <1>1, <1>2, OthersKeep DEF PipelineInv
<1>5. CameraTypeOK'
  BY <1>1, <1>3
  DEF PipelineInv, CameraTypeOK, CameraRecord, Delays, Ages, Waits
<1>6. NoTaskReturnsUnasked'
  BY <1>1 DEF PipelineInv, NoTaskReturnsUnasked
<1> QED
  BY <1>4, <1>5, <1>6 DEF PipelineInv

------------------------------------------------------------------------------
(* The theorems.                                                           *)

LEMMA PipelineInvariant == PipelineSafety => []PipelineInv
<1>1. PipelineInit => PipelineInv
  <2> SUFFICES ASSUME PipelineInit PROVE PipelineInv
    OBVIOUS
  <2>1. SupervisorInit /\ DeliveryInit
    BY DEF PipelineInit, SupervisorInit, DeliveryInit
  <2>2. CameraTypeOK /\ DeliveryInv
    BY <2>1, CameraInvInit, DeliveryInvInit DEF CameraInv
  <2>3. NoTaskReturnsUnasked
    BY DEF PipelineInit, BridgeInit, NoTaskReturnsUnasked
  <2> QED
    BY <2>2, <2>3 DEF PipelineInv
<1>2. PipelineInv /\ [PipelineNext]_pipelineVars => PipelineInv'
  BY CameraSide, DeliverySide, ClockAndSignal DEF PipelineNext
<1> QED
  BY <1>1, <1>2, PTL DEF PipelineSafety

(* The tasks keep their types together, whatever the capacities.           *)
THEOREM PipelineTypes == PipelineSafety => []PipelineTypeOK
<1>1. PipelineInv => PipelineTypeOK
  BY DEF PipelineInv, DeliveryInv, PipelineTypeOK, DeliveryTypeOK, WorkerInv
<1> QED
  BY <1>1, PipelineInvariant, PTL

(* No task returns before a cancellation: a closed channel is never the    *)
(* first thing to go wrong, so run ends by itself only if a task panics.   *)
THEOREM TasksStay == PipelineSafety => []NoTaskReturnsUnasked
<1>1. PipelineInv => NoTaskReturnsUnasked
  BY DEF PipelineInv
<1> QED
  BY <1>1, PipelineInvariant, PTL

(* The books balance behind the real camera task, too.                     *)
THEOREM PipelineBooks == PipelineSafety => []AlertsAccounted
<1>1. PipelineInv => AlertsAccounted
  BY DEF PipelineInv, DeliveryInv
<1> QED
  BY <1>1, PipelineInvariant, PTL

------------------------------------------------------------------------------
(* The tracker beside the other tasks: its map changes by its own          *)
(* operations only, so it keeps its promises in the bridge.  The processor *)
(* takes the alert from it, which is no operation of the tracker.          *)

LEMMA TrackerSteps ==
    ASSUME [PipelineNext]_pipelineVars
    PROVE  [TrackerNext]_trackerVars \/ sources' = sources
<1>1. CASE Supervise \/ Answer \/ Send \/ Deliver \/ Shutdown
           \/ UNCHANGED pipelineVars
  BY <1>1 DEF Supervise, Answer, Send, Deliver, Delivering, Shutdown,
              othersThanCamera, pipelineVars
<1>2. CASE Clock
  BY <1>2 DEF Clock, TrackerNext
<1>3. CASE Process
  <2>1. ASSUME NEW event \in Event, ProcessEvent(event)
        PROVE  [TrackerNext]_trackerVars
    <3>1. event.source \in Sources
      BY DEF Event
    <3> QED
      BY <2>1, <3>1
      DEF ProcessEvent, ProcessUnmatched, ProcessActive, ProcessInactive,
          ProcessUnknown, TrackerNext
  <2>2. CASE ProcessReset
    BY <2>2 DEF ProcessReset, TrackerNext
  <2>3. CASE \/ ProcessorReturns \/ SendAlarm \/ RecordSent
             \/ SendTimesOut \/ RecordDropped \/ RecordLoss
    BY <2>3
    DEF ProcessorReturns, SendAlarm, RecordSent, SendTimesOut, RecordDropped,
        RecordLoss, trackerVars
  <2> QED
    BY <1>3, <2>1, <2>2, <2>3 DEF Process, Processing, ProcessorStep
<1> QED
  BY <1>1, <1>2, <1>3 DEF PipelineNext

LEMMA TypedTracker == PipelineInv => SlotsTyped
BY DEF PipelineInv, DeliveryInv, ProcessorTypeOK

(* The map of the running bridge stays bounded, whatever the camera sends  *)
(* and however long the processor waits for the worker (state.rs:75).      *)
THEOREM PipelineMap == PipelineSafety => []SourceMapBounded
<1>1. PipelineInit => NamedSlotsFit
  BY NamedSlotsInit DEF PipelineInit, ProcessorInit
<1>2. PipelineInv /\ NamedSlotsFit /\ [PipelineNext]_pipelineVars
        => NamedSlotsFit'
  BY TrackerSteps, TypedTracker, NamedSlotsStep DEF NamedSlotsFit
<1> QED
  BY <1>1, <1>2, PipelineInvariant, NamedSlotsBoundMap, PTL DEF PipelineSafety

(* In the running bridge, too, a notification goes without an alert only   *)
(* because an alert of its slot is recent (state.rs, on_active).           *)
THEOREM PipelineSilence == PipelineSafety => []SilenceBounded
<1>1. PipelineInit => SilenceBounded
  BY DEF PipelineInit, ProcessorInit, TrackerInit, SilenceBounded
<1>2. PipelineInv /\ SilenceBounded /\ [PipelineNext]_pipelineVars
        => SilenceBounded'
  BY TrackerSteps, TypedTracker, SilenceStep DEF SilenceBounded
<1> QED
  BY <1>1, <1>2, PipelineInvariant, PTL DEF PipelineSafety

(* The whole bridge implements the contract of its alarms: seen through    *)
(* the slots of the tracker, every step of a task, of the clock or of the  *)
(* environment is a step the contract allows, or none (lib.rs, run).       *)
THEOREM BridgeImplementsContract == PipelineSafety => ImplementsContract
<1>1. PipelineInit => Contract!Init
  BY ContractInit DEF PipelineInit, ProcessorInit
<1>2. PipelineInv /\ [PipelineNext]_pipelineVars
        => [Contract!Next]_(Contract!vars)
  <2> SUFFICES ASSUME PipelineInv, [PipelineNext]_pipelineVars
               PROVE  [Contract!Next]_(Contract!vars)
    OBVIOUS
  <2>1. CASE [TrackerNext]_trackerVars
    BY <2>1, TypedTracker, ContractStep
  <2>2. CASE sources' = sources
    BY <2>2, QuietStep
  <2> QED
    BY <2>1, <2>2, TrackerSteps
<1> QED
  BY <1>1, <1>2, PipelineInvariant, PTL
  DEF PipelineSafety, ImplementsContract, Contract!Spec

------------------------------------------------------------------------------
(* The snapshot and the camera task beside the others.                     *)

(* Processor and worker never touch what the snapshot says of the camera.  *)
LEMMA OthersLeaveConnected ==
    ASSUME PipelineInv, Process \/ Deliver
    PROVE  /\ health'.camera_connected = health.camera_connected
           /\ camera' = camera
           /\ "supervisor" \in running => "supervisor" \in running'
<1>1. health \in HealthSnapshot(OtherTypes)
  BY ProcessorTypeParts DEF PipelineInv, DeliveryInv
<1>2. \/ health' \in {health, AlertSent(health), AlertDropped(health),
                      WebhookSuccess(health), WebhookFailure(health)}
      \/ \E type \in OtherTypes : health' = UnmatchedEventType(health, type)
  BY DEF Process, Deliver, Processing, Delivering,
         ProcessorStep, ProcessReset, ProcessEvent, ProcessUnmatched,
         ProcessActive, ProcessInactive, ProcessUnknown, ProcessorReturns,
         SendAlarm, SendTimesOut, RecordSent, RecordDropped, RecordLoss,
         WorkerStep, TakeAlarm, WorkerReturns, AttemptEnds, PauseEnds,
         RecordSuccess, RecordFailure
<1>3. health'.camera_connected = health.camera_connected
  BY <1>1, <1>2
  DEF AlertSent, AlertDropped, WebhookSuccess, WebhookFailure,
      UnmatchedEventType, HealthSnapshot
<1>4. /\ camera' = camera
      /\ "supervisor" \in running => "supervisor" \in running'
  BY DEF Process, Deliver, Processing, Delivering,
         ProcessorStep, ProcessReset, ProcessEvent, ProcessUnmatched,
         ProcessActive, ProcessInactive, ProcessUnknown, ProcessorReturns,
         SendAlarm, SendTimesOut, RecordSent, RecordDropped, RecordLoss,
         WorkerStep, TakeAlarm, WorkerReturns, AttemptEnds, PauseEnds,
         RecordSuccess, RecordFailure, Return
<1> QED
  BY <1>3, <1>4

LEMMA CameraSideIsSupervisor ==
    ASSUME Supervise \/ Answer \/ Send \/ Clock
    PROVE  SupervisorNext
BY DEF Supervise, Answer, Send, Clock, SupervisorNext

(* In the running bridge the snapshot says connected only during a         *)
(* session: no update of another task turns it green (camera.rs,           *)
(* supervisor; health.rs).                                                 *)
THEOREM PipelineConnected == PipelineSafety => []ConnectedInSession
<1>1. PipelineInit => ConnectedInSession
  BY DEF PipelineInit, BridgeInit, NewHealth, ConnectedInSession
<1>2. PipelineInv /\ ConnectedInSession /\ [PipelineNext]_pipelineVars
        => ConnectedInSession'
  <2> SUFFICES ASSUME PipelineInv, ConnectedInSession,
                      [PipelineNext]_pipelineVars
               PROVE  ConnectedInSession'
    OBVIOUS
  <2>1. CASE Supervise \/ Answer \/ Send \/ Clock
    <3>1. camera \in CameraRecord /\ health \in HealthSnapshot(OtherTypes)
      BY CameraTypeParts, ProcessorTypeParts DEF PipelineInv, DeliveryInv
    <3> QED
      BY <2>1, <3>1, CameraSideIsSupervisor, SnapshotKept
  <2>2. CASE Process \/ Deliver
    BY <2>2, OthersLeaveConnected DEF ConnectedInSession, InPhase
  <2>3. CASE Shutdown \/ UNCHANGED pipelineVars
    BY <2>3 DEF Shutdown, pipelineVars, ConnectedInSession, InPhase
  <2> QED
    BY <2>1, <2>2, <2>3 DEF PipelineNext
<1> QED
  BY <1>1, <1>2, PipelineInvariant, PTL DEF PipelineSafety

(* The backoff is honest behind a full event channel, too, where the task  *)
(* waits to send its Reset for as long as the processor waits itself.      *)
THEOREM PipelineBackoff == PipelineSafety => DelayShrinksAfterHealthy
<1>1. PipelineInv /\ [PipelineNext]_pipelineVars
        => [camera'.delay < camera.delay
              => camera.started >= HEALTHY_SESSION]_supervisorVars
  <2> SUFFICES ASSUME PipelineInv, PipelineNext,
                      camera'.delay < camera.delay
               PROVE  camera.started >= HEALTHY_SESSION
    BY DEF pipelineVars, supervisorVars
  <2>1. camera \in CameraRecord /\ camera.delay \in Delays
    BY CameraTypeParts DEF PipelineInv, CameraRecord
  <2>2. ~(camera.delay < camera.delay)
    BY <2>1, CameraAssumption DEF Delays
  <2>3. camera' # camera
    BY <2>2
  <2>4. Supervise \/ Answer \/ Send \/ Clock
    BY <2>3, OthersLeaveConnected DEF PipelineNext, Shutdown
  <2> QED
    BY <2>1, <2>4, CameraSideIsSupervisor, DelayStep
<1> QED
  BY <1>1, PipelineInvariant, PTL DEF PipelineSafety, DelayShrinksAfterHealthy

------------------------------------------------------------------------------
(* The worker beside the others.                                           *)

(* In the running bridge a delivery recorded as a success rang the alarm,  *)
(* and none rings more often than it was attempted (webhook.rs, deliver).  *)
THEOREM PipelineSuccess == PipelineSafety => []SuccessRang
<1>1. PipelineInv => SuccessRang
  BY WorkerInvRang DEF PipelineInv, DeliveryInv
<1> QED
  BY <1>1, PipelineInvariant, PTL

(* Nothing the camera task does clears the error on /readyz, and neither   *)
(* does the processor: only a delivery that rang (health.rs:6, "latches"). *)
THEOREM PipelineErrorLatches == PipelineSafety => RedUntilRung
<1>1. PipelineInv /\ [PipelineNext]_pipelineVars
        => [health.webhook_error /\ ~health'.webhook_error
              => rung > 0]_deliveryVars
  <2> SUFFICES ASSUME PipelineInv, PipelineNext,
                      health.webhook_error, ~health'.webhook_error
               PROVE  rung > 0
    BY DEF pipelineVars, deliveryVars
  <2>1. health \in HealthSnapshot(OtherTypes)
    BY ProcessorTypeParts DEF PipelineInv, DeliveryInv
  <2>2. CASE Process \/ Deliver
    BY <2>2, DeliveryStep DEF Process, Deliver, PipelineInv, DeliveryNext
  <2>3. CASE Supervise \/ Answer \/ Send
    <3>1. health' \in {health, CameraConnected(health),
                       CameraDisconnected(health), MalformedFrame(health),
                       CameraEventDropped(health)}
      BY <2>3, CameraTouches DEF Supervise, Answer, Send
    <3> QED
      BY <2>1, <3>1
      DEF CameraConnected, CameraDisconnected, MalformedFrame,
          CameraEventDropped, HealthSnapshot
  <2>4. CASE Clock \/ Shutdown
    BY <2>4 DEF Clock, CameraTick, Shutdown
  <2> QED
    BY <2>2, <2>3, <2>4 DEF PipelineNext
<1> QED
  BY <1>1, PipelineInvariant, PTL DEF PipelineSafety, RedUntilRung

------------------------------------------------------------------------------
(* The tasks as run sees them.                                             *)

(* The snapshots that differ in two conditions at most.                    *)
TwoConditions ==
    [camera_connected : BOOLEAN,
     camera_reconnects : {0}, malformed_frames : {0},
     camera_events_dropped : {0}, alerts_dropped : {0}, alerts_sent : {0},
     unmatched_event_types : {{}},
     webhook_error : BOOLEAN,
     webhook_successes : {0}, webhook_failures : {0},
     probe_enabled : {TRUE}, probe_ok : {FALSE}]

LEMMA TwoTell ==
    ASSUME NEW f \in TwoConditions, NEW g \in TwoConditions,
           f.camera_connected = g.camera_connected,
           f.webhook_error = g.webhook_error
    PROVE  f = g
<1>1. /\ f.camera_reconnects = g.camera_reconnects
      /\ f.malformed_frames = g.malformed_frames
      /\ f.camera_events_dropped = g.camera_events_dropped
      /\ f.alerts_dropped = g.alerts_dropped
      /\ f.alerts_sent = g.alerts_sent
      /\ f.unmatched_event_types = g.unmatched_event_types
      /\ f.webhook_successes = g.webhook_successes
      /\ f.webhook_failures = g.webhook_failures
      /\ f.probe_enabled = g.probe_enabled /\ f.probe_ok = g.probe_ok
  BY DEF TwoConditions
<1> QED
  BY <1>1 DEF TwoConditions

LEMMA ConditionsOf ==
    ASSUME NEW g, g.camera_connected \in BOOLEAN, g.webhook_error \in BOOLEAN
    PROVE  /\ Conditions(g) \in TwoConditions
           /\ Conditions(g).camera_connected = g.camera_connected
           /\ Conditions(g).webhook_error = g.webhook_error
BY DEF Conditions, NewHealth, TwoConditions

LEMMA TasksMoveThem ==
    ASSUME NEW c \in TwoConditions
    PROVE  /\ /\ Run!CameraConnected(c) \in TwoConditions
              /\ Run!CameraConnected(c).camera_connected = TRUE
              /\ Run!CameraConnected(c).webhook_error = c.webhook_error
           /\ /\ Run!CameraDisconnected(c) \in TwoConditions
              /\ Run!CameraDisconnected(c).camera_connected = FALSE
              /\ Run!CameraDisconnected(c).webhook_error = c.webhook_error
           /\ /\ Run!WebhookSuccess(c) \in TwoConditions
              /\ Run!WebhookSuccess(c).camera_connected = c.camera_connected
              /\ Run!WebhookSuccess(c).webhook_error = FALSE
           /\ /\ Run!WebhookFailure(c) \in TwoConditions
              /\ Run!WebhookFailure(c).camera_connected = c.camera_connected
              /\ Run!WebhookFailure(c).webhook_error = TRUE
<1>1. /\ Run!Bump(c.camera_reconnects) = 0
      /\ Run!Bump(c.webhook_successes) = 0
      /\ Run!Bump(c.webhook_failures) = 0
  BY DEF TwoConditions, Run!Bump
<1>2. /\ Run!CameraConnected(c) \in TwoConditions
      /\ Run!CameraConnected(c).camera_connected = TRUE
      /\ Run!CameraConnected(c).webhook_error = c.webhook_error
  BY DEF TwoConditions, Run!CameraConnected
<1>3. /\ Run!CameraDisconnected(c) \in TwoConditions
      /\ Run!CameraDisconnected(c).camera_connected = FALSE
      /\ Run!CameraDisconnected(c).webhook_error = c.webhook_error
  BY <1>1 DEF TwoConditions, Run!CameraDisconnected
<1>4. /\ Run!WebhookSuccess(c) \in TwoConditions
      /\ Run!WebhookSuccess(c).camera_connected = c.camera_connected
      /\ Run!WebhookSuccess(c).webhook_error = FALSE
  BY <1>1 DEF TwoConditions, Run!WebhookSuccess
<1>5. /\ Run!WebhookFailure(c) \in TwoConditions
      /\ Run!WebhookFailure(c).camera_connected = c.camera_connected
      /\ Run!WebhookFailure(c).webhook_error = TRUE
  BY <1>1 DEF TwoConditions, Run!WebhookFailure
<1> QED
  BY <1>2, <1>3, <1>4, <1>5

(* An update of the snapshot is the same update of its conditions.         *)
LEMMA ConditionsMoved ==
    ASSUME NEW h \in HealthSnapshot(OtherTypes)
    PROVE  /\ Conditions(CameraConnected(h))
                = Run!CameraConnected(Conditions(h))
           /\ Conditions(CameraDisconnected(h))
                = Run!CameraDisconnected(Conditions(h))
           /\ Conditions(WebhookSuccess(h)) = Run!WebhookSuccess(Conditions(h))
           /\ Conditions(WebhookFailure(h)) = Run!WebhookFailure(Conditions(h))
<1>1. /\ CameraConnected(h).camera_connected = TRUE
      /\ CameraConnected(h).webhook_error = h.webhook_error
      /\ CameraDisconnected(h).camera_connected = FALSE
      /\ CameraDisconnected(h).webhook_error = h.webhook_error
      /\ WebhookSuccess(h).camera_connected = h.camera_connected
      /\ WebhookSuccess(h).webhook_error = FALSE
      /\ WebhookFailure(h).camera_connected = h.camera_connected
      /\ WebhookFailure(h).webhook_error = TRUE
  BY DEF HealthSnapshot, CameraConnected, CameraDisconnected, WebhookSuccess,
         WebhookFailure
<1>2. h.camera_connected \in BOOLEAN /\ h.webhook_error \in BOOLEAN
  BY DEF HealthSnapshot
<1> DEFINE c == Conditions(h)
<1>3. /\ c \in TwoConditions
      /\ c.camera_connected = h.camera_connected
      /\ c.webhook_error = h.webhook_error
  BY <1>2, ConditionsOf
<1> HIDE DEF c
<1>4. ASSUME NEW g, NEW f \in TwoConditions,
             f.camera_connected = g.camera_connected,
             f.webhook_error = g.webhook_error
      PROVE  Conditions(g) = f
  <2>1. g.camera_connected \in BOOLEAN /\ g.webhook_error \in BOOLEAN
    BY <1>4 DEF TwoConditions
  <2>2. /\ Conditions(g) \in TwoConditions
        /\ f.camera_connected = Conditions(g).camera_connected
        /\ f.webhook_error = Conditions(g).webhook_error
    BY <1>4, <2>1, ConditionsOf
  <2> QED
    BY <2>2, TwoTell
<1>5. Conditions(CameraConnected(h)) = Run!CameraConnected(c)
  <2>1. /\ Run!CameraConnected(c) \in TwoConditions
        /\ Run!CameraConnected(c).camera_connected
              = CameraConnected(h).camera_connected
        /\ Run!CameraConnected(c).webhook_error
              = CameraConnected(h).webhook_error
    BY <1>1, <1>3, TasksMoveThem
  <2> QED
    BY <1>4, <2>1
<1>6. Conditions(CameraDisconnected(h)) = Run!CameraDisconnected(c)
  <2>1. /\ Run!CameraDisconnected(c) \in TwoConditions
        /\ Run!CameraDisconnected(c).camera_connected
              = CameraDisconnected(h).camera_connected
        /\ Run!CameraDisconnected(c).webhook_error
              = CameraDisconnected(h).webhook_error
    BY <1>1, <1>3, TasksMoveThem
  <2> QED
    BY <1>4, <2>1
<1>7. Conditions(WebhookSuccess(h)) = Run!WebhookSuccess(c)
  <2>1. /\ Run!WebhookSuccess(c) \in TwoConditions
        /\ Run!WebhookSuccess(c).camera_connected
              = WebhookSuccess(h).camera_connected
        /\ Run!WebhookSuccess(c).webhook_error
              = WebhookSuccess(h).webhook_error
    BY <1>1, <1>3, TasksMoveThem
  <2> QED
    BY <1>4, <2>1
<1>8. Conditions(WebhookFailure(h)) = Run!WebhookFailure(c)
  <2>1. /\ Run!WebhookFailure(c) \in TwoConditions
        /\ Run!WebhookFailure(c).camera_connected
              = WebhookFailure(h).camera_connected
        /\ Run!WebhookFailure(c).webhook_error
              = WebhookFailure(h).webhook_error
    BY <1>1, <1>3, TasksMoveThem
  <2> QED
    BY <1>4, <2>1
<1> QED
  BY <1>5, <1>6, <1>7, <1>8 DEF c

(* The other updates only count.                                           *)
LEMMA ConditionsKept ==
    ASSUME NEW h \in HealthSnapshot(OtherTypes), NEW g,
           \/ g \in {h, MalformedFrame(h), CameraEventDropped(h),
                     AlertSent(h), AlertDropped(h)}
           \/ \E type \in OtherTypes : g = UnmatchedEventType(h, type)
    PROVE  Conditions(g) = Conditions(h)
<1>1. /\ g.camera_connected = h.camera_connected
      /\ g.webhook_error = h.webhook_error
  BY DEF HealthSnapshot, MalformedFrame, CameraEventDropped, AlertSent,
         AlertDropped, UnmatchedEventType
<1> QED
  BY <1>1 DEF Conditions

(* What one step does to them: nothing, one update by a task that is       *)
(* there, or the end of a task with a reason for it.                       *)
OnlyCounted(h) ==
    {h, MalformedFrame(h), CameraEventDropped(h), AlertSent(h),
     AlertDropped(h)}
    \cup {UnmatchedEventType(h, type) : type \in OtherTypes}

LEMMA CameraEffect ==
    ASSUME SupervisorStep \/ CameraAnswers \/ CameraSends
    PROVE  /\ cancelled' = cancelled
           /\ \/ /\ running' = running
                 /\ \/ health' \in OnlyCounted(health)
                    \/ /\ "supervisor" \in running
                       /\ health' \in {CameraConnected(health),
                                       CameraDisconnected(health)}
              \/ /\ "supervisor" \in running /\ cancelled
                 /\ running' = running \ {"supervisor"}
                 /\ health' \in {health, CameraDisconnected(health)}
BY DEF SupervisorStep, CameraAnswers, CameraSends, StopAtTop, StopAsleep,
       StartSession, CancelSession, IdleTimeout, StreamEnds, RequestFails,
       RequestSucceeds, ChunkDone, ReceiveChunk, SkipFrame, ForwardEvent,
       DropEvent, Disconnect, SendReset, WakeUp, Return, InPhase, AtFrame,
       OnlyCounted

LEMMA ProcessorEffect ==
    ASSUME ProcessorStep
    PROVE  /\ cancelled' = cancelled
           /\ \/ /\ running' = running
                 /\ \/ health' \in OnlyCounted(health)
                    \/ /\ "processor" \in running
                       /\ health' = WebhookFailure(health)
              \/ /\ "processor" \in running
                 /\ cancelled \/ "supervisor" \notin running
                 /\ running' = running \ {"processor"}
                 /\ health' = health
BY DEF ProcessorStep, ProcessReset, ProcessEvent, ProcessUnmatched,
       ProcessActive, ProcessInactive, ProcessUnknown, ProcessorReturns,
       SendAlarm, SendTimesOut, RecordSent, RecordDropped, RecordLoss,
       Return, ProcessorAt, OnlyCounted

LEMMA WorkerEffect ==
    ASSUME WorkerStep
    PROVE  /\ cancelled' = cancelled
           /\ \/ /\ running' = running
                 /\ \/ health' = health
                    \/ /\ "worker" \in running
                       /\ health' \in {WebhookSuccess(health),
                                       WebhookFailure(health)}
              \/ /\ "worker" \in running
                 /\ cancelled \/ "processor" \notin running
                 /\ running' = running \ {"worker"}
                 /\ health' = health
BY DEF WorkerStep, TakeAlarm, WorkerReturns, AttemptEnds, PauseEnds,
       RecordSuccess, RecordFailure, Return, WorkerAt

LEMMA TasksStep ==
    ASSUME PipelineInv, ConnectedInSession', [PipelineNext]_pipelineVars
    PROVE  [Run!TasksNext]_(Run!tasksVars)
<1>1. health \in HealthSnapshot(OtherTypes) /\ running \subseteq Tasks
  BY ProcessorTypeParts, CameraTypeParts DEF PipelineInv, DeliveryInv
<1>2. ASSUME running' = running, cancelled' = cancelled,
             health' \in OnlyCounted(health)
      PROVE  UNCHANGED Run!tasksVars
  BY <1>1, <1>2, ConditionsKept DEF OnlyCounted, Run!tasksVars, Run!joinSet
<1>3. ASSUME running' = running, cancelled' = cancelled,
             \/ /\ "supervisor" \in running
                /\ health' \in {CameraConnected(health),
                                CameraDisconnected(health)}
             \/ "worker" \in running /\ health' = WebhookSuccess(health)
             \/ /\ {"worker", "processor"} \cap running # {}
                /\ health' = WebhookFailure(health)
      PROVE  Run!TasksNext
  BY <1>1, <1>3, ConditionsMoved
  DEF Run!TasksNext, Run!TasksWrite, Run!joinSet
<1>4. ASSUME NEW t \in running, running' = running \ {t},
             cancelled' = cancelled,
             \/ cancelled
             \/ t = "processor" /\ "supervisor" \notin running
             \/ t = "worker" /\ "processor" \notin running,
             \/ health' = health
             \/ t = "supervisor" /\ health' = CameraDisconnected(health)
      PROVE  Run!TasksNext
  <2>1. t \in Run!Others /\ t # "server"
    BY <1>1 DEF Tasks, Run!Others
  <2>2. Run!End(t)
    BY <1>1, <1>4, <2>1 DEF Run!End
  <2>3. t = "supervisor" => ~Conditions(health)'.camera_connected
    <3>1. health' \in HealthSnapshot(OtherTypes)
      BY <1>1, <1>4, CameraUpdates
    <3>2. t = "supervisor" => ~health'.camera_connected
      BY <1>4 DEF ConnectedInSession, InPhase
    <3> QED
      BY <3>1, <3>2, ConditionsOf DEF HealthSnapshot
  <2>4. Run!TaskReturns(t)
    BY <1>1, <1>4, <2>2, <2>3, ConditionsMoved DEF Run!TaskReturns, Tasks
  <2> QED
    BY <2>1, <2>4 DEF Run!TasksNext
<1>5. CASE Supervise \/ Answer \/ Send
  BY <1>2, <1>3, <1>4, <1>5, CameraEffect DEF Supervise, Answer, Send
<1>6. CASE Process
  BY <1>2, <1>3, <1>4, <1>6, ProcessorEffect DEF Process, Processing
<1>7. CASE Deliver
  BY <1>2, <1>3, <1>4, <1>7, WorkerEffect DEF Deliver, Delivering, OnlyCounted
<1>8. CASE Shutdown
  BY <1>8 DEF Shutdown, Cancel, Run!TasksNext, Run!Cancelled, Run!joinSet
<1>9. CASE Clock \/ UNCHANGED pipelineVars
  BY <1>9 DEF Clock, CameraTick, pipelineVars, Run!tasksVars, Run!joinSet
<1> QED
  BY <1>5, <1>6, <1>7, <1>8, <1>9 DEF PipelineNext

(* What BridgeProcess takes the camera task, the processor and the worker  *)
(* to do is what they do, step by step, for all capacities and timers: how *)
(* they end, and which of them moves which condition of /readyz (lib.rs,   *)
(* run; health.rs).                                                        *)
THEOREM BridgeImplementsTasks == PipelineSafety => ImplementsTasks
<1>1. PipelineInit => Run!TasksInit
  <2> SUFFICES ASSUME PipelineInit PROVE Run!TasksInit
    OBVIOUS
  <2>1. /\ health = NewHealth(TRUE) /\ cancelled = FALSE
        /\ running = Tasks
    BY DEF PipelineInit, BridgeInit
  <2>2. Conditions(health) = Run!NewHealth(TRUE)
    BY <2>1 DEF Conditions, NewHealth, Run!NewHealth
  <2> QED
    BY <2>1, <2>2 DEF Run!TasksInit, Tasks, Run!Others
<1>2. PipelineInv /\ ConnectedInSession' /\ [PipelineNext]_pipelineVars
        => [Run!TasksNext]_(Run!tasksVars)
  BY TasksStep
<1> QED
  BY <1>1, <1>2, PipelineInvariant, PipelineConnected, PTL
  DEF PipelineSafety, ImplementsTasks, Run!TasksSpec
==============================================================================
