------------------------- MODULE AlertDeliveryProofs -------------------------
(***************************************************************************)
(* The books of the delivery balance for every number of sources, every    *)
(* capacity of the two channels and every number of attempts.              *)
(***************************************************************************)
EXTENDS AlertDelivery, FireTrackerProofs, SequenceTheorems, TLAPS

------------------------------------------------------------------------------
(* The worker: what WebhookWorker guarantees by itself, for every number of *)
(* attempts, every capacity of the alarm channel and whatever Protect       *)
(* answers.                                                                *)

(* The alarm has rung at most once per attempt that has ended.             *)
EndedAttempts == IF worker.phase = "attempt" THEN worker.attempt - 1
                                             ELSE worker.attempt

(* What makes SuccessRang inductive: an attempt that is still out has not  *)
(* rung, and a pause is for an attempt to come.                            *)
WorkerInv ==
    /\ WorkerTypeOK
    /\ rung <= EndedAttempts
    /\ worker.phase = "delivered" => rung >= 1
    /\ worker.phase = "idle" => worker.attempt = 0
    /\ worker.phase = "attempt" => worker.attempt >= 1
    /\ worker.phase = "pause" => worker.attempt < ATTEMPTS

LEMMA WorkerInitInv ==
    ASSUME alarms = << >>, WorkerInit PROVE WorkerInv
BY WorkerAssumption, BridgeAssumption, EmptySeq
DEF WorkerInit, WorkerInv, WorkerTypeOK, WorkerIdle, EndedAttempts

(* deliver: what an attempt leads to, and what it may have rung.           *)
LEMMA AttemptKeepsInv == ASSUME WorkerInv, AttemptEnds PROVE WorkerInv'
<1>1. worker.phase = "attempt" /\ UNCHANGED alarms
  BY DEF AttemptEnds, WorkerAt
<1>2. PICK answer \in Statuses \cup {NoAnswer}, rings \in BOOLEAN :
         /\ IsSuccess(answer) => rings
         /\ worker' = [worker EXCEPT !.phase = AfterAttempt(answer)]
         /\ rung' = IF rings THEN rung + 1 ELSE rung
  BY DEF AttemptEnds
<1>3. /\ worker.attempt \in 1 .. ATTEMPTS
      /\ rung \in 0 .. worker.attempt - 1
  BY <1>1, WorkerAssumption DEF WorkerInv, WorkerTypeOK, EndedAttempts
<1>4. rung' \in 0 .. worker.attempt /\ (rings => rung' >= 1)
  BY <1>2, <1>3
<1>5. /\ AfterAttempt(answer) \in {"delivered", "failed", "pause"}
      /\ AfterAttempt(answer) = "delivered" => IsSuccess(answer)
      /\ AfterAttempt(answer) = "pause" => worker.attempt < ATTEMPTS
  BY DEF AfterAttempt, GiveUpOrPause
<1>6. /\ worker' \in [phase : {"delivered", "failed", "pause"},
                      request : Requests \cup {Nothing},
                      attempt : 0 .. ATTEMPTS]
      /\ worker'.phase = AfterAttempt(answer)
      /\ worker'.attempt = worker.attempt
  BY <1>2, <1>5 DEF WorkerInv, WorkerTypeOK
<1>7. WorkerTypeOK'
  BY <1>1, <1>3, <1>4, <1>6, WorkerAssumption DEF WorkerInv, WorkerTypeOK
<1>8. /\ rung' <= worker'.attempt
      /\ worker'.phase # "attempt"
  BY <1>4, <1>6, <1>3
<1> QED
  BY <1>2, <1>4, <1>5, <1>6, <1>7, <1>8 DEF WorkerInv, EndedAttempts

LEMMA WorkerStepKeepsInv == ASSUME WorkerInv, WorkerStep PROVE WorkerInv'
<1>1. CASE TakeAlarm
  <2>1. Head(alarms) \in Requests /\ Tail(alarms) \in Seq(Requests)
        /\ Len(Tail(alarms)) = Len(alarms) - 1
    BY <1>1, HeadTailProperties DEF TakeAlarm, WorkerInv, WorkerTypeOK
  <2>2. Len(alarms) \in Nat
    BY LenProperties DEF WorkerInv, WorkerTypeOK
  <2>3. rung = 0
    BY <1>1 DEF TakeAlarm, WorkerAt, WorkerInv, WorkerTypeOK, EndedAttempts
  <2>4. /\ worker' = [phase |-> "attempt", request |-> Head(alarms),
                      attempt |-> 1]
        /\ alarms' = Tail(alarms) /\ rung' = 0
    BY <1>1, <2>3 DEF TakeAlarm
  <2>5. WorkerTypeOK'
    BY <2>1, <2>2, <2>4, WorkerAssumption, BridgeAssumption
    DEF WorkerInv, WorkerTypeOK
  <2>6. worker'.phase = "attempt" /\ worker'.attempt = 1 /\ rung' = 0
    BY <2>4
  <2> QED
    BY <2>5, <2>6 DEF WorkerInv, EndedAttempts
<1>2. CASE WorkerReturns
  BY <1>2, EmptySeq, BridgeAssumption
  DEF WorkerReturns, WorkerInv, WorkerTypeOK, EndedAttempts
<1>3. CASE AttemptEnds
  BY <1>3, AttemptKeepsInv
<1>4. CASE PauseEnds
  <2>1. /\ worker.attempt \in 0 .. ATTEMPTS - 1
        /\ rung \in 0 .. worker.attempt
    BY <1>4, WorkerAssumption
    DEF PauseEnds, WorkerAt, WorkerInv, WorkerTypeOK, EndedAttempts
  <2>2. /\ worker'.phase = "attempt"
        /\ worker'.attempt = worker.attempt + 1
        /\ UNCHANGED <<rung, alarms>>
    BY <1>4 DEF PauseEnds, WorkerInv, WorkerTypeOK
  <2>3. WorkerTypeOK'
    <3>1. worker.attempt + 1 \in 0 .. ATTEMPTS
      BY <2>1, WorkerAssumption
    <3> QED
      BY <1>4, <2>2, <3>1 DEF PauseEnds, WorkerInv, WorkerTypeOK
  <2> QED
    BY <2>1, <2>2, <2>3 DEF WorkerInv, EndedAttempts
<1>5. CASE RecordSuccess \/ RecordFailure
  BY <1>5, WorkerAssumption
  DEF RecordSuccess, RecordFailure, WorkerIdle, WorkerInv, WorkerTypeOK,
      EndedAttempts
<1> QED
  BY <1>1, <1>2, <1>3, <1>4, <1>5 DEF WorkerStep

LEMMA RequestKeepsInv ==
    ASSUME WorkerInv, NEW request \in Requests, Len(alarms) < ALARM_QUEUE,
           alarms' = Append(alarms, request), UNCHANGED <<worker, rung>>
    PROVE  WorkerInv'
<1>1. alarms' \in Seq(Requests) /\ Len(alarms') = Len(alarms) + 1
  BY AppendProperties DEF WorkerInv, WorkerTypeOK
<1> QED
  BY <1>1, LenProperties, BridgeAssumption
  DEF WorkerInv, WorkerTypeOK, EndedAttempts

(* The invariant of the worker by itself.                                  *)
THEOREM WorkerInvariant == WorkerSpec => []WorkerInv
<1>1. AloneInit => WorkerInv
  BY WorkerInitInv DEF AloneInit, BridgeInit
<1>2. WorkerInv /\ [WorkerNext]_workerVars => WorkerInv'
  <2> SUFFICES ASSUME WorkerInv, [WorkerNext]_workerVars PROVE WorkerInv'
    OBVIOUS
  <2>1. CASE WorkerStep
    BY <2>1, WorkerStepKeepsInv
  <2>2. ASSUME NEW request \in Requests, RequestArrives(request)
        PROVE  WorkerInv'
    BY <2>2, RequestKeepsInv DEF RequestArrives
  <2>3. CASE SenderStops \/ WorkerCancelled \/ UNCHANGED workerVars
    BY <2>3 DEF SenderStops, WorkerCancelled, workerVars, WorkerInv,
                WorkerTypeOK, EndedAttempts
  <2>4. CASE WorkerAborted
    <3>1. alarms' = << >> /\ UNCHANGED <<worker, rung>>
      BY <2>4 DEF WorkerAborted
    <3>2. alarms' \in Seq(Requests) /\ Len(alarms') <= ALARM_QUEUE
      BY <3>1, LenProperties, BridgeAssumption
    <3> QED
      BY <3>1, <3>2 DEF WorkerInv, WorkerTypeOK, EndedAttempts
  <2> QED
    BY <2>1, <2>2, <2>3, <2>4 DEF WorkerNext
<1> QED
  BY <1>1, <1>2, PTL DEF WorkerSpec

(* The worker keeps its types, and never counts past its attempts          *)
(* (webhook.rs, deliver).                                                  *)
THEOREM WorkerTypes == WorkerSpec => []WorkerTypeOK
<1>1. WorkerInv => WorkerTypeOK
  BY DEF WorkerInv
<1> QED
  BY <1>1, WorkerInvariant, PTL

LEMMA WorkerInvRang == WorkerInv => SuccessRang
BY WorkerAssumption DEF WorkerInv, WorkerTypeOK, SuccessRang, EndedAttempts

(* At least once, for every number of attempts: a delivery recorded as a   *)
(* success rang, and none rings more often than it was attempted           *)
(* (webhook.rs, deliver).                                                  *)
THEOREM SuccessIsReal == WorkerSpec => []SuccessRang
BY WorkerInvRang, WorkerInvariant, PTL

------------------------------------------------------------------------------
(* The processor and the worker together.                                  *)

(* What is sent is a request.                                              *)
RequestInHand == processor.phase = "send" => processor.request \in AlarmRequest

(* The inductive invariant.  The worker's own is needed for its types.     *)
DeliveryInv ==
    ProcessorTypeOK /\ RequestInHand /\ WorkerInv /\ AlertsAccounted

------------------------------------------------------------------------------
(* The updates of the snapshot, and which counters they move.              *)

SameCounters(g, h) ==
    /\ g.alerts_sent = h.alerts_sent
    /\ g.alerts_dropped = h.alerts_dropped
    /\ g.webhook_successes = h.webhook_successes
    /\ g.webhook_failures = h.webhook_failures

LEMMA BumpType ==
    ASSUME NEW n \in 0 .. COUNTER_CAP
    PROVE  /\ Bump(n) \in 0 .. COUNTER_CAP
           /\ Bump(n) < COUNTER_CAP => Bump(n) = n + 1 /\ n < COUNTER_CAP
BY HealthAssumption DEF Bump

LEMMA CounterUpdates ==
    ASSUME NEW h \in HealthSnapshot(OtherTypes)
    PROVE  /\ AlertSent(h) \in HealthSnapshot(OtherTypes)
           /\ AlertSent(h).alerts_sent = Bump(h.alerts_sent)
           /\ AlertSent(h).alerts_dropped = h.alerts_dropped
           /\ AlertSent(h).webhook_successes = h.webhook_successes
           /\ AlertSent(h).webhook_failures = h.webhook_failures
           /\ AlertSent(h).webhook_error = h.webhook_error
           /\ AlertDropped(h) \in HealthSnapshot(OtherTypes)
           /\ AlertDropped(h).alerts_sent = h.alerts_sent
           /\ AlertDropped(h).alerts_dropped = Bump(h.alerts_dropped)
           /\ AlertDropped(h).webhook_successes = h.webhook_successes
           /\ AlertDropped(h).webhook_failures = h.webhook_failures
           /\ AlertDropped(h).webhook_error = h.webhook_error
<1>1. /\ Bump(h.alerts_sent) \in 0 .. COUNTER_CAP
      /\ Bump(h.alerts_dropped) \in 0 .. COUNTER_CAP
  BY BumpType DEF HealthSnapshot
<1> QED
  BY <1>1 DEF AlertSent, AlertDropped, HealthSnapshot

LEMMA OutcomeUpdates ==
    ASSUME NEW h \in HealthSnapshot(OtherTypes)
    PROVE  /\ WebhookSuccess(h) \in HealthSnapshot(OtherTypes)
           /\ WebhookSuccess(h).alerts_sent = h.alerts_sent
           /\ WebhookSuccess(h).alerts_dropped = h.alerts_dropped
           /\ WebhookSuccess(h).webhook_successes = Bump(h.webhook_successes)
           /\ WebhookSuccess(h).webhook_failures = h.webhook_failures
           /\ WebhookFailure(h) \in HealthSnapshot(OtherTypes)
           /\ WebhookFailure(h).alerts_sent = h.alerts_sent
           /\ WebhookFailure(h).alerts_dropped = h.alerts_dropped
           /\ WebhookFailure(h).webhook_successes = h.webhook_successes
           /\ WebhookFailure(h).webhook_failures = Bump(h.webhook_failures)
           /\ WebhookFailure(h).webhook_error
<1>1. /\ Bump(h.webhook_successes) \in 0 .. COUNTER_CAP
      /\ Bump(h.webhook_failures) \in 0 .. COUNTER_CAP
  BY BumpType DEF HealthSnapshot
<1> QED
  BY <1>1 DEF WebhookSuccess, WebhookFailure, HealthSnapshot

LEMMA UnmatchedUpdate ==
    ASSUME NEW h \in HealthSnapshot(OtherTypes), NEW t \in OtherTypes
    PROVE  /\ UnmatchedEventType(h, t) \in HealthSnapshot(OtherTypes)
           /\ SameCounters(UnmatchedEventType(h, t), h)
           /\ UnmatchedEventType(h, t).webhook_error = h.webhook_error
BY DEF UnmatchedEventType, HealthSnapshot, SameCounters

LEMMA CountersAreNaturals ==
    ASSUME NEW h \in HealthSnapshot(OtherTypes)
    PROVE  /\ h.alerts_sent \in 0 .. COUNTER_CAP
           /\ h.alerts_dropped \in 0 .. COUNTER_CAP
           /\ h.webhook_successes \in 0 .. COUNTER_CAP
           /\ h.webhook_failures \in 0 .. COUNTER_CAP
BY DEF HealthSnapshot

------------------------------------------------------------------------------
(* The balance, read off the six quantities it relates.                    *)

Balanced(sent, dropped, ok, bad, phase, held) ==
    (/\ sent < COUNTER_CAP
     /\ dropped < COUNTER_CAP
     /\ ok < COUNTER_CAP
     /\ bad < COUNTER_CAP)
    => (sent + One(phase = "sent")) + (dropped - One(phase = "failing"))
         = (ok + bad) + held

(* The alerts between the two tasks: queued, or in the worker's hands.     *)
Held == Len(alarms) + One(worker.phase # "idle")

(* How each step moves one alert from one place to another.                *)
LEMMA Moves ==
    ASSUME NEW s \in 0 .. COUNTER_CAP, NEW d \in 0 .. COUNTER_CAP,
           NEW o \in 0 .. COUNTER_CAP, NEW b \in 0 .. COUNTER_CAP,
           NEW held \in Nat
    PROVE  /\ Balanced(s, d, o, b, "send", held)
                => Balanced(s, d, o, b, "sent", held + 1)
           /\ Balanced(s, d, o, b, "sent", held)
                => Balanced(Bump(s), d, o, b, "receive", held)
           /\ Balanced(s, d, o, b, "dropped", held)
                => Balanced(s, Bump(d), o, b, "failing", held)
           /\ Balanced(s, d, o, b, "failing", held)
                => Balanced(s, d, o, Bump(b), "receive", held)
<1>0. s \in Nat /\ d \in Nat /\ o \in Nat /\ b \in Nat /\ COUNTER_CAP \in Nat
  BY HealthAssumption
<1>1. \A n \in {s, d, b} :
         Bump(n) < COUNTER_CAP => Bump(n) = n + 1 /\ n < COUNTER_CAP
  BY BumpType
<1> QED
  BY <1>0, <1>1 DEF Balanced, One

LEMMA WorkerMoves ==
    ASSUME NEW s \in 0 .. COUNTER_CAP, NEW d \in 0 .. COUNTER_CAP,
           NEW o \in 0 .. COUNTER_CAP, NEW b \in 0 .. COUNTER_CAP,
           NEW held \in Nat, NEW phase, Balanced(s, d, o, b, phase, held + 1)
    PROVE  /\ Balanced(s, d, Bump(o), b, phase, held)
           /\ Balanced(s, d, o, Bump(b), phase, held)
<1>0. s \in Nat /\ d \in Nat /\ o \in Nat /\ b \in Nat /\ COUNTER_CAP \in Nat
  BY HealthAssumption
<1>1. \A n \in {o, b} :
         Bump(n) < COUNTER_CAP => Bump(n) = n + 1 /\ n < COUNTER_CAP
  BY BumpType
<1> QED
  BY <1>0, <1>1 DEF Balanced, One

LEMMA HeldType ==
    ASSUME alarms \in Seq(AlarmRequest)
    PROVE  Len(alarms) \in Nat /\ Held \in Nat
BY LenProperties DEF Held, One

LEMMA BalanceRead ==
    ASSUME health \in HealthSnapshot(OtherTypes), alarms \in Seq(AlarmRequest),
           AlertsAccounted, "worker" \in running
    PROVE  Balanced(health.alerts_sent, health.alerts_dropped,
                    health.webhook_successes, health.webhook_failures,
                    processor.phase, Held)
<1> DEFINE busy == One(worker.phase # "idle")
           sent == health.alerts_sent + One(processor.phase = "sent")
           lost == health.alerts_dropped - One(processor.phase = "failing")
           done == health.webhook_successes + health.webhook_failures
<1>1. busy \in Nat /\ Len(alarms) \in Nat
  BY HeldType DEF One
<1>2. done \in Nat
  BY CountersAreNaturals, HealthAssumption
<1> HIDE DEF busy, sent, lost, done
<1>3. sent + lost = done + Len(alarms) + busy
        => sent + lost = done + (Len(alarms) + busy)
  BY <1>1, <1>2
<1> QED
  BY <1>3 DEF AlertsAccounted, Balanced, Held, busy, sent, lost, done

LEMMA BalanceWritten ==
    ASSUME health' \in HealthSnapshot(OtherTypes),
           alarms' \in Seq(AlarmRequest),
           NEW s, NEW d, NEW o, NEW b, NEW phase, NEW held,
           s = health'.alerts_sent, d = health'.alerts_dropped,
           o = health'.webhook_successes, b = health'.webhook_failures,
           phase = processor'.phase, held = Held',
           Balanced(s, d, o, b, phase, held)
    PROVE  AlertsAccounted'
<1> DEFINE busy == One(worker'.phase # "idle")
           sent == health'.alerts_sent + One(processor'.phase = "sent")
           lost == health'.alerts_dropped - One(processor'.phase = "failing")
           done == health'.webhook_successes + health'.webhook_failures
<1>1. busy \in Nat /\ Len(alarms') \in Nat
  BY LenProperties DEF One
<1>2. done \in Nat
  BY CountersAreNaturals, HealthAssumption
<1> HIDE DEF busy, sent, lost, done
<1>3. sent + lost = done + (Len(alarms') + busy)
        => sent + lost = done + Len(alarms') + busy
  BY <1>1, <1>2
<1> QED
  BY <1>3 DEF AlertsAccounted, Balanced, Held, busy, sent, lost, done

(* A step that leaves the quantities alone leaves the balance.             *)
LEMMA BalanceKept ==
    ASSUME AlertsAccounted, SameCounters(health', health),
           "worker" \in running' => "worker" \in running,
           processor'.phase \in {"sent", "failing"}
              \/ processor.phase \in {"sent", "failing"}
              => processor'.phase = processor.phase,
           alarms' = alarms,
           worker'.phase = "idle" <=> worker.phase = "idle"
    PROVE  AlertsAccounted'
BY DEF AlertsAccounted, SameCounters, One

------------------------------------------------------------------------------
(* The processor's steps.                                                  *)

ProcessorRecord ==
    [phase : {"receive", "send", "sent", "dropped", "failing"},
     request : AlarmRequest \cup {NoRequest}]

LEMMA AdvanceType ==
    ASSUME processor \in ProcessorRecord,
           NEW p \in {"receive", "send", "sent", "dropped", "failing"},
           Advance(p)
    PROVE  processor' \in ProcessorRecord /\ processor'.phase = p
BY DEF Advance, ProcessorRecord

LEMMA ReceivingType ==
    Receiving \in ProcessorRecord /\ Receiving.phase = "receive"
BY DEF Receiving, ProcessorRecord

LEMMA ProcessorTypeParts ==
    ProcessorTypeOK <=>
        /\ SlotsTyped
        /\ processor \in ProcessorRecord
        /\ events \in Seq(StreamItem)
        /\ alarms \in Seq(AlarmRequest) /\ Len(alarms) <= ALARM_QUEUE
        /\ health \in HealthSnapshot(OtherTypes)
BY DEF ProcessorTypeOK, ProcessorRecord

LEMMA RequestIsTyped ==
    ASSUME SlotsTyped', NEW r \in raised'
    PROVE  [phase |-> "send", request |-> r] \in ProcessorRecord
           /\ r \in AlarmRequest
BY DEF SlotsTyped, ProcessorRecord, AlarmRequest

(* The tracker's part of a step of the processor: one of its operations,   *)
(* or an alert that has been dealt with.                                   *)
LEMMA TrackerPart ==
    ASSUME SlotsTyped, ProcessorStep
    PROVE  SlotsTyped'
<1>1. CASE ProcessReset
  BY <1>1, TypeStep DEF ProcessReset, TrackerNext
<1>2. ASSUME NEW event \in Event, ProcessEvent(event)
      PROVE  SlotsTyped'
  <2>1. event.source \in Sources
    BY DEF Event
  <2>2. [TrackerNext]_trackerVars
    BY <1>2, <2>1
    DEF ProcessEvent, ProcessUnmatched, ProcessActive, ProcessInactive,
        ProcessUnknown, TrackerNext
  <2> QED
    BY <2>2, TypeStep
<1>3. CASE SendAlarm \/ SendTimesOut
  BY <1>3 DEF SendAlarm, SendTimesOut, SlotsTyped
<1>4. CASE ProcessorReturns \/ RecordSent \/ RecordDropped \/ RecordLoss
  BY <1>4 DEF ProcessorReturns, RecordSent, RecordDropped, RecordLoss,
              SlotsTyped, trackerVars
<1> QED
  BY <1>1, <1>2, <1>3, <1>4 DEF ProcessorStep

(* What a step takes from the event channel.                               *)
LEMMA EventsPart ==
    ASSUME events \in Seq(StreamItem), ProcessorStep
    PROVE  events' \in Seq(StreamItem)
<1>1. \/ events' = events
      \/ events' = << >>
      \/ events # << >> /\ events' = Tail(events)
  BY DEF ProcessorStep, ProcessReset, ProcessEvent, ProcessUnmatched,
         ProcessActive, ProcessInactive, ProcessUnknown, Receives,
         ProcessorReturns, SendAlarm, SendTimesOut, RecordSent,
         RecordDropped, RecordLoss
<1> QED
  BY <1>1, EmptySeq, HeadTailProperties

(* A quiet step of the processor: no alert is counted, queued or finished. *)
LEMMA QuietProcessing ==
    ASSUME DeliveryInv, UNCHANGED <<worker, rung, alarms>>,
           SameCounters(health', health),
           health' \in HealthSnapshot(OtherTypes),
           processor' \in ProcessorRecord,
           processor.phase \in {"receive", "send"},
           processor'.phase \in {"receive", "send", "dropped"},
           "worker" \in running' => "worker" \in running,
           ProcessorStep, RequestInHand'
    PROVE  DeliveryInv'
<1>1. ProcessorTypeOK'
  BY ProcessorTypeParts, TrackerPart, EventsPart
  DEF DeliveryInv, ProcessorTypeOK, ProcessorRecord
<1>2. WorkerInv'
  BY DEF DeliveryInv, WorkerInv, WorkerTypeOK, EndedAttempts
<1>3. AlertsAccounted'
  BY BalanceKept DEF DeliveryInv
<1> QED
  BY <1>1, <1>2, <1>3 DEF DeliveryInv

LEMMA OneItem ==
    ASSUME DeliveryInv, UNCHANGED <<worker, rung>>,
           ProcessReset \/ \E event \in Event : ProcessEvent(event)
    PROVE  DeliveryInv' /\ health'.webhook_error = health.webhook_error
<1>0. /\ ProcessorStep /\ SlotsTyped
      /\ processor \in ProcessorRecord /\ processor.phase = "receive"
      /\ health \in HealthSnapshot(OtherTypes)
      /\ alarms' = alarms /\ running' = running
  BY ProcessorTypeParts
  DEF ProcessorStep, DeliveryInv, ProcessReset, ProcessEvent,
      ProcessUnmatched, ProcessActive, ProcessInactive, ProcessUnknown,
      Receives, ProcessorAt
<1>1. CASE ProcessReset
  BY <1>0, <1>1, QuietProcessing
  DEF ProcessReset, SameCounters, RequestInHand
<1>2. ASSUME NEW event \in Event, ProcessEvent(event)
      PROVE  DeliveryInv' /\ health'.webhook_error = health.webhook_error
  <2>1. CASE ProcessUnmatched(event)
    <3>1. /\ event.event_type \in OtherTypes
          /\ health' = UnmatchedEventType(health, event.event_type)
          /\ processor' = processor
      BY <2>1 DEF ProcessUnmatched
    <3> QED
      BY <1>0, <3>1, UnmatchedUpdate, QuietProcessing DEF RequestInHand
  <2>2. CASE ProcessActive(event)
    <3>1. SlotsTyped'
      BY <1>0, TrackerPart
    <3>2. /\ processor' \in ProcessorRecord
          /\ processor'.phase \in {"receive", "send"}
          /\ RequestInHand'
          /\ health' = health
      BY <1>0, <2>2, <3>1, RequestIsTyped DEF ProcessActive, RequestInHand
    <3> QED
      BY <1>0, <3>2, QuietProcessing DEF SameCounters
  <2>3. CASE ProcessInactive(event) \/ ProcessUnknown(event)
    <3>1. processor' = processor /\ health' = health
      BY <2>3 DEF ProcessInactive, ProcessUnknown
    <3> QED
      BY <1>0, <3>1, QuietProcessing DEF SameCounters, RequestInHand
  <2> QED
    BY <1>2, <2>1, <2>2, <2>3 DEF ProcessEvent
<1> QED
  BY <1>1, <1>2

(* The other steps of the processor: each moves an alert by one place, from *)
(* its hand to the channel, or to a counter.                               *)
LEMMA OneAlert ==
    ASSUME DeliveryInv, UNCHANGED <<worker, rung>>,
           \/ ProcessorReturns \/ SendAlarm \/ RecordSent
           \/ SendTimesOut \/ RecordDropped \/ RecordLoss
    PROVE  /\ DeliveryInv'
           /\ health.webhook_error => health'.webhook_error
<1>0. /\ ProcessorStep /\ SlotsTyped
      /\ processor \in ProcessorRecord
      /\ health \in HealthSnapshot(OtherTypes)
      /\ alarms \in Seq(AlarmRequest) /\ Len(alarms) \in Nat
      /\ events \in Seq(StreamItem)
  BY ProcessorTypeParts, LenProperties DEF ProcessorStep, DeliveryInv
<1>1. SlotsTyped' /\ events' \in Seq(StreamItem)
  BY <1>0, TrackerPart, EventsPart
<1>2. CASE ProcessorReturns
  <2>1. /\ processor' = processor /\ processor.phase = "receive"
        /\ health' = health /\ alarms' = alarms
        /\ "worker" \in running' => "worker" \in running
    BY <1>2 DEF ProcessorReturns, ProcessorAt, Return
  <2> QED
    BY <1>0, <2>1, QuietProcessing DEF SameCounters, RequestInHand
<1>3. CASE SendTimesOut
  <2>1. /\ processor' \in ProcessorRecord /\ processor'.phase = "dropped"
        /\ processor.phase = "send"
        /\ health' = health /\ alarms' = alarms /\ running' = running
    BY <1>0, <1>3, AdvanceType DEF SendTimesOut, ProcessorAt
  <2> QED
    BY <1>0, <2>1, QuietProcessing DEF SameCounters, RequestInHand
<1>4. CASE SendAlarm
  <2>1. /\ processor' \in ProcessorRecord /\ processor'.phase = "sent"
        /\ processor.phase = "send"
        /\ health' = health /\ running' = running
        /\ alarms' = Append(alarms, processor.request)
        /\ Len(alarms) < ALARM_QUEUE
        /\ processor.request \in AlarmRequest
        /\ "worker" \in running
    BY <1>0, <1>4, AdvanceType
    DEF SendAlarm, ProcessorAt, AlarmRoom, DeliveryInv, RequestInHand
  <2>2. /\ alarms' \in Seq(AlarmRequest)
        /\ Len(alarms') = Len(alarms) + 1
        /\ Len(alarms') <= ALARM_QUEUE
    BY <1>0, <2>1, AppendProperties, BridgeAssumption
  <2>3. ProcessorTypeOK' /\ RequestInHand'
    BY <1>0, <1>1, <2>1, <2>2
    DEF ProcessorTypeOK, ProcessorRecord, RequestInHand
  <2>4. WorkerInv'
    BY <2>1, RequestKeepsInv, DeliveryAssumption DEF DeliveryInv
  <2>5. AlertsAccounted'
    <3>1. Balanced(health.alerts_sent, health.alerts_dropped,
                   health.webhook_successes, health.webhook_failures,
                   "send", Held)
      BY <1>0, <2>1, BalanceRead DEF DeliveryInv
    <3>2. Balanced(health.alerts_sent, health.alerts_dropped,
                   health.webhook_successes, health.webhook_failures,
                   "sent", Held + 1)
      BY <1>0, <3>1, HeldType, CountersAreNaturals, Moves
    <3>3. Held' = Held + 1
      BY <1>0, <2>2 DEF Held, One
    <3> QED
      BY <1>0, <2>1, <2>2, <3>2, <3>3, BalanceWritten
  <2> QED
    BY <2>1, <2>3, <2>4, <2>5 DEF DeliveryInv
<1>5. CASE RecordSent \/ RecordDropped \/ RecordLoss
  <2>1. /\ alarms' = alarms /\ running' = running
    BY <1>5 DEF RecordSent, RecordDropped, RecordLoss
  <2>2. /\ processor' \in ProcessorRecord
        /\ processor'.phase \in {"receive", "failing"}
        /\ health' \in HealthSnapshot(OtherTypes)
    BY <1>0, <1>5, AdvanceType, ReceivingType, CounterUpdates, OutcomeUpdates
    DEF RecordSent, RecordDropped, RecordLoss
  <2>3. ProcessorTypeOK' /\ RequestInHand' /\ WorkerInv'
    BY <1>0, <1>1, <2>1, <2>2
    DEF DeliveryInv, ProcessorTypeOK, ProcessorRecord, RequestInHand,
        WorkerInv, WorkerTypeOK, EndedAttempts
  <2>4. AlertsAccounted'
    <3> SUFFICES ASSUME "worker" \in running PROVE AlertsAccounted'
      BY <2>1 DEF AlertsAccounted
    <3>0. Held' = Held
      BY <2>1 DEF Held
    <3>1. Balanced(health.alerts_sent, health.alerts_dropped,
                   health.webhook_successes, health.webhook_failures,
                   processor.phase, Held)
      BY <1>0, BalanceRead DEF DeliveryInv
    <3>2. CASE RecordSent
      <4>1. /\ processor.phase = "sent" /\ processor'.phase = "receive"
            /\ health' = AlertSent(health)
        BY <1>0, <3>2, ReceivingType DEF RecordSent, ProcessorAt
      <4>2. Balanced(Bump(health.alerts_sent), health.alerts_dropped,
                     health.webhook_successes, health.webhook_failures,
                     "receive", Held)
        BY <1>0, <3>1, <4>1, HeldType, CountersAreNaturals, Moves
      <4> QED
        BY <1>0, <2>1, <2>2, <3>0, <4>1, <4>2, CounterUpdates, BalanceWritten
    <3>3. CASE RecordDropped
      <4>1. /\ processor.phase = "dropped" /\ processor'.phase = "failing"
            /\ health' = AlertDropped(health)
        BY <1>0, <3>3, AdvanceType DEF RecordDropped, ProcessorAt
      <4>2. Balanced(health.alerts_sent, Bump(health.alerts_dropped),
                     health.webhook_successes, health.webhook_failures,
                     "failing", Held)
        BY <1>0, <3>1, <4>1, HeldType, CountersAreNaturals, Moves
      <4> QED
        BY <1>0, <2>1, <2>2, <3>0, <4>1, <4>2, CounterUpdates, BalanceWritten
    <3>4. CASE RecordLoss
      <4>1. /\ processor.phase = "failing" /\ processor'.phase = "receive"
            /\ health' = WebhookFailure(health)
        BY <1>0, <3>4, ReceivingType DEF RecordLoss, ProcessorAt
      <4>2. Balanced(health.alerts_sent, health.alerts_dropped,
                     health.webhook_successes, Bump(health.webhook_failures),
                     "receive", Held)
        BY <1>0, <3>1, <4>1, HeldType, CountersAreNaturals, Moves
      <4> QED
        BY <1>0, <2>1, <2>2, <3>0, <4>1, <4>2, OutcomeUpdates, BalanceWritten
    <3> QED
      BY <1>5, <3>2, <3>3, <3>4
  <2>5. health.webhook_error => health'.webhook_error
    BY <1>0, <1>5, CounterUpdates, OutcomeUpdates
    DEF RecordSent, RecordDropped, RecordLoss
  <2> QED
    BY <2>3, <2>4, <2>5 DEF DeliveryInv
<1> QED
  BY <1>2, <1>3, <1>4, <1>5

------------------------------------------------------------------------------
(* The worker's steps.                                                     *)

LEMMA OneDelivery ==
    ASSUME DeliveryInv, WorkerStep, UNCHANGED <<sources, raised, processor>>
    PROVE  /\ DeliveryInv'
           /\ health.webhook_error /\ ~health'.webhook_error => rung > 0
<1>0. /\ WorkerInv' /\ WorkerInv
      /\ health \in HealthSnapshot(OtherTypes)
      /\ alarms \in Seq(AlarmRequest) /\ Len(alarms) \in Nat
      /\ events' = events
  BY WorkerStepKeepsInv, ProcessorTypeParts, LenProperties
  DEF DeliveryInv, WorkerStep, TakeAlarm, WorkerReturns, AttemptEnds,
      PauseEnds, RecordSuccess, RecordFailure
<1>1. /\ alarms' \in Seq(AlarmRequest)
      /\ Len(alarms') <= ALARM_QUEUE
  BY <1>0, DeliveryAssumption DEF WorkerInv, WorkerTypeOK
<1>2. health' \in HealthSnapshot(OtherTypes)
  BY <1>0, OutcomeUpdates
  DEF WorkerStep, TakeAlarm, WorkerReturns, AttemptEnds, PauseEnds,
      RecordSuccess, RecordFailure
<1>3. ProcessorTypeOK' /\ RequestInHand'
  BY <1>0, <1>1, <1>2
  DEF DeliveryInv, ProcessorTypeOK, SlotsTyped, RequestInHand
<1>4. AlertsAccounted'
  <2> SUFFICES ASSUME "worker" \in running' PROVE AlertsAccounted'
    BY DEF AlertsAccounted
  <2>1. CASE WorkerReturns
    BY <2>1 DEF WorkerReturns, Return
  <2>2. CASE AttemptEnds \/ PauseEnds
    <3>1. /\ worker.phase # "idle" /\ worker'.phase # "idle"
      BY <1>0, <2>2
      DEF AttemptEnds, PauseEnds, WorkerAt, WorkerInv, WorkerTypeOK,
          AfterAttempt, GiveUpOrPause
    <3> QED
      BY <2>2, <3>1, BalanceKept
      DEF AttemptEnds, PauseEnds, DeliveryInv, SameCounters
  <2>3. CASE TakeAlarm \/ RecordSuccess \/ RecordFailure
    <3>1. "worker" \in running
      BY <2>3 DEF TakeAlarm, RecordSuccess, RecordFailure, WorkerAt
    <3>2. Balanced(health.alerts_sent, health.alerts_dropped,
                   health.webhook_successes, health.webhook_failures,
                   processor.phase, Held)
      BY <1>0, <3>1, BalanceRead DEF DeliveryInv
    <3>3. CASE TakeAlarm
      <4>1. /\ worker.phase = "idle" /\ worker'.phase = "attempt"
            /\ health' = health
            /\ Len(alarms') = Len(alarms) - 1
        BY <1>0, <3>3, HeadTailProperties DEF TakeAlarm, WorkerAt
      <4>2. Held' = Held
        BY <1>0, <4>1 DEF Held, One
      <4> QED
        BY <1>0, <1>1, <3>2, <4>1, <4>2, BalanceWritten
    <3>4. CASE RecordSuccess
      <4>1. /\ worker.phase = "delivered" /\ worker'.phase = "idle"
            /\ health' = WebhookSuccess(health) /\ alarms' = alarms
        BY <3>4 DEF RecordSuccess, WorkerAt, WorkerIdle
      <4>2. Held = Len(alarms) + 1 /\ Held' = Len(alarms)
        BY <1>0, <4>1 DEF Held, One
      <4>3. Balanced(health.alerts_sent, health.alerts_dropped,
                     Bump(health.webhook_successes), health.webhook_failures,
                     processor.phase, Len(alarms))
        BY <1>0, <3>2, <4>2, CountersAreNaturals, WorkerMoves
      <4> QED
        BY <1>0, <1>1, <1>2, <4>1, <4>2, <4>3, OutcomeUpdates, BalanceWritten
    <3>5. CASE RecordFailure
      <4>1. /\ worker.phase = "failed" /\ worker'.phase = "idle"
            /\ health' = WebhookFailure(health) /\ alarms' = alarms
        BY <3>5 DEF RecordFailure, WorkerAt, WorkerIdle
      <4>2. Held = Len(alarms) + 1 /\ Held' = Len(alarms)
        BY <1>0, <4>1 DEF Held, One
      <4>3. Balanced(health.alerts_sent, health.alerts_dropped,
                     health.webhook_successes, Bump(health.webhook_failures),
                     processor.phase, Len(alarms))
        BY <1>0, <3>2, <4>2, CountersAreNaturals, WorkerMoves
      <4> QED
        BY <1>0, <1>1, <1>2, <4>1, <4>2, <4>3, OutcomeUpdates, BalanceWritten
    <3> QED
      BY <2>3, <3>3, <3>4, <3>5
  <2> QED
    BY <2>1, <2>2, <2>3 DEF WorkerStep
<1>5. health.webhook_error /\ ~health'.webhook_error => rung > 0
  <2>1. CASE RecordSuccess
    BY <1>0, <2>1, WorkerAssumption
    DEF RecordSuccess, WorkerAt, WorkerInv, WorkerTypeOK
  <2>2. CASE RecordFailure
    BY <1>0, <2>2, OutcomeUpdates DEF RecordFailure
  <2>3. CASE TakeAlarm \/ WorkerReturns \/ AttemptEnds \/ PauseEnds
    BY <2>3 DEF TakeAlarm, WorkerReturns, AttemptEnds, PauseEnds
  <2> QED
    BY <2>1, <2>2, <2>3 DEF WorkerStep
<1> QED
  BY <1>0, <1>3, <1>4, <1>5 DEF DeliveryInv

------------------------------------------------------------------------------
(* The composition.                                                        *)

LEMMA DeliveryInvInit == DeliveryInit => DeliveryInv
<1> SUFFICES ASSUME DeliveryInit PROVE DeliveryInv
  OBVIOUS
<1>1. /\ events = << >> /\ alarms = << >> /\ health = NewHealth(TRUE)
      /\ processor = Receiving /\ worker = WorkerIdle
      /\ TrackerInit /\ WorkerInit
  BY DEF DeliveryInit, BridgeInit, ProcessorInit, WorkerInit
<1>2. WorkerInv
  BY <1>1, WorkerInitInv
<1>3. << >> \in Seq(StreamItem) /\ << >> \in Seq(AlarmRequest) /\ Len(<< >>) = 0
  BY EmptySeq
<1>4. health \in HealthSnapshot(OtherTypes)
  <2>1. 0 \in 0 .. COUNTER_CAP
    BY HealthAssumption
  <2> QED
    BY <1>1, <2>1 DEF NewHealth, HealthSnapshot
<1>5. ProcessorTypeOK /\ RequestInHand
  <2>1. SlotsTyped
    BY <1>1 DEF TrackerInit, SlotsTyped
  <2> QED
    <3>1. Len(alarms) <= ALARM_QUEUE
      BY <1>1, <1>3, BridgeAssumption
    <3> QED
      BY <1>1, <1>3, <1>4, <2>1, <3>1, ReceivingType, ProcessorTypeParts
      DEF RequestInHand
<1>6. AlertsAccounted
  BY <1>1, <1>3 DEF AlertsAccounted, One, NewHealth, Receiving, WorkerIdle
<1> QED
  BY <1>2, <1>5, <1>6 DEF DeliveryInv

(* A step of anybody else touches neither the alerts nor the snapshot.     *)
LEMMA OthersKeep ==
    ASSUME DeliveryInv, UNCHANGED <<processor, worker, rung, alarms, health>>,
           SlotsTyped', events' \in Seq(StreamItem),
           "worker" \in running' => "worker" \in running
    PROVE  DeliveryInv'
BY DEF DeliveryInv, ProcessorTypeOK, RequestInHand, WorkerInv, WorkerTypeOK,
       EndedAttempts, AlertsAccounted

LEMMA DeliveryStep ==
    ASSUME DeliveryInv, [DeliveryNext]_deliveryVars
    PROVE  /\ DeliveryInv'
           /\ health.webhook_error /\ ~health'.webhook_error => rung > 0
<1>0. SlotsTyped /\ events \in Seq(StreamItem)
  BY DEF DeliveryInv, ProcessorTypeOK
<1>1. CASE Processing
  BY <1>1, OneItem, OneAlert DEF Processing, ProcessorStep
<1>2. CASE Delivering
  BY <1>2, OneDelivery DEF Delivering
<1>3. ASSUME NEW item \in StreamItem, ItemArrives(item)
      PROVE  DeliveryInv' /\ health' = health
  BY <1>0, <1>3, OthersKeep, AppendProperties DEF ItemArrives, SlotsTyped
<1>4. CASE SupervisorReturns \/ DeliveryCancelled
  BY <1>0, <1>4, OthersKeep
  DEF SupervisorReturns, DeliveryCancelled, Return, SlotsTyped
<1>5. CASE TimePasses
  <2>1. SlotsTyped'
    BY <1>0, <1>5, TypeStep DEF TimePasses, TrackerNext
  <2> QED
    BY <1>0, <1>5, <2>1, OthersKeep DEF TimePasses
<1>6. CASE UNCHANGED deliveryVars
  BY <1>0, <1>6, OthersKeep DEF deliveryVars, SlotsTyped
<1> QED
  BY <1>1, <1>2, <1>3, <1>4, <1>5, <1>6
  DEF DeliveryNext, SupervisorReturns, DeliveryCancelled, TimePasses,
      deliveryVars

------------------------------------------------------------------------------
(* The theorems.                                                           *)

LEMMA DeliveryInvariant == DeliverySafety => []DeliveryInv
BY DeliveryInvInit, DeliveryStep, PTL DEF DeliverySafety

(* Processor, worker and their channels keep their types together.         *)
THEOREM DeliveryTypes == DeliverySafety => []DeliveryTypeOK
<1>1. DeliveryInv => DeliveryTypeOK
  BY DEF DeliveryInv, DeliveryTypeOK, WorkerInv
<1> QED
  BY <1>1, DeliveryInvariant, PTL

(* The books balance: what was sent or lost is queued, in hand, delivered  *)
(* or failed, in every interleaving of the two tasks.                      *)
THEOREM BooksBalance == DeliverySafety => []AlertsAccounted
<1>1. DeliveryInv => AlertsAccounted
  BY DEF DeliveryInv
<1> QED
  BY <1>1, DeliveryInvariant, PTL

(* An error leaves /readyz only when Protect has rung for an alert.        *)
THEOREM ErrorLatches == DeliverySafety => RedUntilRung
<1>1. DeliveryInv /\ [DeliveryNext]_deliveryVars
        => [health.webhook_error /\ ~health'.webhook_error
              => rung > 0]_deliveryVars
  BY DeliveryStep
<1> QED
  BY <1>1, DeliveryInvariant, PTL DEF DeliverySafety, RedUntilRung
==============================================================================
