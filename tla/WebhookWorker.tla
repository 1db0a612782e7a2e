---------------------------- MODULE WebhookWorker ----------------------------
(***************************************************************************)
(* The worker that delivers queued alerts to Protect: webhook_worker       *)
(* (src/src/lib.rs) around deliver (src/src/webhook.rs), a bounded number  *)
(* of attempts with a pause between them.  Protect is the environment: it  *)
(* may ring the alarm although the answer is lost or is an error.          *)
(*                                                                         *)
(* An attempt ends with an HTTP status, or with NoAnswer: a network error  *)
(* or the timeout, which the code treats alike.  The pauses and timeouts   *)
(* have no length here, only an end.                                       *)
(***************************************************************************)
EXTENDS BridgeState

CONSTANTS
    Requests,   \* the alarm requests the processor may enqueue
    ATTEMPTS,   \* WebhookConfig.attempts
    Statuses    \* the statuses Protect may answer with

ASSUME WorkerAssumption ==
    /\ ATTEMPTS \in Nat \ {0}
    /\ Statuses \subseteq 100 .. 599

VARIABLES
    worker,     \* the worker task
    rung        \* how often Protect rang the alarm for the request in hand

NoAnswer == 0
Nothing == [source |-> "none"]

WorkerTypeOK ==
    /\ worker \in [phase : {"idle", "attempt", "pause", "delivered", "failed"},
                   request : Requests \cup {Nothing},
                   attempt : 0 .. ATTEMPTS]
    /\ rung \in 0 .. ATTEMPTS
    /\ alarms \in Seq(Requests)
    /\ Len(alarms) <= ALARM_QUEUE

WorkerIdle == [phase |-> "idle", request |-> Nothing, attempt |-> 0]

WorkerInit ==
    /\ worker = WorkerIdle
    /\ rung = 0

WorkerAt(p) == "worker" \in running /\ worker.phase = p

IsSuccess(status) == status \in 200 .. 299
IsRetryable(status) == status \in 500 .. 599 \cup {408, 429}

------------------------------------------------------------------------------
(* The loop of webhook_worker: a request, a cancellation or the end of the *)
(* channel, whichever the select! finds ready.                             *)

TakeAlarm ==
    /\ WorkerAt("idle")
    /\ alarms # << >>
    /\ worker' = [phase |-> "attempt", request |-> Head(alarms), attempt |-> 1]
    /\ alarms' = Tail(alarms)
    /\ UNCHANGED <<rung, events, health, cancelled, running>>

WorkerReturns_ChannelEndOnly ==
    /\ WorkerAt("idle")
    /\ alarms = << >> /\ "processor" \notin running
    /\ Return("worker")
    /\ UNCHANGED <<worker, rung, alarms, events, health, cancelled>>
(* The worker returns; what is still queued goes with the channel.         *)
WorkerReturns ==
    /\ WorkerAt("idle")
    /\ cancelled \/ (alarms = << >> /\ "processor" \notin running)
    /\ Return("worker")
    /\ alarms' = << >>
    /\ UNCHANGED <<worker, rung, events, health, cancelled>>

------------------------------------------------------------------------------
(* deliver.  A cancellation does not interrupt it.                         *)

GiveUpOrPause_OneMore ==
    IF worker.attempt <= ATTEMPTS THEN "pause" ELSE "failed"
GiveUpOrPause == IF worker.attempt < ATTEMPTS THEN "pause" ELSE "failed"

AfterAttempt_AssumesDelivered(answer) ==
    CASE IsSuccess(answer) \/ answer = NoAnswer -> "delivered"
      [] ~IsSuccess(answer) /\ IsRetryable(answer) -> GiveUpOrPause
      [] OTHER -> "failed"
AfterAttempt(answer) ==
    CASE IsSuccess(answer) -> "delivered"
      [] answer # NoAnswer /\ ~IsSuccess(answer) /\ ~IsRetryable(answer)
            -> "failed"
      [] OTHER -> GiveUpOrPause

(* The attempt ends; Protect rang if it answers with a success, and may    *)
(* have rung whatever else the worker is told.                             *)
AttemptEnds ==
    /\ WorkerAt("attempt")
    /\ \E answer \in Statuses \cup {NoAnswer}, rings \in BOOLEAN :
          /\ IsSuccess(answer) => rings
          /\ worker' = [worker EXCEPT !.phase = AfterAttempt(answer)]
          /\ rung' = IF rings THEN rung + 1 ELSE rung
    /\ UNCHANGED <<alarms, events, health, cancelled, running>>

PauseEnds_UnlessCancelled ==
    /\ WorkerAt("pause")
    /\ ~cancelled
    /\ worker' = [worker EXCEPT !.phase = "attempt", !.attempt = @ + 1]
    /\ UNCHANGED <<rung, alarms, events, health, cancelled, running>>
PauseEnds ==
    /\ WorkerAt("pause")
    /\ worker' = [worker EXCEPT !.phase = "attempt", !.attempt = @ + 1]
    /\ UNCHANGED <<rung, alarms, events, health, cancelled, running>>

RecordSuccess ==
    /\ WorkerAt("delivered")
    /\ health' = WebhookSuccess(health)
    /\ worker' = WorkerIdle
    /\ rung' = 0
    /\ UNCHANGED <<alarms, events, cancelled, running>>

RecordFailure ==
    /\ WorkerAt("failed")
    /\ health' = WebhookFailure(health)
    /\ worker' = WorkerIdle
    /\ rung' = 0
    /\ UNCHANGED <<alarms, events, cancelled, running>>

WorkerStep ==
    \/ TakeAlarm \/ WorkerReturns
    \/ AttemptEnds \/ PauseEnds
    \/ RecordSuccess \/ RecordFailure

------------------------------------------------------------------------------
(* The worker by itself, behind a channel that somebody fills.             *)

workerVars == <<worker, rung, alarms, events, health, cancelled, running>>

AloneInit == BridgeInit /\ WorkerInit

RequestArrives(request) ==
    /\ running = Tasks
    /\ Len(alarms) < ALARM_QUEUE
    /\ alarms' = Append(alarms, request)
    /\ UNCHANGED <<worker, rung, events, health, cancelled, running>>

SenderStops ==
    /\ cancelled
    /\ Return("processor")
    /\ UNCHANGED <<worker, rung, alarms, events, health, cancelled>>

WorkerCancelled ==
    /\ ~cancelled
    /\ cancelled' = TRUE
    /\ UNCHANGED <<worker, rung, alarms, events, health, running>>

(* run returns and drops its JoinSet, which aborts the worker wherever it  *)
(* is: after the drain of ten seconds, which a delivery may outlast, or at *)
(* once when another task has ended (lib.rs, bail!).  The alert in hand    *)
(* has no outcome then.                                                    *)
WorkerAborted ==
    /\ "worker" \in running
    /\ Return("worker")
    /\ alarms' = << >>
    /\ UNCHANGED <<worker, rung, events, health, cancelled>>

WorkerNext ==
    \/ WorkerStep
    \/ WorkerAborted
    \/ \E request \in Requests : RequestArrives(request)
    \/ SenderStops
    \/ WorkerCancelled

(* The runtime schedules the worker, and every attempt and every pause     *)
(* ends: each is under a timer (webhook.rs, timeout and sleep).  The       *)
(* select! polls its branches in random order and does not prefer the      *)
(* channel for ever.  Nothing forces an abort: it is what may cut short    *)
(* the steps that are fair, so no property rests on it.                    *)
WorkerSpec ==
    /\ AloneInit
    /\ [][WorkerNext]_workerVars
    /\ WF_workerVars(WorkerStep)
    /\ SF_workerVars(WorkerReturns)

------------------------------------------------------------------------------
(* Properties.                                                             *)

(* At least once: a delivery that is recorded as a success rang the alarm, *)
(* and no alert rings it more often than there were attempts, however many *)
(* answers were lost (webhook.rs, deliver).                                *)
SuccessRang ==
    /\ worker.phase = "delivered" => rung >= 1
    /\ worker.phase # "idle" => rung <= worker.attempt

(* Every alert that is taken has its outcome recorded, so that the latch   *)
(* of /readyz follows it, unless run returns first and the worker is       *)
(* aborted in the middle of the delivery.  A cancellation by itself takes  *)
(* no outcome away: deliver goes on through it (webhook.rs, deliver), and  *)
(* a worker that returns by itself has nothing in hand.                    *)
OutcomeRecorded ==
    worker.phase # "idle" ~> worker.phase = "idle" \/ "worker" \notin running

(* A cancelled worker ends: it returns after the alert it has in hand,     *)
(* however full its channel is, or is aborted when the drain is over       *)
(* before that delivery is (lib.rs, webhook_worker and run).               *)
WorkerStops == cancelled ~> "worker" \notin running
==============================================================================
