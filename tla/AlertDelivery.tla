---------------------------- MODULE AlertDelivery ----------------------------
(***************************************************************************)
(* The processor and the worker together, from the event channel to        *)
(* Protect (src/src/lib.rs).  The camera task is an environment that puts  *)
(* any item into the event channel.                                        *)
(***************************************************************************)
EXTENDS EventProcessor, WebhookWorker

(* The worker is handed what the processor enqueues.                       *)
ASSUME DeliveryAssumption == Requests = AlarmRequest

deliveryVars ==
    <<sources, raised, processor, worker, rung,
      events, alarms, health, cancelled, running>>

DeliveryTypeOK == ProcessorTypeOK /\ WorkerTypeOK

DeliveryInit == BridgeInit /\ ProcessorInit /\ WorkerInit

ItemArrives(item) ==
    /\ running = Tasks
    /\ Len(events) < EVENT_QUEUE
    /\ events' = Append(events, item)
    /\ UNCHANGED <<sources, raised, processor, worker, rung,
                   alarms, health, cancelled, running>>

SupervisorReturns ==
    /\ cancelled
    /\ Return("supervisor")
    /\ UNCHANGED <<sources, raised, processor, worker, rung,
                   events, alarms, health, cancelled>>

DeliveryCancelled ==
    /\ ~cancelled
    /\ cancelled' = TRUE
    /\ UNCHANGED <<sources, raised, processor, worker, rung,
                   events, alarms, health, running>>

TimePasses ==
    /\ Tick
    /\ UNCHANGED <<processor, worker, rung,
                   events, alarms, health, cancelled, running>>

Processing == ProcessorStep /\ UNCHANGED <<worker, rung>>
Delivering == WorkerStep /\ UNCHANGED <<sources, raised, processor>>

DeliveryNext ==
    \/ Processing
    \/ Delivering
    \/ \E item \in StreamItem : ItemArrives(item)
    \/ SupervisorReturns
    \/ DeliveryCancelled
    \/ TimePasses

DeliverySafety == DeliveryInit /\ [][DeliveryNext]_deliveryVars

------------------------------------------------------------------------------
(* Properties.                                                             *)

One(b) == IF b THEN 1 ELSE 0

(* The books balance: an alert the processor has accounted for as sent or  *)
(* lost is in the alarm channel, in the hands of the worker, or counted as *)
(* a success or a failure, exactly once.  So the counters of /status tell  *)
(* what became of every alert (lib.rs, health.rs).                         *)
AlertsAccounted ==
    LET h == health
        sent == h.alerts_sent + One(processor.phase = "sent")
        lost == h.alerts_dropped - One(processor.phase = "failing")
        done == h.webhook_successes + h.webhook_failures
    IN  (/\ "worker" \in running
         /\ h.alerts_sent < COUNTER_CAP
         /\ h.alerts_dropped < COUNTER_CAP
         /\ h.webhook_successes < COUNTER_CAP
         /\ h.webhook_failures < COUNTER_CAP)
        => sent + lost = done + Len(alarms) + One(worker.phase # "idle")

(* An error stays on /readyz, whether a delivery failed or the processor   *)
(* lost an alert, until Protect has rung for one: not the next alert in    *)
(* the channel, nor the next attempt, clears it (health.rs:6, "latches").  *)
RedUntilRung ==
    [][health.webhook_error /\ ~health'.webhook_error => rung > 0]_deliveryVars
==============================================================================
