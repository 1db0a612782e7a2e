---------------------------- MODULE AlertPipeline ----------------------------
(***************************************************************************)
(* The bridge from the camera to Protect: the camera task, the processor   *)
(* and the worker, joined by their two channels (src/src/lib.rs, run).     *)
(***************************************************************************)
EXTENDS AlertDelivery, CameraSupervisor

(* What the camera task forwards is what the processor understands.        *)
ASSUME PipelineAssumption == Events \subseteq Event

pipelineVars ==
    <<camera, sources, raised, processor, worker, rung,
      events, alarms, health, cancelled, running>>

othersThanCamera == <<sources, raised, processor, worker, rung>>

PipelineTypeOK == CameraTypeOK /\ DeliveryTypeOK

PipelineInit == BridgeInit /\ CameraInit /\ ProcessorInit /\ WorkerInit

Supervise == SupervisorStep /\ UNCHANGED othersThanCamera
Answer == CameraAnswers /\ UNCHANGED othersThanCamera
Send == CameraSends /\ UNCHANGED othersThanCamera
Process == Processing /\ UNCHANGED camera
Deliver == Delivering /\ UNCHANGED camera

(* One clock ages the tracker's Instants and the timers of the camera.     *)
Clock == Tick /\ CameraTick /\ UNCHANGED <<processor, worker, rung>>

(* The signal, from main.  A task that returns unasked makes run cancel    *)
(* too; none does but after a cancellation.                                *)
Shutdown ==
    /\ Cancel
    /\ UNCHANGED <<camera, othersThanCamera, events, alarms, health, running>>

PipelineNext ==
    Supervise \/ Answer \/ Send \/ Process \/ Deliver \/ Clock \/ Shutdown

PipelineSafety == PipelineInit /\ [][PipelineNext]_pipelineVars

(* The camera task and the processor are scheduled and their timers fire,  *)
(* a request is answered or fails in the end, and no select! overlooks a   *)
(* cancellation for ever.  Nothing is asked of Protect or the worker.      *)
WedgedPipelineSpec ==
    /\ PipelineSafety
    /\ WF_pipelineVars(Supervise)
    /\ WF_pipelineVars(Answer)
    /\ WF_pipelineVars(Process)
    /\ WF_pipelineVars(Clock)
    /\ SF_pipelineVars(CancelSession /\ UNCHANGED othersThanCamera)
    /\ SF_pipelineVars(ProcessorReturns /\ UNCHANGED <<worker, rung, camera>>)

------------------------------------------------------------------------------
(* The tasks as run sees them.                                             *)

(* What the three tasks have to do with of the conditions of /readyz.      *)
Conditions(h) ==
    [NewHealth(TRUE) EXCEPT !.camera_connected = h.camera_connected,
                            !.webhook_error = h.webhook_error]

Run == INSTANCE BridgeTasks WITH
    health <- Conditions(health),
    alive <- running \cup {"server"},
    ended <- Tasks \ running,
    COUNTER_CAP <- 0

------------------------------------------------------------------------------
(* Properties.  BackToCamera is checked here with the tasks waiting for    *)
(* each other: the camera task for room to send its Reset, the processor   *)
(* for room in the alarm channel.                                          *)

(* A worker that never comes back and a full alarm channel do not stop the *)
(* fire state machine: it returns to its channel after every alert.        *)
ProcessorNeverStuck ==
    []<>("processor" \notin running \/ processor.phase = "receive")

(* A cancellation reaches the camera task and the processor wherever they  *)
(* wait, even behind a worker that never comes back (lib.rs, the drain).   *)
ShutdownReachesAll == cancelled ~> running \subseteq {"worker"}

(* The tasks end, and move the conditions of /readyz, in no other way than *)
(* BridgeProcess rests on: a condition is only moved by a task whose       *)
(* business it is, and by none that is gone (lib.rs, run; health.rs).      *)
ImplementsTasks == Run!TasksSpec

(* A task returns only after a cancellation, so run never ends by itself   *)
(* (lib.rs, "critical task exited unexpectedly").                          *)
NoTaskReturnsUnasked == running # Tasks => cancelled
==============================================================================
