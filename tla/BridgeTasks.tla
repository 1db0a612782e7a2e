----------------------------- MODULE BridgeTasks -----------------------------
(***************************************************************************)
(* What run (src/src/lib.rs) and /readyz know of the supervisor, the       *)
(* processor, the worker and the health server: how they end, and what     *)
(* they write of the three conditions of readiness.  BridgeProcess rests   *)
(* on it; AlertPipeline, which has the first three tasks whole, implements *)
(* it.                                                                     *)
(***************************************************************************)
EXTENDS Health

VARIABLES
    health,     \* the HealthSnapshot
    cancelled,  \* the CancellationToken has fired
    alive,      \* the tasks of the JoinSet that have not ended
    ended       \* those that have

joinSet == <<alive, ended>>
tasksVars == <<health, cancelled, joinSet>>

Others == {"supervisor", "processor", "worker", "server"}

TasksInit ==
    /\ \E probed \in BOOLEAN : health = NewHealth(probed)
    /\ cancelled = FALSE
    /\ alive = Others
    /\ ended = {}

(* SIGINT or SIGTERM.                                                      *)
Cancelled ==
    /\ ~cancelled
    /\ cancelled' = TRUE
    /\ UNCHANGED <<health, joinSet>>

End(t) ==
    /\ alive' = alive \ {t}
    /\ ended' = ended \cup {t}
    /\ UNCHANGED cancelled

(* A task returns when it is cancelled, or at the end of its channel; the  *)
(* camera task has none, and says first that the camera is disconnected.   *)
TaskReturns(t) ==
    /\ t \in alive
    /\ \/ cancelled
       \/ t = "processor" /\ "supervisor" \notin alive
       \/ t = "worker" /\ "processor" \notin alive
    /\ End(t)
    /\ \/ UNCHANGED health
       \/ t = "supervisor" /\ health' = CameraDisconnected(health)
    /\ t = "supervisor" => ~health'.camera_connected

TasksWrite ==
    /\ \/ "supervisor" \in alive /\ health' = CameraConnected(health)
       \/ "supervisor" \in alive /\ health' = CameraDisconnected(health)
       \/ "worker" \in alive /\ health' = WebhookSuccess(health)
       \/ /\ {"worker", "processor"} \cap alive # {}
          /\ health' = WebhookFailure(health)
    /\ UNCHANGED <<cancelled, joinSet>>

TasksNext == Cancelled \/ TasksWrite \/ \E t \in Others : TaskReturns(t)

TasksSpec == TasksInit /\ [][TasksNext]_tasksVars
==============================================================================
