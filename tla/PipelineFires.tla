----------------------------- MODULE PipelineFires -----------------------------
(***************************************************************************)
(* AlertPipeline beside what the camera knows: whether its latest word on  *)
(* a source was that a fire burns, and whether the bridge has answered     *)
(* that fire with an alert.  The record is not part of the program.        *)
(***************************************************************************)
EXTENDS AlertPipeline

CONSTANT
    ANSWERED    \* when a fire is answered: its alert is "raised" or "queued"

ASSUME AnsweredAssumption == ANSWERED \in {"raised", "queued"}

VARIABLES
    burning,    \* the sources the camera last reported active
    unanswered  \* the sources where a fire started that is not answered

fireVars ==
    <<camera, sources, raised, processor, worker, rung,
      events, alarms, health, cancelled, running,
      burning, unanswered>>

FiresInit ==
    /\ PipelineInit
    /\ burning = {}
    /\ unanswered = {}

(* The chunk received by this step, if it receives one.                    *)
Received ==
    IF camera.phase = "stream" /\ camera'.phase = "frames"
    THEN {camera'.frames[i] : i \in DOMAIN camera'.frames} \cap Events
    ELSE {}

Lit == {event.source : event \in {e \in Received : IsActive(e)}}
Out == {event.source : event \in {e \in Received : e.state = "Inactive"}}

(* The step answers a fire of s: the tracker raises an alert for it, or    *)
(* the processor puts one in the alarm channel.                            *)
Answers(s) ==
    \/ /\ ANSWERED = "raised"
       /\ processor.phase = "receive" /\ processor'.phase = "send"
       /\ processor'.request.source = s
    \/ /\ ANSWERED = "queued"
       /\ processor.phase = "send" /\ processor'.phase = "sent"
       /\ processor.request.source = s

(* Chunks of one frame: a source is not lit and out in the same step.      *)
NoteFires ==
    /\ burning' = (burning \ Out) \cup Lit
    /\ unanswered' = {s \in unanswered \cup (Lit \ burning) : ~Answers(s)}

EventDropped ==
    /\ camera.phase = "frames" /\ camera'.frames # camera.frames
    /\ Head(camera.frames) \in Events
    /\ events' = events

(* The timeouts are long for a task that waits for nothing: the processor  *)
(* makes room within the second that forward waits, unless it waits itself *)
(* for room in the alarm channel, and the worker within the two seconds of *)
(* that, unless it is at a delivery.                                       *)
Prompt ==
    /\ EventDropped => processor.phase = "send" /\ ~AlarmRoom
    /\ processor.phase = "send" /\ processor'.phase = "dropped"
          => worker.phase \in {"attempt", "pause"}

(* The process is gone, killed, stopped or failed at any point, with the   *)
(* tracker, both channels and the alert in hand, and the container runtime *)
(* starts it again (README.md:45, `--restart unless-stopped`).  A fire     *)
(* that burns has to be answered anew.                                     *)
Restart ==
    /\ events' = << >> /\ alarms' = << >>
    /\ health' = NewHealth(TRUE) /\ cancelled' = FALSE /\ running' = Tasks
    /\ camera' = NewCamera
    /\ sources' = << >> /\ raised' = {}
    /\ processor' = Receiving
    /\ worker' = WorkerIdle /\ rung' = 0
    /\ unanswered' = burning
    /\ UNCHANGED burning

(* A bridge that is cancelled does nothing more for a fire than one that   *)
(* is killed: it is left out.                                              *)
FiresNext ==
    \/ PipelineNext /\ ~cancelled' /\ Prompt /\ NoteFires
    \/ Restart

CameraLights(s) ==
    \E event \in Events :
        /\ event.source = s
        /\ IsActive(event)
        /\ ReceiveChunk(<<event>>)

(* Every task is scheduled, its timers fire and its attempts end.  The     *)
(* camera can be reached again and again, long enough to repeat `active`   *)
(* for a source that burns; it may report anything else in between.  The   *)
(* bridge is not restarted for ever.                                       *)
FiresSpec ==
    /\ FiresInit /\ [][FiresNext]_fireVars
    /\ <>[][~Restart]_fireVars
    /\ WF_fireVars(Supervise /\ Prompt /\ NoteFires)
    /\ WF_fireVars(Process /\ Prompt /\ NoteFires)
    /\ WF_fireVars(Deliver /\ Prompt /\ NoteFires)
    /\ WF_fireVars(Clock /\ Prompt /\ NoteFires)
    /\ SF_fireVars(RequestSucceeds /\ UNCHANGED othersThanCamera /\ NoteFires)
    /\ \A s \in Sources :
          SF_fireVars(CameraLights(s) /\ UNCHANGED othersThanCamera /\ NoteFires)

------------------------------------------------------------------------------
(* Properties.                                                             *)

(* A fire that burns on is answered in the alarm channel, whatever is      *)
(* dropped on the way: events and `inactive` notifications on a full event *)
(* channel, alerts on a full alarm channel, sessions (README.md:21, "Fail  *)
(* toward duplicate alerts, never missed ones").                           *)
BurningFireAnswered ==
    \A s \in Sources :
        s \in unanswered ~> (s \notin unanswered \/ s \notin burning)

------------------------------------------------------------------------------
(* What the documentation says and the code does not do.                   *)

(* README.md:23: "Active state expires if the camera goes quiet and is     *)
(* re-armed after every stream reconnect, so a lost `inactive`             *)
(* notification can never latch the alarm off".  Checked without a         *)
(* re-alert interval, and with an alert that need only be raised.          *)
NeverLatchedOff == BurningFireAnswered
==============================================================================
