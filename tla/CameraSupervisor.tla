--------------------------- MODULE CameraSupervisor ---------------------------
(***************************************************************************)
(* The camera task, src/src/camera.rs: one streaming request at a time,    *)
(* its frames forwarded to the event channel, a Reset after every session, *)
(* a reconnect delay that doubles up to a ceiling.  The camera itself is   *)
(* the environment: it answers or not, sends chunks, ends or breaks the    *)
(* stream, or falls silent.  A chunk is the frames it completes; the bytes *)
(* and the XML are left out.                                               *)
(*                                                                         *)
(* The clock moves with CameraTick.  A timer fires at its time or later.   *)
(***************************************************************************)
EXTENDS BridgeState

CONSTANTS
    Events,             \* the events a frame may parse to
    CHUNK_FRAMES,       \* bound of the model: frames completed by one chunk
    RECONNECT_INITIAL,  \* first reconnect delay, in ticks
    RECONNECT_MAX,      \* ceiling of the delay
    HEALTHY_SESSION,    \* a session this long resets the delay
    STREAM_IDLE         \* silence that ends a session

(* Config::from_map: a positive first delay, no longer than the ceiling.   *)
ASSUME CameraAssumption ==
    /\ RECONNECT_INITIAL \in Nat \ {0}
    /\ RECONNECT_MAX \in Nat
    /\ RECONNECT_MAX >= RECONNECT_INITIAL
    /\ HEALTHY_SESSION \in Nat
    /\ STREAM_IDLE \in Nat \ {0}
    /\ CHUNK_FRAMES \in Nat

VARIABLE camera

(* What parse_event makes of a frame: an event, no event, or an error.     *)
NoEvent == [kind |-> "NoEvent"]
Malformed == [kind |-> "Malformed"]
Frames == Events \cup {NoEvent, Malformed}
Chunks == UNION {[1 .. n -> Frames] : n \in 0 .. CHUNK_FRAMES}

Phases == {"top", "request", "stream", "frames", "ended", "reset", "sleep"}

LongestTimer == IF STREAM_IDLE > RECONNECT_MAX THEN STREAM_IDLE
                                               ELSE RECONNECT_MAX

CameraTypeOK ==
    /\ camera \in
        [phase : Phases,
         delay : RECONNECT_INITIAL .. RECONNECT_MAX,
         started : 0 .. HEALTHY_SESSION,    \* time since `started`
         waited : 0 .. LongestTimer,        \* time in the current timer
         frames : Chunks]                   \* extracted, not yet forwarded
    /\ events \in Seq(Events \cup {StreamReset})
    /\ Len(events) <= EVENT_QUEUE
    /\ running \subseteq Tasks
    /\ cancelled \in BOOLEAN

NewCamera ==
    [phase |-> "top", delay |-> RECONNECT_INITIAL, started |-> 0,
     waited |-> 0, frames |-> << >>]

CameraInit == camera = NewCamera

InPhase(p) == "supervisor" \in running /\ camera.phase = p

Goto(p) == camera' = [camera EXCEPT !.phase = p, !.waited = 0]

ReceiverOpen == "processor" \in running
EventRoom == Len(events) < EVENT_QUEUE

------------------------------------------------------------------------------
(* The loop of supervisor, up to the request.                              *)

StopAtTop ==
    /\ InPhase("top")
    /\ cancelled
    /\ Return("supervisor")
    /\ UNCHANGED <<camera, events, alarms, health, cancelled>>

StartSession ==
    /\ InPhase("top")
    /\ ~cancelled
    /\ camera' = [camera EXCEPT !.phase = "request", !.started = 0]
    /\ UNCHANGED <<events, alarms, health, cancelled, running>>

(* The session is over, with an Err or with Ok: they differ in what is     *)
(* logged and shown of the error, and in nothing else.                     *)
EndSession == Goto("ended")

------------------------------------------------------------------------------
(* session.  Nothing but the camera's answer ends the request.             *)

RequestFails ==
    /\ InPhase("request")
    /\ EndSession
    /\ UNCHANGED <<events, alarms, health, cancelled, running>>

RequestSucceeds ==
    /\ InPhase("request")
    /\ Goto("stream")
    /\ health' = CameraConnected(health)
    /\ UNCHANGED <<events, alarms, cancelled, running>>

CancelSession_Deaf ==
    /\ InPhase("stream")
    /\ cancelled
    /\ Goto("stream")
    /\ UNCHANGED <<events, alarms, health, cancelled, running>>
CancelSession ==
    /\ InPhase("stream")
    /\ cancelled
    /\ EndSession
    /\ UNCHANGED <<events, alarms, health, cancelled, running>>

IdleTimeout_KeepsReading ==
    /\ InPhase("stream")
    /\ camera.waited >= STREAM_IDLE
    /\ Goto("stream")
    /\ UNCHANGED <<events, alarms, health, cancelled, running>>
IdleTimeout ==
    /\ InPhase("stream")
    /\ camera.waited >= STREAM_IDLE
    /\ EndSession
    /\ UNCHANGED <<events, alarms, health, cancelled, running>>

(* The camera closes the stream, it breaks, or a chunk overflows the       *)
(* extractor's buffer, whose frames are lost.                              *)
StreamEnds ==
    /\ InPhase("stream")
    /\ EndSession
    /\ UNCHANGED <<events, alarms, health, cancelled, running>>

ReceiveChunk(chunk) ==
    /\ InPhase("stream")
    /\ camera' = [camera EXCEPT !.phase = "frames", !.frames = chunk]
    /\ UNCHANGED <<events, alarms, health, cancelled, running>>

------------------------------------------------------------------------------
(* The frames of a chunk, one by one.                                      *)

NextFrame == camera' = [camera EXCEPT !.frames = Tail(@), !.waited = 0]

AtFrame == InPhase("frames") /\ camera.frames # << >>

ChunkDone ==
    /\ InPhase("frames")
    /\ camera.frames = << >>
    /\ Goto("stream")
    /\ UNCHANGED <<events, alarms, health, cancelled, running>>

SkipFrame ==
    /\ AtFrame
    /\ Head(camera.frames) \in {NoEvent, Malformed}
    /\ NextFrame
    /\ health' = IF Head(camera.frames) = Malformed
                 THEN MalformedFrame(health) ELSE health
    /\ UNCHANGED <<events, alarms, cancelled, running>>

ForwardEvent ==
    /\ AtFrame
    /\ Head(camera.frames) \in Events
    /\ ReceiverOpen /\ EventRoom
    /\ NextFrame
    /\ events' = Append(events, Head(camera.frames))
    /\ UNCHANGED <<alarms, health, cancelled, running>>

DropEvent_TimeoutOnly ==
    /\ AtFrame
    /\ Head(camera.frames) \in Events
    /\ ~EventRoom
    /\ NextFrame
    /\ health' = CameraEventDropped(health)
    /\ UNCHANGED <<events, alarms, cancelled, running>>
(* SEND_TIMEOUT on a full channel, or a closed one.                        *)
DropEvent ==
    /\ AtFrame
    /\ Head(camera.frames) \in Events
    /\ ~ReceiverOpen \/ ~EventRoom
    /\ NextFrame
    /\ health' = CameraEventDropped(health)
    /\ UNCHANGED <<events, alarms, cancelled, running>>

------------------------------------------------------------------------------
(* After the session.                                                      *)

Disconnect ==
    /\ InPhase("ended")
    /\ health' = CameraDisconnected(health)
    /\ IF cancelled
       THEN Return("supervisor") /\ UNCHANGED camera
       ELSE Goto("reset") /\ UNCHANGED running
    /\ UNCHANGED <<events, alarms, cancelled>>

HealthyDelay_Always == RECONNECT_INITIAL
HealthyDelay ==
    IF camera.started >= HEALTHY_SESSION THEN RECONNECT_INITIAL
                                         ELSE camera.delay

SendReset_MissesClosed ==
    /\ InPhase("reset")
    /\ ReceiverOpen /\ EventRoom
    /\ events' = Append(events, StreamReset)
    /\ camera' = [camera EXCEPT !.phase = "sleep", !.waited = 0,
                                !.started = 0, !.delay = HealthyDelay]
    /\ UNCHANGED <<alarms, health, cancelled, running>>
SendReset_TimesOut ==
    /\ InPhase("reset")
    /\ \/ ReceiverOpen /\ EventRoom /\ events' = Append(events, StreamReset)
       \/ ~ReceiverOpen /\ UNCHANGED events
       \/ ReceiverOpen /\ ~EventRoom /\ UNCHANGED events
    /\ camera' = [camera EXCEPT !.phase = "sleep", !.waited = 0,
                                !.started = 0, !.delay = HealthyDelay]
    /\ UNCHANGED <<alarms, health, cancelled, running>>
(* The Reset waits for room as long as it takes, unless nobody receives.   *)
SendReset ==
    /\ InPhase("reset")
    /\ \/ ReceiverOpen /\ EventRoom /\ events' = Append(events, StreamReset)
       \/ ~ReceiverOpen /\ UNCHANGED events
    /\ camera' = [camera EXCEPT !.phase = "sleep", !.waited = 0,
                                !.started = 0, !.delay = HealthyDelay]
    /\ UNCHANGED <<alarms, health, cancelled, running>>

StopAsleep ==
    /\ InPhase("sleep")
    /\ cancelled
    /\ Return("supervisor")
    /\ UNCHANGED <<camera, events, alarms, health, cancelled>>

Doubled_NoCeiling(delay) == 2 * delay
Doubled(delay) ==
    IF 2 * delay < RECONNECT_MAX THEN 2 * delay ELSE RECONNECT_MAX

WakeUp ==
    /\ InPhase("sleep")
    /\ camera.waited >= camera.delay
    /\ camera' = [camera EXCEPT !.phase = "top", !.waited = 0,
                                !.delay = Doubled(@)]
    /\ UNCHANGED <<events, alarms, health, cancelled, running>>

------------------------------------------------------------------------------
(* Time.  The session has an age from before its request to its Reset; the *)
(* idle timer runs while the stream is read, the delay while it sleeps.    *)

Aged(age, limit) == IF age < limit THEN age + 1 ELSE age

CameraTick ==
    /\ camera' = [camera EXCEPT
          !.started = IF camera.phase \in {"top", "sleep"} THEN 0
                      ELSE Aged(@, HEALTHY_SESSION),
          !.waited = CASE camera.phase = "stream" -> Aged(@, STREAM_IDLE)
                       [] camera.phase = "sleep" -> Aged(@, camera.delay)
                       [] OTHER -> 0]
    /\ UNCHANGED <<events, alarms, health, cancelled, running>>

(* The shutdown signal, or run when a task is gone (lib.rs, main.rs).      *)
Cancel ==
    /\ ~cancelled
    /\ cancelled' = TRUE

------------------------------------------------------------------------------
(* The camera task by itself.                                              *)

CameraAnswers == RequestFails \/ RequestSucceeds

CameraSends == StreamEnds \/ \E chunk \in Chunks : ReceiveChunk(chunk)

(* What the task does on its own, when its timers and channels let it.     *)
SupervisorStep ==
    \/ StopAtTop \/ StartSession
    \/ CancelSession \/ IdleTimeout
    \/ ChunkDone \/ SkipFrame \/ ForwardEvent \/ DropEvent
    \/ Disconnect \/ SendReset \/ StopAsleep \/ WakeUp

(* The other end of the event channel: takes items, or is gone.            *)
TakeItem ==
    /\ ReceiverOpen
    /\ events # << >>
    /\ events' = Tail(events)
    /\ UNCHANGED <<camera, alarms, health, cancelled, running>>

ReceiverStops ==
    /\ ReceiverOpen
    /\ cancelled
    /\ Return("processor")
    /\ events' = << >>
    /\ UNCHANGED <<camera, alarms, health, cancelled>>

SignalArrives == Cancel /\ UNCHANGED <<camera, events, alarms, health, running>>

SupervisorInit == BridgeInit /\ CameraInit

SupervisorNext ==
    \/ SupervisorStep
    \/ CameraAnswers
    \/ CameraSends
    \/ CameraTick
    \/ TakeItem
    \/ ReceiverStops
    \/ SignalArrives

supervisorVars == <<camera, events, alarms, health, cancelled, running>>

SupervisorSafety == SupervisorInit /\ [][SupervisorNext]_supervisorVars

(* The runtime schedules the task and fires its timers, and a select!,     *)
(* which polls its branches in random order, does not overlook a           *)
(* cancellation for ever.  The receiver goes on receiving.                 *)
SupervisorFairness ==
    /\ WF_supervisorVars(SupervisorStep)
    /\ SF_supervisorVars(CancelSession)
    /\ WF_supervisorVars(CameraTick)
    /\ WF_supervisorVars(TakeItem)

(* The camera may leave a request unanswered for ever.                     *)
SupervisorSpec == SupervisorSafety /\ SupervisorFairness

(* Every request is answered or fails in the end.                          *)
AnsweredSpec ==
    SupervisorSpec /\ WF_supervisorVars(CameraAnswers)

------------------------------------------------------------------------------
(* Properties.                                                             *)

(* The snapshot says connected only during a session, so /readyz is red    *)
(* while the task reconnects, sleeps or is gone (camera.rs, supervisor).   *)
ConnectedInSession ==
    health.camera_connected =>
        \E p \in {"stream", "frames", "ended"} : InPhase(p)

(* The reconnect delay never shrinks but after a session that lived long   *)
(* enough: a camera that accepts and closes at once meets longer and       *)
(* longer gaps (camera.rs, module comment).                                *)
DelayShrinksAfterHealthy ==
    [][camera'.delay < camera.delay
          => camera.started >= HEALTHY_SESSION]_supervisorVars

(* Whatever the session ended with and however full the event channel is,  *)
(* the task comes back to a point where it waits for nobody but the        *)
(* camera, or it has returned.                                             *)
BackToCamera ==
    []<>("supervisor" \notin running \/ camera.phase \in {"request", "stream"})

(* A stream is not waited on for ever: a camera that fell silent is left   *)
(* (README.md:81, STREAM_IDLE_TIMEOUT_SECONDS).                            *)
SilentStreamLeft == camera.phase = "stream" ~> camera.phase # "stream"

(* A cancellation stops the task, in a session, in a sleep or waiting to   *)
(* send its Reset (lib.rs, run, the drain).                                *)
CancellationStops == cancelled ~> "supervisor" \notin running

(* lib.rs:4 says of the tasks: "each independent, all cancellation-aware". *)
(* Checked with a camera that may leave a request unanswered.              *)
CancellationAware == CancellationStops
==============================================================================
