--------------------------- MODULE CameraSessions ---------------------------
(***************************************************************************)
(* CameraSupervisor beside a record of the session each item of the event  *)
(* channel comes from.  The code has no such record: it relies on the      *)
(* order of its sends.                                                     *)
(***************************************************************************)
EXTENDS CameraSupervisor

(* StreamItem::Reset is no event.                                          *)
ASSUME SessionsAssumption == StreamReset \notin Events

VARIABLES
    session,    \* the latest session; its parity tells it from the next one
    origins,    \* the session of each item in the event channel
    taken       \* the item the receiver took last, and its session

sessionVars == <<supervisorVars, session, origins, taken>>

Tagged(item, origin) == [item |-> item, session |-> origin]

SessionsInit ==
    /\ SupervisorInit
    /\ session = 0
    /\ origins = << >>
    /\ taken = Tagged(StreamReset, 0)

Sent == Len(events') > Len(events)
Received == Len(events') < Len(events)

NoteItems ==
    /\ session' = IF camera.phase = "top" /\ camera'.phase = "request"
                  THEN 1 - session ELSE session
    /\ origins' = CASE Sent -> Append(origins, session)
                    [] Received -> IF events' = << >> THEN << >>
                                   ELSE Tail(origins)
                    [] OTHER -> origins
    /\ taken' = IF Received THEN Tagged(Head(events), Head(origins))
                ELSE taken

SessionsSpec ==
    /\ SessionsInit
    /\ [][SupervisorNext /\ NoteItems]_sessionVars
    /\ SupervisorFairness
    /\ WF_supervisorVars(CameraAnswers)

------------------------------------------------------------------------------
(* Properties.                                                             *)

InOrder ==
    <<taken>> \o [i \in DOMAIN events |-> Tagged(events[i], origins[i])]

(* The events of a session reach the tracker in one run that ends with the *)
(* session's Reset, and no event of the next session overtakes it: what    *)
(* the tracker knows of a source was never learned before a disconnect it  *)
(* has not been told of (camera.rs:68, "Any gap can swallow an `inactive`  *)
(* notification").                                                         *)
ResetBetweenSessions ==
    \A i \in 1 .. Len(InOrder) - 1 :
        LET this == InOrder[i]
            next == InOrder[i + 1]
        IN  next.session = this.session <=> this.item # StreamReset
==============================================================================
