------------------------------- MODULE Health -------------------------------
(***************************************************************************)
(* The health snapshot (src/src/health.rs) and its updates.                *)
(*                                                                         *)
(* Every update takes the write lock once and is atomic; two updates in a  *)
(* row are two steps of a task.  What only an operator reads is left out:  *)
(* the wall-clock fields, the error texts, webhook_verified.               *)
(* webhook_error is kept as a flag: there is an error or there is none.    *)
(*                                                                         *)
(* A definition named X_Y, here and in the other modules, is X with a      *)
(* plausible bug Y in it.  No action uses it: it is put in the place of X  *)
(* to see that the properties notice.                                      *)
(***************************************************************************)
EXTENDS Naturals, FiniteSets

CONSTANTS
    MAX_TRACKED,    \* capacity of unmatched_event_types, 32 in the code
    COUNTER_CAP     \* bound of the model: where the counters saturate

ASSUME HealthAssumption ==
    /\ MAX_TRACKED \in Nat
    /\ COUNTER_CAP \in Nat

HealthSnapshot(EventTypes) ==
    [camera_connected : BOOLEAN,
     camera_reconnects : 0 .. COUNTER_CAP,
     malformed_frames : 0 .. COUNTER_CAP,
     camera_events_dropped : 0 .. COUNTER_CAP,
     alerts_dropped : 0 .. COUNTER_CAP, alerts_sent : 0 .. COUNTER_CAP,
     unmatched_event_types : SUBSET EventTypes,
     webhook_error : BOOLEAN,
     webhook_successes : 0 .. COUNTER_CAP,
     webhook_failures : 0 .. COUNTER_CAP,
     probe_enabled : BOOLEAN, probe_ok : BOOLEAN]

(* Health::new: the path is unverified until a probe succeeds.             *)
NewHealth(probe_enabled) ==
    [camera_connected |-> FALSE,
     camera_reconnects |-> 0, malformed_frames |-> 0,
     camera_events_dropped |-> 0, alerts_dropped |-> 0, alerts_sent |-> 0,
     unmatched_event_types |-> {},
     webhook_error |-> FALSE,
     webhook_successes |-> 0, webhook_failures |-> 0,
     probe_enabled |-> probe_enabled, probe_ok |-> FALSE]

(* HealthSnapshot::ready, what /readyz answers.                            *)
Ready(h) ==
    /\ h.camera_connected
    /\ h.probe_enabled => h.probe_ok
    /\ ~h.webhook_error

------------------------------------------------------------------------------
(* The updates of the snapshot, from the old one to the new one.           *)

Bump(n) == IF n < COUNTER_CAP THEN n + 1 ELSE n

CameraConnected(h) == [h EXCEPT !.camera_connected = TRUE]

CameraDisconnected_StaysConnected(h) ==
    [h EXCEPT !.camera_reconnects = Bump(@)]
CameraDisconnected(h) ==
    [h EXCEPT !.camera_connected = FALSE, !.camera_reconnects = Bump(@)]

MalformedFrame(h) == [h EXCEPT !.malformed_frames = Bump(@)]

CameraEventDropped(h) == [h EXCEPT !.camera_events_dropped = Bump(@)]

(* The list is capped: a type first seen when it is full is not listed.    *)
UnmatchedEventType(h, type) ==
    IF Cardinality(h.unmatched_event_types) < MAX_TRACKED
    THEN [h EXCEPT !.unmatched_event_types = @ \cup {type}]
    ELSE h

AlertDropped(h) == [h EXCEPT !.alerts_dropped = Bump(@)]

AlertSent_ClearsError(h) ==
    [h EXCEPT !.alerts_sent = Bump(@), !.webhook_error = FALSE]
AlertSent(h) == [h EXCEPT !.alerts_sent = Bump(@)]

WebhookSuccess(h) ==
    [h EXCEPT !.webhook_successes = Bump(@), !.webhook_error = FALSE]

WebhookFailure(h) ==
    [h EXCEPT !.webhook_failures = Bump(@), !.webhook_error = TRUE]

ProbeResult_StaysOk(h, ok) == [h EXCEPT !.probe_ok = @ \/ ok]
ProbeResult(h, ok) == [h EXCEPT !.probe_ok = ok]
==============================================================================
