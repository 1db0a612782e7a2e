---------------------------- MODULE ProtectProbe ----------------------------
(***************************************************************************)
(* The probe task (src/src/probe.rs): one GET of the Protect host at every *)
(* tick of an interval, each within a timeout, each result recorded in the *)
(* snapshot.  The path to Protect is the environment: it answers at once,  *)
(* late or never, or refuses.                                              *)
(*                                                                         *)
(* Timers are exact: the clock does not pass a timer that has run out      *)
(* until the task has taken note of it (UrgentProbe).  What the runtime    *)
(* may be late by is less than a tick.                                     *)
(***************************************************************************)
EXTENDS BridgeTasks

VARIABLES
    probe,      \* the probe task and the two timers of its ProbeConfig
    path,       \* the path to Protect: "up", "slow" or "down"
    answered    \* the time since a probe last succeeded

probeVars == <<probe, path, answered>>

ProbePhases == {"absent", "wait", "ask"}
Paths == {"up", "slow", "down"}

(* A success this old is as old as one can be when the next is recorded.   *)
Freshness == probe.interval + probe.timeout
Never == Freshness + 1

NoProbe == [phase |-> "absent", interval |-> 0, timeout |-> 0,
            due |-> 0, waited |-> 0]

(* The task is spawned: the first tick of an interval is immediate.        *)
NewProbe(interval, timeout) ==
    [phase |-> "wait", interval |-> interval, timeout |-> timeout,
     due |-> 0, waited |-> 0]

(* The task starts or is gone; nothing has answered it.                    *)
BecomeProbe(p) == probe' = p /\ answered' = Never'

------------------------------------------------------------------------------
(* The loop of run.                                                        *)

ProbeStops ==
    /\ probe.phase = "wait"
    /\ cancelled
    /\ BecomeProbe(NoProbe)
    /\ UNCHANGED <<health, path>>

(* A tick that was missed while the last probe was out is taken at once,   *)
(* and the next is an interval later (MissedTickBehavior::Delay).          *)
StartProbe ==
    /\ probe.phase = "wait"
    /\ probe.due = 0
    /\ probe' = [probe EXCEPT !.phase = "ask", !.waited = 0,
                              !.due = probe.interval]
    /\ UNCHANGED <<health, path, answered>>

Record(ok) ==
    /\ probe' = [probe EXCEPT !.phase = "wait", !.waited = 0]
    /\ health' = ProbeResult(health, ok)
    /\ answered' = IF ok THEN 0 ELSE answered
    /\ UNCHANGED path

ProbeAnswered_StatusMatters ==
    /\ probe.phase = "ask"
    /\ path # "down"
    /\ Record(FALSE)
(* probe_once.  Any response will do.                                      *)
ProbeAnswered ==
    /\ probe.phase = "ask"
    /\ path # "down"
    /\ Record(TRUE)

ProbeRefused ==
    /\ probe.phase = "ask"
    /\ path = "down"
    /\ Record(FALSE)

ProbeTimesOut ==
    /\ probe.phase = "ask"
    /\ probe.waited >= probe.timeout
    /\ Record(FALSE)

------------------------------------------------------------------------------
(* The environment and the time.                                           *)

PathChanges(p) ==
    /\ path # p
    /\ path' = p
    /\ UNCHANGED <<health, probe, answered>>

(* What the task does before the clock moves: a tick that is due, a probe  *)
(* that is answered at once, or that has lasted for the timeout.           *)
UrgentProbe ==
    \/ probe.phase = "wait" /\ probe.due = 0
    \/ probe.phase = "ask" /\ (path = "up" \/ probe.waited >= probe.timeout)

ProbeClock ==
    /\ ~UrgentProbe
    /\ IF probe.phase = "absent" THEN UNCHANGED <<probe, answered>>
       ELSE /\ probe' = [probe EXCEPT
                    !.due = IF @ > 0 THEN @ - 1 ELSE 0,
                    !.waited = IF probe.phase = "ask" THEN @ + 1 ELSE 0]
            /\ answered' = IF answered < Never THEN answered + 1 ELSE answered
    /\ UNCHANGED <<health, path>>
==============================================================================
