----------------------------- MODULE BridgeState -----------------------------
(***************************************************************************)
(* What the tasks of the bridge share (src/src/lib.rs, run): the two       *)
(* bounded channels, the health snapshot (module Health), the              *)
(* cancellation token, and which tasks still run.  A task that returns     *)
(* drops its ends of the channels: a sender sees a channel closed when the *)
(* receiving task is gone, a receiver sees it end when the sending task is *)
(* gone and the channel is empty.                                          *)
(***************************************************************************)
EXTENDS Health, Sequences

CONSTANTS
    EVENT_QUEUE,    \* capacity of the event channel, 256 in the code
    ALARM_QUEUE     \* capacity of the alarm channel, 32 in the code

ASSUME BridgeAssumption ==
    /\ EVENT_QUEUE \in Nat \ {0}
    /\ ALARM_QUEUE \in Nat \ {0}

VARIABLES
    events,         \* the event channel, supervisor to processor
    alarms,         \* the alarm channel, processor to worker
    health,         \* the HealthSnapshot
    cancelled,      \* the CancellationToken has fired
    running         \* the tasks that have not returned

Tasks == {"supervisor", "processor", "worker"}

BridgeInit ==
    /\ events = << >>
    /\ alarms = << >>
    /\ health = NewHealth(TRUE)
    /\ cancelled = FALSE
    /\ running = Tasks

(* StreamItem::Reset                                                       *)
StreamReset == [kind |-> "Reset"]

(* The task t returns.                                                     *)
Return(t) == running' = running \ {t}
==============================================================================
