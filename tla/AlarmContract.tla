---------------------------- MODULE AlarmContract ----------------------------
(***************************************************************************)
(* What the fire tracker (src/src/state.rs) promises for each slot of its  *)
(* map, without saying how: a fire edge is alerted at once or stays owed   *)
(* until it is, only the cooldown may hold it back, and alerts are rate    *)
(* limited.  The memory of an alert may be lost with a slot the tracker    *)
(* discards; an owed edge may not.  FireTracker implements this module.    *)
(***************************************************************************)
EXTENDS Naturals

CONSTANTS
    Slots,      \* what alerts are rate-limited by: sources, and the overflow
    COOLDOWN,   \* least gap before the alert for an edge, in ticks
    REALERT,    \* interval of the repeated alerts, 0 when there are none
    AGE_CAP     \* an age at which every interval has elapsed

VARIABLES
    owed,       \* slots with an edge that was held back and not alerted since
    quiet       \* [Slots -> 0 .. AGE_CAP], time since the last alert

vars == <<owed, quiet>>

Init ==
    /\ owed = {}
    /\ quiet = [k \in Slots |-> AGE_CAP]

(* The ages once the slots in F have been discarded.                       *)
Forget(F) == [k \in Slots |-> IF k \in F THEN AGE_CAP ELSE quiet[k]]

(* An edge inside the cooldown is held back, and owed.                     *)
HoldBack(k, F) ==
    /\ Forget(F)[k] < COOLDOWN
    /\ owed' = owed \cup {k}
    /\ quiet' = Forget(F)

(* An edge, new or owed, is alerted once the cooldown is over.             *)
AlertEdge(k, F) ==
    /\ Forget(F)[k] >= COOLDOWN
    /\ owed' = owed \ {k}
    /\ quiet' = [Forget(F) EXCEPT ![k] = 0]

(* A fire that is already alerted is alerted again, once per interval.     *)
AlertAgain(k, F) ==
    /\ REALERT > 0
    /\ k \notin owed
    /\ Forget(F)[k] >= REALERT
    /\ owed' = owed
    /\ quiet' = [Forget(F) EXCEPT ![k] = 0]

(* A notification of such a fire may stay silent between two of them.      *)
StaySilent(k, F) ==
    /\ k \notin owed
    /\ REALERT = 0 \/ Forget(F)[k] < REALERT
    /\ owed' = owed
    /\ quiet' = Forget(F)

Notify ==
    \E k \in Slots, F \in SUBSET (Slots \ owed) :
        \/ HoldBack(k, F)
        \/ AlertEdge(k, F)
        \/ AlertAgain(k, F)
        \/ StaySilent(k, F)

PassTime ==
    /\ quiet' = [k \in Slots |-> IF quiet[k] < AGE_CAP THEN quiet[k] + 1
                                                       ELSE AGE_CAP]
    /\ UNCHANGED owed

Next == Notify \/ PassTime

Spec == Init /\ [][Next]_vars
==============================================================================
