-------------------------- MODULE FireTrackerHistory --------------------------
(***************************************************************************)
(* FireTracker beside a record of what the camera reported and what was    *)
(* alerted, kept for every source in a memory without bound, eviction or   *)
(* overflow.  The record is not part of the program: the properties below  *)
(* compare the tracker with it.                                            *)
(***************************************************************************)
EXTENDS FireTracker

(* The sources fit in the map: what happens to the others is in the        *)
(* properties of FireTracker.                                              *)
ASSUME HistoryAssumption ==
    /\ IsFiniteSet(Sources)
    /\ Cardinality(Sources) <= MAX_SOURCES

VARIABLE seen   \* [Sources -> Record], what an observer of the calls knows

historyVars == <<sources, raised, seen>>

Record ==
    [burning : BOOLEAN,   \* the latest word on the source is active
     silence : Age,       \* since that word, Never after a reset
     owed : BOOLEAN,      \* a fire started and no alert was raised since
     sinceAlert : Age]    \* since the latest alert for the source

HistoryInit ==
    /\ TrackerInit
    /\ seen = [s \in Sources |-> [burning |-> FALSE, silence |-> Never,
                                  owed |-> FALSE, sinceAlert |-> Never]]

(* A fire starts for the observer when it was not already burning, or when *)
(* the word that said so is older than the TTL.                            *)
Burning(s) == seen[s].burning /\ seen[s].silence <= ACTIVE_TTL

AlertRaisedFor(s, r) == \E a \in r : a.source = s

HistoryActive(s) ==
    /\ OnActive(s)
    /\ LET answered == AlertRaisedFor(s, raised')
       IN  seen' = [seen EXCEPT ![s] =
              [burning |-> TRUE,
               silence |-> 0,
               owed |-> (~Burning(s) \/ @.owed) /\ ~answered,
               sinceAlert |-> IF answered THEN 0 ELSE @.sinceAlert]]

HistoryInactive(s) ==
    /\ OnInactive(s)
    /\ seen' = [seen EXCEPT ![s].burning = FALSE]

HistoryReset ==
    /\ OnStreamReset
    /\ seen' = [s \in Sources |-> [seen[s] EXCEPT !.burning = FALSE,
                                                  !.silence = Never]]

HistoryTick ==
    /\ Tick
    /\ seen' = [s \in Sources |-> [seen[s] EXCEPT !.silence = Older(@),
                                                  !.sinceAlert = Older(@)]]

HistoryNext ==
    \/ \E s \in Sources : HistoryActive(s)
    \/ \E s \in Sources : HistoryInactive(s)
    \/ HistoryReset
    \/ HistoryTick

HistorySpec == HistoryInit /\ [][HistoryNext]_historyVars

(* Time goes on, the camera may fall silent.                               *)
ClockSpec == HistorySpec /\ WF_historyVars(HistoryTick)

(* Time goes on and the camera repeats `active` for every source, between  *)
(* whatever else it reports: what the firmware does while a fire lasts     *)
(* (src/tests/e2e.rs, ongoing_fire_realerts_at_the_configured_interval).   *)
RepeatingSpec ==
    /\ ClockSpec
    /\ \A s \in Sources : WF_historyVars(HistoryActive(s))

------------------------------------------------------------------------------
(* Properties that hold when the sources fit in the map.                   *)

(* A fire is owed an alert exactly while its slot carries a pending edge:  *)
(* no call sequence loses an edge, and none invents one (state.rs, pending *)
(* edges survive inactive notifications and resets).                       *)
OwedIffPending ==
    \A s \in Sources :
        seen[s].owed <=> s \in DOMAIN sources /\ sources[s].pending_edge

(* Edges are rate-limited: two alerts for the same source, the later one   *)
(* for an edge, are a cooldown apart, however the source flaps, expires or *)
(* reconnects between them (README, FIRE_COOLDOWN_SECONDS).                *)
EdgeAlertsSpaced ==
    [][\A s \in Sources :
          [source |-> s, alert |-> "NewFire"] \in raised'
              => seen[s].sinceAlert >= COOLDOWN]_historyVars

(* An alert names what the camera said.  It is NewFire only if the source   *)
(* did not burn already or is still owed its alert, and StillActive only   *)
(* if it has burned on within the TTL, every silence counted: an active    *)
(* exactly at the TTL continues a fire, one just beyond it starts another, *)
(* and so does the first after an inactive or a stream reset               *)
(* (state.rs:92-102, Alert in state.rs:25-30).                             *)
AlertsNamedTruly ==
    [][\A s \in Sources :
          /\ [source |-> s, alert |-> "NewFire"] \in raised'
                => ~Burning(s) \/ seen[s].owed
          /\ [source |-> s, alert |-> "StillActive"] \in raised'
                => Burning(s) /\ ~seen[s].owed]_historyVars

(* A fire that is owed an alert gets one if the camera goes on reporting   *)
(* it, whatever else is reported in between.                               *)
OwedEventuallyAlerted ==
    \A s \in Sources : seen[s].owed ~> ~seen[s].owed

------------------------------------------------------------------------------
(* What the documentation says and the code does not do.                   *)

(* README.md:25: "An edge suppressed by the cooldown is carried over and   *)
(* fires as soon as the cooldown expires".  It says nothing of a further   *)
(* notification, so it is checked with a clock and a silent camera.        *)
CarriedOverEdgeFires == OwedEventuallyAlerted
==============================================================================
