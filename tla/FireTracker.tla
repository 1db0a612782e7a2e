----------------------------- MODULE FireTracker -----------------------------
(***************************************************************************)
(* The per-source fire alarm state machine, src/src/state.rs.              *)
(*                                                                         *)
(* The code keeps Instants and only ever reads how long ago they were      *)
(* (now.duration_since(t)), against three thresholds.  The model keeps     *)
(* those ages, which grow with Tick and saturate at AGE_CAP, an age at     *)
(* which every interval has elapsed.  An Instant that is None is read by   *)
(* the code exactly as one infinitely old (is_none_or, is_some_and), and   *)
(* is the age Never.                                                       *)
(*                                                                         *)
(* A definition named X_Y is X with a plausible bug Y in it.  No action    *)
(* uses it: it is put in the place of X to see that the properties notice. *)
(***************************************************************************)
EXTENDS Naturals, FiniteSets, Functions

CONSTANTS
    Sources,      \* the source names the camera may report
    OVERFLOW,     \* the key of the shared slot, "overflow"
    MAX_SOURCES,  \* FireTracker::MAX_SOURCES, 1024 in the code
    COOLDOWN,     \* TrackerConfig.cooldown, in ticks
    REALERT,      \* TrackerConfig.realert, in ticks; 0 stands for None
    ACTIVE_TTL,   \* TrackerConfig.active_ttl, in ticks
    AGE_CAP       \* bound of the model: where ages saturate

(* Config::from_map rejects a zero cooldown and a zero TTL, and turns a    *)
(* zero re-alert interval into None.                                       *)
ASSUME TrackerAssumption ==
    /\ MAX_SOURCES \in Nat \ {0}
    /\ COOLDOWN \in Nat \ {0}
    /\ REALERT \in Nat
    /\ ACTIVE_TTL \in Nat \ {0}
    /\ AGE_CAP \in Nat
    /\ AGE_CAP >= COOLDOWN
    /\ AGE_CAP >= REALERT
    /\ AGE_CAP > ACTIVE_TTL

VARIABLES
    sources,      \* the map FireTracker.sources, a function on the keys held
    raised        \* the alert returned by the latest call: {} or a singleton

trackerVars == <<sources, raised>>

Keys == Sources \cup {OVERFLOW}
Age == 0 .. AGE_CAP
Never == AGE_CAP
Alert == {"NewFire", "StillActive"}

SourceState ==
    [active : BOOLEAN, pending_edge : BOOLEAN,
     last_active_msg : Age, last_alert : Age]

(* SourceState::default().                                                 *)
Fresh ==
    [active |-> FALSE, pending_edge |-> FALSE,
     last_active_msg |-> Never, last_alert |-> Never]

SlotsTyped ==
    /\ DOMAIN sources \subseteq Keys
    /\ sources \in [DOMAIN sources -> SourceState]
    /\ raised \subseteq [source : Sources, alert : Alert]

(* The types, and the room there is for them: the sources with a slot of   *)
(* their own never outnumber MAX_SOURCES, however notifications, evictions *)
(* and fallbacks to the overflow slot follow one another (state.rs:71-91). *)
TrackerTypeOK ==
    /\ SlotsTyped
    /\ Cardinality(DOMAIN sources \ {OVERFLOW}) <= MAX_SOURCES

TrackerInit ==
    /\ sources = << >>
    /\ raised = {}

------------------------------------------------------------------------------
(* Where a notification is recorded: eviction, then the overflow slot.     *)

Expired_AtTheTtl(st) == st.last_active_msg >= ACTIVE_TTL
Expired(st) == st.last_active_msg > ACTIVE_TTL

Retain_ForgetsPending(st) == ~Expired(st)
(* The predicate of sources.retain: what an eviction keeps.                *)
Retain(st) == st.pending_edge \/ ~Expired(st)

NeedsRoom_WhenOverfull(m, s) ==
    Cardinality(DOMAIN m) > MAX_SOURCES /\ s \notin DOMAIN m
(* The map m is full and s is not in it.                                   *)
NeedsRoom(m, s) == Cardinality(DOMAIN m) >= MAX_SOURCES /\ s \notin DOMAIN m

Evict(m, s) ==
    IF NeedsRoom(m, s) THEN RestrictValues(m, Retain) ELSE m

KeyFor_NoOverflow(m, s) == s
KeyFor(m, s) == IF NeedsRoom(m, s) THEN OVERFLOW ELSE s

(* sources.entry(key).or_default()                                         *)
Entry(m, k) == IF k \in DOMAIN m THEN m[k] ELSE Fresh

Put(m, k, st) == [j \in DOMAIN m \cup {k} |-> IF j = k THEN st ELSE m[j]]

------------------------------------------------------------------------------
(* What an `active` notification decides on the state st of its slot.      *)

WasActive(st) == st.active /\ ~Expired(st)

Edge(st) == ~WasActive(st) \/ st.pending_edge

CooldownOver(st) == st.last_alert >= COOLDOWN

RealertDue_Disabled(st) == FALSE
RealertDue(st) == REALERT > 0 /\ st.last_alert >= REALERT

AlertsNewFire(st) == Edge(st) /\ CooldownOver(st)
AlertsStillActive(st) == ~Edge(st) /\ RealertDue(st)

AlertsFor(s, st) ==
    {r \in [source : {s}, alert : Alert] :
        \/ r.alert = "NewFire" /\ AlertsNewFire(st)
        \/ r.alert = "StillActive" /\ AlertsStillActive(st)}

Refreshed_ExtendsCooldown(st) ==
    [active |-> TRUE,
     pending_edge |-> Edge(st) /\ ~CooldownOver(st),
     last_active_msg |-> 0,
     last_alert |-> 0]

(* The state of the slot after the notification.                           *)
Refreshed(st) ==
    [active |-> TRUE,
     pending_edge |-> Edge(st) /\ ~CooldownOver(st),
     last_active_msg |-> 0,
     last_alert |-> IF AlertsNewFire(st) \/ AlertsStillActive(st)
                    THEN 0 ELSE st.last_alert]

------------------------------------------------------------------------------
(* The operations.                                                         *)

OnActive(s) ==
    LET m == Evict(sources, s)
        k == KeyFor(m, s)
        st == Entry(m, k)
    IN  /\ sources' = Put(m, k, Refreshed(st))
        /\ raised' = AlertsFor(s, st)

Deactivated_ClearsPending(st) ==
    [st EXCEPT !.active = FALSE, !.pending_edge = FALSE]
Deactivated(st) == [st EXCEPT !.active = FALSE]

OnInactive(s) ==
    /\ sources' = [k \in DOMAIN sources |->
                      IF k = s THEN Deactivated(sources[k]) ELSE sources[k]]
    /\ raised' = {}

Rearmed_Default(st) == Fresh
Rearmed(st) == [st EXCEPT !.active = FALSE, !.last_active_msg = Never]

OnStreamReset ==
    /\ sources' = [k \in DOMAIN sources |-> Rearmed(sources[k])]
    /\ raised' = {}

(* Time passes between two calls: Instant::now() of the next one is later. *)
Older(age) == IF age < AGE_CAP THEN age + 1 ELSE AGE_CAP

Tick ==
    /\ sources' = [k \in DOMAIN sources |->
                      [sources[k] EXCEPT !.last_active_msg = Older(@),
                                         !.last_alert = Older(@)]]
    /\ raised' = {}

TrackerNext ==
    \/ \E s \in Sources : OnActive(s)
    \/ \E s \in Sources : OnInactive(s)
    \/ OnStreamReset
    \/ Tick

TrackerSpec == TrackerInit /\ [][TrackerNext]_trackerVars

------------------------------------------------------------------------------
(* Properties.                                                             *)

(* A camera that invents source names cannot grow the map beyond the cap   *)
(* and the overflow slot, whatever is evicted when (state.rs, MAX_SOURCES).*)
SourceMapBounded == Cardinality(DOMAIN sources) <= MAX_SOURCES + 1

LongestGap == IF COOLDOWN > REALERT THEN COOLDOWN ELSE REALERT

(* An active notification goes unanswered only because an alert is recent: *)
(* a slot with a pending edge was alerted less than a cooldown before its  *)
(* latest notification, and, with re-alerting on, every slot was alerted   *)
(* less than the longer of the two intervals before it.  So a fire the     *)
(* camera keeps reporting is never silent for longer, through any mix of   *)
(* inactive notifications, stream resets, expiry and eviction.             *)
SilenceBounded ==
    \A k \in DOMAIN sources :
        LET st == sources[k]
        IN  /\ st.pending_edge => st.last_alert < COOLDOWN + st.last_active_msg
            /\ REALERT > 0 => st.last_alert < LongestGap + st.last_active_msg

(* The tracker keeps its promise slot by slot: an edge it holds back stays *)
(* owed until it is alerted, across evictions, resets and inactive         *)
(* notifications, and its alerts respect the two intervals.                *)
Contract == INSTANCE AlarmContract WITH
    Slots <- Keys,
    owed <- {k \in DOMAIN sources : sources[k].pending_edge},
    quiet <- [k \in Keys |-> Entry(sources, k).last_alert]

ImplementsContract == Contract!Spec
==============================================================================
