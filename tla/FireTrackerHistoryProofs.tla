----------------------- MODULE FireTrackerHistoryProofs -----------------------
(***************************************************************************)
(* Why the tracker owes exactly the alerts an observer says it owes: its   *)
(* state of a source is the whole of what the observer knows, for every    *)
(* number of sources that fits in the map.                                 *)
(***************************************************************************)
EXTENDS FireTrackerHistory, FireTrackerProofs

(* What the observer knows, read off the state of a slot.                  *)
View(st) ==
    [burning |-> st.active,
     silence |-> st.last_active_msg,
     owed |-> st.pending_edge,
     sinceAlert |-> st.last_alert]

(* The strengthening of OwedIffPending: an edge can only be recognised if  *)
(* the activity, the silence and the latest alert are known, too.          *)
RecordExact ==
    /\ DOMAIN sources \subseteq Sources
    /\ seen \in [Sources -> Record]
    /\ \A s \in Sources : seen[s] = View(Entry(sources, s))

------------------------------------------------------------------------------
(* No source needs room: nothing is evicted, and no slot is shared.        *)

LEMMA EverySourceFits ==
    ASSUME NEW m, DOMAIN m \subseteq Sources, NEW s \in Sources
    PROVE  Evict(m, s) = m /\ KeyFor(m, s) = s
<1>1. ~NeedsRoom(m, s)
  <2> SUFFICES ASSUME s \notin DOMAIN m PROVE Cardinality(DOMAIN m) < MAX_SOURCES
    BY FS_Subset, FS_CardinalityType, HistoryAssumption, TrackerAssumption
    DEF NeedsRoom
  <2>1. IsFiniteSet(DOMAIN m)
    BY FS_Subset, HistoryAssumption
  <2>2. /\ Cardinality(DOMAIN m \cup {s}) = Cardinality(DOMAIN m) + 1
        /\ IsFiniteSet(DOMAIN m \cup {s})
    BY <2>1, FS_AddElement
  <2>3. Cardinality(DOMAIN m \cup {s}) <= Cardinality(Sources)
    BY FS_Subset, HistoryAssumption
  <2> QED
    BY <2>1, <2>2, <2>3, FS_CardinalityType, HistoryAssumption,
       TrackerAssumption
<1> QED
  BY <1>1 DEF Evict, KeyFor

(* The observer's idea of a burning fire and of an edge is the code's.     *)
LEMMA BurningIsActive ==
    ASSUME NEW s \in Sources, NEW st \in SourceState, seen[s] = View(st)
    PROVE  Burning(s) <=> WasActive(st)
BY TrackerAssumption DEF Burning, WasActive, Expired, View, SourceState, Age

LEMMA ActiveAgrees ==
    ASSUME NEW s \in Sources, NEW st \in SourceState, seen[s] = View(st),
           seen \in [Sources -> Record], HistoryActive(s),
           raised' = AlertsFor(s, st)
    PROVE  seen' = [seen EXCEPT ![s] = View(Refreshed(st))]
<1>1. /\ seen[s].burning = st.active
      /\ seen[s].silence = st.last_active_msg
      /\ seen[s].owed = st.pending_edge
      /\ seen[s].sinceAlert = st.last_alert
  BY DEF View
<1>2. Burning(s) <=> WasActive(st)
  BY BurningIsActive
<1>3. AlertRaisedFor(s, raised') <=> AlertsNewFire(st) \/ AlertsStillActive(st)
  <2>1. ASSUME NEW alert \in Alert
        PROVE  [source |-> s, alert |-> alert] \in AlertsFor(s, st)
                 <=> \/ alert = "NewFire" /\ AlertsNewFire(st)
                     \/ alert = "StillActive" /\ AlertsStillActive(st)
    BY <2>1 DEF AlertsFor
  <2>2. AlertRaisedFor(s, raised')
          <=> \E alert \in Alert :
                 [source |-> s, alert |-> alert] \in AlertsFor(s, st)
    BY DEF AlertRaisedFor, AlertsFor
  <2> QED
    BY <2>1, <2>2 DEF Alert
<1>4. ((~Burning(s) \/ seen[s].owed) /\ ~AlertRaisedFor(s, raised'))
        = (Edge(st) /\ ~CooldownOver(st))
  BY <1>1, <1>2, <1>3
  DEF Edge, AlertsNewFire, AlertsStillActive, SourceState, WasActive
<1>5. [burning |-> TRUE,
       silence |-> 0,
       owed |-> (~Burning(s) \/ seen[s].owed) /\ ~AlertRaisedFor(s, raised'),
       sinceAlert |-> IF AlertRaisedFor(s, raised') THEN 0
                      ELSE seen[s].sinceAlert]
      = View(Refreshed(st))
  BY <1>1, <1>3, <1>4 DEF View, Refreshed
<1> QED
  BY <1>5 DEF HistoryActive

(* The other operations do the same to a slot and to what the observer     *)
(* knows of it, and nothing to a slot that is not there.                   *)
Aged(st) == [st EXCEPT !.last_active_msg = Older(@), !.last_alert = Older(@)]

Unlit(r) == [burning |-> FALSE, silence |-> r.silence,
             owed |-> r.owed, sinceAlert |-> r.sinceAlert]
Cut(r) == [burning |-> FALSE, silence |-> Never,
           owed |-> r.owed, sinceAlert |-> r.sinceAlert]
Later(r) == [burning |-> r.burning, silence |-> Older(r.silence),
             owed |-> r.owed, sinceAlert |-> Older(r.sinceAlert)]

LEMMA SameRecord ==
    ASSUME NEW r \in Record, NEW q \in Record,
           r.burning = q.burning, r.silence = q.silence,
           r.owed = q.owed, r.sinceAlert = q.sinceAlert
    PROVE  r = q
BY DEF Record

LEMMA RecordUpdates ==
    ASSUME NEW r \in Record
    PROVE  /\ [r EXCEPT !.burning = FALSE] = Unlit(r)
           /\ [r EXCEPT !.burning = FALSE, !.silence = Never] = Cut(r)
           /\ [r EXCEPT !.silence = Older(@), !.sinceAlert = Older(@)]
                = Later(r)
           /\ Unlit(r) \in Record /\ Cut(r) \in Record /\ Later(r) \in Record
<1>1. /\ Unlit(r) \in Record /\ Cut(r) \in Record /\ Later(r) \in Record
  BY AgesAreNaturals DEF Unlit, Cut, Later, Record
<1>2. [r EXCEPT !.burning = FALSE] = Unlit(r)
  <2> DEFINE u == [r EXCEPT !.burning = FALSE]
  <2>1. /\ u \in Record /\ u.burning = FALSE /\ u.silence = r.silence
        /\ u.owed = r.owed /\ u.sinceAlert = r.sinceAlert
    BY DEF Record
  <2> QED
    BY <1>1, <2>1, SameRecord DEF Unlit
<1>3. [r EXCEPT !.burning = FALSE, !.silence = Never] = Cut(r)
  <2> DEFINE u == [r EXCEPT !.burning = FALSE, !.silence = Never]
  <2>1. /\ u \in Record /\ u.burning = FALSE /\ u.silence = Never
        /\ u.owed = r.owed /\ u.sinceAlert = r.sinceAlert
    BY AgesAreNaturals DEF Record
  <2> QED
    BY <1>1, <2>1, SameRecord DEF Cut
<1>4. [r EXCEPT !.silence = Older(@), !.sinceAlert = Older(@)] = Later(r)
  <2> DEFINE u == [r EXCEPT !.silence = Older(@), !.sinceAlert = Older(@)]
  <2>1. /\ u \in Record /\ u.burning = r.burning
        /\ u.silence = Older(r.silence) /\ u.owed = r.owed
        /\ u.sinceAlert = Older(r.sinceAlert)
    BY AgesAreNaturals DEF Record
  <2> QED
    BY <1>1, <2>1, SameRecord DEF Later
<1> QED
  BY <1>1, <1>2, <1>3, <1>4

LEMMA ViewCommutes ==
    ASSUME NEW st \in SourceState
    PROVE  /\ View(Deactivated(st)) = Unlit(View(st))
           /\ View(Rearmed(st)) = Cut(View(st))
           /\ View(Aged(st)) = Later(View(st))
<1>1. View(Deactivated(st)) = Unlit(View(st))
  BY DEF View, Deactivated, Unlit, SourceState
<1>2. View(Rearmed(st)) = Cut(View(st))
  BY DEF View, Rearmed, Cut, SourceState
<1>3. View(Aged(st)) = Later(View(st))
  BY DEF View, Aged, Later, SourceState
<1> QED
  BY <1>1, <1>2, <1>3

LEMMA FreshView ==
    /\ Unlit(View(Fresh)) = View(Fresh)
    /\ Cut(View(Fresh)) = View(Fresh)
    /\ Later(View(Fresh)) = View(Fresh)
<1>1. Older(Never) = Never
  BY TrackerAssumption DEF Older, Never
<1> QED
  BY <1>1 DEF View, Fresh, Later, Unlit, Cut

------------------------------------------------------------------------------

(* Beside the record, the tracker is the tracker.                          *)
LEMMA HistoryIsTracker == HistorySpec => TrackerSpec
<1>1. HistoryInit => TrackerInit
  BY DEF HistoryInit
<1>2. [HistoryNext]_historyVars => [TrackerNext]_trackerVars
  BY DEF HistoryNext, HistoryActive, HistoryInactive, HistoryReset,
         HistoryTick, historyVars, TrackerNext, trackerVars
<1> QED
  BY <1>1, <1>2, PTL DEF HistorySpec, TrackerSpec

(* One call of on_active, seen from both sides.                            *)
LEMMA ActiveStep ==
    ASSUME SlotsTyped, RecordExact, NEW s \in Sources, OnActive(s)
    PROVE  /\ Entry(sources, s) \in SourceState
           /\ sources' = Put(sources, s, Refreshed(Entry(sources, s)))
           /\ raised' = AlertsFor(s, Entry(sources, s))
<1>1. Evict(sources, s) = sources /\ KeyFor(sources, s) = s
  BY EverySourceFits DEF RecordExact
<1>2. KeyFor(Evict(sources, s), s) = s
  BY <1>1
<1> QED
  BY <1>1, <1>2, EntryType DEF OnActive, SlotsTyped

LEMMA RecordStaysExact ==
    ASSUME SlotsTyped, RecordExact, [HistoryNext]_historyVars
    PROVE  RecordExact'
<1>1. ASSUME NEW s \in Sources, HistoryActive(s) PROVE RecordExact'
  <2> DEFINE st == Entry(sources, s)
  <2>1. OnActive(s)
    BY <1>1 DEF HistoryActive
  <2>2. /\ st \in SourceState
        /\ sources' = Put(sources, s, Refreshed(st))
        /\ raised' = AlertsFor(s, st)
    BY <2>1, ActiveStep
  <2>3. seen' = [seen EXCEPT ![s] = View(Refreshed(st))]
    BY <1>1, <2>2, ActiveAgrees DEF RecordExact
  <2>4. Refreshed(st) \in SourceState
    BY <2>2, RefreshedType
  <2>5. View(Refreshed(st)) \in Record
    BY <2>4 DEF View, Record, SourceState
  <2>6. DOMAIN sources' = DOMAIN sources \cup {s}
    BY <2>2 DEF Put
  <2>7. ASSUME NEW t \in Sources
        PROVE  Entry(sources', t) = IF t = s THEN Refreshed(st)
                                    ELSE Entry(sources, t)
    BY <2>2 DEF Entry, Put
  <2> HIDE DEF st
  <2> QED
    BY <2>3, <2>5, <2>6, <2>7 DEF RecordExact
<1>2. ASSUME NEW s \in Sources, HistoryInactive(s) PROVE RecordExact'
  <2>1. /\ sources' = [k \in DOMAIN sources |->
                          IF k = s THEN Deactivated(sources[k])
                                   ELSE sources[k]]
        /\ seen' = [seen EXCEPT ![s].burning = FALSE]
    BY <1>2 DEF HistoryInactive, OnInactive
  <2>2. seen' \in [Sources -> Record]
    BY <2>1 DEF RecordExact, Record
  <2>3. ASSUME NEW t \in Sources PROVE seen'[t] = View(Entry(sources', t))
    <3>1. seen[t] = View(Entry(sources, t))
      BY DEF RecordExact
    <3>2. seen'[t] = IF t = s THEN Unlit(seen[t]) ELSE seen[t]
      BY <2>1, RecordUpdates DEF RecordExact
    <3>3. CASE t \in DOMAIN sources
      <4>1. Entry(sources, t) = sources[t] /\ sources[t] \in SourceState
        BY <3>3 DEF Entry, SlotsTyped
      <4>2. Entry(sources', t) = IF t = s THEN Deactivated(sources[t])
                                          ELSE sources[t]
        BY <2>1, <3>3 DEF Entry
      <4> QED
        BY <3>1, <3>2, <4>1, <4>2, ViewCommutes
    <3>4. CASE t \notin DOMAIN sources
      <4>1. Entry(sources, t) = Fresh /\ Entry(sources', t) = Fresh
        BY <2>1, <3>4 DEF Entry
      <4> QED
        BY <3>1, <3>2, <4>1, FreshView
    <3> QED
      BY <3>3, <3>4
  <2> QED
    BY <2>1, <2>2, <2>3 DEF RecordExact
<1>3. CASE HistoryReset
  <2>1. /\ sources' = [k \in DOMAIN sources |-> Rearmed(sources[k])]
        /\ seen' = [s \in Sources |-> [seen[s] EXCEPT !.burning = FALSE,
                                                      !.silence = Never]]
    BY <1>3 DEF HistoryReset, OnStreamReset
  <2>2. seen' \in [Sources -> Record]
    BY <2>1, AgesAreNaturals DEF RecordExact, Record
  <2>3. ASSUME NEW t \in Sources PROVE seen'[t] = View(Entry(sources', t))
    <3>1. seen[t] = View(Entry(sources, t))
      BY DEF RecordExact
    <3>2. seen'[t] = Cut(seen[t])
      BY <2>1, RecordUpdates DEF RecordExact
    <3>3. CASE t \in DOMAIN sources
      <4>1. Entry(sources, t) = sources[t] /\ sources[t] \in SourceState
        BY <3>3 DEF Entry, SlotsTyped
      <4>2. Entry(sources', t) = Rearmed(sources[t])
        BY <2>1, <3>3 DEF Entry
      <4> QED
        BY <3>1, <3>2, <4>1, <4>2, ViewCommutes
    <3>4. CASE t \notin DOMAIN sources
      <4>1. Entry(sources, t) = Fresh /\ Entry(sources', t) = Fresh
        BY <2>1, <3>4 DEF Entry
      <4> QED
        BY <3>1, <3>2, <4>1, FreshView
    <3> QED
      BY <3>3, <3>4
  <2> QED
    BY <2>1, <2>2, <2>3 DEF RecordExact
<1>4. CASE HistoryTick
  <2>1. /\ sources' = [k \in DOMAIN sources |->
                          [sources[k] EXCEPT !.last_active_msg = Older(@),
                                             !.last_alert = Older(@)]]
        /\ seen' = [s \in Sources |->
                       [seen[s] EXCEPT !.silence = Older(@),
                                       !.sinceAlert = Older(@)]]
    BY <1>4 DEF HistoryTick, Tick
  <2>2. seen' \in [Sources -> Record]
    BY <2>1, AgesAreNaturals DEF RecordExact, Record
  <2>3. ASSUME NEW t \in Sources PROVE seen'[t] = View(Entry(sources', t))
    <3>1. seen[t] = View(Entry(sources, t))
      BY DEF RecordExact
    <3>2. seen'[t] = Later(seen[t])
      BY <2>1, RecordUpdates DEF RecordExact
    <3>3. CASE t \in DOMAIN sources
      <4>1. Entry(sources, t) = sources[t] /\ sources[t] \in SourceState
        BY <3>3 DEF Entry, SlotsTyped
      <4>2. Entry(sources', t) = Aged(sources[t])
        BY <2>1, <3>3 DEF Entry, Aged
      <4> QED
        BY <3>1, <3>2, <4>1, <4>2, ViewCommutes
    <3>4. CASE t \notin DOMAIN sources
      <4>1. Entry(sources, t) = Fresh /\ Entry(sources', t) = Fresh
        BY <2>1, <3>4 DEF Entry
      <4> QED
        BY <3>1, <3>2, <4>1, FreshView
    <3> QED
      BY <3>3, <3>4
  <2> QED
    BY <2>1, <2>2, <2>3 DEF RecordExact
<1>5. CASE UNCHANGED historyVars
  BY <1>5 DEF historyVars, RecordExact, Entry
<1> QED
  BY <1>1, <1>2, <1>3, <1>4, <1>5 DEF HistoryNext

(* The tracker's state of a source is what the observer knows of it        *)
(* (struct SourceState, state.rs): nothing it forgets could matter.        *)
THEOREM RecordIsExact == HistorySpec => [](SlotsTyped /\ RecordExact)
<1>1. HistoryInit => RecordExact
  BY AgesAreNaturals
  DEF HistoryInit, TrackerInit, RecordExact, Record, View, Entry, Fresh
<1>2. HistorySpec => []SlotsTyped
  BY HistoryIsTracker, SlotsStayTyped
<1> QED
  BY <1>1, <1>2, RecordStaysExact, PTL DEF HistorySpec

(* A pending edge is exactly a fire without its alert, for any number of   *)
(* sources that fits in the map (state.rs, pending_edge).                  *)
THEOREM OwedIsPending == HistorySpec => []OwedIffPending
<1>1. RecordExact => OwedIffPending
  <2> SUFFICES ASSUME RecordExact, NEW s \in Sources
               PROVE  seen[s].owed <=>
                        s \in DOMAIN sources /\ sources[s].pending_edge
    BY DEF OwedIffPending
  <2>1. seen[s].owed = Entry(sources, s).pending_edge
    BY DEF RecordExact, View
  <2> QED
    BY <2>1 DEF Entry, Fresh
<1> QED
  BY <1>1, RecordIsExact, PTL

(* Two alerts for a source, the later one for an edge, are a cooldown      *)
(* apart (README, FIRE_COOLDOWN_SECONDS).                                  *)
THEOREM EdgesAreSpaced == HistorySpec => EdgeAlertsSpaced
<1> DEFINE Spaced == \A s \in Sources :
        [source |-> s, alert |-> "NewFire"] \in raised'
            => seen[s].sinceAlert >= COOLDOWN
<1>1. ASSUME SlotsTyped, RecordExact, [HistoryNext]_historyVars
      PROVE  [Spaced]_historyVars
  <2>1. ASSUME NEW s \in Sources, HistoryActive(s) PROVE Spaced
    <3>1. raised' = AlertsFor(s, Entry(sources, s))
      BY <1>1, <2>1, ActiveStep DEF HistoryActive
    <3>2. seen[s].sinceAlert = Entry(sources, s).last_alert
      BY <1>1 DEF RecordExact, View
    <3> QED
      BY <3>1, <3>2 DEF AlertsFor, AlertsNewFire, CooldownOver
  <2>2. ASSUME raised' = {} PROVE Spaced
    BY <2>2
  <2>3. HistoryNext => (\E s \in Sources : HistoryActive(s)) \/ raised' = {}
    BY DEF HistoryNext, HistoryInactive, HistoryReset, HistoryTick,
           OnInactive, OnStreamReset, Tick
  <2> QED
    BY <1>1, <2>1, <2>2, <2>3
<1>2. HistorySpec => [][Spaced]_historyVars
  BY <1>1, RecordIsExact, PTL DEF HistorySpec
<1> QED
  BY <1>2 DEF EdgeAlertsSpaced

(* Every alert names what the camera said: NewFire for a source that did   *)
(* not burn already or is still owed its alert, StillActive for one that   *)
(* burned on within the TTL (state.rs:92-102).                             *)
THEOREM AlertsAreTrue == HistorySpec => AlertsNamedTruly
<1> DEFINE Truly == \A s \in Sources :
        /\ [source |-> s, alert |-> "NewFire"] \in raised'
              => ~Burning(s) \/ seen[s].owed
        /\ [source |-> s, alert |-> "StillActive"] \in raised'
              => Burning(s) /\ ~seen[s].owed
<1>1. ASSUME SlotsTyped, RecordExact, [HistoryNext]_historyVars
      PROVE  [Truly]_historyVars
  <2>1. ASSUME NEW s \in Sources, HistoryActive(s) PROVE Truly
    <3> DEFINE st == Entry(sources, s)
    <3>1. st \in SourceState /\ raised' = AlertsFor(s, st)
      BY <1>1, <2>1, ActiveStep DEF HistoryActive
    <3>2. Burning(s) <=> WasActive(st)
      BY <1>1, <3>1, BurningIsActive DEF RecordExact
    <3>3. seen[s].owed = st.pending_edge
      BY <1>1 DEF RecordExact, View
    <3> HIDE DEF st
    <3>4. AlertsNewFire(st) => ~Burning(s) \/ seen[s].owed
      BY <3>2, <3>3 DEF AlertsNewFire, Edge
    <3>5. AlertsStillActive(st) => Burning(s) /\ ~seen[s].owed
      BY <3>2, <3>3 DEF AlertsStillActive, Edge
    <3> QED
      BY <3>1, <3>4, <3>5 DEF AlertsFor
  <2>2. ASSUME raised' = {} PROVE Truly
    BY <2>2
  <2>3. HistoryNext => (\E s \in Sources : HistoryActive(s)) \/ raised' = {}
    BY DEF HistoryNext, HistoryInactive, HistoryReset, HistoryTick,
           OnInactive, OnStreamReset, Tick
  <2> QED
    BY <1>1, <2>1, <2>2, <2>3
<1>2. HistorySpec => [][Truly]_historyVars
  BY <1>1, RecordIsExact, PTL DEF HistorySpec
<1> QED
  BY <1>2 DEF AlertsNamedTruly
==============================================================================
