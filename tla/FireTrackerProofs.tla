-------------------------- MODULE FireTrackerProofs --------------------------
(***************************************************************************)
(* What FireTracker guarantees for every set of sources, every capacity    *)
(* and every choice of the three intervals.                                *)
(***************************************************************************)
EXTENDS FireTracker, FiniteSetTheorems, TLAPS

------------------------------------------------------------------------------
(* Facts about the operators.                                              *)

LEMMA AgesAreNaturals ==
    /\ Age \subseteq Nat
    /\ 0 \in Age
    /\ Never \in Age
    /\ \A a \in Age : Older(a) \in Age /\ Older(a) <= a + 1
BY TrackerAssumption DEF Age, Never, Older

(* Eviction hands on a map of the same kind, without the slots it drops.   *)
LEMMA EvictKeeps ==
    ASSUME NEW m, NEW s,
           DOMAIN m \subseteq Keys, m \in [DOMAIN m -> SourceState]
    PROVE  /\ DOMAIN Evict(m, s) \subseteq DOMAIN m
           /\ Evict(m, s) \in [DOMAIN Evict(m, s) -> SourceState]
           /\ \A k \in DOMAIN Evict(m, s) : Evict(m, s)[k] = m[k]
           /\ \A k \in DOMAIN m :
                 m[k].pending_edge => k \in DOMAIN Evict(m, s)
BY DEF Evict, RestrictValues, Restrict, Retain

LEMMA KeyForType == ASSUME NEW m, NEW s \in Sources PROVE KeyFor(m, s) \in Keys
BY DEF KeyFor, Keys

LEMMA EntryType ==
    ASSUME NEW m, m \in [DOMAIN m -> SourceState], NEW k
    PROVE  Entry(m, k) \in SourceState
BY AgesAreNaturals DEF Entry, Fresh, SourceState

LEMMA RefreshedType ==
    ASSUME NEW st \in SourceState
    PROVE  Refreshed(st) \in SourceState
BY AgesAreNaturals DEF Refreshed, SourceState, Edge, WasActive, Expired

LEMMA PutType ==
    ASSUME NEW m, m \in [DOMAIN m -> SourceState], NEW k,
           NEW st \in SourceState
    PROVE  /\ DOMAIN Put(m, k, st) = DOMAIN m \cup {k}
           /\ Put(m, k, st) \in [DOMAIN m \cup {k} -> SourceState]
BY DEF Put

------------------------------------------------------------------------------
(* Every operation keeps the types.                                        *)
LEMMA TypeStep ==
    SlotsTyped /\ [TrackerNext]_trackerVars => SlotsTyped'
<1> SUFFICES ASSUME SlotsTyped, [TrackerNext]_trackerVars
             PROVE  SlotsTyped'
  OBVIOUS
<1>1. ASSUME NEW s \in Sources, OnActive(s) PROVE SlotsTyped'
  <2> DEFINE m == Evict(sources, s)
             k == KeyFor(m, s)
             st == Entry(m, k)
  <2>1. DOMAIN m \subseteq Keys /\ m \in [DOMAIN m -> SourceState]
    BY EvictKeeps DEF SlotsTyped
  <2>2. k \in Keys
    BY KeyForType
  <2>3. st \in SourceState
    BY <2>1, EntryType
  <2>4. Refreshed(st) \in SourceState
    BY <2>3, RefreshedType
  <2>5. sources' = Put(m, k, Refreshed(st)) /\ raised' = AlertsFor(s, st)
    BY <1>1 DEF OnActive
  <2>6. DOMAIN sources' = DOMAIN m \cup {k}
        /\ sources' \in [DOMAIN sources' -> SourceState]
    <3> HIDE DEF m, k, st
    <3> QED BY <2>1, <2>4, <2>5, PutType
  <2>7. raised' \subseteq [source : Sources, alert : Alert]
    BY <2>5 DEF AlertsFor
  <2> QED
    BY <2>1, <2>2, <2>6, <2>7 DEF SlotsTyped
<1>2. ASSUME NEW s \in Sources, OnInactive(s) PROVE SlotsTyped'
  BY <1>2 DEF OnInactive, SlotsTyped, Deactivated, SourceState
<1>3. CASE OnStreamReset
  BY <1>3, AgesAreNaturals
  DEF OnStreamReset, SlotsTyped, Rearmed, SourceState
<1>4. CASE Tick
  BY <1>4, AgesAreNaturals DEF Tick, SlotsTyped, SourceState
<1>5. CASE UNCHANGED trackerVars
  BY <1>5 DEF trackerVars, SlotsTyped
<1> QED
  BY <1>1, <1>2, <1>3, <1>4, <1>5 DEF TrackerNext

LEMMA SlotsStayTyped == TrackerSpec => []SlotsTyped
<1>1. TrackerInit => SlotsTyped
  BY DEF TrackerInit, SlotsTyped
<1> QED
  BY <1>1, TypeStep, PTL DEF TrackerSpec

------------------------------------------------------------------------------
(* The bound on the map.  It is not inductive by itself: a map of          *)
(* MAX_SOURCES + 1 slots without the overflow slot could still grow.  What *)
(* the steps preserve is that the slots other than the overflow fit.       *)
NamedSlotsFit ==
    /\ IsFiniteSet(DOMAIN sources)
    /\ Cardinality(DOMAIN sources \ {OVERFLOW}) <= MAX_SOURCES

(* Recording a notification in the slot chosen for it keeps the named      *)
(* slots within the capacity.                                              *)
LEMMA RoomForNamedSlot ==
    ASSUME NEW m, IsFiniteSet(DOMAIN m),
           Cardinality(DOMAIN m \ {OVERFLOW}) <= MAX_SOURCES,
           NEW s
    PROVE  LET D == DOMAIN m \cup {KeyFor(m, s)}
           IN  /\ IsFiniteSet(D)
               /\ Cardinality(D \ {OVERFLOW}) <= MAX_SOURCES
<1> DEFINE D == DOMAIN m \cup {KeyFor(m, s)}
           N == DOMAIN m \ {OVERFLOW}
<1>1. IsFiniteSet(D)
  BY FS_AddElement
<1>2. CASE KeyFor(m, s) = OVERFLOW \/ s \in DOMAIN m
  <2>1. D \ {OVERFLOW} = N
    BY <1>2 DEF KeyFor, NeedsRoom
  <2> QED
    BY <1>1, <2>1
<1>3. CASE KeyFor(m, s) # OVERFLOW /\ s \notin DOMAIN m
  <2>1. KeyFor(m, s) = s /\ ~(Cardinality(DOMAIN m) >= MAX_SOURCES)
    BY <1>3 DEF KeyFor, NeedsRoom
  <2>2. D \ {OVERFLOW} = N \cup {s}
    BY <1>3, <2>1
  <2>3. IsFiniteSet(N) /\ Cardinality(N) <= Cardinality(DOMAIN m)
    BY FS_Subset
  <2>4. Cardinality(N) \in Nat /\ Cardinality(DOMAIN m) \in Nat
    BY <2>3, FS_CardinalityType
  <2>5. Cardinality(N \cup {s}) <= Cardinality(N) + 1
    BY <2>3, <2>4, FS_AddElement
  <2>6. Cardinality(N \cup {s}) \in Nat
    BY <2>3, FS_AddElement, FS_CardinalityType
  <2> HIDE DEF D, N
  <2>7. Cardinality(N \cup {s}) <= MAX_SOURCES
    BY <2>1, <2>3, <2>4, <2>5, <2>6, TrackerAssumption
  <2> QED
    BY <1>1, <2>2, <2>7 DEF D
<1> QED
  BY <1>2, <1>3

LEMMA NamedSlotsStep ==
    ASSUME SlotsTyped, NamedSlotsFit, [TrackerNext]_trackerVars
    PROVE  NamedSlotsFit'
<1>1. ASSUME NEW s \in Sources, OnActive(s) PROVE NamedSlotsFit'
  <2> DEFINE m == Evict(sources, s)
             st == Refreshed(Entry(m, KeyFor(m, s)))
  <2>1. DOMAIN m \subseteq DOMAIN sources
    BY EvictKeeps DEF SlotsTyped
  <2>2. IsFiniteSet(DOMAIN m)
    BY <2>1, FS_Subset DEF NamedSlotsFit
  <2>3. Cardinality(DOMAIN m \ {OVERFLOW}) <= MAX_SOURCES
    <3> DEFINE A == DOMAIN m \ {OVERFLOW}
               B == DOMAIN sources \ {OVERFLOW}
    <3>1. IsFiniteSet(B)
      BY FS_RemoveElement DEF NamedSlotsFit
    <3>2. A \in SUBSET B
      BY <2>1
    <3>3. IsFiniteSet(A) /\ Cardinality(A) <= Cardinality(B)
      BY <3>1, <3>2, FS_Subset
    <3>4. Cardinality(A) \in Nat /\ Cardinality(B) \in Nat
      BY <3>1, <3>3, FS_CardinalityType
    <3>5. Cardinality(B) <= MAX_SOURCES
      BY DEF NamedSlotsFit
    <3> HIDE DEF A, B
    <3>6. Cardinality(A) <= MAX_SOURCES
      BY <3>3, <3>4, <3>5, TrackerAssumption
    <3> QED
      BY <3>6 DEF A
  <2>4. DOMAIN sources' = DOMAIN m \cup {KeyFor(m, s)}
    BY <1>1 DEF OnActive, Put
  <2> HIDE DEF m
  <2> QED
    BY <2>2, <2>3, <2>4, RoomForNamedSlot DEF NamedSlotsFit
<1>2. ASSUME NEW s \in Sources, OnInactive(s) PROVE NamedSlotsFit'
  BY <1>2 DEF OnInactive, NamedSlotsFit
<1>3. CASE OnStreamReset
  BY <1>3 DEF OnStreamReset, NamedSlotsFit
<1>4. CASE Tick
  BY <1>4 DEF Tick, NamedSlotsFit
<1>5. CASE UNCHANGED trackerVars
  BY <1>5 DEF trackerVars, NamedSlotsFit
<1> QED
  BY <1>1, <1>2, <1>3, <1>4, <1>5 DEF TrackerNext

LEMMA NamedSlotsInit == TrackerInit => NamedSlotsFit
<1> SUFFICES ASSUME TrackerInit PROVE NamedSlotsFit
  OBVIOUS
<1>1. DOMAIN sources = {} /\ DOMAIN sources \ {OVERFLOW} = {}
  BY DEF TrackerInit
<1> QED
  BY <1>1, FS_EmptySet, TrackerAssumption DEF NamedSlotsFit

LEMMA NamedSlotsBoundMap == NamedSlotsFit => SourceMapBounded
<1> SUFFICES ASSUME NamedSlotsFit PROVE SourceMapBounded
  OBVIOUS
<1> DEFINE D == DOMAIN sources
           N == D \ {OVERFLOW}
<1>1. IsFiniteSet(D) /\ IsFiniteSet(N)
  BY FS_RemoveElement DEF NamedSlotsFit
<1>2. Cardinality(D) <= Cardinality(N) + 1
  <2>1. Cardinality(D) \in Nat
    BY <1>1, FS_CardinalityType
  <2>2. Cardinality(N) = Cardinality(D) - 1 \/ Cardinality(N) = Cardinality(D)
    BY <1>1, FS_RemoveElement
  <2> QED
    BY <2>1, <2>2
<1>3. Cardinality(N) \in Nat /\ Cardinality(D) \in Nat
  BY <1>1, FS_CardinalityType
<1>4. Cardinality(N) <= MAX_SOURCES
  BY DEF NamedSlotsFit
<1> HIDE DEF N
<1> QED
  BY <1>2, <1>3, <1>4, TrackerAssumption DEF SourceMapBounded

(* The map never holds more than MAX_SOURCES slots and the overflow slot,  *)
(* however many source names the camera invents (state.rs, on_active).     *)
THEOREM MapBounded == TrackerSpec => []SourceMapBounded
BY NamedSlotsInit, NamedSlotsStep, NamedSlotsBoundMap, SlotsStayTyped, PTL
DEF TrackerSpec

(* Every reachable state of the tracker is well typed (struct SourceState, *)
(* state.rs), and no more than MAX_SOURCES sources have slots of their own.*)
THEOREM TypeCorrect == TrackerSpec => []TrackerTypeOK
<1>1. SlotsTyped /\ NamedSlotsFit => TrackerTypeOK
  BY DEF TrackerTypeOK, NamedSlotsFit
<1> QED
  BY <1>1, NamedSlotsInit, NamedSlotsStep, SlotsStayTyped, PTL DEF TrackerSpec

------------------------------------------------------------------------------
(* The bound on silence is inductive beside the types.                     *)

SlotAnswered(st) ==
    /\ st.pending_edge => st.last_alert < COOLDOWN + st.last_active_msg
    /\ REALERT > 0 => st.last_alert < LongestGap + st.last_active_msg

(* A notification leaves its slot answered, whatever the slot was before.  *)
LEMMA RefreshedIsAnswered ==
    ASSUME NEW st \in SourceState
    PROVE  SlotAnswered(Refreshed(st))
<1> DEFINE after == Refreshed(st)
<1>1. st.last_alert \in Nat
  BY AgesAreNaturals DEF SourceState
<1>2. after.last_active_msg = 0
  BY DEF Refreshed
<1>3. CASE AlertsNewFire(st) \/ AlertsStillActive(st)
  <2>1. after.last_alert = 0
    BY <1>3 DEF Refreshed
  <2> QED
    BY <1>2, <2>1, TrackerAssumption DEF SlotAnswered, LongestGap
<1>4. CASE ~AlertsNewFire(st) /\ ~AlertsStillActive(st)
  <2>1. after.last_alert = st.last_alert
    BY <1>4 DEF Refreshed
  <2>2. after.pending_edge <=> Edge(st) /\ ~CooldownOver(st)
    BY DEF Refreshed
  <2>3. Edge(st) => st.last_alert < COOLDOWN
    BY <1>1, <1>4, TrackerAssumption DEF AlertsNewFire, CooldownOver
  <2>4. ~Edge(st) /\ REALERT > 0 => st.last_alert < REALERT
    BY <1>1, <1>4, TrackerAssumption DEF AlertsStillActive, RealertDue
  <2> QED
    BY <1>1, <1>2, <2>1, <2>2, <2>3, <2>4, TrackerAssumption
    DEF SlotAnswered, LongestGap
<1> QED
  BY <1>3, <1>4

LEMMA SilenceStep ==
    ASSUME SlotsTyped, SilenceBounded, [TrackerNext]_trackerVars
    PROVE  SilenceBounded'
<1>0. \A k \in DOMAIN sources : /\ sources[k] \in SourceState
                                /\ SlotAnswered(sources[k])
  BY DEF SlotsTyped, SilenceBounded, SlotAnswered
<1> SUFFICES \A k \in DOMAIN sources' : SlotAnswered(sources'[k])
  BY DEF SilenceBounded, SlotAnswered
<1>1. ASSUME NEW s \in Sources, OnActive(s)
      PROVE  \A k \in DOMAIN sources' : SlotAnswered(sources'[k])
  <2> DEFINE m == Evict(sources, s)
             j == KeyFor(m, s)
             st == Entry(m, j)
  <2>1. /\ DOMAIN m \subseteq DOMAIN sources
        /\ m \in [DOMAIN m -> SourceState]
        /\ \A k \in DOMAIN m : m[k] = sources[k]
    BY EvictKeeps DEF SlotsTyped
  <2>2. SlotAnswered(Refreshed(st))
    BY <2>1, EntryType, RefreshedIsAnswered
  <2>3. sources' = Put(m, j, Refreshed(st))
    BY <1>1 DEF OnActive
  <2> HIDE DEF m, j, st
  <2> QED
    BY <1>0, <2>1, <2>2, <2>3 DEF Put
<1>2. ASSUME NEW s \in Sources, OnInactive(s)
      PROVE  \A k \in DOMAIN sources' : SlotAnswered(sources'[k])
  BY <1>0, <1>2 DEF OnInactive, Deactivated, SlotAnswered, SourceState
<1>3. ASSUME OnStreamReset
      PROVE  \A k \in DOMAIN sources' : SlotAnswered(sources'[k])
  <2>1. ASSUME NEW st \in SourceState, SlotAnswered(st)
        PROVE  SlotAnswered(Rearmed(st))
    BY <2>1, TrackerAssumption
    DEF SlotAnswered, Rearmed, SourceState, Age, Never, LongestGap
  <2> QED
    BY <1>0, <1>3, <2>1 DEF OnStreamReset
<1>4. ASSUME Tick
      PROVE  \A k \in DOMAIN sources' : SlotAnswered(sources'[k])
  <2>1. ASSUME NEW st \in SourceState, SlotAnswered(st)
        PROVE  SlotAnswered([st EXCEPT !.last_active_msg = Older(@),
                                       !.last_alert = Older(@)])
    BY <2>1, TrackerAssumption
    DEF SlotAnswered, Older, SourceState, Age, LongestGap
  <2> QED
    BY <1>0, <1>4, <2>1 DEF Tick
<1>5. ASSUME UNCHANGED trackerVars
      PROVE  \A k \in DOMAIN sources' : SlotAnswered(sources'[k])
  BY <1>0, <1>5 DEF trackerVars
<1> QED
  BY <1>1, <1>2, <1>3, <1>4, <1>5 DEF TrackerNext

(* A fire the camera keeps reporting is not silent for longer than the     *)
(* cooldown and the re-alert interval, through inactive notifications,     *)
(* resets, expiry and eviction (state.rs, on_active).                      *)
THEOREM SilenceIsBounded == TrackerSpec => []SilenceBounded
<1>1. TrackerInit => SilenceBounded
  BY DEF TrackerInit, SilenceBounded
<1> QED
  BY <1>1, SilenceStep, SlotsStayTyped, PTL DEF TrackerSpec

------------------------------------------------------------------------------
(* The tracker implements the contract.                                    *)

Owed == {k \in DOMAIN sources : sources[k].pending_edge}
Quiet == [k \in Keys |-> Entry(sources, k).last_alert]

(* Between two calls the ages grow in the contract as they do in the map.  *)
LEMMA TickIsPassTime ==
    SlotsTyped /\ Tick => Contract!PassTime
<1> SUFFICES ASSUME SlotsTyped, Tick PROVE Contract!PassTime
  OBVIOUS
<1>1. DOMAIN sources' = DOMAIN sources
  BY DEF Tick
<1>2. \A k \in DOMAIN sources :
         /\ sources'[k].pending_edge = sources[k].pending_edge
         /\ sources'[k].last_alert = Older(sources[k].last_alert)
  BY DEF Tick, SlotsTyped, SourceState
<1>3. UNCHANGED Owed
  BY <1>1, <1>2 DEF Owed
<1>4. \A k \in Keys : Entry(sources, k)'.last_alert
                        = Older(Entry(sources, k).last_alert)
  <2> TAKE k \in Keys
  <2>1. CASE k \in DOMAIN sources
    BY <1>1, <1>2, <2>1 DEF Entry
  <2>2. CASE k \notin DOMAIN sources
    BY <1>1, <2>2, TrackerAssumption DEF Entry, Fresh, Older, Never
  <2> QED
    BY <2>1, <2>2
<1>5. Quiet' = [k \in Keys |-> Older(Quiet[k])]
  BY <1>4 DEF Quiet
<1> QED
  BY <1>3, <1>5 DEF Contract!PassTime, Owed, Quiet, Older

(* A call that clears `active` only is no step of the contract.            *)
LEMMA QuietStep ==
    ASSUME DOMAIN sources' = DOMAIN sources,
           \A k \in DOMAIN sources :
              /\ sources'[k].pending_edge = sources[k].pending_edge
              /\ sources'[k].last_alert = sources[k].last_alert
    PROVE  UNCHANGED Contract!vars
<1>1. UNCHANGED Owed
  BY DEF Owed
<1>2. \A k \in Keys : Entry(sources, k)'.last_alert
                        = Entry(sources, k).last_alert
  BY DEF Entry
<1>3. UNCHANGED Quiet
  BY <1>2 DEF Quiet
<1> QED
  BY <1>1, <1>3 DEF Contract!vars, Owed, Quiet

(* An active notification holds the edge back, alerts it, alerts again or  *)
(* stays silent, after discarding the slots that the eviction drops.       *)
LEMMA ActiveIsNotify ==
    ASSUME SlotsTyped, NEW s \in Sources, OnActive(s)
    PROVE  Contract!Notify
<1> DEFINE m == Evict(sources, s)
           k == KeyFor(m, s)
           st == Entry(m, k)
           F == DOMAIN sources \ DOMAIN m
           forgotten == [j \in Keys |-> Entry(m, j).last_alert]
<1>1. /\ DOMAIN m \subseteq DOMAIN sources
      /\ DOMAIN sources \subseteq Keys
      /\ m \in [DOMAIN m -> SourceState]
      /\ \A j \in DOMAIN m : m[j] = sources[j]
      /\ \A j \in DOMAIN sources : sources[j].pending_edge => j \in DOMAIN m
  BY EvictKeeps DEF SlotsTyped
<1>2. k \in Keys
  BY KeyForType
<1>3. st \in SourceState /\ st.last_alert \in Nat
  BY <1>1, EntryType, AgesAreNaturals DEF SourceState
<1>4. sources' = Put(m, k, Refreshed(st))
  BY DEF OnActive
<1> HIDE DEF m, k
<1>5. F \in SUBSET (Keys \ Owed)
  BY <1>1 DEF Owed
<1>6. Contract!Forget(F) = forgotten
  <2>1. \A j \in Keys : (IF j \in F THEN AGE_CAP ELSE Quiet[j])
                          = Entry(m, j).last_alert
    <3> TAKE j \in Keys
    <3>1. CASE j \in DOMAIN m
      BY <1>1, <3>1 DEF Entry, Quiet
    <3>2. CASE j \in F
      BY <3>2 DEF Entry, Fresh, Never
    <3>3. CASE j \notin DOMAIN sources
      BY <1>1, <3>3 DEF Entry, Quiet, Fresh, Never
    <3> QED
      BY <3>1, <3>2, <3>3
  <2> HIDE DEF F
  <2> QED
    BY <2>1 DEF Contract!Forget, Quiet
<1>7. forgotten[k] = st.last_alert
  BY <1>2
<1>8. k \in Owed <=> st.pending_edge
  BY <1>1 DEF Owed, Entry, Fresh
<1>9. Owed' = IF Refreshed(st).pending_edge THEN Owed \cup {k}
                                            ELSE Owed \ {k}
  <2>1. \A j : j \in Owed' <=> IF j = k THEN Refreshed(st).pending_edge
                                        ELSE j \in DOMAIN m /\ m[j].pending_edge
    BY <1>4 DEF Owed, Put
  <2>2. \A j : j # k => (j \in Owed <=> j \in DOMAIN m /\ m[j].pending_edge)
    BY <1>1 DEF Owed
  <2> QED
    BY <2>1, <2>2
<1>10. Quiet' = [forgotten EXCEPT ![k] = Refreshed(st).last_alert]
  <2>1. \A j \in Keys : Entry(sources, j)'.last_alert =
            IF j = k THEN Refreshed(st).last_alert ELSE Entry(m, j).last_alert
    BY <1>4 DEF Entry, Put
  <2> QED
    BY <2>1 DEF Quiet
<1> SUFFICES \/ Contract!HoldBack(k, F)
             \/ Contract!AlertEdge(k, F)
             \/ Contract!AlertAgain(k, F)
             \/ Contract!StaySilent(k, F)
  <2> HIDE DEF F
  <2> QED
    BY <1>2, <1>5
    DEF Contract!Notify, Contract!HoldBack, Contract!AlertEdge,
        Contract!AlertAgain, Contract!StaySilent, Contract!Forget, Owed
<1>11. CASE AlertsNewFire(st)
  <2>1. Refreshed(st).pending_edge = FALSE /\ Refreshed(st).last_alert = 0
    BY <1>11 DEF Refreshed, AlertsNewFire
  <2>2. Contract!AlertEdge(k, F)
    BY <1>6, <1>7, <1>9, <1>10, <1>11, <2>1
    DEF Contract!AlertEdge, AlertsNewFire, CooldownOver, Owed, Quiet
  <2> QED
    BY <2>2
<1>12. CASE AlertsStillActive(st)
  <2>1. /\ ~Edge(st)
        /\ REALERT > 0
        /\ st.last_alert >= REALERT
    BY <1>12 DEF AlertsStillActive, RealertDue
  <2>2. k \notin Owed
    BY <1>8, <2>1 DEF Edge
  <2>3. ~Refreshed(st).pending_edge /\ Refreshed(st).last_alert = 0
    BY <1>12, <2>1 DEF Refreshed
  <2>4. Owed' = Owed
    BY <1>9, <2>2, <2>3
  <2>5. Contract!AlertAgain(k, F)
    BY <1>6, <1>7, <1>10, <2>1, <2>2, <2>3, <2>4
    DEF Contract!AlertAgain, Owed, Quiet
  <2> QED
    BY <2>5
<1>13. CASE ~AlertsNewFire(st) /\ ~AlertsStillActive(st)
  <2>1. Refreshed(st).last_alert = st.last_alert
    BY <1>13 DEF Refreshed
  <2>2. Quiet' = forgotten
    BY <1>7, <1>10, <2>1
  <2>3. CASE Edge(st)
    <3>1. st.last_alert < COOLDOWN /\ ~CooldownOver(st)
      BY <1>3, <1>13, <2>3, TrackerAssumption DEF AlertsNewFire, CooldownOver
    <3>2. Refreshed(st).pending_edge
      BY <2>3, <3>1 DEF Refreshed
    <3>3. Contract!HoldBack(k, F)
      BY <1>6, <1>7, <1>9, <2>2, <3>1, <3>2
      DEF Contract!HoldBack, Owed, Quiet
    <3> QED
      BY <3>3
  <2>4. CASE ~Edge(st)
    <3>1. k \notin Owed
      BY <1>8, <2>4 DEF Edge
    <3>2. ~Refreshed(st).pending_edge
      BY <2>4 DEF Refreshed
    <3>3. REALERT = 0 \/ st.last_alert < REALERT
      BY <1>3, <1>13, <2>4, TrackerAssumption DEF AlertsStillActive, RealertDue
    <3>4. Owed' = Owed
      BY <1>9, <3>1, <3>2
    <3>5. Contract!StaySilent(k, F)
      BY <1>6, <1>7, <2>2, <3>1, <3>3, <3>4
      DEF Contract!StaySilent, Owed, Quiet
    <3> QED
      BY <3>5
  <2> QED
    BY <2>3, <2>4
<1> QED
  BY <1>11, <1>12, <1>13

LEMMA ContractStep ==
    ASSUME SlotsTyped, [TrackerNext]_trackerVars
    PROVE  [Contract!Next]_(Contract!vars)
<1>1. ASSUME NEW s \in Sources, OnActive(s)
      PROVE  [Contract!Next]_(Contract!vars)
  BY <1>1, ActiveIsNotify DEF Contract!Next
<1>2. ASSUME NEW s \in Sources, OnInactive(s)
      PROVE  [Contract!Next]_(Contract!vars)
  BY <1>2, QuietStep
  DEF OnInactive, Deactivated, SlotsTyped, SourceState
<1>3. ASSUME OnStreamReset PROVE [Contract!Next]_(Contract!vars)
  BY <1>3, QuietStep DEF OnStreamReset, Rearmed, SlotsTyped, SourceState
<1>4. ASSUME Tick PROVE [Contract!Next]_(Contract!vars)
  BY <1>4, TickIsPassTime DEF Contract!Next
<1>5. ASSUME UNCHANGED trackerVars PROVE [Contract!Next]_(Contract!vars)
  BY <1>5, QuietStep DEF trackerVars
<1> QED
  BY <1>1, <1>2, <1>3, <1>4, <1>5 DEF TrackerNext

LEMMA ContractInit == TrackerInit => Contract!Init
BY DEF TrackerInit, Contract!Init, Entry, Fresh, Never

(* Slot by slot, no call sequence loses an edge that was held back, and no *)
(* alert comes before its interval (state.rs, FireTracker).                *)
THEOREM TrackerImplementsContract == TrackerSpec => ImplementsContract
BY ContractInit, ContractStep, SlotsStayTyped, PTL
DEF TrackerSpec, ImplementsContract, Contract!Spec
==============================================================================
