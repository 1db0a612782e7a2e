------------------------- MODULE BridgeProcessProofs -------------------------
(***************************************************************************)
(* What BridgeProcess guarantees for every environment, every interval and *)
(* timeout of the probe, and every length of the drain.                    *)
(***************************************************************************)
EXTENDS BridgeProcess, TLAPS

------------------------------------------------------------------------------
(* Facts about the operators.                                              *)

(* Every update of the snapshot keeps its type (health.rs, Health).        *)
LEMMA UpdatesKeepType ==
    ASSUME NEW h \in HealthSnapshot({})
    PROVE  /\ CameraConnected(h) \in HealthSnapshot({})
           /\ CameraDisconnected(h) \in HealthSnapshot({})
           /\ WebhookSuccess(h) \in HealthSnapshot({})
           /\ WebhookFailure(h) \in HealthSnapshot({})
           /\ \A ok \in BOOLEAN : ProbeResult(h, ok) \in HealthSnapshot({})
<1>1. \A n \in 0 .. COUNTER_CAP : Bump(n) \in 0 .. COUNTER_CAP
  BY HealthAssumption DEF Bump
<1>2. CameraConnected(h) \in HealthSnapshot({})
  BY DEF HealthSnapshot, CameraConnected
<1>3. CameraDisconnected(h) \in HealthSnapshot({})
  BY <1>1 DEF HealthSnapshot, CameraDisconnected
<1>4. WebhookSuccess(h) \in HealthSnapshot({})
  BY <1>1 DEF HealthSnapshot, WebhookSuccess
<1>5. WebhookFailure(h) \in HealthSnapshot({})
  BY <1>1 DEF HealthSnapshot, WebhookFailure
<1>6. \A ok \in BOOLEAN : ProbeResult(h, ok) \in HealthSnapshot({})
  BY DEF HealthSnapshot, ProbeResult
<1> QED
  BY <1>2, <1>3, <1>4, <1>5, <1>6

LEMMA NewHealthType ==
    ASSUME NEW b \in BOOLEAN
    PROVE  NewHealth(b) \in HealthSnapshot({})
BY HealthAssumption DEF NewHealth, HealthSnapshot

(* What a number of an accepted environment comes to.                      *)
LEMMA SecondsType ==
    ASSUME NEW e, IsEnvironment(e), NumbersAccepted(e), NEW name \in Numbers
    PROVE  Seconds(e, name) \in Nat
BY ConfigurationAssumption
DEF IsEnvironment, NumbersAccepted, Whole, Seconds, Unset, Blank, Bad, Numbers

(* The probe of an accepted configuration has two timers that are not zero *)
(* (probe.rs, run: an interval of zero would panic).                       *)
LEMMA SpawnProbeType ==
    ASSUME NEW e, IsEnvironment(e), Accepted(e)
    PROVE  LET p == SpawnProbe(FromMap(e))
           IN  /\ p \in [phase : ProbePhases, interval : Nat, timeout : Nat,
                         due : Nat, waited : Nat]
               /\ p.phase # "absent" => p.interval # 0 /\ p.timeout # 0
               /\ p.due = 0 /\ p.waited = 0
               /\ p.phase # "ask"
               /\ p.phase # "absent" <=> FromMap(e).probe_interval # {}
<1>1. NumbersAccepted(e)
  BY DEF Accepted
<1>2. Seconds(e, "PROTECT_PROBE_SECONDS") \in Nat
  BY <1>1, SecondsType DEF Numbers, Optional
<1>3. Seconds(e, "WEBHOOK_TIMEOUT_SECONDS") \in Nat \ {0}
  BY <1>1, SecondsType DEF Numbers, Intervals, NumbersAccepted
<1>4. /\ FromMap(e).probe_interval = {Seconds(e, "PROTECT_PROBE_SECONDS")} \ {0}
      /\ FromMap(e).webhook_timeout = Seconds(e, "WEBHOOK_TIMEOUT_SECONDS")
  BY DEF FromMap, OptionalSeconds
<1>5. CASE FromMap(e).probe_interval = {}
  BY <1>5 DEF SpawnProbe, NoProbe, ProbePhases
<1>6. CASE FromMap(e).probe_interval # {}
  <2> DEFINE i == CHOOSE i \in FromMap(e).probe_interval : TRUE
  <2>1. i \in FromMap(e).probe_interval
    BY <1>6
  <2>2. i \in Nat \ {0}
    BY <2>1, <1>2, <1>4
  <2>3. SpawnProbe(FromMap(e)) = NewProbe(i, FromMap(e).webhook_timeout)
    BY <1>6 DEF SpawnProbe
  <2> HIDE DEF i
  <2> QED
    BY <1>3, <1>4, <1>6, <2>2, <2>3 DEF NewProbe, ProbePhases
<1> QED
  BY <1>5, <1>6

------------------------------------------------------------------------------
(* Types.  They need to know where a configuration comes from, and that    *)
(* there are no tasks before run spawns them.                              *)

ConfigFromEnv == \A c \in cfg : \E e \in env : Accepted(e) /\ c = FromMap(e)

NoTasksYet == phase \in {"start", "loaded"} => alive = {} /\ ended = {}

ProcessInv == ProcessTypeOK /\ ConfigFromEnv /\ NoTasksYet

LEMMA ExitKeepsInv ==
    ASSUME ProcessInv, NEW status \in {"ok", "error"}, Exit(status),
           UNCHANGED <<health, cancelled, path, drained>>
    PROVE  ProcessInv'
BY DEF ProcessInv, ProcessTypeOK, ConfigFromEnv, NoTasksYet, Exit,
       BecomeProbe, NoProbe, ProbePhases, Phases, Never, Freshness

LEMMA EndKeepsInv ==
    ASSUME ProcessInv, NEW t \in alive \ {"probe"}, End(t),
           health' \in HealthSnapshot({}), UNCHANGED <<probeVars, serveVars>>
    PROVE  ProcessInv'
BY DEF ProcessInv, ProcessTypeOK, ConfigFromEnv, NoTasksYet, End,
       serveVars, probeVars, Never, Freshness

LEMMA ProbeEndKeepsInv ==
    ASSUME ProcessInv, "probe" \in alive, End("probe"), BecomeProbe(NoProbe),
           UNCHANGED <<health, path, serveVars>>
    PROVE  ProcessInv'
BY DEF ProcessInv, ProcessTypeOK, ConfigFromEnv, NoTasksYet, End,
       serveVars, BecomeProbe, NoProbe, ProbePhases, Never, Freshness

(* Every reachable state is well typed; the timers of the probe in         *)
(* particular stay within their limits, and a probe has an interval that   *)
(* is not zero (probe.rs, run).                                            *)
THEOREM ProcessInvariant == ProcessSpec => []ProcessInv
<1>1. ProcessInit => ProcessInv
  <2> SUFFICES ASSUME ProcessInit PROVE ProcessInv
    OBVIOUS
  <2>1. health \in HealthSnapshot({})
    BY NewHealthType DEF ProcessInit
  <2>2. /\ probe \in [phase : ProbePhases, interval : Nat, timeout : Nat,
                      due : Nat, waited : Nat]
        /\ probe.phase = "absent" /\ probe.due <= probe.interval
        /\ probe.waited <= probe.timeout
        /\ answered \in 0 .. Never
    BY DEF ProcessInit, NoProbe, ProbePhases, Never, Freshness
  <2>3. env # {} /\ \A e \in env : IsEnvironment(e) /\ env = {e}
    BY ProcessAssumption DEF ProcessInit
  <2>4. drained \in 0 .. DRAIN
    BY ProcessAssumption DEF ProcessInit
  <2> QED
    BY <2>1, <2>2, <2>3, <2>4
    DEF ProcessInit, ProcessInv, ProcessTypeOK, ConfigFromEnv, NoTasksYet,
        Phases
<1>2. ProcessInv /\ [ProcessNext]_processVars => ProcessInv'
  <2> SUFFICES ASSUME ProcessInv, [ProcessNext]_processVars
               PROVE  ProcessInv'
    OBVIOUS
  <2> USE DEF ProcessInv
  <2>1. CASE LoadConfig
    <3> PICK e \in env : IF Accepted(e)
                         THEN /\ phase' = "loaded"
                              /\ cfg' = {FromMap(e)}
                              /\ UNCHANGED <<env, probe, answered, alive,
                                             ended, exit>>
                         ELSE Exit("error")
      BY <2>1 DEF LoadConfig
    <3>1. CASE Accepted(e)
      BY <2>1, <3>1
      DEF LoadConfig, ProcessTypeOK, ConfigFromEnv, NoTasksYet, Phases,
          Never, Freshness
    <3>2. CASE ~Accepted(e)
      BY <2>1, <3>2, ExitKeepsInv DEF LoadConfig
    <3> QED
      BY <3>1, <3>2
  <2>2. CASE BuildFails
    BY <2>2, ExitKeepsInv DEF BuildFails
  <2>3. CASE SpawnTasks
    <3> PICK c \in cfg :
              /\ health' = NewHealth(c.probe_interval # {})
              /\ BecomeProbe(SpawnProbe(c))
              /\ alive' = IF c.probe_interval = {} THEN Others ELSE TaskNames
      BY <2>3 DEF SpawnTasks
    <3> PICK e \in env : Accepted(e) /\ c = FromMap(e)
      BY DEF ConfigFromEnv
    <3>1. IsEnvironment(e)
      BY DEF ProcessTypeOK
    <3>2. /\ probe' \in [phase : ProbePhases, interval : Nat, timeout : Nat,
                         due : Nat, waited : Nat]
          /\ probe'.phase # "absent"
                => probe'.interval # 0 /\ probe'.timeout # 0
          /\ probe'.due = 0 /\ probe'.waited = 0
          /\ probe'.phase # "absent" <=> c.probe_interval # {}
      BY <3>1, SpawnProbeType DEF BecomeProbe
    <3>3. health' \in HealthSnapshot({})
      BY NewHealthType
    <3>4. answered' \in 0 .. Never'
      BY <3>2 DEF BecomeProbe, Never, Freshness
    <3> QED
      BY <2>3, <3>2, <3>3, <3>4
      DEF SpawnTasks, ProcessTypeOK, ConfigFromEnv, NoTasksYet, Phases,
          TaskNames, Others
  <2>4. CASE Signal
    BY <2>4
    DEF Signal, Cancelled, ProcessTypeOK, ConfigFromEnv, NoTasksYet, probeVars, joinSet,
        serveVars, Never, Freshness
  <2>5. CASE OthersRun
    <3>1. health' \in HealthSnapshot({})
      BY <2>5, UpdatesKeepType
      DEF OthersRun, TasksWrite, TaskReturns, ProcessTypeOK
    <3>2. ASSUME NEW t \in Others, TaskReturns(t) PROVE ProcessInv'
      BY <2>5, <3>1, <3>2, EndKeepsInv DEF OthersRun, TaskReturns, Others
    <3>3. CASE TasksWrite
      BY <2>5, <3>1, <3>3
      DEF OthersRun, TasksWrite, ProcessTypeOK, ConfigFromEnv, NoTasksYet,
          probeVars, joinSet, serveVars, Never, Freshness
    <3> QED
      BY <2>5, <3>2, <3>3 DEF OthersRun
  <2>6. ASSUME NEW t \in TaskNames, TaskFails(t) PROVE ProcessInv'
    <3>1. CASE t = "probe"
      BY <2>6, <3>1, ProbeEndKeepsInv DEF TaskFails
    <3>2. CASE t # "probe"
      BY <2>6, <3>2, EndKeepsInv DEF TaskFails, probeVars, ProcessTypeOK
    <3> QED
      BY <3>1, <3>2
  <2>7. CASE ProbeRuns
    <3> USE DEF ProbeRuns, ProcessTypeOK, ConfigFromEnv, NoTasksYet,
                ProbePhases, joinSet, serveVars, Never, Freshness
    <3>1. CASE StartProbe
      <4>1. /\ probe' = [probe EXCEPT !.phase = "ask", !.waited = 0,
                                     !.due = probe.interval]
            /\ UNCHANGED <<health, path, answered>>
            /\ probe.phase = "wait"
        BY <3>1 DEF StartProbe
      <4>2. /\ probe' \in [phase : {"absent", "wait", "ask"}, interval : Nat,
                           timeout : Nat, due : Nat, waited : Nat]
            /\ probe'.phase = "ask"
            /\ probe'.interval = probe.interval
            /\ probe'.timeout = probe.timeout
            /\ probe'.due = probe.interval
            /\ probe'.waited = 0
        BY <4>1
      <4> QED
        BY <2>7, <4>1, <4>2
    <3>2. CASE \E ok \in BOOLEAN : probe.phase = "ask" /\ Record(ok)
      <4> PICK ok \in BOOLEAN : probe.phase = "ask" /\ Record(ok)
        BY <3>2
      <4>1. /\ probe' = [probe EXCEPT !.phase = "wait", !.waited = 0]
            /\ health' \in HealthSnapshot({})
            /\ answered' \in {0, answered}
            /\ UNCHANGED path
        BY UpdatesKeepType DEF Record
      <4>2. /\ probe' \in [phase : {"absent", "wait", "ask"}, interval : Nat,
                           timeout : Nat, due : Nat, waited : Nat]
            /\ probe'.phase = "wait"
            /\ probe'.interval = probe.interval
            /\ probe'.timeout = probe.timeout
            /\ probe'.due = probe.due
            /\ probe'.waited = 0
        BY <4>1
      <4> QED
        BY <2>7, <4>1, <4>2
    <3> QED
      BY <2>7, <3>1, <3>2 DEF ProbeAnswered, ProbeRefused, ProbeTimesOut
  <2>8. CASE ProbeReturns
    BY <2>8, ProbeEndKeepsInv DEF ProbeReturns, ProbeStops, ProcessTypeOK
  <2>9. CASE SeesCancel
    BY <2>9
    DEF SeesCancel, ProcessTypeOK, ConfigFromEnv, NoTasksYet, probeVars,
        joinSet, Phases, Never, Freshness
  <2>10. CASE JoinNext
    <3>1. CASE cancelled
      BY <2>10, <3>1
      DEF JoinNext, Joined, ProcessTypeOK, ConfigFromEnv, NoTasksYet,
          Phases, Never, Freshness
    <3>2. CASE ~cancelled
      BY <2>10, <3>2, ExitKeepsInv DEF JoinNext, Joined
    <3> QED
      BY <3>1, <3>2
  <2>11. CASE DrainEnds
    BY <2>11, ExitKeepsInv DEF DrainEnds
  <2>12. CASE PathEvent
    BY <2>12
    DEF PathEvent, PathChanges, ProcessTypeOK, ConfigFromEnv, NoTasksYet,
        joinSet, serveVars, Never, Freshness
  <2>13. CASE ProcessClock
    <3>1. drained' \in 0 .. DRAIN
      BY <2>13, ProcessAssumption DEF ProcessClock, ProcessTypeOK
    <3>2. CASE probe.phase = "absent"
      BY <2>13, <3>1, <3>2
      DEF ProcessClock, ProbeClock, ProcessTypeOK, ConfigFromEnv, NoTasksYet,
          joinSet, Never, Freshness
    <3>3. CASE probe.phase # "absent"
      <4> DEFINE due == IF probe.due > 0 THEN probe.due - 1 ELSE 0
                 waited == IF probe.phase = "ask" THEN probe.waited + 1 ELSE 0
      <4>1. /\ probe' = [probe EXCEPT !.due = due, !.waited = waited]
            /\ answered' = IF answered < Never THEN answered + 1 ELSE answered
        BY <2>13, <3>3 DEF ProcessClock, ProbeClock
      <4>2. due \in Nat /\ due <= probe.interval
        BY DEF ProcessTypeOK
      <4>3. waited \in Nat /\ waited <= probe.timeout
        <5>1. probe.phase = "ask" => ~(probe.waited >= probe.timeout)
          BY <2>13 DEF ProcessClock, ProbeClock, UrgentProbe
        <5> QED
          BY <5>1 DEF ProcessTypeOK
      <4> HIDE DEF due, waited
      <4>4. /\ probe' \in [phase : ProbePhases, interval : Nat, timeout : Nat,
                           due : Nat, waited : Nat]
            /\ probe'.due = due
            /\ probe'.waited = waited
            /\ probe'.phase = probe.phase
            /\ probe'.interval = probe.interval
            /\ probe'.timeout = probe.timeout
        BY <4>1, <4>2, <4>3 DEF ProcessTypeOK
      <4>5. answered' \in 0 .. Never'
        BY <4>1, <4>4 DEF ProcessTypeOK, Never, Freshness
      <4> QED
        BY <2>13, <3>1, <4>2, <4>3, <4>4, <4>5
        DEF ProcessClock, ProbeClock, ProcessTypeOK, ConfigFromEnv,
            NoTasksYet, joinSet
    <3> QED
      BY <3>2, <3>3
  <2>14. CASE UNCHANGED processVars
    BY <2>14
    DEF processVars, ProcessTypeOK, ConfigFromEnv, NoTasksYet, probeVars,
        joinSet, serveVars, Never, Freshness
  <2> QED
    BY <2>1, <2>2, <2>3, <2>4, <2>5, <2>6, <2>7, <2>8, <2>9, <2>10, <2>11,
       <2>12, <2>13, <2>14
    DEF ProcessNext, RunStep
<1> QED
  BY <1>1, <1>2, PTL DEF ProcessSpec

(* The types by themselves, as the run checks them.                        *)
THEOREM ProcessTypes == ProcessSpec => []ProcessTypeOK
BY ProcessInvariant, PTL DEF ProcessInv

------------------------------------------------------------------------------
(* The configuration.                                                      *)

LEMMA AcceptedIsSound ==
    ASSUME NEW e, IsEnvironment(e), Accepted(e), NEW c, c = FromMap(e)
    PROVE  /\ 0 \notin {c.cooldown, c.active_ttl, c.stream_idle,
                       c.webhook_timeout, c.webhook_attempts,
                       c.reconnect_initial}
           /\ 0 \notin c.realert \cup c.probe_interval
           /\ c.reconnect_initial <= c.reconnect_max
           /\ \A u \in {c.webhook_url, c.probe_url} :
                 u.scheme # "https" => u.host \in Loopback
           /\ c.webhook_url.host # c.probe_url.host
                 => \A name \in UrlNames : Given(e, name)
<1>1. NumbersAccepted(e) /\ UrlsAccepted(e)
  BY DEF Accepted
<1>2. /\ Seconds(e, "STREAM_IDLE_TIMEOUT_SECONDS") # 0
      /\ Seconds(e, "FIRE_COOLDOWN_SECONDS") # 0
      /\ Seconds(e, "FIRE_ACTIVE_TTL_SECONDS") # 0
      /\ Seconds(e, "WEBHOOK_TIMEOUT_SECONDS") # 0
  BY <1>1 DEF NumbersAccepted, Intervals
<1>3. /\ Seconds(e, "WEBHOOK_ATTEMPTS") # 0
      /\ Seconds(e, "RECONNECT_INITIAL_SECONDS") # 0
      /\ Seconds(e, "RECONNECT_INITIAL_SECONDS")
            <= Seconds(e, "RECONNECT_MAX_SECONDS")
  <2>1. /\ Seconds(e, "RECONNECT_INITIAL_SECONDS") \in Nat
        /\ Seconds(e, "RECONNECT_MAX_SECONDS") \in Nat
    BY <1>1, SecondsType DEF Numbers
  <2> QED
    BY <1>1, <2>1 DEF NumbersAccepted
<1>4. HttpsOrLoopback(WebhookUrl(e)) /\ HttpsOrLoopback(ProbeUrl(e))
  BY <1>1 DEF UrlsAccepted
<1>5. WebhookUrl(e).host # ProbeUrl(e).host
        => \A name \in UrlNames : Given(e, name)
  BY DEF WebhookUrl, ProbeUrl, UrlNames
<1> QED
  BY <1>2, <1>3, <1>4, <1>5 DEF FromMap, OptionalSeconds, HttpsOrLoopback

(* The bridge never starts on a configuration its state machines are not   *)
(* made for, whatever the environment holds (config.rs, from_map).         *)
THEOREM ConfigIsSound == ProcessSpec => []AcceptedConfigSound
<1>1. ProcessInv => AcceptedConfigSound
  <2> SUFFICES ASSUME ProcessInv PROVE AcceptedConfigSound
    OBVIOUS
  <2> USE DEF AcceptedConfigSound
  <2> TAKE c \in cfg
  <2>1. PICK e \in env : Accepted(e) /\ c = FromMap(e)
    BY DEF ProcessInv, ConfigFromEnv
  <2>2. IsEnvironment(e) /\ env = {e}
    BY DEF ProcessInv, ProcessTypeOK
  <2> QED
    BY <2>1, <2>2, AcceptedIsSound
<1> QED
  BY <1>1, ProcessInvariant, PTL

------------------------------------------------------------------------------
(* The exit status.                                                        *)

(* The drain begins with a cancellation, and no cancellation is undone.    *)
DrainIsCancelled == phase = "drain" => cancelled

LEMMA DrainStaysCancelled ==
    ASSUME ProcessTypeOK, DrainIsCancelled, [ProcessNext]_processVars
    PROVE  DrainIsCancelled'
<1> USE DEF DrainIsCancelled
<1>1. CASE LoadConfig \/ BuildFails \/ SpawnTasks
  BY <1>1 DEF LoadConfig, BuildFails, SpawnTasks, Exit
<1>2. CASE Signal
  BY <1>2 DEF Signal, Cancelled, serveVars
<1>3. CASE OthersRun \/ \E t \in TaskNames : TaskFails(t)
  BY <1>3 DEF OthersRun, TasksWrite, TaskReturns, TaskFails, End, serveVars
<1>4. CASE ProbeRuns \/ ProbeReturns \/ PathEvent
  BY <1>4 DEF ProbeRuns, ProbeReturns, ProbeStops, End, PathEvent, serveVars
<1>5. CASE SeesCancel \/ JoinNext \/ DrainEnds
  BY <1>5 DEF SeesCancel, JoinNext, Joined, DrainEnds, Exit
<1>6. CASE ProcessClock
  BY <1>6 DEF ProcessClock
<1>7. CASE UNCHANGED processVars
  BY <1>7 DEF processVars, serveVars
<1> QED
  BY <1>1, <1>2, <1>3, <1>4, <1>5, <1>6, <1>7 DEF ProcessNext, RunStep

(* The process exits with zero exactly if it was asked to stop and run got *)
(* to its select! (lib.rs, run; main.rs, serve).                           *)
THEOREM ExitIsTruthful == ProcessSpec => ExitStatusTruthful
<1> DEFINE Truthful ==
        exit' # exit =>
            (exit' = "ok" <=> cancelled /\ phase \in {"running", "drain"})
<1>1. ASSUME DrainIsCancelled, [ProcessNext]_processVars
      PROVE  [Truthful]_processVars
  <2>1. ASSUME UNCHANGED exit PROVE Truthful
    BY <2>1
  <2>2. CASE LoadConfig
    BY <2>1, <2>2 DEF LoadConfig, Exit
  <2>3. CASE BuildFails
    BY <2>3 DEF BuildFails, Exit
  <2>4. CASE JoinNext
    BY <2>1, <2>4 DEF JoinNext, Joined, Exit
  <2>5. CASE DrainEnds
    BY <1>1, <2>5 DEF DrainEnds, Exit, DrainIsCancelled
  <2>6. CASE SpawnTasks \/ Signal \/ SeesCancel \/ ProcessClock
    BY <2>1, <2>6 DEF SpawnTasks, Signal, SeesCancel, ProcessClock, serveVars
  <2>7. CASE OthersRun \/ \E t \in TaskNames : TaskFails(t)
    BY <2>1, <2>7 DEF OthersRun, TaskFails, serveVars
  <2>8. CASE ProbeRuns \/ ProbeReturns \/ PathEvent
    BY <2>1, <2>8 DEF ProbeRuns, ProbeReturns, PathEvent, serveVars
  <2> QED
    BY <1>1, <2>2, <2>3, <2>4, <2>5, <2>6, <2>7, <2>8
    DEF ProcessNext, RunStep
<1>2. ProcessInit => DrainIsCancelled
  BY DEF ProcessInit, DrainIsCancelled
<1>3. ProcessSpec => [][Truthful]_processVars
  BY <1>1, <1>2, DrainStaysCancelled, ProcessTypes, PTL DEF ProcessSpec
<1> QED
  BY <1>3 DEF ExitStatusTruthful

------------------------------------------------------------------------------
(* The age of the evidence.                                                *)

(* ReadyIsRecent is not inductive: it does not say how long the next probe *)
(* may be in coming.  While the probe waits, the time since the success    *)
(* and the time to the next tick make one interval together at most; while *)
(* it is out, it has added no more than its own time.                      *)
FreshInv ==
    /\ probe.phase # "absent" => health.probe_enabled
    /\ probe.phase = "wait" /\ health.probe_ok
          => answered + probe.due <= probe.interval
    /\ probe.phase = "ask" /\ health.probe_ok
          => answered <= probe.interval + probe.waited

LEMMA OthersLeaveProbe ==
    ASSUME ProcessTypeOK, OthersRun
    PROVE  /\ health'.probe_ok = health.probe_ok
           /\ health'.probe_enabled = health.probe_enabled
           /\ UNCHANGED <<probe, answered>>
BY DEF ProcessTypeOK, HealthSnapshot, OthersRun, TasksWrite, TaskReturns,
       CameraConnected, CameraDisconnected, WebhookSuccess, WebhookFailure,
       probeVars

LEMMA TimeKeepsFresh ==
    ASSUME ProcessTypeOK, FreshInv, ProcessClock
    PROVE  FreshInv'
<1>1. CASE probe.phase = "absent"
  BY <1>1 DEF ProcessClock, ProbeClock, FreshInv
<1>2. CASE probe.phase # "absent"
  <2> DEFINE due == IF probe.due > 0 THEN probe.due - 1 ELSE 0
             waited == IF probe.phase = "ask" THEN probe.waited + 1 ELSE 0
  <2>1. /\ probe' = [probe EXCEPT !.due = due, !.waited = waited]
        /\ answered' = IF answered < Never THEN answered + 1 ELSE answered
        /\ UNCHANGED health
    BY <1>2 DEF ProcessClock, ProbeClock
  <2>2. answered' \in Nat /\ answered' <= answered + 1
    BY <2>1 DEF ProcessTypeOK, Never, Freshness
  <2>3. probe.phase = "wait" => due = probe.due - 1
    BY DEF ProcessClock, ProbeClock, UrgentProbe, ProcessTypeOK
  <2>4. probe.phase = "ask" => waited = probe.waited + 1
    OBVIOUS
  <2> HIDE DEF due, waited
  <2>5. /\ probe'.due = due /\ probe'.waited = waited
        /\ probe'.phase = probe.phase /\ probe'.interval = probe.interval
    BY <2>1 DEF ProcessTypeOK
  <2> QED
    BY <2>1, <2>2, <2>3, <2>4, <2>5
    DEF FreshInv, ProcessTypeOK, Never, Freshness
<1> QED
  BY <1>1, <1>2

(* Whatever the interval and the timeout of the probe, /readyz never rests *)
(* on a success older than the two together (probe.rs, run).               *)
THEOREM ReadyRestsOnRecent == ProcessSpec => []ReadyIsRecent
<1>1. ProcessInit => FreshInv
  BY DEF ProcessInit, FreshInv, NoProbe
<1>2. ProcessInv /\ FreshInv /\ [ProcessNext]_processVars => FreshInv'
  <2> SUFFICES ASSUME ProcessInv, FreshInv, [ProcessNext]_processVars
               PROVE  FreshInv'
    OBVIOUS
  <2> USE DEF ProcessInv
  <2>1. ASSUME probe' = NoProbe PROVE FreshInv'
    BY <2>1 DEF FreshInv, NoProbe
  <2>2. ASSUME UNCHANGED <<health, probe, answered>> PROVE FreshInv'
    BY <2>2 DEF FreshInv
  <2>3. CASE LoadConfig
    BY <2>1, <2>2, <2>3 DEF LoadConfig, Exit, BecomeProbe
  <2>4. CASE BuildFails \/ JoinNext \/ DrainEnds
    BY <2>1, <2>2, <2>4
    DEF BuildFails, JoinNext, Joined, DrainEnds, Exit, BecomeProbe
  <2>5. CASE SpawnTasks
    <3> PICK c \in cfg : /\ health' = NewHealth(c.probe_interval # {})
                         /\ BecomeProbe(SpawnProbe(c))
      BY <2>5 DEF SpawnTasks
    <3> PICK e \in env : Accepted(e) /\ c = FromMap(e)
      BY DEF ConfigFromEnv
    <3>1. IsEnvironment(e)
      BY DEF ProcessTypeOK
    <3>2. probe'.phase # "absent" <=> c.probe_interval # {}
      BY <3>1, SpawnProbeType DEF BecomeProbe
    <3>3. /\ health'.probe_ok = FALSE
          /\ health'.probe_enabled = (c.probe_interval # {})
      BY DEF NewHealth
    <3> QED
      BY <3>2, <3>3 DEF FreshInv
  <2>6. CASE Signal \/ SeesCancel \/ PathEvent
    BY <2>2, <2>6
    DEF Signal, Cancelled, SeesCancel, PathEvent, PathChanges, probeVars
  <2>7. ASSUME NEW t \in TaskNames, TaskFails(t)
        PROVE  FreshInv'
    BY <2>1, <2>2, <2>7 DEF TaskFails, BecomeProbe
  <2>8. CASE ProbeRuns
    <3>1. CASE StartProbe
      <4>1. /\ probe' = [probe EXCEPT !.phase = "ask", !.waited = 0,
                                     !.due = probe.interval]
            /\ UNCHANGED <<health, answered>>
            /\ probe.phase = "wait" /\ probe.due = 0
        BY <3>1 DEF StartProbe
      <4>2. /\ probe'.phase = "ask" /\ probe'.waited = 0
            /\ probe'.interval = probe.interval
        BY <4>1 DEF ProcessTypeOK
      <4> QED
        BY <4>1, <4>2 DEF FreshInv, ProcessTypeOK, Never, Freshness
    <3>2. ASSUME NEW ok \in BOOLEAN, probe.phase = "ask", Record(ok)
          PROVE  FreshInv'
      <4>1. /\ probe' = [probe EXCEPT !.phase = "wait", !.waited = 0]
            /\ answered' = IF ok THEN 0 ELSE answered
            /\ health'.probe_ok = ok
            /\ health'.probe_enabled = health.probe_enabled
        BY <3>2 DEF Record, ProbeResult, ProcessTypeOK, HealthSnapshot
      <4>2. /\ probe'.phase = "wait" /\ probe'.due = probe.due
            /\ probe'.interval = probe.interval
        BY <4>1 DEF ProcessTypeOK
      <4> QED
        BY <3>2, <4>1, <4>2 DEF FreshInv, ProcessTypeOK
    <3> QED
      BY <2>8, <3>1, <3>2
      DEF ProbeRuns, ProbeAnswered, ProbeRefused, ProbeTimesOut
  <2>9. CASE ProbeReturns
    BY <2>1, <2>9 DEF ProbeReturns, ProbeStops, BecomeProbe
  <2>10. CASE OthersRun
    BY <2>10, OthersLeaveProbe DEF FreshInv
  <2>11. CASE ProcessClock
    BY <2>11, TimeKeepsFresh
  <2>12. CASE UNCHANGED processVars
    BY <2>2, <2>12 DEF processVars, probeVars
  <2> QED
    BY <2>3, <2>4, <2>5, <2>6, <2>7, <2>8, <2>9, <2>10, <2>11, <2>12
    DEF ProcessNext, RunStep
<1>3. ProcessInv /\ FreshInv => ReadyIsRecent
  <2> SUFFICES ASSUME ProcessTypeOK, FreshInv, Ready(health),
                      probe.phase # "absent"
               PROVE  answered <= Freshness
    BY DEF ReadyIsRecent, ProcessInv
  <2>1. health.probe_ok
    BY DEF Ready, FreshInv
  <2>2. probe.phase = "wait" \/ probe.phase = "ask"
    BY DEF ProcessTypeOK, ProbePhases
  <2> QED
    BY <2>1, <2>2 DEF FreshInv, ProcessTypeOK, Freshness, Never
<1> QED
  BY <1>1, <1>2, <1>3, ProcessInvariant, PTL DEF ProcessSpec
==============================================================================
