---------------------------- MODULE BridgeProcess ----------------------------
(***************************************************************************)
(* The life of the process: serve and shutdown_signal (src/src/main.rs),   *)
(* and run (src/src/lib.rs) over its five tasks, from the environment      *)
(* variables to the exit status.  The probe task is modelled whole; of the *)
(* others there is what BridgeTasks has.                                   *)
(***************************************************************************)
EXTENDS Configuration, ProtectProbe

CONSTANTS
    Environments,   \* the environments the process may be started in
    DRAIN           \* how long run waits for its tasks, ten seconds

ASSUME ProcessAssumption ==
    /\ DRAIN \in Nat \ {0}
    /\ \A e \in Environments : IsEnvironment(e)

VARIABLES
    env,            \* the environment variables, until the tasks are
                    \* spawned: an Option, and so is
    cfg,            \* the Config, from from_map until then
    phase,          \* where serve is
    drained,        \* time in the drain
    exit            \* the exit status

serveVars == <<env, cfg, phase, drained, exit>>
processVars == <<health, cancelled, probeVars, joinSet, serveVars>>

Phases == {"start", "loaded", "running", "drain", "exited"}
TaskNames == Others \cup {"probe"}

ProcessTypeOK ==
    /\ health \in HealthSnapshot({})
    /\ cancelled \in BOOLEAN
    /\ probe \in [phase : ProbePhases, interval : Nat, timeout : Nat,
                  due : Nat, waited : Nat]
    /\ probe.phase # "absent" => 0 \notin {probe.interval, probe.timeout}
    /\ probe.due <= probe.interval
    /\ probe.waited <= probe.timeout
    /\ path \in Paths
    /\ answered \in 0 .. Never
    /\ \A e \in env : IsEnvironment(e) /\ env = {e}
    /\ \A c \in cfg : cfg = {c}
    /\ env # {} <=> phase \in {"start", "loaded"}
    /\ cfg # {} <=> phase = "loaded"
    /\ phase \in Phases
    /\ alive \subseteq TaskNames
    /\ ended \subseteq TaskNames \ alive
    /\ "probe" \in alive <=> probe.phase # "absent"
    /\ drained \in 0 .. DRAIN
    /\ exit \in {"none", "ok", "error"}
    /\ exit # "none" <=> phase = "exited"

ProcessInit ==
    /\ health = NewHealth(FALSE)
    /\ cancelled = FALSE
    /\ probe = NoProbe
    /\ path \in Paths
    /\ answered = Never
    /\ \E e \in Environments : env = {e}
    /\ cfg = {}
    /\ phase = "start"
    /\ alive = {} /\ ended = {}
    /\ drained = 0
    /\ exit = "none"

------------------------------------------------------------------------------
(* serve, up to run's select!.                                             *)

(* The process is over, and every task with it.                            *)
Exit(status) ==
    /\ phase' = "exited"
    /\ exit' = status
    /\ env' = {} /\ cfg' = {}
    /\ alive' = {} /\ ended' = {}
    /\ BecomeProbe(NoProbe)

LoadConfig ==
    /\ phase = "start"
    /\ \E e \in env :
          IF Accepted(e)
          THEN /\ phase' = "loaded"
               /\ cfg' = {FromMap(e)}
               /\ UNCHANGED <<env, probe, answered, alive, ended, exit>>
          ELSE Exit("error")
    /\ UNCHANGED <<health, cancelled, path, drained>>

(* The runtime or an HTTP client cannot be built.                          *)
BuildFails ==
    /\ phase = "loaded"
    /\ Exit("error")
    /\ UNCHANGED <<health, cancelled, path, drained>>

SpawnProbe(c) ==
    IF c.probe_interval = {} THEN NoProbe
    ELSE NewProbe(CHOOSE i \in c.probe_interval : TRUE, c.webhook_timeout)

SpawnTasks ==
    /\ phase = "loaded"
    /\ \E c \in cfg :
          /\ health' = NewHealth(c.probe_interval # {})
          /\ BecomeProbe(SpawnProbe(c))
          /\ alive' = IF c.probe_interval = {} THEN Others ELSE TaskNames
    /\ env' = {} /\ cfg' = {}
    /\ phase' = "running"
    /\ UNCHANGED <<cancelled, path, ended, drained, exit>>

(* shutdown_signal: SIGINT or SIGTERM.  It listens from before run builds   *)
(* its clients, so the tasks may be spawned into a bridge that is already  *)
(* cancelled.                                                              *)
Signal ==
    /\ phase \in {"loaded", "running"}
    /\ Cancelled
    /\ UNCHANGED <<probeVars, serveVars>>

------------------------------------------------------------------------------
(* The tasks.                                                              *)

OthersRun ==
    /\ TasksWrite \/ \E t \in Others : TaskReturns(t)
    /\ UNCHANGED <<probeVars, serveVars>>

(* It panics, or the health server cannot bind its address.                *)
TaskFails(t) ==
    /\ t \in alive
    /\ End(t)
    /\ IF t = "probe" THEN BecomeProbe(NoProbe)
                      ELSE UNCHANGED <<probe, answered>>
    /\ UNCHANGED <<health, path, serveVars>>

ProbeRuns ==
    /\ StartProbe \/ ProbeAnswered \/ ProbeRefused \/ ProbeTimesOut
    /\ UNCHANGED <<cancelled, joinSet, serveVars>>

ProbeReturns == ProbeStops /\ End("probe") /\ UNCHANGED serveVars

------------------------------------------------------------------------------
(* run, from its select! to the end.                                       *)

SeesCancel ==
    /\ phase = "running"
    /\ cancelled
    /\ phase' = "drain"
    /\ UNCHANGED <<health, cancelled, probeVars, joinSet,
                   env, cfg, drained, exit>>

(* join_next returns a task.  One that ended for a stop begins the drain;  *)
(* any other ends run at once: `bail!` returns past the drain, and the     *)
(* tasks that are left are aborted.                                        *)
Joined_NoCancelCheck == Exit("error")
Joined ==
    IF cancelled
    THEN /\ phase' = "drain"
         /\ UNCHANGED <<probe, answered, env, cfg, alive, ended, exit>>
    ELSE Exit("error")

JoinNext_AllOfThem ==
    /\ phase = "running"
    /\ ended # {} /\ alive = {}
    /\ Joined
    /\ UNCHANGED <<health, cancelled, path, drained>>
JoinNext ==
    /\ phase = "running"
    /\ ended # {}
    /\ Joined
    /\ UNCHANGED <<health, cancelled, path, drained>>

DrainOver_NoLimit == alive = {}
DrainOver == alive = {} \/ drained >= DRAIN

(* The drain joins the tasks as they end, and is over with the last one.   *)
DrainEnds ==
    /\ phase = "drain"
    /\ DrainOver
    /\ Exit("ok")
    /\ UNCHANGED <<health, cancelled, path, drained>>

RunStep ==
    \/ LoadConfig \/ BuildFails \/ SpawnTasks
    \/ SeesCancel \/ JoinNext \/ DrainEnds

(* The limit of the drain is a timer like those of the probe.              *)
ProcessClock ==
    /\ phase \in {"running", "drain"}
    /\ phase = "drain" => drained < DRAIN
    /\ ProbeClock
    /\ drained' = IF phase = "drain" THEN drained + 1 ELSE drained
    /\ UNCHANGED <<cancelled, joinSet, env, cfg, phase, exit>>

PathEvent ==
    /\ "probe" \in alive
    /\ \E p \in Paths : PathChanges(p)
    /\ UNCHANGED <<cancelled, joinSet, serveVars>>

ProcessNext ==
    \/ RunStep
    \/ Signal
    \/ OthersRun
    \/ \E t \in TaskNames : TaskFails(t)
    \/ ProbeRuns
    \/ ProbeReturns
    \/ PathEvent
    \/ ProcessClock

(* The runtime polls what is ready, and time passes.  A select! does not   *)
(* overlook a cancellation for ever.  Nothing is assumed of the other      *)
(* tasks, of the camera or of Protect: a task may outlast any drain.       *)
ProcessSpec ==
    /\ ProcessInit
    /\ [][ProcessNext]_processVars
    /\ WF_processVars(RunStep)
    /\ WF_processVars(ProbeRuns)
    /\ SF_processVars(ProbeReturns)
    /\ WF_processVars(ProcessClock)

------------------------------------------------------------------------------
(* Properties.                                                             *)

(* A configuration that is accepted keeps the state machines sound, with   *)
(* the defaults of what is unset counted in: the assumptions the other     *)
(* modules make of their constants hold of it, its URLs do not leave the   *)
(* host in the clear, and the probe watches the host of the webhook,       *)
(* unless the environment names both (config.rs:192, "Fail fast instead"). *)
AcceptedConfigSound ==
    \A c \in cfg :
        /\ 0 \notin {c.cooldown, c.active_ttl, c.stream_idle, c.webhook_timeout,
                     c.webhook_attempts, c.reconnect_initial}
        /\ 0 \notin c.realert \cup c.probe_interval
        /\ c.reconnect_initial <= c.reconnect_max
        /\ \A u \in {c.webhook_url, c.probe_url} :
              u.scheme # "https" => u.host \in Loopback
        /\ c.webhook_url.host # c.probe_url.host
              => \A e \in env, name \in UrlNames : Given(e, name)

(* /readyz is green on no older evidence of the path than one interval and *)
(* one timeout: not at startup, not over probes that hang or come late     *)
(* (README.md:29, "so a broken webhook path turns `/readyz` red").         *)
ReadyIsRecent ==
    Ready(health) /\ probe.phase # "absent" => answered <= Freshness

(* The exit status tells the container runtime the truth: zero exactly for *)
(* a stop that was asked for, however early the signal came and a task     *)
(* ended for it, and an error whenever the bridge ends of itself           *)
(* (lib.rs:52, "Returns `Ok(())` on requested shutdown and an error when a *)
(* critical task stops on its own"; lib.rs:135).  A bridge that could not  *)
(* be set up has failed, asked to stop meanwhile or not: its clients are   *)
(* built before run looks at the token.                                    *)
ExitStatusTruthful ==
    [][exit' # exit =>
          (exit' = "ok" <=> cancelled /\ phase \in {"running", "drain"})
      ]_processVars

(* A bridge that lost a task does not live on without it (lib.rs:50).      *)
DeadTaskEndsBridge == ended # {} ~> phase = "exited"

(* A stop ends the process, be the tasks stuck or not (lib.rs:146).        *)
StopsWhenAsked == cancelled ~> phase = "exited"

(* A path that is whole again is noticed, whatever the probes before met.  *)
PathBackTurnsGreen ==
    <>[](path = "up" /\ "probe" \in alive) => <>[]health.probe_ok
==============================================================================
