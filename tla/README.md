# Verification of the Hikvision-UniFi fire bridge

TLA+ models of the bridge in `src/`, the TLC runs that check them and the
TLAPS proofs about them. Paths such as `state.rs:113` are under `src/src/`;
`README.md:25` without more is `src/README.md`. `PROJECT.json` maps every
definition to the lines it models.

## 1. The system

A daemon holds one long-lived HTTP request to a thermal camera, cuts XML
event documents out of the stream, runs a per-source fire state machine on
them, and posts each alert to UniFi Protect. A missed fire is the worst
outcome, a duplicate alert is acceptable (`README.md:21`).

```
camera ~~> FrameExtractor, parse_event          Protect
                 |                                 ^
          camera task  --events(256)-->  processor |
           (camera.rs)                 (FireTracker)
                 |                         |
                 |                     alarms(32)
                 |                         v
                 |                      worker ----+ (deliver)
                 +-------- health snapshot --------+--> /readyz /status
          run (lib.rs): cancels everything when asked, or when a task ends
```

| Component | State | Operations | Interacts with | Hard behaviour | What makes it correct |
|---|---|---|---|---|---|
| Configuration (`config.rs`) | none | `from_map`, once | everything | defaults against values that are set; two URLs that replace each other | intervals that keep the state machines sound; no alert in the clear |
| Fire tracker (`state.rs`) | map from source to active, pending edge, last message, last alert | `on_active`, `on_inactive`, `on_stream_reset` | called by the processor | sequences of calls against three intervals; eviction and a shared slot on a full map | no edge lost, alerts rate-limited, a burning fire never silent longer than the intervals, bounded map |
| Event processor (`lib.rs`, `process_events`) | the tracker, the alert in hand | one item of the event channel at a time | event channel, alarm channel, health | waits two seconds on a full channel, then drops; two updates for one loss | never stuck; every alert accounted for |
| Webhook worker (`lib.rs`, `webhook.rs`) | the request in hand, the attempt | `deliver`, record | alarm channel, Protect, health | retries after lost answers; a cancellation during a delivery | at least once; every outcome recorded, unless the process ends first; it stops |
| Camera supervisor (`camera.rs`) | session, delay, age of the session | connect, read, forward, reset, sleep | camera, event channel, health | timeouts, backoff, an unbounded wait to send the Reset | always back to the camera; sessions told apart; delays honest; it stops |
| Frame extractor (`framing.rs`) | residual buffer | `push` | called by the session | tags cut anywhere, a limit in bytes | the same documents however the stream is cut |
| Event parser (`event.rs`) | none | `parse_event` | called by the session | flat state over nested XML | the first top-level value of each field; no fire read as silence |
| Health snapshot (`health.rs`) | counters and flags under one lock | one method per update | all tasks, HTTP handlers | updates of several tasks in any order | ready only when all three conditions hold, on recent evidence |
| Probe (`probe.rs`) | a timer | one GET per interval, within a timeout | Protect, health | probes that hang, answers that come late, missed ticks | green rests on a recent success; a path that is back is noticed |
| Lifecycle (`lib.rs`, `run`; `main.rs`) | the five tasks, the token | start, first end, cancel, drain, exit | all tasks | the first task to end wins; `bail!` returns past the drain and aborts the rest; a drain of ten seconds | a dead task ends the process; a stop does; the exit status tells which |

The hazards, each at its line, are in `PROJECT.json`, with the properties that
would notice them.

## 2. The modules

| Module | Models | Extends |
|---|---|---|
| `AlarmContract` | what the tracker promises per slot: an edge is alerted or stays owed, alerts are spaced | |
| `FireTracker` | `state.rs` | |
| `FireTrackerHistory` | `FireTracker` beside a record of what was reported and alerted | `FireTracker` |
| `Health` | the snapshot and its updates, `ready` | |
| `BridgeState` | the two channels, the token, the running tasks | `Health` |
| `CameraSupervisor` | `camera.rs` | `BridgeState` |
| `CameraSessions` | `CameraSupervisor` beside the session each queued item comes from | `CameraSupervisor` |
| `FrameExtractor` | `framing.rs`: `push` and `next_frame`, a search or an advance of the buffer at a time | |
| `EventParser` | `event.rs`: `parse_event`, an event of the XML reader at a time; and a reading of the document with its nesting | |
| `SessionInput` | bytes to documents to events, each document parsed before the next chunk is read | the two |
| `EventProcessor` | `process_events` | `FireTracker`, `BridgeState` |
| `WebhookWorker` | `webhook_worker`, `deliver` | `BridgeState` |
| `AlertDelivery` | processor and worker; the camera task is an environment | the two |
| `AlertPipeline` | the three tasks, one clock, the shutdown | `AlertDelivery`, `CameraSupervisor` |
| `PipelineFires` | with restarts of the process, and a record of the fires that burn and wait for an alert | `AlertPipeline` |
| `Configuration` | `from_map` | |
| `BridgeTasks` | what `run` and `/readyz` know of the other tasks: how they end, what they write; `AlertPipeline` implements it | `Health` |
| `ProtectProbe` | `probe.rs`; the path to Protect is its environment | `BridgeTasks` |
| `BridgeProcess` | `serve`, `shutdown_signal`, `run` over its five tasks, the probe in full | `Configuration`, `ProtectProbe` |

Eight modules named `...Proofs` hold the theorems (section 4). `MC...` modules
and their `.cfg` files are the instances TLC checks.

How the models correspond to the code:

- **Instants are ages.** The code only compares `now.duration_since(t)` with an
  interval. The models keep the age itself, which grows with a clock action
  and saturates at `AGE_CAP`, an age at which every interval is over. `None`
  is read by the code as infinitely old, and is that age.
- **One action per point where a task may be interrupted**: between two
  awaits a task is atomic. `process_events` is in phase `receive` at its
  `select!`, `send` in the bounded send, `sent`, `dropped`, `failing` before
  each update of the snapshot. The worker is `idle`, in an `attempt`, in a
  `pause`, or about to record. The camera task is at the `top`, in the
  `request`, reading the `stream`, forwarding `frames`, `ended`, sending the
  `reset`, or in its `sleep`. The probe is in `wait` or in `ask`.
- **Timeouts** of the camera task are counted in ticks and fire at their time
  or later. The short waits (`SEND_TIMEOUT`, the two seconds of
  the processor, the timeout and the pauses of `deliver`) may end at any
  moment, so every order of a timeout and the answer it races is there. Only
  `PipelineFires` needs more, see below. The timers of the probe and of the drain are
  exact: time does not pass one that has run out, because `ReadyIsRecent` is
  about how old a success may be, to the tick.
- **A closed channel** is a task missing from `running`. The receiver's end
  takes what is queued with it.
- **Tasks in two grains.** `AlertPipeline` has every step of the camera task,
  the processor and the worker. `BridgeProcess` has the probe, and of the
  others what `BridgeTasks` says: why they return and what they write
  of the conditions of `/readyz`; beside that any task may panic, and the
  server may fail to bind. That the three tasks do nothing else is no
  assumption: `AlertPipeline` is shown to implement `BridgeTasks`
  (`ImplementsTasks`), with `alive` and `ended` read off `running`, and the
  snapshot reduced to the two conditions that these tasks move.
- **The signal may come early**: `main` spawns its listener before `run` builds
  the clients, so `Signal` is enabled from the loaded configuration on. The
  tasks then start cancelled; a set-up that fails still ends with its error.
- **The buffer is a window**: the extractor appends to its buffer at the end
  and removes at the beginning only, so the buffer is always a stretch of the
  stream, and `buf` is the place of that stretch; a document is the place of
  its bytes. `extend_from_slice`, `advance` and `split_to` move one end of it.
- **Loops are steps** in framing and parsing: one round of `next_frame`'s loop,
  one piece of `push`, one event of the reader. Nothing runs beside them, so
  no interleaving is added; they are steps so that invariants can be stated
  in the middle of a loop.
- **Documents**: the extractor does not look between the two tags, so a token
  of the XML counts as one byte there, and `SessionInput` hands the tokens of
  each frame to the parser. `seen` is the history of what the reader has read, with
  the elements that are open: the parser itself does not have it.
- **Texts** of the configuration are what their own rule makes of them: a
  number, a URL with a scheme and a host, `Good` or `Bad`; unset and blank are
  kept apart, as the code treats them differently.
- **Counters** saturate at `COUNTER_CAP`; 0 leaves them out of a run whose
  properties do not read them.
- **Left out**: error texts, wall-clock fields, `webhook_verified`, the
  payload, digest authentication, logs. None of them decides a step.

A definition named `X_Y` is `X` with a plausible bug `Y`. No specification
uses it; each shows that some property notices that bug.

## 3. The runs

| Run | Question | Result |
|---|---|---|
| `tracker_evict` | full map: bounded, never silent too long, implements `AlarmContract` | holds |
| `history` | sources that fit: pending edge exactly when a fire is owed an alert; edge alerts a cooldown apart; a fire starts and continues as the TTL says, to the tick; owed fires are alerted while the camera repeats | holds |
| `history_silent_camera` | `README.md:25`: the edge "fires as soon as the cooldown expires" | violated |
| `camera_sessions` | connected only in a session; the Reset between the events of two sessions; backoff; silent streams left; stops | holds |
| `camera_unanswered` | `lib.rs:4`: "all cancellation-aware" | violated |
| `worker` | at least once within the attempts; every outcome recorded, unless `run` returns first and aborts the worker; it ends when cancelled | holds |
| `delivery_books` | the counters balance in every interleaving; an error on `/readyz` stays until Protect has rung | holds |
| `pipeline_wedged` | full channels and a hanging worker: nobody stuck, back to the camera, no task returns unasked, a shutdown reaches both; the tasks behave towards `run` and `/readyz` as `BridgeTasks` says | holds |
| `pipeline_fires` | a fire that burns on gets an alert into the alarm channel, whatever is dropped and wherever the process is killed and started again | holds |
| `pipeline_edge_only` | `README.md:23`: a lost `inactive` "can never latch the alarm off" | violated |
| `session_input` | the documents do not depend on how the stream is cut; bounded buffer; noise never overflows; events have the document's own fields; no active fire is read as another state | holds |
| `process` | accepted configurations are sound; a green `/readyz` is recent; a dead task or a signal ends the process, with the right status; a path that is back turns green | holds |

### What the violated runs show

- **A held-back edge needs another notification** (`state.rs:113`). Nothing
  looks at `pending_edge` but a later `on_active`. A fire that starts inside
  the cooldown and is not reported again is never alerted. The comment at
  `state.rs:110` says it rightly ("on a later `active` refresh"); the README
  promises more.
- **A request without an answer holds the camera task** (`camera.rs:99`). It
  is outside the `select!`, and only connecting has a timeout. A camera that
  accepts and says nothing is waited for without end: no reconnect, no
  reaction to a shutdown but the drain's ten seconds.
- **A lost `inactive` latches in edge-only mode** (`camera.rs:157`). Dropped on
  a full event channel it belongs to no reconnect, and the next fire only
  refreshes the stale state. With re-alerting on, `pipeline_fires` holds.

Eight more disagreements were met while modelling and have no run of their
own; each is listed among the hazards:

- an alert dropped on a full alarm channel is gone in edge-only mode
  (`lib.rs:207`): `on_active` has consumed the edge, so that a repeated
  `active` does not re-raise it, as `lib.rs:209` says it does;
- a delivery under way clears the latch of a later loss (`health.rs:152`): the
  processor records a loss while the worker is at a delivery, whose success
  clears `webhook_error`, whatever set it; `README.md:99` and `lib.rs:211`
  promise red until a later delivery. What does hold is `RedUntilRung`;
- on the shared overflow slot the fire of one source hides that of another in
  edge-only mode (`state.rs:86`);
- the 33rd unmatched event type is neither listed nor logged
  (`health.rs:133`);
- `PROTECT_BASE_URL` is probed even when `PROTECT_WEBHOOK_URL` replaces it
  (`config.rs:162`, `README.md:74`), so the probe may watch another host;
- a nested field that precedes the top-level one wins (`event.rs:104`);
  `event.rs:102` takes the top-level fields to come first;
- a push that overflows drops the documents it has cut before
  (`framing.rs:63`), although `framing.rs:46` speaks of "every complete XML
  document it completes"; it takes a chunk of more than the limit in one read;
- `--healthcheck` connects to 127.0.0.1 whatever `HEALTH_BIND` names
  (`main.rs:68`).

### Bounds, and why they are enough

- Tracker: four sources on a map of two (`tracker_evict`), so that a further
  source evicts when a slot has expired and shares the overflow slot when none
  has; two sources that both fit for the record of owed fires (`history`).
  Intervals of 2, 3 and 3 ticks distinguish "before", "at" and "after" each
  interval and the cooldown from the re-alert interval; the cap on ages is one
  beyond the longest. Slots do not interact but through the size of the map.
- Channels of one item: "full" and "empty" are then the common case. A
  longer channel only delays them. The event channel of `camera_sessions` holds two, so that
  an item of one session and one of the next can be queued at once.
- Camera: chunks of up to two frames (one in the pipeline), delays 1 to 3 so
  that the backoff doubles past its ceiling, a session that turns healthy
  within the run.
- Worker: attempts that fail for good, are retried, time out and succeed.
- Books: counters up to 3, enough for an alert queued, one in hand and one
  dropped at once.
- Session input: every way to cut every stream of up to three parts out of
  six, whole and broken documents, boundaries that end like a tag, longer element
  names, roots that close themselves; and one document of up to two elements of all kinds, or three
  ordinary fields: prefixes, nested and repeated fields, empty elements, CDATA,
  comments inside a text, missing and unmatched tags. Tags of two bytes,
  pieces of three, a limit of 16 that unclosed documents exceed, one of them
  behind a whole document in the same push.
- Process: environments that differ from a plain one in up to two variables,
  within the numbers or within the URLs, as every check of `from_map` reads at
  most two of a group; defaults scaled to 1 (3 attempts), timers of 1 and 2, a
  reconnect ceiling of 2, a drain of 2. An interval is then shorter than, equal to and longer
  than the timeout.

### Fairness, and why the code justifies it

- The runtime polls a ready task and fires its timers: weak fairness of each
  task's own steps and of the clock.
- `tokio::select!` polls its branches in random order, so it does not prefer
  other ready branches to a cancellation for ever: strong fairness of the
  cancelled branch (`CancelSession`, `ProcessorReturns`, `WorkerReturns`,
  `ProbeReturns`).
- What the camera or Protect does is assumed only where named: a request is
  answered or fails (`SessionsSpec`, `WedgedPipelineSpec`), a camera repeats
  `active` while a fire lasts (`RepeatingSpec`, `FiresSpec`;
  `src/tests/e2e.rs`, `ongoing_fire_realerts_at_the_configured_interval`),
  and it can be reached again and again (`FiresSpec`). Protect is never
  assumed to answer with a success.
- `WorkerSpec` is fair to the worker's own steps, for each attempt and each
  pause ends by a timer. What may cut a delivery short is `WorkerAborted`:
  `run` returns after the ten seconds of its drain, or at once when another
  task has ended, and drops the task set with the worker in it. A default
  delivery may take three attempts of five seconds and its pauses, so this
  does happen. No fairness is assumed of it, and `OutcomeRecorded` excepts it.
- `WedgedPipelineSpec` has no fairness of the worker, which may hang at any
  alert for ever.
- `ProcessSpec` assumes nothing of the camera task, the processor, the worker
  and the server, nor of the path to Protect: any of them may be stuck through
  the drain.
- `PipelineFires` assumes of the two bounded sends (`Prompt`) that one second
  is long for a processor that waits for nothing, and two seconds for a
  worker that is not at a delivery. Without it an idle task could be
  unlucky at every send for ever, which no schedule of the runtime does. It
  also takes the process not to be restarted for ever.
- A run of a violated liveness property states fairness too, so that its
  counterexample is not a system that merely stops.

## 4. What is proved

Every theorem is for all values of the constants that satisfy the named
assumptions; a module's assumptions are those of the modules it extends.

`FireTrackerProofs` (`TrackerAssumption`: intervals that the configuration
accepts, any map size and set of sources):

- `TypeCorrect`: the types, by one step per operation (`SlotsStayTyped`), and
  the room for the named slots, from the next invariant.
- `MapBounded`: `SourceMapBounded`. It is not inductive: a map with
  MAX_SOURCES + 1 keys could be one without the overflow slot, and grow. The
  strengthening `NamedSlotsFit` bounds the slots of named sources by
  MAX_SOURCES; a new named slot is only taken when there is room, and eviction
  only shrinks the map.
- `SilenceIsBounded`: `SilenceBounded`, inductive over the types. The core is
  `RefreshedIsAnswered`: a refreshed slot has been alerted now, or an interval
  not yet over is the reason.
- `TrackerImplementsContract`: `TrackerSpec => Contract!Spec`, with
  owed = the slots with a pending edge, quiet = the age of the last alert.
  Each call is one step of the contract (`ActiveIsNotify`), a tick is
  `PassTime`, an `inactive` or a reset is a stutter.

`FireTrackerHistoryProofs` (also `HistoryAssumption`: the sources fit in the
map): `OwedIsPending`, `EdgesAreSpaced`, `AlertsAreTrue`. The invariant
`RecordExact` says that what the tracker keeps of a source (`View`) is what an observer who
remembers everything would keep. That the tracker's `was_active` is the
observer's `Burning`, > of the TTL against <= of it (`BurningIsActive`), gives
`AlertsAreTrue`. No eviction happens: a new
source finds room, by cardinality, so a slot once taken is never forgotten.

`CameraSupervisorProofs` (`BridgeAssumption`, `CameraAssumption`): `CameraTypes`, `ConnectedIsTrue`,
`BackoffIsHonest`. The invariant `CameraInv` joins the types, those of the
snapshot and `ConnectedInSession`; the delay shrinks in one action only, whose
guard reads the age of the session.

`CameraSessionsProofs` (also `SessionsAssumption`: the Reset is no event):
`ResetsSeparate`. `ResetBetweenSessions` speaks of the items that are queued; what the camera task may send
next has to be part of the invariant. `ReadyToSend`: in a session, the newest
item is an event of it, or the Reset of the one before; between sessions, it
is the Reset of the latest. With it each send extends the chain and each
receipt takes its first link.

`AlertDeliveryProofs` proves about the worker by itself (`BridgeAssumption`,
`WorkerAssumption`): `WorkerTypes`, `SuccessIsReal`. An attempt that rang is
counted, so `rung` never exceeds the attempts that have ended
(`EndedAttempts`), and the success that is about to be recorded has rung. Of
processor and worker together (also `TrackerAssumption`, `DeliveryAssumption`:
the worker is handed what the processor enqueues) it proves `DeliveryTypes`,
`BooksBalance`, `ErrorLatches`. The invariant joins the types, `RequestInHand` (a processor that sends has a
request) and `AlertsAccounted`. Each step moves one alert by one place in the
sum, or none (`Moves`, `WorkerMoves`), and a counter at its cap makes the statement vacuous
from then on.

`AlertPipelineProofs` (also `CameraAssumption`, `PipelineAssumption`: the
camera's events are events): `PipelineTypes`, `TasksStay`, `PipelineBooks`
from the invariant `PipelineInv`; a step of one task leaves the state of the
others alone, but for the channels. `NoTaskReturnsUnasked` needs the types for
the phases in which a task returns.

The same module carries the guarantees of the components over to the running
bridge, with the three tasks, one clock and the shutdown signal in place of
each component's own environment:

- `BridgeImplementsContract`: `PipelineSafety => Contract!Spec`, the bridge
  from the camera to Protect implements `AlarmContract`. Its core is
  `TrackerSteps`: whatever task moves, the tracker's map makes a step of the
  tracker or none. With it the lemmas `NamedSlotsStep`, `SilenceStep` and
  `ContractStep` of the tracker are used unchanged.
- `PipelineMap`, `PipelineSilence`: the map is bounded and the silence too.
- `PipelineConnected`, `PipelineBackoff`: the camera task's own guarantees.
  `OthersLeaveConnected` is what they need of the other tasks: no update of the
  snapshot by the processor or the worker touches `camera_connected`.
- `PipelineSuccess`, `PipelineErrorLatches`: the worker's, behind the real
  camera task.

And it joins the two grains: `BridgeImplementsTasks`, `PipelineSafety =>
Run!TasksSpec`. `CameraEffect`, `ProcessorEffect` and `WorkerEffect` say what
a step of each task does to the snapshot and to the set of running tasks;
`ConditionsMoved` and `ConditionsKept` map the updates of the snapshot. That a
camera task that returns has said so first is not visible in its last step
when it stops at the top of its loop or in its sleep: there it needs
`PipelineConnected`.

`BridgeProcessProofs` (`ConfigurationAssumption`, `ProcessAssumption`,
`HealthAssumption`): `ProcessTypes`, `ConfigIsSound`, `ExitIsTruthful`,
`ReadyRestsOnRecent`. `ExitIsTruthful` rests on
`DrainIsCancelled`. The last one needs `FreshInv`: while the probe
waits, the age of a success and the time to the next tick add up to at most one interval;
while it asks, the age is at most an interval and the time it has been asking,
which the timeout bounds.

`SessionInputProofs` (`ExtractorAssumption`: any bytes, any two tags that are
not empty, any streams, any positive length of the pieces, a limit no shorter
than the opening tag; `ParserAssumption`: any texts; `InputAssumption`: what
stands for a token is a byte, the byte that ends the root's tag delimits a name): the invariant `InputInv` joins `ExtractorInv`, `ParserInv` and
the types, and gives `InputTypes` and

- `EverySplitReadsTheSame`: `ChunkingIrrelevant`. The documents returned and those
  cut so far form a chain, each the first one after its predecessor, read with
  the whole stream in sight. What makes it inductive: between the last document
  and the window there is no opening tag that what came in later could complete
  (`NothingBefore`), so the
  noise that is discarded never held the beginning of a document; and once a
  scan is over, the window holds no document (`NothingLeft`). A tag cut by the
  end of a chunk is one byte shorter than the tag at most, and that is
  what is retained.
- `MemoryIsBounded`, `NoiseNeverOverflows`: after a scan, a window longer than
  a tag begins with a delimited opening tag and has no closing one; so it can
  only exceed the limit inside a document.
- `FieldsAreTopLevel`, `NoDocumentSilencesAFire`: the parser against a reader
  that sees the nesting. `FieldsSaid` states the parser's variables as
  functions of the history of what was read: `current` is the name of the
  innermost open element when no tag was read since its start tag, and empty
  otherwise (`CurrentIn`); a field is the first text that was read so, inside an
  element of one of its names (`Said`). One lemma says how each of the two
  changes with one more event (`UnbrokenAppend`, `SaidAppend`), and
  `ResultSaid` carries the fields past the end of the document. "The first
  text" exists because < on the naturals is well-founded (`LeastIndex`); no
  induction over the document is needed, as each event is a step.

These are statements about all streams and documents, not about those of up to
three parts that `session_input` enumerates.

Only model-checked: everything about liveness, as fairness and ENABLED are out
of the prover's reach (`OwedEventuallyAlerted`, `SilentStreamLeft`,
`CancellationStops`, `OutcomeRecorded`, `WorkerStops`, `BackToCamera`,
`ProcessorNeverStuck`, `ShutdownReachesAll`, `BurningFireAnswered`,
`DeadTaskEndsBridge`, `StopsWhenAsked`, `PathBackTurnsGreen`). Every safety
property that a passing run checks is proved.

## 5. What is not modelled, and the plan

Not modelled:

- the HTTP endpoints: they read the snapshot and change nothing; what
  `/readyz` answers is `Ready`;
- the `--healthcheck` client: one request of a process of its own;
- the wall-clock fields, `camera_message`, `webhook_verified` and the error
  texts of the snapshot: no step reads them;
- digest authentication, the syntax of hosts, headers and addresses, the
  payload of the webhook: formats, without state that a later step reads;
- the XML tokenizer (`quick-xml`): external, modelled by which tag sequences it
  refuses, a root that closes itself included;
- the end-to-end tests, the build, the container and the CI files.

What is left to do:

1. A property of the sources beyond the map that share the overflow slot
   (`state.rs:86`).
2. `AlertPipeline` under the drain of `BridgeProcess`, with the length of a
   delivery against the ten seconds, to count what a stop loses.
3. Two sources in `pipeline_fires`: the state space is too large today.
