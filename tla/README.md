# OpenAgora in TLA+

OpenAgora runs agents in sandboxes for reinforcement learning. A trainer asks
`openagora-server` for a *rollout*: the server starts a sandbox with the agent in
it, passes the agent's LLM calls through a recording proxy, waits until the agent
is done or its time is up, verifies the result and gives the trainer the
trajectory and the reward.

On top of it the repository has *Code Colosseum*, in which agents solve
programming problems against each other: an orchestrator in Python starts their
rollouts and keeps duels, benchmarks and a training log; a React dashboard shows
them while they go on.

This directory holds TLA+ models of the parts of the server, of the orchestrator and
of the dashboard where goroutines, processes, requests and renders meet, the TLC
configurations that check them on small instances, and TLAPS proofs of the
properties that matter most for every instance. `PROJECT.json` is the index: components, runs, the source lines of each
definition, a broken variant of the code for each property, hazards and theorems.

    tlc -workers 2 -config MCLifecycleDocker.cfg MCRolloutLifecycle
    tlc -workers 2 -config MCArenaTab.cfg MCArenaTab
    tlapm ArenaTabProofs.tla

## 1. The system

Paths are relative to the repository. `server.go` is `go/pkg/server/server.go`;
of Code Colosseum (`examples/code-colosseum`) the files are named without their directories,
`backend` and `dashboard/src`.

| Component | State it keeps | Operations | What makes it correct |
|---|---|---|---|
| Rollout lifecycle (`server.go`) | `rollouts` map of records (status, pause times, report) under `s.mu`; per rollout a goroutine, a channel `stateCh` of capacity one, a context | `CreateRollout`, `StopRollout`, `PauseRollout`, `ResumeRollout`; `runLifecycle`, `waitForCompletion`, `runVerify`, `markTerminal`, `applyVerification` | a finished rollout is quiescent; no wake-up lost; the timeout counts exactly the time that is not paused; record and sandbox agree; the sandbox outlives its verifier; a final status stays |
| LLM proxy (`go/pkg/proxy/proxy.go`) | `rollouts` by token under `p.mu`, each with its token usage | one handler goroutine per request: lookup, budget check, forward, copy, record, account | the trajectory has every reply, in order, once; usage is what was recorded; overshoot is bounded |
| Trajectory backend (`go/pkg/trajectory/backend/local.go`) | one `bufio.Writer` over one file per rollout, under `b.mu` | `Write`, `Flush`, `Finalize`, `Read`, `Close`, the flusher | append-only log; what was flushed survives; a read sees what was written before it |
| Weight synchronisation (`server.go`, `go/pkg/inference/inference.go`) | `currentWeightVersion`, `weightMu`; the backend's weights and whether it generates | `UpdateWeights`: pause, reload, continue, record; the stamp in `CreateRollout` | one update at a time; a version is recorded only if loaded; the backend is left generating |
| Sandbox providers (`go/pkg/sandbox`) | the container or process | `Create`, `Start`, `Pause`, `Unpause`, `Stop`, `Destroy`, `Exec`, `WaitForDone` | their errors are what the lifecycle relies on |
| Verification (`go/pkg/verify`) | none | verifiers, output parsers, `TotalReward` | the reward follows from the test results |
| Metrics, dashboard (`go/pkg/server`) | counters, gauges, histograms | observation, exposition, statistics | counts match the rollouts |
| Python SDK (`python/openagora-sdk`) | none | retries of `CreateRollout`; `wait`, `wait_async` poll the status | a wait ends with a result that is final |
| veRL integration (`python/openagora-verl`) | transfer queue storage | agent loop, alignment of tokens and logprobs, queue | one sample per rollout, lengths agree |
| Command line, agents, examples | none that outlives a command | | |
| Colosseum duel engine (`duel.py`) | duels, each with two agents and a queue of events, in coroutines of one event loop | `start_duel`, `_watch_agent`, `_wait_for_completion` with its deadline; listing, detail and stream | the winner has the higher reward; a reader in another thread is not misled for good |
| Colosseum benchmark engine (`benchmark.py`) | benchmarks with their runs, results, events; a semaphore | `start_benchmark`, `_run_benchmark`, detail, stream | over only when every run is; every run told |
| Colosseum training service (`training.py`) | the metrics file, one queue per stream | `append`, `subscribe`, `_notify`, `latest_status` | a stream is sent every record |
| Colosseum hooks (`useApi.ts`, `useSSE.ts`) | data, error, loading, requests in flight; the list of events, connected | effect, poll, cleanup, answers; open, message, error | an answer for an earlier path changes nothing |
| Colosseum Arena tab (`ArenaStage.tsx`, `DuelCreator.tsx`, `DuelHistory.tsx`) | `liveDuel`, the form, the selection kept by `App` | select, start, show and leave the tab; detail and events | one duel on the stage; banner and scores agree; it ends as the duel did |
| Colosseum Command Center (`ArenaDashboard.tsx`) | `liveDuel`, polls of list and detail | selection, detail, events, the reward curve | one duel; in the end the newest one |
| Colosseum Benchmark tab (`BenchmarkStage.tsx`) | selection, `runningId`, streams, log | click, poll, release of the button, log | released when the benchmark is over; the table is of all runs that had ended when it was read |
| Colosseum App, Training, lists, Trajectory (`App.tsx`, `TrainingMonitor.tsx`, `Leaderboard.tsx`, `TrajectoryStage.tsx`) | tab, problems and the selected one, the curve, a list or trajectory | tabs, choice, form, stream, answers | the curve is complete; a list is as new as its tab; what loads ends, but in the viewer |

**How they interact.** A gRPC handler goroutine runs `CreateRollout`, which binds
a listener for the rollout's proxy, registers a token, creates and starts the
sandbox, records the rollout and leaves a lifecycle goroutine behind. That
goroutine shares the record with the handlers of stop, pause and resume through
`s.mu`, is told of pauses through `stateCh`, and hears from the provider through
`WaitForDone` in a goroutine of its own. The agent in the sandbox calls the
proxy, which appends to the backend, which the handlers of `GetTrajectory`,
`StreamTrajectory`, pause and completion read and flush. Clients poll the record.

The orchestrator is such a client, and a server to the dashboard. Its duels and
benchmarks are coroutines of one event loop; the endpoints that return them are plain
functions, so FastAPI runs them in threads, next to the loop. A component of the dashboard asks for a
record through `useApi`, once or every few seconds, and follows it through `useSSE`, whose
server side takes from a queue that all streams of a duel share. Both end in states of
React, which are acted on in effects after the next render. `App` alone outlives a
change of tab; requests that were under way then still end.

**What is hard.** Provider calls take seconds and are made without the lock,
between two critical sections. The timer, the channel and the provider's answer
race in one `select`. The reply to a call reaches the agent before the proxy has
recorded it. The backend drops its lock between flush and read. Calls to the
inference backend and the container runtime can fail after having had their
effect, and they run under the context of a request whose client may go away.
On the dashboard an
answer may belong to an earlier selection, details and events of different age come in
any order, several changes may meet in one render, an event may go to another browser, and
a record may be read in the middle of its assignments. `PROJECT.json` lists forty such places as hazards, each with its line; section 6 has those that no module reaches yet.

## 2. Modules

| Module | Models | Checked by | Proofs |
|---|---|---|---|
| `RolloutLifecycle` | one rollout, any number of callers | `MCRolloutLifecycle` | `RolloutLifecycleProofs` |
| `ProxyCapture` | the proxy of one rollout, any number of requests | `MCProxyCapture` | `ProxyCaptureProofs` |
| `StepLog` | what a trajectory backend promises (abstract) | through `LocalJSONL` | |
| `LocalJSONL` | the local backend, as one rollout sees it | `MCLocalJSONL` | `LocalJSONLProofs` |
| `WeightSync` | `UpdateWeights` over SGLang or vLLM | `MCWeightSync` | `TrainingProofs` |
| `Null` | the absence of a value in the Colosseum modules | | |
| `Hooks` | `useApi` and `useSSE`, as operators on the state of a hook | through the tabs | `HooksProofs` (lemmas) |
| `DuelRecords` | a duel, its events, and what the dashboard does with an event | through the tabs | |
| `DuelEngine` | the duel engine, any number of duels | through the tabs | |
| `ArenaTab` | the Arena tab, composed with `DuelEngine` | `MCArenaTab` | `ArenaTabProofs` |
| `CommandCenter` | the duel on the Command Center, composed with `DuelEngine` | `MCCommandCenter` | `CommandCenterProofs` |
| `BenchmarkEngine` | the benchmark engine | through the tab | |
| `BenchmarkStage` | the Benchmark tab, composed with `BenchmarkEngine` | `MCBenchmarkStage` | `BenchmarkStageProofs` |
| `TrainingTab` | the Training tab with the training service | through `App` | `TrainingProofs` |
| `App` | the tabs, problems, form, lists and trajectory viewer, composed with `TrainingTab` | `MCApp` | `TrainingProofs` |

A definition whose name ends in a variation of another one and whose comment
begins with "Mutant:" is not part of the model: it is a plausible mistake in that
code, and `PROJECT.json` says which property it would break.

### RolloutLifecycle

One rollout is enough: rollouts share only the lock of the map, held for single
critical sections, and the gauge, which is a sum. A step is what the code does
between two points at which another goroutine can intervene.

* *Creation* (`create`): `CreateBegin`, `RegisterRollout`, `CreateSandbox`,
  `StartSandbox` or `StartSandboxFails`, `RecordRollout`. The agent may already run, and
  finish, before the record exists. The error paths are `UnregisterFailed`, `DestroyFailed` (after a failed start;
  with the request's context, so it may do nothing) and `CloseFailed`; the gauge stays raised.
* *Waiting* (`lc`, `deadline`, `wait`): `Loop` is the read of the record under
  `s.mu`, `EnterSelect` the later entry into the select, `StateSignalled`,
  `SandboxDone` and `TimerFires` its cases. `wait` is the `WaitForDone` goroutine and
  its result channel, `cancelled` the context.
* *Completion*: `UnregisterRollout`, `CloseProxyServer`, `Finalize`, `RunVerify`,
  `MarkTerminal`, `StopSandbox`, `DestroySandbox`, `ApplyVerification`, `LowerGauge`; `AfterStep` is
  their order, which differs for inline, asynchronous and absent verification. In
  the asynchronous case `runLifecycle` returns (`LowerGauge` at `spawn`) and its
  goroutine goes on; the two never act at the same time on anything but the gauge,
  so one program counter stands for both.
* *Handlers* (`hpc`, one per caller): the critical section that checks and sets the
  status, the provider call, the second critical section, the signal. They are
  separate steps because the code drops `s.mu` in between. `overlapped` is a history of whether one that
  changes the status was between its two critical sections when the rollout finished. The flush of the trajectory after a
  pause (`server.go:593`) touches nothing that is kept here; it is `Flush` of `LocalJSONL`.
* *Providers*: with docker, pausing a container that is not running or already
  paused fails, as does unpausing one that is not paused; the local provider's
  signals succeed as long as the process lives. With `ProviderFaults` a call may fail
  with or without having had its effect.
* *Time*: `now` is the clock since `runLifecycle` started. Durations wrap like the 64-bit ones of the code,
  at `MaxDuration`, and `time.Since` of the zero time is the largest one.
  `held` is a history of the time during which the status was not running.

### ProxyCapture

Each request's handler goes through `lookup`, `check`, `forward`, `copyBody` or
`copyStream`, `record`, `account`. The agent may have the whole reply when it is
written, before the step is recorded, and may act on it (`Receive`, then `Send` or the
end of its program). It may call again at any time. `orderly` records whether it has so far called like an agent of
one thread with one connection: each call after the answer to the one before (`InTurn`; net/http takes a connection's next
request only when the handler has returned), none given up. The properties about budget and order are about such
agents. The end of the rollout (`EndGeneration` to `MarkTerminal`) runs beside
the handlers as `runLifecycle` does. Messages are model values; tokens are numbers up
to `MaxUse`, chosen by the backend. A backend error status is an ordinary reply of
no tokens, as it is in the code.

### StepLog and LocalJSONL

`StepLog` is the promise of `backend.Backend`: an append-only log of which a prefix is
stable, and reads that return at least what was there when they began.
`LocalJSONL` has the file and the buffer as sequences of units, a unit being a part
of a step's JSON text or its newline, and `Put`, `PutByte` and `FlushAll` are what
`bufio.Writer` does at its limit. Each method is one action, `Read` two. The
refinement maps the complete steps in file and buffer to the log, and the
complete steps in the file to the stable prefix.

### WeightSync

The handler of `UpdateWeights` is `Call`, `Lock`, `PauseGeneration`,
`UpdateWeightsFromDisk`, `ContinueGeneration`, `Commit` and the failure of each backend call. A failing call
(`Fails`) leaves the backend alone, or is carried out unnoticed, or is carried out
later (`DoLate`). The pause requests of SGLang and vLLM differ only in name. `faulted`
records that a call has failed or a caller gone.

### Hooks

The state of `useApi` is a record, and its requests are in `Slots`, each sent or answered;
`WrappedLoad`, `Cleanup`, `Resolve` and `Reject` are functions on that record that follow the code
of the effect. The server fills in an answer (`Answer`) at a moment of its own, so an answer is as old as
that moment when it arrives. A cleaned-up request is forgotten: its answer would find
`cancelled` set. A fetch is not modelled when all slots are taken (`MayFetch`): a bound, since
the code has no limit. Of the list `events` of `useSSE` the components look at the last
element, in the render after a change, so `latest` and `fresh` are what matters of it.

### DuelRecords and DuelEngine

A duel is a record with status, winner and the two agents, an agent a status and a reward of 0 or 1
(code, output, usage and cost travel with the reward). A coroutine runs between two
`await`s without another one, but not without the threads of the endpoints, so each group of
assignments is two actions, `BeginResult` and `EndResult` for instance, and `segment` says which group
the loop is in. `Deadline` is the branch that fails the agents which are not
over and completes the duel; their watchers go on. `Take` is a stream taking from the duel's queue: this
browser (`MessageArrives` of the tabs) or another one, or a connection that is gone (`OtherReaderTakes`).
`run_agent` turns what its calls raise into a failed result, and a rollout that was created has an id, so the branch of
`_watch_agent` for a missing one (`duel.py:170`) is not taken and is left out. A watcher that never returns needs no action of
its own where nothing is fair. `Apply` is the updater of `setLiveDuel`, which `ArenaStage` and `ArenaDashboard` share word for word.

### ArenaTab

`DuelCreator` is `Submit`, `Create` (the server takes the request up), `OnCreated`, `SubmitFails`; a form that has
been left still calls `onCreated`, so `posts` says whose request it is; one that the browser has given up may still reach
the server ("lost"). `DuelHistory` is `listed`, asked for once when the tab is shown and there from `ListArrives` on. `Select` is `setSelectedDuelId` with the effects it leads to; an event that waits for its render is
looked at before them, as the effects of one render run on the events of that render. `live.parts`
is a history of the duels the stage is made of. `missed` is a history too, of the events of the duel that were
overtaken by another one before a render, came before the detail, or went to another reader:
"detail" if there was one since the server read the detail, "event" if there was one behind the event that waits for
a render. The two are told apart because a newer detail makes up for the first but not for the
second: the older event that is applied after it is not repaired by the one that was lost. `ShowArena` and `LeaveArena` mount and unmount.

### CommandCenter

`useLiveDuel` polls the list (`AskList`, `ServeList`, `ListArrives`) and the detail of the duel that `useMemo`
selects from it (`Selected`: the newest one that runs, or the newest), and applies events in between. List and
detail have slots of their own (`L` is a second instance of `Hooks`).
The reward curve is `Curve` in `TrainingTab`, an operator on the records of the file.

### BenchmarkEngine and BenchmarkStage

A benchmark is its status, the runs that have not ended in the order of `asyncio.gather`, whether one has raised, and its
results. The first `Concurrency` of the waiting runs hold the semaphore. `Click`, `Create`, `Created`, `ClickFails` are `runBenchmark` up to and after its
`await`. `runningId` is the state as set, `rendered` as of the last render: between them other
answers may come. The endpoint reads the summary and then the status (`ReadSummary`, `ReadStatus`), in a thread;
of such a detail `added` is a history of how many runs the summary adds up, `seen` of how many had ended when the status was
read. A request that has failed for the browser may still be carried out (`ClickFails`). Streams write to one log and only `done`
closes them; on leaving the tab nothing does.

### TrainingTab and App

A record of the training is its step and its line in the file. `Post` is `append` writing, `Notify` its telling the subscribers;
`Write` is the trainer, which writes to the file and tells no one. The stream subscribes (`Subscribe`) and then reads the file
(`Replay`), so a record may come twice but not be left out. `Restart` of the orchestrator loses
the queues. `MessageArrives`, `StatusArrives` and `Render` are `TrainingMonitor`. `App` adds `SetTab`, the problems and the select that
shows its first option while nothing is selected (`Option`), the form's button,
the lists of duels (`DuelRows`) and of the players on the leaderboard (`PlayerRows`; a match adds up to two), and the
trajectory viewer. `BusyEnds` leaves the viewer out: its "Loading..." has no end (`app_trajectory`).

## 3. What the runs check

All runs use two or three actors of each kind; every race found here is between
two of them, and the theorems cover any number. Deadlock is not checked: a
rollout ends, and then nothing happens any more.

| Run | Question | Bounds |
|---|---|---|
| `lifecycle_docker` | Two callers stop, pause and resume a docker rollout, verified asynchronously. Type invariant; `TerminalIsQuiescent`; `NoWorkOnDestroyedSandbox`; `NoLostWakeup` and `PauseDisarmsTimer` (the wake-up protocol); `DeadlineExcludesPauses`, `NoPhantomPause` (the timeout accounting); `StatusMatchesSandbox`; liveness `EventuallyDestroyed`. | timeout 2, pauses until 2: two pauses of one tick or one of two, begun before the deadline or at it, so that a deadline is moved twice |
| `lifecycle_faults` | The same with failing provider calls and inline verification: `SyncRewardVisible`, `FinalStatusStays`. That `TerminalIsQuiescent`, `NoWorkOnDestroyedSandbox` and `NoLostWakeup` hold here too is proved. | timeout 1, no ticks within a pause: time is the other run's subject |
| `capture` | Two calls, one after the other or concurrent, that may be given up: `UsageMatchesTrajectory`, `OvershootBounded`, `ConversationOrder`, liveness `RepliesCaptured`. | 2 calls, budget 2, charges up to 2: the budget is reached exactly and overdrawn; more calls are the theorems' subject |
| `jsonl_store` | The backend with writes, flushes, reads, completion, shutdown and crash: `SettledSurvives`, `ClosedHoldsNothing`, refinement of `StepLog`, liveness `EventuallyOnDisk`. | buffer of 3 units, steps of 2, 5 and 8 units with their newline: one fits, one overflows, one is longer than two buffers; 2 readers |
| `sync` | Concurrent updates with lost, late and cancelled calls: `OnlyLoadedVersions`, liveness `EventuallyAnswered`, and as long as none has failed `RestingInSync`, `RefitWhilePaused`. | 2 callers, 2 versions, 1 rollout, SGLang |
| `arena_tab` | The Arena tab: `OneDuelOnStage`, `BannerMatchesScores`, `StageShowsTheEnd`. | a duel that was over before and one that is started, 2 requests for details, an agent wins or fails, 1 fault: a deadline, a lost event, a refused request or a lost answer |
| `command_center` | The Command Center: `OneDuelInArena`, liveness `EventuallyCurrent`. | a duel that was over and one that is started, 1 request for the list and 1 for the detail in flight, 1 deadline; requests fail and events are lost without bound |
| `benchmark` | The Benchmark tab: `ReleasedOnlyWhenOver`, `TableIsFinal`, `LogIsComplete`. | 2 agents, 1 problem, 2 benchmarks, 1 request, concurrency 1, 1 twist: a run that raises, something lost, or a change of the selection |
| `app` | The tabs with the training stream: `CurveComplete`, `CurveEndsWithTheLatest`, `OnePointPerStep`, `ListNotOlderThanTab`, liveness `BusyEnds`. | 2 steps, 2 records, 2 problems, 1 duel, 1 broken connection, failed request or restart |

The bounds of the dashboard's runs are the smallest at which two things can be
confused: two duels, one of them over; two benchmarks, the second started after the first or by a
double click; two records, of the same step or not. With one slot a poll waits for
the answer before it; two slots let an answer be overtaken within one selection, and the cleanup lets it be overtaken
between two with either. The proofs are for any number of each. The agents of
`benchmark` are the two that the tab selects when it is opened. `TypeOK` of `CommandCenter`, `BenchmarkStage` and `App` documents their
variables; add it to the `.cfg` after a change of the module. (`EngineTypeOK` is part of `ArenaTab`'s, which is checked.)

Three runs find a divergence between the program and its own documentation:

* `lifecycle_zombie`: `PauseRollout` and `ResumeRollout` set the status to running after a
  provider call (`server.go:586`, `634`) without looking at it again. If the rollout
  finished in between it is running again, for good: its clients wait for ever. (Timeout 1, pauses until 1.)
* `arena_unfinished`: the effect of `ArenaStage` on its events looks at the last of them (`ArenaStage.tsx:24`). Of
  two events that come between two renders the first is never applied. `_watch_agent` puts two in a row, and so does the end
  of a duel, so the stage may go on showing an agent without its result; unlike the Command
  Center it does not poll. (The bounds of `arena_tab` without faults.)
* `app_trajectory`: `TrajectoryStage` calls `useApi` without dependencies (`TrajectoryStage.tsx:24`), so nothing is
  asked for when an id is entered, and the button says "Loading..." from the
  start. (No records, no faults: neither matters.)

### Further divergences

Found with the same models, by checking the formula named where there is one; they are
not kept as runs.

Of the server:

* A stopped rollout becomes a success or failure when its sandbox ends
  (`server.go:515`), though clients treat `stopped` as final:
  `[][status = "stopped" => status' \notin Terminal]_vars`.
* The timer may win the race against the signal of a pause (`server.go:424`):
  `[][~timedOut /\ timedOut' /\ status # "stopped" => now - held >= Timeout]_vars`.
* A `CreateRollout` that fails leaves `arena_rollouts_active` raised
  (`server.go:216`): `create = "failed" => gauge = 0`. Its client may have gone; the context with which it then
  destroys the sandbox is cancelled (`server.go:293`), and an agent goes on running in a sandbox nobody knows:
  `create = "failed" => sandbox \in {"absent", "gone"}`.
* With the local provider a resume may overtake the pause it answers
  (`RunningNotFrozen`), and two resumes credit one pause, the second from the zero
  time (`NoPhantomPause`). With provider faults, a pause that failed after its effect
  is undone in the record only (`RunningNotFrozen`).
* A call that comes on a new connection before the one before it has been
  charged is admitted on a spent budget (`proxy.go:225` against `332`).
* A rollout created between refit and `Commit` is stamped with the version before
  (`server.go:318`): `stamp'[r] = served` fails for a newly stamped rollout.
* The proxy writes the reply (`proxy.go:296`) before it records the step (`proxy.go:330`); nothing makes the end
  of the rollout wait for it, so the trajectory of a finished rollout may lack the last step for a while:
  `phase = "terminal" => \A r \in Requests : got[r] = "reply" => r \in Range(log)`.
* A write that overflows the buffer between the flush and the copy of `Read` puts half a step at the end of
  the file; `GetTrajectory` fails to decode it.
* After a pause call whose answer was lost, or when the caller has gone, nobody asks the
  backend to continue, although the comment at `server.go:663` says generation is always resumed: `Resting => ~paused`.

Of Code Colosseum:

* The error of a request is not reset by a later success (`useApi.ts:37`): after one failed detail the stage shows the
  error for every duel selected afterwards, until the tab is left.
* A duel whose rollouts cannot be created is selected all the same; its stage shows it as it was when its
  detail was read, since the `error` event is not applied.
* From the selection of a duel until its detail arrives the stage shows the duel before, and applies
  the new one's events to it.
* The late result of an agent that its deadline has failed (`duel.py:250`) changes status and reward under a
  banner that names another winner: `BannerMatchesScores` without `forced`.
* All streams of a duel take from one queue (`main.py:110`): of two browsers each sees a part of the events. The Command Center makes up for
  it by polling (`EventuallyCurrent`), the Arena tab does not.
* A detail of a benchmark whose last run ends between summary and status (`benchmark.py:195`) says completed over a
  table that lacks it, and no other is asked for: `TableIsFinal` with `added` = `seen`.
* A double click on Run Benchmark starts two; the end of the first gives the button free while the second
  runs: `ReleasedOnlyWhenOver` without `doubled`. The runs of a benchmark that
  failed go on, and what they add is sent behind its `done`: no log shows it. Leaving the tab closes no stream.
* The trainer writes to `metrics.jsonl` itself (`train_colosseum.py:432`) and does not post, so the stream
  is told of nothing: the curve that `README.md:89` of the example calls live is that of the
  moment the tab was opened. `CurveComplete` without `unposted`.
* The answer to the first request of the Training tab replaces a curve the stream has already extended
  (`TrainingMonitor.tsx:24`): `CurveEndsWithTheLatest` without `stale`. A replay after a broken connection draws
  the curve again behind itself; of two records in a row of one step the second is dropped.
* The queue of a stream is never removed (`training.py:74`), and is filled from the thread of `append`
  (`training.py:84`), for which `asyncio.Queue` is not made.
* The select of problems shows the first one while none is selected (`App.tsx:19`), so Start Duel stays
  disabled until another has been chosen, and with one problem for ever.

## 4. Fairness

Weak fairness of goroutines and timers stands for the Go scheduler; weak fairness
of a provider or backend call says that the call returns, which contexts, client
timeouts and the docker daemon see to. `Lock` has strong fairness because a
`sync.Mutex` hands itself over to a waiter after a millisecond. The flusher's ticker
fires again and again. Nothing obliges a client to call, an agent to finish, an
agent to be paused or resumed, or a verifier to end (no deadline bounds it, so
`EventuallyDestroyed` ends at the verifier).

For the Command Center, weak fairness of the polls is that of `setInterval`, of `Render` that of React, of the
arrival of answers and events that of a connection which is opened again when it breaks. Serving a request has strong
fairness: each request may fail, but not all of them for ever. The engine's coroutines go on, and the
rollout of an agent ends by itself or by its timeout, which the server sees to. Nothing obliges anybody to start a
duel. In `App` requests are served and answers arrive; a failed one is an answer. `ArenaTab` and `BenchmarkStage`
state no fairness: their properties are about safety.

## 5. What is proved

All theorems hold for every value of the constants within the named assumptions
of the modules, so for any number of callers, requests, readers, versions,
rollouts, duels, benchmarks, agents and problems, any timeout, budget and buffer.

* **`RolloutLifecycleProofs`.** The inductive invariant `Inv` adds to the type
  invariant what each phase has behind it: `PhaseInv` (a phase says which of the
  completion steps are done), `GaugeInv` (raised once, lowered once), `ClockInv` (no
  instant in the future, so no duration overflows unless it is measured from the zero time) and `SandboxInv` (nobody
  but the lifecycle destroys the sandbox). `TypeOK` alone is not inductive: lowering the
  gauge needs `GaugeInv`. From `Inv`: `TypeCorrect`, `TerminalQuiescence`,
  `SandboxOutlivesVerifier`. `NoWakeupLost` is inductive relative to `Inv`: whoever changes the status has
  still to signal it; with it comes `PausesDisarmTimers`. Both hold for the local provider too. `SyncReward` needs the order of completion.
  `PausesAccounted` assumes docker without provider faults. Its heart is `HandoverInv`:
  a caller that has paused the record but not yet the container, or unpaused
  the container but not yet the record, is alone, since the container itself
  refuses to be paused or unpaused twice. `CreditInv` then bounds the credited time
  by the time not run. `CreditsArePauses` and `DeadlinesExcludePauses` are its two parts about time.
  `FinalStatus` is for any provider and any faults. A resume writes the status without looking at it (`server.go:634`), so what keeps
  it from doing so to a finished rollout is the look when it was admitted: `StaysInv` says that after the end no handler is between
  its two critical sections, unless one was so at the end.
* **`ProxyCaptureProofs`.** `TypeCorrect`; `BudgetHolds` and `ConversationsInOrder` for an
  agent that is `orderly`. `OneHandler` is the key: such an agent
  has one running handler, so what was below the limit when it looked still is
  when it is charged, and the last request sent is the one being recorded.
  `UsageIsExact` is for any agent: what is to be charged is recorded and what is recorded has been served
  (`RecordedFirst`), so the two differ by the handlers between `record` and `account`. The sum is the number of
  tokens counted one by one (`TokensOf`), so a charge adds a disjoint set of them.
* **`TrainingProofs`, the weights.** `LockInv` (the lock is held from pause to answer),
  `LoadedInv` (who will record a version has seen it loaded) give `TypeCorrect` and `VersionsLoaded`, for
  either backend and any failures; `SyncInv`, which says how far the backend has come at each step of
  the holder, gives `InSync` and `RefitsArePaused` without failures.
* **`TrainingProofs`, the curve and the lists.** `CurveInv` says where the steps are that the curve lacks: in the
  stream, taken from it and not yet drawn, or written and about to be told (`NothingLost`), and which of these is the
  record the file ends with (`LatestIsLast`). That an answer to the first request finds a curve that
  is not stale needs `Connected`: the tab asks once, so nothing but this answer can make it so. From it `CurveTold` and
  `CurveEnds`. `ListInv` bounds each list, each answer on its way included, by its length when the tab was
  opened and by its length now; requests are of the open tab alone, since mounting forgets the others.
  Hence `ListsAreCurrent`.
* **`TrainingProofs`, the points.** `PointsAreLatest` is about what a loop computes for a file of any length. `Kept` says what the Map
  is after `i` records: it has each of their steps once, with its last record; `SetKeeps` that one more `set` keeps that. The induction
  is over a set of numbers in the place of a predicate (`UpTo`, from the least number of a set, which the library has as
  well-foundedness of `<`), and so asks no prover for an operator. Sorting gives each value its `Place`, the number of steps up
  to its own: an injection into 1..n, hence onto. In the file each record has the number of its line (`Numbered`).
* **`LocalJSONLProofs`.** `CloseFlushes`: after `Close` nothing is buffered. The others rest on what a
  text decodes to. Its lines are those of the units that end a step, by their rank (`Ends`, `Rank`); the ranks of a text
  are an injection into 1..n of n elements and hence all of them (`EndOfEachRank`), so no induction is needed
  for `LinesConcat` (a longer text decodes to a longer list) and `LinesAppend` (a line adds its step).
  `PutExtends` goes through the four cases of `bufio.Writer.Write`, and `Gains`, `Flushed` and `Still` are all
  that a method does to file and buffer. The file grows at its end only (`Grown`), which gives `SettledStaysOnDisk`; `ReaderInv`
  adds what a reader is to find. `Implements` maps each method to a step of `StepLog` or to none.
* **`HooksProofs`.** Lemmas on what each operator of `useApi` does to the requests in flight: a fetch adds
  one for its path, a cleanup leaves none.
* **`ArenaTabProofs`.** `NeverTwoDuelsOnStage`: the requests under way and the stream are of the
  selected duel (`OnlySelected`), because the effects that change them run with the selection; so what arrives is of it
  alone, and until then the request is pending (`Covered`). `BannerIsRight` is independent of it.
  `EngineInv` says how far each duel has come: a winner is only named when both agents are
  over and nothing but a watcher that the deadline has overtaken can change a reward. `Queued` says of each event
  in the queue that it agrees with what the duel will be, `Shown` of each detail and of the stage that, once it names
  a winner, its rewards are final. So an event that is missed, or a record read half assigned, leaves the stage behind but not
  wrong. `StageEndsRight` says when it is not even behind. `EndInv` looks at a copy of the duel, on the stage or
  in an answer, and at the events still due to it: field by field, the last due event that tells the field tells what
  the record has, or none does and the copy has it (`Heals`), but for fields a coroutine has still to tell
  (`Moving`). A step of the engine keeps that because it sends what it changes (`Sends`). `TypeCorrect` rests on all three.
* **`CommandCenterProofs`.** `NeverTwoDuels`, by the same argument as the first of these.
* **`BenchmarkStageProofs`.** `ReleasedInTime`: requests and detail are of the benchmark of the last render
  (`AboutRendered`), and without a double click no other one is on its way (`OneAtATime`); what a detail says to be over
  is over for good. `TableLacksOnlyLateRuns`: a completed benchmark has no run left (`NothingLeft`), so what was seen when
  the status was read is all of it (`seen`); results are only added (`ResultsGrow`), so a summary read earlier is still that of
  the first `added` of them (`PrefixKept`). Nothing is assumed of when the thread reads. `LogTellsAll`: the lines the log has
  of a benchmark, followed by the events on their way, are its runs in order and then the end (`Fits`); lines of
  another benchmark between them do not count, which is a fact about the subsequence `Filtered`. `Heard` says that of every stream that is
  open and has lost nothing, and of those closed that the log alone has all.

The invariants were checked by TLC on the runs' instances before they were proved.

Three of these proofs changed the model. The history `missed` of `ArenaTab` was a boolean, and `StageShowsTheEnd` was not
inductive under it: with two faults an event waits for its render, a later one goes to another reader, and a newer
detail resets `missed` before the old event is applied over it. No run had two faults; TLC shows it with `MaxFaults = 2`. The code does
just that, so the history was wrong and not the property. And `None` had to be told from what it stands next to: a state of a benchmark
(`NoBenchmarkAssumption`), a record of the training (`NoneAssumption`) and a length (`LengthAssumption`), as null is in the code.
`Curve` was a fold and `SortSeq`, which the provers cannot expand; it is now a recursive function and ranks (`Place`), with the same values.

**Only model-checked.** Liveness (`EventuallyDestroyed`, `RepliesCaptured`, `EventuallyOnDisk`,
`EventuallyAnswered`, `EventuallyCurrent`, `BusyEnds`), which needs `ENABLED`.
Every other property of the passing runs is a theorem.

## 6. Not modelled

* Verifiers: a call that yields a report or none. What they compute is planned.
* Disk errors; a `bufio.Writer` keeps the first one and drops later writes.
* `injectSampling`, `extractEngineTokenIDs` and `proxyPlain` of the proxy: no state.
* The read-only handlers, dashboard, protobuf conversion, process wiring.
* e2b, modal, daytona, rock and mock providers: REST client, stubs, test double.
* Python packages (planned in part), command line, agents, examples, generated code.
* Of the dashboard: the battle log and names of the Arena tab (the log is not cleared when another duel
  is selected), the list of benchmarks that is fetched and not used, the poll behind the reward
  curve, how a trajectory is laid out, the effects that React's strict mode runs twice in
  development. The title of the stage is that of the selected problem, not of the duel's.
* Of the orchestrator: Elo ratings (floating point), its restart while duels or benchmarks run (they are
  in memory only), heartbeats of the streams, the event `agent_status` "running" being
  stored nowhere but on the dashboard. `list_duels` reads each duel once while the loop goes on; the model reads all at one moment.
* Usage, cost, code and output of an agent, which change together with its reward.

Hazards that wait for a model: a retried `CreateRollout` whose first answer was lost leaves a rollout nobody knows
(`client.py:189`); a rollout that timed out has its context cancelled and so no reward (`server.go:451`); the agent
loop's timeout counts pauses, the server's does not (`agent_loop.py:450`); `proxyPlain` without a default backend
(`proxy.go:510`); the summary of pytest in another order (`verify.go:282`), the weighted mean with negative weights
(`report.go:34`); the ratings, rewritten in place, and the streams of a duel that stay open when they cannot be
saved (`elo.py:43`, `duel.py:291`).

## 7. Plan

Done: the modules of section 2, with their proofs. Next, in order:

1. `RolloutClient`, composed with the lifecycle's record: `wait`, the agent loop's wait, retries of
   `CreateRollout`, and the reward read at the first terminal status. To check: a wait
   returns a final record; with `SyncVerify` the record it returns has its reward.
2. `RolloutContract`, the record as clients may rely on it (running and paused, then one
   final status), with `RolloutLifecycle` shown to implement it where it does: docker, and no
   call of pause or resume in flight at the end. To prove: the step simulation.
3. Restart of the orchestrator in `DuelEngine` and `BenchmarkEngine`, and the file of the ratings with a crash
   between its truncation and its end.
4. `Verification`: `TotalReward`, aggregation, `ComputeCounts` and the transitions of SWE-bench cases, the
   pytest and unittest summaries, as operators against reference definitions over
   bounded inputs. To prove: the weighted mean stays between its values for
   non-negative weights; the four categories partition the cases.
5. `TransferQueue` and `TokenAlignment` of the veRL integration: keys and fields between
   producer and consumer, lengths of token ids, masks and logprobs.
6. Larger instances of the dashboard (two details of the Command Center in flight, files of
   three records).
