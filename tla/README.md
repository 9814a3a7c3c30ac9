# JARVINx in TLA+

JARVINx observes a host, asks a local model (Ollama) what to do about what it
sees, and may run one of a few read-only commands. This directory holds a
specification of its runtime in TLA+, the TLC configurations that model-check it
and proofs that TLAPS checks. Paths of the source are relative to `src/`.

## 1. The system

| component | state | operations | talks to |
|---|---|---|---|
| Event bus, `runtime/core/bus.go` | subscriber list, two channels per subscriber | Subscribe, Unsubscribe, Publish, the goroutine `run` | scheduler and orchestrator publish, orchestrator subscribes |
| Scheduler, `core/scheduler.go` | interval, ticker, last network counters | one observation per tick, SetInterval | publishes on the bus; the CLI changes the interval |
| Orchestrator, `core/orchestrator.go` | `lastSnap`, TryLock mutex, exec guard, last result | one goroutine `handleObserved` per observation | reads the store, runs a command, publishes its result; `AgentContext` is a callback of every agent |
| Registry and base agent, `agents/registry.go`, `agent.go` | agents, `enabled`, counters | one goroutine and one ticker per agent, panics recovered | calls `Run` with a fresh context |
| System agent, `agents/system_agent.go` | retries, client | snapshot and history to prompt, decision to store | Ollama client, store |
| Ollama client, `llm/ollama.go` | circuit breaker | ThinkWithDecision: attempts, pauses, fallback | Ollama over HTTP |
| Circuit breaker, `llm/circuit_breaker.go` | state, failures, time of the last failure | Allow, RecordSuccess, RecordFailure | Ollama client, embedder, Qdrant agent |
| Parser, `llm/parser.go` | none | text to validated decision | Ollama client |
| Alert agent, `agents/alert_agent.go` | consecutive cycles, last alerts | Analyze, Dispatch | notifier, alert file |
| Stores, `memory/state.go`, `sqlite_store.go`, `double_write_store.go` | histories, counter, `state.json`, tables | AddCycle, Add, Save, LastCycles, Last | written by the system agent; agents, orchestrator, daily report and CLI read through the DoubleWriteStore, the web server reads `State` alone (`runtime.go:138`) |
| Qdrant agent and embedder | two breakers, `collReady`, cached similar decisions | store the last decision, search | Ollama, Qdrant over HTTP, store |
| Docker and file agents | previous scan | compare with the new scan | Docker, file system |
| Notifier, daily report | time of the last report, under a mutex held while sending | Dispatch, a report a day, SendNow | webhooks, store, web server |
| Context builder, `llm/context_builder.go` | none: two windows of the store | streak, trends, correlation, forecasts | called by the system agent and a web handler |
| Event log, `memory/logger.go` | log file and its backups | Write, rotation | orchestrator, agents |
| Web server, `web/` | token buckets | views, toggle an agent, send the report | registry, orchestrator, store |
| CLI, configuration, runtime wiring | none of its own | | everything |
| Dashboard, `dashboard/lib/hooks.ts` | polled data, back-off | poll, cancel | web server |

What is hard here: each agent, the scheduler, the orchestrator's cycles and the
web handlers are goroutines; a decision is made on one observation and acted on
at a later one; the store is written in several steps and read from two places;
the model may be slow, wrong or down; and the process can end at any moment,
since a signal makes `Runtime.Start` return without waiting for the goroutines.
The list of hazards, each at its line, is in `PROJECT.json`; the properties below
are aimed at them.

What makes each component correct:

- bus: events of one publisher arrive in order and once, publishing never waits,
  no channel operation panics, leaving ends the subscription;
- breaker and client: a test is always settled, the breaker does not stay closed
  through an outage nor open after it, runs end;
- orchestrator: one cycle at a time, only what the model asked for and only while
  its reason stands, no starvation through the guard;
- alert agent: alerts exactly when the rule says so;
- stores: no hole, no half-written pair, one number per decision on both sides,
  readers of the DoubleWriteStore get the newest decision, whether or not their query
  fails, unless the store that answers never had it;
- semantic memory: a decision has its own point, both breakers let requests resume;
- scheduler: a new interval is adopted (but for one set while the loop is starting),
  observing goes on until the end, a rate is divided by the time it covers;
- event log: entries keep their order, and what rotation loses is the oldest;
- daily report: one report a day, to every notifier;
- Docker and file agents: every stop, illness and growth they can see, once;
- toggles: each takes effect and says what it did;
- prompt context: what it says of alerts and forecasts is true of the windows;
- configuration: each value from the source that has priority, and within bounds.

## 2. The modules

| module | models | extends |
|---|---|---|
| `LossyFifo` | what the bus promises one subscriber: a FIFO that may lose events | |
| `Bus` | `bus.go`, channel by channel; refines `LossyFifo` | |
| `CircuitBreaker` | the breaker as functions from record to record | |
| `OllamaClient` | ThinkWithDecision, time, shutdown, an Ollama that comes and goes | `CircuitBreaker` |
| `Decision` | the validation of an answer | |
| `Orchestrator` | orchestrator, exec guard, scheduler, the system agent's decision | `Decision` |
| `AlertAgent` | thresholds, streaks and cooldowns | |
| `Store` | JSON state, SQLite and double-write store under their one writer, crash, restart | |
| `QdrantAgent` | the semantic memory over the stores: one run, its requests, two breakers, Qdrant's collection; composes `Store` (INSTANCE, as `Memory`) | `CircuitBreaker` |
| `Scheduler` | the loop of `scheduler.go`, its ticker, the CLI's `interval`, the network rate | |
| `Logger` | `logger.go`: rotation, one system call a step, with failures and the end of the process | |
| `DailyReport` | the reporter's ticker against SendNow, the dispatcher, the wall clock, restarts | |
| `BaseAgent` | the switch and the counters every agent embeds, as functions | |
| `Watchers` | the Docker and the file agent over containers and directories that change | `BaseAgent` |
| `Web` | the agent toggle behind its token bucket, one goroutine per request | `BaseAgent` |
| `ContextBuilder` | what the prompt says of the last cycles and snapshots | |
| `Config` | `.env`, environment, flag, validation: from start to a running process or an exit | |
| `MCServices` | the last eight and `AlertAgent` side by side | all of them |
| `MC*` | the instances TLC checks | |
| `AgentsProofs` | theorems on `AlertAgent`, `Watchers` and `DailyReport` | TLAPS |
| `ServicesProofs` | theorems on `Scheduler`, `Config`, `ContextBuilder`, `Logger`, and on the parts of `MCServices` together | TLAPS |
| the other `*Proofs` | theorems and proofs of the module they are named after | TLAPS |

Operators named as mutants in a comment (`WorkerTakesLast`, `KeepOldest`...) are
plausible mistakes in the code; no specification uses them. `PROJECT.json` pairs
each property with one that makes it fail.

### Bus

A step is one critical section of `Bus.mu` or one channel operation. `Subscribe(s)`
starts the goroutine of `s`; `Publish` is `PublishBegin` (the copy under RLock)
and one `PublishSend` per subscriber of the copy; `run` is `WorkerTake`,
`WorkerForward` or `WorkerDrop`, and `WorkerStop`. `next` is the loop index.
`received`, `offered`, `accepted` and `lost` are histories. Ghosts apart, the
variables are the fields of `Bus` and `subscriber` and the locals of `Publish`.

### CircuitBreaker and OllamaClient

The breaker's clock is `age`, the time since the last failure, up to the reset
timeout. The goroutine is idle, at the top of the loop (`check`), waiting for an
answer (`think`) or in the pause (`sleep`). An attempt ends in an error, in
garbage (which records nothing by itself), or in a decision; a run ends by
success, after the last attempt, or at the top of the loop when its context has
expired. `Tick` cannot pass while the goroutine computes, nor while a healthy
Ollama owes an answer. `Ollama` makes it come and go.

### Decision and Orchestrator

An answer is the fields the validation looks at, or `Garbage`. Metrics count in
units of the 5-point margin. A goroutine `handleObserved` is `spawned` until
TryLock, then `entered`, `running` its command, `publishing` the result and
`leaving`. Reading the last decision, verifying the condition and asking the guard
is one step: what happens between them in the code is a read of the store, which
the model does at the moment of the decision. The system agent takes its
snapshot in `AgentStart` and stores a decision in `AgentDecide`, any number of
observations later. The subscription is one lossy FIFO, which is what
`ImplementsLossyFifo` shows of the bus. Each record carries, as history, the answer
and the observation it came from.

### AlertAgent

`high` is the set of metrics at or above their threshold in the snapshot the
orchestrator accepted last; the agent samples it at its own pace (`Run`), may see
one snapshot twice or skip some, and can be disabled. `samples` and `alerts` are
histories.

### Store

One system agent writes: `AddCycle`, its mirror in SQLite, `Add`, its mirror,
then `Save` as truncating (`SaveOpen`) and writing (`SaveWrite`). An insert may
fail, opening or writing the file may fail, the database may be absent for one
run of the process. `Crash` is possible before and after every step, and stands
for SIGTERM as well. It loses the memory of the process and keeps what the file
and the tables hold. A file that is missing or truncated loads as an empty state.
`decided` numbers decisions as a history, so that they can be told from
the numbers the program gives them; `born` is its value when the process started.

A read is an operator: `SecondaryLastCycles(n, answers)` is the query, nothing when it fails
(`answers` is FALSE) or there is no database, and `LastCycles(n, answers)` the
DoubleWriteStore's choice, which takes a failed query for an empty table and goes to
the primary. `NewestDecisionRead` is about that operator with every answer, hence about the agents, the
orchestrator and the daily report, who call it; the web server was given the
primary. It names the two ways in which an older decision is read: the database
answers and missed the newest, or it does not answer and the newest was made by an earlier process
that did not get it into `state.json`.

### QdrantAgent

`phase` is the request in flight: `embed` (OllamaEmbedder.Embed of the decision), `check`
and `create` (ensureCollection), `upsert`, then `embed query` and `search`. A step takes
one answer, records it in the breaker, and runs the code to the next request: `Request`
and `Query` ask the breaker of that request and, if it is open, go where the code's early
return goes. `last` is the record read when the run began, one of `Reads`: with the
database (`healthy` stands for it as well) or without. Qdrant is `exists` and `points`; a
request that gets no answer may have been carried out, also when the process is killed
during it, and `Wipe` removes the collection. A point's id is the pair of instance and
cycle number instead of their hash. The store's steps are those of `Store`; `Crash` and
`Restart` act on both parts. Which points are similar is a free choice of at most
`similarDecisionsK`.

### Scheduler

`schedPc` is where `Start` is: before the ticker is made (`new`), before the interval is
read again (`starting`), at its select, observing, returned, or dead of the panic of
`NewTicker`. A ticker is its `period`, the time until it fires (`due`) and its channel of
one tick (`tick`). `MakeTicker` and `ReadInterval` are the two readings of the interval at
the start, between which the CLI's goroutine may change it: `currentInterval` is what the
loop believes of the ticker and `period` what is so (`InStep`, or `Torn`).
`SetInterval(secs)` is the CLI's command, with the product of `secs` and `time.Second` cut
to `Width` bits; `TakeTick` compares it with `currentInterval` and replaces the ticker.
`ObserveCancelled`, `ObserveFails` and `ObserveEnds` are the ways out of
`ObserveWithContext` and what the loop does with each. The network readings are two ages,
`prevAge` of the counters and `prevAtAge` of `prevNetAt`; `rate` says over which of the
two a published rate was computed.

### Logger

`files` maps the number of a file to its entries (0 is the current one). `Write` is
`LogWrite` (lock and size test), then `LogRemove`, `LogShift` for each turn of the loop and
`LogArchive` when the file is full, then `LogAppend`; the steps whose error `rotate`
ignores take `ok`, the others have a failing twin. `LogCrash` ends the process
between any two. `spoiled` and `shiftFailed` remember which failures happened, since
the promise depends on them: a rotation that did not reach its end costs the next one
a backup, and a rename that fails silently may lose the file it should have moved.
`LogKeepsLatest` says that files and entries are in order, and, unless such a rename has
failed, that what is missing is older than all that is left and that as many full backups
are left as rotations were not spoiled.

### DailyReport

A minute is a step of the clock; the wall clock runs ahead by `skew`, which a correction
changes, while `time.Since` does not see it. A tick carries the wall minute it was sent
at, and the ticker's channel holds one (`channel`, a set of at most one); `tickTime` is
the one the loop took last. `Check` reads `recent` under the mutex and lets go of it;
`TickerBegins` and `RequestBegins` take it for the whole of `send`, which goes through the
notifiers one by one (`Dispatch`) and ends in `Sent`, which counts the cycles the store
returns, the database's or, if the query fails, the primary's. No minute passes while a
goroutine can run, and at most one during a report, as the notifiers time out after ten
seconds each. `Restart` forgets `lastSent`.

A scheduled minute may be reported twice: the wall clock shows it again after a correction,
and a process that has restarted does not remember the first report. `OncePerDay` says what
it takes: one correction across a restart, and within one process as many as a report stays
recent (`RecentMinutes`). It is stated this way because nothing in the code excludes it for
larger corrections; the instance of the run has one.

### BaseAgent and Watchers

A container is its status and whether it is unhealthy, and follows Docker's life
cycle between two runs; a run is `DockerAbsent`, `ListFails` or `DockerScan`. `told`,
`detour`, `ill` and `twice` are histories of what was reported. `FileScan(failing, hidden, large)`
is one run over all paths, some of which could not be read, some only in part.

### Web

A request passes the bucket (`Allow`), waits for its body, then `ReadEnabled`,
`SetEnabled` and `Answer`, three critical sections with time between them. A second is
`PerSecond` units and a token as many, so that the bucket gains one a unit and the
arithmetic is exact.

### ContextBuilder

The state is the two windows and the steps of `SystemAgent.Run` that fill them: a
cycle, then its snapshot. The rest are operators under the names of the functions they
translate. Averages and slopes are compared without dividing; `Rounded` is the `%.0f` of
the projection, a half to the even neighbour.

### Config

One field stands for those that are read and checked alike. `LoadLine` is a line of
`LoadEnv`, `FromEnv` the conversions (`Accepts`), `Flag` the `--dry-run` of `main`,
`Validate` the checks (`Valid`). A text is its class: empty, blank, `true`, `NaN`, another
word or URL, a URL without https.

## 3. The runs

| run | instance | shows |
|---|---|---|
| `bus` | two subscribers with different names, two publishers (2 + 1 events), buffer 1 | `PublicationsArrive`, `NoChannelPanic`, `LossNeedsFullBuffer`, `PublishNeverBlocks`, `UnsubscribeCloses`, `ImplementsLossyFifo` |
| `llm` | the code's values: 3 attempts, 3 failures, reset after 2 ticks, context of 4 ticks | `HalfOpenOnlyDuringTest`, `ClosedBelowThreshold`, `FailedRunIsRecorded`, `Recovery` |
| `orchestrator` | two goroutines, two metrics, two snapshots, five answers, cooldown 2, inbox 1 | `OneCycleAtATime`, `CycleSeesItsSnapshot`, `ResultOfLastAllowed`, `OnlyDecidedCommandsRun`, `ConditionStillHolds`, `StandingDecisionRuns` |
| `store` | history of 2, 4 decisions, 2 restarts, both answers of the database to each read | `HistoryIsLatest`, `PairedInFile`, `SameNumbers`, `NewestDecisionRead` |
| `qdrant` | 2 decisions, 1 restart, breakers that open at the first failure, one hit | `HalfOpenOnlyDuringCall`, `OnePointPerDecision`, `OnlyInheritedOverwritten`, `NewestStored`, `SearchResumes` |
| `services` | nine parts that share no state, one per behaviour (below) | `AlertsExactly`, `LogKeepsLatest`, `RateCoversItsTime`, `SchedulerObeys`, `OneReportADay`, `ChangesReported`, `TogglesTakeEffect`, `ContextConsistent`, `ConfigSound` |

Some properties are several statements about one hazard: `PublicationsArrive` is
`InOrder` and `FanOutComplete`, what Publish's use of a copy outside the lock must not
break; `Recovery` has `RunEnds` and `StandingDecisionRuns` has `LockReleased` as the
part without which the rest could not be.

Each bound lets the interesting case happen and no more. A buffer of one makes
every channel full, and three publications overflow `dispatch` before its goroutine
runs. Two goroutines are enough for one to find the mutex taken; a third would
do what the second does. The two snapshots differ by less than the margin one
way and by more the other way. The answers are a confident execute of each of two
commands, a doubtful one, a suggestion that carries a command (another spelling
of the first) and one with an unknown action. Four decisions with a history
of two trim before and after a restart, and with two restarts the database is
missing in one run and back in the next. In `qdrant` a process inherits a decision
and makes one of its own, all that a reused number takes; the breakers open at the
first failure because counting to the threshold is `llm`'s subject and every state of
a breaker is reached all the same.

In `services` a behaviour belongs to one part, chosen at the start (`part`), while
the variables of the others keep an initial value, the scheduler's that of a loop
that has stopped, so that its liveness says nothing in other parts' behaviours. The
parts have no variable in common: their steps commute, and a product of their
states would show nothing a sum does not. Its instances are:

- alert: a streak metric and a direct one, two cycles in a row, cooldown 3, six
  cycles, which hold two alerts and one that a low initial value suppresses;
- log: three backups of two entries and ten calls, which fill all four files and
  drop the oldest, with two spoiled rotations;
- scheduler: the CLI from the start, durations of four bits, in which 9 seconds overflow to a negative
  interval and 2 and 3 are proper changes; observations longer than the interval; ages up to 6;
- daily: a day of four minutes and six minutes, so that the scheduled minute comes
  twice, with two requests, one correction and one restart; the memory holds a day's
  cycles, so that a failed query counts no fewer (`daily_window` is about a memory that does not);
- docker, file: a watched container and one that is not, one directory, five runs,
  which take a container through stop, disappearance, illness and back;
- web: three requests in two and a half seconds, with a token each second;
- context: windows of four cycles and three snapshots, values at, below and near a
  threshold, slopes positive, negative and zero;
- config: every class of value in one variable and two lines of the file for it,
  since no variable is read with regard to another.

`bus`, `store` and `services` do not check for deadlock: their events, decisions or
calls are used up at the end of a behaviour, and a configured process has nothing left to do.

Fairness. `Bus`: the dispatch goroutines and a publisher in the middle of Publish run
(the Go scheduler runs what can run, and `select` picks among its ready cases
at random, so an open quit is taken); consumers and new publications are not
assumed. `OllamaClient`: its goroutine runs, time passes, requests end with their
context. `Orchestrator`: cycles run, commands end (`ExecuteCommand` has a timeout)
and time passes; observations and decisions are not assumed. `QdrantAgent`: the
registry's ticker starts runs, each request ends at its HTTP client's timeout, time
passes; the store's steps, kills and health are not assumed, so `NewestStored` and
`SearchResumes` say what follows once both services and the database stay up, no decision is being
made and the collection the agent has seen is still there (`Settled`). Were it removed
under a running agent, `collReady` would keep it from being made again until the
process restarts. `Scheduler`: its goroutine runs, `select` takes a cancelled context
that stays, an observation ends (the sampling tools have timeouts), and time passes; nothing is
assumed of the CLI or of whether observations succeed.

Six runs check a sentence of the documentation, a comment or a test against
the code, and find the code doing something else (`findings` in `PROJECT.json`
quotes each):

- `bus_doc_absorbs`: `dispatch` does not absorb the surplus of a slow consumer;
  events are dropped while it is empty, without a warning.
- `orchestrator_execute_only`: the command of a suggestion, log or alert is run.
- `exec_cooldown`: the cooldown is not per command. (`MCExecCooldown` adds the age
  of each command's last run.)
- `qdrant_collision`: a process that ends between AddCycle and Save leaves a row whose
  number the next process gives again; that process has by then stored the row under
  its own instance id, and its first decision takes the point over.
- `recent_alerts`: the alerts the prompt calls the last ones are the oldest of its
  window.
- `daily_window`: without SQLite, the default, the daily report is made of the last
  twenty cycles.

Other places where the code does something else than a reader may expect, met
while modelling; the properties above are stated so that they hold with them:

- a success that follows a failed attempt of the same run leaves the breaker open
  until its timeout (`circuit_breaker.go:92`; the comment at :94 says one success
  closes it);
- one high observation sampled twice by the alert agent raises an alert
  (`alert_agent.go:102`; `docs/USER_GUIDE.md:598` says an isolated peak does not);
- after a failed reading of the network counters the next rate is that of two
  periods over the time of one (`scheduler.go:86-90`), hence `missed` in
  `RateCoversItsTime`;
- an interval set between the two readings at the start (`scheduler.go:43`, `:46`; the CLI runs
  already, `runtime.go:194-195`) reaches `currentInterval` and not the ticker, and `newInterval !=
  currentInterval` (`:60`) is then false until another interval is set: it is never obeyed, although
  `docs/USER_GUIDE.md:411` says the command works without a restart. Hence `Torn` in `SchedulerObeys`, without
  which TLC finds that behaviour; reading the interval once would exclude it;
- a new interval counts from the next tick of the old one, and one whose product
  with a second overflows ends the process (`cli.go:138`), hence `dead`;
- reads do not delegate to the primary, contrary to the comment at `double_write_store.go:4`:
  `Last` and `LastCycles` ask the secondary first;
- after a failed insert, or when the query fails, the agents and the orchestrator may be
  given an older decision than the newest (`double_write_store.go:19`, `:41`), hence the exceptions in
  `NewestDecisionRead`;
- between `Check` and `send` a request may get its report out, and the day has two
  (`daily_report.go:69-74`), hence `OneReportADay` speaks of reports of the ticker; the
  first tick comes a minute after a start, so that a restart in the scheduled minute loses the report;
- a failed `LogArchive` deletes a backup each time it is tried again (`logger.go:108-120`);
- the alert file is appended to past the logger that would rotate it
  (`alert_agent.go:179`);
- a container that is paused, or recreated under its name, and found exited later
  is not reported (`docker_agent.go:88-108`), hence `detour` in `StopsReportedOnce`;
- a trend may be called falling while the forecast, which looks at the ends of the window
  only, announces a crossing;
- NaN as a threshold passes `validateThreshold` and never alerts (`ContextAssumption`
  leaves it out of `ContextConsistent`); a variable set to the empty string counts as one
  that is not set (`env.go:36`), so that `.env` fills it; an hour or minute
  out of range is ignored without a word; of two lines for a variable in `.env` the first
  one with a value counts.

## 4. The proofs

All are for every value of the constants under the assumptions the modules name
(`...Assumption`: positive capacities and thresholds, `Trim` maps commands to
commands, no observation is all zeros, and the like).

**BusProofs.** `TypeCorrect`; `NoChannelPanicCorrect`; `LossNeedsFullBufferCorrect`.
`NoChannelPanic` is not inductive: it needs that the list of subscribers has no
duplicates, that each of them has been started and its quit channel is still open,
that the event channel is closed exactly when the goroutine is done, and that only a
goroutine inside its select holds an event (`Lifecycle`). That a loss needs a full
buffer needs an account of events: what was accepted is what is lost, held, queued
or read (`Accounting`), so that a full channel at the drop bounds `accepted` from
below. `ImplementsLossyFifoCorrect` is the refinement: the two channels and the event in
between are one sequence (`Pipeline`), each step of the goroutine is shown to leave that
sequence alone, to append to it, to take its head or to remove one element
(`TakePipeline` to `SendPipeline`), and `RefinementStep` maps each action of `Bus` to one of
`LossyFifo` or a stutter. `PublicationsArriveCorrect` uses the same sequence, with what was
read before it (`Whole`): every step but `PublishSend` leaves a thinned copy of it
(`Thinned`), which keeps order, and an event that is appended is the youngest of its
publisher (`Stamped`) because a Publish comes to each name of its copy once (`Copies`).
`PublishIsBoundedCorrect`: a Publish has one step per subscriber of its copy and nobody gives
it more (`LoopStep`). `FewLateEventsCorrect`: what a subscriber is still handed after
Unsubscribe comes from the calls of Publish that copied the list before (`Late`), one event each.

**OllamaClientProofs.** `TypeCorrect`; `HalfOpenOnlyDuringTestCorrect`;
`ClosedBelowThresholdCorrect`; `FailedRunIsRecordedCorrect` (an action property).
The strengthening is that a pause only comes between two attempts, so that the last attempt
always records its failure; the breaker enters by lemmas on each of its functions.
`RunIsBoundedCorrect` counts the steps a call has left, `StepsLeft`, of which every step of the
loop takes at least one. `HealthyNeverTripsCorrect` is temporal, of the form `[](P /\ []Q => []P)`:
from any moment on at which the call in progress is in time (`OnTime`), as long as
the service answers, the breaker is not opened.

**OrchestratorProofs.** `TypeCorrect`, `OneCycleAtATimeCorrect`,
`CycleSeesItsSnapshotCorrect`, `ResultOfLastAllowedCorrect`,
`OnlyDecidedCommandsRunCorrect`, `ConditionStillHoldsCorrect`. Who is past TryLock
and who holds the mutex are the same goroutine (`HolderInside`); every
stored record agrees with the answer it was made from, and its triggers with the
observation (`LastGrounded`); a running job is a stored record whose condition was
verified against the snapshot of the holder (`JobGrounded`), which, by
`CycleSeesItsSnapshot`, is still `lastSnap`. `CycleIsBoundedCorrect`: the holder of the mutex
is at most four steps from releasing it, and nobody else moves it (`HolderMoves`).
`OnlyStartsBeginCooldownCorrect`: the guard's clock is reset by a start only.

**StoreProofs.** `TypeCorrect`, `HistoryIsLatestCorrect`, `PairedInFileCorrect`,
`SameNumbersCorrect`, `NewestDecisionReadCorrect`: every property of the run `store`.
`KeepLemma` says what trimming does to a list that just grew; from it follow
that numbering stays contiguous (`LatestKept`) and that two histories that are
trimmed alike stay paired (`PairedKept`). The invariant adds what holds between
AddCycle and Add, where memory has a decision without its snapshot (`HalfPaired`),
that ids and counters stay behind `decided`, and that a record in memory or in the
file may be mirrored without contradicting a row (`Agreement`). A read with the database finds
the newest row, which is the newest decision unless its insert failed (`NewestRow`); one without finds
the newest of memory, which is the newest decision if this process made it (`NewestInMemory`), since
`born` separates its decisions from those it inherited.

**QdrantAgentProofs.** `TypeCorrect`, `HalfOpenOnlyDuringCallCorrect`,
`OnePointPerDecisionCorrect`, `OnlyInheritedOverwrittenCorrect` (an action property). The
agent only reads the stores, so that a behaviour of `QdrantAgent` is one of `Store`
(`StoreSpec`) and the theorems of `StoreProofs` hold in it. `RunOK` adds to the half-open
breaker that a run holds a decision until its first half is over. One point per decision
needs a statement about every copy of a record, in memory, in the database, in
`state.json`, in the run and in Qdrant: one function gives all of them their numbers
(`Numbered`), since ids are never used twice. That an upsert replaces another decision's
point only when a former process made one of the two needs no more than the order of
numbers within a process: of two decisions it made, wherever their copies are, the later
one has the greater number (`OwnInOrder`). It holds whichever store a run reads, and so
does not depend on the database's answers. `NewestStaysCorrect` is temporal: while
`Settled` the stores do not change (the writer stays idle) and reads get their answer, so
that a run reads the newest decision and its upsert replaces that point by itself; it asks
that no run under way had read another one. `RunIsBoundedCorrect` ranks the requests of a
run (`RequestsLeft`). `ServingNeverTripsCorrect` rests on `Seen` (only a run that knows of
the collection upserts or searches): while the services answer, no step records a failure
(`ServingStep`).

**AgentsProofs.** `AlertTypeCorrect`, `AlertsExactlyCorrect`: the counter of a metric
is the length of the longest run of high samples that ends now (`CountsLastRun`),
and `LastAlert` is the greatest element of `alerts` or the initial value
(`RemembersLastAlert`). `WatchTypeCorrect`, `ChangesReportedCorrect`: counters stay typed
because errors and alerts are at most the runs (`CountersBounded`); `DockerInv` says that
what is remembered of a container agrees with what was reported, with a detour through
another state and with its illness, `FileInv` the same of the sizes that were measured.
`OneReportADayCorrect`: a wall minute that was shown can come back only through
corrections (`WallTimes`), `lastSent` is when this process sent its last report
(`LastSentIsLast`), and a tick in the channel, or one that `Start` is looking at, either was not
reported before or the clock was set back since, far enough that the report is no longer
recent when `Check` asks (`Pending`, `FreshTick`). Each scheduled minute that was seen has a report or
is still ahead of the loop (`Serving`), and what was tried with what is left to
try are all notifiers, in order (`DispatchInOrder`).

**WebProofs.** `WebTypeCorrect`, `WindowBoundCorrect`, `TogglesTakeEffectCorrect`. The
bucket is an account: what was spent since any moment, with the tokens left, is at most the
capacity and what was gained since (`Balance`), which bounds every window
(`WindowBound`). With `Burst` = 1, as `server.go:200` sets it, two passes are a
second apart (`OneInHandler`); a handler that is through within a second is alone
(`Prompt`), and the switch has the parity of the toggles answered (`Parity`).

**ServicesProofs.**
- `RateCoversItsTimeCorrect`: both ages are renewed together unless the counters could not
  be read (`SchedInv`). `CancelEndsLoopCorrect`: after the cancellation the loop has at
  most four steps left, three once it runs (`ToStop`). `StaysInStepCorrect`, the action
  property in `SchedulerObeys`: the loop's `currentInterval`, once its ticker's period,
  stays so. That the width of a Duration is a power of two greater than zero is
  `PowerLemma`: there are as many numbers of n bits as subsets of n elements.
- `ConfigSoundCorrect`: while `LoadEnv` reads, the environment holds for each field what
  it was started with, or nothing and no line before `next` has a value, or the first line
  that has one (`Loading`); at the end that is `Source` (`LoadedSource`).
- `ContextConsistentCorrect`: `quiet` is the distance to the last alert of the window
  (`QuietMatches`), the windows slide by one (`WindowLemma`), and rounding moves a
  projection by less than one cycle (`RoundLemma`), so that a forecast of a crossing is one
  and a crossing within reach is forecast. Minima and maxima of sets of numbers come from
  `LeastElement`.
- `LogKeepsLatestCorrect`: order is kept by any renaming that keeps the order of the files
  (`OrderKept`), and what is left is a suffix as long as a step loses the last file only
  (`SuffixKept`). How much is left is a count of the free numbers (`Holes`) below each
  backup, and below the number after the last once something was lost: there is at most one for
  each spoiled rotation, and one more for the gap a rotation in progress pushes down in front of it
  (`FewHoles`, `Slack`, `GapAhead`); backups are full (`FullBackups`), so that
  the entries left are counted by an injection (`EntriesOfFullFiles`).
- `ServicesTypeOKCorrect`, `ServicesSafe`: the invariants of all nine parts hold together in
  `MCServices`, each step being one of every part or leaving it alone (`EachPartSteps`), so that
  every safety property of the run `services` holds for all constants.

Every safety invariant and every action property a passing run checks is thereby a theorem.
Only model-checked is liveness: `PublishNeverBlocks`, `UnsubscribeCloses`, `Recovery`,
`StandingDecisionRuns`, `NewestStored`, `SearchResumes` and `SchedulerObeys` depend on
fairness, whose ENABLED the prover does not reason about. Of each, the part that does not
depend on it is proved: that the steps left are bounded and only decrease, and that what was
reached is not lost again. What TLC alone shows is that the next step is taken.

| Liveness property | What of it is proved for every value of the constants |
|---|---|
| `PublishNeverBlocks` | `PublishIsBoundedCorrect` |
| `UnsubscribeCloses` | `FewLateEventsCorrect` (what keeps the goroutine busy runs out) |
| `Recovery` | `RunIsBoundedCorrect`, `HealthyNeverTripsCorrect` |
| `StandingDecisionRuns` | `CycleIsBoundedCorrect`, `OnlyStartsBeginCooldownCorrect` |
| `NewestStored`, `SearchResumes` | `RunIsBoundedCorrect`, `ServingNeverTripsCorrect`, `NewestStaysCorrect` |
| `SchedulerObeys` | `StaysInStepCorrect` (its second conjunct), `CancelEndsLoopCorrect` (for its third) |

The library's induction rules take an operator as a parameter, which the provers at hand
cannot instantiate. Where a proof needs induction over numbers it argues by a least
counterexample instead (`LeastElement`, from the well-foundedness of the naturals); the
definitions that are proved about use no folds, and no theorem depends on the value of a
sum over a window (`SumOf`).

## 5. What is not modelled

The text of prompts, reports and logs, the JSON extraction inside an answer, HTTP
and SQL themselves, and the readings of the operating system are data, taken as
nondeterministic outcomes where a decision depends on them. A power loss (data
written but not yet on disk) is not modelled: `Crash` ends the process, not the
machine. The health check is one request whose result is displayed, console
logging is output, and the dashboard is a client of the web server: none keeps state
the runtime depends on. The web handlers other than the toggle and the report are views of
state modelled elsewhere; authentication, origins and static files guard them
without state that changes. The notes in `PROJECT.json` name what the components
that are partly modelled leave out.

## 6. Plan

Done, in this order: bus, breaker and client, orchestrator, alert agent, stores, the
Qdrant agent over the stores, then scheduler, event log, daily report, watchers, web,
context builder and configuration, with the proofs of section 4. What is left:

1. Composition: the orchestrator on the bus in place of its FIFO; the system agent's
   run across client and store.
2. The registry: tickers, panics it recovers from, agents added late.
