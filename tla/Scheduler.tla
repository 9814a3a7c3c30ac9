----------------------------- MODULE Scheduler ------------------------------
(***************************************************************************)
(* core/scheduler.go: one observation per tick, an interval the CLI        *)
(* changes from its own goroutine, and the network rate computed from two  *)
(* readings of the counters.  core/cli.go: the command that changes it.    *)
(*                                                                         *)
(* A ticker is its period, the time until it fires and its channel, which  *)
(* holds one tick.  Times that grow are kept as distances from the present *)
(* and stop counting at MaxAge.  What is published goes to the bus (module *)
(* Bus); here only the rate in a snapshot matters.                         *)
(***************************************************************************)
EXTENDS Integers

CONSTANTS
  Seconds,        \* arguments of the CLI command interval
  MinSeconds,     \* smallest accepted: 5
  Second,         \* time.Second, in units of time
  Width,          \* bits of a time.Duration: 64
  FirstInterval,  \* config.Interval
  MaxObserve,     \* longest observation, in units of time
  MaxAge          \* bound: a distance from the present stops counting here

ASSUME SecondsAssumption == Seconds \subseteq Int
ASSUME WidthAssumption == Width \in Nat \ {0}
ASSUME FirstIntervalAssumption == FirstInterval \in Nat \ {0}
ASSUME SchedulerBoundsAssumption ==
  MinSeconds \in Nat /\ Second \in Nat \ {0} /\ MaxObserve \in Nat \ {0} /\ MaxAge \in Nat \ {0}

VARIABLES
  interval,       \* Scheduler.interval
  currentInterval,  \* 0 before it is read
  period,         \* of the ticker, 0 before there is one
  due,            \* time until the ticker fires
  tick,           \* ticker.C holds a tick
  cancelled,      \* ctx is done
  schedPc,        \* Start: new, starting (there is a ticker), select, observing,
                  \* stopped (returned), dead (NewTicker panicked)
  observed,       \* time since the observation began
  hasNet,         \* hasNet
  prevAge,        \* time since prevNet was read
  prevAtAge,      \* time since prevNetAt
  unread,         \* history: the counters could not be read since prevNet was
  rate            \* the rate in the last snapshot: NoRate, Reset or over which time it is

net == <<hasNet, prevAge, prevAtAge, unread, rate>>
ticker == <<period, due, tick>>
SchedVars == <<interval, currentInterval, ticker, cancelled, schedPc, observed, net>>

NoRate == [kind |-> "none"]
Reset == [kind |-> "reset"]
Over(elapsed, covered, missed) ==
  [kind |-> "rate", elapsed |-> elapsed, covered |-> covered, missed |-> missed]

\* time.Duration(secs) * time.Second: a signed product of Width bits.
Duration(secs) ==
  LET p == (secs * Second) % 2 ^ Width
  IN  IF p >= 2 ^ (Width - 1) THEN p - 2 ^ Width ELSE p

\* go r.scheduler.Start(ctx), with the CLI about to run as well.
SchedInit ==
  /\ interval = FirstInterval /\ currentInterval = 0
  /\ period = 0 /\ due = 0 /\ tick = FALSE
  /\ cancelled = FALSE
  /\ schedPc = "new" /\ observed = 0
  /\ hasNet = FALSE
  /\ prevAge = 0 /\ prevAtAge = 0
  /\ unread = FALSE /\ rate = NoRate

-----------------------------------------------------------------------------
(* The CLI and the end of the process                                      *)

\* cmdInterval and SetInterval.
SetInterval(secs) ==
  /\ schedPc # "dead"
  /\ secs >= MinSeconds
  /\ interval' = Duration(secs)
  /\ UNCHANGED <<currentInterval, ticker, cancelled, schedPc, observed, net>>

Cancel ==
  /\ ~ cancelled
  /\ cancelled' = TRUE
  /\ UNCHANGED <<interval, currentInterval, ticker, schedPc, observed, net>>

-----------------------------------------------------------------------------
(* Start                                                                   *)

\* time.NewTicker(s.getInterval()), which panics unless the interval is positive.
MakeTicker ==
  /\ schedPc = "new"
  /\ IF interval > 0
       THEN period' = interval /\ due' = interval /\ schedPc' = "starting"
       ELSE UNCHANGED <<period, due>> /\ schedPc' = "dead"
  /\ UNCHANGED <<interval, currentInterval, tick, cancelled, observed, net>>

\* The interval is read a second time, then the network's counters.
ReadInterval ==
  /\ schedPc = "starting"
  /\ currentInterval' = interval
  /\ hasNet' \in BOOLEAN /\ prevAge' = 0 /\ prevAtAge' = 0
  /\ schedPc' = "select"
  /\ UNCHANGED <<interval, ticker, cancelled, observed, unread, rate>>

\* case <-ctx.Done(); select picks any ready case.
Stop ==
  /\ schedPc = "select"
  /\ cancelled
  /\ schedPc' = "stopped"
  /\ UNCHANGED <<interval, currentInterval, ticker, cancelled, observed, net>>

\* Mutant: the new interval is remembered but the ticker is not replaced.
TakeTickOfOldTicker ==
  /\ schedPc = "select" /\ tick
  /\ tick' = FALSE
  /\ currentInterval' = interval
  /\ schedPc' = "observing" /\ observed' = 0
  /\ UNCHANGED <<interval, period, due, cancelled, net>>

\* case <-ticker.C: a changed interval replaces the ticker, which panics when
\* the interval is not positive; the observation begins.
TakeTick ==
  /\ schedPc = "select" /\ tick
  /\ tick' = FALSE
  /\ IF interval = currentInterval
       THEN UNCHANGED <<currentInterval, period, due>> /\ schedPc' = "observing"
       ELSE IF interval > 0
              THEN /\ period' = interval /\ due' = interval
                   /\ currentInterval' = interval
                   /\ schedPc' = "observing"
              ELSE UNCHANGED <<currentInterval, period, due>> /\ schedPc' = "dead"
  /\ observed' = 0
  /\ UNCHANGED <<interval, cancelled, net>>

\* ObserveWithContext returns because the context is done, or with an error
\* after which ctx.Err() is not nil.
ObserveCancelled ==
  /\ schedPc = "observing" /\ cancelled
  /\ schedPc' = "stopped"
  /\ UNCHANGED <<interval, currentInterval, ticker, cancelled, observed, net>>

\* An error is published, and the readings of the network stay as they are.
ObserveFails ==
  /\ schedPc = "observing" /\ ~ cancelled
  /\ schedPc' = "select"
  /\ UNCHANGED <<interval, currentInterval, ticker, cancelled, observed, net>>

\* DeltaMBps: no rate over no time or over counters that went back.
DeltaMBps(wrapped) ==
  IF prevAtAge <= 0 \/ wrapped THEN Reset ELSE Over(prevAtAge, prevAge, unread)

\* Mutant: the time of the reading is not renewed.
ReadCountersKeepingTime(ok, wrapped) ==
  /\ rate' = IF ok /\ hasNet THEN DeltaMBps(wrapped) ELSE NoRate
  /\ IF ok THEN hasNet' = TRUE /\ prevAge' = 0 /\ unread' = FALSE
           ELSE UNCHANGED <<hasNet, prevAge>> /\ unread' = TRUE
  /\ UNCHANGED prevAtAge

\* The second reading: prevNet is kept when it fails, prevNetAt is renewed.
ReadCounters(ok, wrapped) ==
  /\ rate' = IF ok /\ hasNet THEN DeltaMBps(wrapped) ELSE NoRate
  /\ IF ok THEN hasNet' = TRUE /\ prevAge' = 0 /\ unread' = FALSE
           ELSE UNCHANGED <<hasNet, prevAge>> /\ unread' = TRUE
  /\ prevAtAge' = 0

\* The observation succeeds and is published.  Sampling the processor takes time,
\* so that a context that is done when the observation begins is always seen; one
\* that ends later may be seen only by the next select.
ObserveEnds(ok, wrapped) ==
  /\ schedPc = "observing" /\ observed > 0
  /\ ReadCounters(ok, wrapped)
  /\ schedPc' = "select"
  /\ UNCHANGED <<interval, currentInterval, ticker, cancelled, observed>>

-----------------------------------------------------------------------------
(* Time                                                                    *)

Older(age) == IF age < MaxAge THEN age + 1 ELSE age

\* Time passes while the goroutine waits or observes; the rest of it takes none.
\* A tick that finds the channel full is dropped.
SchedTime ==
  /\ \/ schedPc = "select" /\ ~ tick /\ ~ cancelled
     \/ schedPc = "observing" /\ observed < MaxObserve /\ (cancelled => observed > 0)
  /\ IF due = 1 THEN due' = period /\ tick' = TRUE
                ELSE due' = due - 1 /\ UNCHANGED tick
  /\ observed' = IF schedPc = "observing" THEN observed + 1 ELSE 0
  /\ prevAge' = Older(prevAge) /\ prevAtAge' = Older(prevAtAge)
  /\ UNCHANGED <<interval, currentInterval, period, cancelled, schedPc, hasNet, unread, rate>>

Start ==
  \/ MakeTicker \/ ReadInterval
  \/ Stop \/ TakeTick
  \/ ObserveCancelled \/ ObserveFails
  \/ \E ok, wrapped \in BOOLEAN : ObserveEnds(ok, wrapped)

SchedNext ==
  \/ \E secs \in Seconds : SetInterval(secs)
  \/ Cancel \/ Start \/ SchedTime

\* The goroutine runs, observations end (cpu.Percent samples for a second, the
\* other readings do not wait) and time passes.
SchedFairness == WF_SchedVars(Start) /\ WF_SchedVars(SchedTime)

SchedSpec == SchedInit /\ [][SchedNext]_SchedVars /\ SchedFairness

-----------------------------------------------------------------------------
(* Properties                                                              *)

SchedTypeOK ==
  /\ interval \in Int
  /\ currentInterval \in Int
  /\ period \in Nat /\ due \in 0 .. period
  /\ schedPc \notin {"new", "dead"} => due > 0
  /\ tick \in BOOLEAN /\ cancelled \in BOOLEAN /\ hasNet \in BOOLEAN /\ unread \in BOOLEAN
  /\ schedPc \in {"new", "starting", "select", "observing", "stopped", "dead"}
  /\ observed \in 0 .. MaxObserve
  /\ prevAge \in 0 .. MaxAge /\ prevAtAge \in 0 .. MaxAge
  /\ rate.kind \in {"none", "reset", "rate"}

\* A published rate is computed over the time its two readings are apart,
\* unless a reading failed in between: then prevNetAt was renewed and prevNet
\* was not.
RateCoversItsTime ==
  rate.kind = "rate" => rate.missed \/ rate.elapsed = rate.covered

Adopted(d) == period = d \/ interval # d \/ schedPc = "stopped"

\* The ticker has another period than the loop believes: SetInterval came
\* between the two readings of the interval at the start.
Torn(d) == currentInterval = d /\ period # d

\* The loop is running, and what it believes of its ticker is so.
InStep == schedPc \in {"select", "observing"} /\ period = currentInterval

\* A tick that finds a new interval brings period and belief together.
StaysInStep ==
  [][InStep \/ (TakeTick /\ interval # currentInterval /\ schedPc' = "observing") =>
       period' = currentInterval']_SchedVars

\* docs/USER_GUIDE.md:411 says that the interval changes "à chaud, sans redémarrer
\* JARVINx".  A new interval that stays is adopted by the ticker, but for one that
\* slips between the two readings at the start and never is; that can happen no more
\* once the loop is in step, and the next different interval ends it.  The loop ends once the
\* context is done, and until then it goes on observing, whatever the CLI sends
\* and whatever fails.  It may also die of an interval that does not fit a
\* Duration.
SchedulerObeys ==
  /\ \A d \in {Duration(secs) : secs \in Seconds} :
       d > 0 => (interval = d) ~> (Adopted(d) \/ Torn(d))
  /\ StaysInStep
  /\ cancelled ~> schedPc \in {"stopped", "dead"}
  /\ []<>(schedPc \in {"observing", "stopped", "dead"})
=============================================================================
