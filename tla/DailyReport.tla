---------------------------- MODULE DailyReport -----------------------------
(***************************************************************************)
(* agents/daily_report.go and the dispatcher of agents/notifier.go: a      *)
(* report a day from a one-minute ticker, and reports on demand from the   *)
(* web handler, one goroutine each.                                        *)
(*                                                                         *)
(* Time counts in minutes since the start of the model.  The wall clock is *)
(* ahead of it by skew, which a correction of the clock changes;           *)
(* time.Since uses the monotonic reading.  The process may end and start   *)
(* again: nothing of the reporter is persisted.                            *)
(***************************************************************************)
EXTENDS Integers, Sequences

CONSTANTS
  Scheduled,       \* DailyReportHour and DailyReportMinute, as a minute of the day
  Day,             \* minutes in a day
  RecentMinutes,   \* a report younger than this is recent: 2
  Notifiers,       \* sequence of the registered notifiers
  ReportLimit,     \* cycles buildReport asks for: 5760
  HistoryLimit,    \* cycles memory.State keeps: maxHistory
  CyclesPerMinute, \* decisions stored in a minute
  WithSQLite,      \* reads go to SQLite, which keeps every cycle
  DailyMinutes,    \* bound: minutes of the model
  Requests,        \* bound: POST /api/daily-report/send
  Corrections,     \* bound: corrections of the clock, of one minute
  DailyRestarts    \* bound: restarts of the process

ASSUME ScheduleAssumption == Day \in Nat \ {0} /\ Scheduled \in 0 .. Day - 1
ASSUME RecentAssumption == RecentMinutes \in 1 .. Day - 1
ASSUME NotifiersAssumption == Notifiers \in Seq(STRING)
ASSUME CyclesAssumption ==
  {ReportLimit, HistoryLimit, CyclesPerMinute} \subseteq Nat /\ WithSQLite \in BOOLEAN
ASSUME DailyBoundsAssumption == {DailyMinutes, Requests, Corrections, DailyRestarts} \subseteq Nat

VARIABLES
  now,             \* minutes passed
  skew,            \* minutes the wall clock is ahead
  channel,         \* ticker.C: the wall minutes of its ticks, one at most
  dailyPc,         \* Start: wait, check, send
  tickTime,        \* Start's t: the wall minute of the tick it has received
  waiting,         \* goroutines of SendNow that wait for the mutex
  holder,          \* who is inside send: nobody, ticker, request
  began,           \* when it got the mutex
  todo,            \* notifiers Dispatch has not come to yet
  lastSent,        \* DailyReporter.lastSent, or Never
  requested,       \* requests so far
  corrected,       \* corrections so far
  restarted,       \* restarts so far
  fired,           \* history: when a tick of the scheduled minute fired, in this process
  tried,           \* history: notifiers tried by the report being sent
  reports          \* history: the reports sent

dailyClock == <<now, skew, channel, corrected>>
send == <<waiting, holder, began, todo, lastSent, tried, reports>>
DailyVars == <<dailyClock, dailyPc, tickTime, send, requested, restarted, fired>>

Never == -1 - RecentMinutes
Nobody == "nobody"

\* The hour and the minute of a wall time.
IsScheduled(wall) == wall % Day = Scheduled

DailyInit ==
  /\ now = 0 /\ skew = 0 /\ channel = {} /\ corrected = 0
  /\ dailyPc = "wait" /\ tickTime = 0
  /\ waiting = 0 /\ holder = Nobody /\ began = 0 /\ todo = << >>
  /\ lastSent = Never /\ tried = << >> /\ reports = << >>
  /\ requested = 0 /\ restarted = 0
  /\ fired = {}

-----------------------------------------------------------------------------
(* The clock                                                               *)

\* A minute passes and the ticker fires; a tick that finds the channel full is
\* dropped.  No minute passes while a goroutine can run, and as the notifiers
\* time out after ten seconds each no more than one during a report.
Minute ==
  /\ now < DailyMinutes
  /\ IF holder # Nobody
       THEN began = now /\ todo # << >>
       ELSE waiting = 0 /\ dailyPc = "wait"
  /\ dailyPc = "wait" => channel = {}
  /\ now' = now + 1
  /\ channel' = IF channel = {} THEN {now + 1 + skew} ELSE channel
  /\ fired' = IF channel = {} /\ IsScheduled(now + 1 + skew)
                THEN fired \union {now + 1} ELSE fired
  /\ UNCHANGED <<skew, corrected, dailyPc, tickTime, send, requested, restarted>>

\* The wall clock is set a minute forward or back.
Correct(d) ==
  /\ corrected < Corrections
  /\ skew' = skew + d
  /\ corrected' = corrected + 1
  /\ UNCHANGED <<now, channel, dailyPc, tickTime, send, requested, restarted, fired>>

-----------------------------------------------------------------------------
(* Start                                                                   *)

DailyTick ==
  /\ dailyPc = "wait" /\ channel # {}
  /\ tickTime' \in channel
  /\ dailyPc' = IF IsScheduled(tickTime') THEN "check" ELSE "wait"
  /\ channel' = {}
  /\ UNCHANGED <<now, skew, corrected, send, requested, restarted, fired>>

\* Mutant: lastSent is not looked at.
NotRecent == FALSE
Recent == now - lastSent < RecentMinutes

\* lastSent is read under the mutex, which is then released.
Check ==
  /\ dailyPc = "check" /\ holder = Nobody
  /\ dailyPc' = IF Recent THEN "wait" ELSE "send"
  /\ UNCHANGED <<dailyClock, tickTime, send, requested, restarted, fired>>

-----------------------------------------------------------------------------
(* send                                                                    *)

\* buildReport: LastCycles(5760) of the store, all cycles if SQLite answers, those
\* memory.State has kept otherwise.
Stored(t) == CyclesPerMinute * t
Least(a, b) == IF a < b THEN a ELSE b
Counted(t, answers) ==
  Least(ReportLimit, IF WithSQLite /\ answers THEN Stored(t) ELSE Least(HistoryLimit, Stored(t)))

\* send gets the mutex and builds the report.
Begin(who) ==
  /\ holder = Nobody
  /\ holder' = who /\ began' = now
  /\ todo' = Notifiers /\ tried' = << >>
  /\ UNCHANGED <<lastSent, reports>>

TickerBegins ==
  /\ dailyPc = "send"
  /\ Begin("ticker")
  /\ UNCHANGED <<dailyClock, dailyPc, tickTime, waiting, requested, restarted, fired>>

RequestBegins ==
  /\ waiting > 0
  /\ waiting' = waiting - 1
  /\ Begin("request")
  /\ UNCHANGED <<dailyClock, dailyPc, tickTime, requested, restarted, fired>>

\* Mutant: an error ends Dispatch.
DispatchUntilError(ok) ==
  /\ holder # Nobody /\ todo # << >>
  /\ todo' = IF ok THEN Tail(todo) ELSE << >>
  /\ tried' = Append(tried, Head(todo))
  /\ UNCHANGED <<dailyClock, dailyPc, tickTime, waiting, holder, began, lastSent,
                 reports, requested, restarted, fired>>

\* Dispatch: the next notifier succeeds or fails; a failure is logged.
Dispatch(ok) ==
  /\ holder # Nobody /\ todo # << >>
  /\ todo' = Tail(todo)
  /\ tried' = Append(tried, Head(todo))
  /\ UNCHANGED <<dailyClock, dailyPc, tickTime, waiting, holder, began, lastSent,
                 reports, requested, restarted, fired>>

\* lastSent is set and the mutex released.
Sent ==
  /\ holder # Nobody /\ todo = << >>
  /\ lastSent' = now
  /\ \E answers \in BOOLEAN :
       reports' = Append(reports, [by |-> holder, at |-> now, minute |-> tickTime,
                                   tried |-> tried, process |-> restarted,
                                   stored |-> Stored(began), cycles |-> Counted(began, answers)])
  /\ dailyPc' = IF holder = "ticker" THEN "wait" ELSE dailyPc
  /\ holder' = Nobody /\ tried' = << >>
  /\ UNCHANGED <<dailyClock, tickTime, waiting, began, todo, requested, restarted, fired>>

\* handleDailyReportSend starts a goroutine that calls SendNow.
SendNow ==
  /\ requested < Requests
  /\ requested' = requested + 1
  /\ waiting' = waiting + 1
  /\ UNCHANGED <<dailyClock, dailyPc, tickTime, holder, began, todo, lastSent, tried,
                 reports, restarted, fired>>

\* The process ends and another one starts; its first tick is a minute away.
Restart ==
  /\ restarted < DailyRestarts
  /\ restarted' = restarted + 1
  /\ channel' = {}
  /\ dailyPc' = "wait"
  /\ waiting' = 0 /\ holder' = Nobody /\ todo' = << >> /\ tried' = << >>
  /\ lastSent' = Never
  /\ fired' = {}
  /\ UNCHANGED <<now, skew, corrected, tickTime, began, reports, requested>>

DailyNext ==
  \/ Minute \/ Correct(1) \/ Correct(-1)
  \/ DailyTick \/ Check
  \/ TickerBegins \/ RequestBegins
  \/ \E ok \in BOOLEAN : Dispatch(ok)
  \/ Sent
  \/ SendNow \/ Restart

DailySpec == DailyInit /\ [][DailyNext]_DailyVars

-----------------------------------------------------------------------------
(* Properties                                                              *)

\* The wall times there can be.
Walls == -Corrections .. DailyMinutes + Corrections

Reports ==
  [by : {"ticker", "request"}, at : 0 .. DailyMinutes, minute : Walls, tried : Seq(STRING),
   process : 0 .. DailyRestarts, stored : Nat, cycles : Nat]

DailyTypeOK ==
  /\ now \in 0 .. DailyMinutes
  /\ skew \in -Corrections .. Corrections
  /\ channel = {} \/ \E w \in Walls : channel = {w}
  /\ dailyPc \in {"wait", "check", "send"}
  /\ tickTime \in Walls
  /\ waiting \in 0 .. Requests
  /\ holder \in {Nobody, "ticker", "request"}
  /\ began \in 0 .. DailyMinutes
  /\ todo \in Seq(STRING) /\ tried \in Seq(STRING)
  /\ lastSent \in {Never} \union 0 .. DailyMinutes
  /\ requested \in 0 .. Requests /\ corrected \in 0 .. Corrections
  /\ restarted \in 0 .. DailyRestarts
  /\ fired \subseteq 1 .. DailyMinutes
  /\ reports \in Seq(Reports)

\* Two reports of the ticker for one scheduled minute of the wall clock need a clock
\* that was set back in between: for a process that forgot the first report by a
\* minute, for the same one by as much as a report stays recent.
OncePerDay ==
  \A i, j \in DOMAIN reports :
    (i < j /\ reports[i].by = "ticker" /\ reports[j].by = "ticker"
       /\ reports[i].minute = reports[j].minute)
    => corrected >= IF reports[i].process = reports[j].process THEN RecentMinutes ELSE 1

\* Once the goroutine is back at its select, every scheduled minute it saw has
\* a report, sent then or at most two minutes before.
EveryDayServed ==
  (dailyPc = "wait" /\ channel = {}) =>
    \A t \in fired : \E i \in DOMAIN reports : reports[i].at > t - RecentMinutes

\* No notifier is left out of a report, whichever of the others fail.
EveryNotifierTried == \A i \in DOMAIN reports : reports[i].tried = Notifiers

\* A day's scheduled minute leads to one report, not two and not none, whenever
\* requests, corrections of the clock and restarts come, and it goes to every
\* notifier.
OneReportADay == OncePerDay /\ EveryDayServed /\ EveryNotifierTried

\* daily_report.go:108 takes the cycles it asks for to be those of 24 hours at one
\* every 15 seconds: a report covers the cycles of the last day.
ReportCoversDay ==
  \A i \in DOMAIN reports :
    reports[i].cycles >= Least(reports[i].stored, CyclesPerMinute * Day)
=============================================================================
