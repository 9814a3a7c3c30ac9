--------------------------- MODULE ContextBuilder ---------------------------
(***************************************************************************)
(* llm/context_builder.go: what the system prompt, and the page            *)
(* /api/llm-context, say of the last cycles and snapshots, over the two    *)
(* sliding windows that SystemAgent.Run fills.                             *)
(*                                                                         *)
(* The agent adds the cycle, then the snapshot, each under State.mu: a     *)
(* reader in between has one cycle more.  Percentages are whole numbers,   *)
(* and their averages and slopes are compared without dividing.  The disk, *)
(* the third metric, is treated as the two others are.                     *)
(***************************************************************************)
EXTENDS Integers, Sequences, FiniteSetsExt

CONSTANTS
  CycleWindow,     \* LastCycles(20)
  SnapWindow,      \* Last(10)
  RecentLimit,     \* alerts kept in RecentAlerts: 3
  Actions,         \* actions of decisions; "alert" is one
  CpuValues, RamValues,        \* percentages a snapshot may hold
  CpuThreshold, RamThreshold   \* configured thresholds

ASSUME ContextAssumption ==
  /\ CycleWindow \in Nat \ {0} /\ SnapWindow \in Nat \ {0} /\ RecentLimit \in Nat \ {0}
  /\ CpuValues \union RamValues \subseteq 0 .. 100
  /\ {CpuThreshold, RamThreshold} \subseteq 1 .. 100
  /\ "alert" \in Actions

VARIABLES
  cycles,          \* State.Cycles: the action of each, oldest first
  snaps,           \* State.History: oldest first
  adding,          \* the snapshot of the cycle that was added, until it is added too
  quiet            \* history: cycles since the last alert, or since the start

ContextVars == <<cycles, snaps, adding, quiet>>

Snapshots == [cpu : CpuValues, ram : RamValues]
NoSnapshot == [cpu |-> -1, ram |-> -1]

ContextInit == cycles = <<>> /\ snaps = <<>> /\ adding = NoSnapshot /\ quiet = 0

Window(s, n) == SubSeq(s, Max({1, Len(s) - n + 1}), Len(s))

\* The model has decided on s; which action, is its own affair.
AddCycle(s, a) ==
  /\ adding = NoSnapshot
  /\ cycles' = Window(Append(cycles, a), CycleWindow)
  /\ adding' = s
  /\ quiet' = IF a = "alert" THEN 0 ELSE Min({quiet + 1, CycleWindow + 1})
  /\ UNCHANGED snaps

AddSnapshot ==
  /\ adding # NoSnapshot
  /\ snaps' = Window(Append(snaps, adding), SnapWindow)
  /\ adding' = NoSnapshot
  /\ UNCHANGED <<cycles, quiet>>

ContextNext == AddSnapshot \/ \E s \in Snapshots, a \in Actions : AddCycle(s, a)

ContextSpec == ContextInit /\ [][ContextNext]_ContextVars

-----------------------------------------------------------------------------
(* What is said of the cycles                                              *)

IsAlert(i) == cycles[i] = "alert"
AlertCycles == {i \in DOMAIN cycles : IsAlert(i)}
Occurrences(a) == Cardinality({i \in DOMAIN cycles : cycles[i] = a})

\* The map is walked in any order: of equals, any may be the first.
dominantKey ==
  {a \in Actions : Occurrences(a) > 0 /\ \A b \in Actions : Occurrences(b) <= Occurrences(a)}

\* From the oldest cycle on, up to the limit; a cycle stands for its analysis.
RecentAlerts ==
  {i \in AlertCycles : Cardinality({j \in AlertCycles : j < i}) < RecentLimit}

\* Mutant: counts from the oldest cycle.
StreakFromOldest == Min(AlertCycles \union {Len(cycles) + 1}) - 1
stableStreak == Len(cycles) - Max(AlertCycles \union {0})

-----------------------------------------------------------------------------
(* What is said of the snapshots                                           *)

Thresholds == [cpu |-> CpuThreshold, ram |-> RamThreshold]
Enough == Len(snaps) >= 3
Current(m) == snaps[Len(snaps)][m]
SumOf(m, from, to) == MapThenSumSet(LAMBDA i : snaps[i][m], from .. to)

\* Compares the average of the second half with the average of the first: the
\* difference, times the number of snapshots in each.
trendWithThreshold(m) ==
  LET n == Len(snaps)
      half == n \div 2
      diff == half * SumOf(m, half + 1, n) - (n - half) * SumOf(m, 1, half)
      ten == 10 * half * (n - half)
  IN  CASE ~ Enough -> ""
        [] Enough /\ Current(m) >= Thresholds[m] -> "critical"
        [] Enough /\ Current(m) < Thresholds[m] /\ 100 * Current(m) >= 85 * Thresholds[m] -> "high"
        [] OTHER -> IF diff > ten THEN "rising" ELSE IF diff < -ten THEN "falling" ELSE "stable"

\* The slope, times the number of steps between the snapshots.
Rise(m) == Current(m) - snaps[1][m]
Steps == Len(snaps) - 1

IsRising(m) == Rise(m) > 2 * Steps

computeCorrelation ==
  IF ~ Enough THEN ""
  ELSE IF IsRising("ram") /\ ~ IsRising("cpu") THEN "leak"
  ELSE IF IsRising("cpu") /\ ~ IsRising("ram") THEN "surge"
  ELSE IF IsRising("cpu") THEN "overload"
  ELSE ""

\* %.0f rounds to the nearest, and a half to the even neighbour.
Rounded(p, q) ==
  LET up == \/ 2 * (p % q) > q
            \/ 2 * (p % q) = q /\ (p \div q) % 2 = 1
  IN  IF up THEN p \div q + 1 ELSE p \div q

NoForecast == -1

\* Mutant: from where the window began.
ForecastFromFirst(m) ==
  IF ~ Enough \/ Current(m) >= Thresholds[m] \/ Rise(m) <= 0 THEN NoForecast
  ELSE LET p == (Thresholds[m] - snaps[1][m]) * Steps
       IN  IF p > 100 * Rise(m) THEN NoForecast ELSE Rounded(p, Rise(m))

forecastCycles(m) ==
  IF ~ Enough \/ Current(m) >= Thresholds[m] \/ Rise(m) <= 0 THEN NoForecast
  ELSE LET p == (Thresholds[m] - Current(m)) * Steps
       IN  IF p > 100 * Rise(m) THEN NoForecast ELSE Rounded(p, Rise(m))

BuildAdaptiveContext ==
  [dominant |-> dominantKey, count |-> Len(cycles), alerts |-> Cardinality(AlertCycles),
   recent |-> RecentAlerts, streak |-> stableStreak,
   trend |-> [m \in {"cpu", "ram"} |-> trendWithThreshold(m)],
   correlation |-> computeCorrelation,
   forecast |-> [m \in {"cpu", "ram"} |-> forecastCycles(m)]]

\* BuildAdaptiveSystemPrompt: its lines on alerts and stability.
Says ==
  LET c == BuildAdaptiveContext
  IN  [vigilant |-> c.count > 0 /\ 100 * c.alerts > 20 * c.count,
       noAlerts |-> c.count > 0 /\ c.alerts = 0,
       since |-> IF c.count > 0 /\ c.streak >= 3 THEN c.streak ELSE 0,
       lists |-> IF c.count > 0 THEN c.recent ELSE {}]

-----------------------------------------------------------------------------
(* Properties                                                              *)

ContextTypeOK ==
  /\ cycles \in Seq(Actions) /\ Len(cycles) <= CycleWindow
  /\ snaps \in Seq(Snapshots) /\ Len(snaps) <= SnapWindow
  /\ adding \in Snapshots \union {NoSnapshot}
  /\ quiet \in 0 .. CycleWindow + 1

\* What the prompt says of alerts is true of the whole past, as far as the window
\* reaches: alerts are listed unless it says there are none, and the cycles without
\* one are as many as there were.
AlertLinesAgree ==
  /\ Says.noAlerts => Says.lists = {} /\ ~ Says.vigilant /\ quiet >= Len(cycles)
  /\ Says.lists = {} /\ cycles # <<>> => Says.noAlerts
  /\ Says.since = IF quiet >= 3 /\ Len(cycles) >= 3 THEN Min({quiet, Len(cycles)}) ELSE 0

\* A projection is to the nearest cycle: if the metric goes on as over the window, it
\* is below the threshold one cycle earlier and at it one cycle later.  A metric at
\* its threshold is called critical and gets no projection.
ForecastHolds ==
  \A m \in {"cpu", "ram"} :
    LET n == BuildAdaptiveContext.forecast[m]
        value(k) == Current(m) * Steps + k * Rise(m)
    IN  IF n = NoForecast
          THEN Enough /\ Rise(m) > 0 /\ Current(m) < Thresholds[m] =>
                 value(100) < Thresholds[m] * Steps
          ELSE /\ BuildAdaptiveContext.trend[m] # "critical"
               /\ value(n - 1) < Thresholds[m] * Steps
               /\ value(n + 1) >= Thresholds[m] * Steps

\* The two windows move at different times and have different lengths, and what the
\* prompt says of each is true of it.
ContextConsistent == AlertLinesAgree /\ ForecastHolds

\* context_builder.go:50 and :146 call them the recent and the last alerts.
RecentAlertsAreLatest ==
  \A i \in AlertCycles :
    Cardinality({j \in AlertCycles : j > i}) < RecentLimit => i \in RecentAlerts
=============================================================================
