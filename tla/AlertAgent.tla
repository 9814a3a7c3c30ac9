----------------------------- MODULE AlertAgent -----------------------------
(***************************************************************************)
(* agents/alert_agent.go: thresholds, consecutive cycles and the cooldown  *)
(* between two alerts on one metric.                                       *)
(*                                                                         *)
(* The agent runs on its own ticker and analyses whatever snapshot the     *)
(* orchestrator accepted last, which may be one it has already seen, or    *)
(* skip some.  A snapshot is abstracted to the set of metrics that reach   *)
(* their threshold.  The notifications and the alert file follow from the  *)
(* alerts a cycle raises; they do not act back on the agent.               *)
(***************************************************************************)
EXTENDS Integers, Sequences

CONSTANTS
  Streak,        \* metrics that need MinCycles consecutive cycles: CPU, RAM
  Direct,        \* metrics that alert at once: disk
  MinCycles,     \* AlertMinCycles
  Cooldown,      \* AlertCooldown
  NeverAlerted,  \* initial value of LastAlertCPU, LastAlertRAM, LastAlertDsk: -999
  MaxCycles      \* bound: cycles of the agent

ASSUME MetricsAssumption == Streak \intersect Direct = {}
ASSUME MinCyclesAssumption == MinCycles \in Nat \ {0}
ASSUME CooldownAssumption == Cooldown \in Nat \ {0}
ASSUME NeverAlertedAssumption == NeverAlerted \in Int /\ NeverAlerted < 0
ASSUME MaxCyclesAssumption == MaxCycles \in Nat

Metrics == Streak \union Direct

VARIABLES
  high,          \* metrics at or above their threshold in the last accepted snapshot
  enabled,       \* BaseAgent.enabled
  CurrentCycle,  \* AlertState.CurrentCycle
  Cycles,        \* CPUCycles, RAMCycles
  LastAlert,     \* LastAlertCPU, LastAlertRAM, LastAlertDsk
  samples,       \* history: samples[k]: value of high in the k-th cycle
  alerts         \* history: alerts[m]: cycles that raised an alert on m

state == <<CurrentCycle, Cycles, LastAlert, samples, alerts>>
vars == <<high, enabled, state>>

Init ==
  /\ high = {}
  /\ enabled = TRUE
  /\ CurrentCycle = 0
  /\ Cycles = [m \in Streak |-> 0]
  /\ LastAlert = [m \in Metrics |-> NeverAlerted]
  /\ samples = << >>
  /\ alerts = [m \in Metrics |-> {}]

\* The orchestrator accepts another snapshot.
Observe ==
  /\ high' \in SUBSET Metrics
  /\ UNCHANGED <<enabled, state>>

\* POST /api/agents/alert/toggle.  The counters stay as they are.
Toggle ==
  /\ enabled' = ~ enabled
  /\ UNCHANGED <<high, state>>

\* Mutant: the counter is not reset when the metric falls below its threshold.
CountWithoutReset(m) == IF m \in high THEN Cycles[m] + 1 ELSE Cycles[m]
Count(m) == IF m \in high THEN Cycles[m] + 1 ELSE 0

Raises(m, k) ==
  /\ m \in high
  /\ m \in Streak => Count(m) >= MinCycles
  /\ k - LastAlert[m] >= Cooldown

\* Mutant: the cycle is not counted.
AnalyzeUncounted(k) ==
  /\ UNCHANGED CurrentCycle
  /\ Cycles' = [m \in Streak |-> Count(m)]
  /\ LastAlert' = [m \in Metrics |-> IF Raises(m, k) THEN k ELSE LastAlert[m]]
  /\ samples' = Append(samples, high)
  /\ alerts' = [m \in Metrics |-> IF Raises(m, k) THEN alerts[m] \union {k} ELSE alerts[m]]

\* Run, with the cycle number k Analyze gives itself.
Analyze(k) ==
  /\ CurrentCycle' = k
  /\ Cycles' = [m \in Streak |-> Count(m)]
  /\ LastAlert' = [m \in Metrics |-> IF Raises(m, k) THEN k ELSE LastAlert[m]]
  /\ samples' = Append(samples, high)
  /\ alerts' = [m \in Metrics |-> IF Raises(m, k) THEN alerts[m] \union {k} ELSE alerts[m]]

Run ==
  /\ enabled
  /\ CurrentCycle < MaxCycles
  /\ Analyze(CurrentCycle + 1)
  /\ UNCHANGED <<high, enabled>>

Next == Observe \/ Toggle \/ Run

Spec == Init /\ [][Next]_vars

-----------------------------------------------------------------------------
(* Properties                                                              *)

TypeOK ==
  /\ high \in SUBSET Metrics
  /\ enabled \in BOOLEAN
  /\ CurrentCycle \in 0 .. MaxCycles
  /\ Cycles \in [Streak -> 0 .. MaxCycles]
  /\ LastAlert \in [Metrics -> {NeverAlerted} \union 1 .. MaxCycles]
  /\ samples \in Seq(SUBSET Metrics) /\ Len(samples) = CurrentCycle
  /\ alerts \in [Metrics -> SUBSET (1 .. MaxCycles)]

\* m was high in cycle k and in as many cycles before it as an alert needs.
Required(m) == IF m \in Streak THEN MinCycles ELSE 1

Overloaded(m, k) ==
  /\ Required(m) <= k
  /\ \A j \in (k - Required(m) + 1) .. k : m \in samples[j]

Quiet(m, k) == \A j \in alerts[m] : j < k => k - j >= Cooldown

\* The cycles that raise an alert on a metric are exactly those that close
\* enough consecutive cycles above the threshold and come at least Cooldown
\* cycles after the previous alert: no false alarm, no alert too soon, and none
\* missed, with one exception the initial value makes: none before cycle
\* Cooldown + NeverAlerted.
AlertsExactly ==
  \A m \in Metrics : \A k \in 1 .. CurrentCycle :
    k \in alerts[m] <=>
      Overloaded(m, k) /\ Quiet(m, k) /\ k - NeverAlerted >= Cooldown
=============================================================================
