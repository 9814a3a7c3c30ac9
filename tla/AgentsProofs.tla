---------------------------- MODULE AgentsProofs -----------------------------
(***************************************************************************)
(* The alert rule for any metrics, any number of required cycles, any      *)
(* cooldown and any number of cycles; the Docker and the file agent for    *)
(* any containers, any watch list, any directories and sizes and any       *)
(* number of runs; the daily report for any notifiers, any schedule, any   *)
(* corrections of the clock and any number of restarts.                    *)
(***************************************************************************)
EXTENDS AlertAgent, Watchers, DailyReport, SequenceTheorems, TLAPS


-----------------------------------------------------------------------------
(* The alert agent                                                         *)

\* The counter of a metric is the length of the run of samples above the
\* threshold that ends with the last cycle.
CountsLastRun ==
  \A m \in Streak :
    /\ Cycles[m] \in 0 .. CurrentCycle
    /\ \A j \in (CurrentCycle - Cycles[m] + 1) .. CurrentCycle : m \in samples[j]
    /\ Cycles[m] < CurrentCycle => m \notin samples[CurrentCycle - Cycles[m]]

\* LastAlert is the last cycle that raised an alert.
RemembersLastAlert ==
  \A m \in Metrics :
    /\ alerts[m] \subseteq 1 .. CurrentCycle
    /\ alerts[m] = {} => LastAlert[m] = NeverAlerted
    /\ alerts[m] # {} => /\ LastAlert[m] \in alerts[m]
                         /\ \A j \in alerts[m] : j <= LastAlert[m]

AlertInv == TypeOK /\ CountsLastRun /\ RemembersLastAlert /\ AlertsExactly

LEMMA AlertInvInit == Init => AlertInv
<1> USE MetricsAssumption, MinCyclesAssumption, CooldownAssumption, NeverAlertedAssumption,
        MaxCyclesAssumption
<1> SUFFICES ASSUME Init PROVE AlertInv
  OBVIOUS
<1>1. TypeOK
  BY EmptySeq DEF Init, TypeOK
<1>2. CountsLastRun
  <2>1. /\ CurrentCycle = 0 /\ \A m \in Streak : Cycles[m] = 0
    BY DEF Init
  <2>2. 0 \in 0 .. 0 /\ \A j \in (0 - 0 + 1) .. 0 : FALSE
    OBVIOUS
  <2>3. ASSUME NEW m \in Streak
        PROVE  /\ Cycles[m] \in 0 .. CurrentCycle
               /\ \A j \in (CurrentCycle - Cycles[m] + 1) .. CurrentCycle : m \in samples[j]
               /\ ~ Cycles[m] < CurrentCycle
    BY <2>1, <2>2
  <2> QED BY <2>3 DEF CountsLastRun
<1>3. RemembersLastAlert
  BY DEF Init, RemembersLastAlert
<1>4. AlertsExactly
  BY DEF Init, AlertsExactly
<1> QED BY <1>1, <1>2, <1>3, <1>4 DEF AlertInv

LEMMA AlertRunStep ==
  ASSUME AlertInv, Run
  PROVE  AlertInv'
<1> USE MetricsAssumption, MinCyclesAssumption, CooldownAssumption, NeverAlertedAssumption,
        MaxCyclesAssumption
<1>a. CurrentCycle + 1 \in 1 .. MaxCycles
  BY DEF AlertInv, TypeOK, Run
<1> PICK k \in 1 .. MaxCycles : k = CurrentCycle + 1
  BY <1>a
<1>0. /\ high \in SUBSET Metrics /\ CurrentCycle \in Nat /\ k \in 1 .. MaxCycles
      /\ samples \in Seq(SUBSET Metrics) /\ Len(samples) = CurrentCycle
      /\ Cycles \in [Streak -> Nat] /\ alerts \in [Metrics -> SUBSET (1 .. MaxCycles)]
      /\ LastAlert \in [Metrics -> {NeverAlerted} \union 1 .. MaxCycles]
      /\ MinCycles \in Nat /\ MinCycles > 0 /\ Cooldown \in Nat /\ Cooldown > 0
      /\ NeverAlerted \in Int /\ NeverAlerted < 0
  BY DEF AlertInv, TypeOK, Run
<1>1. /\ CurrentCycle' = k /\ UNCHANGED <<high, enabled>>
      /\ Cycles' = [m \in Streak |-> Count(m)]
      /\ LastAlert' = [m \in Metrics |-> IF Raises(m, k) THEN k ELSE LastAlert[m]]
      /\ samples' = Append(samples, high)
      /\ alerts' = [m \in Metrics |-> IF Raises(m, k) THEN alerts[m] \union {k} ELSE alerts[m]]
  BY DEF Run, Analyze
<1>2. /\ samples' \in Seq(SUBSET Metrics) /\ Len(samples') = k /\ samples'[k] = high
      /\ \A j \in 1 .. CurrentCycle : samples'[j] = samples[j]
  BY <1>0, <1>1, AppendProperties
<1>3. \A m \in Streak : m \in Metrics
  BY DEF Metrics
<1>k. k = CurrentCycle + 1
  OBVIOUS
<1>4. CountsLastRun'
  <2> SUFFICES ASSUME NEW m \in Streak
               PROVE  /\ Cycles'[m] \in 0 .. k
                      /\ \A j \in (k - Cycles'[m] + 1) .. k : m \in samples'[j]
                      /\ Cycles'[m] < k => m \notin samples'[k - Cycles'[m]]
    BY <1>1 DEF CountsLastRun
  <2>1. /\ Cycles[m] \in 0 .. CurrentCycle
        /\ \A j \in (CurrentCycle - Cycles[m] + 1) .. CurrentCycle : m \in samples[j]
        /\ Cycles[m] < CurrentCycle => m \notin samples[CurrentCycle - Cycles[m]]
    BY DEF AlertInv, CountsLastRun
  <2>2. CASE m \in high
    <3>1. Cycles'[m] = Cycles[m] + 1
      BY <1>1, <2>2 DEF Count
    <3>2. /\ Cycles'[m] \in 0 .. k
          /\ k - Cycles'[m] = CurrentCycle - Cycles[m]
      BY <1>0, <1>k, <2>1, <3>1
    <3>3. ASSUME NEW j \in (CurrentCycle - Cycles[m] + 1) .. k PROVE m \in samples'[j]
      <4>1. CASE j = k
        BY <1>2, <2>2, <4>1
      <4>2. CASE j < k
        <5>1. j \in (CurrentCycle - Cycles[m] + 1) .. CurrentCycle /\ j \in 1 .. CurrentCycle
          BY <1>0, <1>k, <2>1, <4>2
        <5> QED BY <1>2, <2>1, <5>1
      <4> QED BY <1>0, <2>1, <4>1, <4>2
    <3>4. ASSUME Cycles[m] < CurrentCycle PROVE m \notin samples'[CurrentCycle - Cycles[m]]
      <4>1. CurrentCycle - Cycles[m] \in 1 .. CurrentCycle
        BY <1>0, <2>1, <3>4
      <4> QED BY <1>2, <2>1, <3>4, <4>1
    <3>5. Cycles'[m] < k => Cycles[m] < CurrentCycle
      BY <1>0, <1>k, <2>1, <3>1
    <3> QED BY <3>2, <3>3, <3>4, <3>5
  <2>3. CASE m \notin high
    <3>1. Cycles'[m] = 0
      BY <1>1, <2>3 DEF Count
    <3> QED BY <1>0, <1>2, <1>k, <2>3, <3>1
  <2> QED BY <2>2, <2>3
<1>5. TypeOK'
  <2>1. Cycles' \in [Streak -> 0 .. MaxCycles]
    BY <1>0, <1>1, <1>4 DEF CountsLastRun
  <2>2. LastAlert' \in [Metrics -> {NeverAlerted} \union 1 .. MaxCycles]
    BY <1>0, <1>1
  <2>3. alerts' \in [Metrics -> SUBSET (1 .. MaxCycles)]
    BY <1>0, <1>1
  <2>4. CurrentCycle' \in 0 .. MaxCycles
    BY <1>0, <1>1
  <2> QED BY <1>1, <1>2, <2>1, <2>2, <2>3, <2>4 DEF TypeOK, AlertInv
<1>6. ASSUME NEW m \in Metrics
      PROVE  Overloaded(m, k)' <=> m \in high /\ (m \in Streak => Count(m) >= MinCycles)
  <2>0. Overloaded(m, k)' <=> /\ Required(m) <= k
                              /\ \A j \in (k - Required(m) + 1) .. k : m \in samples'[j]
    BY <1>1 DEF Overloaded, Required
  <2>1. CASE m \notin Streak
    BY <1>0, <1>2, <2>0, <2>1 DEF Required
  <2>2. CASE m \in Streak
    <3>1. Required(m) = MinCycles /\ Cycles[m] \in 0 .. CurrentCycle
      BY <2>2 DEF Required, AlertInv, CountsLastRun
    <3>2. \A j \in (CurrentCycle - Cycles[m] + 1) .. CurrentCycle : m \in samples[j]
      BY <2>2 DEF AlertInv, CountsLastRun
    <3>3. Cycles[m] < CurrentCycle => m \notin samples[CurrentCycle - Cycles[m]]
      BY <2>2 DEF AlertInv, CountsLastRun
    <3>4. CASE m \notin high
      BY <1>0, <1>2, <2>0, <3>1, <3>4
    <3>5. CASE m \in high /\ Cycles[m] + 1 >= MinCycles
      <4>1. MinCycles <= k /\ Count(m) = Cycles[m] + 1
        BY <1>0, <1>k, <3>1, <3>5 DEF Count
      <4>2. ASSUME NEW j \in (k - MinCycles + 1) .. k PROVE m \in samples'[j]
        <5>1. CASE j = k
          BY <1>2, <3>5, <5>1
        <5>2. CASE j < k
          <6>1. j \in (CurrentCycle - Cycles[m] + 1) .. CurrentCycle /\ j \in 1 .. CurrentCycle
            BY <1>0, <1>k, <3>1, <3>5, <5>2
          <6> QED BY <1>2, <3>2, <6>1
        <5> QED BY <1>0, <5>1, <5>2
      <4> QED BY <2>0, <3>1, <3>5, <4>1, <4>2
    <3>6. CASE m \in high /\ Cycles[m] + 1 < MinCycles
      <4>1. ASSUME Overloaded(m, k)' PROVE FALSE
        <5>1. CurrentCycle - Cycles[m] \in (k - MinCycles + 1) .. k
          BY <1>0, <1>k, <3>1, <3>6
        <5>2. m \in samples'[CurrentCycle - Cycles[m]]
          BY <2>0, <3>1, <4>1, <5>1
        <5>3. Cycles[m] < CurrentCycle
          BY <1>0, <1>k, <2>0, <3>1, <3>6, <4>1
        <5> QED BY <1>0, <1>2, <3>1, <3>3, <5>2, <5>3
      <4>2. Count(m) = Cycles[m] + 1 /\ ~ Count(m) >= MinCycles
        BY <1>0, <3>1, <3>6 DEF Count
      <4> QED BY <2>2, <4>1, <4>2
    <3>7. Cycles[m] + 1 >= MinCycles \/ Cycles[m] + 1 < MinCycles
      BY <1>0, <3>1
    <3> QED BY <3>4, <3>5, <3>6, <3>7
  <2> QED BY <2>1, <2>2
<1>7. ASSUME NEW m \in Metrics
      PROVE  k - LastAlert[m] >= Cooldown
               <=> k - NeverAlerted >= Cooldown /\ \A j \in alerts[m] : k - j >= Cooldown
  <2>1. /\ alerts[m] \subseteq 1 .. CurrentCycle
        /\ alerts[m] = {} => LastAlert[m] = NeverAlerted
        /\ alerts[m] # {} => LastAlert[m] \in alerts[m] /\ \A j \in alerts[m] : j <= LastAlert[m]
    BY DEF AlertInv, RemembersLastAlert
  <2>2. CASE alerts[m] = {}
    BY <2>1, <2>2
  <2>3. CASE alerts[m] # {}
    BY <1>0, <1>k, <2>1, <2>3
  <2> QED BY <2>2, <2>3
<1>8. ASSUME NEW m \in Metrics PROVE Quiet(m, k)' <=> \A j \in alerts[m] : k - j >= Cooldown
  <2>1. alerts[m] \subseteq 1 .. CurrentCycle
    BY DEF AlertInv, RemembersLastAlert
  <2>2. \A j \in alerts[m] : j < k
    BY <1>0, <1>k, <2>1
  <2>3. \A j : j \in alerts'[m] /\ j # k <=> j \in alerts[m]
    BY <1>0, <1>1, <2>2
  <2>4. \A j \in alerts'[m] : j < k <=> j # k
    BY <1>0, <2>2, <2>3
  <2> QED BY <1>1, <2>2, <2>3, <2>4 DEF Quiet
<1>9. ASSUME NEW m \in Metrics
      PROVE  Raises(m, k) <=> Overloaded(m, k)' /\ Quiet(m, k)' /\ k - NeverAlerted >= Cooldown
  BY <1>6, <1>7, <1>8 DEF Raises
<1>10. RemembersLastAlert'
  <2> SUFFICES ASSUME NEW m \in Metrics
               PROVE  /\ alerts'[m] \subseteq 1 .. k
                      /\ alerts'[m] = {} => LastAlert'[m] = NeverAlerted
                      /\ alerts'[m] # {} => /\ LastAlert'[m] \in alerts'[m]
                                            /\ \A j \in alerts'[m] : j <= LastAlert'[m]
    BY <1>1 DEF RemembersLastAlert
  <2>1. /\ alerts[m] \subseteq 1 .. CurrentCycle
        /\ alerts[m] = {} => LastAlert[m] = NeverAlerted
        /\ alerts[m] # {} => LastAlert[m] \in alerts[m] /\ \A j \in alerts[m] : j <= LastAlert[m]
    BY DEF AlertInv, RemembersLastAlert
  <2>2. CASE Raises(m, k)
    BY <1>0, <1>1, <1>k, <2>1, <2>2
  <2>3. CASE ~ Raises(m, k)
    BY <1>0, <1>1, <1>k, <2>1, <2>3
  <2> QED BY <2>2, <2>3
<1>11. AlertsExactly'
  <2> SUFFICES ASSUME NEW m \in Metrics, NEW i \in 1 .. k
               PROVE  i \in alerts'[m] <=>
                        Overloaded(m, i)' /\ Quiet(m, i)' /\ i - NeverAlerted >= Cooldown
    BY <1>1 DEF AlertsExactly
  <2>0. alerts[m] \subseteq 1 .. CurrentCycle
    BY DEF AlertInv, RemembersLastAlert
  <2>1. CASE i = k
    <3>1. k \notin alerts[m]
      BY <1>0, <1>k, <2>0
    <3>2. k \in alerts'[m] <=> Raises(m, k)
      BY <1>1, <3>1
    <3>3. Overloaded(m, i)' = Overloaded(m, k)' /\ Quiet(m, i)' = Quiet(m, k)'
      BY <1>1, <2>1 DEF Overloaded, Quiet, Required
    <3> QED BY <1>9, <2>1, <3>2, <3>3
  <2>2. CASE i < k
    <3>1. i \in 1 .. CurrentCycle
      BY <1>0, <1>k, <2>2
    <3>2. i \in alerts'[m] <=> i \in alerts[m]
      BY <1>0, <1>1, <2>2
    <3>3. Overloaded(m, i)' <=> Overloaded(m, i)
      <4>1. Required(m) \in Nat \ {0}
        BY DEF Required
      <4>2. \A j \in (i - Required(m) + 1) .. i :
              Required(m) <= i => j \in 1 .. CurrentCycle /\ samples'[j] = samples[j]
        BY <1>0, <1>2, <3>1, <4>1
      <4> QED BY <4>2 DEF Overloaded, Required
    <3>4. Quiet(m, i)' <=> Quiet(m, i)
      BY <1>0, <1>1, <1>k, <2>0, <2>2 DEF Quiet
    <3>5. i \in alerts[m] <=> Overloaded(m, i) /\ Quiet(m, i) /\ i - NeverAlerted >= Cooldown
      BY <3>1 DEF AlertInv, AlertsExactly
    <3> QED BY <3>2, <3>3, <3>4, <3>5
  <2> QED BY <1>0, <2>1, <2>2
<1> QED BY <1>4, <1>5, <1>10, <1>11 DEF AlertInv

LEMMA AlertInvStep == AlertInv /\ [Next]_vars => AlertInv'
<1> USE MetricsAssumption, MinCyclesAssumption, CooldownAssumption, NeverAlertedAssumption,
        MaxCyclesAssumption
<1> SUFFICES ASSUME AlertInv, [Next]_vars PROVE AlertInv'
  OBVIOUS
<1>1. CASE Observe \/ Toggle \/ UNCHANGED vars
  <2>1. UNCHANGED state /\ high' \in SUBSET Metrics /\ enabled' \in BOOLEAN
    BY <1>1 DEF Observe, Toggle, vars, AlertInv, TypeOK
  <2> QED
    BY <2>1 DEF AlertInv, TypeOK, CountsLastRun, RemembersLastAlert, AlertsExactly, Overloaded,
                Quiet, state
<1>2. CASE Run
  BY <1>2, AlertRunStep
<1> QED BY <1>1, <1>2 DEF Next

LEMMA AlertInvariant == Spec => []AlertInv
BY AlertInvInit, AlertInvStep, PTL DEF Spec

\* The variables keep their types.
THEOREM AlertTypeCorrect == Spec => []TypeOK
<1> USE MetricsAssumption, MinCyclesAssumption, CooldownAssumption, NeverAlertedAssumption,
        MaxCyclesAssumption
<1>1. AlertInv => TypeOK
  BY DEF AlertInv
<1> QED BY <1>1, AlertInvariant, PTL

\* Alerts are raised in exactly the cycles the documented rule names.
THEOREM AlertsExactlyCorrect == Spec => []AlertsExactly
<1> USE MetricsAssumption, MinCyclesAssumption, CooldownAssumption, NeverAlertedAssumption,
        MaxCyclesAssumption
<1>1. AlertInv => AlertsExactly
  BY DEF AlertInv
<1> QED BY <1>1, AlertInvariant, PTL

-----------------------------------------------------------------------------
(* Types of the Docker and the file agent                                  *)

\* Errors and alerts are runs.
CountersBounded(b) == b.errorCount <= b.runCount /\ b.alertCount <= b.runCount

WatchTypes == WatchTypeOK /\ CountersBounded(docker) /\ CountersBounded(file)

LEMMA RecordLemma ==
  ASSUME NEW b \in BaseAgents(MaxRuns), CountersBounded(b), b.runCount < MaxRuns
  PROVE  \A r \in {RecordSuccess(b), RecordError(b), RecordAlert(b)} :
           r \in BaseAgents(MaxRuns) /\ CountersBounded(r)
<1> USE WatchedAssumption, SizesAssumption, MaxRunsAssumption
<1>1. b.runCount + 1 \in 0 .. MaxRuns /\ b.errorCount + 1 \in 0 .. MaxRuns /\ b.alertCount + 1 \in 0 .. MaxRuns
  BY DEF BaseAgents, CountersBounded
<1> PICK n \in 0 .. MaxRuns : n = b.runCount + 1
  BY <1>1
<1> PICK e \in 0 .. MaxRuns : e = b.errorCount + 1
  BY <1>1
<1> PICK a \in 0 .. MaxRuns : a = b.alertCount + 1
  BY <1>1
<1>2. b.runCount \in Nat /\ b.errorCount \in Nat /\ b.alertCount \in Nat
  BY DEF BaseAgents
<1>3. RecordSuccess(b) \in BaseAgents(MaxRuns) /\ CountersBounded(RecordSuccess(b))
  <2>1. RecordSuccess(b) = [b EXCEPT !.failed = FALSE, !.runCount = n]
    BY DEF RecordSuccess
  <2>2. [b EXCEPT !.failed = FALSE, !.runCount = n] \in BaseAgents(MaxRuns)
    BY DEF BaseAgents
  <2>3. CountersBounded([b EXCEPT !.failed = FALSE, !.runCount = n])
    BY <1>2 DEF BaseAgents, CountersBounded
  <2> QED BY <2>1, <2>2, <2>3
<1>4. RecordError(b) \in BaseAgents(MaxRuns) /\ CountersBounded(RecordError(b))
  <2>1. RecordError(b) = [b EXCEPT !.failed = TRUE, !.runCount = n, !.errorCount = e]
    BY DEF RecordError
  <2>2. [b EXCEPT !.failed = TRUE, !.runCount = n, !.errorCount = e] \in BaseAgents(MaxRuns)
    BY DEF BaseAgents
  <2>3. CountersBounded([b EXCEPT !.failed = TRUE, !.runCount = n, !.errorCount = e])
    BY <1>2 DEF BaseAgents, CountersBounded
  <2> QED BY <2>1, <2>2, <2>3
<1>5. RecordAlert(b) \in BaseAgents(MaxRuns) /\ CountersBounded(RecordAlert(b))
  <2>1. RecordAlert(b) = [b EXCEPT !.failed = FALSE, !.runCount = n, !.alertCount = a]
    BY DEF RecordAlert
  <2>2. [b EXCEPT !.failed = FALSE, !.runCount = n, !.alertCount = a] \in BaseAgents(MaxRuns)
    BY DEF BaseAgents
  <2>3. CountersBounded([b EXCEPT !.failed = FALSE, !.runCount = n, !.alertCount = a])
    BY <1>2 DEF BaseAgents, CountersBounded
  <2> QED BY <2>1, <2>2, <2>3
<1> QED BY <1>3, <1>4, <1>5

\* Sizes are whole numbers of MB.
LEMMA SizeLemma ==
  ASSUME WatchTypes, NEW p \in Paths
  PROVE  size[p] \in Nat /\ size[p] \div 2 \in Nat
<1> USE WatchedAssumption, SizesAssumption, MaxRunsAssumption
<1>1. Sizes \union {0} \subseteq Nat
  OBVIOUS
<1>2. size[p] \in Sizes \union {0}
  BY DEF WatchTypes, WatchTypeOK
<1>3. size[p] \in Nat
  BY <1>1, <1>2
<1> QED BY <1>3

LEMMA WatchTypesInit == WatchInit => WatchTypes
<1> USE WatchedAssumption, SizesAssumption, MaxRunsAssumption
<1> SUFFICES ASSUME WatchInit PROVE WatchTypes
  OBVIOUS
<1>1. NewBaseAgent \in BaseAgents(MaxRuns) /\ CountersBounded(NewBaseAgent)
  BY DEF NewBaseAgent, BaseAgents, CountersBounded
<1>2. Absent \in ContainerStates
  BY DEF ContainerStates
<1>3. container \in [Containers -> ContainerStates] /\ size \in [Paths -> Sizes \union {0}]
  BY <1>2 DEF WatchInit
<1>4. prevStates \in [Containers -> {NotSeen, "created", "running", "paused", "exited"}]
  BY DEF WatchInit
<1>5. prevSizes \in [Paths -> Int]
  BY DEF WatchInit, Unmeasured
<1> QED BY <1>1, <1>3, <1>4, <1>5 DEF WatchInit, WatchTypes, WatchTypeOK

\* What a scan sees of a container is one of the states it knows.
LEMMA ListedLemma ==
  ASSUME WatchTypes, NEW n \in Listed
  PROVE  /\ n \in Watched /\ n \in Containers
         /\ container[n].status \in {"created", "running", "paused", "exited"}
         /\ container[n].unhealthy \in BOOLEAN
<1> USE WatchedAssumption, SizesAssumption, MaxRunsAssumption
<1>1. n \in Watched /\ n \in Containers /\ container[n] # Absent
  BY DEF Listed
<1>2. container[n] \in ContainerStates
  BY <1>1 DEF WatchTypes, WatchTypeOK
<1>3. \/ container[n] = [status |-> "running", unhealthy |-> TRUE]
      \/ container[n] \in [status : {"created", "running", "paused", "exited"}, unhealthy : {FALSE}]
  BY <1>1, <1>2 DEF ContainerStates
<1>4. CASE container[n] = [status |-> "running", unhealthy |-> TRUE]
  <2>1. container[n].status = "running" /\ container[n].unhealthy
    BY <1>4
  <2>2. container[n].unhealthy = TRUE
    BY <1>4
  <2> QED BY <1>1, <2>1, <2>2
<1>5. CASE container[n] \in [status : {"created", "running", "paused", "exited"}, unhealthy : {FALSE}]
  BY <1>1, <1>5
<1> QED BY <1>3, <1>4, <1>5

LEMMA DockerScanTypes == WatchTypes /\ DockerScan => WatchTypes'
<1> USE WatchedAssumption, SizesAssumption, MaxRunsAssumption
<1> SUFFICES ASSUME WatchTypes, DockerScan PROVE WatchTypes'
  OBVIOUS
<1>1. docker' \in BaseAgents(MaxRuns) /\ CountersBounded(docker')
  BY RecordLemma DEF WatchTypes, WatchTypeOK, DockerScan, DockerRuns
<1>2. prevStates' \in [Containers -> {NotSeen, "created", "running", "paused", "exited"}]
  BY ListedLemma DEF DockerScan, Remember, WatchTypes, WatchTypeOK
<1>3. prevUnhealthy' \in [Containers -> BOOLEAN]
  BY ListedLemma DEF DockerScan, Remember, WatchTypes, WatchTypeOK
<1>4. StopAlerts \subseteq Watched /\ HealthAlerts \subseteq Watched /\ Listed \subseteq Watched
  BY DEF StopAlerts, HealthAlerts, Listed
<1>5. told' \subseteq Watched /\ detour' \subseteq Watched /\ ill' \subseteq Watched
  BY <1>4 DEF DockerScan, Account, WatchTypes, WatchTypeOK
<1>6. twice' \in BOOLEAN
  BY DEF DockerScan, Account, WatchTypes, WatchTypeOK
<1> QED BY <1>1, <1>2, <1>3, <1>5, <1>6 DEF DockerScan, WatchTypes, WatchTypeOK, world, fileVars

LEMMA FileScanTypes ==
  ASSUME WatchTypes, NEW failing \in SUBSET Paths, NEW hidden \in SUBSET Paths,
         NEW large \in BOOLEAN, FileScan(failing, hidden, large)
  PROVE  WatchTypes'
<1> USE WatchedAssumption, SizesAssumption, MaxRunsAssumption
<1>1. file' \in BaseAgents(MaxRuns) /\ CountersBounded(file')
  BY RecordLemma DEF WatchTypes, WatchTypeOK, FileScan
<1>2. prevSizes' \in [Paths -> Int]
  <2>1. \A p \in Paths : size[p] \in Int /\ size[p] \div 2 \in Int
    BY SizeLemma
  <2> QED BY <2>1 DEF FileScan, Measured, WatchTypes, WatchTypeOK
<1> QED BY <1>1, <1>2 DEF FileScan, WatchTypes, WatchTypeOK, world, dockerVars

LEMMA WatchTypesStep == WatchTypes /\ [WatchNext]_WatchVars => WatchTypes'
<1> USE WatchedAssumption, SizesAssumption, MaxRunsAssumption
<1> SUFFICES ASSUME WatchTypes, [WatchNext]_WatchVars PROVE WatchTypes'
  OBVIOUS
<1> USE DEF WatchTypes, WatchTypeOK
<1>1. ASSUME NEW n \in Containers, NEW s \in ContainerStates, ContainerChanges(n, s)
      PROVE  WatchTypes'
  BY <1>1 DEF ContainerChanges, dockerVars, fileVars
<1>2. CASE DockerAbsent
  BY <1>2, RecordLemma DEF DockerAbsent, DockerRuns, world, fileVars
<1>3. CASE ListFails
  BY <1>3, RecordLemma DEF ListFails, DockerRuns, world, fileVars
<1>4. CASE DockerScan
  BY <1>4, DockerScanTypes
<1>5. ASSUME NEW p \in Paths, NEW s \in Sizes, SizeChanges(p, s) PROVE WatchTypes'
  BY <1>5 DEF SizeChanges, dockerVars, fileVars
<1>6. ASSUME NEW failing \in SUBSET Paths, NEW hidden \in SUBSET Paths,
             NEW large \in BOOLEAN, FileScan(failing, hidden, large)
      PROVE  WatchTypes'
  BY <1>6, FileScanTypes
<1>7. CASE UNCHANGED WatchVars
  BY <1>7 DEF WatchVars, world, dockerVars, fileVars
<1> QED BY <1>1, <1>2, <1>3, <1>4, <1>5, <1>6, <1>7 DEF WatchNext, DockerNext, FileNext

\* Types of both agents and of what they watch (agents/docker_agent.go, file_agent.go).
THEOREM WatchTypeCorrect == WatchSpec => []WatchTypeOK
<1> USE WatchedAssumption, SizesAssumption, MaxRunsAssumption
<1>1. WatchTypes /\ [WatchNext]_WatchVars => WatchTypes'
  BY WatchTypesStep
<1>2. WatchTypes => WatchTypeOK
  BY DEF WatchTypes
<1> QED BY WatchTypesInit, <1>1, <1>2, PTL DEF WatchSpec

-----------------------------------------------------------------------------
(* The Docker agent                                                        *)

\* What the agent remembers of a container is what its reports say of it.
DockerInv ==
  /\ \A n \in told : prevStates[n] \notin {NotSeen, "running"}
  /\ \A n \in Watched : prevStates[n] = "exited" => n \in told \union detour
  /\ \A n \in Watched : prevStates[n] \in {"created", "paused"} => n \in detour
  /\ \A n \in Watched : prevUnhealthy[n] <=> n \in ill
  /\ ~ twice

LEMMA DockerScanKeeps == WatchTypes /\ DockerInv /\ DockerScan => DockerInv'
<1> USE WatchedAssumption, SizesAssumption, MaxRunsAssumption
<1> SUFFICES ASSUME WatchTypes, DockerInv, DockerScan PROVE DockerInv'
  OBVIOUS
<1> DEFINE running == {n \in Listed : Is(n, "running")}
           other == {n \in Listed : ~ Is(n, "running") /\ ~ Is(n, "exited")}
<1>1. /\ told' = (told \ running) \union StopAlerts
      /\ detour' = (detour \ running) \union other
      /\ ill' = {n \in ill \union HealthAlerts : n \in Listed => container[n].unhealthy}
      /\ twice' <=> \/ twice
                    \/ StopAlerts \intersect told # {}
                    \/ HealthAlerts \intersect ill # {}
  BY DEF DockerScan, Account
<1>2. /\ told \subseteq Watched /\ detour \subseteq Watched /\ ill \subseteq Watched
      /\ Watched \subseteq Containers /\ Listed \subseteq Watched
  BY DEF WatchTypes, WatchTypeOK, Listed
<1>3. \A n \in Listed : /\ prevStates'[n] = container[n].status
                        /\ prevUnhealthy'[n] = container[n].unhealthy
  BY <1>2 DEF DockerScan, Remember
<1>4. \A n \in Watched \ Listed : /\ prevStates'[n] = prevStates[n]
                                  /\ prevUnhealthy'[n] = prevUnhealthy[n]
  BY <1>2 DEF DockerScan, Remember
<1>5. \A n \in Watched : prevStates[n] \in {NotSeen, "created", "running", "paused", "exited"}
  BY <1>2 DEF WatchTypes, WatchTypeOK
<1>6. \A n : n \in StopAlerts <=> /\ n \in Listed /\ Is(n, "exited")
                                  /\ prevStates[n] \in {NotSeen, "running"}
  BY DEF StopAlerts
<1>7. \A n : n \in HealthAlerts <=> n \in Listed /\ container[n].unhealthy /\ ~ prevUnhealthy[n]
  BY DEF HealthAlerts
<1>8. \A n \in told' : prevStates'[n] \notin {NotSeen, "running"}
  BY <1>1, <1>2, <1>3, <1>4, <1>6, ListedLemma DEF DockerInv, Is, NotSeen
<1>9. ASSUME NEW n \in Watched, prevStates'[n] = "exited" PROVE n \in told' \union detour'
  BY <1>1, <1>3, <1>4, <1>5, <1>6, <1>9 DEF DockerInv, Is, NotSeen
<1>10. ASSUME NEW n \in Watched, prevStates'[n] \in {"created", "paused"} PROVE n \in detour'
  BY <1>1, <1>3, <1>4, <1>10 DEF DockerInv, Is
<1>11. ASSUME NEW n \in Watched PROVE prevUnhealthy'[n] <=> n \in ill'
  BY <1>1, <1>3, <1>4, <1>7 DEF DockerInv
<1>12. StopAlerts \intersect told = {} /\ HealthAlerts \intersect ill = {}
  BY <1>2, <1>6, <1>7 DEF DockerInv
<1>13. ~ twice'
  BY <1>1, <1>12 DEF DockerInv
<1> HIDE DEF running, other
<1> QED BY <1>8, <1>9, <1>10, <1>11, <1>13 DEF DockerInv

-----------------------------------------------------------------------------
(* The file agent                                                          *)

\* A directory has a size in memory once it was measured, and the last report
\* agrees with the last two measurements.
FileInv ==
  /\ \A p \in Paths : prevSizes[p] = Unmeasured <=> measured[p].after = Unmeasured
  /\ GrowthReported

LEMMA FileScanKeeps ==
  ASSUME WatchTypes, FileInv, NEW failing \in SUBSET Paths, NEW hidden \in SUBSET Paths,
         NEW large \in BOOLEAN, FileScan(failing, hidden, large)
  PROVE  FileInv'
<1> USE WatchedAssumption, SizesAssumption, MaxRunsAssumption
<1> DEFINE total == [p \in Paths |-> IF p \in hidden THEN size[p] \div 2 ELSE size[p]]
<1>1. /\ prevSizes' = [p \in Paths |-> Measured(p, failing, total)]
      /\ measured' = [p \in Paths |->
                        IF p \in failing THEN measured[p]
                        ELSE [before |-> measured[p].after, after |-> size[p],
                              complete |-> p \notin hidden
                                /\ prevSizes[p] \in {Unmeasured, measured[p].after},
                              raised |-> GrowthAlert(p, failing, total)]]
  BY DEF FileScan
<1>2. \A p \in Paths : size[p] \in Nat /\ total[p] \in Nat
  BY SizeLemma
<1>3. \A p \in Paths : p \notin hidden => total[p] = size[p]
  OBVIOUS
<1> HIDE DEF total
<1>4. ASSUME NEW p \in Paths PROVE prevSizes'[p] = Unmeasured <=> measured'[p].after = Unmeasured
  BY <1>1, <1>2 DEF FileInv, Measured, Unmeasured
<1>5. ASSUME NEW p \in Paths, measured'[p].complete, measured'[p].before # Unmeasured
      PROVE  measured'[p].raised <=> Grew(measured'[p].after - measured'[p].before)
  <2>1. CASE p \in failing
    BY <1>1, <1>5, <2>1 DEF FileInv, GrowthReported
  <2>2. CASE p \notin failing
    <3>1. /\ measured'[p].before = measured[p].after /\ measured'[p].after = size[p]
          /\ measured'[p].raised <=> GrowthAlert(p, failing, total)
          /\ p \notin hidden /\ prevSizes[p] \in {Unmeasured, measured[p].after}
      BY <1>1, <1>5, <2>2
    <3>2. prevSizes[p] # Unmeasured /\ prevSizes[p] = measured[p].after
      BY <1>5, <3>1 DEF FileInv
    <3> QED BY <1>3, <2>2, <3>1, <3>2 DEF GrowthAlert
  <2> QED BY <2>1, <2>2
<1> QED BY <1>4, <1>5 DEF FileInv, GrowthReported

-----------------------------------------------------------------------------
(* Docker and file agent together                                          *)

WatchInv == WatchTypes /\ DockerInv /\ FileInv

LEMMA WatchInvInit == WatchInit => WatchInv
<1> USE WatchedAssumption, SizesAssumption, MaxRunsAssumption
<1> SUFFICES ASSUME WatchInit PROVE WatchInv
  OBVIOUS
<1>1. DockerInv
  BY DEF WatchInit, DockerInv, NotSeen
<1>2. FileInv
  BY DEF WatchInit, FileInv, GrowthReported, NoMeasure, Unmeasured
<1> QED BY <1>1, <1>2, WatchTypesInit DEF WatchInv

\* What does not touch an agent leaves what it says true.
LEMMA DockerApart == DockerInv /\ UNCHANGED <<prevStates, prevUnhealthy, told, detour, ill, twice>> => DockerInv'
BY DEF DockerInv

LEMMA FileApart == FileInv /\ UNCHANGED <<prevSizes, measured>> => FileInv'
BY DEF FileInv, GrowthReported, Grew

LEMMA WatchInvStep == WatchInv /\ [WatchNext]_WatchVars => WatchInv'
<1> USE WatchedAssumption, SizesAssumption, MaxRunsAssumption
<1> SUFFICES ASSUME WatchInv, [WatchNext]_WatchVars PROVE WatchInv'
  OBVIOUS
<1>0. WatchTypes /\ WatchTypes' /\ DockerInv /\ FileInv
  BY WatchTypesStep DEF WatchInv
<1>1. ASSUME NEW n \in Containers, NEW s \in ContainerStates, ContainerChanges(n, s)
      PROVE  WatchInv'
  BY <1>0, <1>1, DockerApart, FileApart DEF ContainerChanges, dockerVars, fileVars, WatchInv
<1>2. CASE DockerAbsent
  BY <1>0, <1>2, DockerApart, FileApart DEF DockerAbsent, fileVars, WatchInv
<1>3. CASE ListFails
  BY <1>0, <1>3, DockerApart, FileApart DEF ListFails, fileVars, WatchInv
<1>4. CASE DockerScan
  BY <1>0, <1>4, DockerScanKeeps, FileApart DEF DockerScan, fileVars, WatchInv
<1>5. ASSUME NEW p \in Paths, NEW s \in Sizes, SizeChanges(p, s) PROVE WatchInv'
  BY <1>0, <1>5, DockerApart, FileApart DEF SizeChanges, dockerVars, fileVars, WatchInv
<1>6. ASSUME NEW failing \in SUBSET Paths, NEW hidden \in SUBSET Paths,
             NEW large \in BOOLEAN, FileScan(failing, hidden, large)
      PROVE  WatchInv'
  <2>1. FileInv'
    BY <1>0, <1>6, FileScanKeeps
  <2>2. DockerInv'
    BY <1>0, <1>6, DockerApart DEF FileScan, dockerVars
  <2> QED BY <1>0, <2>1, <2>2 DEF WatchInv
<1>7. CASE UNCHANGED WatchVars
  BY <1>0, <1>7, DockerApart, FileApart DEF WatchVars, dockerVars, fileVars, WatchInv
<1> QED BY <1>1, <1>2, <1>3, <1>4, <1>5, <1>6, <1>7 DEF WatchNext, DockerNext, FileNext

\* Whatever runs fail and whatever disappears in between, both agents report changes
\* once and miss none they can see, for any containers, directories and sizes.
THEOREM ChangesReportedCorrect == WatchSpec => []ChangesReported
<1> USE WatchedAssumption, SizesAssumption, MaxRunsAssumption
<1>1. WatchInv /\ [WatchNext]_WatchVars => WatchInv'
  BY WatchInvStep
<1>2. WatchInv => ChangesReported
  BY DEF WatchInv, DockerInv, FileInv, ChangesReported, StopsReportedOnce
<1> QED BY WatchInvInit, <1>1, <1>2, PTL DEF WatchSpec

-----------------------------------------------------------------------------
(* The daily report                                                        *)

\* A report goes through the notifiers in order.
DispatchInOrder == holder # Nobody => tried \o todo = Notifiers

DailyBounds ==
  /\ skew \in -corrected .. corrected
  /\ waiting <= requested
  /\ holder = "ticker" => dailyPc = "send"

\* lastSent is when this process sent its last report.
LastSentIsLast ==
  /\ lastSent <= now
  /\ lastSent # Never => \E i \in DOMAIN reports : reports[i].at = lastSent
  /\ \A i \in DOMAIN reports :
       /\ reports[i].at <= now /\ reports[i].process <= restarted
       /\ reports[i].process = restarted => reports[i].at <= lastSent

\* A wall time that was shown before now can only come again, or one beyond it, by
\* corrections.
Shown(wall, t) == wall <= t + skew + corrected

WallTimes ==
  /\ \A w \in channel : Shown(w, now) /\ (w = tickTime => corrected >= 1)
  /\ Shown(tickTime, now)
  /\ \A i \in DOMAIN reports : Shown(reports[i].minute, reports[i].at)

TickerReports(minute) == {i \in DOMAIN reports : reports[i].by = "ticker" /\ reports[i].minute = minute}

\* A tick that is not looked at yet: no minute passes before it is, unless a report is
\* being sent.
FreshTick(w) ==
  \A i \in TickerReports(w) :
    /\ corrected >= 1
    /\ corrected >= now - reports[i].at \/ lastSent = now \/ holder # Nobody

Pending ==
  /\ \A w \in channel : FreshTick(w)
  /\ dailyPc = "check" => FreshTick(tickTime)
  /\ dailyPc = "send" =>
       \A i \in TickerReports(tickTime) :
         corrected >= IF reports[i].process = restarted THEN RecentMinutes ELSE 1

\* Every scheduled minute that was seen has its report, or is about to be looked at.
Serving ==
  \A t \in fired :
    /\ t <= now
    /\ \/ \E i \in DOMAIN reports : reports[i].at > t - RecentMinutes
       \/ \E w \in channel : IsScheduled(w)
       \/ dailyPc # "wait"

DailyInv ==
  /\ DailyTypeOK /\ DailyBounds
  /\ DispatchInOrder /\ EveryNotifierTried
  /\ LastSentIsLast /\ WallTimes /\ Pending /\ Serving
  /\ OncePerDay

DailyState == DailyTypeOK /\ DailyBounds

LEMMA ReportTypes ==
  ASSUME DailyTypeOK
  PROVE  /\ DOMAIN reports = 1 .. Len(reports) /\ Len(reports) \in Nat
         /\ \A i \in DOMAIN reports :
              /\ reports[i].at \in 0 .. DailyMinutes /\ reports[i].minute \in Int
              /\ reports[i].process \in 0 .. DailyRestarts
<1>1. reports \in Seq(Reports)
  BY DEF DailyTypeOK
<1>2. DOMAIN reports = 1 .. Len(reports) /\ Len(reports) \in Nat
  BY <1>1, LenProperties
<1>3. \A i \in DOMAIN reports : reports[i] \in Reports
  BY <1>1, <1>2, ElementOfSeq
<1>4. \A w \in Walls : w \in Int
  BY DailyBoundsAssumption DEF Walls
<1>5. \A r \in Reports : /\ r.at \in 0 .. DailyMinutes /\ r.minute \in Int
                         /\ r.process \in 0 .. DailyRestarts
  BY <1>4 DEF Reports
<1> QED BY <1>2, <1>3, <1>5

LEMMA CountedType ==
  \A t \in Nat, answers \in BOOLEAN : Stored(t) \in Nat /\ Counted(t, answers) \in Nat
<1> SUFFICES ASSUME NEW t \in Nat, NEW answers \in BOOLEAN
             PROVE  Stored(t) \in Nat /\ Counted(t, answers) \in Nat
  OBVIOUS
<1>1. Stored(t) \in Nat
  BY CyclesAssumption DEF Stored
<1>2. \A a, b \in Nat : Least(a, b) \in Nat
  BY DEF Least
<1> QED BY <1>1, <1>2, CyclesAssumption DEF Counted

\* What Sent adds.
LEMMA SentAdds ==
  ASSUME DailyState, Sent
  PROVE  /\ DOMAIN reports' = 1 .. Len(reports) + 1
         /\ \A i \in DOMAIN reports : reports'[i] = reports[i]
         /\ \A i \in DOMAIN reports' : i \in DOMAIN reports \/ i = Len(reports) + 1
         /\ reports'[Len(reports) + 1].by = holder /\ reports'[Len(reports) + 1].at = now
         /\ reports'[Len(reports) + 1].minute = tickTime
         /\ reports'[Len(reports) + 1].tried = tried
         /\ reports'[Len(reports) + 1].process = restarted
         /\ reports' \in Seq(Reports)
<1> DEFINE Built(answers) ==
             [by |-> holder, at |-> now, minute |-> tickTime, tried |-> tried,
              process |-> restarted, stored |-> Stored(began), cycles |-> Counted(began, answers)]
<1>0. PICK answers \in BOOLEAN : reports' = Append(reports, Built(answers))
  BY DEF Sent
<1> DEFINE r == Built(answers)
<1>1. reports' = Append(reports, r)
  BY <1>0
<1>2. r \in Reports
  <2>1. Stored(began) \in Nat /\ Counted(began, answers) \in Nat
    BY CountedType, DailyBoundsAssumption DEF DailyState, DailyTypeOK
  <2>2. holder \in {"ticker", "request"}
    BY DEF Sent, DailyState, DailyTypeOK
  <2> QED BY <2>1, <2>2 DEF DailyState, DailyTypeOK, Reports
<1>3. /\ r.by = holder /\ r.at = now /\ r.minute = tickTime /\ r.tried = tried
      /\ r.process = restarted
  OBVIOUS
<1> HIDE DEF r
<1>4. reports \in Seq(Reports) /\ DOMAIN reports = 1 .. Len(reports) /\ Len(reports) \in Nat
  BY LenProperties DEF DailyState, DailyTypeOK
<1>5. /\ Append(reports, r) \in Seq(Reports) /\ Len(Append(reports, r)) = Len(reports) + 1
      /\ \A i \in 1 .. Len(reports) : Append(reports, r)[i] = reports[i]
      /\ Append(reports, r)[Len(reports) + 1] = r
  BY <1>2, <1>4, AppendProperties
<1>6. DOMAIN Append(reports, r) = 1 .. Len(reports) + 1
  BY <1>4, <1>5, LenProperties
<1> QED BY <1>1, <1>3, <1>4, <1>5, <1>6

\* The wall minute a tick or a correction of the clock shows is in range.
LEMMA WallInRange ==
  ASSUME NEW n \in 0 .. DailyMinutes, NEW k \in -Corrections .. Corrections
  PROVE  /\ n < DailyMinutes => n + 1 \in 0 .. DailyMinutes /\ n + 1 + k \in Walls
         /\ n + 1 \in Nat /\ k \in Int
<1>1. PICK m \in Nat, c \in Nat : m = DailyMinutes /\ c = Corrections
  BY DailyBoundsAssumption
<1>2. n \in 0 .. m /\ k \in -c .. c
  BY <1>1
<1>3. /\ n < m => n + 1 \in 0 .. m /\ n + 1 + k \in -c .. m + c
      /\ n + 1 \in Nat /\ k \in Int
  BY <1>2
<1> QED BY <1>1, <1>3 DEF Walls

LEMMA LastSentType ==
  ASSUME DailyState
  PROVE  lastSent \in Int
<1>1. Never \in Int
  BY RecentAssumption DEF Never
<1>2. \A t \in 0 .. DailyMinutes : t \in Int
  BY DailyBoundsAssumption
<1> QED BY <1>1, <1>2 DEF DailyState, DailyTypeOK

\* The clock and its corrections, as a state has them.
LEMMA DailyTypes ==
  ASSUME DailyState
  PROVE  /\ now \in 0 .. DailyMinutes /\ skew \in -Corrections .. Corrections
         /\ corrected \in 0 .. Corrections /\ lastSent \in {Never} \union 0 .. DailyMinutes
         /\ channel = {} \/ \E w \in Walls : channel = {w}
         /\ fired \subseteq 1 .. DailyMinutes
BY DEF DailyState, DailyTypeOK

LEMMA DailyTypeStep == DailyState /\ [DailyNext]_DailyVars => DailyState'
<1> SUFFICES ASSUME DailyState, [DailyNext]_DailyVars PROVE DailyState'
  OBVIOUS
<1> USE DailyBoundsAssumption DEF DailyState, DailyTypeOK, DailyBounds
<1>1. CASE UNCHANGED DailyVars
  BY <1>1 DEF DailyVars, dailyClock, send
<1>2. CASE Minute
  <2> HIDE DEF DailyState, DailyTypeOK, DailyBounds
  <2>1. /\ now < DailyMinutes /\ now' = now + 1
        /\ channel' = channel \/ channel' = {now + 1 + skew}
        /\ fired' = fired \/ fired' = fired \union {now + 1}
        /\ UNCHANGED <<skew, corrected, dailyPc, tickTime, send, requested, restarted>>
    BY <1>2 DEF Minute
  <2>2. now' \in 0 .. DailyMinutes /\ now + 1 + skew \in Walls /\ now + 1 \in 1 .. DailyMinutes
    <3>1. PICK n \in 0 .. DailyMinutes, k \in -Corrections .. Corrections : n = now /\ k = skew
      BY DailyTypes
    <3>2. n < DailyMinutes
      BY <2>1, <3>1
    <3>3. n + 1 \in 0 .. DailyMinutes /\ n + 1 + k \in Walls
      BY <3>2, WallInRange
    <3>4. n + 1 \in 1 .. DailyMinutes
      BY <3>3
    <3> QED BY <2>1, <3>1, <3>3, <3>4
  <2>3. channel' = {} \/ \E w \in Walls : channel' = {w}
    BY <2>1, <2>2, DailyTypes
  <2>4. fired' \subseteq 1 .. DailyMinutes
    BY <2>1, <2>2, DailyTypes
  <2>5. DailyTypeOK'
    BY <2>1, <2>2, <2>3, <2>4 DEF send, DailyState, DailyTypeOK
  <2>6. DailyBounds'
    BY <2>1 DEF send, DailyState, DailyBounds
  <2> QED BY <2>5, <2>6 DEF DailyState
<1>3. ASSUME NEW d \in {1, -1}, Correct(d) PROVE DailyState'
  <2> HIDE DEF DailyState, DailyTypeOK, DailyBounds
  <2>1. /\ corrected < Corrections /\ skew' = skew + d /\ corrected' = corrected + 1
        /\ UNCHANGED <<now, channel, dailyPc, tickTime, send, requested, restarted, fired>>
    BY <1>3 DEF Correct
  <2>2. corrected' \in 0 .. Corrections /\ skew' \in -corrected' .. corrected'
        /\ skew' \in -Corrections .. Corrections
    <3>1. PICK m \in Nat : m = Corrections
      BY DailyBoundsAssumption
    <3>2. PICK c \in 0 .. m : c = corrected
      BY <3>1, DailyTypes
    <3>3. PICK k \in -c .. c : k = skew
      BY <3>2 DEF DailyState, DailyBounds
    <3>4. c < m
      BY <2>1, <3>1, <3>2
    <3>5. c + 1 \in 0 .. m /\ k + d \in -(c + 1) .. c + 1 /\ k + d \in -m .. m
      BY <3>4
    <3>6. corrected' = c + 1 /\ skew' = k + d
      BY <2>1, <3>2, <3>3
    <3> QED BY <3>1, <3>5, <3>6
  <2>3. DailyTypeOK'
    BY <2>1, <2>2 DEF send, DailyState, DailyTypeOK
  <2>4. DailyBounds'
    BY <2>1, <2>2 DEF send, DailyState, DailyBounds
  <2> QED BY <2>3, <2>4 DEF DailyState
<1>4. CASE DailyTick
  BY <1>4 DEF DailyTick, send
<1>5. CASE Check
  BY <1>5 DEF Check, dailyClock, send, Nobody
<1>6. CASE TickerBegins
  BY <1>6, NotifiersAssumption, EmptySeq DEF TickerBegins, Begin, dailyClock
<1>7. CASE RequestBegins
  BY <1>7, NotifiersAssumption, EmptySeq DEF RequestBegins, Begin, dailyClock
<1>8. ASSUME NEW ok \in BOOLEAN, Dispatch(ok) PROVE DailyState'
  <2>1. Tail(todo) \in Seq(STRING) /\ Head(todo) \in STRING
    BY <1>8, HeadTailProperties DEF Dispatch
  <2>2. Append(tried, Head(todo)) \in Seq(STRING)
    BY <2>1, AppendProperties
  <2> QED BY <1>8, <2>1, <2>2 DEF Dispatch, dailyClock
<1>9. CASE Sent
  <2>1. reports' \in Seq(Reports)
    BY <1>9, SentAdds
  <2> QED BY <1>9, <2>1, EmptySeq DEF Sent, dailyClock, Nobody
<1>10. CASE SendNow
  <2> HIDE DEF DailyState, DailyTypeOK, DailyBounds
  <2>1. /\ requested < Requests /\ requested' = requested + 1 /\ waiting' = waiting + 1
        /\ UNCHANGED <<now, channel, skew, corrected, dailyPc, tickTime, holder, began, todo,
                       lastSent, tried, reports, restarted, fired>>
    BY <1>10 DEF SendNow, dailyClock
  <2>2. requested' \in 0 .. Requests /\ waiting' \in 0 .. Requests /\ waiting' <= requested'
    <3>1. PICK m \in Nat : m = Requests
      BY DailyBoundsAssumption
    <3>2. requested \in 0 .. m /\ waiting \in 0 .. m /\ waiting <= requested
      BY <3>1 DEF DailyState, DailyTypeOK, DailyBounds
    <3> QED BY <2>1, <3>1, <3>2
  <2>3. DailyTypeOK'
    BY <2>1, <2>2 DEF DailyState, DailyTypeOK
  <2>4. DailyBounds'
    BY <2>1, <2>2 DEF DailyState, DailyBounds
  <2> QED BY <2>3, <2>4 DEF DailyState
<1>11. CASE Restart
  BY <1>11, EmptySeq DEF Restart, Nobody
<1> QED BY <1>1, <1>2, <1>3, <1>4, <1>5, <1>6, <1>7, <1>8, <1>9, <1>10, <1>11 DEF DailyNext

LEMMA MoveHead ==
  ASSUME NEW S, NEW a \in Seq(S), NEW b \in Seq(S), b # << >>
  PROVE  Append(a, Head(b)) \o Tail(b) = a \o b
<1>1. Head(b) \in S /\ Tail(b) \in Seq(S)
  BY HeadTailProperties
<1>2. <<Head(b)>> \in Seq(S) /\ Append(a, Head(b)) = a \o <<Head(b)>>
  BY <1>1, AppendIsConcat
<1>3. (a \o <<Head(b)>>) \o Tail(b) = a \o (<<Head(b)>> \o Tail(b))
  BY <1>1, <1>2, ConcatAssociative
<1>4. <<Head(b)>> \o Tail(b) = b
  <2> DEFINE c == <<Head(b)>> \o Tail(b)
  <2>1. Len(<<Head(b)>>) = 1 /\ <<Head(b)>>[1] = b[1] /\ Len(Tail(b)) = Len(b) - 1
        /\ \A i \in 1 .. Len(Tail(b)) : Tail(b)[i] = b[i + 1]
    BY HeadTailProperties
  <2>2. c \in Seq(S) /\ Len(c) = Len(b) /\ Len(b) \in Nat
        /\ \A i \in 1 .. Len(b) : c[i] = IF i <= 1 THEN b[1] ELSE b[i]
    <3>1. /\ c \in Seq(S) /\ Len(c) = 1 + Len(Tail(b))
          /\ \A i \in 1 .. 1 + Len(Tail(b)) :
               c[i] = IF i <= 1 THEN <<Head(b)>>[i] ELSE Tail(b)[i - 1]
      BY <1>1, <1>2, <2>1, ConcatProperties
    <3>2. Len(b) \in Nat
      BY LenProperties
    <3> HIDE DEF c
    <3>3. ASSUME NEW i \in 1 .. Len(b) PROVE c[i] = IF i <= 1 THEN b[1] ELSE b[i]
      <4>1. CASE i = 1
        BY <2>1, <3>1, <3>2, <4>1
      <4>2. CASE i > 1
        <5>1. i - 1 \in 1 .. Len(Tail(b)) /\ i - 1 + 1 = i
          BY <2>1, <3>2, <4>2
        <5> QED BY <2>1, <3>1, <3>2, <4>2, <5>1
      <4> QED BY <3>2, <4>1, <4>2
    <3> QED BY <2>1, <3>1, <3>2, <3>3
  <2> HIDE DEF c
  <2>3. \A i \in 1 .. Len(c) : c[i] = b[i]
    BY <2>2
  <2>4. c = b
    BY <2>2, <2>3, SeqEqual
  <2> QED BY <2>4 DEF c
<1> QED BY <1>2, <1>3, <1>4

DispatchInv == DispatchInOrder /\ EveryNotifierTried

LEMMA DispatchStep == DailyState /\ DispatchInv /\ [DailyNext]_DailyVars => DispatchInv'
<1> SUFFICES ASSUME DailyState, DispatchInv, [DailyNext]_DailyVars PROVE DispatchInv'
  OBVIOUS
<1> USE DEF DispatchInv, DispatchInOrder, EveryNotifierTried
<1>1. CASE UNCHANGED DailyVars
  BY <1>1 DEF DailyVars, send
<1>2. CASE Minute
  BY <1>2 DEF Minute, send
<1>3. ASSUME NEW d \in {1, -1}, Correct(d) PROVE DispatchInv'
  BY <1>3 DEF Correct, send
<1>4. CASE DailyTick
  BY <1>4 DEF DailyTick, send
<1>5. CASE Check
  BY <1>5 DEF Check, send
<1>6. ASSUME NEW who, Begin(who) PROVE DispatchInv'
  <2>1. << >> \o Notifiers = Notifiers
    BY NotifiersAssumption, ConcatEmptySeq
  <2> QED BY <1>6, <2>1 DEF Begin
<1>7. ASSUME NEW ok \in BOOLEAN, Dispatch(ok) PROVE DispatchInv'
  <2>1. Append(tried, Head(todo)) \o Tail(todo) = tried \o todo
    BY <1>7, MoveHead DEF Dispatch, DailyState, DailyTypeOK
  <2> QED BY <1>7, <2>1 DEF Dispatch
<1>8. CASE Sent
  <2>1. tried = Notifiers
    <3>1. tried \o << >> = tried
      BY ConcatEmptySeq DEF DailyState, DailyTypeOK
    <3> QED BY <1>8, <3>1 DEF Sent
  <2>2. \A i \in DOMAIN reports' : reports'[i].tried = Notifiers
    BY <1>8, <2>1, SentAdds
  <2> QED BY <1>8, <2>2 DEF Sent
<1>9. CASE SendNow
  BY <1>9 DEF SendNow
<1>10. CASE Restart
  BY <1>10 DEF Restart
<1> QED BY <1>1, <1>2, <1>3, <1>4, <1>5, <1>6, <1>7, <1>8, <1>9, <1>10
           DEF DailyNext, TickerBegins, RequestBegins

LEMMA LastSentStep == DailyState /\ LastSentIsLast /\ [DailyNext]_DailyVars => LastSentIsLast'
<1> SUFFICES ASSUME DailyState, LastSentIsLast, [DailyNext]_DailyVars PROVE LastSentIsLast'
  OBVIOUS
<1>0. /\ now \in Nat /\ restarted \in Nat
      /\ lastSent \in Int /\ Never \in Int /\ Never < 0
      /\ \A i \in DOMAIN reports : reports[i].at \in Nat /\ reports[i].process \in Nat
  <2>1. DailyTypeOK
    BY DEF DailyState
  <2>2. \A i \in DOMAIN reports : reports[i].at \in Nat /\ reports[i].process \in Nat
    BY <2>1, ReportTypes, DailyBoundsAssumption
  <2>3. Never \in Int /\ Never < 0
    BY RecentAssumption, ScheduleAssumption DEF Never
  <2> QED BY <2>1, <2>2, <2>3, DailyBoundsAssumption DEF DailyTypeOK
<1> USE DEF LastSentIsLast
<1>1. CASE UNCHANGED <<now, lastSent, reports, restarted>>
  BY <1>1
<1>2. CASE Minute
  <2>1. now' = now + 1 /\ UNCHANGED <<lastSent, reports, restarted>>
    BY <1>2 DEF Minute, send
  <2> QED BY <1>0, <2>1
<1>3. CASE Sent
  <2>1. UNCHANGED <<now, restarted>> /\ lastSent' = now
    BY <1>3 DEF Sent, dailyClock
  <2>2. \A i \in DOMAIN reports' :
          /\ reports'[i].at <= now /\ reports'[i].process <= restarted
    BY <1>0, <1>3, SentAdds
  <2>3. \E i \in DOMAIN reports' : reports'[i].at = now
    BY <1>3, SentAdds, ReportTypes DEF DailyState
  <2> QED BY <1>0, <2>1, <2>2, <2>3
<1>4. CASE Restart
  <2>1. restarted' = restarted + 1 /\ lastSent' = Never /\ UNCHANGED <<now, reports>>
    BY <1>4 DEF Restart
  <2> QED BY <1>0, <2>1
<1>5. DailyNext => Minute \/ Sent \/ Restart \/ UNCHANGED <<now, lastSent, reports, restarted>>
  BY
     DEF DailyNext, Correct, DailyTick, Check, TickerBegins, RequestBegins, Begin, Dispatch,
         SendNow,
         dailyClock, send
<1> QED BY <1>1, <1>2, <1>3, <1>4, <1>5 DEF DailyVars, dailyClock, send

\* What the steps do to the clock and to the reports.
LEMMA ClockTypes ==
  DailyState => /\ now \in Nat /\ skew \in Int /\ corrected \in Nat /\ tickTime \in Int
                /\ \A w \in channel : w \in Int
                /\ restarted \in Nat
                /\ \A i \in DOMAIN reports :
                     reports[i].at \in Nat /\ reports[i].minute \in Int /\ reports[i].process \in Nat
<1> SUFFICES ASSUME DailyState
             PROVE  /\ now \in Nat /\ skew \in Int /\ corrected \in Nat /\ tickTime \in Int
                    /\ \A w \in channel : w \in Int
                    /\ restarted \in Nat
                    /\ \A i \in DOMAIN reports :
                         reports[i].at \in Nat /\ reports[i].minute \in Int /\ reports[i].process \in Nat
  OBVIOUS
<1>1. \A w \in Walls : w \in Int
  BY DailyBoundsAssumption DEF Walls
<1>2. \A w \in channel : w \in Int
  BY <1>1 DEF DailyState, DailyTypeOK
<1>3. /\ now \in Nat /\ skew \in Int /\ corrected \in Nat /\ tickTime \in Int /\ restarted \in Nat
  BY <1>1, DailyBoundsAssumption DEF DailyState, DailyTypeOK
<1>4. \A i \in DOMAIN reports :
        reports[i].at \in Nat /\ reports[i].minute \in Int /\ reports[i].process \in Nat
  BY ReportTypes, DailyBoundsAssumption DEF DailyState
<1> QED BY <1>2, <1>3, <1>4

LEMMA WallStep == DailyState /\ WallTimes /\ [DailyNext]_DailyVars => WallTimes'
<1> SUFFICES ASSUME DailyState, WallTimes, [DailyNext]_DailyVars PROVE WallTimes'
  OBVIOUS
<1>0. /\ now \in Nat /\ skew \in Int /\ corrected \in Nat /\ tickTime \in Int
      /\ \A w \in channel : w \in Int
      /\ \A i \in DOMAIN reports : reports[i].at \in Nat /\ reports[i].minute \in Int
  BY ClockTypes
<1> USE DEF WallTimes, Shown
<1>1. CASE UNCHANGED <<now, skew, corrected, channel, tickTime, reports>>
  BY <1>1
<1>2. CASE Minute
  <2>1. now' = now + 1 /\ UNCHANGED <<skew, corrected, tickTime, reports>>
        /\ channel' \in {channel, {now + 1 + skew}}
    BY <1>2 DEF Minute, send
  <2>2. \A w \in channel' : w <= now' + skew + corrected /\ (w = tickTime => corrected >= 1)
    <3>1. CASE channel' = channel
      BY <1>0, <2>1, <3>1
    <3>2. CASE channel' = {now + 1 + skew}
      BY <1>0, <2>1, <3>2
    <3> QED BY <2>1, <3>1, <3>2
  <2> QED BY <1>0, <2>1, <2>2
<1>3. ASSUME NEW d \in {1, -1}, Correct(d) PROVE WallTimes'
  <2>1. skew' = skew + d /\ corrected' = corrected + 1
        /\ UNCHANGED <<now, channel, tickTime, reports>>
    BY <1>3 DEF Correct, send
  <2>2. PICK a \in Int, b \in Int :
          a = skew' /\ b = corrected' /\ a + b >= skew + corrected /\ b >= 1
    BY <1>0, <2>1
  <2>7. a + b >= skew + corrected /\ b >= 1
    BY <2>2
  <2>3. ASSUME NEW w \in Int, NEW t \in Int, w <= t + skew + corrected
        PROVE  w <= t + a + b
    BY <1>0, <2>3, <2>7
  <2>4. \A i \in DOMAIN reports : reports[i].minute <= reports[i].at + a + b
    <3> SUFFICES ASSUME NEW i \in DOMAIN reports
                 PROVE  reports[i].minute <= reports[i].at + a + b
      OBVIOUS
    <3>1. PICK w \in Int, t \in Int : w = reports[i].minute /\ t = reports[i].at
      BY <1>0
    <3>2. w <= t + skew + corrected
      BY <3>1
    <3>3. w <= t + a + b
      BY <2>3, <3>2
    <3> QED BY <3>1, <3>3
  <2>5. \A w \in channel : w <= now + a + b /\ (w = tickTime => b >= 1)
    BY <1>0, <2>3, <2>7
  <2>6. tickTime <= now + a + b
    BY <1>0, <2>3
  <2> QED BY <2>1, <2>2, <2>4, <2>5, <2>6
<1>4. CASE DailyTick
  <2>1. UNCHANGED <<now, skew, corrected, reports>> /\ tickTime' \in channel /\ channel' = {}
    BY <1>4 DEF DailyTick, send
  <2> QED BY <2>1
<1>5. CASE Sent
  <2>1. UNCHANGED <<now, skew, corrected, channel, tickTime>>
    BY <1>5 DEF Sent, dailyClock
  <2>2. \A i \in DOMAIN reports' : reports'[i].minute <= reports'[i].at + skew + corrected
    BY <1>5, SentAdds
  <2> QED BY <2>1, <2>2
<1>6. CASE Restart
  BY <1>6 DEF Restart
<1>7. DailyNext => \/ Minute \/ DailyTick \/ Sent \/ Restart \/ \E d \in {1, -1} : Correct(d)
                   \/ UNCHANGED <<now, skew, corrected, channel, tickTime, reports>>
  BY
     DEF DailyNext, Check, TickerBegins, RequestBegins, Begin, Dispatch, SendNow, dailyClock,
         send
<1> QED BY <1>1, <1>2, <1>3, <1>4, <1>5, <1>6, <1>7 DEF DailyVars, dailyClock, send

LEMMA ServingStep == DailyState /\ LastSentIsLast /\ Serving /\ [DailyNext]_DailyVars => Serving'
<1> SUFFICES ASSUME DailyState, LastSentIsLast, Serving, [DailyNext]_DailyVars PROVE Serving'
  OBVIOUS
<1>0. /\ now \in Nat /\ \A t \in fired : t \in Nat /\ t <= now
      /\ RecentMinutes \in Nat \ {0}
      /\ \A i \in DOMAIN reports : reports[i].at \in Nat
  BY ClockTypes, RecentAssumption, ScheduleAssumption, DailyBoundsAssumption
     DEF DailyState, DailyTypeOK, Serving
<1> USE DEF Serving
<1>1. CASE UNCHANGED <<now, channel, dailyPc, reports, fired>>
  BY <1>1
<1>2. CASE Minute
  <2>1. now' = now + 1 /\ UNCHANGED <<dailyPc, reports>>
        /\ \/ channel' = channel /\ fired' = fired
           \/ /\ channel = {} /\ channel' = {now + 1 + skew}
              /\ fired' = IF IsScheduled(now + 1 + skew) THEN fired \union {now + 1} ELSE fired
    BY <1>2 DEF Minute, send
  <2>2. \A t \in fired' : t <= now'
    BY <1>0, <2>1
  <2>3. ASSUME NEW t \in fired'
        PROVE  \/ \E i \in DOMAIN reports : reports[i].at > t - RecentMinutes
               \/ \E w \in channel' : IsScheduled(w)
               \/ dailyPc # "wait"
    <3>1. CASE t \in fired
      BY <2>1, <3>1
    <3>2. CASE t \notin fired
      BY <2>1, <3>2
    <3> QED BY <3>1, <3>2
  <2>4. \A w : IsScheduled(w)' <=> IsScheduled(w)
    BY DEF IsScheduled
  <2> QED BY <2>1, <2>2, <2>3, <2>4
<1>3. CASE DailyTick
  <2>1. /\ UNCHANGED <<now, reports, fired>> /\ tickTime' \in channel
        /\ \A w \in channel : w = tickTime'
        /\ dailyPc' = IF IsScheduled(tickTime') THEN "check" ELSE "wait"
        /\ dailyPc = "wait"
    BY <1>3 DEF DailyTick, send, DailyState, DailyTypeOK
  <2> QED BY <2>1
<1>4. CASE Check
  <2>1. UNCHANGED <<now, channel, reports, fired>> /\ dailyPc' = IF Recent THEN "wait" ELSE "send"
    BY <1>4 DEF Check, dailyClock, send
  <2>2. CASE Recent
    <3>1. lastSent # Never /\ lastSent \in Int /\ now - lastSent < RecentMinutes
      <4>1. lastSent \in Int /\ now - lastSent < RecentMinutes
        BY <2>2, LastSentType DEF Recent
      <4>2. now \in Nat /\ RecentMinutes \in Nat
        BY <1>0
      <4>3. now - Never >= RecentMinutes
        BY <4>2 DEF Never
      <4> QED BY <4>1, <4>2, <4>3
    <3>2. PICK i \in DOMAIN reports : reports[i].at = lastSent
      BY <3>1 DEF LastSentIsLast
    <3>3. \A t \in fired : reports[i].at > t - RecentMinutes
      BY <1>0, <3>1, <3>2
    <3> QED BY <1>0, <2>1, <3>2, <3>3
  <2>3. CASE ~ Recent
    BY <1>0, <2>1, <2>3
  <2> QED BY <2>2, <2>3
<1>5. CASE Sent
  <2>1. UNCHANGED <<now, fired>>
    BY <1>5 DEF Sent, dailyClock
  <2>2. \E i \in DOMAIN reports' : reports'[i].at = now
    BY <1>5, SentAdds, ReportTypes DEF DailyState
  <2>3. \A t \in fired : now > t - RecentMinutes
    BY <1>0
  <2> QED BY <1>0, <2>1, <2>2, <2>3
<1>6. CASE Restart
  BY <1>6 DEF Restart
<1>7. DailyNext => \/ Minute \/ DailyTick \/ Check \/ Sent \/ Restart
                   \/ UNCHANGED <<now, channel, dailyPc, reports, fired>>
  BY
     DEF DailyNext, Correct, TickerBegins, RequestBegins, Begin, Dispatch, SendNow, dailyClock,
         send
<1> QED BY <1>1, <1>2, <1>3, <1>4, <1>5, <1>6, <1>7 DEF DailyVars, dailyClock, send

ClockInv == DailyState /\ LastSentIsLast /\ WallTimes /\ Pending

LEMMA PendingStep == ClockInv /\ [DailyNext]_DailyVars => Pending'
<1> SUFFICES ASSUME ClockInv, [DailyNext]_DailyVars PROVE Pending'
  OBVIOUS
<1>0. /\ now \in Nat /\ skew \in Int /\ corrected \in Nat /\ tickTime \in Int
      /\ \A w \in channel : w \in Int
      /\ \A i \in DOMAIN reports : /\ reports[i].at \in Nat /\ reports[i].at <= now
                                   /\ reports[i].minute \in Int
      /\ RecentMinutes \in Nat \ {0}
  BY ClockTypes, RecentAssumption, ScheduleAssumption DEF ClockInv, LastSentIsLast
<1> USE DEF Pending, FreshTick, TickerReports
<1>p. Pending
  BY DEF ClockInv
<1>1. ASSUME UNCHANGED <<now, corrected, channel, dailyPc, tickTime, reports, lastSent, restarted>>,
             holder' = holder \/ holder' # Nobody
      PROVE  Pending'
  BY <1>p, <1>1
<1>2. CASE Minute
  <2>1. /\ now' = now + 1
        /\ UNCHANGED <<skew, corrected, dailyPc, tickTime, reports, lastSent, restarted, holder>>
        /\ holder # Nobody \/ (channel = {} /\ dailyPc = "wait")
        /\ channel' = channel \/ channel' = {now + 1 + skew}
    BY <1>2 DEF Minute, send
  <2>2. \A i \in TickerReports(now + 1 + skew) : corrected >= now + 1 - reports[i].at
    <3> SUFFICES ASSUME NEW i \in DOMAIN reports, reports[i].minute = now + 1 + skew
                 PROVE  corrected >= now + 1 - reports[i].at
      OBVIOUS
    <3>1. now + 1 + skew <= reports[i].at + skew + corrected
      BY DEF ClockInv, WallTimes, Shown
    <3>2. PICK t \in Nat : t = reports[i].at
      BY <1>0
    <3> QED BY <1>0, <3>1, <3>2
  <2>3. \A i \in TickerReports(now + 1 + skew) : corrected >= 1
    <3> SUFFICES ASSUME NEW i \in TickerReports(now + 1 + skew) PROVE corrected >= 1
      OBVIOUS
    <3>1. PICK t \in Nat : t = reports[i].at /\ t <= now
      BY <1>0
    <3>2. corrected >= now + 1 - t
      BY <2>2, <3>1
    <3>3. now + 1 - t >= 1
      BY <1>0, <3>1
    <3> QED BY <1>0, <3>1, <3>2, <3>3
  <2>4. CASE channel' = channel
    BY <1>p, <2>1, <2>4
  <2>5. CASE channel' = {now + 1 + skew}
    <3>1. \A w \in channel' : FreshTick(w)'
      <4>1. \A w : TickerReports(w)' = TickerReports(w)
        BY <2>1
      <4>2. \A i \in TickerReports(now + 1 + skew) :
              corrected' >= 1 /\ corrected' >= now' - reports'[i].at
        <5>1. corrected' = corrected /\ now' = now + 1 /\ reports' = reports
          BY <2>1
        <5> HIDE DEF TickerReports
        <5> SUFFICES ASSUME NEW i \in TickerReports(now + 1 + skew)
                     PROVE  corrected' >= 1 /\ corrected' >= now' - reports'[i].at
          OBVIOUS
        <5>2. corrected >= 1 /\ corrected >= now + 1 - reports[i].at
          BY <2>2, <2>3
        <5>3. PICK t \in Nat : t = reports[i].at
          BY <1>0 DEF TickerReports
        <5>4. now' \in Nat /\ corrected' \in Nat /\ reports'[i].at = t
          BY <1>0, <5>1, <5>3
        <5>5. corrected >= 1 /\ corrected >= now + 1 - t
          BY <5>2, <5>3
        <5>6. now' = now + 1 /\ corrected' = corrected /\ now \in Nat /\ corrected \in Nat
          BY <1>0, <5>1
        <5> QED BY <5>4, <5>5, <5>6
      <4> HIDE DEF TickerReports
      <4> QED BY <2>5, <4>1, <4>2
    <3>2. dailyPc = "check" => FreshTick(tickTime)'
      BY <1>p, <2>1
    <3> QED BY <1>p, <2>1, <3>1, <3>2
  <2> QED BY <2>1, <2>4, <2>5
<1>3. ASSUME NEW d \in {1, -1}, Correct(d) PROVE Pending'
  <2>1. PICK b \in Nat : b = corrected' /\ b >= corrected
    BY <1>0, <1>3 DEF Correct
  <2>2. UNCHANGED <<now, channel, dailyPc, tickTime, reports, lastSent, restarted, holder>>
    BY <1>3 DEF Correct, send
  <2>3. \A k \in Int : corrected >= k => b >= k
    BY <1>0, <2>1
  <2>4. \A i \in DOMAIN reports : now - reports[i].at \in Int
    BY <1>0
  <2>5. \A i \in DOMAIN reports :
          (IF reports[i].process = restarted THEN RecentMinutes ELSE 1) \in Int
    BY <1>0
  <2>6. \A w : FreshTick(w) => \A i \in TickerReports(w) :
                 /\ b >= 1
                 /\ b >= now - reports[i].at \/ lastSent = now \/ holder # Nobody
    BY <2>3, <2>4
  <2>7. ASSUME dailyPc = "send", NEW i \in TickerReports(tickTime)
        PROVE  b >= IF reports[i].process = restarted THEN RecentMinutes ELSE 1
    BY <1>p, <2>3, <2>5, <2>7
  <2> QED BY <1>p, <2>1, <2>2, <2>6, <2>7
<1>4. CASE DailyTick
  <2>1. /\ UNCHANGED <<now, corrected, reports, lastSent, restarted, holder>>
        /\ tickTime' \in channel /\ channel' = {} /\ dailyPc' # "send"
    BY <1>4 DEF DailyTick, send
  <2> QED BY <1>p, <2>1
<1>5. CASE Check
  <2>1. /\ UNCHANGED <<now, corrected, channel, tickTime, reports, lastSent, restarted, holder>>
        /\ dailyPc = "check" /\ holder = Nobody
        /\ dailyPc' = IF Recent THEN "wait" ELSE "send"
    BY <1>5 DEF Check, dailyClock, send
  <2>2. CASE Recent
    BY <1>p, <2>1, <2>2
  <2>3. CASE ~ Recent
    <3>1. lastSent \in Int /\ lastSent # now /\ now - lastSent >= RecentMinutes
      <4>1. PICK l \in Int : l = lastSent
        BY LastSentType DEF ClockInv
      <4>2. PICK n \in Nat, r \in Nat \ {0} : n = now /\ r = RecentMinutes
        BY <1>0
      <4>3. ~ (n - l < r)
        BY <2>3, <4>1, <4>2, Zenon DEF Recent
      <4>4. l # n /\ n - l >= r
        BY <4>3
      <4> QED BY <4>1, <4>2, <4>4
    <3>2. ASSUME NEW i \in TickerReports(tickTime)
          PROVE  corrected >= IF reports[i].process = restarted THEN RecentMinutes ELSE 1
      <4>1. PICK t \in Nat : t = reports[i].at
        BY <1>0
      <4>2. corrected >= 1 /\ corrected >= now - t
        BY <1>p, <2>1, <3>1, <4>1
      <4>3. CASE reports[i].process = restarted
        <5>1. t <= lastSent
          BY <4>1, <4>3 DEF ClockInv, LastSentIsLast
        <5> QED BY <1>0, <3>1, <4>2, <4>3, <5>1
      <4> QED BY <4>2, <4>3
    <3> QED BY <1>p, <2>1, <2>3, <3>2
  <2> QED BY <2>2, <2>3
<1>6. CASE Sent
  <2>1. /\ UNCHANGED <<now, corrected, channel, tickTime, restarted>> /\ lastSent' = now
        /\ dailyPc' = IF holder = "ticker" THEN "wait" ELSE dailyPc
    BY <1>6 DEF Sent, dailyClock
  <2>2. \A i \in DOMAIN reports' :
          \/ i \in DOMAIN reports /\ reports'[i] = reports[i]
          \/ reports'[i].by = holder /\ reports'[i].minute = tickTime
    BY <1>6, SentAdds DEF ClockInv
  <2>3. \A w \in channel : w = tickTime => corrected >= 1
    BY DEF ClockInv, WallTimes
  <2>4. \A w \in channel : \A i \in TickerReports(w)' : corrected >= 1
    BY <1>p, <2>2, <2>3
  <2>5. CASE holder = "ticker"
    BY <2>1, <2>4, <2>5
  <2>6. CASE holder # "ticker"
    <3>1. \A w : \A i \in TickerReports(w)' : i \in TickerReports(w) /\ reports'[i] = reports[i]
      BY <2>2, <2>6
    <3> QED BY <1>p, <2>1, <2>4, <2>6, <3>1
  <2> QED BY <2>5, <2>6
<1>7. CASE Restart
  BY <1>7 DEF Restart
<1>8. DailyNext =>
        \/ Minute \/ DailyTick \/ Check \/ Sent \/ Restart \/ \E d \in {1, -1} : Correct(d)
        \/ /\ UNCHANGED <<now, corrected, channel, dailyPc, tickTime, reports, lastSent, restarted>>
           /\ holder' = holder \/ holder' # Nobody
  BY
     DEF DailyNext, TickerBegins, RequestBegins, Begin, Dispatch, SendNow, dailyClock, send,
         Nobody
<1> QED BY <1>1, <1>2, <1>3, <1>4, <1>5, <1>6, <1>7, <1>8 DEF DailyVars, dailyClock, send

LEMMA OnceStep == ClockInv /\ OncePerDay /\ [DailyNext]_DailyVars => OncePerDay'
<1> SUFFICES ASSUME ClockInv, OncePerDay, [DailyNext]_DailyVars PROVE OncePerDay'
  OBVIOUS
<1>0. corrected \in Nat /\ RecentMinutes \in Nat
  BY ClockTypes, RecentAssumption, ScheduleAssumption DEF ClockInv
<1> USE DEF OncePerDay
<1>1. CASE Sent
  <2>1. UNCHANGED <<corrected, restarted>>
    BY <1>1 DEF Sent, dailyClock
  <2>2. PICK n \in Nat : DOMAIN reports = 1 .. n /\ DOMAIN reports' = 1 .. n + 1 /\ n = Len(reports)
    BY <1>1, SentAdds, ReportTypes DEF ClockInv, DailyState
  <2>3. /\ \A i \in 1 .. n : reports'[i] = reports[i]
        /\ reports'[n + 1].by = holder /\ reports'[n + 1].minute = tickTime
        /\ reports'[n + 1].process = restarted
    BY <1>1, <2>2, SentAdds DEF ClockInv
  <2> SUFFICES ASSUME NEW i \in 1 .. n + 1, NEW j \in 1 .. n + 1, i < j,
                      reports'[i].by = "ticker", reports'[j].by = "ticker",
                      reports'[i].minute = reports'[j].minute
               PROVE  corrected >= IF reports'[i].process = reports'[j].process
                                     THEN RecentMinutes ELSE 1
    BY <2>1, <2>2
  <2>4. i \in 1 .. n /\ reports'[i] = reports[i]
    BY <2>2, <2>3
  <2>5. CASE j \in 1 .. n
    BY <2>2, <2>3, <2>4, <2>5
  <2>6. CASE j = n + 1
    <3>1. dailyPc = "send"
      BY <2>3, <2>6 DEF ClockInv, DailyState, DailyBounds
    <3>2. i \in TickerReports(tickTime)
      BY <2>2, <2>3, <2>4, <2>6 DEF TickerReports
    <3>3. corrected >= IF reports[i].process = restarted THEN RecentMinutes ELSE 1
      BY <3>1, <3>2 DEF ClockInv, Pending
    <3> QED BY <2>3, <2>4, <2>6, <3>3
  <2> QED BY <2>2, <2>5, <2>6
<1>2. ASSUME reports' = reports, NEW b \in Nat, b = corrected', b >= corrected PROVE OncePerDay'
  <2>1. \A k \in Int : corrected >= k => b >= k
    BY <1>0, <1>2
  <2>2. \A i, j \in DOMAIN reports :
          (IF reports[i].process = reports[j].process THEN RecentMinutes ELSE 1) \in Int
    BY <1>0
  <2> QED BY <1>2, <2>1, <2>2
<1>3. DailyNext => Sent \/ (reports' = reports /\ corrected' \in {corrected, corrected + 1})
  BY
     DEF DailyNext, Minute, Correct, DailyTick, Check, TickerBegins, RequestBegins, Begin,
         Dispatch,
         SendNow, Restart, dailyClock, send
<1>4. ASSUME reports' = reports, corrected' \in {corrected, corrected + 1} PROVE OncePerDay'
  <2>1. corrected' \in Nat /\ corrected' >= corrected
    BY <1>0, <1>4
  <2> QED BY <1>2, <1>4, <2>1
<1> QED BY <1>1, <1>3, <1>4 DEF DailyVars, dailyClock, send

LEMMA DailyInitInv == DailyInit => DailyInv
<1> SUFFICES ASSUME DailyInit PROVE DailyInv
  OBVIOUS
<1>1. reports = << >> /\ DOMAIN reports = {} /\ << >> \in Seq(STRING) /\ << >> \in Seq(Reports)
  BY EmptySeq DEF DailyInit
<1>2. DailyTypeOK
  BY <1>1, DailyBoundsAssumption DEF DailyInit, DailyTypeOK, Walls
<1>3. lastSent <= now /\ lastSent = Never /\ fired = {} /\ channel = {} /\ dailyPc = "wait"
      /\ tickTime = 0 /\ now = 0 /\ skew = 0 /\ corrected = 0 /\ holder = Nobody
      /\ waiting = 0 /\ requested = 0
  BY RecentAssumption, ScheduleAssumption DEF DailyInit, Never
<1>4. DailyBounds /\ DispatchInOrder /\ EveryNotifierTried
  BY <1>1, <1>3 DEF DailyBounds, DispatchInOrder, EveryNotifierTried, Nobody
<1>5. LastSentIsLast /\ WallTimes
  BY <1>1, <1>3 DEF LastSentIsLast, WallTimes, Shown
<1>6. Pending /\ Serving /\ OncePerDay
  BY <1>1, <1>3 DEF Pending, Serving, OncePerDay
<1> QED BY <1>2, <1>4, <1>5, <1>6 DEF DailyInv

LEMMA DailyStep == DailyInv /\ [DailyNext]_DailyVars => DailyInv'
<1> SUFFICES ASSUME DailyInv, [DailyNext]_DailyVars PROVE DailyInv'
  OBVIOUS
<1> USE DEF DailyInv, DailyState, DispatchInv, ClockInv
<1>1. (DailyTypeOK /\ DailyBounds)'
  BY DailyTypeStep
<1>2. (DispatchInOrder /\ EveryNotifierTried)'
  BY DispatchStep
<1>3. LastSentIsLast' /\ WallTimes' /\ Serving'
  BY LastSentStep, WallStep, ServingStep
<1>4. Pending' /\ OncePerDay'
  BY PendingStep, OnceStep
<1> QED BY <1>1, <1>2, <1>3, <1>4

LEMMA DailyInvariant == DailySpec => []DailyInv
  BY DailyInitInv, DailyStep, PTL DEF DailySpec

\* A scheduled minute leads to one report, not two and not none, and it goes to every
\* notifier.
THEOREM OneReportADayCorrect == DailySpec => []OneReportADay
<1>1. DailyInv => OneReportADay
  BY DEF DailyInv, OneReportADay, Serving, EveryDayServed
<1> QED BY <1>1, DailyInvariant, PTL
=============================================================================
