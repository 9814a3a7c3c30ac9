------------------------- MODULE OllamaClientProofs -------------------------
(***************************************************************************)
(* The breaker and the retry loop for any number of attempts, any failure  *)
(* threshold and any timeouts.                                             *)
(***************************************************************************)
EXTENDS OllamaClient, TLAPS

USE MaxFailuresAssumption, ResetTimeoutAssumption, MaxAttemptsAssumption,
    CallTimeoutAssumption

-----------------------------------------------------------------------------
(* The methods of the breaker                                              *)

\* RecordFailure never leaves a breaker half-open, restarts its clock, and
\* leaves it closed only below the threshold.
LEMMA AfterFailureLemma ==
  ASSUME NEW b \in Breakers
  PROVE  /\ AfterFailure(b) \in Breakers
         /\ AfterFailure(b).state # "half-open"
         /\ AfterFailure(b).age = 0
         /\ AfterFailure(b).state = "closed" => AfterFailure(b).failures < MaxFailures
<1>1. b.failures \in 0 .. MaxFailures /\ b.state \in {"closed", "open", "half-open"}
  BY DEF Breakers
<1>2. AfterFailure(b).failures = IF b.failures < MaxFailures THEN b.failures + 1 ELSE b.failures
  BY DEF AfterFailure, Breakers
<1>3. AfterFailure(b).state = IF b.state = "half-open" \/ (b.state = "closed" /\ Trips(b.failures))
                              THEN "open" ELSE b.state
  BY DEF AfterFailure, Breakers
<1>4. AfterFailure(b) \in Breakers /\ AfterFailure(b).age = 0
  <2> DEFINE f == IF b.failures < MaxFailures THEN b.failures + 1 ELSE b.failures
             st == IF b.state = "half-open" \/ (b.state = "closed" /\ Trips(b.failures))
                   THEN "open" ELSE b.state
  <2>1. f \in 0 .. MaxFailures
    BY <1>1
  <2>2. st \in {"closed", "open", "half-open"}
    BY <1>1
  <2>3. 0 \in 0 .. ResetTimeout
    OBVIOUS
  <2>4. AfterFailure(b) = [b EXCEPT !.failures = f, !.age = 0, !.state = st]
    BY DEF AfterFailure
  <2> HIDE DEF f, st
  <2> QED BY <2>1, <2>2, <2>3, <2>4 DEF Breakers
<1>5. AfterFailure(b).state = "closed" => AfterFailure(b).failures < MaxFailures
  BY <1>1, <1>2, <1>3 DEF Trips
<1> QED BY <1>1, <1>3, <1>4, <1>5

\* RecordSuccess closes a half-open breaker and clears the failures.
LEMMA AfterSuccessLemma ==
  ASSUME NEW b \in Breakers
  PROVE  /\ AfterSuccess(b) \in Breakers
         /\ AfterSuccess(b).state # "half-open"
         /\ AfterSuccess(b).failures = 0
<1> DEFINE st == IF b.state = "half-open" THEN "closed" ELSE b.state
<1>1. st \in {"closed", "open"} /\ 0 \in 0 .. MaxFailures
  BY DEF Breakers
<1>2. AfterSuccess(b) = [b EXCEPT !.failures = 0, !.state = st]
  BY DEF AfterSuccess
<1> HIDE DEF st
<1> QED BY <1>1, <1>2 DEF Breakers

\* Allow and the passing of time leave a closed breaker as it is, but for its
\* clock; time makes nobody half-open.
LEMMA AfterAllowLemma ==
  ASSUME NEW b \in Breakers
  PROVE  /\ AfterAllow(b) \in Breakers
         /\ AfterAllow(b).failures = b.failures
         /\ AfterAllow(b).state = "closed" => b.state = "closed"
BY DEF AfterAllow, Breakers

LEMMA OlderLemma ==
  ASSUME NEW b \in Breakers
  PROVE  /\ Older(b) \in Breakers
         /\ Older(b).failures = b.failures
         /\ Older(b).state = b.state
BY DEF Older, Breakers

-----------------------------------------------------------------------------
(* The invariants                                                          *)

\* The loop sleeps only when an attempt is left.
SleepsBetweenAttempts == phase = "sleep" => attempt < MaxAttempts

\* One induction for the types and both properties of the breaker: each step
\* that ends a run goes through RecordFailure or RecordSuccess.
Inv == TypeOK /\ SleepsBetweenAttempts /\ HalfOpenOnlyDuringTest /\ ClosedBelowThreshold

LEMMA InvStep ==
  ASSUME Inv, [Next]_vars
  PROVE  Inv'
<1> USE DEF Inv, TypeOK, SleepsBetweenAttempts, HalfOpenOnlyDuringTest,
       ClosedBelowThreshold
<1>1. CASE Start
  BY <1>1, AfterAllowLemma DEF Start
<1>2. CASE GiveUpOnExpiry
  BY <1>2, AfterFailureLemma DEF GiveUpOnExpiry, Return
<1>3. CASE Send
  BY <1>3 DEF Send
<1>4. CASE ThinkFails
  <2>1. breaker \in Breakers /\ AfterFailure(breaker) \in Breakers
    BY AfterFailureLemma
  <2>2. failed' \in 0 .. MaxFailures
    BY <1>4 DEF ThinkFails, CountFailed
  <2>3. CASE attempt < MaxAttempts
    BY <1>4, <2>1, <2>2, <2>3, AfterFailureLemma DEF ThinkFails, RetryOrFail
  <2>4. CASE attempt = MaxAttempts
    BY <1>4, <2>1, <2>2, <2>4, AfterFailureLemma DEF ThinkFails, RetryOrFail, Return
  <2> QED BY <2>3, <2>4
<1>5. CASE ThinkGarbage
  <2>1. failed' \in 0 .. MaxFailures
    BY <1>5 DEF ThinkGarbage, CountFailed
  <2>2. CASE attempt < MaxAttempts
    BY <1>5, <2>1, <2>2 DEF ThinkGarbage, RetryOrFail
  <2>3. CASE attempt = MaxAttempts
    BY <1>5, <2>1, <2>3, AfterFailureLemma DEF ThinkGarbage, RetryOrFail, Return
  <2> QED BY <2>2, <2>3
<1>6. CASE ThinkSucceeds
  BY <1>6, AfterSuccessLemma DEF ThinkSucceeds, Return
<1>7. CASE Wake
  <2>1. attempt + 1 \in 0 .. MaxAttempts
    BY <1>7 DEF Wake
  <2> QED BY <1>7, <2>1 DEF Wake
<1>8. CASE Tick
  <2>1. /\ Older(breaker) \in Breakers /\ Older(breaker).state = breaker.state
        /\ Older(breaker).failures = breaker.failures
    BY OlderLemma
  <2>2. elapsed' \in 0 .. CallTimeout
    BY <1>8 DEF Tick
  <2> QED BY <1>8, <2>1, <2>2 DEF Tick
<1>9. CASE Ollama
  <2>1. healthy' \in BOOLEAN /\ UNCHANGED <<breaker, phase, attempt, elapsed, stopped, failed>>
    BY <1>9 DEF Ollama, run
  <2> QED BY <2>1
<1>10. CASE Shutdown
  BY <1>10 DEF Shutdown, run
<1>11. CASE UNCHANGED vars
  BY <1>11 DEF vars, run
<1> QED
  BY <1>1, <1>2, <1>3, <1>4, <1>5, <1>6, <1>7, <1>8, <1>9, <1>10, <1>11 DEF Next, Agent

LEMMA Invariant == Spec => []Inv
<1>1. Init => Inv
  <2> SUFFICES ASSUME Init PROVE Inv
    OBVIOUS
  <2>1. /\ 0 \in 0 .. MaxFailures /\ ResetTimeout \in 0 .. ResetTimeout
        /\ 0 \in 0 .. MaxAttempts /\ 0 \in 0 .. CallTimeout /\ 0 < MaxFailures
    OBVIOUS
  <2>2. breaker \in Breakers /\ breaker.state = "closed" /\ breaker.failures < MaxFailures
    BY <2>1 DEF Init, NewCircuitBreaker, Breakers
  <2> QED
    BY <2>1, <2>2 DEF Init, Inv, TypeOK, SleepsBetweenAttempts, HalfOpenOnlyDuringTest,
       ClosedBelowThreshold
<1> QED
  BY <1>1, InvStep, PTL DEF Spec

\* ThinkWithDecision's variables and the breaker keep their types.
THEOREM TypeCorrect == Spec => []TypeOK
<1>1. Inv => TypeOK
  BY DEF Inv
<1> QED BY <1>1, Invariant, PTL

\* Whatever mix of answers ends a run, it does not leave the breaker half-open.
THEOREM HalfOpenOnlyDuringTestCorrect == Spec => []HalfOpenOnlyDuringTest
<1>1. Inv => HalfOpenOnlyDuringTest
  BY DEF Inv
<1> QED BY <1>1, Invariant, PTL

\* A closed breaker has recorded fewer than MaxFailures failures since the last
\* success.
THEOREM ClosedBelowThresholdCorrect == Spec => []ClosedBelowThreshold
<1>1. Inv => ClosedBelowThreshold
  BY DEF Inv
<1> QED BY <1>1, Invariant, PTL

\* Every way out of ThinkWithDecision without a decision restarts the breaker's
\* clock.
THEOREM FailedRunIsRecordedCorrect == Spec => FailedRunIsRecorded
<1> DEFINE Recorded == phase # "idle" /\ phase' = "idle" /\ failed' > 0 => breaker'.age = 0
<1>1. ASSUME Inv, [Next]_vars PROVE Recorded
  <2>1. breaker \in Breakers /\ AfterFailure(breaker) \in Breakers
    BY <1>1, AfterFailureLemma DEF Inv, TypeOK
  <2> SUFFICES ASSUME phase # "idle", phase' = "idle", failed' > 0
               PROVE  breaker'.age = 0
    OBVIOUS
  <2>2. CASE GiveUpOnExpiry
    BY <2>1, <2>2, AfterFailureLemma DEF GiveUpOnExpiry
  <2>3. CASE ThinkFails
    BY <2>1, <2>3, AfterFailureLemma DEF ThinkFails, RetryOrFail
  <2>4. CASE ThinkGarbage
    BY <2>1, <2>4, AfterFailureLemma DEF ThinkGarbage, RetryOrFail
  <2>5. CASE ThinkSucceeds
    BY <2>5 DEF ThinkSucceeds
  <2>6. CASE Start \/ Send \/ Wake \/ Tick \/ Ollama \/ Shutdown \/ UNCHANGED vars
    BY <2>6 DEF Start, Send, Wake, Tick, Ollama, Shutdown, vars, run
  <2> QED
    BY <1>1, <2>2, <2>3, <2>4, <2>5, <2>6 DEF Next, Agent
<1>2. Inv /\ [Next]_vars => [Recorded]_vars
  BY <1>1
<1> QED
  BY <1>2, Invariant, PTL DEF Spec, FailedRunIsRecorded

-----------------------------------------------------------------------------
(* What Recovery rests on: runs are short, and a healthy service is not     *)
(* mistaken for a broken one                                                *)

\* The steps ThinkWithDecision still makes at most before it returns.
StepsLeft ==
  IF phase = "idle" THEN 0
  ELSE 3 * (MaxAttempts - attempt)
         + (IF phase = "check" THEN 3 ELSE IF phase = "think" THEN 2 ELSE 1)

LoopCounts == phase # "idle" => attempt >= 1

StepsShrink ==
  [][phase # "idle" => StepsLeft' < StepsLeft \/ UNCHANGED <<phase, attempt>>]_vars

LEMMA StepsType ==
  ASSUME TypeOK, LoopCounts
  PROVE  StepsLeft \in 0 .. 3 * MaxAttempts
<1>1. PICK m \in Nat \ {0}, a \in Nat : m = MaxAttempts /\ a = attempt /\ a <= m
  BY DEF TypeOK
<1>2. CASE phase = "idle"
  <2>1. 0 \in 0 .. 3 * m
    OBVIOUS
  <2> QED BY <1>1, <1>2, <2>1 DEF StepsLeft
<1>3. CASE phase # "idle"
  <2>1. PICK r \in {1, 2, 3} :
          r = IF phase = "check" THEN 3 ELSE IF phase = "think" THEN 2 ELSE 1
    OBVIOUS
  <2>2. a >= 1
    BY <1>1, <1>3 DEF LoopCounts
  <2>3. 3 * (m - a) + r \in 0 .. 3 * m
    BY <1>1, <2>2
  <2>4. StepsLeft = 3 * (m - a) + r
    BY <1>1, <1>3, <2>1 DEF StepsLeft
  <2> QED BY <1>1, <2>3, <2>4
<1> QED BY <1>2, <1>3

\* The phase and the loop variable move in one of these ways.
LEMMA LoopMoves ==
  ASSUME [Next]_vars
  PROVE  \/ UNCHANGED <<phase, attempt>>
         \/ phase = "idle" /\ phase' = "check" /\ attempt' = 1
         \/ phase = "check" /\ phase' = "think" /\ attempt' = attempt
         \/ phase = "think" /\ phase' = "sleep" /\ attempt' = attempt
         \/ phase = "sleep" /\ phase' = "check" /\ attempt' = attempt + 1
         \/ phase # "idle" /\ phase # "sleep" /\ phase' = "idle"
<1>1. CASE Start
  BY <1>1 DEF Start
<1>2. CASE GiveUpOnExpiry \/ ThinkSucceeds
  BY <1>2 DEF GiveUpOnExpiry, ThinkSucceeds, Return
<1>3. CASE Send
  BY <1>3 DEF Send
<1>4. CASE ThinkFails \/ ThinkGarbage
  BY <1>4 DEF ThinkFails, ThinkGarbage, RetryOrFail, Return
<1>5. CASE Wake
  BY <1>5 DEF Wake
<1>6. CASE Tick \/ Ollama \/ Shutdown \/ UNCHANGED vars
  BY <1>6 DEF Tick, Ollama, Shutdown, vars, run
<1> QED BY <1>1, <1>2, <1>3, <1>4, <1>5, <1>6 DEF Next, Agent

\* Whatever Ollama answers, whenever the context ends and however often it goes up and
\* down, a run of ThinkWithDecision is over after three steps for each attempt
\* (ollama.go: the loop to maxAttempts): nothing but the run moves it and none of its
\* steps goes back.
THEOREM RunIsBoundedCorrect == Spec => [](StepsLeft \in 0 .. 3 * MaxAttempts) /\ StepsShrink
<1>1. Init => LoopCounts
  BY DEF Init, LoopCounts
<1>2. ASSUME TypeOK, LoopCounts, [Next]_vars PROVE LoopCounts'
  <2>1. attempt \in Nat
    BY <1>2 DEF TypeOK
  <2> QED BY <1>2, <2>1, LoopMoves DEF LoopCounts
<1>3. ASSUME TypeOK, LoopCounts, [Next]_vars
      PROVE  phase # "idle" => StepsLeft' < StepsLeft \/ UNCHANGED <<phase, attempt>>
  <2> SUFFICES ASSUME phase # "idle", ~ UNCHANGED <<phase, attempt>>
               PROVE  StepsLeft' < StepsLeft
    OBVIOUS
  <2>1. PICK m \in Nat \ {0}, a \in Nat : m = MaxAttempts /\ a = attempt /\ a <= m
    BY <1>3 DEF TypeOK
  <2>2. PICK r \in {1, 2, 3} :
          r = IF phase = "check" THEN 3 ELSE IF phase = "think" THEN 2 ELSE 1
    OBVIOUS
  <2>3. StepsLeft = 3 * (m - a) + r
    BY <2>1, <2>2 DEF StepsLeft
  <2>4. CASE phase' = "idle"
    <3>1. 0 < 3 * (m - a) + r
      BY <2>1
    <3> QED BY <2>3, <2>4, <3>1 DEF StepsLeft
  <2>5. CASE phase \in {"check", "think"} /\ attempt' = attempt /\ phase' # "idle"
    <3>1. PICK q \in {1, 2} : q < r /\ StepsLeft' = 3 * (m - a) + q
      BY <1>3, <2>1, <2>2, <2>5, LoopMoves DEF StepsLeft
    <3> QED BY <2>3, <3>1
  <2>6. CASE phase = "sleep" /\ phase' = "check" /\ attempt' = attempt + 1
    <3>1. r = 1 /\ StepsLeft' = 3 * (m - (a + 1)) + 3
      BY <2>1, <2>2, <2>6 DEF StepsLeft
    <3>2. 3 * (m - (a + 1)) + 3 < 3 * (m - a) + 1
      OBVIOUS
    <3> QED BY <2>3, <3>1, <3>2
  <2> QED BY <1>3, <2>4, <2>5, <2>6, LoopMoves
<1>4. TypeOK /\ LoopCounts => StepsLeft \in 0 .. 3 * MaxAttempts
  BY StepsType
<1>5. Spec => [](TypeOK /\ LoopCounts)
  BY <1>1, <1>2, TypeCorrect, PTL DEF Spec
<1>6. TypeOK /\ LoopCounts /\ [Next]_vars
        => [phase # "idle" => StepsLeft' < StepsLeft \/ UNCHANGED <<phase, attempt>>]_vars
  BY <1>3
<1> QED BY <1>4, <1>5, <1>6, PTL DEF Spec, StepsShrink

\* Ollama answers and the runtime goes on.
Well == healthy /\ ~ stopped

\* No run is left over from before Ollama was back: none sleeps, and none has used up any
\* of the time its context has.
OnTime == phase # "sleep" /\ elapsed = 0

\* While Ollama answers no run fails.
LEMMA WellStep ==
  ASSUME Inv, OnTime, Well, [Next]_vars
  PROVE  /\ OnTime'
         /\ breaker.state = "closed" => breaker'.state = "closed"
         /\ breaker.state # "open" => breaker'.state # "open"
<1> USE DEF OnTime, Well
<1>0. breaker \in Breakers /\ ~ Expired
  BY DEF Inv, TypeOK, Expired
<1>1. CASE Start
  <2>1. UNCHANGED elapsed /\ phase' = "check" /\ breaker' = AfterAllow(breaker)
    BY <1>1 DEF Start
  <2>2. breaker.state # "open" => AfterAllow(breaker) = breaker
    BY DEF AfterAllow
  <2> QED BY <2>1, <2>2
<1>2. CASE GiveUpOnExpiry \/ ThinkFails \/ ThinkGarbage
  BY <1>0, <1>2 DEF GiveUpOnExpiry, ThinkFails, ThinkGarbage
<1>3. CASE Send
  BY <1>3 DEF Send
<1>4. CASE ThinkSucceeds
  <2>1. phase' = "idle" /\ elapsed' = 0 /\ breaker' = AfterSuccess(breaker)
    BY <1>4 DEF ThinkSucceeds, Return
  <2>2. AfterSuccess(breaker).state
          = IF breaker.state = "half-open" THEN "closed" ELSE breaker.state
    BY <1>0 DEF AfterSuccess, Breakers
  <2> QED BY <2>1, <2>2
<1>5. CASE Wake
  BY <1>5 DEF Wake
<1>6. CASE Tick
  <2>1. phase = "idle" /\ UNCHANGED <<phase, elapsed>> /\ breaker' = Older(breaker)
    BY <1>6 DEF Tick, Inv, TypeOK
  <2>2. Older(breaker).state = breaker.state
    BY <1>0, OlderLemma
  <2> QED BY <2>1, <2>2
<1>7. CASE Ollama \/ Shutdown \/ UNCHANGED vars
  BY <1>7 DEF Ollama, Shutdown, vars, run
<1> QED BY <1>1, <1>2, <1>3, <1>4, <1>5, <1>6, <1>7 DEF Next, Agent

\* Once Ollama is up for good and the run it came back in is over, a closed breaker
\* stays closed, and one that is testing does not open again, for any threshold and any
\* timeout: a run that begins (ollama.go: ThinkWithDecision) has its answer before its
\* context is done, so that nothing is recorded as a failure.
THEOREM HealthyNeverTripsCorrect ==
  Spec => /\ [](OnTime /\ breaker.state = "closed" /\ []Well => [](breaker.state = "closed"))
          /\ [](OnTime /\ breaker.state # "open" /\ []Well => [](breaker.state # "open"))
<1> DEFINE C == breaker.state = "closed"
           N == breaker.state # "open"
<1>1. Inv /\ OnTime /\ C /\ Well /\ [Next]_vars => OnTime' /\ C'
  BY WellStep
<1>2. Inv /\ OnTime /\ N /\ Well /\ [Next]_vars => OnTime' /\ N'
  BY WellStep
<1> HIDE DEF C, N
<1>3. Spec => /\ [](OnTime /\ C /\ []Well => []C)
              /\ [](OnTime /\ N /\ []Well => []N)
  BY <1>1, <1>2, Invariant, PTL DEF Spec
<1> QED BY <1>3 DEF C, N
=============================================================================
