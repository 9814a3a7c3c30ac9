---------------------------- MODULE OllamaClient ----------------------------
(***************************************************************************)
(* llm/ollama.go: ThinkWithDecision, its retries and its circuit breaker,  *)
(* called by the goroutine of the system agent (agents/system_agent.go,    *)
(* the only caller) once per tick of its schedule.                         *)
(*                                                                         *)
(* Time is counted in ticks.  callCtx, the context of one run, expires     *)
(* after CallTimeout ticks or when the runtime shuts down.  The wait       *)
(* between two attempts is a time.Sleep: it ignores the context.           *)
(***************************************************************************)
EXTENDS CircuitBreaker

CONSTANTS MaxAttempts, CallTimeout

ASSUME MaxAttemptsAssumption == MaxAttempts \in Nat \ {0}
ASSUME CallTimeoutAssumption == CallTimeout \in Nat \ {0}

VARIABLES
  breaker,  \* OllamaClient.circuit
  phase,    \* where the goroutine of the system agent is: "idle", "check" (top of
            \* the loop), "think" (request in flight), "sleep" (between attempts)
  attempt,  \* loop variable, 0 when idle
  elapsed,  \* age of callCtx, 0 when idle
  stopped,  \* the runtime's context is cancelled
  healthy,  \* environment: Ollama answers every request, at once and with valid JSON
  failed    \* history: attempts in a row, over all runs, that gave no decision

run == <<phase, attempt, elapsed>>
vars == <<breaker, run, stopped, healthy, failed>>

\* failed is not counted beyond MaxFailures.
CountFailed == failed' = IF failed < MaxFailures THEN failed + 1 ELSE failed

Expired == stopped \/ elapsed = CallTimeout

Init ==
  /\ breaker = NewCircuitBreaker
  /\ phase = "idle"
  /\ attempt = 0
  /\ elapsed = 0
  /\ stopped = FALSE
  /\ healthy \in BOOLEAN
  /\ failed = 0

-----------------------------------------------------------------------------
(* One run of SystemAgent.Run                                              *)

\* The schedule fires and Allow lets the run start.
Start ==
  /\ phase = "idle"
  /\ ~ stopped
  /\ Allowed(breaker)
  /\ breaker' = AfterAllow(breaker)
  /\ phase' = "check"
  /\ attempt' = 1
  /\ UNCHANGED <<elapsed, stopped, healthy, failed>>

Return ==
  /\ phase' = "idle"
  /\ attempt' = 0
  /\ elapsed' = 0

\* Mutant: giving up on an expired context is not a failure.
ForgetOnExpiry ==
  /\ phase = "check"
  /\ Expired
  /\ Return
  /\ UNCHANGED <<breaker, stopped, healthy, failed>>

\* case <-ctx.Done()
GiveUpOnExpiry ==
  /\ phase = "check"
  /\ Expired
  /\ breaker' = AfterFailure(breaker)
  /\ Return
  /\ UNCHANGED <<stopped, healthy, failed>>

Send ==
  /\ phase = "check"
  /\ ~ Expired
  /\ phase' = "think"
  /\ UNCHANGED <<breaker, attempt, elapsed, stopped, healthy, failed>>

\* What follows an attempt that gave no decision: another one after a pause, or,
\* after the last one, one more RecordFailure and the fallback decision.
\* Mutants: the run does not record its own failure; it retries once too often.
RetryOrReturn(b) ==
  \/ /\ attempt < MaxAttempts
     /\ breaker' = b
     /\ phase' = "sleep"
     /\ UNCHANGED <<attempt, elapsed>>
  \/ /\ attempt = MaxAttempts
     /\ breaker' = b
     /\ Return

RetryForever(b) ==
  /\ breaker' = b
  /\ phase' = "sleep"
  /\ UNCHANGED <<attempt, elapsed>>

RetryOrFail(b) ==
  \/ /\ attempt < MaxAttempts
     /\ breaker' = b
     /\ phase' = "sleep"
     /\ UNCHANGED <<attempt, elapsed>>
  \/ /\ attempt = MaxAttempts
     /\ breaker' = AfterFailure(b)
     /\ Return

\* Think returned an error: refused, status not 200, or the context expired.
ThinkFails ==
  /\ phase = "think"
  /\ ~ healthy \/ Expired
  /\ RetryOrFail(AfterFailure(breaker))
  /\ CountFailed
  /\ UNCHANGED <<stopped, healthy>>

\* Think returned something ParseDecision refuses.
ThinkGarbage ==
  /\ phase = "think"
  /\ ~ healthy
  /\ RetryOrFail(breaker)
  /\ CountFailed
  /\ UNCHANGED <<stopped, healthy>>

ThinkSucceeds ==
  /\ phase = "think"
  /\ breaker' = AfterSuccess(breaker)
  /\ Return
  /\ failed' = 0
  /\ UNCHANGED <<stopped, healthy>>

\* time.Sleep is over; the loop goes round.
Wake ==
  /\ phase = "sleep"
  /\ phase' = "check"
  /\ attempt' = attempt + 1
  /\ UNCHANGED <<breaker, elapsed, stopped, healthy, failed>>

Agent ==
  Start \/ GiveUpOnExpiry \/ Send \/ ThinkFails \/ ThinkGarbage \/ ThinkSucceeds \/ Wake

-----------------------------------------------------------------------------
(* The environment                                                         *)

\* Time passes while the goroutine is idle, waits for an answer or sleeps.  A
\* request ends when its context expires, and a healthy Ollama answers in less
\* than a tick.
Tick ==
  /\ phase # "check"
  /\ phase = "think" => ~ Expired /\ ~ healthy
  /\ breaker' = Older(breaker)
  /\ elapsed' = IF phase # "idle" /\ elapsed < CallTimeout THEN elapsed + 1 ELSE elapsed
  /\ UNCHANGED <<phase, attempt, stopped, healthy, failed>>

Ollama ==
  /\ healthy' = ~ healthy
  /\ UNCHANGED <<breaker, run, stopped, failed>>

Shutdown ==
  /\ ~ stopped
  /\ stopped' = TRUE
  /\ UNCHANGED <<breaker, run, healthy, failed>>

-----------------------------------------------------------------------------

Next == Agent \/ Tick \/ Ollama \/ Shutdown

Spec == Init /\ [][Next]_vars

\* The goroutine runs, time passes, the schedule fires again and a request ends
\* at the latest when its context does.
FairSpec == Spec /\ WF_vars(Agent) /\ WF_vars(Tick)

-----------------------------------------------------------------------------
(* Properties                                                              *)

TypeOK ==
  /\ breaker \in Breakers
  /\ phase \in {"idle", "check", "think", "sleep"}
  /\ attempt \in 0 .. MaxAttempts
  /\ elapsed \in 0 .. CallTimeout
  /\ stopped \in BOOLEAN
  /\ healthy \in BOOLEAN
  /\ failed \in 0 .. MaxFailures

\* Nobody stays half-open: the breaker is in its test state only while the run
\* that Allow admitted as the test is still going.  Every exit of
\* ThinkWithDecision settles the test, although an answer that cannot be parsed
\* records nothing by itself.
HalfOpenOnlyDuringTest == breaker.state = "half-open" => phase # "idle"

\* The breaker never stays closed once MaxFailures failures have been recorded
\* since the last success, whichever mix of errors, garbage and expired contexts
\* recorded them.
ClosedBelowThreshold == breaker.state = "closed" => breaker.failures < MaxFailures

\* A run that ends without a decision leaves a trace: the breaker's clock
\* restarts, so an outage cannot be probed more often than every ResetTimeout.
FailedRunIsRecorded ==
  [][phase # "idle" /\ phase' = "idle" /\ failed' > 0 => breaker'.age = 0]_vars

\* Every run comes to an end, with its context expired or not.
RunEnds == phase # "idle" ~> phase = "idle"

\* Every run ends, and once Ollama is back for good the breaker closes and stays
\* closed, whatever state the outage left it in.
Recovery ==
  /\ RunEnds
  /\ <>[](healthy /\ ~ stopped) => <>[](breaker.state = "closed")
=============================================================================
