------------------------- MODULE OrchestratorProofs -------------------------
(***************************************************************************)
(* The orchestrator for any number of goroutines, any observations, any    *)
(* answers of the model, any commands and any cooldown.                    *)
(***************************************************************************)
EXTENDS Orchestrator, SequenceTheorems, TLAPS

USE HandlersAssumption, SnapshotsAssumption, AnswersAssumption, TrimAssumption,
    CooldownAssumption, InboxCapAssumption, NoCommandAssumption

-----------------------------------------------------------------------------
(* Decisions                                                               *)

\* Whatever the model answers becomes a well-formed decision, and one with a
\* command only if the answer asks for that command and is sure enough.
LEMMA DecisionLemma ==
  ASSUME NEW answer \in Answers
  PROVE  /\ DecisionOf(answer) \in Decisions
         /\ DecisionOf(answer).command # NoCommand =>
              /\ Parses(answer) /\ ~ Doubtful(answer)
              /\ DecisionOf(answer).command = answer.command
<1>1. CASE Parses(answer)
  <2>1. answer.action \in validActions /\ answer.command \in Commands \union {NoCommand}
    BY <1>1 DEF Parses, JSONAnswers
  <2> QED BY <1>1, <2>1 DEF DecisionOf, validateDecision, Decisions, validActions
<1>2. CASE ~ Parses(answer)
  BY <1>2 DEF DecisionOf, fallbackDecision, Decisions, validActions
<1> QED BY <1>1, <1>2

-----------------------------------------------------------------------------
(* The invariant                                                           *)

\* Past TryLock and before Unlock one is the holder of the mutex, and only then.
HolderInside == \A h \in Handlers : pc[h] \notin {"free", "spawned"} <=> mu = h

\* A record has a command only if its answer asked for it with confidence, and
\* the triggers of an execute are the snapshot the model was shown.
Grounded(record) ==
  /\ record \in Records
  /\ record.command # NoCommand =>
       /\ Parses(record.answer) /\ ~ Doubtful(record.answer)
       /\ record.command = record.answer.command
  /\ record.action = "execute" => record.trigger = record.basis

LastGrounded == last # NoRecord => Grounded(last)

\* What is known of the command that runs.
JobGrounded ==
  \A h \in Handlers : pc[h] = "running" =>
    /\ Grounded(job[h])
    /\ job[h].command # NoCommand
    /\ job[h].command = guard.LastCmd
    /\ shouldExecute(job[h], snap[h])

Inv ==
  /\ TypeOK /\ HolderInside /\ CycleSeesItsSnapshot
  /\ LastGrounded /\ JobGrounded /\ ResultOfLastAllowed

LEMMA InvInit == Init => Inv
<1> SUFFICES ASSUME Init PROVE Inv
  OBVIOUS
<1>1. TypeOK
  BY EmptySeq DEF Init, TypeOK, Phases, Commands0
<1>2. HolderInside /\ CycleSeesItsSnapshot /\ LastGrounded /\ JobGrounded
  BY DEF Init, HolderInside, CycleSeesItsSnapshot, LastGrounded, JobGrounded
<1>3. ResultOfLastAllowed
  BY DEF Init, ResultOfLastAllowed, TrimOf
<1> QED BY <1>1, <1>2, <1>3 DEF Inv

-----------------------------------------------------------------------------
(* The subscription                                                        *)

\* Publishing keeps the inbox well-formed and within its capacity.
LEMMA PublishLemma ==
  ASSUME TypeOK, NEW e \in Events, Publish(e)
  PROVE  inbox' \in Seq(Events) /\ Len(inbox') <= InboxCap
<1>1. CASE inbox' = Append(inbox, e) /\ Len(inbox) < InboxCap
  BY <1>1, AppendProperties DEF TypeOK
<1>2. CASE UNCHANGED inbox
  BY <1>2 DEF TypeOK
<1> QED BY <1>1, <1>2 DEF Publish

\* Taking an event does, too, and an observation carries a snapshot.
LEMMA TakeLemma ==
  ASSUME TypeOK, inbox # << >>
  PROVE  /\ Tail(inbox) \in Seq(Events) /\ Len(Tail(inbox)) <= InboxCap
         /\ Head(inbox)[1] = "observed" => Head(inbox)[2] \in Snapshots
<1>1. /\ Head(inbox) \in Events /\ Tail(inbox) \in Seq(Events)
      /\ Len(Tail(inbox)) = Len(inbox) - 1 /\ Len(inbox) \in Nat /\ Len(inbox) <= InboxCap
  BY HeadTailProperties DEF TypeOK
<1>2. ASSUME NEW e \in Events, e[1] = "observed" PROVE e[2] \in Snapshots
  BY <1>2 DEF Events, Observed, Error, Executed
<1> QED BY <1>1, <1>2

-----------------------------------------------------------------------------
(* One step of a cycle                                                     *)

LEMMA HandlerStep ==
  ASSUME Inv, NEW h \in Handlers, handleObserved(h)
  PROVE  Inv'
<1> USE DEF Inv
<1>0. /\ pc \in [Handlers -> Phases] /\ snap \in [Handlers -> Snapshots \union {ZeroSnapshot}]
      /\ job \in [Handlers -> Records \union {NoRecord}]
      /\ mu \in Handlers \union {NoHandler} /\ NoHandler \notin Handlers
      /\ guard \in [LastCmd : Commands0, age : 0 .. Cooldown]
      /\ \A g \in Handlers : pc[g] \notin {"free", "spawned"} <=> mu = g
  BY DEF TypeOK, HolderInside
<1>1. CASE Enter(h)
  <2>1. /\ pc[h] = "spawned" /\ mu = NoHandler /\ mu' = h /\ lastSnap' = snap[h]
        /\ pc' = [pc EXCEPT ![h] = "entered"]
        /\ UNCHANGED <<inbox, listening, snap, job, guard, lastResult, last, thinking, dryRun>>
    BY <1>1 DEF Enter, execGuard
  <2>2. TypeOK'
    BY <1>0, <2>1 DEF TypeOK, Phases
  <2>3. HolderInside' /\ CycleSeesItsSnapshot' /\ LastGrounded'
    BY <1>0, <2>1 DEF HolderInside, CycleSeesItsSnapshot, LastGrounded
  <2>4. JobGrounded' /\ ResultOfLastAllowed'
    BY <1>0, <2>1 DEF JobGrounded, ResultOfLastAllowed, shouldExecute
  <2> QED BY <2>2, <2>3, <2>4
<1>2. CASE Skip(h)
  <2>1. /\ pc[h] = "spawned" /\ mu # NoHandler
        /\ pc' = [pc EXCEPT ![h] = "free"] /\ snap' = [snap EXCEPT ![h] = ZeroSnapshot]
        /\ UNCHANGED <<inbox, listening, job, mu, lastSnap, guard, lastResult, last,
                       thinking, dryRun>>
    BY <1>2 DEF Skip, Done, execGuard
  <2>2. TypeOK'
    BY <1>0, <2>1 DEF TypeOK, Phases
  <2>3. HolderInside' /\ CycleSeesItsSnapshot' /\ LastGrounded'
    BY <1>0, <2>1 DEF HolderInside, CycleSeesItsSnapshot, LastGrounded
  <2>4. JobGrounded' /\ ResultOfLastAllowed'
    BY <1>0, <2>1 DEF JobGrounded, ResultOfLastAllowed, shouldExecute
  <2> QED BY <2>2, <2>3, <2>4
<1>3. CASE StartCommand(h)
  <2>1. /\ pc[h] = "entered" /\ last # NoRecord /\ last.command # NoCommand
        /\ shouldExecute(last, snap[h])
        /\ guard' = [LastCmd |-> last.command, age |-> 0]
        /\ job' = [job EXCEPT ![h] = last] /\ pc' = [pc EXCEPT ![h] = "running"]
        /\ UNCHANGED <<inbox, listening, snap, mu, lastSnap, lastResult, last, thinking, dryRun>>
    BY <1>3 DEF StartCommand, Verified, HasCommand, Remember
  <2>2. Grounded(last) /\ last \in Records /\ last.command \in Commands0
    BY <2>1 DEF LastGrounded, Grounded, Records
  <2>3. TypeOK'
    BY <1>0, <2>1, <2>2 DEF TypeOK, Phases
  <2>4. HolderInside' /\ CycleSeesItsSnapshot' /\ LastGrounded'
    BY <1>0, <2>1 DEF HolderInside, CycleSeesItsSnapshot, LastGrounded
  <2>5. \A g \in Handlers : pc'[g] = "running" => g = h
    BY <1>0, <2>1
  <2>6. JobGrounded'
    BY <1>0, <2>1, <2>2, <2>5 DEF JobGrounded, shouldExecute, Grounded
  <2>7. ResultOfLastAllowed'
    BY <1>0, <2>1 DEF ResultOfLastAllowed
  <2> QED BY <2>3, <2>4, <2>6, <2>7
<1>4. CASE NoCommandRun(h)
  <2>1. /\ pc[h] = "entered" /\ pc' = [pc EXCEPT ![h] = "leaving"]
        /\ UNCHANGED <<inbox, listening, snap, job, mu, lastSnap, guard, lastResult, last,
                       thinking, dryRun>>
    BY <1>4 DEF NoCommandRun, Refuse
  <2>2. TypeOK'
    BY <1>0, <2>1 DEF TypeOK, Phases
  <2>3. HolderInside' /\ CycleSeesItsSnapshot' /\ LastGrounded'
    BY <1>0, <2>1 DEF HolderInside, CycleSeesItsSnapshot, LastGrounded
  <2>4. JobGrounded' /\ ResultOfLastAllowed'
    BY <1>0, <2>1 DEF JobGrounded, ResultOfLastAllowed, shouldExecute
  <2> QED BY <2>2, <2>3, <2>4
<1>5. CASE FinishCommand(h)
  <2>1. /\ pc[h] = "running" /\ lastResult' = Trim[job[h].command]
        /\ job' = [job EXCEPT ![h] = NoRecord]
        /\ \/ pc' = [pc EXCEPT ![h] = "leaving"]
           \/ pc' = [pc EXCEPT ![h] = "publishing"]
        /\ UNCHANGED <<inbox, listening, snap, mu, lastSnap, guard, last, thinking, dryRun>>
    BY <1>5 DEF FinishCommand
  <2>2. /\ job[h].command \in Commands /\ job[h].command = guard.LastCmd
        /\ job[h].command # NoCommand
    BY <2>1 DEF JobGrounded, Grounded, Records, Commands0
  <2>3. TypeOK'
    BY <1>0, <2>1, <2>2 DEF TypeOK, Phases, Commands0
  <2>4. HolderInside' /\ CycleSeesItsSnapshot' /\ LastGrounded'
    BY <1>0, <2>1 DEF HolderInside, CycleSeesItsSnapshot, LastGrounded
  <2>5. \A g \in Handlers : pc'[g] # "running"
    BY <1>0, <2>1
  <2>6. JobGrounded'
    BY <2>5 DEF JobGrounded
  <2>7. ResultOfLastAllowed'
    BY <2>1, <2>2 DEF ResultOfLastAllowed, TrimOf
  <2> QED BY <2>3, <2>4, <2>6, <2>7
<1>6. CASE PublishResult(h)
  <2>1. /\ pc[h] = "publishing" /\ pc' = [pc EXCEPT ![h] = "leaving"]
        /\ UNCHANGED <<listening, snap, job, mu, lastSnap, guard, lastResult, last,
                       thinking, dryRun>>
    BY <1>6 DEF PublishResult, execGuard
  <2>2. inbox' \in Seq(Events) /\ Len(inbox') <= InboxCap
    BY <1>6, PublishLemma DEF PublishResult, Events
  <2>3. TypeOK'
    BY <1>0, <2>1, <2>2 DEF TypeOK, Phases
  <2>4. HolderInside' /\ CycleSeesItsSnapshot' /\ LastGrounded'
    BY <1>0, <2>1 DEF HolderInside, CycleSeesItsSnapshot, LastGrounded
  <2>5. JobGrounded' /\ ResultOfLastAllowed'
    BY <1>0, <2>1 DEF JobGrounded, ResultOfLastAllowed, shouldExecute
  <2> QED BY <2>3, <2>4, <2>5
<1>7. CASE Leave(h)
  <2>1. /\ pc[h] = "leaving" /\ mu' = NoHandler
        /\ pc' = [pc EXCEPT ![h] = "free"] /\ snap' = [snap EXCEPT ![h] = ZeroSnapshot]
        /\ UNCHANGED <<inbox, listening, job, lastSnap, guard, lastResult, last, thinking,
                       dryRun>>
    BY <1>7 DEF Leave, Done, execGuard
  <2>2. TypeOK'
    BY <1>0, <2>1 DEF TypeOK, Phases
  <2>3. HolderInside' /\ CycleSeesItsSnapshot' /\ LastGrounded'
    BY <1>0, <2>1 DEF HolderInside, CycleSeesItsSnapshot, LastGrounded
  <2>4. JobGrounded' /\ ResultOfLastAllowed'
    BY <1>0, <2>1 DEF JobGrounded, ResultOfLastAllowed, shouldExecute
  <2> QED BY <2>2, <2>3, <2>4
<1> QED
  BY <1>1, <1>2, <1>3, <1>4, <1>5, <1>6, <1>7 DEF handleObserved

-----------------------------------------------------------------------------
(* The steps of the others                                                 *)

LEMMA InvStep == Inv /\ [Next]_vars => Inv'
<1> SUFFICES ASSUME Inv, [Next]_vars PROVE Inv'
  OBVIOUS
<1> USE DEF Inv
<1>1. CASE Observe
  <2>1. UNCHANGED <<listening, pc, snap, job, mu, lastSnap, guard, lastResult, last, thinking,
                    dryRun>>
    BY <1>1 DEF Observe, cycle, execGuard
  <2>2. inbox' \in Seq(Events) /\ Len(inbox') <= InboxCap
    BY <1>1, PublishLemma DEF Observe, Events
  <2> QED
    BY <2>1, <2>2 DEF TypeOK, HolderInside, CycleSeesItsSnapshot, LastGrounded, JobGrounded,
                      ResultOfLastAllowed, shouldExecute
<1>2. ASSUME NEW h \in Handlers, Spawn(h) PROVE Inv'
  <2>1. /\ pc[h] = "free" /\ pc' = [pc EXCEPT ![h] = "spawned"]
        /\ snap' = [snap EXCEPT ![h] = Head(inbox)[2]] /\ inbox' = Tail(inbox)
        /\ UNCHANGED <<listening, job, mu, lastSnap, guard, lastResult, last, thinking, dryRun>>
    BY <1>2 DEF Spawn, execGuard
  <2>2. /\ Head(inbox)[2] \in Snapshots
        /\ inbox' \in Seq(Events) /\ Len(inbox') <= InboxCap
    BY <1>2, <2>1, TakeLemma DEF Spawn
  <2>3. TypeOK'
    BY <2>1, <2>2 DEF TypeOK, Phases
  <2>4. mu # h /\ pc \in [Handlers -> Phases] /\ mu \in Handlers \union {NoHandler}
        /\ snap \in [Handlers -> Snapshots \union {ZeroSnapshot}]
    BY <2>1 DEF TypeOK, HolderInside
  <2>5. HolderInside' /\ CycleSeesItsSnapshot' /\ LastGrounded'
    BY <2>1, <2>4 DEF HolderInside, CycleSeesItsSnapshot, LastGrounded
  <2>6. JobGrounded' /\ ResultOfLastAllowed'
    BY <2>1, <2>4 DEF JobGrounded, ResultOfLastAllowed, shouldExecute
  <2> QED BY <2>3, <2>5, <2>6
<1>3. ASSUME NEW h \in Handlers, handleObserved(h) PROVE Inv'
  BY <1>3, HandlerStep
<1>4. CASE Ignore \/ Stop
  <2>1. /\ UNCHANGED <<pc, snap, job, mu, lastSnap, guard, lastResult, last, thinking, dryRun>>
        /\ listening' \in BOOLEAN
    BY <1>4 DEF Ignore, Stop, cycle, execGuard, TypeOK
  <2>2. inbox' \in Seq(Events) /\ Len(inbox') <= InboxCap
    <3>1. CASE Ignore
      BY <3>1, TakeLemma DEF Ignore
    <3>2. CASE Stop
      <4>1. inbox' = << >> /\ Len(<< >>) = 0 /\ << >> \in Seq(Events) /\ InboxCap \in Nat
        BY <3>2, EmptySeq, InboxCapAssumption DEF Stop
      <4> QED BY <4>1
    <3> QED BY <1>4, <3>1, <3>2
  <2> QED
    BY <2>1, <2>2 DEF TypeOK, HolderInside, CycleSeesItsSnapshot, LastGrounded, JobGrounded,
                      ResultOfLastAllowed, shouldExecute
<1>5. CASE AgentStart
  BY <1>5 DEF AgentStart, cycle, execGuard, TypeOK, HolderInside, CycleSeesItsSnapshot,
              LastGrounded, JobGrounded, ResultOfLastAllowed, shouldExecute
<1>6. CASE AgentDecide
  <2>1. /\ UNCHANGED <<inbox, listening, pc, snap, job, mu, lastSnap, guard, lastResult, dryRun>>
        /\ thinking' = NoSnapshot /\ thinking # NoSnapshot
    BY <1>6 DEF AgentDecide, cycle, execGuard
  <2>2. PICK answer \in Answers :
          last' = [action |-> DecisionOf(answer).action, command |-> DecisionOf(answer).command,
                   trigger |-> Trigger(DecisionOf(answer).action, thinking), answer |-> answer,
                   basis |-> IF DecisionOf(answer).action = "execute" THEN thinking
                             ELSE ZeroSnapshot]
    BY <1>6 DEF AgentDecide
  <2>3. thinking \in Snapshots \union {ZeroSnapshot}
    BY <2>1 DEF TypeOK
  <2>4. /\ DecisionOf(answer).action \in validActions
        /\ DecisionOf(answer).command \in Commands0
    BY DecisionLemma DEF Decisions, Commands0
  <2>5. last' \in Records
    BY <2>2, <2>3, <2>4 DEF Records, Trigger
  <2>6. Grounded(last')
    BY <2>2, <2>5, DecisionLemma DEF Grounded, Trigger
  <2>7. TypeOK'
    BY <2>1, <2>5 DEF TypeOK
  <2> QED
    BY <2>1, <2>6, <2>7 DEF HolderInside, CycleSeesItsSnapshot, LastGrounded, JobGrounded,
                            ResultOfLastAllowed, shouldExecute
<1>7. CASE Tick
  <2>1. /\ UNCHANGED <<inbox, listening, pc, snap, job, mu, lastSnap, lastResult, last, thinking,
                       dryRun>>
        /\ guard' = [guard EXCEPT !.age = Older(guard.age)]
    BY <1>7 DEF Tick, cycle
  <2>2. guard \in [LastCmd : Commands0, age : 0 .. Cooldown] /\ Older(guard.age) \in 0 .. Cooldown
    BY DEF TypeOK, Older
  <2>3. guard' \in [LastCmd : Commands0, age : 0 .. Cooldown] /\ guard'.LastCmd = guard.LastCmd
    BY <2>1, <2>2
  <2> QED
    BY <2>1, <2>3 DEF TypeOK, HolderInside, CycleSeesItsSnapshot, LastGrounded, JobGrounded,
                      ResultOfLastAllowed, shouldExecute
<1>8. CASE UNCHANGED vars
  BY <1>8 DEF vars, cycle, execGuard, TypeOK, HolderInside, CycleSeesItsSnapshot,
              LastGrounded, JobGrounded, ResultOfLastAllowed, shouldExecute
<1> QED
  BY <1>1, <1>2, <1>3, <1>4, <1>5, <1>6, <1>7, <1>8 DEF Next

LEMMA Invariant == Spec => []Inv
BY InvInit, InvStep, PTL DEF Spec

-----------------------------------------------------------------------------
(* The properties                                                          *)

\* The variables keep their types; the inbox never outgrows its channel.
THEOREM TypeCorrect == Spec => []TypeOK
<1>1. Inv => TypeOK
  BY DEF Inv
<1> QED BY <1>1, Invariant, PTL

\* TryLock and the deferred Unlock admit one cycle at a time.
THEOREM OneCycleAtATimeCorrect == Spec => []OneCycleAtATime
<1>1. Inv => OneCycleAtATime
  BY DEF Inv, HolderInside, OneCycleAtATime
<1> QED BY <1>1, Invariant, PTL

\* During a cycle lastSnap is the snapshot the cycle was spawned with.
THEOREM CycleSeesItsSnapshotCorrect == Spec => []CycleSeesItsSnapshot
<1>1. Inv => CycleSeesItsSnapshot
  BY DEF Inv
<1> QED BY <1>1, Invariant, PTL

\* The guard and the last result agree whenever no command runs.
THEOREM ResultOfLastAllowedCorrect == Spec => []ResultOfLastAllowed
<1>1. Inv => ResultOfLastAllowed
  BY DEF Inv
<1> QED BY <1>1, Invariant, PTL

\* No garbage, no malformed answer and no unconfident execute ever runs.
THEOREM OnlyDecidedCommandsRunCorrect == Spec => []OnlyDecidedCommandsRun
<1>1. Inv => OnlyDecidedCommandsRun
  BY DEF Inv, JobGrounded, Grounded, OnlyDecidedCommandsRun
<1> QED BY <1>1, Invariant, PTL

\* An execute runs only while every metric the model was shown is still reached,
\* to within the margin.
THEOREM ConditionStillHoldsCorrect == Spec => []ConditionStillHolds
<1>1. ASSUME Inv PROVE ConditionStillHolds
  <2> SUFFICES ASSUME NEW h \in Handlers, pc[h] = "running", job[h].action = "execute",
                      NEW m \in Metrics
               PROVE  lastSnap[m] + 1 >= job[h].basis[m]
    BY DEF ConditionStillHolds
  <2>1. /\ job[h] \in Records /\ job[h].trigger = job[h].basis
        /\ shouldExecute(job[h], snap[h])
    BY <1>1 DEF Inv, JobGrounded, Grounded
  <2>2. mu = h /\ mu # NoHandler /\ lastSnap = snap[h]
    BY <1>1 DEF Inv, HolderInside, CycleSeesItsSnapshot
  <2>3. job[h].basis[m] \in Nat /\ lastSnap[m] \in Nat
    <3>1. \A s \in Snapshots \union {ZeroSnapshot} : s[m] \in Nat
      BY DEF ZeroSnapshot
    <3> QED BY <1>1, <2>1, <3>1 DEF Inv, TypeOK, Records
  <2> QED BY <2>1, <2>2, <2>3 DEF shouldExecute
<1> QED BY <1>1, Invariant, PTL

-----------------------------------------------------------------------------
(* What StandingDecisionRuns rests on: cycles are short, and only a command *)
(* that starts begins a cooldown                                            *)

\* The steps of handleObserved before its deferred Unlock, at most.
StepsLeft(phase) ==
  IF phase = "entered" THEN 4
  ELSE IF phase = "running" THEN 3
  ELSE IF phase = "publishing" THEN 2
  ELSE IF phase = "leaving" THEN 1 ELSE 0

CycleShrinks ==
  [][\A h \in Handlers : mu = h =>
       \/ mu' = h /\ pc'[h] = pc[h]
       \/ mu' = h /\ StepsLeft(pc'[h]) \in 1 .. StepsLeft(pc[h]) - 1
       \/ mu' = NoHandler /\ StepsLeft(pc[h]) = 1 /\ pc'[h] = "free"]_vars

\* How the goroutine that holds the mutex moves.
LEMMA HolderMoves ==
  ASSUME Inv, [Next]_vars, NEW h \in Handlers, mu = h
  PROVE  \/ mu' = h /\ pc'[h] = pc[h]
         \/ mu' = h /\ pc[h] = "entered" /\ pc'[h] \in {"running", "leaving"}
         \/ mu' = h /\ pc[h] = "running" /\ pc'[h] \in {"publishing", "leaving"}
         \/ mu' = h /\ pc[h] = "publishing" /\ pc'[h] = "leaving"
         \/ mu' = NoHandler /\ pc[h] = "leaving" /\ pc'[h] = "free"
<1>1. /\ pc \in [Handlers -> Phases] /\ pc[h] \notin {"free", "spawned"} /\ mu # NoHandler
      /\ \A g \in Handlers : g # h => pc[g] \in {"free", "spawned"}
  BY DEF Inv, TypeOK, HolderInside
<1>2. CASE \/ Observe \/ Ignore \/ Stop \/ AgentStart \/ AgentDecide \/ Tick \/ UNCHANGED vars
  BY <1>2 DEF Observe, Ignore, Stop, AgentStart, AgentDecide, Tick, vars, cycle
<1>3. ASSUME NEW g \in Handlers, Spawn(g) \/ Skip(g) PROVE mu' = h /\ pc'[h] = pc[h]
  <2>1. g # h /\ mu' = mu
    BY <1>1, <1>3 DEF Spawn, Skip
  <2>2. pc' = [pc EXCEPT ![g] = "spawned"] \/ pc' = [pc EXCEPT ![g] = "free"]
    BY <1>3 DEF Spawn, Skip, Done
  <2> QED BY <1>1, <2>1, <2>2
<1>4. ASSUME NEW g \in Handlers, Enter(g) PROVE FALSE
  BY <1>1, <1>4 DEF Enter
<1>5. ASSUME NEW g \in Handlers, StartCommand(g) \/ NoCommandRun(g)
      PROVE  g = h /\ mu' = h /\ pc[h] = "entered" /\ pc'[h] \in {"running", "leaving"}
  BY <1>1, <1>5 DEF StartCommand, NoCommandRun
<1>6. ASSUME NEW g \in Handlers, FinishCommand(g)
      PROVE  g = h /\ mu' = h /\ pc[h] = "running" /\ pc'[h] \in {"publishing", "leaving"}
  BY <1>1, <1>6 DEF FinishCommand
<1>7. ASSUME NEW g \in Handlers, PublishResult(g)
      PROVE  g = h /\ mu' = h /\ pc[h] = "publishing" /\ pc'[h] = "leaving"
  BY <1>1, <1>7 DEF PublishResult
<1>8. ASSUME NEW g \in Handlers, Leave(g)
      PROVE  g = h /\ mu' = NoHandler /\ pc[h] = "leaving" /\ pc'[h] = "free"
  BY <1>1, <1>8 DEF Leave, Done
<1> QED
  BY <1>2, <1>3, <1>4, <1>5, <1>6, <1>7, <1>8 DEF Next, handleObserved

\* Whatever the others do meanwhile, the goroutine that got the TryLock comes to its
\* deferred Unlock in at most four steps, and the mutex is never handed on or left
\* locked by a goroutine that is gone (orchestrator.go: handleObserved).
THEOREM CycleIsBoundedCorrect ==
  Spec => /\ [](\A h \in Handlers : mu = h => StepsLeft(pc[h]) \in 1 .. 4)
          /\ CycleShrinks
<1> DEFINE Shrinks(h) ==
      mu = h =>
        \/ mu' = h /\ pc'[h] = pc[h]
        \/ mu' = h /\ StepsLeft(pc'[h]) \in 1 .. StepsLeft(pc[h]) - 1
        \/ mu' = NoHandler /\ StepsLeft(pc[h]) = 1 /\ pc'[h] = "free"
<1>1. ASSUME Inv, [Next]_vars, NEW h \in Handlers PROVE Shrinks(h)
  <2> SUFFICES ASSUME mu = h PROVE Shrinks(h)
    OBVIOUS
  <2>1. /\ StepsLeft("entered") = 4 /\ StepsLeft("running") = 3
        /\ StepsLeft("publishing") = 2 /\ StepsLeft("leaving") = 1
    BY DEF StepsLeft
  <2>2. CASE mu' = h /\ pc'[h] = pc[h]
    BY <2>2
  <2>3. CASE mu' = h /\ pc[h] = "entered" /\ pc'[h] \in {"running", "leaving"}
    BY <2>1, <2>3
  <2>4. CASE mu' = h /\ pc[h] = "running" /\ pc'[h] \in {"publishing", "leaving"}
    BY <2>1, <2>4
  <2>5. CASE mu' = h /\ pc[h] = "publishing" /\ pc'[h] = "leaving"
    BY <2>1, <2>5
  <2>6. CASE mu' = NoHandler /\ pc[h] = "leaving" /\ pc'[h] = "free"
    BY <2>1, <2>6
  <2> HIDE DEF Shrinks
  <2> QED BY <1>1, <2>2, <2>3, <2>4, <2>5, <2>6, HolderMoves
<1>2. Inv /\ [Next]_vars => [\A h \in Handlers : Shrinks(h)]_vars
  BY <1>1
<1>3. Inv => \A h \in Handlers : mu = h => StepsLeft(pc[h]) \in 1 .. 4
  BY DEF Inv, TypeOK, HolderInside, Phases, StepsLeft
<1> QED BY <1>2, <1>3, Invariant, PTL DEF Spec, CycleShrinks

OnlyStartsBeginCooldown ==
  [][guard'.age < guard.age \/ guard'.LastCmd # guard.LastCmd =>
       \E h \in Handlers : /\ mu = h /\ pc[h] = "entered" /\ pc'[h] = "running"
                           /\ job'[h].command = guard'.LastCmd]_vars

\* Only a command that starts begins a cooldown: not a refusal, not a condition that has
\* receded since the decision, and not the cycles of the goroutines that were skipped
\* (orchestrator.go: Allow is the one writer of lastExecAt, asked after shouldExecute).
THEOREM OnlyStartsBeginCooldownCorrect == Spec => OnlyStartsBeginCooldown
<1> DEFINE Begins == guard'.age < guard.age \/ guard'.LastCmd # guard.LastCmd
           Starts == \E h \in Handlers : /\ mu = h /\ pc[h] = "entered" /\ pc'[h] = "running"
                                         /\ job'[h].command = guard'.LastCmd
<1>1. ASSUME Inv, [Next]_vars PROVE Begins => Starts
  <2>0. /\ pc \in [Handlers -> Phases] /\ job \in [Handlers -> Records \union {NoRecord}]
        /\ guard \in [LastCmd : Commands0, age : 0 .. Cooldown]
        /\ \A h \in Handlers : pc[h] = "entered" => mu = h
    BY <1>1 DEF Inv, TypeOK, HolderInside
  <2>1. ASSUME NEW h \in Handlers, StartCommand(h) PROVE Starts
    <3>1. /\ pc[h] = "entered" /\ guard' = [LastCmd |-> last.command, age |-> 0]
          /\ job' = [job EXCEPT ![h] = last] /\ pc' = [pc EXCEPT ![h] = "running"]
      BY <2>1 DEF StartCommand, Remember
    <3> QED BY <2>0, <3>1
  <2>2. CASE Tick
    <3>1. guard' = [guard EXCEPT !.age = Older(guard.age)]
      BY <2>2 DEF Tick
    <3>2. PICK a \in 0 .. Cooldown : a = guard.age
      BY <2>0
    <3>3. ~ (Older(a) < a)
      BY <3>2 DEF Older
    <3>4. guard'.age = Older(a) /\ guard'.LastCmd = guard.LastCmd
      BY <2>0, <3>1, <3>2
    <3> QED BY <3>2, <3>3, <3>4
  <2>3. CASE UNCHANGED guard
    <3>1. ~ (guard.age < guard.age)
      BY <2>0
    <3> QED BY <2>3, <3>1
  <2>4. ASSUME NEW h \in Handlers, Spawn(h) \/ Enter(h) \/ Skip(h) \/ NoCommandRun(h)
                                   \/ FinishCommand(h) \/ PublishResult(h) \/ Leave(h)
        PROVE  UNCHANGED guard
    BY <2>4 DEF Spawn, Enter, Skip, NoCommandRun, Refuse, FinishCommand, PublishResult, Leave,
                execGuard
  <2>5. CASE Observe \/ Ignore \/ Stop \/ AgentStart \/ AgentDecide \/ UNCHANGED vars
    BY <2>3, <2>5 DEF Observe, Ignore, Stop, AgentStart, AgentDecide, vars, execGuard
  <2> HIDE DEF Begins, Starts
  <2> QED BY <1>1, <2>1, <2>2, <2>3, <2>4, <2>5 DEF Next, handleObserved
<1>2. Inv /\ [Next]_vars => [Begins => Starts]_vars
  BY <1>1
<1> QED BY <1>2, Invariant, PTL DEF Spec, OnlyStartsBeginCooldown
=============================================================================
