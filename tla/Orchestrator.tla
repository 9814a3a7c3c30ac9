---------------------------- MODULE Orchestrator ----------------------------
(***************************************************************************)
(* core/orchestrator.go with its neighbours: the scheduler that publishes  *)
(* observations (core/scheduler.go) and the system agent that turns the    *)
(* last one into a decision (agents/system_agent.go).                      *)
(*                                                                         *)
(* The loop of Start takes events from the subscription and spawns one     *)
(* goroutine handleObserved per observation.  Whoever gets the TryLock     *)
(* runs the cycle: it publishes its snapshot as lastSnap, reads the last   *)
(* decision of the store and, if the condition behind the decision still   *)
(* holds and the exec guard allows it, runs its command.  Meanwhile the    *)
(* system agent may be thinking on an older snapshot.                      *)
(*                                                                         *)
(* The subscription is one FIFO that loses what does not fit, which is     *)
(* what Bus.tla shows of the bus.                                          *)
(***************************************************************************)
EXTENDS Decision, Sequences, FiniteSets

CONSTANTS
  Handlers,    \* bound: goroutines handleObserved alive at a time
  NoHandler, NoRecord, NoSnapshot,
  Metrics,     \* CPUPercent, MemPercent, DiskPercent
  Snapshots,   \* observations, functions from Metrics; unit: the 5-point margin
  Answers,     \* what the model may answer
  Trim,        \* strings.TrimSpace on commands
  Cooldown,    \* execCooldown in ticks
  InboxCap     \* capacity of the subscription's channel

ZeroSnapshot == [m \in Metrics |-> 0]

ASSUME HandlersAssumption == NoHandler \notin Handlers
\* No observation is all zeros: memory in use and disk in use never are.
ASSUME SnapshotsAssumption == Snapshots \subseteq [Metrics -> Nat] \ {ZeroSnapshot}
ASSUME AnswersAssumption == Answers \subseteq JSONAnswers \union {Garbage}
ASSUME TrimAssumption == Trim \in [Commands -> Commands]
ASSUME CooldownAssumption == Cooldown \in Nat
ASSUME InboxCapAssumption == InboxCap \in Nat \ {0}

VARIABLES
  inbox,       \* events of the subscription "orchestrator"
  listening,   \* the loop of Start is running
  pc,          \* pc[h]: "free", "spawned", "entered", "running", "publishing", "leaving"
  snap,        \* snap[h]: parameter of handleObserved
  job,         \* job[h]: cycles[0] while its command runs, else NoRecord
  mu,          \* holder of Orchestrator.mu
  lastSnap,    \* Orchestrator.lastSnap
  guard,       \* execGuard: LastCmd, and the age of lastExecAt up to Cooldown
  lastResult,  \* execGuard.lastResult: its command, NoCommand before the first
  last,        \* what LastCycles(1) returns; Store says when that is the newest decision
  thinking,    \* snapshot the system agent is deciding on, NoSnapshot between runs
  dryRun       \* Orchestrator.dryRun

cycle == <<pc, snap, job, mu, lastSnap>>
execGuard == <<guard, lastResult>>
vars == <<inbox, listening, cycle, execGuard, last, thinking, dryRun>>

Commands0 == Commands \union {NoCommand}

\* As history, a record keeps the answer it was made from and, for an execute,
\* the snapshot the model was shown.
Records == [action : validActions, command : Commands0, trigger : Snapshots \union {ZeroSnapshot},
            answer : Answers, basis : Snapshots \union {ZeroSnapshot}]

Observed(s) == <<"observed", s>>
Error == <<"error">>
Executed == <<"executed">>
Events == {Observed(s) : s \in Snapshots} \union {Error, Executed}

Init ==
  /\ inbox = << >>
  /\ listening = TRUE
  /\ pc = [h \in Handlers |-> "free"]
  /\ snap = [h \in Handlers |-> ZeroSnapshot]
  /\ job = [h \in Handlers |-> NoRecord]
  /\ mu = NoHandler
  /\ lastSnap = ZeroSnapshot
  /\ guard = [LastCmd |-> NoCommand, age |-> Cooldown]
  /\ lastResult = NoCommand
  /\ last = NoRecord
  /\ thinking = NoSnapshot
  /\ dryRun \in BOOLEAN

-----------------------------------------------------------------------------
(* Scheduler.Start: one event per tick                                     *)

\* After Unsubscribe nothing reaches the orchestrator any more.
Publish(e) ==
  \/ listening /\ Len(inbox) < InboxCap /\ inbox' = Append(inbox, e)
  \/ ~ (listening /\ Len(inbox) < InboxCap) /\ UNCHANGED inbox

Observe ==
  /\ \/ \E s \in Snapshots : Publish(Observed(s))
     \/ Publish(Error)                            \* tools.Observe failed
  /\ UNCHANGED <<listening, cycle, execGuard, last, thinking, dryRun>>

-----------------------------------------------------------------------------
(* Orchestrator.Start                                                      *)

\* case EventObserved: go o.handleObserved(snap)
Spawn(h) ==
  /\ listening
  /\ inbox # << >> /\ Head(inbox)[1] = "observed"
  /\ pc[h] = "free"
  /\ inbox' = Tail(inbox)
  /\ pc' = [pc EXCEPT ![h] = "spawned"]
  /\ snap' = [snap EXCEPT ![h] = Head(inbox)[2]]
  /\ UNCHANGED <<listening, job, mu, lastSnap, execGuard, last, thinking, dryRun>>

\* Errors are logged, the results of its own commands are not looked at.
Ignore ==
  /\ listening
  /\ inbox # << >> /\ Head(inbox)[1] # "observed"
  /\ inbox' = Tail(inbox)
  /\ UNCHANGED <<listening, cycle, execGuard, last, thinking, dryRun>>

\* case <-ctx.Done(): the cycles in flight go on.
Stop ==
  /\ listening
  /\ listening' = FALSE
  /\ inbox' = << >>
  /\ UNCHANGED <<cycle, execGuard, last, thinking, dryRun>>

-----------------------------------------------------------------------------
(* handleObserved                                                          *)

\* Mutant: TryLock's answer is not looked at.
EnterAnyway(h) ==
  /\ pc[h] = "spawned"
  /\ mu' = h
  /\ lastSnap' = snap[h]
  /\ pc' = [pc EXCEPT ![h] = "entered"]
  /\ UNCHANGED <<inbox, listening, snap, job, execGuard, last, thinking, dryRun>>

\* TryLock, then lastSnap under snapMu.  (Nobody writes lastSnap without mu.)
Enter(h) ==
  /\ pc[h] = "spawned"
  /\ mu = NoHandler
  /\ mu' = h
  /\ lastSnap' = snap[h]
  /\ pc' = [pc EXCEPT ![h] = "entered"]
  /\ UNCHANGED <<inbox, listening, snap, job, execGuard, last, thinking, dryRun>>

\* The goroutine ends.
Done(h) ==
  /\ pc' = [pc EXCEPT ![h] = "free"]
  /\ snap' = [snap EXCEPT ![h] = ZeroSnapshot]

\* Mutant: lastSnap is updated before TryLock.
SkipAfterUpdate(h) ==
  /\ pc[h] = "spawned"
  /\ mu # NoHandler
  /\ lastSnap' = snap[h]
  /\ Done(h)
  /\ UNCHANGED <<inbox, listening, job, mu, execGuard, last, thinking, dryRun>>

\* TryLock fails: the tick is ignored.
Skip(h) ==
  /\ pc[h] = "spawned"
  /\ mu # NoHandler
  /\ Done(h)
  /\ UNCHANGED <<inbox, listening, job, mu, lastSnap, execGuard, last, thinking, dryRun>>

\* Every trigger that was recorded is still reached, to within the margin.
shouldExecute(record, current) ==
  \A m \in Metrics : record.trigger[m] > 0 => current[m] + 1 >= record.trigger[m]

\* executeGuard.Allow returns true.
Allows(cmd) == cmd # guard.LastCmd \/ guard.age = Cooldown

Remember(cmd) == guard' = [LastCmd |-> cmd, age |-> 0]

\* Mutant: a refusal restarts the cooldown.
RefusalRestartsCooldown(cmd) == guard' = [LastCmd |-> cmd, age |-> 0]
Refuse(cmd) == UNCHANGED guard

HasCommand == last # NoRecord /\ last.command # NoCommand

Verified(h) == HasCommand /\ shouldExecute(last, snap[h])

\* Mutant: the guard is asked before the condition is verified.
AllowThenVerify(h) ==
  /\ pc[h] = "entered"
  /\ HasCommand /\ Allows(last.command)
  /\ Remember(last.command)
  /\ \/ /\ shouldExecute(last, snap[h])
        /\ pc' = [pc EXCEPT ![h] = "running"]
        /\ job' = [job EXCEPT ![h] = last]
     \/ /\ ~ shouldExecute(last, snap[h])
        /\ pc' = [pc EXCEPT ![h] = "leaving"]
        /\ UNCHANGED job
  /\ UNCHANGED <<inbox, listening, snap, mu, lastSnap, lastResult, last, thinking, dryRun>>

\* The last decision has a command, its condition holds, the guard allows it:
\* it starts, for real or simulated.
StartCommand(h) ==
  /\ pc[h] = "entered"
  /\ Verified(h)
  /\ Allows(last.command)
  /\ Remember(last.command)
  /\ job' = [job EXCEPT ![h] = last]
  /\ pc' = [pc EXCEPT ![h] = "running"]
  /\ UNCHANGED <<inbox, listening, snap, mu, lastSnap, lastResult, last, thinking, dryRun>>

\* Nothing to run, the condition has receded, or the guard refuses.
NoCommandRun(h) ==
  /\ pc[h] = "entered"
  /\ \/ /\ ~ Verified(h)
        /\ UNCHANGED guard
     \/ /\ Verified(h)
        /\ ~ Allows(last.command)
        /\ Refuse(last.command)
  /\ pc' = [pc EXCEPT ![h] = "leaving"]
  /\ UNCHANGED <<inbox, listening, snap, job, mu, lastSnap, lastResult, last, thinking,
                 dryRun>>

\* The command, trimmed by ExecuteCommand, has a result; a real one is published.
FinishCommand(h) ==
  /\ pc[h] = "running"
  /\ lastResult' = Trim[job[h].command]
  /\ job' = [job EXCEPT ![h] = NoRecord]
  /\ pc' = [pc EXCEPT ![h] = IF dryRun THEN "leaving" ELSE "publishing"]
  /\ UNCHANGED <<inbox, listening, snap, mu, lastSnap, guard, last, thinking, dryRun>>

PublishResult(h) ==
  /\ pc[h] = "publishing"
  /\ Publish(Executed)
  /\ pc' = [pc EXCEPT ![h] = "leaving"]
  /\ UNCHANGED <<listening, snap, job, mu, lastSnap, execGuard, last, thinking, dryRun>>

Leave(h) ==
  /\ pc[h] = "leaving"
  /\ mu' = NoHandler
  /\ Done(h)
  /\ UNCHANGED <<inbox, listening, job, lastSnap, execGuard, last, thinking, dryRun>>

handleObserved(h) ==
  \/ Enter(h) \/ Skip(h)
  \/ StartCommand(h) \/ NoCommandRun(h)
  \/ FinishCommand(h) \/ PublishResult(h) \/ Leave(h)

-----------------------------------------------------------------------------
(* SystemAgent.Run                                                         *)

\* AgentContext: a copy of lastSnap, all zeros before the first cycle.
AgentStart ==
  /\ thinking = NoSnapshot
  /\ thinking' = lastSnap
  /\ UNCHANGED <<inbox, listening, cycle, execGuard, last, dryRun>>

\* Mutant: the triggers are not recorded.
WithoutTrigger(action, s) == ZeroSnapshot
Trigger(action, s) == IF action = "execute" THEN s ELSE ZeroSnapshot

AgentDecide ==
  /\ thinking # NoSnapshot
  /\ \E answer \in Answers :
       LET d == DecisionOf(answer) IN
         last' = [action |-> d.action, command |-> d.command,
                  trigger |-> Trigger(d.action, thinking),
                  answer |-> answer,
                  basis |-> IF d.action = "execute" THEN thinking ELSE ZeroSnapshot]
  /\ thinking' = NoSnapshot
  /\ UNCHANGED <<inbox, listening, cycle, execGuard, dryRun>>

-----------------------------------------------------------------------------

\* Mutant: CooldownRemaining without its test against the cooldown goes below 0.
OlderUnbounded(n) == IF n <= Cooldown THEN n + 1 ELSE n
Older(n) == IF n < Cooldown THEN n + 1 ELSE n

Tick ==
  /\ guard' = [guard EXCEPT !.age = Older(@)]
  /\ UNCHANGED <<inbox, listening, cycle, lastResult, last, thinking, dryRun>>

Next ==
  \/ Observe
  \/ \E h \in Handlers : Spawn(h) \/ handleObserved(h)
  \/ Ignore \/ Stop
  \/ AgentStart \/ AgentDecide
  \/ Tick

Spec == Init /\ [][Next]_vars

\* Goroutines in handleObserved run (a command ends: ExecuteCommand has a
\* timeout) and time passes.
FairSpec == Spec /\ WF_vars(Tick) /\ \A h \in Handlers : WF_vars(handleObserved(h))

-----------------------------------------------------------------------------
(* Properties                                                              *)

Phases == {"free", "spawned", "entered", "running", "publishing", "leaving"}

TypeOK ==
  /\ inbox \in Seq(Events) /\ Len(inbox) <= InboxCap
  /\ listening \in BOOLEAN
  /\ pc \in [Handlers -> Phases]
  /\ snap \in [Handlers -> Snapshots \union {ZeroSnapshot}]
  /\ job \in [Handlers -> Records \union {NoRecord}]
  /\ mu \in Handlers \union {NoHandler}
  /\ lastSnap \in Snapshots \union {ZeroSnapshot}
  /\ guard \in [LastCmd : Commands0, age : 0 .. Cooldown]
  /\ lastResult \in Commands0
  /\ last \in Records \union {NoRecord}
  /\ thinking \in Snapshots \union {ZeroSnapshot, NoSnapshot}
  /\ dryRun \in BOOLEAN

\* One cycle at a time: whoever is past TryLock holds the mutex until the
\* deferred Unlock.
OneCycleAtATime == \A h \in Handlers : pc[h] \notin {"free", "spawned"} => mu = h

\* A cycle decides on what everybody else sees: as long as it lasts, lastSnap,
\* which the agents and the API read, is its own snapshot, although the
\* goroutines of newer observations come and go.
CycleSeesItsSnapshot == mu # NoHandler => lastSnap = snap[mu]

TrimOf(cmd) == IF cmd = NoCommand THEN NoCommand ELSE Trim[cmd]

\* The exec guard and the last result are behind two mutexes, but whenever no
\* command is running they agree: the command that counts for the cooldown is
\* the one whose result the API shows.
ResultOfLastAllowed ==
  (\A h \in Handlers : pc[h] # "running") => lastResult = TrimOf(guard.LastCmd)

\* A command that runs is one the model asked for in a well-formed answer, and
\* never as an execute it was not confident of (parser.go: validateDecision).
OnlyDecidedCommandsRun ==
  \A h \in Handlers : pc[h] = "running" =>
    /\ Parses(job[h].answer) /\ ~ Doubtful(job[h].answer)
    /\ job[h].command = job[h].answer.command

\* An execute decided on an observation runs only while no metric has fallen by
\* more than the margin since then, however old the decision is and however
\* observations and decisions overlap.
ConditionStillHolds ==
  \A h \in Handlers :
    pc[h] = "running" /\ job[h].action = "execute" =>
      \A m \in Metrics : lastSnap[m] + 1 >= job[h].basis[m]

\* A cycle always ends and lets the next one in.
LockReleased == mu # NoHandler ~> mu = NoHandler

Standing == HasCommand /\ shouldExecute(last, lastSnap)

\* Cycles end, and a decision that stands, on a condition that stays, is acted on
\* again and again as long as there are cycles: refusals do not prolong the
\* cooldown.
StandingDecisionRuns ==
  /\ LockReleased
  /\ []<>(mu # NoHandler) /\ <>[]Standing => []<>(\E h \in Handlers : pc[h] = "running")

\* orchestrator.go: "Run command if action is execute".
OnlyExecuteRuns == \A h \in Handlers : pc[h] = "running" => job[h].action = "execute"
=============================================================================
