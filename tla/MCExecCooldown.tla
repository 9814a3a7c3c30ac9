--------------------------- MODULE MCExecCooldown ---------------------------
(***************************************************************************)
(* MCOrchestrator with a history variable: how long ago each command was   *)
(* last run for real, counted up to Cooldown.                              *)
(***************************************************************************)
EXTENDS MCOrchestrator

VARIABLE since

Starts(h) == pc[h] = "entered" /\ pc'[h] = "running" /\ ~ dryRun

Ran(c) == \E h \in Handlers : Starts(h) /\ Trim[last.command] = c

Clock ==
  since' = [c \in Commands |->
              IF Ran(c) THEN 0
              ELSE IF guard'.age > guard.age THEN Older(since[c]) ELSE since[c]]

HistorySpec ==
  /\ Init /\ since = [c \in Commands |-> Cooldown]
  /\ [][Next /\ Clock]_<<vars, since>>

\* orchestrator_test.go: "guard est par-commande"; README: JARVINX_EXEC_COOLDOWN
\* is the cooldown between two identical executions.
CooldownPerCommand ==
  [][\A h \in Handlers : Starts(h) => since[Trim[last.command]] = Cooldown]_<<vars, since>>
=============================================================================
