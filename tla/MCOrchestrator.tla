--------------------------- MODULE MCOrchestrator ---------------------------
(***************************************************************************)
(* Two goroutines, so that one can find the mutex taken; two spellings of  *)
(* one command and another command; answers of every kind the parser tells *)
(* apart.  The cooldown is two ticks.                                      *)
(***************************************************************************)
EXTENDS Orchestrator

MCCommands == {"uptime", "uptime ", "df -h"}
MCTrim == [c \in MCCommands |-> IF c = "uptime " THEN "uptime" ELSE c]
MCMetrics == {"cpu", "disk"}

Sample(cpu, disk) == [m \in MCMetrics |-> IF m = "cpu" THEN cpu ELSE disk]

\* From the first to the second, disk falls within the margin; from the second
\* to the first, cpu falls by more, to a value that is no trigger.
MCSnapshots == {Sample(0, 3), Sample(2, 2)}

Answer(act, cmd, percent) ==
  [analysis |-> TRUE, action |-> act, command |-> cmd, confidence |-> percent]

MCAnswers == {Answer("execute", "uptime", 75), Answer("execute", "df -h", 90),
              Answer("execute", "uptime", 74), Answer("suggest", "uptime ", 80),
              Answer("other", "df -h", 90)}
=============================================================================
