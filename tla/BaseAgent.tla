----------------------------- MODULE BaseAgent ------------------------------
(***************************************************************************)
(* agents/agent.go: the part every agent embeds, as functions from record  *)
(* to record.  Each is one critical section of BaseAgent.mu.  Errors count *)
(* as such, whatever they say, and times of runs are left out.             *)
(***************************************************************************)
EXTENDS Integers

NewBaseAgent ==
  [enabled |-> TRUE, failed |-> FALSE, runCount |-> 0, errorCount |-> 0, alertCount |-> 0]

Enable(b) == [b EXCEPT !.enabled = TRUE]
Disable(b) == [b EXCEPT !.enabled = FALSE]

\* failed: lastError is not empty.
RecordSuccess(b) == [b EXCEPT !.failed = FALSE, !.runCount = @ + 1]
RecordError(b) == [b EXCEPT !.failed = TRUE, !.runCount = @ + 1, !.errorCount = @ + 1]
RecordAlert(b) == [b EXCEPT !.failed = FALSE, !.runCount = @ + 1, !.alertCount = @ + 1]

BaseAgents(limit) ==
  [enabled : BOOLEAN, failed : BOOLEAN,
   runCount : 0 .. limit, errorCount : 0 .. limit, alertCount : 0 .. limit]
=============================================================================
