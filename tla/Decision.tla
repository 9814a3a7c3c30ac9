------------------------------ MODULE Decision ------------------------------
(***************************************************************************)
(* llm/parser.go: from an answer of the model to a decision.               *)
(*                                                                         *)
(* An answer is Garbage when no JSON object can be got out of it; else it  *)
(* is the record of the fields the validation looks at.  Upper case and    *)
(* blanks around an action are gone (parseAndValidate normalises them).    *)
(* Confidence is in percent.                                               *)
(***************************************************************************)
EXTENDS Naturals

CONSTANTS
  Commands,  \* non-empty command strings, as the model spells them
  NoCommand, \* the empty string
  Garbage    \* an answer without a JSON object

ASSUME NoCommandAssumption == NoCommand \notin Commands

validActions == {"log", "alert", "suggest", "execute"}

JSONAnswers == [analysis : BOOLEAN,             \* the field is there and not blank
                action : validActions \union {"other"},
                command : Commands \union {NoCommand},
                confidence : 0 .. 100]          \* 0 when absent

Decisions == [action : validActions, command : Commands \union {NoCommand}]

\* ParseDecision returns no error.
Parses(answer) ==
  /\ answer # Garbage
  /\ answer.analysis
  /\ answer.action \in validActions

Confidence(answer) == IF answer.confidence = 0 THEN 50 ELSE answer.confidence

\* Not sure enough to run something.
Doubtful(answer) == answer.action = "execute" /\ Confidence(answer) < 75

\* Mutant: the action is downgraded but the command stays.
DowngradeOnly(answer) ==
  [action |-> IF Doubtful(answer) THEN "suggest" ELSE answer.action,
   command |-> answer.command]

validateDecision(answer) ==
  IF Doubtful(answer)
  THEN [action |-> "suggest", command |-> NoCommand]
  ELSE [action |-> answer.action, command |-> answer.command]

fallbackDecision == [action |-> "log", command |-> NoCommand]

\* What SystemAgent.Run records for an answer, or for no answer at all.
DecisionOf(answer) == IF Parses(answer) THEN validateDecision(answer) ELSE fallbackDecision
=============================================================================
