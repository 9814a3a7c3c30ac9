--------------------------------- MODULE Web --------------------------------
(***************************************************************************)
(* web/ratelimit.go and the toggle of web/server.go: requests that change  *)
(* an agent, each in a goroutine of its own, behind a token bucket.        *)
(*                                                                         *)
(* A handler passes the bucket, waits for the body, and then reads the     *)
(* agent's state, sets it and reads it again, in three critical sections   *)
(* of BaseAgent.mu; any time may pass between two steps.  A second is      *)
(* PerSecond units, a token as many, so that the bucket gains one a unit.  *)
(***************************************************************************)
EXTENDS BaseAgent, FiniteSets

CONSTANTS
  Clients,         \* requests to POST /api/agents/toggle
  PerSecond,       \* units in a second
  Burst,           \* tokenBucket.capacity, in tokens: 1
  WebTime          \* bound: units of time

ASSUME WebAssumption ==
  /\ IsFiniteSet(Clients)
  /\ PerSecond \in Nat \ {0} /\ Burst \in Nat \ {0} /\ WebTime \in Nat

VARIABLES
  clock,           \* time.Now()
  tokens,          \* tokenBucket.tokens, in units
  lastRefill,      \* tokenBucket.lastRefill
  target,          \* BaseAgent of the agent the requests name
  request,         \* each request: where its handler is, and what it has read
  late             \* history: a request was in its handler for a second or more

bucket == <<tokens, lastRefill>>
WebVars == <<clock, bucket, target, request, late>>

Fresh == [at |-> -1, pc |-> "none", seen |-> FALSE, told |-> FALSE]

WebInit ==
  /\ clock = 0
  /\ tokens = Burst * PerSecond /\ lastRefill = 0
  /\ target = NewBaseAgent
  /\ request = [c \in Clients |-> Fresh]
  /\ late = FALSE

InHandler(c) == request[c].pc \in {"body", "set", "answer"}

Pass ==
  /\ clock < WebTime
  /\ clock' = clock + 1
  /\ late' = (late \/ \E c \in Clients : InHandler(c) /\ clock + 1 - request[c].at >= PerSecond)
  /\ UNCHANGED <<bucket, target, request>>

\* Mutant: tokens pile up.
RefilledForEver == tokens + (clock - lastRefill)
Refilled ==
  LET t == tokens + (clock - lastRefill)
  IN  IF t > Burst * PerSecond THEN Burst * PerSecond ELSE t

\* Allow: the refill is kept whether or not a token is there.
Allow(c) ==
  /\ request[c].pc = "none"
  /\ lastRefill' = clock
  /\ IF Refilled >= PerSecond
       THEN /\ tokens' = Refilled - PerSecond
            /\ request' = [request EXCEPT ![c].pc = "body", ![c].at = clock]
       ELSE /\ tokens' = Refilled
            /\ request' = [request EXCEPT ![c].pc = "429"]
  /\ UNCHANGED <<clock, target, late>>

\* No JSON, no name, or the name of no agent.
BadBody(c) ==
  /\ request[c].pc = "body"
  /\ request' = [request EXCEPT ![c].pc = "400"]
  /\ UNCHANGED <<clock, bucket, target, late>>

\* The body is there: IsEnabled.
ReadEnabled(c) ==
  /\ request[c].pc = "body"
  /\ request' = [request EXCEPT ![c].pc = "set", ![c].seen = target.enabled]
  /\ UNCHANGED <<clock, bucket, target, late>>

SetEnabled(c) ==
  /\ request[c].pc = "set"
  /\ target' = IF request[c].seen THEN Disable(target) ELSE Enable(target)
  /\ request' = [request EXCEPT ![c].pc = "answer"]
  /\ UNCHANGED <<clock, bucket, late>>

\* The answer has a message of what was done, and the state as it is by now.
Answer(c) ==
  /\ request[c].pc = "answer"
  /\ request' = [request EXCEPT ![c].pc = "200", ![c].told = target.enabled]
  /\ UNCHANGED <<clock, bucket, target, late>>

WebNext ==
  \/ Pass
  \/ \E c \in Clients : Allow(c) \/ BadBody(c) \/ ReadEnabled(c) \/ SetEnabled(c) \/ Answer(c)

WebSpec == WebInit /\ [][WebNext]_WebVars

-----------------------------------------------------------------------------
(* Properties                                                              *)

WebTypeOK ==
  /\ clock \in 0 .. WebTime
  /\ tokens \in 0 .. Burst * PerSecond
  /\ lastRefill \in 0 .. clock
  /\ target \in BaseAgents(0)
  /\ request \in [Clients -> [at : -1 .. WebTime, seen : BOOLEAN, told : BOOLEAN,
                              pc : {"none", "429", "body", "400", "set", "answer", "200"}]]
  /\ late \in BOOLEAN

AllowedIn(from, to) == {c \in Clients : request[c].at \in from .. to}

\* In no interval does the bucket let more requests pass than it can hold and gains.
WindowBound ==
  \A from \in 0 .. clock : \A to \in from .. clock :
    Cardinality(AllowedIn(from, to)) * PerSecond <= Burst * PerSecond + (to - from)

\* IsEnabled and Disable or Enable are two critical sections and nothing holds a
\* lock over both, so that it is the bucket that keeps two toggles apart: as long as
\* no request stays a second in its handler, each takes effect and says so.
EachTakesEffect ==
  ~ late =>
    /\ \A c \in Clients : request[c].pc = "200" => request[c].told = ~ request[c].seen
    /\ (\A c \in Clients : ~ InHandler(c)) =>
         target.enabled = (Cardinality({c \in Clients : request[c].pc = "200"}) % 2 = 0)

TogglesTakeEffect == WindowBound /\ EachTakesEffect
=============================================================================
