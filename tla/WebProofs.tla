----------------------------- MODULE WebProofs ------------------------------
(***************************************************************************)
(* The token bucket for any number of requests, any capacity and any rate, *)
(* and the toggles it keeps apart when its capacity is one.                *)
(***************************************************************************)
EXTENDS Web, FiniteSetTheorems, TLAPS

Capacity == Burst * PerSecond
Weight(S) == Cardinality(S) * PerSecond
Spent(from, to) == Weight(AllowedIn(from, to))

LEMMA ConstantsLemma ==
  /\ Capacity \in Nat /\ PerSecond \in Nat /\ PerSecond > 0 /\ WebTime \in Nat
  /\ Burst = 1 => Capacity = PerSecond
BY WebAssumption DEF Capacity

\* One more request weighs one more token.
LEMMA WeightLemma ==
  ASSUME NEW S \in SUBSET Clients
  PROVE  /\ IsFiniteSet(S) /\ Cardinality(S) \in Nat
         /\ Weight(S) \in Nat
         /\ S = {} => Weight(S) = 0
         /\ \A c \in Clients \ S : /\ Cardinality(S \union {c}) = Cardinality(S) + 1
                                   /\ Weight(S \union {c}) = Weight(S) + PerSecond
<1>1. IsFiniteSet(S) /\ Cardinality(S) \in Nat
  BY WebAssumption, FS_Subset, FS_CardinalityType
<1>2. Cardinality({}) = 0
  BY FS_EmptySet
<1>3. \A c \in Clients \ S : Cardinality(S \union {c}) = Cardinality(S) + 1
  BY <1>1, FS_AddElement
<1>4. ASSUME NEW n \in Nat
      PROVE  n * PerSecond \in Nat /\ (n + 1) * PerSecond = n * PerSecond + PerSecond
  BY ConstantsLemma
<1>5. Weight(S) \in Nat
  BY <1>1, <1>4 DEF Weight
<1>6. S = {} => Weight(S) = 0
  BY <1>2, ConstantsLemma DEF Weight
<1>7. \A c \in Clients \ S : Weight(S \union {c}) = Weight(S) + PerSecond
  BY <1>1, <1>3, <1>4 DEF Weight
<1> QED BY <1>1, <1>3, <1>5, <1>6, <1>7

LEMMA TypeStep == WebTypeOK /\ [WebNext]_WebVars => WebTypeOK'
<1> SUFFICES ASSUME WebTypeOK, [WebNext]_WebVars PROVE WebTypeOK'
  OBVIOUS
<1> USE ConstantsLemma DEF WebTypeOK
<1>1. CASE Pass
  BY <1>1 DEF Pass, bucket
<1>2. ASSUME NEW c \in Clients, Allow(c) PROVE WebTypeOK'
  <2>1. Refilled \in 0 .. Capacity
    BY DEF Refilled, Capacity
  <2>2. tokens' \in 0 .. Capacity /\ lastRefill' = clock /\ clock' = clock
    BY <1>2, <2>1 DEF Allow
  <2>3. request' \in [Clients -> [at : -1 .. WebTime, seen : BOOLEAN, told : BOOLEAN,
                              pc : {"none", "429", "body", "400", "set", "answer", "200"}]]
    BY <1>2 DEF Allow
  <2> QED BY <1>2, <2>2, <2>3 DEF Allow, Capacity
<1>3. ASSUME NEW c \in Clients, BadBody(c) PROVE WebTypeOK'
  BY <1>3 DEF BadBody, bucket
<1>4. ASSUME NEW c \in Clients, ReadEnabled(c) PROVE WebTypeOK'
  <2>1. target.enabled \in BOOLEAN
    BY DEF BaseAgents
  <2>2. /\ request' = [request EXCEPT ![c].pc = "set", ![c].seen = target.enabled]
        /\ UNCHANGED <<clock, tokens, lastRefill, target, late>>
    BY <1>4 DEF ReadEnabled, bucket
  <2>3. request' \in [Clients -> [at : -1 .. WebTime, seen : BOOLEAN, told : BOOLEAN,
                              pc : {"none", "429", "body", "400", "set", "answer", "200"}]]
    <3> DEFINE Request == [at : -1 .. WebTime, seen : BOOLEAN, told : BOOLEAN,
                           pc : {"none", "429", "body", "400", "set", "answer", "200"}]
    <3>1. PICK e \in BOOLEAN : e = target.enabled
      BY <2>1
    <3>2. \A r \in Request : [r EXCEPT !.pc = "set", !.seen = e] \in Request
      OBVIOUS
    <3>3. request' = [request EXCEPT ![c] = [request[c] EXCEPT !.pc = "set", !.seen = e]]
      BY <2>2, <3>1
    <3>4. request \in [Clients -> Request]
      OBVIOUS
    <3> HIDE DEF Request, WebTypeOK
    <3>5. request[c] \in Request
      BY <3>4
    <3>6. [request[c] EXCEPT !.pc = "set", !.seen = e] \in Request
      BY <3>2, <3>5, Zenon
    <3>7. request' \in [Clients -> Request]
      BY <3>3, <3>4, <3>6
    <3> QED BY <3>7 DEF Request
  <2> QED BY <2>2, <2>3
<1>5. ASSUME NEW c \in Clients, SetEnabled(c) PROVE WebTypeOK'
  <2>1. target' \in BaseAgents(0)
    BY <1>5 DEF SetEnabled, Enable, Disable, BaseAgents
  <2> QED BY <1>5, <2>1 DEF SetEnabled, bucket
<1>6. ASSUME NEW c \in Clients, Answer(c) PROVE WebTypeOK'
  <2>1. target.enabled \in BOOLEAN
    BY DEF BaseAgents
  <2>2. /\ request' = [request EXCEPT ![c].pc = "200", ![c].told = target.enabled]
        /\ UNCHANGED <<clock, tokens, lastRefill, target, late>>
    BY <1>6 DEF Answer, bucket
  <2>3. request' \in [Clients -> [at : -1 .. WebTime, seen : BOOLEAN, told : BOOLEAN,
                              pc : {"none", "429", "body", "400", "set", "answer", "200"}]]
    <3> DEFINE Request == [at : -1 .. WebTime, seen : BOOLEAN, told : BOOLEAN,
                           pc : {"none", "429", "body", "400", "set", "answer", "200"}]
    <3>1. PICK e \in BOOLEAN : e = target.enabled
      BY <2>1
    <3>2. \A r \in Request : [r EXCEPT !.pc = "200", !.told = e] \in Request
      OBVIOUS
    <3>3. request' = [request EXCEPT ![c] = [request[c] EXCEPT !.pc = "200", !.told = e]]
      BY <2>2, <3>1
    <3>4. request \in [Clients -> Request]
      OBVIOUS
    <3> HIDE DEF Request, WebTypeOK
    <3>5. request[c] \in Request
      BY <3>4
    <3>6. [request[c] EXCEPT !.pc = "200", !.told = e] \in Request
      BY <3>2, <3>5, Zenon
    <3>7. request' \in [Clients -> Request]
      BY <3>3, <3>4, <3>6
    <3> QED BY <3>7 DEF Request
  <2> QED BY <2>2, <2>3
<1>7. CASE UNCHANGED WebVars
  BY <1>7 DEF WebVars, bucket
<1> QED BY <1>1, <1>2, <1>3, <1>4, <1>5, <1>6, <1>7 DEF WebNext

LEMMA TypeInit == WebInit => WebTypeOK
<1> SUFFICES ASSUME WebInit PROVE WebTypeOK
  OBVIOUS
<1>1. clock \in 0 .. WebTime /\ tokens \in 0 .. Burst * PerSecond /\ lastRefill \in 0 .. clock
  BY ConstantsLemma DEF WebInit, Capacity
<1>2. target \in BaseAgents(0)
  BY DEF WebInit, NewBaseAgent, BaseAgents
<1>3. Fresh \in [at : -1 .. WebTime, seen : BOOLEAN, told : BOOLEAN,
                 pc : {"none", "429", "body", "400", "set", "answer", "200"}]
  BY ConstantsLemma DEF Fresh
<1> QED BY <1>1, <1>2, <1>3 DEF WebInit, WebTypeOK

\* Types of clock, bucket, agent and requests (web/ratelimit.go, web/server.go),
\* the tokens never above the capacity.
THEOREM WebTypeCorrect == WebSpec => []WebTypeOK
<1>1. WebTypeOK /\ [WebNext]_WebVars => WebTypeOK'
  BY TypeStep
<1> QED BY TypeInit, <1>1, PTL DEF WebSpec

-----------------------------------------------------------------------------
(* The bucket                                                              *)

\* A request that has passed the bucket passed it when it was last refilled, or before.
Passed == \A c \in Clients :
  /\ request[c].at <= lastRefill
  /\ request[c].pc \in {"none", "429"} <=> request[c].at = -1

\* What the requests since any time spent, and what is left, was there at that time
\* or has been gained since.
Balance ==
  \A from \in 0 .. lastRefill :
    Spent(from, lastRefill) + tokens <= Capacity + (lastRefill - from)

Windows ==
  \A from \in 0 .. clock : \A to \in from .. clock :
    Spent(from, to) <= Capacity + (to - from)

BucketInv == WebTypeOK /\ Passed /\ Balance /\ Windows

LEMMA AllowedLemma ==
  ASSUME WebTypeOK, Passed, NEW from \in Nat, NEW to \in Nat
  PROVE  /\ AllowedIn(from, to) \in SUBSET Clients
         /\ to >= lastRefill => AllowedIn(from, to) = AllowedIn(from, lastRefill)
         /\ from > lastRefill => AllowedIn(from, to) = {}
<1>1. \A c \in Clients : request[c].at \in Int /\ request[c].at <= lastRefill
  BY DEF WebTypeOK, Passed
<1>2. lastRefill \in Nat
  BY DEF WebTypeOK
<1> QED BY <1>1, <1>2 DEF AllowedIn

\* No step but a request's passing of the bucket changes what was spent.
LEMMA SpentUnchanged ==
  ASSUME NEW from, NEW to, \A c \in Clients : request'[c].at = request[c].at
  PROVE  AllowedIn(from, to)' = AllowedIn(from, to)
BY DEF AllowedIn

\* Windows that reach past the last refill hold what was spent before it.
LEMMA WindowsReach ==
  ASSUME WebTypeOK, Passed, Balance, NEW from \in Nat, NEW to \in Nat, to >= lastRefill, to >= from
  PROVE  Spent(from, to) <= Capacity + (to - from)
<1>0. lastRefill \in Nat /\ tokens \in Nat /\ Capacity \in Nat
  BY ConstantsLemma DEF WebTypeOK, Capacity
<1>1. CASE from <= lastRefill
  <2>1. Spent(from, to) = Spent(from, lastRefill)
    BY AllowedLemma DEF Spent
  <2>2. Spent(from, lastRefill) \in Nat
    BY <1>0, AllowedLemma, WeightLemma DEF Spent
  <2>3. Spent(from, lastRefill) + tokens <= Capacity + (lastRefill - from)
    BY <1>0, <1>1 DEF Balance
  <2> QED BY <1>0, <1>1, <2>1, <2>2, <2>3
<1>2. CASE from > lastRefill
  <2>1. AllowedIn(from, to) = {}
    BY <1>2, AllowedLemma
  <2>2. Spent(from, to) = 0
    BY <2>1, AllowedLemma, WeightLemma DEF Spent
  <2> QED BY <1>0, <2>2
<1> QED BY <1>0, <1>1, <1>2

LEMMA BucketInit == WebInit => BucketInv
<1> SUFFICES ASSUME WebInit PROVE BucketInv
  OBVIOUS
<1>1. WebTypeOK
  BY TypeInit
<1>2. Passed
  BY DEF WebInit, Passed, Fresh
<1>3. clock = 0 /\ lastRefill = 0 /\ tokens = Capacity
  BY DEF WebInit, Capacity
<1>4. AllowedIn(0, 0) = {}
  BY DEF WebInit, AllowedIn, Fresh
<1>5. Spent(0, 0) = 0
  BY <1>4, WeightLemma DEF Spent
<1>6. Balance
  BY <1>3, <1>5, ConstantsLemma DEF Balance
<1>7. Windows
  BY <1>3, <1>5, ConstantsLemma DEF Windows
<1> QED BY <1>1, <1>2, <1>6, <1>7 DEF BucketInv

LEMMA PassBucket == BucketInv /\ Pass => BucketInv'
<1> SUFFICES ASSUME BucketInv, Pass PROVE BucketInv'
  OBVIOUS
<1>1. WebTypeOK /\ Passed /\ Balance /\ Windows /\ WebTypeOK'
  BY TypeStep DEF BucketInv, WebNext
<1>2. /\ UNCHANGED <<tokens, lastRefill, request>> /\ clock' = clock + 1
      /\ clock \in Nat /\ lastRefill \in 0 .. clock
  BY <1>1 DEF Pass, bucket, WebTypeOK
<1>3. \A from, to : AllowedIn(from, to)' = AllowedIn(from, to)
  BY <1>2, SpentUnchanged
<1>4. \A from, to : Spent(from, to)' = Spent(from, to)
  BY <1>3 DEF Spent, Weight
<1>5. Passed'
  BY <1>1, <1>2 DEF Passed
<1>6. Balance'
  BY <1>1, <1>2, <1>4 DEF Balance
<1>7. ASSUME NEW from \in 0 .. clock', NEW to \in from .. clock'
      PROVE  Spent(from, to) <= Capacity + (to - from)
  <2>1. from \in Nat /\ to \in Nat /\ from <= to
    BY <1>2
  <2>2. CASE to >= lastRefill
    BY <1>1, <2>1, <2>2, WindowsReach
  <2>3. CASE to < lastRefill
    BY <1>1, <1>2, <2>1, <2>3 DEF Windows
  <2> QED BY <1>2, <2>1, <2>2, <2>3
<1>8. Windows'
  BY <1>4, <1>7 DEF Windows
<1> QED BY <1>1, <1>5, <1>6, <1>8 DEF BucketInv

LEMMA AllowBucket ==
  ASSUME BucketInv, NEW c \in Clients, Allow(c)
  PROVE  BucketInv'
<1>1. WebTypeOK /\ Passed /\ Balance /\ Windows /\ WebTypeOK'
  BY TypeStep DEF BucketInv, WebNext
<1>2. /\ clock \in Nat /\ lastRefill \in 0 .. clock /\ tokens \in Nat
      /\ Capacity \in Nat /\ PerSecond \in Nat /\ PerSecond > 0
      /\ clock' = clock /\ lastRefill' = clock
  BY <1>1, ConstantsLemma DEF Allow, WebTypeOK, Capacity
<1>3. /\ request[c].pc = "none" /\ request[c].at = -1
      /\ \A d \in Clients : request[d].at \in Int
  BY <1>1 DEF Allow, Passed, WebTypeOK
<1>4. Refilled <= Capacity /\ Refilled <= tokens + (clock - lastRefill) /\ Refilled \in Nat
  BY <1>2 DEF Refilled, Capacity
\* It suffices to show the balance at the time of the refill.
<1>5. ASSUME Passed', Balance',
             \A from \in 0 .. clock : \A to \in from .. clock :
               to < clock => Spent(from, to)' <= Capacity + (to - from)
      PROVE  BucketInv'
  <2>1. ASSUME NEW from \in 0 .. clock, NEW to \in from .. clock
        PROVE  Spent(from, to)' <= Capacity + (to - from)
    <3>1. CASE to < clock
      BY <1>5, <3>1
    <3>2. CASE to = clock
      <4>1. Spent(from, clock)' + tokens' <= Capacity + (clock - from)
        BY <1>2, <1>5 DEF Balance
      <4>2. tokens' \in Nat
        BY <1>1, ConstantsLemma DEF WebTypeOK, Capacity
      <4>3. AllowedIn(from, clock)' \in SUBSET Clients
        BY DEF AllowedIn
      <4>4. Spent(from, clock)' \in Nat
        BY <4>3, WeightLemma DEF Spent, Weight
      <4> QED BY <1>2, <3>2, <4>1, <4>2, <4>4
    <3> QED BY <1>2, <3>1, <3>2
  <2>2. Windows'
    BY <1>2, <2>1 DEF Windows
  <2> QED BY <1>1, <1>5, <2>2 DEF BucketInv
<1>6. ASSUME NEW from \in Nat, from <= clock
      PROVE  Spent(from, clock) + Refilled <= Capacity + (clock - from)
  <2>1. CASE from <= lastRefill
    <3>1. Spent(from, clock) = Spent(from, lastRefill)
      BY <1>1, <1>2, <1>6, AllowedLemma DEF Spent
    <3>2. Spent(from, lastRefill) + tokens <= Capacity + (lastRefill - from)
      BY <1>1, <1>2, <2>1 DEF Balance
    <3>3. Spent(from, lastRefill) \in Nat
      BY <1>1, <1>2, AllowedLemma, WeightLemma DEF Spent
    <3> QED BY <1>2, <1>4, <1>6, <3>1, <3>2, <3>3
  <2>2. CASE from > lastRefill
    <3>1. Spent(from, clock) = 0
      BY <1>1, <1>2, <2>2, AllowedLemma, WeightLemma DEF Spent
    <3> QED BY <1>2, <1>4, <1>6, <3>1
  <2> QED BY <1>2, <2>1, <2>2
<1>7. CASE Refilled < PerSecond
  <2>1. /\ tokens' = Refilled /\ request' = [request EXCEPT ![c].pc = "429"]
    BY <1>2, <1>4, <1>7 DEF Allow
  <2>2. \A d \in Clients : request'[d].at = request[d].at
    BY <1>1, <2>1 DEF WebTypeOK
  <2>3. \A from, to : Spent(from, to)' = Spent(from, to)
    BY <2>2, SpentUnchanged DEF Spent, Weight
  <2>4. Passed'
    BY <1>1, <1>2, <1>3, <2>1, <2>2 DEF Passed, WebTypeOK
  <2>5. Balance'
    BY <1>2, <1>6, <2>1, <2>3 DEF Balance
  <2> QED BY <1>1, <1>2, <1>5, <2>3, <2>4, <2>5 DEF Windows
<1>8. CASE Refilled >= PerSecond
  <2>1. /\ tokens' = Refilled - PerSecond
        /\ request' = [request EXCEPT ![c].pc = "body", ![c].at = clock]
    BY <1>8 DEF Allow
  <2>2. /\ request'[c].at = clock /\ request'[c].pc = "body"
        /\ \A d \in Clients \ {c} : request'[d] = request[d]
    BY <1>1, <2>1 DEF WebTypeOK
  <2>3. Passed'
    BY <1>1, <1>2, <1>3, <2>2 DEF Passed
  <2>4. ASSUME NEW from \in Nat, NEW to \in Nat, to < clock
        PROVE  Spent(from, to)' = Spent(from, to)
    <3>1. AllowedIn(from, to)' = AllowedIn(from, to)
      BY <1>2, <1>3, <2>2, <2>4 DEF AllowedIn
    <3> QED BY <3>1 DEF Spent, Weight
  <2>5. ASSUME NEW from \in Nat, from <= clock
        PROVE  Spent(from, clock)' + tokens' <= Capacity + (clock - from)
    <3>1. /\ AllowedIn(from, clock)' = AllowedIn(from, clock) \union {c}
          /\ c \in Clients \ AllowedIn(from, clock)
      BY <1>2, <1>3, <2>2, <2>5 DEF AllowedIn
    <3>2. AllowedIn(from, clock) \in SUBSET Clients
      BY DEF AllowedIn
    <3>3. Spent(from, clock)' = Spent(from, clock) + PerSecond
      BY <1>2, <3>1, <3>2, WeightLemma DEF Spent, Weight
    <3>4. Spent(from, clock) \in Nat
      BY <3>2, WeightLemma DEF Spent
    <3> QED BY <1>2, <1>4, <1>6, <2>1, <2>5, <3>3, <3>4
  <2>6. Balance'
    BY <1>2, <2>5 DEF Balance
  <2> QED BY <1>1, <1>2, <1>5, <2>3, <2>4, <2>6 DEF Windows
<1> QED BY <1>2, <1>4, <1>7, <1>8

\* The handler's steps leave the bucket and its history alone.
LEMMA HandlerBucket ==
  ASSUME BucketInv, WebTypeOK',
         UNCHANGED <<clock, bucket>>,
         \A c \in Clients :
           /\ request'[c].at = request[c].at
           /\ request'[c].pc \in {"none", "429"} <=> request[c].pc \in {"none", "429"}
  PROVE  BucketInv'
<1>1. \A from, to : Spent(from, to)' = Spent(from, to)
  BY SpentUnchanged DEF Spent, Weight
<1> QED BY <1>1 DEF BucketInv, Passed, Balance, Windows, bucket

LEMMA BucketStep == BucketInv /\ [WebNext]_WebVars => BucketInv'
<1> SUFFICES ASSUME BucketInv, [WebNext]_WebVars PROVE BucketInv'
  OBVIOUS
<1>1. WebTypeOK /\ WebTypeOK'
  BY TypeStep DEF BucketInv
<1>2. CASE Pass
  BY <1>2, PassBucket
<1>3. ASSUME NEW c \in Clients, Allow(c) PROVE BucketInv'
  BY <1>3, AllowBucket
<1>4. ASSUME NEW c \in Clients, BadBody(c) PROVE BucketInv'
  BY <1>1, <1>4, HandlerBucket DEF BadBody, WebTypeOK
<1>5. ASSUME NEW c \in Clients, ReadEnabled(c) PROVE BucketInv'
  BY <1>1, <1>5, HandlerBucket DEF ReadEnabled, WebTypeOK
<1>6. ASSUME NEW c \in Clients, SetEnabled(c) PROVE BucketInv'
  BY <1>1, <1>6, HandlerBucket DEF SetEnabled, WebTypeOK
<1>7. ASSUME NEW c \in Clients, Answer(c) PROVE BucketInv'
  BY <1>1, <1>7, HandlerBucket DEF Answer, WebTypeOK
<1>8. CASE UNCHANGED WebVars
  BY <1>1, <1>8, HandlerBucket DEF WebVars, bucket
<1> QED BY <1>2, <1>3, <1>4, <1>5, <1>6, <1>7, <1>8 DEF WebNext

LEMMA WindowsImplyBound == BucketInv => WindowBound
BY DEF BucketInv, Windows, WindowBound, Spent, Weight, Capacity

\* In no interval does the bucket let more requests pass than it can hold and gains,
\* for any number of requests, capacity and rate (web/ratelimit.go: Allow).
THEOREM WindowBoundCorrect == WebSpec => []WindowBound
<1>1. BucketInv /\ [WebNext]_WebVars => BucketInv'
  BY BucketStep
<1> QED BY BucketInit, <1>1, WindowsImplyBound, PTL DEF WebSpec

-----------------------------------------------------------------------------
(* The toggles, behind a bucket of one token                               *)

Done == {c \in Clients : request[c].pc = "200"}
Even == Cardinality(Done) % 2 = 0

\* As long as none is late, a request in its handler passed less than a second ago.
Prompt == ~ late => \A c \in Clients : InHandler(c) => clock - request[c].at < PerSecond

\* The agent is as the requests that were answered leave it, or one further while
\* a request that has set it has its answer to give.
Parity ==
  ~ late =>
    /\ (\A c \in Clients : request[c].pc # "answer") => (target.enabled <=> Even)
    /\ \A c \in Clients : request[c].pc = "set" => (request[c].seen <=> target.enabled)
    /\ \A c \in Clients : request[c].pc = "answer" =>
         /\ target.enabled <=> ~ request[c].seen
         /\ target.enabled <=> ~ Even
    /\ \A c \in Clients : request[c].pc = "200" => (request[c].told <=> ~ request[c].seen)

ToggleInv == BucketInv /\ Prompt /\ Parity

\* Two requests pass the bucket a second apart, so that one that is not late is alone.
LEMMA OneInHandler ==
  ASSUME Burst = 1, BucketInv, Prompt, ~ late,
         NEW c \in Clients, NEW d \in Clients, InHandler(c), InHandler(d)
  PROVE  c = d
<1>1. ASSUME NEW a \in Clients, NEW b \in Clients, InHandler(a), InHandler(b), a # b,
             request[a].at <= request[b].at
      PROVE  FALSE
  <2> DEFINE from == request[a].at
             to == request[b].at
  <2>1. /\ from \in 0 .. clock /\ to \in from .. clock /\ clock \in Nat
    BY <1>1 DEF BucketInv, Passed, WebTypeOK, InHandler
  <2>2. a \in AllowedIn(from, to) /\ b \in AllowedIn(from, to)
    BY <1>1, <2>1 DEF AllowedIn, BucketInv, WebTypeOK
  <2>3. Weight({a} \union {b}) = PerSecond + PerSecond
    <3> HIDE DEF from, to
    <3>1. {} \in SUBSET Clients /\ {a} \in SUBSET Clients /\ a \in Clients \ {} /\ b \in Clients \ {a}
      BY <1>1
    <3>2. Weight({}) = 0
      BY <3>1, WeightLemma
    <3>3. Weight({} \union {a}) = Weight({}) + PerSecond
      BY <3>1, WeightLemma
    <3>4. Weight({a} \union {b}) = Weight({a}) + PerSecond
      BY <3>1, WeightLemma
    <3>5. {} \union {a} = {a}
      OBVIOUS
    <3> QED BY <3>2, <3>3, <3>4, <3>5, ConstantsLemma
  <2>4. Weight({a} \union {b}) <= Spent(from, to)
    <3>1. {a} \union {b} \in SUBSET AllowedIn(from, to)
      BY <2>2
    <3>2. AllowedIn(from, to) \in SUBSET Clients
      BY DEF AllowedIn
    <3>3. /\ Cardinality({a} \union {b}) <= Cardinality(AllowedIn(from, to))
          /\ Cardinality({a} \union {b}) \in Nat
          /\ Cardinality(AllowedIn(from, to)) \in Nat
      BY <3>1, <3>2, WeightLemma, FS_Subset
    <3>4. \A m, n \in Nat : m <= n => m * PerSecond <= n * PerSecond
      BY ConstantsLemma
    <3> QED BY <3>3, <3>4 DEF Spent, Weight
  <2>5. Spent(from, to) <= PerSecond + (to - from)
    BY <2>1, ConstantsLemma DEF BucketInv, Windows
  <2>6. Spent(from, to) \in Nat
    <3>1. AllowedIn(from, to) \in SUBSET Clients
      BY DEF AllowedIn
    <3> QED BY <3>1, WeightLemma DEF Spent
  <2>7. clock - from < PerSecond
    BY <1>1 DEF Prompt
  <2> HIDE DEF from, to
  <2> QED BY <2>1, <2>3, <2>4, <2>5, <2>6, <2>7, ConstantsLemma
<1>2. request[c].at \in Int /\ request[d].at \in Int
  BY DEF BucketInv, WebTypeOK
<1> QED BY <1>1, <1>2

\* One more answer turns the parity.
LEMMA EvenLemma ==
  ASSUME NEW S \in SUBSET Clients, NEW c \in Clients \ S
  PROVE  Cardinality(S \union {c}) % 2 = 0 <=> ~ (Cardinality(S) % 2 = 0)
<1>1. Cardinality(S) \in Nat /\ Cardinality(S \union {c}) = Cardinality(S) + 1
  BY WeightLemma
<1>2. \A n \in Nat : (n + 1) % 2 = 0 <=> ~ (n % 2 = 0)
  OBVIOUS
<1> QED BY <1>1, <1>2

\* While none is late, a step of a request in its handler finds the others outside.
LEMMA OthersOutside ==
  ASSUME Burst = 1, ToggleInv, ~ late, NEW c \in Clients, InHandler(c)
  PROVE  \A d \in Clients \ {c} : request[d].pc \notin {"set", "answer"}
BY OneInHandler DEF ToggleInv, InHandler

LEMMA ToggleInit == WebInit => ToggleInv
<1> SUFFICES ASSUME WebInit PROVE ToggleInv
  OBVIOUS
<1>1. \A c \in Clients : request[c].pc = "none"
  BY DEF WebInit, Fresh
<1>2. Prompt
  BY <1>1 DEF Prompt, InHandler
<1>3. Even
  <2>1. Done = {}
    BY <1>1 DEF Done
  <2>2. Cardinality(Done) = 0
    BY <2>1, FS_EmptySet
  <2> QED BY <2>2 DEF Even
<1>4. target.enabled
  BY DEF WebInit, NewBaseAgent
<1>5. Parity
  BY <1>1, <1>3, <1>4 DEF Parity
<1> QED BY <1>2, <1>5, BucketInit DEF ToggleInv

\* A step that only moves requests that have not read the agent yet, none into the
\* answered ones.
LEMMA ParityKept ==
  ASSUME Parity, late' = late, UNCHANGED target,
         \A c \in Clients :
           \/ request'[c] = request[c]
           \/ /\ request[c].pc \notin {"set", "answer", "200"}
              /\ request'[c].pc \notin {"set", "answer", "200"}
  PROVE  Parity'
<1>1. Done' = Done
  BY DEF Done
<1>2. Even' <=> Even
  BY <1>1 DEF Even
<1>3. \A c \in Clients :
        /\ request'[c].pc = "answer" <=> request[c].pc = "answer"
        /\ request'[c].pc \in {"set", "answer", "200"} => request'[c] = request[c]
  OBVIOUS
<1> QED BY <1>2, <1>3 DEF Parity

LEMMA ToggleStep == Burst = 1 /\ ToggleInv /\ [WebNext]_WebVars => ToggleInv'
<1> SUFFICES ASSUME Burst = 1, ToggleInv, [WebNext]_WebVars PROVE ToggleInv'
  OBVIOUS
<1>0. BucketInv /\ BucketInv' /\ WebTypeOK /\ WebTypeOK' /\ Prompt /\ Parity
  BY BucketStep DEF ToggleInv, BucketInv
<1>t. /\ clock \in Nat /\ PerSecond \in Nat /\ PerSecond > 0
      /\ \A c \in Clients : request[c].at \in Int
  BY <1>0, ConstantsLemma DEF WebTypeOK
<1>1. CASE Pass
  <2>1. /\ clock' = clock + 1 /\ UNCHANGED <<bucket, target, request>>
        /\ late' = (late \/ \E c \in Clients : InHandler(c) /\ clock + 1 - request[c].at >= PerSecond)
    BY <1>1 DEF Pass
  <2>2. Prompt'
    <3>1. ASSUME ~ late', NEW c \in Clients, InHandler(c)
          PROVE  clock' - request'[c].at < PerSecond
      <4>1. ~ (clock + 1 - request[c].at >= PerSecond)
        BY <2>1, <3>1, Zenon
      <4> QED BY <1>t, <2>1, <4>1
    <3>2. \A c \in Clients : InHandler(c)' <=> InHandler(c)
      BY <2>1 DEF InHandler
    <3> QED BY <3>1, <3>2 DEF Prompt
  <2>3. Done' = Done
    BY <2>1 DEF Done
  <2>4. Even' <=> Even
    BY <2>3 DEF Even
  <2>5. ~ late' => ~ late
    BY <2>1
  <2>6. Parity'
    BY <1>0, <2>1, <2>4, <2>5 DEF Parity
  <2> QED BY <1>0, <2>2, <2>6 DEF ToggleInv
<1>2. ASSUME NEW c \in Clients, Allow(c) PROVE ToggleInv'
  <2>1. /\ UNCHANGED <<clock, target, late>> /\ request[c].pc = "none"
        /\ \A d \in Clients \ {c} : request'[d] = request[d]
        /\ \/ request'[c].pc = "429"
           \/ request'[c].pc = "body" /\ request'[c].at = clock
    BY <1>0, <1>2 DEF Allow, WebTypeOK
  <2>2. Prompt'
    <3>1. clock - clock < PerSecond
      BY <1>t
    <3>2. request'[c].pc \in {"body", "set", "answer"} => request'[c].at = clock
      BY <2>1
    <3> QED BY <1>0, <2>1, <3>1, <3>2 DEF Prompt, InHandler
  <2>3. Parity'
    BY <1>0, <2>1, ParityKept
  <2> QED BY <1>0, <2>2, <2>3 DEF ToggleInv
<1>3. ASSUME NEW c \in Clients, BadBody(c) PROVE ToggleInv'
  <2>1. /\ UNCHANGED <<clock, target, late>> /\ request[c].pc = "body"
        /\ \A d \in Clients \ {c} : request'[d] = request[d]
        /\ request'[c].pc = "400"
    BY <1>0, <1>3 DEF BadBody, WebTypeOK
  <2>2. Prompt'
    BY <1>0, <2>1 DEF Prompt, InHandler
  <2>3. Parity'
    BY <1>0, <2>1, ParityKept
  <2> QED BY <1>0, <2>2, <2>3 DEF ToggleInv
<1>4. ASSUME NEW c \in Clients, ReadEnabled(c) PROVE ToggleInv'
  <2>1. /\ UNCHANGED <<clock, target, late>> /\ request[c].pc = "body"
        /\ \A d \in Clients \ {c} : request'[d] = request[d]
        /\ request'[c].pc = "set" /\ request'[c].at = request[c].at
        /\ request'[c].seen = target.enabled
    BY <1>0, <1>4 DEF ReadEnabled, WebTypeOK
  <2>2. Prompt'
    BY <1>0, <2>1 DEF Prompt, InHandler
  <2>3. Done' = Done
    BY <2>1 DEF Done
  <2>4. Even' <=> Even
    BY <2>3 DEF Even
  <2>5. \A d \in Clients :
          /\ request'[d].pc = "answer" <=> request[d].pc = "answer"
          /\ request'[d].pc \in {"answer", "200"} => request'[d] = request[d]
          /\ request'[d].pc = "set" => \/ d = c
                                       \/ request[d].pc = "set" /\ request'[d] = request[d]
    BY <2>1
  <2>6. Parity'
    BY <1>0, <2>1, <2>4, <2>5 DEF Parity
  <2> QED BY <1>0, <2>2, <2>6 DEF ToggleInv
<1>5. ASSUME NEW c \in Clients, SetEnabled(c) PROVE ToggleInv'
  <2>1. /\ UNCHANGED <<clock, late>> /\ request[c].pc = "set"
        /\ \A d \in Clients \ {c} : request'[d] = request[d]
        /\ request'[c].pc = "answer" /\ request'[c].at = request[c].at
        /\ request'[c].seen = request[c].seen
    BY <1>0, <1>5 DEF SetEnabled, WebTypeOK
  <2>2. target'.enabled <=> ~ request[c].seen
    BY <1>0, <1>5 DEF SetEnabled, Enable, Disable, WebTypeOK, BaseAgents
  <2>3. Prompt'
    BY <1>0, <2>1 DEF Prompt, InHandler
  <2>4. Done' = Done
    BY <2>1 DEF Done
  <2>5. Even' <=> Even
    BY <2>4 DEF Even
  <2>6. ASSUME ~ late
        PROVE  /\ \A d \in Clients \ {c} : request[d].pc \notin {"set", "answer"}
               /\ request[c].seen <=> Even
    <3>1. \A d \in Clients \ {c} : request[d].pc \notin {"set", "answer"}
      BY <2>1, <2>6, OthersOutside DEF InHandler
    <3>2. \A d \in Clients : request[d].pc # "answer"
      BY <2>1, <3>1
    <3> QED BY <1>0, <2>1, <2>6, <3>1, <3>2 DEF Parity
  <2>7. \A d \in Clients : request'[d].pc = "200" => request[d].pc = "200" /\ request'[d] = request[d]
    BY <2>1
  <2>8. ASSUME ~ late, NEW d \in Clients, request'[d].pc \in {"set", "answer"}
        PROVE  d = c
    BY <2>1, <2>6, <2>8
  <2>9. Parity'
    BY <1>0, <2>1, <2>2, <2>5, <2>6, <2>7, <2>8 DEF Parity
  <2> QED BY <1>0, <2>3, <2>9 DEF ToggleInv
<1>6. ASSUME NEW c \in Clients, Answer(c) PROVE ToggleInv'
  <2>1. /\ UNCHANGED <<clock, target, late>> /\ request[c].pc = "answer"
        /\ \A d \in Clients \ {c} : request'[d] = request[d]
        /\ request'[c].pc = "200" /\ request'[c].told = target.enabled
        /\ request'[c].seen = request[c].seen
    BY <1>0, <1>6 DEF Answer, WebTypeOK
  <2>2. Prompt'
    BY <1>0, <2>1 DEF Prompt, InHandler
  <2>3. Done' = Done \union {c} /\ c \in Clients \ Done /\ Done \in SUBSET Clients
    BY <2>1 DEF Done
  <2>4. Even' <=> ~ Even
    BY <2>3, EvenLemma DEF Even
  <2>5. ASSUME ~ late
        PROVE  /\ \A d \in Clients \ {c} : request[d].pc \notin {"set", "answer"}
               /\ target.enabled <=> ~ request[c].seen
               /\ target.enabled <=> ~ Even
    BY <1>0, <2>1, <2>5, OthersOutside DEF InHandler, Parity
  <2>6. ASSUME ~ late, NEW d \in Clients PROVE request'[d].pc \notin {"set", "answer"}
    BY <2>1, <2>5, <2>6
  <2>7. \A d \in Clients \ {c} : request'[d].pc = "200" => request[d].pc = "200" /\ request'[d] = request[d]
    BY <2>1
  <2>8. Parity'
    BY <1>0, <2>1, <2>4, <2>5, <2>6, <2>7 DEF Parity
  <2> QED BY <1>0, <2>2, <2>8 DEF ToggleInv
<1>7. CASE UNCHANGED WebVars
  <2>1. Prompt'
    BY <1>0, <1>7 DEF WebVars, Prompt, InHandler
  <2>2. Parity'
    BY <1>0, <1>7, ParityKept DEF WebVars
  <2> QED BY <1>0, <2>1, <2>2 DEF ToggleInv
<1> QED BY <1>1, <1>2, <1>3, <1>4, <1>5, <1>6, <1>7 DEF WebNext

LEMMA ParityImpliesEffect == ToggleInv => EachTakesEffect
<1> SUFFICES ASSUME ToggleInv, ~ late PROVE
      /\ \A c \in Clients : request[c].pc = "200" => request[c].told = ~ request[c].seen
      /\ (\A c \in Clients : ~ InHandler(c)) =>
           target.enabled = (Cardinality({c \in Clients : request[c].pc = "200"}) % 2 = 0)
  BY DEF EachTakesEffect
<1>1. /\ target.enabled \in BOOLEAN
      /\ \A c \in Clients : request[c].told \in BOOLEAN /\ request[c].seen \in BOOLEAN
  BY DEF ToggleInv, BucketInv, WebTypeOK, BaseAgents
<1>2. \A c \in Clients : request[c].pc = "200" => (request[c].told <=> ~ request[c].seen)
  BY DEF ToggleInv, Parity
<1>3. ASSUME \A c \in Clients : ~ InHandler(c) PROVE target.enabled <=> Even
  BY <1>3 DEF ToggleInv, Parity, InHandler
<1>4. Even \in BOOLEAN
  BY DEF Even
<1>5. Even = (Cardinality({c \in Clients : request[c].pc = "200"}) % 2 = 0)
  BY DEF Even, Done
<1> QED BY <1>1, <1>2, <1>3, <1>4, <1>5

\* Behind a bucket of one token, as handleAgentToggle has it, no more requests pass than
\* the rate allows, and as long as none stays a second in its handler each toggle takes
\* effect and says so, for any number of requests and any rate.
THEOREM TogglesTakeEffectCorrect ==
  ASSUME Burst = 1
  PROVE  WebSpec => []TogglesTakeEffect
<1>1. ToggleInv /\ [WebNext]_WebVars => ToggleInv'
  BY ToggleStep
<1>2. ToggleInv => TogglesTakeEffect
  BY ParityImpliesEffect, WindowsImplyBound DEF TogglesTakeEffect, ToggleInv
<1> QED BY ToggleInit, <1>1, <1>2, PTL DEF WebSpec
=============================================================================
