-------------------------- MODULE QdrantAgentProofs --------------------------
(***************************************************************************)
(* The Qdrant agent over the stores, for any number of decisions and       *)
(* restarts, any cap of the history and any breaker settings.              *)
(***************************************************************************)
EXTENDS QdrantAgent, SequenceTheorems, TLAPS

\* The theorems about the stores.
Stored == INSTANCE StoreProofs

USE MaxFailuresAssumption, ResetTimeoutAssumption, StoreAssumption

-----------------------------------------------------------------------------
(* The stores                                                              *)

\* The agent only reads the stores: every step of it is a stutter of theirs.
LEMMA StoreSpec == Spec => Stored!Spec
<1>1. Init => Stored!Init
  BY DEF Init, Memory!Init, Stored!Init
<1>2. [Next]_vars => [Stored!Next]_(Stored!vars)
  <2> SUFFICES ASSUME [Next]_vars PROVE [Stored!Next]_(Stored!vars)
    OBVIOUS
  <2>1. CASE UNCHANGED store
    BY <2>1 DEF store, Stored!vars, Stored!memory, Stored!sqlite, Stored!history
  <2>2. CASE UNCHANGED vars
    BY <2>1, <2>2 DEF vars
  <2>3. CASE Memory!AddCycle
    <3>1. Stored!AddCycle
      BY <2>3 DEF Memory!AddCycle, Stored!AddCycle, Memory!Keep, Stored!Keep,
                  Memory!sqlite, Stored!sqlite
    <3> QED BY <3>1 DEF Stored!Next
  <2>4. CASE Memory!MirrorCycle
    <3>1. Stored!MirrorCycle
      BY <2>4 DEF Memory!MirrorCycle, Stored!MirrorCycle, Memory!Higher, Stored!Higher,
                  Memory!MirroredNumber, Stored!MirroredNumber, Memory!memory, Stored!memory
    <3> QED BY <3>1 DEF Stored!Next
  <2>5. CASE Memory!AddSnapshot \/ Memory!MirrorSnapshot
    <3>1. Stored!AddSnapshot \/ Stored!MirrorSnapshot
      BY <2>5 DEF Memory!AddSnapshot, Stored!AddSnapshot, Memory!MirrorSnapshot,
                  Stored!MirrorSnapshot, Memory!Keep, Stored!Keep, Memory!memory, Stored!memory,
                  Memory!sqlite, Stored!sqlite, Memory!history, Stored!history
    <3> QED BY <3>1 DEF Stored!Next
  <2>6. CASE Memory!SaveOpen \/ Memory!SaveWrite
    <3>1. Stored!SaveOpen \/ Stored!SaveWrite
      BY <2>6 DEF Memory!SaveOpen, Stored!SaveOpen, Memory!SaveWrite, Stored!SaveWrite,
                  Memory!Image, Stored!Image, Memory!memory, Stored!memory,
                  Memory!sqlite, Stored!sqlite, Memory!history, Stored!history
    <3> QED BY <3>1 DEF Stored!Next
  <2>7. CASE Memory!Crash
    <3>1. Stored!Crash
      BY <2>7 DEF Memory!Crash, Stored!Crash
    <3> QED BY <3>1 DEF Stored!Next
  <2>8. CASE Memory!Restart
    <3>1. Stored!Restart
      BY <2>8 DEF Memory!Restart, Stored!Restart, Memory!Valid, Stored!Valid, Memory!Numbers,
                  Stored!Numbers, Memory!ToSet, Stored!ToSet, Memory!memory, Stored!memory
    <3> QED BY <3>1 DEF Stored!Next
  <2> QED BY <2>1, <2>2, <2>3, <2>4, <2>5, <2>6, <2>7, <2>8
          DEF Next, Run, Answer, Embedded, Checked, CreateAnswered, UpsertAnswered, QueryEmbedded,
              Found, SearchFailed, Decide, Crash, Restart, Wipe, Tick, HealthChanges
<1> QED BY <1>1, <1>2, PTL DEF Spec, Stored!Spec

\* What the agent's proofs need of the stores' types.
StoreTyped ==
  /\ Cycles \in Seq(Memory!Records) /\ rows \in Seq(Memory!Records)
  /\ CycleNum \in 0 .. MaxDecisions /\ decided \in 0 .. MaxDecisions
  /\ restarts \in 0 .. MaxRestarts /\ born \in 0 .. MaxDecisions
  /\ pc = "cycle" => decided > 0 /\ CycleNum > 0

LEMMA StoreTypes == Spec => []StoreTyped
<1>1. Stored!Inv => StoreTyped
  <2> SUFFICES ASSUME Stored!Inv PROVE StoreTyped
    OBVIOUS
  <2>1. Stored!TypeOK /\ (pc = "cycle" => decided > 0 /\ CycleNum > 0)
    BY DEF Stored!Inv
  <2>2. Stored!Records = Memory!Records
    BY DEF Stored!Records, Memory!Records
  <2> QED BY <2>1, <2>2, Stored!Types DEF StoreTyped, Stored!TypeOK
<1> QED BY <1>1, StoreSpec, Stored!Invariant, PTL

\* A read returns none or one record, which a list of the store has.
LEMMA ReadLemma ==
  ASSUME StoreTyped, NEW read \in {Memory!LastCycles(1, TRUE)} \union Reads
  PROVE  read = << >> \/ \E r \in Memory!Records :
           /\ read = <<r>>
           /\ (\E i \in DOMAIN rows : r = rows[i]) \/ (\E i \in DOMAIN Cycles : r = Cycles[i])
<1>1. ASSUME NEW s \in Seq(Memory!Records), read = Memory!LastOf(s, 1)
      PROVE  read = << >> \/ \E r \in Memory!Records :
               read = <<r>> /\ \E i \in DOMAIN s : r = s[i]
  <2>1. Memory!LastOf(s, 1) = Stored!LastOf(s, 1)
    BY DEF Memory!LastOf, Stored!LastOf
  <2>2. CASE s = << >> /\ Stored!LastOf(s, 1) = << >>
    BY <1>1, <2>1, <2>2
  <2>3. CASE Len(s) \in DOMAIN s /\ Stored!LastOf(s, 1) = <<s[Len(s)]>>
    <3>1. s[Len(s)] \in Memory!Records
      BY <2>3, ElementOfSeq, LenProperties
    <3> QED BY <1>1, <2>1, <2>3, <3>1
  <2> QED BY <2>2, <2>3, Stored!LastOfLemma
<1>2. read = Memory!LastOf(rows, 1) \/ read = Memory!LastOf(Cycles, 1)
  <2>1. PICK answers : read = Memory!LastCycles(1, answers)
    BY DEF Reads
  <2> QED BY <2>1, Zenon DEF Memory!LastCycles, Memory!SecondaryLastCycles
<1> QED BY <1>1, <1>2 DEF StoreTyped

-----------------------------------------------------------------------------
(* The breakers                                                            *)

LEMMA BreakerLemma ==
  ASSUME NEW b \in Breakers
  PROVE  /\ AfterSuccess(b) \in Breakers /\ AfterSuccess(b).state # "half-open"
         /\ AfterFailure(b) \in Breakers /\ AfterFailure(b).state # "half-open"
         /\ AfterAllow(b) \in Breakers
         /\ Older(b) \in Breakers /\ Older(b).state = b.state
<1>1. b.failures \in 0 .. MaxFailures /\ b.state \in {"closed", "open", "half-open"}
  BY DEF Breakers
<1>2. AfterFailure(b) \in Breakers /\ AfterFailure(b).state # "half-open"
  <2> DEFINE f == IF b.failures < MaxFailures THEN b.failures + 1 ELSE b.failures
             st == IF b.state = "half-open" \/ (b.state = "closed" /\ Trips(b.failures))
                   THEN "open" ELSE b.state
  <2>1. f \in 0 .. MaxFailures /\ st \in {"closed", "open"} /\ 0 \in 0 .. ResetTimeout
    BY <1>1
  <2>2. AfterFailure(b) = [b EXCEPT !.failures = f, !.age = 0, !.state = st]
    BY DEF AfterFailure
  <2> HIDE DEF f, st
  <2> QED BY <2>1, <2>2 DEF Breakers
<1>3. AfterSuccess(b) \in Breakers /\ AfterSuccess(b).state # "half-open"
  <2> DEFINE st == IF b.state = "half-open" THEN "closed" ELSE b.state
  <2>1. st \in {"closed", "open"} /\ 0 \in 0 .. MaxFailures
    BY <1>1
  <2>2. AfterSuccess(b) = [b EXCEPT !.failures = 0, !.state = st]
    BY DEF AfterSuccess
  <2> HIDE DEF st
  <2> QED BY <2>1, <2>2 DEF Breakers
<1>4. AfterAllow(b) \in Breakers
  BY DEF AfterAllow, Breakers
<1>5. Older(b) \in Breakers /\ Older(b).state = b.state
  BY DEF Older, Breakers
<1> QED BY <1>2, <1>3, <1>4, <1>5

LEMMA NewBreakerLemma == NewCircuitBreaker \in Breakers /\ NewCircuitBreaker.state = "closed"
<1>1. 0 \in 0 .. MaxFailures /\ ResetTimeout \in 0 .. ResetTimeout
  OBVIOUS
<1> QED BY <1>1 DEF NewCircuitBreaker, Breakers

\* The phases in which a run holds the decision it stores.
Storing == {"embed", "check", "create", "upsert"}

RunOK ==
  /\ phase \in Storing \union {"idle", "embed query", "search"}
  /\ last \in {<< >>} \union {<<r>> : r \in Memory!Records}
  /\ phase \in Storing => last # << >>
  /\ embedder \in Breakers /\ qdrantCircuit \in Breakers
  /\ HalfOpenOnlyDuringCall

LEMMA QueryStep ==
  ASSUME NEW e \in Breakers, e.state # "half-open", NEW ready, Query(e, ready)
  PROVE  /\ embedder' \in Breakers /\ last' = << >>
         /\ phase' \in {"idle", "embed query"}
         /\ embedder'.state = "half-open" => phase' = "embed query"
BY BreakerLemma DEF Query

LEMMA RequestStep ==
  ASSUME NEW p \in {"check", "upsert"}, NEW q \in Breakers, q.state # "half-open",
         NEW e \in Breakers, e.state # "half-open", NEW ready, Request(p, q, e, ready), RunOK,
         phase \in Storing
  PROVE  RunOK'
<1>1. CASE phase' = p /\ last' = last /\ embedder' = e /\ qdrantCircuit' = AfterAllow(q)
  BY <1>1, BreakerLemma DEF RunOK, Storing, HalfOpenOnlyDuringCall
<1>2. CASE qdrantCircuit' = q /\ Query(e, ready)
  BY <1>2, QueryStep DEF RunOK, Storing, HalfOpenOnlyDuringCall
<1> QED BY <1>1, <1>2 DEF Request

\* Each way out of a request records its outcome before the next one asks.
LEMMA RunStep ==
  ASSUME RunOK, StoreTyped, [Next]_vars
  PROVE  RunOK'
<1>1. CASE Run
  <2>1. ASSUME NEW read \in Reads, read # << >>, last' = read,
               embedder' = AfterAllow(embedder), phase' = "embed"
        PROVE  RunOK'
    <3>1. \E r \in Memory!Records : read = <<r>>
      BY <2>1, ReadLemma
    <3> QED BY <1>1, <2>1, <3>1, BreakerLemma DEF Run, RunOK, Storing, HalfOpenOnlyDuringCall
  <2>2. CASE Query(embedder, collReady)
    BY <1>1, <2>2, QueryStep DEF Run, RunOK, Storing, HalfOpenOnlyDuringCall
  <2> QED BY <1>1, <2>1, <2>2 DEF Run
<1>2. CASE Embedded
  <2>1. /\ phase = "embed" /\ qdrantCircuit.state # "half-open"
        /\ qdrantCircuit \in Breakers /\ embedder \in Breakers
    BY <1>2 DEF Embedded, RunOK, HalfOpenOnlyDuringCall
  <2>2. CASE \E p \in {"check", "upsert"} :
               Request(p, qdrantCircuit, AfterSuccess(embedder), collReady)
    BY <2>1, <2>2, BreakerLemma, RequestStep DEF Storing
  <2>3. CASE Query(AfterFailure(embedder), collReady) /\ qdrantCircuit' = qdrantCircuit
    BY <2>1, <2>3, BreakerLemma, QueryStep DEF RunOK, Storing, HalfOpenOnlyDuringCall
  <2> QED BY <1>2, <2>2, <2>3 DEF Embedded
<1>3. CASE Checked \/ CreateAnswered \/ UpsertAnswered
  <2>1. /\ phase \in {"check", "create", "upsert"} /\ embedder.state # "half-open"
        /\ qdrantCircuit \in Breakers /\ embedder \in Breakers
    BY <1>3 DEF Checked, CreateAnswered, UpsertAnswered, RunOK, HalfOpenOnlyDuringCall
  <2>2. CASE Request("upsert", AfterSuccess(qdrantCircuit), embedder, TRUE)
    BY <2>1, <2>2, BreakerLemma, RequestStep DEF Storing
  <2>3. CASE phase' = "create" /\ phase = "check" /\ UNCHANGED <<last, circuits>>
    BY <2>3 DEF RunOK, Storing, HalfOpenOnlyDuringCall, circuits
  <2>4. CASE /\ qdrantCircuit' \in {AfterFailure(qdrantCircuit), AfterSuccess(qdrantCircuit)}
             /\ Query(embedder, collReady)
    BY <2>1, <2>4, BreakerLemma, QueryStep DEF RunOK, Storing, HalfOpenOnlyDuringCall
  <2> QED BY <1>3, <2>2, <2>3, <2>4 DEF Checked, CreateAnswered, UpsertAnswered, Failed
<1>4. CASE QueryEmbedded
  BY <1>4, BreakerLemma DEF QueryEmbedded, RunOK, Storing, HalfOpenOnlyDuringCall
<1>5. CASE Found \/ SearchFailed
  BY <1>5, BreakerLemma DEF Found, SearchFailed, RunOK, Storing, HalfOpenOnlyDuringCall
<1>6. CASE Crash
  BY <1>6, NewBreakerLemma DEF Crash, Fresh, RunOK, Storing, HalfOpenOnlyDuringCall
<1>7. CASE Tick
  BY <1>7, BreakerLemma DEF Tick, RunOK, Storing, HalfOpenOnlyDuringCall
<1>8. CASE UNCHANGED <<phase, last, circuits>>
  BY <1>8 DEF RunOK, HalfOpenOnlyDuringCall, circuits
<1> QED BY <1>1, <1>2, <1>3, <1>4, <1>5, <1>6, <1>7, <1>8
        DEF Next, Answer, Decide, Restart, Wipe, HealthChanges, vars, agent

LEMMA RunInvariant == Spec => []RunOK
<1>1. Init => RunOK
  BY NewBreakerLemma DEF Init, RunOK, Storing, HalfOpenOnlyDuringCall
<1> QED BY <1>1, RunStep, StoreTypes, PTL DEF Spec

-----------------------------------------------------------------------------
(* The numbers of the decisions                                            *)

Elements(s) == {s[i] : i \in DOMAIN s}

\* Every record of a decision there is: in memory, in the database, in
\* state.json, in the run and in Qdrant.
Known ==
  Elements(Cycles) \union Elements(rows) \union Elements(last) \union points
    \union (IF Memory!Valid THEN Elements(file.Cycles) ELSE {})

\* They all number a decision the way AddCycle did when it was made.
NumberedBy(f) == \A r \in Known : r.id \in 0 .. decided /\ r.num = f[r.id]

Numbered == \E f \in [0 .. MaxDecisions -> Nat] : NumberedBy(f)

\* The numbers of the decisions this process has made grow with them.
OwnInOrder ==
  /\ \A r, k \in Known : born < r.id /\ r.id < k.id => r.num < k.num
  /\ pc # "down" => \A r \in Known : born < r.id => r.num <= CycleNum

\* What MirrorCycle writes is what AddCycle has just put into the primary.
CurrentKnown == pc = "cycle" => \E r \in Elements(Cycles) : r.id = decided /\ r.num = CycleNum

\* A step copies records or drops them.
Copied == \A r \in Known' : \E k \in Known : r.id = k.id /\ r.num = k.num

\* So do all but one, and that one adds the record of a new decision.
Kept ==
  /\ Copied
  /\ decided' = decided
  /\ \/ born' = decided
     \/ born' = born /\ (pc' # "down" => pc # "down" /\ CycleNum' = CycleNum)
Made ==
  /\ pc # "down" /\ decided < MaxDecisions
  /\ decided' = decided + 1 /\ CycleNum' = CycleNum + 1 /\ born' = born
  /\ Known' \subseteq Known \union {[id |-> decided', num |-> CycleNum']}

\* What a point says of its decision is what the run's record says.
LEMMA PointLemma ==
  ASSUME RunOK, phase \in Storing, Upserted
  PROVE  \A p \in points' : \E k \in points \union Elements(last) : p.id = k.id /\ p.num = k.num
<1>1. PICK r \in Memory!Records : last = <<r>>
  BY DEF RunOK
<1>2. r \in Elements(last) /\ last[1] = r
  BY <1>1 DEF Elements
<1>3. Point.id = r.id /\ Point.num = r.num
  BY <1>2 DEF Point
<1>4. \A p \in points' : p \in points \/ p = Point
  BY DEF Upserted
<1> QED BY <1>2, <1>3, <1>4

\* The agent copies what it has read into the run, and the run's into Qdrant.
LEMMA AgentCopies ==
  ASSUME RunOK, StoreTyped, UNCHANGED store,
         last' \in {last, << >>} \union Reads,
         points' \subseteq points \/ (phase \in Storing /\ Upserted)
  PROVE  Copied
<1>1. ASSUME NEW read \in Reads
      PROVE  Elements(read) \subseteq Elements(rows) \union Elements(Cycles)
  <2>1. CASE read = << >>
    BY <2>1 DEF Elements
  <2>2. ASSUME NEW r \in Memory!Records, read = <<r>>,
               (\E i \in DOMAIN rows : r = rows[i]) \/ (\E i \in DOMAIN Cycles : r = Cycles[i])
        PROVE  Elements(read) \subseteq Elements(rows) \union Elements(Cycles)
    BY <2>2 DEF Elements
  <2> QED BY <2>1, <2>2, ReadLemma
<1>2. Elements(<< >>) = {}
  BY DEF Elements
<1>3. Elements(last') \subseteq Elements(last) \union Elements(rows) \union Elements(Cycles)
  <2>1. CASE last' \in {last, << >>}
    BY <1>2, <2>1
  <2>2. CASE last' \in Reads
    BY <1>1, <2>2
  <2> QED BY <2>1, <2>2
<1>4. \A p \in points' : \E k \in points \union Elements(last) : p.id = k.id /\ p.num = k.num
  BY PointLemma
<1>5. UNCHANGED <<pc, Cycles, CycleNum, file, rows, decided>>
  BY DEF store
<1>6. \A r \in Known' : r \in Known \/ r \in points'
  <2>1. Known' = Elements(Cycles) \union Elements(rows) \union Elements(last') \union points'
                   \union (IF Memory!Valid THEN Elements(file.Cycles) ELSE {})
    BY <1>5 DEF Known, Elements, Memory!Valid
  <2> QED BY <1>3, <2>1 DEF Known
<1>7. points \union Elements(last) \subseteq Known
  BY DEF Known
<1> QED BY <1>4, <1>6, <1>7 DEF Copied

\* Appending and trimming leave the new entry at the end and nothing else new.
LEMMA GrownLemma ==
  ASSUME NEW S, NEW s \in Seq(S), NEW x \in S
  PROVE  /\ Memory!Keep(Append(s, x)) \in Seq(S)
         /\ Elements(Memory!Keep(Append(s, x))) \subseteq Elements(s) \union {x}
         /\ Len(Memory!Keep(Append(s, x))) > 0
         /\ Memory!Keep(Append(s, x))[Len(Memory!Keep(Append(s, x)))] = x
<1> DEFINE a == Append(s, x)
<1>1. PICK n \in Nat : n = Len(s)
  BY LenProperties
<1>2. /\ a \in Seq(S) /\ Len(a) = n + 1 /\ a[n + 1] = x
      /\ \A i \in 1 .. n : a[i] = s[i]
  BY <1>1, AppendProperties
<1>3. \A i \in 1 .. n + 1 : a[i] \in Elements(s) \union {x}
  <2>1. \A i \in 1 .. n + 1 : i = n + 1 \/ i \in 1 .. n
    OBVIOUS
  <2>2. DOMAIN s = 1 .. n
    BY <1>1, LenProperties
  <2> QED BY <1>2, <2>1, <2>2 DEF Elements
<1> HIDE DEF a
<1>4. CASE ~ (n + 1 > maxHistory)
  <2>1. Memory!Keep(a) = a
    BY <1>2, <1>4 DEF Memory!Keep
  <2>2. DOMAIN a = 1 .. n + 1
    BY <1>2, LenProperties
  <2>3. Elements(a) \subseteq Elements(s) \union {x}
    BY <1>3, <2>2 DEF Elements
  <2> QED BY <1>2, <2>1, <2>3 DEF a
<1>5. CASE n + 1 > maxHistory
  <2>1. PICK k \in 1 .. n + 1 : k = n + 1 - maxHistory + 1
    BY <1>5
  <2>2. Memory!Keep(a) = SubSeq(a, k, n + 1)
    <3>1. Len(a) = n + 1 /\ Len(a) > maxHistory /\ Len(a) - maxHistory + 1 = k
      BY <1>2, <1>5, <2>1
    <3>2. Memory!Keep(a) = SubSeq(a, Len(a) - maxHistory + 1, Len(a))
      BY <3>1, Zenon DEF Memory!Keep
    <3> QED BY <3>1, <3>2
  <2>3. k \in 1 .. Len(a) + 1 /\ n + 1 \in k - 1 .. Len(a)
    BY <1>2, <2>1
  <2>4. /\ SubSeq(a, k, n + 1) \in Seq(S)
        /\ Len(SubSeq(a, k, n + 1)) = n + 1 - k + 1
        /\ \A i \in 1 .. n + 1 - k + 1 : SubSeq(a, k, n + 1)[i] = a[k + i - 1]
    BY <1>2, <2>3, SubSeqProperties
  <2>5. DOMAIN SubSeq(a, k, n + 1) = 1 .. n + 1 - k + 1
    BY <2>4, LenProperties
  <2>6. \A i \in 1 .. n + 1 - k + 1 : k + i - 1 \in 1 .. n + 1
    OBVIOUS
  <2>7. \A i \in DOMAIN SubSeq(a, k, n + 1) :
          SubSeq(a, k, n + 1)[i] \in Elements(s) \union {x}
    BY <1>3, <2>4, <2>5, <2>6
  <2>8. Elements(SubSeq(a, k, n + 1)) \subseteq Elements(s) \union {x}
    BY <2>7 DEF Elements
  <2>9. n + 1 - k + 1 \in 1 .. n + 1 - k + 1 /\ k + (n + 1 - k + 1) - 1 = n + 1
    BY <2>1
  <2>10. SubSeq(a, k, n + 1)[n + 1 - k + 1] = x
    BY <1>2, <2>4, <2>9
  <2>11. PICK t : t = SubSeq(a, k, n + 1)
    OBVIOUS
  <2>12. t \in Seq(S) /\ Elements(t) \subseteq Elements(s) \union {x} /\ Len(t) > 0 /\ t[Len(t)] = x
    BY <2>4, <2>8, <2>9, <2>10, <2>11
  <2> QED BY <2>2, <2>11, <2>12 DEF a
<1> QED BY <1>4, <1>5

LEMMA AddCycleLemma ==
  ASSUME StoreTyped, Memory!AddCycle
  PROVE  \E x \in [id : {decided'}, num : {CycleNum'}] :
           /\ Elements(Cycles') \subseteq Elements(Cycles) \union {x}
           /\ Cycles' \in Seq(Memory!Records \union {x})
           /\ Len(Cycles') > 0 /\ Cycles'[Len(Cycles')] = x
<1> DEFINE x == [id |-> decided', num |-> CycleNum']
<1>1. Cycles' = Memory!Keep(Append(Cycles, x))
  BY DEF Memory!AddCycle
<1>2. x \in [id : {decided'}, num : {CycleNum'}]
  OBVIOUS
<1> HIDE DEF x
<1>3. Cycles \in Seq(Memory!Records \union {x}) /\ x \in Memory!Records \union {x}
  <2>1. Cycles \in Seq(Memory!Records)
    BY DEF StoreTyped
  <2>2. \A j \in 1 .. Len(Cycles) : Cycles[j] \in Memory!Records \union {x}
    BY <2>1, ElementOfSeq
  <2> QED BY <2>1, <2>2
<1>4. PICK S : S = Memory!Records \union {x}
  OBVIOUS
<1>5. Cycles \in Seq(S) /\ x \in S
  BY <1>3, <1>4
<1>6. /\ Memory!Keep(Append(Cycles, x)) \in Seq(S)
      /\ Elements(Memory!Keep(Append(Cycles, x))) \subseteq Elements(Cycles) \union {x}
      /\ Len(Memory!Keep(Append(Cycles, x))) > 0
      /\ Memory!Keep(Append(Cycles, x))[Len(Memory!Keep(Append(Cycles, x)))] = x
  BY <1>5, GrownLemma
<1> QED BY <1>1, <1>2, <1>4, <1>6

LEMMA MirrorLemma ==
  ASSUME StoreTyped, NEW x \in [id : Nat, num : Nat], rows' = Append(rows, x)
  PROVE  /\ Elements(rows') \subseteq Elements(rows) \union {x}
         /\ rows' \in Seq(Memory!Records \union {x})
         /\ Len(rows') > 0 /\ rows'[Len(rows')] = x
<1>1. rows \in Seq(Memory!Records) /\ Len(rows) \in Nat
  BY LenProperties DEF StoreTyped
<1>2. \A j \in 1 .. Len(rows) : rows[j] \in Memory!Records \union {x}
  BY <1>1, ElementOfSeq
<1>3. rows \in Seq(Memory!Records \union {x}) /\ x \in Memory!Records \union {x}
  BY <1>1, <1>2
<1>4. /\ rows' \in Seq(Memory!Records \union {x})
      /\ Len(rows') = Len(rows) + 1 /\ rows'[Len(rows) + 1] = x
      /\ \A i \in 1 .. Len(rows) : rows'[i] = rows[i]
  BY <1>3, AppendProperties
<1>5. DOMAIN rows' = 1 .. Len(rows) + 1 /\ DOMAIN rows = 1 .. Len(rows)
  BY <1>3, <1>4, LenProperties
<1>6. \A i \in 1 .. Len(rows) + 1 : i = Len(rows) + 1 \/ i \in 1 .. Len(rows)
  BY <1>1
<1>7. Elements(rows') \subseteq Elements(rows) \union {x}
  BY <1>4, <1>5, <1>6 DEF Elements
<1> QED BY <1>1, <1>4, <1>7

LEMMA CurrentStep ==
  ASSUME CurrentKnown, StoreTyped, [Next]_vars
  PROVE  CurrentKnown'
<1>1. CASE Memory!AddCycle
  <2>1. PICK x \in [id : {decided'}, num : {CycleNum'}] :
          /\ Cycles' \in Seq(Memory!Records \union {x})
          /\ Len(Cycles') > 0 /\ Cycles'[Len(Cycles')] = x
    BY <1>1, AddCycleLemma
  <2>2. x \in Elements(Cycles') /\ x.id = decided' /\ x.num = CycleNum'
    BY <2>1, LenProperties DEF Elements
  <2> QED BY <2>2 DEF CurrentKnown, Elements
<1>2. CASE UNCHANGED store
  BY <1>2 DEF store, CurrentKnown, Elements
<1>3. CASE pc' # "cycle"
  BY <1>3 DEF CurrentKnown
<1>4. CASE Decide
  BY <1>1, <1>3, <1>4 DEF Decide, Memory!MirrorCycle, Memory!AddSnapshot,
       Memory!MirrorSnapshot, Memory!SaveOpen, Memory!SaveWrite
<1>5. CASE Crash \/ Restart
  BY <1>3, <1>5 DEF Crash, Restart, Memory!Crash, Memory!Restart
<1> QED BY <1>2, <1>4, <1>5
        DEF Next, Run, Answer, Embedded, Checked, CreateAnswered, UpsertAnswered, QueryEmbedded,
            Found, SearchFailed, Wipe, Tick, HealthChanges, vars

LEMMA CurrentInvariant == Spec => []CurrentKnown
<1>1. Init => CurrentKnown
  BY DEF Init, Memory!Init, CurrentKnown
<1> QED BY <1>1, CurrentStep, StoreTypes, PTL DEF Spec

LEMMA AddCycleMakes ==
  ASSUME StoreTyped, Memory!AddCycle, UNCHANGED <<last, points>>
  PROVE  Made
<1>1. PICK x \in [id : {decided'}, num : {CycleNum'}] :
        Elements(Cycles') \subseteq Elements(Cycles) \union {x}
  BY AddCycleLemma
<1>2. x = [id |-> decided', num |-> CycleNum']
  BY <1>1
<1>3. /\ pc # "down" /\ decided < MaxDecisions
      /\ decided' = decided + 1 /\ CycleNum' = CycleNum + 1
      /\ UNCHANGED <<file, rows, last, points, born>>
  BY DEF Memory!AddCycle, Memory!sqlite
<1>4. Known' = Elements(Cycles') \union Elements(rows) \union Elements(last) \union points
                 \union (IF Memory!Valid THEN Elements(file.Cycles) ELSE {})
  BY <1>3 DEF Known, Elements, Memory!Valid
<1>5. Known' \subseteq Known \union {x}
  BY <1>1, <1>4 DEF Known
<1> QED BY <1>2, <1>3, <1>5 DEF Made

LEMMA MirrorCycleCopies ==
  ASSUME CurrentKnown, StoreTyped, Memory!MirrorCycle, UNCHANGED <<last, points>>
  PROVE  Copied
<1>1. /\ pc = "cycle" /\ decided \in Nat /\ CycleNum \in Nat
      /\ UNCHANGED <<Cycles, file>>
      /\ rows' = rows \/ rows' = Append(rows, [id |-> decided, num |-> CycleNum])
  <2>1. decided \in Nat /\ CycleNum \in Nat
    BY DEF StoreTyped
  <2>2. pc = "cycle" /\ UNCHANGED <<Cycles, file>>
    BY DEF Memory!MirrorCycle, Memory!memory
  <2>3. rows' = rows \/ rows' = Append(rows, [id |-> decided, num |-> CycleNum])
    BY Zenon DEF Memory!MirrorCycle, Memory!MirroredNumber
  <2> QED BY <2>1, <2>2, <2>3
<1> DEFINE x == [id |-> decided, num |-> CycleNum]
<1>2. x.id = decided /\ x.num = CycleNum /\ x \in [id : Nat, num : Nat]
  BY <1>1
<1> HIDE DEF x
<1>3. Elements(rows') \subseteq Elements(rows) \union {x}
  BY <1>1, <1>2, MirrorLemma DEF x
<1>4. Known' = Elements(Cycles) \union Elements(rows') \union Elements(last) \union points
                 \union (IF Memory!Valid THEN Elements(file.Cycles) ELSE {})
  BY <1>1 DEF Known, Elements, Memory!Valid
<1>5. PICK k \in Elements(Cycles) : k.id = x.id /\ k.num = x.num
  BY <1>1, <1>2 DEF CurrentKnown
<1>6. \A r \in Known' : r \in Known \/ r = x
  BY <1>3, <1>4 DEF Known
<1>7. k \in Known
  BY <1>5 DEF Known
<1> QED BY <1>5, <1>6, <1>7 DEF Copied

\* Saving, killing and starting the process copy records or drop them.
LEMMA StoreCopies ==
  ASSUME UNCHANGED rows,
         Cycles' \in {Cycles, << >>} \/ (Memory!Valid /\ Cycles' = file.Cycles),
         file' \in {file, Corrupt, Memory!Image},
         last' \in {last, << >>},
         points' = points \/ (RunOK /\ phase \in Storing /\ Upserted)
  PROVE  Copied
<1>1. Elements(<< >>) = {}
  BY DEF Elements
<1>2. Elements(last') \subseteq Elements(last)
  BY <1>1
<1>3. Elements(Cycles') \subseteq Known
  <2>1. Elements(Cycles') \in {Elements(Cycles), {}}
          \/ (Memory!Valid /\ Elements(Cycles') = Elements(file.Cycles))
    BY <1>1
  <2> QED BY <2>1 DEF Known
<1>4. (IF Memory!Valid THEN Elements(file.Cycles) ELSE {})' \subseteq Known
  <2>1. CASE file' = file
    BY <2>1 DEF Known, Memory!Valid, Elements
  <2>2. CASE file' = Corrupt
    BY <2>2 DEF Memory!Valid
  <2>3. CASE file' = Memory!Image
    <3>1. file'.Cycles = Cycles
      BY <2>3 DEF Memory!Image
    <3> QED BY <3>1 DEF Known, Elements
  <2> QED BY <2>1, <2>2, <2>3
<1>5. \A p \in points' : \E k \in Known : p.id = k.id /\ p.num = k.num
  <2>1. points \union Elements(last) \subseteq Known
    BY DEF Known
  <2> QED BY <2>1, PointLemma
<1>6. \A r \in Known' : r \in Known \/ r \in points'
  <2>1. Known' = Elements(Cycles') \union Elements(rows) \union Elements(last') \union points'
                   \union (IF Memory!Valid THEN Elements(file.Cycles) ELSE {})'
    BY DEF Known, Elements
  <2> QED BY <1>2, <1>3, <1>4, <2>1 DEF Known
<1> QED BY <1>5, <1>6 DEF Copied

LEMMA KnownStep ==
  ASSUME CurrentKnown, RunOK, StoreTyped, [Next]_vars
  PROVE  Kept \/ Made
<1>1. CASE UNCHANGED store
  <2>1. last' \in {last, << >>} \union Reads
    <3>1. \A e, ready : Query(e, ready) => last' = << >>
      BY DEF Query
    <3>2. \A p, q, e, ready : Request(p, q, e, ready) => last' \in {last, << >>}
      BY <3>1 DEF Request
    <3>3. Failed(TRUE) \/ Failed(collReady) => last' = << >>
      BY <3>1 DEF Failed
    <3>4. CASE Run
      BY <3>1, <3>4 DEF Run
    <3>5. CASE Answer
      BY <3>1, <3>2, <3>3, <3>5 DEF Answer, Embedded, Checked, CreateAnswered, UpsertAnswered,
                                    QueryEmbedded, Found, SearchFailed, circuits
    <3>6. CASE UNCHANGED last
      BY <3>6
    <3>7. CASE Crash
      BY <3>7 DEF Crash, Fresh
    <3> QED BY <3>4, <3>5, <3>6, <3>7
            DEF Next, Decide, Restart, Wipe, Tick, HealthChanges, vars, agent
  <2>2. points' \subseteq points \/ (phase \in Storing /\ Upserted)
    <3>1. CASE Answer
      BY <3>1 DEF Answer, Embedded, Checked, CreateAnswered, UpsertAnswered, QueryEmbedded, Found,
                  SearchFailed, Storing, qdrant
    <3>2. CASE UNCHANGED points \/ points' = {}
      BY <3>2
    <3>3. CASE Crash
      BY <3>3 DEF Crash, qdrant, Storing
    <3> QED BY <3>1, <3>2, <3>3
            DEF Next, Run, Decide, Restart, Wipe, Tick, HealthChanges, vars, qdrant
  <2>3. Copied
    BY <1>1, <2>1, <2>2, AgentCopies
  <2> QED BY <1>1, <2>3 DEF Kept, store
<1>2. CASE Decide
  <2>1. UNCHANGED <<last, points>>
    BY <1>2 DEF Decide, agent, qdrant
  <2>2. CASE Memory!AddCycle
    BY <2>1, <2>2, AddCycleMakes
  <2>3. CASE Memory!MirrorCycle
    <3>1. pc # "down" /\ UNCHANGED <<decided, CycleNum, born>>
      BY <2>3 DEF Memory!MirrorCycle, Memory!memory
    <3> QED BY <2>1, <2>3, <3>1, MirrorCycleCopies DEF Kept
  <2>4. CASE Memory!AddSnapshot \/ Memory!MirrorSnapshot \/ Memory!SaveOpen \/ Memory!SaveWrite
    <3>1. /\ UNCHANGED <<rows, decided, Cycles, CycleNum, born>> /\ pc # "down"
          /\ file' \in {file, Corrupt, Memory!Image}
      BY <2>4 DEF Memory!AddSnapshot, Memory!MirrorSnapshot, Memory!SaveOpen, Memory!SaveWrite,
                  Memory!memory, Memory!sqlite, Memory!history
    <3> QED BY <2>1, <3>1, StoreCopies DEF Kept
  <2> QED BY <1>2, <2>2, <2>3, <2>4 DEF Decide
<1>3. CASE Crash
  <2>1. /\ UNCHANGED <<rows, decided, file, born>> /\ pc' = "down" /\ Cycles' = << >>
        /\ last' = << >>
    BY <1>3 DEF Crash, Memory!Crash, Fresh
  <2>2. points' = points \/ (phase \in Storing /\ Upserted)
    BY <1>3 DEF Crash, qdrant, Storing
  <2>3. Copied
    BY <2>1, <2>2, StoreCopies
  <2> QED BY <2>1, <2>3 DEF Kept
<1>4. CASE Restart
  <2>1. /\ UNCHANGED <<rows, decided, file, last, points>> /\ born' = decided
        /\ Cycles' = Cycles \/ (Memory!Valid /\ Cycles' = file.Cycles)
    BY <1>4 DEF Restart, Memory!Restart, Memory!memory, agent, qdrant
  <2>2. Copied
    BY <2>1, StoreCopies
  <2> QED BY <2>1, <2>2 DEF Kept
<1> QED BY <1>1, <1>2, <1>3, <1>4
        DEF Next, Run, Answer, Embedded, Checked, CreateAnswered, UpsertAnswered, QueryEmbedded,
            Found, SearchFailed, Wipe, Tick, HealthChanges, vars

\* A new decision gets a number of its own; whatever is copied keeps its number.
LEMMA NumberedStep ==
  ASSUME Numbered, StoreTyped, Kept \/ Made
  PROVE  Numbered'
<1>1. PICK f \in [0 .. MaxDecisions -> Nat] : NumberedBy(f)
  BY DEF Numbered
<1>2. CASE Kept
  <2>1. NumberedBy(f)'
    BY <1>1, <1>2 DEF NumberedBy, Kept, Copied
  <2> QED BY <2>1 DEF Numbered
<1>3. CASE Made
  <2>1. decided \in Nat /\ CycleNum \in Nat /\ decided < MaxDecisions
    BY <1>3 DEF Made, StoreTyped
  <2>2. PICK d \in 0 .. MaxDecisions : d = decided' /\ d = decided + 1
    BY <1>3, <2>1 DEF Made
  <2>3. PICK c \in Nat : c = CycleNum'
    BY <1>3, <2>1 DEF Made
  <2> DEFINE g == [f EXCEPT ![d] = c]
             x == [id |-> d, num |-> c]
  <2>4. Known' \subseteq Known \union {x}
    BY <1>3, <2>2, <2>3 DEF Made
  <2>5. g \in [0 .. MaxDecisions -> Nat] /\ g[d] = c
    OBVIOUS
  <2>6. \A r \in Known : r.id \in 0 .. decided' /\ r.num = g[r.id]
    <3> SUFFICES ASSUME NEW r \in Known PROVE r.id \in 0 .. decided' /\ r.num = g[r.id]
      OBVIOUS
    <3>1. r.id \in 0 .. decided /\ r.num = f[r.id]
      BY <1>1 DEF NumberedBy
    <3>2. r.id \in 0 .. decided' /\ r.id # d /\ r.id \in 0 .. MaxDecisions
      BY <2>1, <2>2, <3>1
    <3>3. g[r.id] = f[r.id]
      BY <3>2
    <3> QED BY <3>1, <3>2, <3>3
  <2>7. x.id \in 0 .. decided' /\ x.num = g[x.id]
    BY <2>2, <2>5
  <2> HIDE DEF g, x
  <2>8. NumberedBy(g)'
    BY <2>4, <2>6, <2>7 DEF NumberedBy
  <2> QED BY <2>5, <2>8 DEF Numbered
<1> QED BY <1>2, <1>3

\* Whoever numbered them, records of one decision have one number.
LEMMA NumberedInvariant == Spec => []Numbered
<1>1. ASSUME Init PROVE Numbered
  <2>1. Known = {}
    BY <1>1 DEF Init, Memory!Init, Known, Elements, Memory!Valid
  <2>2. [n \in 0 .. MaxDecisions |-> 0] \in [0 .. MaxDecisions -> Nat]
    OBVIOUS
  <2>3. NumberedBy([n \in 0 .. MaxDecisions |-> 0])
    BY <2>1 DEF NumberedBy
  <2> QED BY <2>2, <2>3 DEF Numbered
<1> QED BY <1>1, NumberedStep, KnownStep, CurrentInvariant, RunInvariant, StoreTypes, PTL DEF Spec

\* A process numbers its own decisions upwards, whatever it inherited.
LEMMA OwnInOrderStep ==
  ASSUME OwnInOrder, Numbered, StoreTyped, Kept \/ Made
  PROVE  OwnInOrder'
<1>1. decided \in Nat /\ CycleNum \in Nat /\ born \in Nat
  BY DEF StoreTyped
<1>2. \A r \in Known : r.id \in 0 .. decided /\ r.num \in Nat
  <2>1. PICK f \in [0 .. MaxDecisions -> Nat] : NumberedBy(f)
    BY DEF Numbered
  <2>2. decided <= MaxDecisions
    BY DEF StoreTyped
  <2> QED BY <1>1, <2>1, <2>2 DEF NumberedBy
<1>3. CASE Kept /\ born' = decided
  <2>1. \A r \in Known' : ~ (born' < r.id)
    BY <1>1, <1>2, <1>3 DEF Kept, Copied
  <2> QED BY <2>1 DEF OwnInOrder
<1>4. CASE Kept /\ born' = born /\ (pc' # "down" => pc # "down" /\ CycleNum' = CycleNum)
  BY <1>4 DEF OwnInOrder, Kept, Copied
<1>5. CASE Made
  <2>1. pc # "down" /\ decided' = decided + 1 /\ CycleNum' = CycleNum + 1 /\ born' = born
    BY <1>5 DEF Made
  <2> DEFINE x == [id |-> decided', num |-> CycleNum']
  <2>2. \A r \in Known' : r \in Known \/ r = x
    BY <1>5 DEF Made
  <2>3. x.id = decided + 1 /\ x.num = CycleNum + 1
    BY <2>1
  <2> HIDE DEF x
  <2>4. \A r, k \in Known' : born < r.id /\ r.id < k.id => r.num < k.num
    <3> SUFFICES ASSUME NEW r \in Known', NEW k \in Known', born < r.id, r.id < k.id
                 PROVE  r.num < k.num
      OBVIOUS
    <3>1. r \in Known
      BY <1>1, <1>2, <2>2, <2>3
    <3>2. CASE k \in Known
      BY <3>1, <3>2 DEF OwnInOrder
    <3>3. CASE k = x
      BY <1>1, <1>2, <2>1, <2>3, <3>1, <3>3 DEF OwnInOrder
    <3> QED BY <2>2, <3>2, <3>3
  <2>5. \A r \in Known' : born < r.id => r.num <= CycleNum'
    BY <1>1, <1>2, <2>1, <2>2, <2>3 DEF OwnInOrder
  <2> QED BY <2>1, <2>4, <2>5 DEF OwnInOrder
<1> QED BY <1>3, <1>4, <1>5 DEF Kept

-----------------------------------------------------------------------------
(* What Qdrant holds                                                       *)

\* What a run leaves behind has the declared types, too.
LeftOK ==
  /\ collReady \in BOOLEAN /\ exists \in BOOLEAN /\ healthy \in BOOLEAN
  /\ lastSimilar \subseteq 1 .. MaxDecisions
  /\ points \subseteq AllPoints

LEMMA UpsertedTyped ==
  ASSUME RunOK, StoreTyped, points \subseteq AllPoints, phase \in Storing, Upserted
  PROVE  points' \subseteq AllPoints
<1>1. PICK r \in Memory!Records : last = <<r>>
  BY DEF RunOK
<1>2. Point = [instance |-> restarts, num |-> r.num, id |-> r.id]
  BY <1>1 DEF Point
<1>3. Point \in AllPoints
  BY <1>2 DEF AllPoints, Memory!Records, StoreTyped
<1> QED BY <1>3 DEF Upserted

LEMMA LeftStep ==
  ASSUME LeftOK, RunOK, StoreTyped, [Next]_vars
  PROVE  LeftOK'
<1>1. CASE UpsertAnswered
  BY <1>1, UpsertedTyped DEF UpsertAnswered, LeftOK, Storing
<1>2. CASE Found
  <2>1. PICK hits \in SUBSET points : lastSimilar' = {p.id : p \in hits}
    BY <1>2 DEF Found
  <2>2. \A p \in points : p.id \in 1 .. MaxDecisions
    BY DEF LeftOK, AllPoints
  <2> QED BY <1>2, <2>1, <2>2 DEF Found, LeftOK, qdrant
<1>3. CASE Crash
  <2>1. points' = points \/ (phase \in Storing /\ Upserted)
    BY <1>3 DEF Crash, qdrant, Storing
  <2>2. points' \subseteq AllPoints
    BY <2>1, UpsertedTyped DEF LeftOK
  <2>3. exists' \in BOOLEAN /\ UNCHANGED healthy /\ collReady' = FALSE /\ lastSimilar' = {}
    BY <1>3 DEF Crash, Fresh, qdrant, LeftOK
  <2> QED BY <2>2, <2>3 DEF LeftOK
<1>4. CASE Restart
  BY <1>4 DEF Restart, LeftOK, agent, qdrant
<1>5. CASE Checked \/ CreateAnswered
  BY <1>5 DEF Checked, CreateAnswered, LeftOK, qdrant
<1>6. CASE Wipe
  BY <1>6 DEF Wipe, LeftOK, agent
<1>7. CASE HealthChanges
  BY <1>7 DEF HealthChanges, LeftOK, agent, qdrant
<1>8. CASE UNCHANGED <<collReady, lastSimilar, qdrant, healthy>>
  BY <1>8 DEF LeftOK, qdrant
<1> QED BY <1>1, <1>2, <1>3, <1>4, <1>5, <1>6, <1>7, <1>8
        DEF Next, Run, Answer, Embedded, QueryEmbedded, SearchFailed, Decide, Tick, vars, agent

LEMMA LeftInvariant == Spec => []LeftOK
<1>1. Init => LeftOK
  BY DEF Init, LeftOK
<1> QED BY <1>1, LeftStep, RunInvariant, StoreTypes, PTL DEF Spec

-----------------------------------------------------------------------------
(* Which point an upsert replaces                                          *)

LEMMA OwnInOrderInvariant == Spec => []OwnInOrder
<1>1. ASSUME Init PROVE OwnInOrder
  <2>1. Known = {}
    BY <1>1 DEF Init, Memory!Init, Known, Elements, Memory!Valid
  <2> QED BY <2>1 DEF OwnInOrder
<1> QED BY <1>1, OwnInOrderStep, KnownStep, NumberedInvariant, CurrentInvariant, RunInvariant,
           StoreTypes, PTL DEF Spec

\* A point appears by an upsert and disappears by one or with the collection.
LEMMA PointsStep ==
  ASSUME [Next]_vars
  PROVE  \/ points' = points
         \/ points' = {} /\ exists /\ ~ exists'
         \/ phase \in Storing /\ Upserted
<1>1. CASE Answer
  BY <1>1 DEF Answer, Embedded, Checked, CreateAnswered, UpsertAnswered, QueryEmbedded, Found,
              SearchFailed, Storing, qdrant
<1>2. CASE UNCHANGED points \/ Wipe
  BY <1>2 DEF Wipe
<1>3. CASE Crash
  BY <1>3 DEF Crash, qdrant, Storing
<1> QED BY <1>1, <1>2, <1>3 DEF Next, Run, Decide, Restart, Tick, HealthChanges, vars, qdrant

-----------------------------------------------------------------------------

\* Every reachable state of the agent and of Qdrant has the declared types.
THEOREM TypeCorrect == Spec => []TypeOK
<1>1. RunOK /\ LeftOK => TypeOK
  BY DEF RunOK, LeftOK, TypeOK, Storing
<1> QED BY <1>1, RunInvariant, LeftInvariant, PTL

\* Embed, ensureCollection, upsert and search leave no breaker half-open behind
\* them, whatever the services answer and for any threshold and timeout.
THEOREM HalfOpenOnlyDuringCallCorrect == Spec => []HalfOpenOnlyDuringCall
<1>1. RunOK => HalfOpenOnlyDuringCall
  BY DEF RunOK
<1> QED BY <1>1, RunInvariant, PTL

\* A process never gives a decision two points, however often it upserts it,
\* and whether it reads it from the database or from memory.
THEOREM OnePointPerDecisionCorrect == Spec => []OnePointPerDecision
<1>1. ASSUME Numbered, LeftOK PROVE OnePointPerDecision
  <2> SUFFICES ASSUME NEW p \in points, NEW q \in points,
                      p.instance = q.instance, p.id = q.id
               PROVE  p = q
    BY DEF OnePointPerDecision
  <2>1. PICK f : NumberedBy(f)
    BY <1>1 DEF Numbered
  <2>2. p.num = f[p.id] /\ q.num = f[q.id]
    BY <2>1 DEF NumberedBy, Known
  <2>3. p \in AllPoints /\ q \in AllPoints
    BY <1>1 DEF LeftOK
  <2> QED BY <2>2, <2>3 DEF AllPoints
<1> QED BY <1>1, NumberedInvariant, LeftInvariant, PTL

\* An upsert destroys the point of another decision only if this process had found
\* one of the two when it started: two decisions it has made itself never take each
\* other's points, nor does it touch what an earlier process has stored.
THEOREM OnlyInheritedOverwrittenCorrect == Spec => OnlyInheritedOverwritten
<1>1. ASSUME OwnInOrder, RunOK, LeftOK, StoreTyped, [Next]_vars
      PROVE  [\A p \in points :
                \/ p \in points'
                \/ exists /\ ~ exists'
                \/ p.instance = restarts /\ (p.id <= born \/ last[1].id <= born)]_vars
  <2> SUFFICES ASSUME NEW p \in points, p \notin points', ~ (exists /\ ~ exists')
               PROVE  p.instance = restarts /\ (p.id <= born \/ last[1].id <= born)
    OBVIOUS
  <2>1. phase \in Storing /\ Upserted
    BY <1>1, PointsStep
  <2>2. PICK r \in Memory!Records : last = <<r>>
    BY <1>1, <2>1 DEF RunOK
  <2>3. Point = [instance |-> restarts, num |-> r.num, id |-> r.id] /\ last[1] = r
    BY <2>2 DEF Point
  <2>4. cyclePointID(p) = cyclePointID(Point) /\ p # Point
    BY <2>1 DEF Upserted
  <2>5. p.instance = restarts /\ p.num = r.num
    BY <2>3, <2>4 DEF cyclePointID
  <2>6. p \in [instance : Nat, num : Nat, id : Nat] /\ r.id \in Nat /\ r.num \in Nat /\ born \in Nat
    BY <1>1 DEF LeftOK, StoreTyped, AllPoints, Memory!Records
  <2>7. p.id # r.id
    BY <2>3, <2>4, <2>5, <2>6
  <2>8. p \in Known /\ r \in Known
    BY <2>2, <2>3 DEF Known, Elements
  <2>9. ~ (born < p.id /\ born < r.id)
    BY <1>1, <2>5, <2>6, <2>7, <2>8 DEF OwnInOrder
  <2> QED BY <2>3, <2>5, <2>6, <2>9
<1> QED BY <1>1, OwnInOrderInvariant, RunInvariant, LeftInvariant, StoreTypes, PTL
        DEF Spec, OnlyInheritedOverwritten

-----------------------------------------------------------------------------
(* A run ends, and services that answer are not shut out                   *)

\* How many requests a run still makes at most, the one p in flight included.
RequestsLeft(p) ==
  IF p = "embed" THEN 6
  ELSE IF p = "check" THEN 5
  ELSE IF p = "create" THEN 4
  ELSE IF p = "upsert" THEN 3
  ELSE IF p = "embed query" THEN 2
  ELSE IF p = "search" THEN 1
  ELSE 0

RunLeft == RequestsLeft(phase)

LEMMA RequestsLeftValues ==
  /\ RequestsLeft("embed") = 6 /\ RequestsLeft("check") = 5 /\ RequestsLeft("create") = 4
  /\ RequestsLeft("upsert") = 3 /\ RequestsLeft("embed query") = 2
  /\ RequestsLeft("search") = 1 /\ RequestsLeft("idle") = 0
BY DEF RequestsLeft

\* Each answer brings a run nearer to its end, whatever it says, and nothing but
\* a crash happens to the run meanwhile: a run makes at most six requests, each
\* ended by its client's timeout (QdrantAgent.Run, ensureCollection, upsert,
\* updateSimilarDecisions).
RunIsBounded ==
  [][phase # "idle" => IF Answer \/ Crash THEN RunLeft' < RunLeft ELSE UNCHANGED phase]_vars

LEMMA QueryIsLate ==
  ASSUME NEW e, NEW ready, Query(e, ready)
  PROVE  phase' \in {"idle", "embed query"}
BY DEF Query

\* A run ends after at most six answers, whatever they are and whatever the stores,
\* the clock and Qdrant do meanwhile.
THEOREM RunIsBoundedCorrect == Spec => RunIsBounded
<1>1. ASSUME RunOK, [Next]_vars, phase # "idle"
      PROVE  IF Answer \/ Crash THEN RunLeft' < RunLeft ELSE UNCHANGED phase
  <2>1. ASSUME Embedded PROVE RunLeft' < RunLeft
    <3>1. phase = "embed" /\ phase' \in {"check", "upsert", "idle", "embed query"}
      BY <2>1, QueryIsLate DEF Embedded, Request
    <3>2. RunLeft = 6 /\ RunLeft' \in {5, 3, 2, 0}
      BY <3>1, RequestsLeftValues, Zenon DEF RunLeft
    <3> QED BY <3>2
  <2>2. ASSUME Checked PROVE RunLeft' < RunLeft
    <3>1. phase = "check" /\ phase' \in {"create", "upsert", "idle", "embed query"}
      BY <2>2, QueryIsLate DEF Checked, Request, Failed
    <3>2. RunLeft = 5 /\ RunLeft' \in {4, 3, 2, 0}
      BY <3>1, RequestsLeftValues, Zenon DEF RunLeft
    <3> QED BY <3>2
  <2>3. ASSUME CreateAnswered PROVE RunLeft' < RunLeft
    <3>1. phase = "create" /\ phase' \in {"upsert", "idle", "embed query"}
      BY <2>3, QueryIsLate DEF CreateAnswered, Request, Failed
    <3>2. RunLeft = 4 /\ RunLeft' \in {3, 2, 0}
      BY <3>1, RequestsLeftValues, Zenon DEF RunLeft
    <3> QED BY <3>2
  <2>4. ASSUME UpsertAnswered PROVE RunLeft' < RunLeft
    <3>1. phase = "upsert" /\ phase' \in {"idle", "embed query"}
      BY <2>4, QueryIsLate DEF UpsertAnswered, Failed
    <3>2. RunLeft = 3 /\ RunLeft' \in {2, 0}
      BY <3>1, RequestsLeftValues, Zenon DEF RunLeft
    <3> QED BY <3>2
  <2>5. ASSUME QueryEmbedded PROVE RunLeft' < RunLeft
    <3>1. phase = "embed query" /\ phase' \in {"search", "idle"}
      BY <2>5 DEF QueryEmbedded
    <3>2. RunLeft = 2 /\ RunLeft' \in {1, 0}
      BY <3>1, RequestsLeftValues, Zenon DEF RunLeft
    <3> QED BY <3>2
  <2>6. ASSUME Found \/ SearchFailed PROVE RunLeft' < RunLeft
    <3>1. phase = "search" /\ phase' = "idle"
      BY <2>6 DEF Found, SearchFailed
    <3>2. RunLeft = 1 /\ RunLeft' \in {0}
      BY <3>1, RequestsLeftValues, Zenon DEF RunLeft
    <3> QED BY <3>2
  <2>7. ASSUME Crash PROVE RunLeft' < RunLeft
    <3>1. phase' = "idle"
      BY <2>7 DEF Crash, Fresh
    <3>2. phase \in {"embed", "check", "create", "upsert", "embed query", "search"}
      BY <1>1 DEF RunOK, Storing
    <3>3. RunLeft \in {6, 5, 4, 3, 2, 1} /\ RunLeft' = 0
      BY <3>1, <3>2, RequestsLeftValues, Zenon DEF RunLeft
    <3> QED BY <3>3
  <2>8. ASSUME ~ (Answer \/ Crash) PROVE UNCHANGED phase
    BY <1>1, <2>8 DEF Next, Run, Decide, Restart, Wipe, Tick, HealthChanges, vars, agent
  <2>9. Answer \/ Crash => RunLeft' < RunLeft
    BY <2>1, <2>2, <2>3, <2>4, <2>5, <2>6, <2>7 DEF Answer
  <2> QED BY <2>8, <2>9
<1>2. RunOK /\ [Next]_vars
        => [phase # "idle" =>
              IF Answer \/ Crash THEN RunLeft' < RunLeft ELSE UNCHANGED phase]_vars
  BY <1>1
<1> QED BY <1>2, RunInvariant, PTL DEF Spec, RunIsBounded

\* Only a run that has seen the collection upserts or searches.
Seen == phase \in {"upsert", "embed query", "search"} => collReady

LEMMA SeenInvariant == Spec => []Seen
<1>1. Init => Seen
  BY DEF Init, Seen
<1>2. ASSUME Seen, [Next]_vars PROVE Seen'
  <2>1. ASSUME NEW e, Query(e, collReady), UNCHANGED collReady PROVE Seen'
    BY <2>1 DEF Query, Seen
  <2>2. CASE Run
    <3>1. CASE phase' = "embed"
      BY <3>1 DEF Seen
    <3> QED BY <2>1, <2>2, <3>1 DEF Run
  <2>3. CASE Embedded
    BY <2>1, <2>3 DEF Embedded, Request, Seen
  <2>4. CASE collReady'
    BY <2>4 DEF Seen
  <2>5. CASE Checked \/ CreateAnswered
    <3>1. CASE phase' = "create"
      BY <3>1 DEF Seen
    <3>2. CASE Query(embedder, collReady) /\ UNCHANGED collReady
      BY <2>1, <3>2
    <3>3. \/ phase' = "create" \/ collReady' = TRUE
          \/ Query(embedder, collReady) /\ UNCHANGED collReady
      BY <2>5 DEF Checked, CreateAnswered, Failed
    <3> QED BY <2>4, <3>1, <3>2, <3>3
  <2>6. CASE UpsertAnswered
    BY <2>1, <2>6 DEF UpsertAnswered, Failed
  <2>7. CASE QueryEmbedded \/ Found \/ SearchFailed
    BY <1>2, <2>7 DEF QueryEmbedded, Found, SearchFailed, Seen
  <2>8. CASE Crash
    BY <2>8 DEF Crash, Fresh, Seen
  <2>9. CASE UNCHANGED <<phase, collReady>>
    BY <1>2, <2>9 DEF Seen
  <2> QED BY <1>2, <2>2, <2>3, <2>5, <2>6, <2>7, <2>8, <2>9
          DEF Next, Answer, Decide, Restart, Wipe, Tick, HealthChanges, vars, agent
<1> QED BY <1>1, <1>2, PTL DEF Spec

\* The services and the database answer, and the collection the agent has seen is still there.
Serving == healthy /\ (collReady => exists)

LEMMA SuccessLemma ==
  ASSUME NEW b \in Breakers
  PROVE  /\ b.state = "closed" => AfterSuccess(b).state = "closed"
         /\ b.state = "closed" => AfterAllow(b) = b
         /\ b.state # "open" => AfterSuccess(b).state # "open"
         /\ b.state # "open" => AfterAllow(b) = b
BY DEF AfterSuccess, AfterAllow, Breakers

\* What the steps of a run do to the two breakers while the services answer.
LEMMA ServingStep ==
  ASSUME RunOK, Seen, Serving, [Next]_vars
  PROVE  /\ embedder' \in {embedder, AfterSuccess(embedder), AfterAllow(embedder), Older(embedder),
                           AfterAllow(AfterSuccess(embedder)), NewCircuitBreaker}
         /\ qdrantCircuit' \in {qdrantCircuit, AfterSuccess(qdrantCircuit),
                                AfterAllow(qdrantCircuit), Older(qdrantCircuit),
                                AfterAllow(AfterSuccess(qdrantCircuit)), NewCircuitBreaker}
<1>1. healthy /\ (phase \in {"upsert", "search"} => exists)
  BY DEF Serving, Seen
<1>2. ASSUME NEW e, NEW ready, Query(e, ready) PROVE embedder' \in {e, AfterAllow(e)}
  BY <1>2 DEF Query
<1>3. CASE Run
  BY <1>2, <1>3 DEF Run
<1>4. CASE Embedded
  BY <1>1, <1>2, <1>4 DEF Embedded, Request
<1>5. CASE Checked
  BY <1>1, <1>2, <1>5 DEF Checked, Request, circuits
<1>6. CASE CreateAnswered
  BY <1>1, <1>2, <1>6 DEF CreateAnswered, Request
<1>7. CASE UpsertAnswered
  BY <1>1, <1>2, <1>7 DEF UpsertAnswered
<1>8. CASE QueryEmbedded \/ Found \/ SearchFailed
  BY <1>1, <1>8 DEF QueryEmbedded, Found, SearchFailed
<1>9. CASE Crash
  BY <1>9 DEF Crash, Fresh
<1>10. CASE Tick
  BY <1>10 DEF Tick
<1>11. CASE UNCHANGED circuits
  BY <1>11 DEF circuits
<1> QED BY <1>3, <1>4, <1>5, <1>6, <1>7, <1>8, <1>9, <1>10, <1>11
        DEF Next, Answer, Decide, Restart, Wipe, HealthChanges, vars, agent

\* From the moment both services answer, a breaker that is closed stays closed and
\* one that is testing its service does not open again: no breaker counts an
\* error of its own making, and none is left half-open by a way out that records
\* nothing (Allow and RecordSuccess around Embed, ensureCollection, upsert and search).
ServingNeverTrips ==
  /\ [](embedder.state = "closed" /\ []Serving => [](embedder.state = "closed"))
  /\ [](qdrantCircuit.state = "closed" /\ []Serving => [](qdrantCircuit.state = "closed"))
  /\ [](embedder.state # "open" /\ []Serving => [](embedder.state # "open"))
  /\ [](qdrantCircuit.state # "open" /\ []Serving => [](qdrantCircuit.state # "open"))

\* Services that answer are never shut out by their breakers, for any threshold and
\* timeout and from any moment on.
THEOREM ServingNeverTripsCorrect == Spec => ServingNeverTrips
<1> DEFINE EC == embedder.state = "closed"
           QC == qdrantCircuit.state = "closed"
           EN == embedder.state # "open"
           QN == qdrantCircuit.state # "open"
<1>1. ASSUME NEW b \in Breakers, NEW c,
             c \in {b, AfterSuccess(b), AfterAllow(b), Older(b), AfterAllow(AfterSuccess(b)),
                    NewCircuitBreaker}
      PROVE  /\ b.state = "closed" => c.state = "closed"
             /\ b.state # "open" => c.state # "open"
  <2>1. AfterSuccess(b) \in Breakers /\ Older(b).state = b.state
        /\ NewCircuitBreaker.state = "closed"
    BY BreakerLemma, NewBreakerLemma
  <2>2. CASE c = AfterAllow(AfterSuccess(b))
    BY <2>1, <2>2, SuccessLemma
  <2> QED BY <1>1, <2>1, <2>2, SuccessLemma
<1>2. ASSUME RunOK, Seen, Serving, [Next]_vars
      PROVE  (EC => EC') /\ (QC => QC') /\ (EN => EN') /\ (QN => QN')
  <2>1. embedder \in Breakers /\ qdrantCircuit \in Breakers
    BY <1>2 DEF RunOK
  <2> QED BY <1>1, <1>2, <2>1, ServingStep
<1>3. RunOK /\ Seen /\ EC /\ Serving /\ [Next]_vars => EC'
  BY <1>2
<1>4. RunOK /\ Seen /\ QC /\ Serving /\ [Next]_vars => QC'
  BY <1>2
<1>5. RunOK /\ Seen /\ EN /\ Serving /\ [Next]_vars => EN'
  BY <1>2
<1>6. RunOK /\ Seen /\ QN /\ Serving /\ [Next]_vars => QN'
  BY <1>2
<1> HIDE DEF EC, QC, EN, QN
<1>7. Spec => /\ [](EC /\ []Serving => []EC)
              /\ [](QC /\ []Serving => []QC)
              /\ [](EN /\ []Serving => []EN)
              /\ [](QN /\ []Serving => []QN)
  BY <1>3, <1>4, <1>5, <1>6, RunInvariant, SeenInvariant, PTL DEF Spec
<1> QED BY <1>7 DEF ServingNeverTrips, EC, QC, EN, QN

\* The decision that a run would store now is in Qdrant.
NewestIn == Newest # << >> /\ \E p \in points : p.instance = restarts /\ p.id = Newest[1].id

\* Once the newest decision is in Qdrant, and no run that read another one is under
\* way, it stays there as long as the services and the database answer, no decision
\* is made and the collection is left alone: no later upsert takes its point
\* (cyclePointID, qdrant_agent.go).
NewestStays ==
  [](NewestIn /\ collReady /\ last \in {<< >>, Newest} /\ []Settled => []NewestIn)

\* What NewestStored says of the newest decision, "and stays there", for any number
\* of decisions and restarts and whatever the breakers do.
THEOREM NewestStaysCorrect == Spec => NewestStays
<1> DEFINE Safe == NewestIn /\ collReady /\ last \in {<< >>, Newest}
<1>1. ASSUME Settled, Settled', [Next]_vars PROVE UNCHANGED store
  <2>1. healthy /\ pc = "idle" /\ pc' = "idle"
    BY <1>1 DEF Settled
  <2>2. ~ Decide /\ ~ Crash /\ ~ Restart
    BY <2>1 DEF Decide, Crash, Restart, Memory!AddCycle, Memory!MirrorCycle, Memory!AddSnapshot,
       Memory!MirrorSnapshot, Memory!SaveOpen, Memory!SaveWrite, Memory!Crash, Memory!Restart
  <2> QED BY <1>1, <2>2 DEF Next, Run, Answer, Embedded, Checked, CreateAnswered, UpsertAnswered,
          QueryEmbedded, Found, SearchFailed, Wipe, Tick, HealthChanges, vars
<1>2. ASSUME Safe, RunOK, Settled, Settled', [Next]_vars PROVE Safe'
  <2>1. healthy /\ pc = "idle" /\ pc' = "idle" /\ exists /\ UNCHANGED store
    BY <1>1, <1>2 DEF Settled
  <2>2. Newest' = Newest /\ restarts' = restarts
    BY <2>1 DEF store, Newest, Memory!LastCycles, Memory!SecondaryLastCycles, Memory!LastOf
  <2>3. Reads = {Newest}
    BY <2>1 DEF Reads, Newest
  <2>4. ~ Crash
    BY <2>1 DEF Crash, Memory!Crash
  <2>5. collReady' /\ exists'
    <3>1. collReady'
      BY <1>2, <2>4 DEF Next, Run, Answer, Embedded, Checked, CreateAnswered, UpsertAnswered,
         QueryEmbedded, Found, SearchFailed, Decide, Restart, Wipe, Tick, HealthChanges, vars, agent
    <3> QED BY <1>2, <3>1 DEF Settled
  <2>6. last' \in {<< >>, Newest}
    <3>1. \A e, ready : Query(e, ready) => last' = << >>
      BY DEF Query
    <3>2. \A p, q, e, ready : Request(p, q, e, ready) => last' \in {last, << >>}
      BY <3>1 DEF Request
    <3>3. Failed(TRUE) \/ Failed(collReady) => last' = << >>
      BY <3>1 DEF Failed
    <3>4. CASE Run
      BY <2>3, <3>1, <3>4 DEF Run
    <3>5. CASE Answer
      BY <1>2, <3>1, <3>2, <3>3, <3>5 DEF Answer, Embedded, Checked, CreateAnswered,
         UpsertAnswered, QueryEmbedded, Found, SearchFailed, circuits
    <3>6. CASE UNCHANGED last
      BY <1>2, <3>6
    <3> QED BY <1>2, <2>4, <3>4, <3>5, <3>6
            DEF Next, Decide, Restart, Wipe, Tick, HealthChanges, vars, agent
  <2>7. NewestIn'
    <3>1. CASE points' = points
      BY <1>2, <2>2, <3>1 DEF NewestIn
    <3>2. CASE phase \in Storing /\ Upserted
      <4>1. last = Newest
        BY <1>2, <3>2 DEF RunOK
      <4>2. Point.id = Newest[1].id /\ Point.instance = restarts /\ Point \in points'
        BY <3>2, <4>1 DEF Point, Upserted
      <4> QED BY <1>2, <2>2, <4>2 DEF NewestIn
    <3> QED BY <1>2, <2>5, <3>1, <3>2, PointsStep
  <2> QED BY <2>2, <2>5, <2>6, <2>7
<1>3. Safe => NewestIn
  OBVIOUS
<1>4. Safe /\ RunOK /\ Settled /\ Settled' /\ [Next]_vars => Safe'
  BY <1>2
<1>5. NewestIn /\ collReady /\ last \in {<< >>, Newest} <=> Safe
  OBVIOUS
<1> HIDE DEF Safe
<1>6. Spec => [](Safe /\ []Settled => []NewestIn)
  BY <1>3, <1>4, RunInvariant, PTL DEF Spec
<1> QED BY <1>5, <1>6, PTL DEF NewestStays
=============================================================================
