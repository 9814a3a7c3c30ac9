----------------------------- MODULE QdrantAgent -----------------------------
(***************************************************************************)
(* agents/qdrant_agent.go with llm/embedder.go, over the store of Store:   *)
(* every run of the agent upserts the newest decision into Qdrant, then    *)
(* searches for similar ones.  The system agent writes the store meanwhile *)
(* and the process can be killed at any point.                             *)
(*                                                                         *)
(* A run is a sequence of requests; phase is the one in flight.  embedder  *)
(* and qdrantCircuit are the two breakers.  A step takes one answer, runs  *)
(* the code up to the next request and asks its breaker.  Time is counted  *)
(* in ticks, as in CircuitBreaker.                                         *)
(*                                                                         *)
(* cyclePointID hashes the random instance id and the cycle number.  The   *)
(* hash is taken to be injective and a process is told from the earlier    *)
(* ones by the number of restarts.                                         *)
(***************************************************************************)
EXTENDS CircuitBreaker, Sequences, FiniteSets

CONSTANTS maxHistory, MaxDecisions, MaxRestarts, NoFile, Corrupt,
          similarDecisionsK

ASSUME similarDecisionsKAssumption == similarDecisionsK \in Nat
ASSUME StoreAssumption ==
  /\ maxHistory \in Nat \ {0}
  /\ MaxDecisions \in Nat /\ MaxRestarts \in Nat
  /\ NoFile # Corrupt

VARIABLES
  pc, Cycles, History, CycleNum, file, attached, cycleNum, rows, snapRows,
  decided, missed, restarts, born,  \* see Store
  phase,          \* request in flight, "idle" between runs
  last,           \* decision being stored: LastCycles(1) when the run began
  embedder,       \* OllamaEmbedder.circuit
  qdrantCircuit,
  collReady,
  lastSimilar,    \* ids of the decisions LastSimilarDecisions returns
  exists,         \* Qdrant: the collection has been created
  points,         \* Qdrant: the points it holds
  healthy         \* environment: Ollama, Qdrant and the database answer

Memory == INSTANCE Store

store == <<pc, Cycles, History, CycleNum, file, attached, cycleNum, rows,
           snapRows, decided, missed, restarts, born>>
circuits == <<embedder, qdrantCircuit>>
qdrant == <<exists, points>>
agent == <<phase, last, circuits, collReady, lastSimilar>>
vars == <<store, agent, qdrant, healthy>>

Fresh ==
  /\ phase' = "idle"
  /\ last' = << >>
  /\ embedder' = NewCircuitBreaker
  /\ qdrantCircuit' = NewCircuitBreaker
  /\ collReady' = FALSE
  /\ lastSimilar' = {}

Init ==
  /\ Memory!Init
  /\ phase = "idle" /\ last = << >>
  /\ embedder = NewCircuitBreaker /\ qdrantCircuit = NewCircuitBreaker
  /\ collReady = FALSE
  /\ lastSimilar = {}
  /\ exists = FALSE /\ points = {}
  /\ healthy \in BOOLEAN

-----------------------------------------------------------------------------
(* The point of a decision                                                 *)

\* Mutant: the number is the store's current one, not the record's.
NumberedNow == [instance |-> restarts, num |-> CycleNum, id |-> last[1].id]
Point == [instance |-> restarts, num |-> last[1].num, id |-> last[1].id]

\* Mutant: the cycle number alone.
NumOnly(p) == p.num
cyclePointID(p) == <<p.instance, p.num>>

Upserted ==
  points' = {p \in points : cyclePointID(p) # cyclePointID(Point)} \union {Point}

-----------------------------------------------------------------------------
(* One run                                                                 *)

\* updateSimilarDecisions, with the embedder's breaker e.
Query(e, ready) ==
  \/ /\ ready /\ Allowed(e)
     /\ embedder' = AfterAllow(e)
     /\ phase' = "embed query"
     /\ last' = << >>
  \/ /\ ~ (ready /\ Allowed(e))
     /\ embedder' = e
     /\ phase' = "idle"
     /\ last' = << >>

\* The decision's next request to Qdrant, with Qdrant's breaker q.
Request(p, q, e, ready) ==
  \/ /\ Allowed(q)
     /\ qdrantCircuit' = AfterAllow(q)
     /\ embedder' = e
     /\ phase' = p
     /\ UNCHANGED last
  \/ /\ ~ Allowed(q)
     /\ qdrantCircuit' = q
     /\ Query(e, ready)

\* What LastCycles(1) may return.
Reads == {Memory!LastCycles(1, answers) : answers \in {TRUE, healthy}}

\* Mutant: a run is skipped while the embedder's breaker is open.
RunIfClosed ==
  /\ phase = "idle"
  /\ pc # "down"
  /\ embedder.state # "open"
  /\ \E read \in Reads :
       \/ /\ read # << >>
          /\ last' = read
          /\ phase' = "embed"
          /\ UNCHANGED embedder
       \/ /\ read = << >>
          /\ Query(embedder, collReady)
  /\ UNCHANGED <<store, qdrantCircuit, collReady, lastSimilar, qdrant, healthy>>

\* The ticker fires.
Run ==
  /\ phase = "idle"
  /\ pc # "down"
  /\ \E read \in Reads :
       \/ /\ read # << >> /\ Allowed(embedder)
          /\ last' = read
          /\ embedder' = AfterAllow(embedder)
          /\ phase' = "embed"
       \/ /\ read = << >> \/ ~ Allowed(embedder)
          /\ Query(embedder, collReady)
  /\ UNCHANGED <<store, qdrantCircuit, collReady, lastSimilar, qdrant, healthy>>

Embedded ==
  /\ phase = "embed"
  /\ \/ Request(IF collReady THEN "upsert" ELSE "check", qdrantCircuit,
                AfterSuccess(embedder), collReady)
     \/ /\ ~ healthy
        /\ Query(AfterFailure(embedder), collReady)
        /\ UNCHANGED qdrantCircuit
  /\ UNCHANGED <<store, collReady, lastSimilar, qdrant, healthy>>

\* An answer of Qdrant that ends the first half of the run.
Failed(ready) ==
  /\ qdrantCircuit' = AfterFailure(qdrantCircuit)
  /\ Query(embedder, ready)

\* Mutant: finding the collection does not set collReady.
CheckedForNow ==
  /\ phase = "check"
  /\ \/ /\ exists
        /\ Request("upsert", AfterSuccess(qdrantCircuit), embedder, FALSE)
     \/ /\ ~ exists
        /\ phase' = "create"
        /\ UNCHANGED <<last, circuits>>
     \/ /\ ~ healthy
        /\ Failed(collReady)
  /\ UNCHANGED <<store, collReady, lastSimilar, qdrant, healthy>>

\* Status 200, 404, anything else.
Checked ==
  /\ phase = "check"
  /\ \/ /\ exists
        /\ collReady' = TRUE
        /\ Request("upsert", AfterSuccess(qdrantCircuit), embedder, TRUE)
     \/ /\ ~ exists
        /\ phase' = "create"
        /\ UNCHANGED <<last, circuits, collReady>>
     \/ /\ ~ healthy
        /\ Failed(collReady)
        /\ UNCHANGED collReady
  /\ UNCHANGED <<store, lastSimilar, qdrant, healthy>>

\* Mutant: a refused creation is not recorded.
CreatedOrIgnored ==
  /\ phase = "create"
  /\ \/ /\ exists' = TRUE
        /\ collReady' = TRUE
        /\ Request("upsert", AfterSuccess(qdrantCircuit), embedder, TRUE)
     \/ /\ ~ healthy
        /\ exists' \in {exists, TRUE}
        /\ Query(embedder, collReady)
        /\ UNCHANGED <<qdrantCircuit, collReady>>
  /\ UNCHANGED <<store, lastSimilar, points, healthy>>

\* A request without an answer may still have been carried out.
CreateAnswered ==
  /\ phase = "create"
  /\ \/ /\ exists' = TRUE
        /\ collReady' = TRUE
        /\ Request("upsert", AfterSuccess(qdrantCircuit), embedder, TRUE)
     \/ /\ ~ healthy
        /\ exists' \in {exists, TRUE}
        /\ Failed(collReady)
        /\ UNCHANGED collReady
  /\ UNCHANGED <<store, lastSimilar, points, healthy>>

UpsertAnswered ==
  /\ phase = "upsert"
  /\ \/ /\ exists
        /\ Upserted
        /\ qdrantCircuit' = AfterSuccess(qdrantCircuit)
        /\ Query(embedder, collReady)
     \/ /\ ~ healthy /\ exists
        /\ Upserted
        /\ Failed(collReady)
     \/ /\ ~ healthy \/ ~ exists
        /\ UNCHANGED points
        /\ Failed(collReady)
  /\ UNCHANGED <<store, collReady, lastSimilar, exists, healthy>>

QueryEmbedded ==
  /\ phase = "embed query"
  /\ \/ /\ embedder' = AfterSuccess(embedder)
        /\ \/ /\ Allowed(qdrantCircuit)
              /\ qdrantCircuit' = AfterAllow(qdrantCircuit)
              /\ phase' = "search"
           \/ /\ ~ Allowed(qdrantCircuit)
              /\ phase' = "idle"
              /\ UNCHANGED qdrantCircuit
     \/ /\ ~ healthy
        /\ embedder' = AfterFailure(embedder)
        /\ phase' = "idle"
        /\ UNCHANGED qdrantCircuit
  /\ UNCHANGED <<store, last, collReady, lastSimilar, qdrant, healthy>>

\* At most K hits, those above the score.
Found ==
  /\ phase = "search"
  /\ exists
  /\ phase' = "idle"
  /\ qdrantCircuit' = AfterSuccess(qdrantCircuit)
  /\ \E hits \in SUBSET points :
       /\ Cardinality(hits) <= similarDecisionsK
       /\ lastSimilar' = {p.id : p \in hits}
  /\ UNCHANGED <<store, last, embedder, collReady, qdrant, healthy>>

SearchFailed ==
  /\ phase = "search"
  /\ ~ healthy \/ ~ exists
  /\ phase' = "idle"
  /\ qdrantCircuit' = AfterFailure(qdrantCircuit)
  /\ UNCHANGED <<store, last, embedder, collReady, lastSimilar, qdrant, healthy>>

Answer ==
  \/ Embedded \/ Checked \/ CreateAnswered \/ UpsertAnswered
  \/ QueryEmbedded \/ Found \/ SearchFailed

-----------------------------------------------------------------------------
(* The rest of the world                                                   *)

\* SystemAgent.Run goes on in its own goroutine.
Decide ==
  /\ \/ Memory!AddCycle \/ Memory!MirrorCycle
     \/ Memory!AddSnapshot \/ Memory!MirrorSnapshot
     \/ Memory!SaveOpen \/ Memory!SaveWrite
  /\ UNCHANGED <<agent, qdrant, healthy>>

\* The request in flight may be carried out all the same.
Crash ==
  /\ Memory!Crash
  /\ Fresh
  /\ \/ UNCHANGED qdrant
     \/ phase = "create" /\ exists' = TRUE /\ UNCHANGED points
     \/ phase = "upsert" /\ exists /\ Upserted /\ UNCHANGED exists
  /\ UNCHANGED healthy

\* NewQdrantAgent with a new instance id.
Restart ==
  /\ Memory!Restart
  /\ UNCHANGED <<agent, qdrant, healthy>>

\* Somebody removes the collection.
Wipe ==
  /\ exists
  /\ exists' = FALSE
  /\ points' = {}
  /\ UNCHANGED <<store, agent, healthy>>

Tick ==
  /\ pc # "down"
  /\ embedder' = Older(embedder)
  /\ qdrantCircuit' = Older(qdrantCircuit)
  /\ UNCHANGED <<store, phase, last, collReady, lastSimilar, qdrant, healthy>>

HealthChanges ==
  /\ healthy' = ~ healthy
  /\ UNCHANGED <<store, agent, qdrant>>

-----------------------------------------------------------------------------

Next ==
  \/ Run \/ Answer
  \/ Decide \/ Crash \/ Restart
  \/ Wipe \/ Tick \/ HealthChanges

\* The registry's ticker goes on, every request ends at its client's timeout,
\* and time passes.
Fairness == WF_vars(Run) /\ WF_vars(Answer) /\ WF_vars(Tick)

Spec == Init /\ [][Next]_vars /\ Fairness

-----------------------------------------------------------------------------
(* Properties                                                              *)

\* The decision a run would store now if the database answers.
Newest == Memory!LastCycles(1, TRUE)

AllPoints == [instance : 0 .. MaxRestarts, num : 1 .. MaxDecisions, id : 1 .. MaxDecisions]

\* The store's variables are typed in Store; these are the agent's and Qdrant's.
TypeOK ==
  /\ phase \in {"idle", "embed", "check", "create", "upsert", "embed query", "search"}
  /\ last \in {<< >>} \union {<<r>> : r \in Memory!Records}
  /\ embedder \in Breakers /\ qdrantCircuit \in Breakers
  /\ collReady \in BOOLEAN
  /\ lastSimilar \subseteq 1 .. MaxDecisions
  /\ exists \in BOOLEAN
  /\ points \subseteq AllPoints
  /\ healthy \in BOOLEAN

\* A breaker is half-open only while the request that tests its service is in
\* flight: each way out of Embed, ensureCollection, upsert and search records an
\* outcome, the creation included, which the check has asked Allow for.
HalfOpenOnlyDuringCall ==
  /\ embedder.state = "half-open" => phase \in {"embed", "embed query"}
  /\ qdrantCircuit.state = "half-open" => phase \in {"check", "create", "upsert", "search"}

\* However often a decision is upserted again, after a lost answer or because no
\* new one was made, and whatever the system agent records meanwhile, a process
\* gives it one point.
OnePointPerDecision ==
  \A p, q \in points : p.instance = q.instance /\ p.id = q.id => p = q

\* An upsert replaces another decision only if one of the two was made by an
\* earlier process, and stored under this one's instance id: the decisions a process
\* makes never take each other's points, whatever its reads return.
OnlyInheritedOverwritten ==
  [][\A p \in points :
       \/ p \in points'
       \/ exists /\ ~ exists'
       \/ p.instance = restarts /\ (p.id <= born \/ last[1].id <= born)]_vars

\* qdrant_agent.go: the instance id "prevents point ID collisions on cycle
\* counter reset", so that no decision takes the point of another one.
NoCollision ==
  [][\A p \in points : p \in points' \/ (exists /\ ~ exists')]_vars

\* Both services and the database are up, no decision is being made, and the collection the
\* agent has seen is still there.
Settled == healthy /\ pc = "idle" /\ (collReady => exists)

\* Then the newest decision ends up in Qdrant and stays there, whatever state
\* the breakers were left in, ...
NewestStored ==
  <>[]Settled => <>[](Newest = << >> \/ \E p \in points :
                        p.instance = restarts /\ p.id = Newest[1].id)

\* ... and searches succeed again and again: storing does not starve searching.
SearchResumes ==
  <>[](Settled /\ Newest # << >>) => []<><<Found>>_vars
=============================================================================
