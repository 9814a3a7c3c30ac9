-------------------------------- MODULE Store --------------------------------
(***************************************************************************)
(* memory/state.go, memory/sqlite_store.go and memory/double_write_store.go*)
(* under the one writer they have, the end of SystemAgent.Run: AddCycle,   *)
(* Add, Save.                                                              *)
(*                                                                         *)
(* The primary keeps the last maxHistory decisions and snapshots in memory *)
(* and Save rewrites state.json in place.  The secondary is a SQLite       *)
(* database that inserts every record at once and whose failures are       *)
(* discarded; it may be missing for a whole run of the process.  Readers of*)
(* the DoubleWriteStore (agents, orchestrator, daily report, CLI) get what *)
(* the secondary answers, or what the primary has if it answers nothing;   *)
(* the web server is given the primary alone.                              *)
(*                                                                         *)
(* The process can be killed between any two steps.  SIGTERM is no         *)
(* different: Runtime.Start closes the database and returns without        *)
(* waiting for the agents.                                                 *)
(***************************************************************************)
EXTENDS Naturals, Sequences, SequencesExt

CONSTANTS
  maxHistory,    \* cap of State.History and State.Cycles
  MaxDecisions,  \* bound: calls of AddCycle over all runs
  MaxRestarts,   \* bound: times the process is started again
  NoFile, Corrupt  \* contents of state.json that load as an empty state

ASSUME maxHistoryAssumption == maxHistory \in Nat \ {0}
ASSUME MaxDecisionsAssumption == MaxDecisions \in Nat
ASSUME MaxRestartsAssumption == MaxRestarts \in Nat
ASSUME FileAssumption == NoFile # Corrupt

VARIABLES
  pc,        \* what SystemAgent.Run has just done, "idle" between runs, "down"
             \* while there is no process
  Cycles,    \* State.Cycles
  History,   \* State.History
  CycleNum,  \* State.CycleNum
  file,      \* content of state.json
  attached,  \* the secondary is a SQLiteStore, not a NoopStore or nothing
  cycleNum,  \* SQLiteStore.cycleNum
  rows,      \* table cycles
  snapRows,  \* table snapshots
  decided,   \* history: decisions recorded over all runs; the k-th has id k
  missed,    \* history: ids that are not in table cycles
  restarts,  \* history: times the process has been started again
  born       \* history: decisions recorded before this process started

memory == <<Cycles, History, CycleNum>>
sqlite == <<attached, cycleNum, rows, snapRows>>
history == <<decided, missed, restarts, born>>
vars == <<pc, memory, file, sqlite, history>>

Image == [Cycles |-> Cycles, History |-> History, CycleNum |-> CycleNum]

Valid == file \notin {NoFile, Corrupt}

\* NewState on a first installation.
Init ==
  /\ pc = "idle"
  /\ Cycles = << >> /\ History = << >> /\ CycleNum = 0
  /\ file = NoFile
  /\ attached \in BOOLEAN
  /\ cycleNum = 0 /\ rows = << >> /\ snapRows = << >>
  /\ decided = 0 /\ missed = {} /\ restarts = 0 /\ born = 0

-----------------------------------------------------------------------------
(* DoubleWriteStore.AddCycle                                               *)

\* Mutants: nothing is trimmed; the oldest entries are the ones that stay.
KeepAll(s) == s
KeepOldest(s) == IF Len(s) > maxHistory THEN SubSeq(s, 1, maxHistory) ELSE s
Keep(s) ==
  IF Len(s) > maxHistory THEN SubSeq(s, Len(s) - maxHistory + 1, Len(s)) ELSE s

\* State.AddCycle numbers the record.
AddCycle ==
  /\ pc = "idle"
  /\ decided < MaxDecisions
  /\ decided' = decided + 1
  /\ CycleNum' = CycleNum + 1
  /\ Cycles' = Keep(Append(Cycles, [id |-> decided', num |-> CycleNum']))
  /\ pc' = "cycle"
  /\ UNCHANGED <<History, file, sqlite, missed, restarts, born>>

Higher(a, b) == IF a > b THEN a ELSE b

\* Mutant: the database numbers its own rows.
OwnNumber == cycleNum + 1
MirroredNumber == CycleNum

\* SQLiteStore.AddCycle: the counter moves even if the insert fails.
MirrorCycle ==
  /\ pc = "cycle"
  /\ \/ /\ attached
        /\ cycleNum' = Higher(cycleNum, MirroredNumber)
        /\ \/ /\ rows' = Append(rows, [id |-> decided, num |-> MirroredNumber])
              /\ UNCHANGED missed
           \/ /\ missed' = missed \union {decided}
              /\ UNCHANGED rows
     \/ /\ ~ attached
        /\ missed' = missed \union {decided}
        /\ UNCHANGED <<cycleNum, rows>>
  /\ pc' = "cycle mirrored"
  /\ UNCHANGED <<memory, file, attached, snapRows, decided, restarts, born>>

-----------------------------------------------------------------------------
(* DoubleWriteStore.Add, with the snapshot the decision was made on         *)

\* Mutant: Save is called between AddCycle and Add.
SaveThenAdd ==
  /\ pc = "cycle mirrored"
  /\ file' = Image
  /\ History' = Keep(Append(History, decided))
  /\ pc' = "snapshot"
  /\ UNCHANGED <<Cycles, CycleNum, sqlite, history>>

AddSnapshot ==
  /\ pc = "cycle mirrored"
  /\ History' = Keep(Append(History, decided))
  /\ pc' = "snapshot"
  /\ UNCHANGED <<Cycles, CycleNum, file, sqlite, history>>

MirrorSnapshot ==
  /\ pc = "snapshot"
  /\ \/ attached /\ snapRows' = Append(snapRows, decided)
     \/ UNCHANGED snapRows
  /\ pc' = "snapshot mirrored"
  /\ UNCHANGED <<memory, file, attached, cycleNum, rows, history>>

-----------------------------------------------------------------------------
(* State.Save: os.WriteFile                                                *)

\* Opening the file truncates it, or fails.
SaveOpen ==
  /\ pc = "snapshot mirrored"
  /\ \/ pc' = "saving" /\ file' = Corrupt
     \/ pc' = "idle" /\ UNCHANGED file
  /\ UNCHANGED <<memory, sqlite, history>>

SaveWrite ==
  /\ pc = "saving"
  /\ \/ file' = Image
     \/ UNCHANGED file       \* the disk is full
  /\ pc' = "idle"
  /\ UNCHANGED <<memory, sqlite, history>>

-----------------------------------------------------------------------------
(* Crash and restart                                                       *)

\* A decision the database does not have yet will never get there.
Crash ==
  /\ pc # "down"
  /\ pc' = "down"
  /\ Cycles' = << >> /\ History' = << >> /\ CycleNum' = 0
  /\ cycleNum' = 0
  /\ missed' = IF pc = "cycle" THEN missed \union {decided} ELSE missed
  /\ UNCHANGED <<file, attached, rows, snapRows, decided, restarts, born>>

Numbers == {row.num : row \in ToSet(rows)}

\* NewState loads the file, OpenSQLiteStore finds the highest cycle_num or fails.
Restart ==
  /\ pc = "down"
  /\ restarts < MaxRestarts
  /\ restarts' = restarts + 1
  /\ born' = decided
  /\ pc' = "idle"
  /\ \/ /\ Valid
        /\ Cycles' = file.Cycles /\ History' = file.History /\ CycleNum' = file.CycleNum
     \/ /\ ~ Valid
        /\ UNCHANGED memory
  /\ \/ /\ attached' = TRUE
        /\ cycleNum' \in {n \in Numbers \union {0} : \A k \in Numbers : k <= n}
     \/ attached' = FALSE /\ cycleNum' = 0
  /\ UNCHANGED <<file, rows, snapRows, decided, missed>>

-----------------------------------------------------------------------------

Next ==
  \/ AddCycle \/ MirrorCycle
  \/ AddSnapshot \/ MirrorSnapshot
  \/ SaveOpen \/ SaveWrite
  \/ Crash \/ Restart

Spec == Init /\ [][Next]_vars

-----------------------------------------------------------------------------
(* Reads                                                                   *)

\* State.LastCycles, and the rows of the query the right way round.
LastOf(s, n) == SubSeq(s, IF n < Len(s) THEN Len(s) - n + 1 ELSE 1, Len(s))

\* SQLiteStore.LastCycles, nothing if the query fails or the row cannot be read
\* (the disk, a database closed at shutdown); a NoopStore has nothing.
SecondaryLastCycles(n, answers) ==
  IF attached /\ answers THEN LastOf(rows, n) ELSE << >>

\* Mutant: reads go to the primary.
PrimaryLastCycles(n, answers) == LastOf(Cycles, n)

\* DoubleWriteStore.LastCycles
LastCycles(n, answers) ==
  IF SecondaryLastCycles(n, answers) # << >>
    THEN SecondaryLastCycles(n, answers)
    ELSE LastOf(Cycles, n)

-----------------------------------------------------------------------------
(* Properties                                                              *)

Records == [id : 1 .. MaxDecisions, num : 1 .. MaxDecisions]

Images == [Cycles : Seq(Records), History : Seq(1 .. MaxDecisions), CycleNum : 0 .. MaxDecisions]

TypeOK ==
  /\ pc \in {"idle", "cycle", "cycle mirrored", "snapshot", "snapshot mirrored", "saving", "down"}
  /\ Image \in Images
  /\ Len(Cycles) <= maxHistory /\ Len(History) <= maxHistory
  /\ file \in Images \union {NoFile, Corrupt}
  /\ attached \in BOOLEAN
  /\ cycleNum \in 0 .. MaxDecisions
  /\ rows \in Seq(Records)
  /\ snapRows \in Seq(1 .. MaxDecisions)
  /\ decided \in 0 .. MaxDecisions
  /\ missed \in SUBSET (1 .. MaxDecisions)
  /\ restarts \in 0 .. MaxRestarts
  /\ born \in 0 .. MaxDecisions

\* The primary always holds the most recent decisions it knows of, numbered
\* without a gap up to its counter: trimming, crashes and reloads never leave a
\* hole or a counter that does not belong to the history.
LatestWithoutGap(cycles, num) ==
  /\ Len(cycles) = IF num < maxHistory THEN num ELSE maxHistory
  /\ \A i \in DOMAIN cycles : cycles[i].num + Len(cycles) = num + i

HistoryIsLatest ==
  /\ LatestWithoutGap(Cycles, CycleNum)
  /\ Valid => LatestWithoutGap(file.Cycles, file.CycleNum)

\* Add and AddCycle are two calls, but state.json never has one without the
\* other: the snapshots it holds are those its decisions were made on, wherever
\* the process is killed.
PairedInFile ==
  Valid => /\ Len(file.History) = Len(file.Cycles)
           /\ \A i \in DOMAIN file.Cycles : file.History[i] = file.Cycles[i].id

\* A decision has the same number in state.json and in the database, also when
\* the database was missing for a while or its inserts failed
\* (double_write_store.go: "so the secondary stays in sync").
SameNumbers ==
  \A row \in ToSet(rows) :
    \A record \in ToSet(Cycles) \union (IF Valid THEN ToSet(file.Cycles) ELSE {}) :
      record.id = row.id => record.num = row.num

\* A reader of the DoubleWriteStore who asks for the last decision between two
\* calls of the agent gets the newest one, whatever happened to state.json, however
\* often the process was killed and whether or not the query fails, with two
\* exceptions only: a database that answers and whose insert of that decision
\* failed, and no answer from a database while the decision was made by an earlier
\* process and state.json did not hand it on.
NewestDecisionRead ==
  pc \notin {"down", "cycle"} /\ decided > 0 =>
    \A answers \in BOOLEAN :
      LET read == LastCycles(1, answers)
      IN  \/ read # << >> /\ read[1].id = decided
          \/ IF attached /\ answers
               THEN decided \in missed
               ELSE decided <= born /\ \A record \in ToSet(Cycles) : record.id # decided
=============================================================================
