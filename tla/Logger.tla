------------------------------- MODULE Logger -------------------------------
(***************************************************************************)
(* memory/logger.go: a log file and its numbered backups, rotated by a     *)
(* chain of renames.                                                       *)
(*                                                                         *)
(* Write holds Logger.mu from the size test to the append, and Status and  *)
(* Size take it too, so that one call is in progress at a time and what    *)
(* can come between two of its steps is the end of the process.  A step is *)
(* one system call.  Entries are numbered by the calls of Write and count  *)
(* one unit of size each.  An append writes all of an entry or nothing.    *)
(*                                                                         *)
(* The definitions carry the prefix Log because MCServices brings several  *)
(* components into one instance.                                           *)
(***************************************************************************)
EXTENDS Integers, Sequences, FiniteSets, Functions

CONSTANTS
  MaxBackups,     \* Logger.maxBackups
  MaxSize,        \* Logger.maxBytes, in entries
  LogCalls,       \* bound: calls of Write
  LogSpoils       \* bound: rotations that fail or are interrupted

ASSUME MaxBackupsAssumption == MaxBackups \in Nat
ASSUME MaxSizeAssumption == MaxSize \in Nat \ {0}
ASSUME LogCallsAssumption == LogCalls \in Nat
ASSUME LogSpoilsAssumption == LogSpoils \in Nat

VARIABLES
  files,          \* content of the files that exist: 0 is the current one, i the backup .i
  logPc,          \* next step of Write: idle, remove, shift, archive, append
  from,           \* the loop variable i of rotate
  calls,          \* calls of Write, and number of the entry being written
  accepted,       \* history: the entries whose Write returned nil, or that came to a file
  spoiled,        \* history: rotations that did not reach their end
  shiftFailed     \* history: an error that rotate ignores has occurred

LogVars == <<files, logPc, from, calls, accepted, spoiled, shiftFailed>>

Exists(i) == i \in DOMAIN files

LogInit ==
  /\ files = << >>
  /\ logPc = "idle" /\ from = 0
  /\ calls = 0 /\ accepted = {}
  /\ spoiled = 0 /\ shiftFailed = FALSE

-----------------------------------------------------------------------------
(* File system                                                             *)

Without(i) == [j \in DOMAIN files \ {i} |-> files[j]]

\* os.Rename: the destination is replaced.
Renamed(i, j) ==
  [k \in (DOMAIN files \ {i}) \union {j} |-> IF k = j THEN files[i] ELSE files[k]]

-----------------------------------------------------------------------------
(* Write                                                                   *)

Full == Exists(0) /\ Len(files[0]) >= MaxSize

\* Lock, and rotateIfNeeded: a missing file is not rotated, nor one below the limit.
LogWrite ==
  /\ logPc = "idle"
  /\ calls < LogCalls
  /\ calls' = calls + 1
  /\ logPc' = IF Full THEN "remove" ELSE "append"
  /\ UNCHANGED <<files, from, accepted, spoiled, shiftFailed>>

\* os.Stat fails for another reason than a missing file: Write gives up.
LogStatFails ==
  /\ logPc = "idle"
  /\ calls < LogCalls
  /\ Exists(0)
  /\ calls' = calls + 1
  /\ UNCHANGED <<files, logPc, from, accepted, spoiled, shiftFailed>>

\* The oldest backup is gone and the current file is not archived yet.
Rotating == logPc \in {"shift", "archive"}

AfterShift(i) == IF i > 1 THEN "shift" ELSE "archive"

\* The oldest backup goes; an error is ignored.  Without backups the path is .0,
\* which is no file of the log.
LogRemove(ok) ==
  /\ logPc = "remove"
  /\ files' = IF ok /\ MaxBackups > 0 THEN Without(MaxBackups) ELSE files
  /\ from' = MaxBackups - 1
  /\ logPc' = AfterShift(MaxBackups)
  /\ UNCHANGED <<calls, accepted, spoiled, shiftFailed>>

\* Mutant: the backups are shifted from the youngest on.
ShiftUpwards(ok) ==
  LET i == MaxBackups - from IN
  /\ logPc = "shift"
  /\ files' = IF Exists(i) /\ ok THEN Renamed(i, i + 1) ELSE files
  /\ shiftFailed' = (shiftFailed \/ (Exists(i) /\ ~ ok))
  /\ from' = from - 1
  /\ logPc' = AfterShift(from)
  /\ UNCHANGED <<calls, accepted, spoiled>>

\* One turn of the loop: .i becomes .(i+1); an error, of a missing file or not,
\* is ignored.
LogShift(ok) ==
  /\ logPc = "shift"
  /\ files' = IF Exists(from) /\ ok THEN Renamed(from, from + 1) ELSE files
  /\ shiftFailed' = (shiftFailed \/ (Exists(from) /\ ~ ok))
  /\ from' = from - 1
  /\ logPc' = AfterShift(from)
  /\ UNCHANGED <<calls, accepted, spoiled>>

\* The current file becomes .1; here an error ends the call.
LogArchive ==
  /\ logPc = "archive"
  /\ files' = Renamed(0, 1)
  /\ logPc' = "append"
  /\ UNCHANGED <<from, calls, accepted, spoiled, shiftFailed>>

LogArchiveFails ==
  /\ logPc = "archive"
  /\ spoiled < LogSpoils
  /\ spoiled' = spoiled + 1
  /\ logPc' = "idle"
  /\ UNCHANGED <<files, from, calls, accepted, shiftFailed>>

\* OpenFile with O_APPEND and O_CREATE, Encode and Close.
LogAppend ==
  /\ logPc = "append"
  /\ files' = [j \in DOMAIN files \union {0} |->
                 IF j = 0 THEN Append(IF Exists(0) THEN files[0] ELSE << >>, calls)
                 ELSE files[j]]
  /\ accepted' = accepted \union {calls}
  /\ logPc' = "idle"
  /\ UNCHANGED <<from, calls, spoiled, shiftFailed>>

\* The file cannot be opened, or is created and the entry not written.
LogAppendFails ==
  /\ logPc = "append"
  /\ \/ UNCHANGED files
     \/ ~ Exists(0) /\ files' = [j \in DOMAIN files \union {0} |->
                                   IF j = 0 THEN << >> ELSE files[j]]
  /\ logPc' = "idle"
  /\ UNCHANGED <<from, calls, accepted, spoiled, shiftFailed>>

\* The process ends; another one opens the same path.
LogCrash ==
  /\ logPc # "idle"
  /\ Rotating => spoiled < LogSpoils
  /\ spoiled' = IF Rotating THEN spoiled + 1 ELSE spoiled
  /\ logPc' = "idle"
  /\ UNCHANGED <<files, from, calls, accepted, shiftFailed>>

LogNext ==
  \/ LogWrite \/ LogStatFails
  \/ \E ok \in BOOLEAN : LogRemove(ok) \/ LogShift(ok)
  \/ LogArchive \/ LogArchiveFails
  \/ LogAppend \/ LogAppendFails
  \/ LogCrash

LogSpec == LogInit /\ [][LogNext]_LogVars

-----------------------------------------------------------------------------
(* Properties                                                              *)

\* Numbers a file may have: rotate uses .1 even when no backup is asked for.
Slots == 0 .. (IF MaxBackups > 1 THEN MaxBackups ELSE 1)

LogTypeOK ==
  /\ DOMAIN files \subseteq Slots
  /\ \A i \in DOMAIN files : files[i] \in Seq(1 .. LogCalls) /\ Len(files[i]) <= MaxSize
  /\ logPc \in {"idle", "remove", "shift", "archive", "append"}
  /\ from \in -1 .. MaxBackups
  /\ calls \in 0 .. LogCalls
  /\ accepted \subseteq 1 .. LogCalls
  /\ spoiled \in 0 .. LogSpoils
  /\ shiftFailed \in BOOLEAN

\* What is left of the log.
Kept == UNION {Range(files[i]) : i \in DOMAIN files}

\* Within a file, and from a backup to the younger ones and the current file.
InOrderOnce ==
  /\ \A i \in DOMAIN files : \A j, k \in DOMAIN files[i] : j < k => files[i][j] < files[i][k]
  /\ \A i, j \in DOMAIN files :
       i < j => \A m \in Range(files[i]), n \in Range(files[j]) : n < m

\* Each rotation that fails or is interrupted may cost one backup: the next one
\* deletes the highest number again although a lower one is free.
Retained == (MaxBackups - spoiled) * MaxSize

\* Reading the backups, oldest first, and then the current file gives the entries in
\* the order of the calls, none twice; and unless a rename that rotate ignores has
\* failed, what is missing is older than all that is left, and if anything is, as
\* much is left as the backups hold, less one backup for each spoiled rotation.
LogKeepsLatest ==
  /\ InOrderOnce
  /\ ~ shiftFailed => /\ Kept \subseteq accepted
                      /\ \A lost \in accepted \ Kept, n \in Kept : lost < n
                      /\ accepted # Kept => Cardinality(Kept) >= Retained
=============================================================================
