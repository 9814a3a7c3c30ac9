----------------------------- MODULE StoreProofs -----------------------------
(***************************************************************************)
(* state.json and the database for any cap of the history, any number of   *)
(* decisions and any number of restarts.                                   *)
(***************************************************************************)
EXTENDS Store, SequenceTheorems, TLAPS

USE maxHistoryAssumption, MaxDecisionsAssumption, MaxRestartsAssumption

-----------------------------------------------------------------------------
(* What trimming does to a list that just grew                             *)

\* t is s, without its oldest element if it was full, and x.
Kept(s, x, t) ==
  /\ Len(t) \in Nat /\ DOMAIN t = 1 .. Len(t) /\ Len(t) > 0
  /\ Len(t) <= maxHistory /\ t[Len(t)] = x
  /\ Len(s) \in Nat /\ DOMAIN s = 1 .. Len(s)
  /\ Len(s) < maxHistory =>
       Len(t) = Len(s) + 1 /\ \A i \in 1 .. Len(s) : t[i] = s[i]
  /\ Len(s) = maxHistory =>
       Len(t) = maxHistory /\ \A i \in 1 .. maxHistory - 1 : t[i] = s[i + 1]

LEMMA KeepLemma ==
  ASSUME NEW S, NEW s \in Seq(S), NEW x \in S, Len(s) <= maxHistory,
         NEW t, t = Keep(Append(s, x))
  PROVE  t \in Seq(S) /\ Kept(s, x, t)
<1> DEFINE a == Append(s, x)
<1>1. /\ a \in Seq(S) /\ Len(a) = Len(s) + 1 /\ a[Len(s) + 1] = x
      /\ \A i \in 1 .. Len(s) : a[i] = s[i]
  BY AppendProperties
<1>2. Len(s) \in Nat
  BY LenProperties
<1>3. ASSUME Len(s) < maxHistory
      PROVE  /\ t \in Seq(S) /\ Len(t) = Len(s) + 1 /\ t[Len(t)] = x
             /\ \A i \in 1 .. Len(s) : t[i] = s[i]
  <2>1. Keep(a) = a
    BY <1>1, <1>2, <1>3 DEF Keep
  <2> QED BY <2>1, <1>1, <1>2, <1>3
<1>4. ASSUME Len(s) = maxHistory
      PROVE  /\ t \in Seq(S) /\ Len(t) = maxHistory /\ t[Len(t)] = x
             /\ \A i \in 1 .. maxHistory - 1 : t[i] = s[i + 1]
  <2>1. Keep(a) = SubSeq(a, 2, maxHistory + 1)
    BY <1>1, <1>2, <1>4 DEF Keep
  <2>2. /\ Keep(a) \in Seq(S) /\ Len(Keep(a)) = maxHistory
        /\ \A i \in 1 .. maxHistory : Keep(a)[i] = a[i + 1]
    <3>1. 2 \in 1 .. Len(a) + 1 /\ maxHistory + 1 \in 2 - 1 .. Len(a)
      BY <1>1, <1>2, <1>4
    <3>2. /\ SubSeq(a, 2, maxHistory + 1) \in Seq(S)
          /\ Len(SubSeq(a, 2, maxHistory + 1)) = maxHistory + 1 - 2 + 1
          /\ \A i \in 1 .. maxHistory + 1 - 2 + 1 :
               SubSeq(a, 2, maxHistory + 1)[i] = a[2 + i - 1]
      BY <3>1, <1>1, SubSeqProperties
    <3> HIDE DEF a
    <3>3. maxHistory + 1 - 2 + 1 = maxHistory /\ \A i \in 1 .. maxHistory : 2 + i - 1 = i + 1
      OBVIOUS
    <3> QED BY <2>1, <3>2, <3>3
  <2> QED BY <2>2, <1>1, <1>2, <1>4 DEF a
<1>5. t \in Seq(S) /\ Len(t) \in Nat /\ DOMAIN t = 1 .. Len(t) /\ DOMAIN s = 1 .. Len(s)
  <2>1. t \in Seq(S)
    BY <1>2, <1>3, <1>4
  <2> QED BY <2>1, LenProperties
<1>6. CASE Len(s) < maxHistory
  <2>1. Len(t) > 0 /\ Len(t) <= maxHistory /\ Len(s) # maxHistory
    BY <1>2, <1>3, <1>6
  <2> QED BY <1>2, <1>3, <1>5, <1>6, <2>1, Zenon DEF Kept
<1>7. CASE Len(s) = maxHistory
  <2>1. Len(t) > 0 /\ Len(t) <= maxHistory /\ ~ (Len(s) < maxHistory)
    BY <1>2, <1>4, <1>7
  <2> QED BY <1>2, <1>4, <1>5, <1>7, <2>1, Zenon DEF Kept
<1> QED BY <1>2, <1>6, <1>7

\* Kept, taken apart by the length of the old list.
LEMMA KeptFacts ==
  ASSUME NEW s, NEW x, NEW t, Kept(s, x, t), Len(s) <= maxHistory
  PROVE  /\ Len(s) \in Nat /\ DOMAIN s = 1 .. Len(s) /\ Len(t) \in Nat /\ DOMAIN t = 1 .. Len(t)
         /\ Len(t) = (IF Len(s) < maxHistory THEN Len(s) + 1 ELSE maxHistory)
         /\ t[Len(t)] = x
         /\ \A i \in 1 .. Len(t) : i # Len(t) =>
              LET j == IF Len(s) < maxHistory THEN i ELSE i + 1
              IN  j \in 1 .. Len(s) /\ t[i] = s[j]
<1>1. /\ Len(s) \in Nat /\ DOMAIN s = 1 .. Len(s) /\ Len(t) \in Nat /\ DOMAIN t = 1 .. Len(t)
      /\ t[Len(t)] = x
  BY DEF Kept
<1>0. Len(s) < maxHistory \/ (~ (Len(s) < maxHistory) /\ Len(s) = maxHistory)
  <2>1. \A n \in Nat : n <= maxHistory => n < maxHistory \/ (~ (n < maxHistory) /\ n = maxHistory)
    OBVIOUS
  <2>2. Len(s) \in Nat
    BY <1>1
  <2> QED BY <2>1, <2>2, Zenon
<1>2. Len(t) = (IF Len(s) < maxHistory THEN Len(s) + 1 ELSE maxHistory)
  <2>1. /\ Len(s) < maxHistory => Len(t) = Len(s) + 1
        /\ Len(s) = maxHistory => Len(t) = maxHistory
    BY Zenon DEF Kept
  <2> QED BY <1>0, <2>1
<1>3. ASSUME NEW i \in 1 .. Len(t), i # Len(t)
      PROVE  LET j == IF Len(s) < maxHistory THEN i ELSE i + 1
             IN  j \in 1 .. Len(s) /\ t[i] = s[j]
  <2>1. CASE Len(s) < maxHistory
    <3>1. i \in 1 .. Len(s)
      BY <1>1, <1>2, <1>3, <2>1
    <3>2. \A k \in 1 .. Len(s) : t[k] = s[k]
      BY <2>1, Zenon DEF Kept
    <3> QED BY <2>1, <3>1, <3>2
  <2>2. CASE ~ (Len(s) < maxHistory)
    <3>1. Len(s) = maxHistory
      BY <1>0, <2>2
    <3>2. \A k \in 1 .. maxHistory - 1 : t[k] = s[k + 1]
      BY <3>1, Zenon DEF Kept
    <3>3. i \in 1 .. maxHistory - 1 /\ i + 1 \in 1 .. Len(s)
      BY <1>1, <1>2, <1>3, <3>1
    <3> QED BY <2>2, <3>2, <3>3
  <2> QED BY <2>1, <2>2
<1>4. \A i \in 1 .. Len(t) : i # Len(t) =>
        LET j == IF Len(s) < maxHistory THEN i ELSE i + 1
        IN  j \in 1 .. Len(s) /\ t[i] = s[j]
  BY <1>3
<1> QED BY <1>1, <1>2, <1>4

\* Every element of the new list is the added one or was there before.
LEMMA KeepElements ==
  ASSUME NEW s, NEW x, NEW t, Kept(s, x, t), Len(s) <= maxHistory, NEW i \in DOMAIN t
  PROVE  t[i] = x \/ \E j \in DOMAIN s : t[i] = s[j]
<1>1. CASE i = Len(t)
  BY <1>1, KeptFacts
<1>2. CASE i # Len(t)
  <2>1. \E j \in 1 .. Len(s) : t[i] = s[j]
    BY <1>2, KeptFacts
  <2>2. DOMAIN s = 1 .. Len(s)
    BY KeptFacts
  <2> QED BY <2>1, <2>2
<1> QED BY <1>1, <1>2

LEMMA RecordLemma ==
  ASSUME NEW s \in Seq(Records), NEW i \in DOMAIN s
  PROVE  s[i].id \in Nat /\ s[i].num \in Nat
<1>1. s[i] \in Records
  BY ElementOfSeq, LenProperties
<1> QED BY <1>1 DEF Records

LEMMA LatestKept ==
  ASSUME NEW s \in Seq(Records), NEW x, Len(s) <= maxHistory,
         NEW num \in Nat, LatestWithoutGap(s, num), x.num = num + 1,
         NEW t, Kept(s, x, t)
  PROVE  LatestWithoutGap(t, num + 1)
<1>1. /\ Len(s) \in Nat /\ DOMAIN s = 1 .. Len(s) /\ Len(t) \in Nat /\ DOMAIN t = 1 .. Len(t)
      /\ t[Len(t)] = x
      /\ Len(t) = (IF Len(s) < maxHistory THEN Len(s) + 1 ELSE maxHistory)
  BY KeptFacts
<1>2. /\ Len(s) = IF num < maxHistory THEN num ELSE maxHistory
      /\ \A k \in 1 .. Len(s) : s[k].num + Len(s) = num + k
  BY <1>1 DEF LatestWithoutGap
<1>3. Len(t) = IF num + 1 < maxHistory THEN num + 1 ELSE maxHistory
  BY <1>1, <1>2
<1>4. ASSUME NEW k \in 1 .. Len(s) PROVE s[k].num \in Nat
  <2>1. s[k] \in Records
    BY <1>1, ElementOfSeq
  <2> QED BY <2>1 DEF Records
<1>5. ASSUME NEW i \in 1 .. Len(t) PROVE t[i].num + Len(t) = num + 1 + i
  <2>1. CASE i = Len(t)
    BY <1>1, <2>1
  <2>2. CASE i # Len(t)
    <3> DEFINE j == IF Len(s) < maxHistory THEN i ELSE i + 1
    <3>1. j \in 1 .. Len(s) /\ t[i] = s[j]
      BY <2>2, KeptFacts
    <3>2. j = (IF Len(s) < maxHistory THEN i ELSE i + 1) /\ i \in Nat
      BY <1>1
    <3> HIDE DEF j
    <3>3. s[j].num \in Nat /\ s[j].num + Len(s) = num + j
      BY <1>2, <1>4, <3>1
    <3>4. ASSUME NEW n \in Nat, n + Len(s) = num + j PROVE n + Len(t) = num + 1 + i
      BY <1>1, <3>1, <3>2, <3>4
    <3> QED BY <3>1, <3>3, <3>4
  <2> QED BY <2>1, <2>2
<1> QED BY <1>1, <1>3, <1>5 DEF LatestWithoutGap

\* The snapshots are those of the decisions.
Paired(cycles, snapshots) ==
  /\ Len(snapshots) = Len(cycles)
  /\ \A i \in DOMAIN cycles : snapshots[i] = cycles[i].id

LEMMA PairedKept ==
  ASSUME NEW s, NEW x, NEW h, NEW t, NEW g, Len(s) <= maxHistory,
         Paired(s, h), Kept(s, x, t), Kept(h, x.id, g)
  PROVE  Paired(t, g)
<1>1. Len(h) = Len(s)
  BY DEF Paired
<1>2. /\ Len(s) \in Nat /\ DOMAIN s = 1 .. Len(s) /\ Len(t) \in Nat /\ DOMAIN t = 1 .. Len(t)
      /\ t[Len(t)] = x
      /\ Len(t) = (IF Len(s) < maxHistory THEN Len(s) + 1 ELSE maxHistory)
  BY KeptFacts
<1>3. g[Len(g)] = x.id /\ Len(g) = (IF Len(h) < maxHistory THEN Len(h) + 1 ELSE maxHistory)
  BY <1>1, KeptFacts
<1>4. Len(g) = Len(t)
  BY <1>1, <1>2, <1>3
<1>5. \A k \in 1 .. Len(s) : h[k] = s[k].id
  BY <1>2 DEF Paired
<1>6. ASSUME NEW i \in 1 .. Len(t) PROVE g[i] = t[i].id
  <2>1. CASE i = Len(t)
    BY <1>2, <1>3, <1>4, <2>1
  <2>2. CASE i # Len(t)
    <3> DEFINE j == IF Len(s) < maxHistory THEN i ELSE i + 1
    <3>1. j \in 1 .. Len(s) /\ t[i] = s[j]
      BY <2>2, KeptFacts
    <3>2. g[i] = h[j]
      BY <1>1, <1>4, <2>2, KeptFacts
    <3> HIDE DEF j
    <3> QED BY <1>5, <3>1, <3>2
  <2> QED BY <2>1, <2>2
<1> QED BY <1>2, <1>4, <1>6 DEF Paired

-----------------------------------------------------------------------------
(* The induction                                                           *)

\* The decision is there and its snapshot is not.
HalfPaired ==
  \E c, x : /\ Len(c) <= maxHistory /\ Paired(c, History)
            /\ x.id = decided /\ Kept(c, x, Cycles)

PairedInMemory ==
  IF pc \in {"cycle", "cycle mirrored"} THEN HalfPaired ELSE Paired(Cycles, History)

\* No number runs ahead of the decisions made.
CountersBehind == CycleNum <= decided /\ (Valid => file.CycleNum <= decided)

Mirrorable(records) ==
  \A i \in DOMAIN records :
    /\ records[i].id <= decided
    /\ \A j \in DOMAIN rows : rows[j].id = records[i].id => rows[j].num = records[i].num
    /\ pc = "cycle" /\ records[i].id = decided => records[i].num = CycleNum

Agreement ==
  /\ \A j \in DOMAIN rows : rows[j].id <= decided /\ (pc = "cycle" => rows[j].id < decided)
  /\ Mirrorable(Cycles)
  /\ Valid => Mirrorable(file.Cycles)

Inv ==
  /\ TypeOK
  /\ pc = "cycle" => decided > 0 /\ CycleNum > 0
  /\ pc \in {"cycle mirrored", "snapshot"} => decided > 0
  /\ CountersBehind
  /\ HistoryIsLatest
  /\ PairedInMemory
  /\ PairedInFile
  /\ Agreement

\* Agreement is about the decisions, not about the snapshots and not about what
\* has been mirrored.
LEMMA AgreementFrame ==
  ASSUME Agreement, pc' # "cycle", UNCHANGED <<Cycles, CycleNum, file, rows, decided>>
  PROVE  Agreement'
<1>1. Mirrorable(Cycles) /\ (Valid => Mirrorable(file.Cycles))
  BY DEF Agreement
<1>2. Mirrorable(Cycles)'
  BY <1>1 DEF Mirrorable
<1>3. Valid' => Mirrorable(file.Cycles)'
  <2> SUFFICES ASSUME Valid PROVE Mirrorable(file.Cycles)'
    BY DEF Valid
  <2> QED BY <1>1 DEF Mirrorable
<1>4. \A j \in DOMAIN rows' : rows'[j].id <= decided'
  BY DEF Agreement
<1> QED BY <1>2, <1>3, <1>4 DEF Agreement

LEMMA InvInit == Init => Inv
<1> SUFFICES ASSUME Init PROVE Inv
  OBVIOUS
<1>1. /\ Cycles = << >> /\ History = << >> /\ CycleNum = 0 /\ rows = << >> /\ snapRows = << >>
      /\ decided = 0 /\ pc = "idle" /\ ~ Valid /\ file = NoFile
  BY DEF Init, Valid
<1>2. Len(<< >>) = 0 /\ DOMAIN << >> = {} /\ \A S : << >> \in Seq(S)
  OBVIOUS
<1>3. TypeOK
  BY <1>1, <1>2 DEF Init, TypeOK, Image, Images
<1>4. CountersBehind /\ HistoryIsLatest /\ PairedInMemory /\ PairedInFile /\ Agreement
  BY <1>1, <1>2 DEF CountersBehind, HistoryIsLatest, LatestWithoutGap, PairedInMemory, Paired,
                    PairedInFile, Agreement, Mirrorable
<1> QED BY <1>1, <1>3, <1>4 DEF Inv

-----------------------------------------------------------------------------
(* The steps                                                               *)

\* TypeOK, taken apart.
LEMMA Types ==
  ASSUME TypeOK
  PROVE  /\ Cycles \in Seq(Records) /\ History \in Seq(1 .. MaxDecisions)
         /\ CycleNum \in 0 .. MaxDecisions /\ decided \in 0 .. MaxDecisions
         /\ rows \in Seq(Records) /\ Len(Cycles) \in Nat /\ Len(History) \in Nat
         /\ Len(Cycles) <= maxHistory /\ Len(History) <= maxHistory
         /\ Valid => file \in Images
<1>1. Image \in Images
  BY DEF TypeOK
<1>2. Image.Cycles = Cycles /\ Image.History = History /\ Image.CycleNum = CycleNum
  BY DEF Image
<1>3. /\ Cycles \in Seq(Records) /\ History \in Seq(1 .. MaxDecisions)
      /\ CycleNum \in 0 .. MaxDecisions
  BY <1>1, <1>2 DEF Images
<1> QED BY <1>3, LenProperties DEF TypeOK, Valid

LEMMA AddCycleStep ==
  ASSUME Inv, AddCycle
  PROVE  Inv'
<1> DEFINE x == [id |-> decided + 1, num |-> CycleNum + 1]
<1>1. /\ pc = "idle" /\ pc' = "cycle" /\ decided' = decided + 1 /\ CycleNum' = CycleNum + 1
      /\ Cycles' = Keep(Append(Cycles, x)) /\ decided < MaxDecisions
      /\ UNCHANGED <<History, file, attached, cycleNum, rows, snapRows, missed, restarts,
                     born>>
  BY DEF AddCycle, sqlite
<1>2. TypeOK
  BY DEF Inv
<1>3. /\ Cycles \in Seq(Records) /\ History \in Seq(1 .. MaxDecisions)
      /\ CycleNum \in 0 .. MaxDecisions /\ decided \in 0 .. MaxDecisions
      /\ rows \in Seq(Records) /\ Len(Cycles) \in Nat /\ Len(History) \in Nat
      /\ Len(Cycles) <= maxHistory /\ Len(History) <= maxHistory
      /\ Valid => file \in Images
  BY <1>2, Types
<1>4. CycleNum \in Nat /\ decided \in Nat /\ CycleNum <= decided
      /\ (Valid => file.CycleNum <= decided /\ file.CycleNum \in Nat)
  <2>1. Valid => file.CycleNum \in 0 .. MaxDecisions
    BY <1>3 DEF Images
  <2>2. CycleNum <= decided /\ (Valid => file.CycleNum <= decided)
    BY DEF Inv, CountersBehind
  <2> QED BY <1>3, <2>1, <2>2
<1>5. x \in Records /\ x.id = decided + 1 /\ x.num = CycleNum + 1
  BY <1>1, <1>4 DEF Records
<1> HIDE DEF x
<1>6. Cycles' \in Seq(Records) /\ Kept(Cycles, x, Cycles')
  BY <1>1, <1>3, <1>5, KeepLemma
<1>7. Len(Cycles') \in Nat /\ Len(Cycles') <= maxHistory
  BY <1>6 DEF Kept
<1>8. TypeOK'
  <2>1. CycleNum' \in 0 .. MaxDecisions /\ decided' \in 0 .. MaxDecisions
    BY <1>1, <1>4
  <2>2. Image' \in Images
    BY <1>1, <1>3, <1>6, <2>1 DEF Image, Images
  <2> QED BY <1>1, <1>2, <1>7, <2>1, <2>2 DEF TypeOK
<1>9. CountersBehind' /\ decided' > 0 /\ CycleNum' > 0
  BY <1>1, <1>4 DEF CountersBehind, Valid
<1>10. HistoryIsLatest'
  <2>1. LatestWithoutGap(Cycles, CycleNum)
    BY DEF Inv, HistoryIsLatest
  <2>2. LatestWithoutGap(Cycles', CycleNum + 1)
    BY <1>3, <1>4, <1>5, <1>6, <2>1, LatestKept
  <2> QED BY <1>1, <2>2 DEF Inv, HistoryIsLatest, LatestWithoutGap, Valid
<1>11. PairedInMemory'
  <2>1. Paired(Cycles, History)
    BY <1>1 DEF Inv, PairedInMemory
  <2>2. /\ Len(Cycles) <= maxHistory /\ Paired(Cycles, History')
        /\ x.id = decided' /\ Kept(Cycles, x, Cycles')
    BY <1>1, <1>3, <1>5, <1>6, <2>1
  <2> QED BY <1>1, <2>2, Zenon DEF HalfPaired, PairedInMemory
<1>12. PairedInFile'
  BY <1>1 DEF Inv, PairedInFile, Valid
<1>13. Agreement'
  <2>1. \A j \in DOMAIN rows : rows[j].id \in Nat /\ rows[j].id <= decided
    <3>1. \A j \in DOMAIN rows : rows[j].id <= decided
      BY DEF Inv, Agreement
    <3> QED BY <1>3, <3>1, RecordLemma
  <2>2. \A j \in DOMAIN rows : rows[j].id <= decided' /\ rows[j].id < decided'
    BY <1>1, <1>4, <2>1
  <2>3. \A i \in DOMAIN Cycles : Cycles[i].id \in Nat
    BY <1>3, RecordLemma
  <2>4. Mirrorable(Cycles)'
    <3> SUFFICES ASSUME NEW i \in DOMAIN Cycles'
        PROVE /\ Cycles'[i].id <= decided'
              /\ \A j \in DOMAIN rows : rows[j].id = Cycles'[i].id => rows[j].num = Cycles'[i].num
              /\ Cycles'[i].id = decided' => Cycles'[i].num = CycleNum'
      BY <1>1 DEF Mirrorable
    <3>1. CASE Cycles'[i] = x
      <4>1. \A j \in DOMAIN rows : rows[j].id # decided + 1
        BY <1>4, <2>1
      <4> QED BY <1>1, <1>4, <1>5, <3>1, <4>1
    <3>2. CASE \E k \in DOMAIN Cycles : Cycles'[i] = Cycles[k]
      <4>1. PICK k \in DOMAIN Cycles : Cycles'[i] = Cycles[k]
        BY <3>2
      <4>2. /\ Cycles[k].id <= decided
            /\ \A j \in DOMAIN rows : rows[j].id = Cycles[k].id => rows[j].num = Cycles[k].num
        BY DEF Inv, Agreement, Mirrorable
      <4>3. Cycles[k].id \in Nat
        BY <2>3
      <4>4. Cycles[k].id <= decided + 1 /\ Cycles[k].id # decided + 1
        BY <1>4, <4>2, <4>3
      <4> QED BY <1>1, <4>1, <4>2, <4>4
    <3> QED BY <1>3, <1>6, <3>1, <3>2, KeepElements
  <2>5. ASSUME Valid PROVE Mirrorable(file.Cycles)'
    <3>1. Mirrorable(file.Cycles) /\ file.Cycles \in Seq(Records)
      BY <1>3, <2>5 DEF Inv, Agreement, Images
    <3>2. \A i \in DOMAIN file.Cycles : file.Cycles[i].id \in Nat /\ file.Cycles[i].id <= decided
      <4>1. \A i \in DOMAIN file.Cycles : file.Cycles[i].id <= decided
        BY <3>1 DEF Mirrorable
      <4> QED BY <3>1, <4>1, RecordLemma
    <3>3. \A i \in DOMAIN file.Cycles :
            file.Cycles[i].id <= decided' /\ file.Cycles[i].id # decided'
      BY <1>1, <1>4, <3>2
    <3> QED BY <1>1, <3>1, <3>3 DEF Mirrorable
  <2> QED BY <1>1, <2>2, <2>4, <2>5 DEF Agreement, Valid
<1> QED BY <1>1, <1>8, <1>9, <1>10, <1>11, <1>12, <1>13 DEF Inv

\* The row that is added has the number the decision got in the primary.
LEMMA MirrorCycleStep ==
  ASSUME Inv, MirrorCycle
  PROVE  Inv'
<1> DEFINE row == [id |-> decided, num |-> CycleNum]
<1>1. /\ pc = "cycle" /\ pc' = "cycle mirrored" /\ decided > 0 /\ CycleNum > 0
      /\ UNCHANGED <<Cycles, History, CycleNum, file, attached, snapRows, decided, restarts,
                     born>>
  BY DEF MirrorCycle, Inv, memory
<1>2. /\ rows' = Append(rows, row) \/ rows' = rows
      /\ missed' = missed \/ missed' = missed \union {decided}
      /\ cycleNum' = cycleNum \/ cycleNum' = Higher(cycleNum, CycleNum)
  BY DEF MirrorCycle, MirroredNumber
<1>3. TypeOK
  BY DEF Inv
<1>4. /\ Cycles \in Seq(Records) /\ rows \in Seq(Records) /\ (Valid => file \in Images)
      /\ CycleNum \in 0 .. MaxDecisions /\ decided \in 0 .. MaxDecisions
  BY <1>3, Types
<1>5. row \in Records /\ row.id = decided /\ row.num = CycleNum /\ decided \in 1 .. MaxDecisions
  <2>1. decided > 0 /\ CycleNum > 0
    BY <1>1
  <2>2. decided \in 1 .. MaxDecisions /\ CycleNum \in 1 .. MaxDecisions
    BY <1>4, <2>1
  <2> QED BY <2>2 DEF Records
<1> HIDE DEF row
<1>6. rows' \in Seq(Records)
  BY <1>2, <1>4, <1>5, AppendProperties
<1>7. \A j \in DOMAIN rows' : rows'[j] = row \/ \E k \in DOMAIN rows : rows'[j] = rows[k]
  <2>1. CASE rows' = rows
    BY <2>1
  <2>2. CASE rows' = Append(rows, row)
    <3>1. /\ Len(rows) \in Nat /\ DOMAIN rows = 1 .. Len(rows)
          /\ Len(rows') = Len(rows) + 1 /\ DOMAIN rows' = 1 .. Len(rows')
          /\ rows'[Len(rows) + 1] = row /\ \A j \in 1 .. Len(rows) : rows'[j] = rows[j]
      BY <1>4, <1>5, <1>6, <2>2, AppendProperties, LenProperties
    <3>2. \A j \in DOMAIN rows' : j = Len(rows) + 1 \/ j \in 1 .. Len(rows)
      BY <3>1
    <3> QED BY <3>1, <3>2
  <2> QED BY <1>2, <2>1, <2>2
<1>8. TypeOK'
  <2>1. cycleNum' \in 0 .. MaxDecisions
    BY <1>2, <1>3, <1>4 DEF TypeOK, Higher
  <2>2. missed' \in SUBSET (1 .. MaxDecisions)
    BY <1>2, <1>3, <1>5 DEF TypeOK
  <2>3. Image' \in Images
    BY <1>1, <1>3 DEF TypeOK, Image
  <2> QED BY <1>1, <1>3, <1>6, <2>1, <2>2, <2>3 DEF TypeOK
<1>9. CountersBehind' /\ HistoryIsLatest' /\ PairedInFile' /\ PairedInMemory'
  BY <1>1 DEF Inv, CountersBehind, HistoryIsLatest, PairedInFile, PairedInMemory, HalfPaired, Valid
<1>10. Agreement'
  <2>1. ASSUME NEW j \in DOMAIN rows' PROVE rows'[j].id <= decided
    <3>1. \A k \in DOMAIN rows : rows[k].id <= decided
      BY DEF Inv, Agreement
    <3>2. decided <= decided
      BY <1>4
    <3> QED BY <1>5, <1>7, <3>1, <3>2
  <2>2. ASSUME NEW records, Mirrorable(records)
        PROVE  \A i \in DOMAIN records :
                 /\ records[i].id <= decided
                 /\ \A j \in DOMAIN rows' :
                      rows'[j].id = records[i].id => rows'[j].num = records[i].num
    <3>1. ASSUME NEW i \in DOMAIN records
          PROVE  /\ records[i].id <= decided
                 /\ \A k \in DOMAIN rows : rows[k].id = records[i].id => rows[k].num = records[i].num
                 /\ records[i].id = decided => records[i].num = CycleNum
      BY <1>1, <2>2, <3>1 DEF Mirrorable
    <3>2. ASSUME NEW i \in DOMAIN records, NEW j \in DOMAIN rows', rows'[j].id = records[i].id
          PROVE  rows'[j].num = records[i].num
      <4>1. CASE rows'[j] = row
        <5>1. records[i].id = decided
          BY <1>5, <3>2, <4>1
        <5> QED BY <1>5, <3>1, <4>1, <5>1
      <4>2. ASSUME NEW k \in DOMAIN rows, rows'[j] = rows[k] PROVE rows'[j].num = records[i].num
        <5>1. rows[k].id = records[i].id
          BY <3>2, <4>2
        <5>2. rows[k].num = records[i].num
          BY <3>1, <5>1
        <5> QED BY <4>2, <5>2
      <4> QED BY <1>7, <4>1, <4>2
    <3> QED BY <3>1, <3>2
  <2>3. Mirrorable(Cycles)'
    <3>1. Mirrorable(Cycles)
      BY DEF Inv, Agreement
    <3>2. \A i \in DOMAIN Cycles :
             /\ Cycles[i].id <= decided
             /\ \A j \in DOMAIN rows' :
                  rows'[j].id = Cycles[i].id => rows'[j].num = Cycles[i].num
      BY <2>2, <3>1
    <3> QED BY <1>1, <3>2 DEF Mirrorable
  <2>4. ASSUME Valid PROVE Mirrorable(file.Cycles)'
    <3>1. Mirrorable(file.Cycles)
      BY <2>4 DEF Inv, Agreement
    <3>2. \A i \in DOMAIN file.Cycles :
             /\ file.Cycles[i].id <= decided
             /\ \A j \in DOMAIN rows' :
                  rows'[j].id = file.Cycles[i].id => rows'[j].num = file.Cycles[i].num
      BY <2>2, <3>1
    <3> QED BY <1>1, <3>2 DEF Mirrorable
  <2> QED BY <1>1, <2>1, <2>3, <2>4 DEF Agreement, Valid
<1> QED BY <1>1, <1>8, <1>9, <1>10 DEF Inv

LEMMA AddSnapshotStep ==
  ASSUME Inv, AddSnapshot
  PROVE  Inv'
<1>1. /\ pc = "cycle mirrored" /\ pc' = "snapshot" /\ decided > 0
      /\ History' = Keep(Append(History, decided))
      /\ UNCHANGED <<Cycles, CycleNum, file, attached, cycleNum, rows, snapRows, decided, missed,
                     restarts, born>>
  BY DEF AddSnapshot, Inv, sqlite, history
<1>2. TypeOK
  BY DEF Inv
<1>3. /\ Cycles \in Seq(Records) /\ History \in Seq(1 .. MaxDecisions)
      /\ decided \in 1 .. MaxDecisions /\ Len(History) <= maxHistory
      /\ CycleNum \in 0 .. MaxDecisions
  <2>1. decided \in 0 .. MaxDecisions /\ decided > 0
    BY <1>1, <1>2, Types
  <2>2. decided \in 1 .. MaxDecisions
    BY <2>1
  <2> QED BY <1>2, <2>2, Types
<1>4. History' \in Seq(1 .. MaxDecisions) /\ Kept(History, decided, History')
  BY <1>1, <1>3, KeepLemma
<1>5. TypeOK'
  <2>1. Image' \in Images
    BY <1>1, <1>3, <1>4 DEF Image, Images
  <2>2. Len(History') <= maxHistory
    BY <1>4 DEF Kept
  <2> QED BY <1>1, <1>2, <2>1, <2>2 DEF TypeOK
<1>6. PairedInMemory'
  <2>1. PICK c, x : /\ Len(c) <= maxHistory /\ Paired(c, History)
                    /\ x.id = decided /\ Kept(c, x, Cycles)
    BY <1>1 DEF Inv, PairedInMemory, HalfPaired
  <2>2. Paired(Cycles, History')
    BY <1>4, <2>1, PairedKept
  <2> QED BY <1>1, <2>2 DEF PairedInMemory
<1>7. CountersBehind' /\ HistoryIsLatest' /\ PairedInFile'
  BY <1>1 DEF Inv, CountersBehind, HistoryIsLatest, PairedInFile, Valid
<1>8. Agreement'
  BY <1>1, AgreementFrame DEF Inv
<1> QED BY <1>1, <1>5, <1>6, <1>7, <1>8 DEF Inv

LEMMA MirrorSnapshotStep ==
  ASSUME Inv, MirrorSnapshot
  PROVE  Inv'
<1>1. /\ pc = "snapshot" /\ pc' = "snapshot mirrored"
      /\ UNCHANGED <<Cycles, History, CycleNum, file, attached, cycleNum, rows, decided, missed,
                     restarts, born>>
      /\ snapRows' = snapRows \/ snapRows' = Append(snapRows, decided)
      /\ decided > 0
  BY DEF MirrorSnapshot, Inv, memory, history
<1>2. TypeOK /\ decided \in 1 .. MaxDecisions
  <2>1. TypeOK
    BY DEF Inv
  <2>2. decided \in 0 .. MaxDecisions /\ decided > 0
    BY <1>1, <2>1, Types
  <2> QED BY <2>1, <2>2
<1>3. snapRows' \in Seq(1 .. MaxDecisions)
  <2>1. snapRows \in Seq(1 .. MaxDecisions)
    BY <1>2 DEF TypeOK
  <2>2. Append(snapRows, decided) \in Seq(1 .. MaxDecisions)
    BY <1>2, <2>1, AppendProperties
  <2> QED BY <1>1, <2>1, <2>2
<1>4. TypeOK'
  BY <1>1, <1>2, <1>3 DEF TypeOK, Image
<1>5. CountersBehind' /\ HistoryIsLatest' /\ PairedInFile' /\ PairedInMemory' /\ Agreement'
  BY <1>1 DEF Inv, CountersBehind, HistoryIsLatest, PairedInFile, PairedInMemory, Agreement,
              Mirrorable, Valid
<1> QED BY <1>1, <1>4, <1>5 DEF Inv

\* Truncating the file, rewriting it, or failing to do either.
LEMMA SaveStep ==
  ASSUME Inv, SaveOpen \/ SaveWrite
  PROVE  Inv'
<1>1. /\ pc \in {"snapshot mirrored", "saving"} /\ pc' \in {"saving", "idle"}
      /\ UNCHANGED <<Cycles, History, CycleNum, attached, cycleNum, rows, snapRows, decided, missed,
                     restarts, born>>
      /\ file' \in {file, Corrupt, Image}
  BY DEF SaveOpen, SaveWrite, memory, sqlite, history
<1>2. TypeOK'
  BY <1>1 DEF Inv, TypeOK, Image
<1>3. PairedInMemory'
  BY <1>1 DEF Inv, PairedInMemory
<1>4. Mirrorable(Cycles)'
  BY <1>1 DEF Inv, Agreement, Mirrorable
<1>5. \A j \in DOMAIN rows' : rows'[j].id <= decided'
  BY <1>1 DEF Inv, Agreement
<1>6. LatestWithoutGap(Cycles, CycleNum) /\ CycleNum <= decided /\ Paired(Cycles, History)
  BY <1>1 DEF Inv, HistoryIsLatest, CountersBehind, PairedInMemory
<1>7. CASE file' = file
  <2>1. CountersBehind' /\ HistoryIsLatest' /\ PairedInFile'
    BY <1>1, <1>7 DEF Inv, CountersBehind, HistoryIsLatest, PairedInFile, Valid
  <2>2. Valid' => Mirrorable(file.Cycles)'
    BY <1>1, <1>7 DEF Inv, Agreement, Mirrorable, Valid
  <2> QED BY <1>1, <1>2, <1>3, <1>4, <1>5, <2>1, <2>2 DEF Inv, Agreement
<1>8. CASE file' = Corrupt
  <2>1. ~ Valid'
    BY <1>8 DEF Valid
  <2> QED BY <1>1, <1>2, <1>3, <1>4, <1>5, <1>6, <2>1
          DEF Inv, Agreement, CountersBehind, HistoryIsLatest, PairedInFile
<1>9. CASE file' = Image
  <2>1. file'.Cycles = Cycles /\ file'.History = History /\ file'.CycleNum = CycleNum
    BY <1>9 DEF Image
  <2>2. CountersBehind' /\ HistoryIsLatest' /\ PairedInFile'
    BY <1>1, <1>6, <2>1 DEF CountersBehind, HistoryIsLatest, PairedInFile, Paired
  <2>3. Mirrorable(file.Cycles)'
    BY <1>1, <1>4, <2>1 DEF Mirrorable
  <2> QED BY <1>1, <1>2, <1>3, <1>4, <1>5, <2>2, <2>3 DEF Inv, Agreement
<1> QED BY <1>1, <1>7, <1>8, <1>9

LEMMA CrashStep ==
  ASSUME Inv, Crash
  PROVE  Inv'
<1>1. pc' = "down" /\ Cycles' = << >> /\ History' = << >> /\ CycleNum' = 0 /\ cycleNum' = 0
  BY DEF Crash
<1>2. UNCHANGED <<file, attached, rows, snapRows, decided, restarts, born>>
  BY DEF Crash
<1>3. missed' = missed \/ (pc = "cycle" /\ missed' = missed \union {decided})
  BY DEF Crash
<1>4. TypeOK /\ decided \in 0 .. MaxDecisions /\ (pc = "cycle" => decided > 0)
  BY Types DEF Inv
<1>5. TypeOK'
  <2>1. missed' \in SUBSET (1 .. MaxDecisions)
    <3>1. pc = "cycle" => decided \in 1 .. MaxDecisions
      BY <1>4
    <3>2. missed \in SUBSET (1 .. MaxDecisions)
      BY <1>4 DEF TypeOK
    <3> QED BY <1>3, <3>1, <3>2
  <2>2. Image' \in Images
    <3>1. Cycles' \in Seq(Records) /\ History' \in Seq(1 .. MaxDecisions)
      BY <1>1
    <3>2. CycleNum' \in 0 .. MaxDecisions
      BY <1>1
    <3> QED BY <3>1, <3>2 DEF Image, Images
  <2>3. /\ Len(Cycles') <= maxHistory /\ Len(History') <= maxHistory
        /\ cycleNum' \in 0 .. MaxDecisions
    BY <1>1
  <2> QED BY <1>1, <1>2, <1>4, <2>1, <2>2, <2>3 DEF TypeOK
<1>6. CountersBehind'
  <2>1. 0 <= decided /\ (Valid => file.CycleNum <= decided)
    <3>1. 0 <= decided
      BY <1>4
    <3> QED BY <3>1 DEF Inv, CountersBehind
  <2> QED BY <1>1, <1>2, <2>1 DEF CountersBehind, Valid
<1>7. Len(Cycles') = 0 /\ Len(History') = 0 /\ DOMAIN Cycles' = {}
  BY <1>1
<1>8. HistoryIsLatest'
  <2>1. LatestWithoutGap(Cycles', CycleNum')
    BY <1>1, <1>7 DEF LatestWithoutGap
  <2> QED BY <1>2, <2>1 DEF Inv, HistoryIsLatest, Valid
<1>9. PairedInFile' /\ PairedInMemory'
  BY <1>1, <1>2, <1>7 DEF Inv, PairedInFile, PairedInMemory, Paired, Valid
<1>10. Agreement'
  <2>1. pc' # "cycle"
    BY <1>1
  <2>2. \A j \in DOMAIN rows' : rows'[j].id <= decided'
    BY <1>2 DEF Inv, Agreement
  <2>3. Mirrorable(Cycles)'
    BY <1>7, Zenon DEF Mirrorable
  <2>4. Valid' => Mirrorable(file.Cycles)'
    <3> SUFFICES ASSUME Valid PROVE Mirrorable(file.Cycles)'
      BY <1>2 DEF Valid
    <3>1. Mirrorable(file.Cycles)
      BY DEF Inv, Agreement
    <3> QED BY <1>2, <2>1, <3>1 DEF Mirrorable
  <2> QED BY <2>1, <2>2, <2>3, <2>4 DEF Agreement
<1> QED
  <2>1. pc' = "down"
    BY <1>1
  <2> QED BY <1>5, <1>6, <1>8, <1>9, <1>10, <2>1 DEF Inv

LEMMA RestartStep ==
  ASSUME Inv, Restart
  PROVE  Inv'
<1>1. /\ pc = "down" /\ pc' = "idle"
      /\ restarts < MaxRestarts /\ restarts' = restarts + 1 /\ born' = decided
      /\ UNCHANGED <<file, rows, snapRows, decided, missed>>
      /\ attached' \in BOOLEAN /\ cycleNum' \in Numbers \union {0}
  BY DEF Restart
<1>2. \/ Valid /\ Cycles' = file.Cycles /\ History' = file.History /\ CycleNum' = file.CycleNum
      \/ UNCHANGED <<Cycles, History, CycleNum>>
  BY DEF Restart, memory
<1>3. TypeOK
  BY DEF Inv
<1>4. cycleNum' \in 0 .. MaxDecisions
  <2>1. ASSUME NEW n \in Numbers PROVE n \in 0 .. MaxDecisions
    <3>1. PICK i \in DOMAIN rows : n = rows[i].num
      BY DEF Numbers, ToSet
    <3>2. rows[i] \in Records
      BY <1>3, ElementOfSeq, LenProperties DEF TypeOK
    <3> QED BY <3>1, <3>2 DEF Records
  <2> QED BY <1>1, <2>1
<1>5. restarts' \in 0 .. MaxRestarts /\ born' \in 0 .. MaxDecisions
  BY <1>1, <1>3 DEF TypeOK
<1>6. CASE UNCHANGED <<Cycles, History, CycleNum>>
  <2>1. TypeOK'
    BY <1>1, <1>3, <1>4, <1>5, <1>6 DEF TypeOK, Image
  <2>2. CountersBehind' /\ HistoryIsLatest' /\ PairedInFile' /\ PairedInMemory' /\ Agreement'
    BY <1>1, <1>6 DEF Inv, CountersBehind, HistoryIsLatest, PairedInFile, PairedInMemory, Agreement,
                      Mirrorable, Valid
  <2> QED BY <1>1, <2>1, <2>2 DEF Inv
<1>7. CASE Valid /\ Cycles' = file.Cycles /\ History' = file.History /\ CycleNum' = file.CycleNum
  <2>1. /\ LatestWithoutGap(file.Cycles, file.CycleNum) /\ file.CycleNum <= decided
        /\ Paired(file.Cycles, file.History) /\ Mirrorable(file.Cycles)
    BY <1>7 DEF Inv, HistoryIsLatest, CountersBehind, PairedInFile, Paired, Agreement
  <2>2. /\ file.Cycles \in Seq(Records) /\ file.History \in Seq(1 .. MaxDecisions)
        /\ file.CycleNum \in 0 .. MaxDecisions
    BY <1>3, <1>7, Types DEF Images
  <2>3. Len(file.Cycles) <= maxHistory /\ Len(file.History) <= maxHistory
    BY <2>1, <2>2 DEF LatestWithoutGap, Paired
  <2>4. TypeOK'
    <3>1. Image' \in Images
      BY <1>7, <2>2 DEF Image, Images
    <3> QED BY <1>1, <1>3, <1>4, <1>5, <1>7, <2>3, <3>1 DEF TypeOK
  <2>5. CountersBehind' /\ HistoryIsLatest' /\ PairedInFile' /\ PairedInMemory'
    BY <1>1, <1>7, <2>1 DEF Inv, CountersBehind, HistoryIsLatest, PairedInFile, PairedInMemory, Valid
  <2>6. Mirrorable(Cycles)' /\ Mirrorable(file.Cycles)'
    BY <1>1, <1>7, <2>1 DEF Mirrorable
  <2>7. Agreement'
    BY <1>1, <2>6 DEF Inv, Agreement
  <2> QED BY <1>1, <2>4, <2>5, <2>7 DEF Inv
<1> QED BY <1>2, <1>6, <1>7

LEMMA Invariant == Spec => []Inv
<1>1. Inv /\ [Next]_vars => Inv'
  <2> SUFFICES ASSUME Inv, [Next]_vars PROVE Inv'
    OBVIOUS
  <2>1. CASE UNCHANGED vars
    BY <2>1 DEF vars, memory, sqlite, history, Inv, TypeOK, Image, CountersBehind, HistoryIsLatest,
                PairedInFile, PairedInMemory, HalfPaired, Agreement, Mirrorable, Valid
  <2>2. CASE Next
    BY <2>2, AddCycleStep, MirrorCycleStep, AddSnapshotStep, MirrorSnapshotStep, SaveStep,
       CrashStep, RestartStep DEF Next
  <2> QED BY <2>1, <2>2
<1> QED BY InvInit, <1>1, PTL DEF Spec

-----------------------------------------------------------------------------

\* Every reachable state of the store has the declared types.
THEOREM TypeCorrect == Spec => []TypeOK
<1>1. Inv => TypeOK
  BY DEF Inv
<1> QED BY <1>1, Invariant, PTL

\* What the primary holds, in memory and in state.json, is the most recent
\* decisions it knows of, without a hole, wherever the process is killed.
THEOREM HistoryIsLatestCorrect == Spec => []HistoryIsLatest
<1>1. Inv => HistoryIsLatest
  BY DEF Inv
<1> QED BY <1>1, Invariant, PTL

\* state.json never has a decision without its snapshot, or the other way round.
THEOREM PairedInFileCorrect == Spec => []PairedInFile
<1>1. Inv => PairedInFile
  BY DEF Inv
<1> QED BY <1>1, Invariant, PTL

\* The database and state.json never number the same decision differently.
THEOREM SameNumbersCorrect == Spec => []SameNumbers
<1>1. ASSUME Inv PROVE SameNumbers
  <2>1. Mirrorable(Cycles) /\ (Valid => Mirrorable(file.Cycles))
    BY <1>1 DEF Inv, Agreement
  <2> SUFFICES ASSUME NEW row \in ToSet(rows),
                      NEW record \in ToSet(Cycles) \union (IF Valid THEN ToSet(file.Cycles) ELSE {}),
                      record.id = row.id
               PROVE  record.num = row.num
    BY DEF SameNumbers
  <2>2. PICK j \in DOMAIN rows : row = rows[j]
    BY DEF ToSet
  <2>3. CASE record \in ToSet(Cycles)
    <3>1. PICK i \in DOMAIN Cycles : record = Cycles[i]
      BY <2>3 DEF ToSet
    <3> QED BY <2>1, <2>2, <3>1 DEF Mirrorable
  <2>4. CASE Valid /\ record \in ToSet(file.Cycles)
    <3>1. PICK i \in DOMAIN file.Cycles : record = file.Cycles[i]
      BY <2>4 DEF ToSet
    <3> QED BY <2>1, <2>2, <2>4, <3>1 DEF Mirrorable
  <2> QED BY <2>3, <2>4
<1> QED BY <1>1, Invariant, PTL

-----------------------------------------------------------------------------
(* Reads                                                                   *)

\* The last row of the table, if the database did not miss it.
NewestRow ==
  pc # "cycle" /\ decided \in 1 .. MaxDecisions \ missed =>
    Len(rows) > 0 /\ rows[Len(rows)].id = decided

LEMMA NewestRowInvariant == Spec => []NewestRow
<1>1. Init => NewestRow
  BY DEF Init, NewestRow
<1>2. Inv /\ NewestRow /\ [Next]_vars => NewestRow'
  <2> SUFFICES ASSUME Inv, NewestRow, [Next]_vars PROVE NewestRow'
    OBVIOUS
  <2>1. CASE UNCHANGED <<rows, decided>> /\ missed' = missed /\ pc # "cycle"
    BY <2>1 DEF NewestRow
  <2>2. CASE decided \in missed' /\ decided' = decided
    BY <2>2 DEF NewestRow
  <2>3. CASE pc' = "cycle"
    BY <2>3 DEF NewestRow
  <2>4. CASE MirrorCycle
    <3>1. pc = "cycle" /\ decided' = decided
      BY <2>4 DEF MirrorCycle
    <3>2. CASE decided \in missed'
      BY <2>2, <3>1, <3>2
    <3>3. CASE rows' = Append(rows, [id |-> decided, num |-> CycleNum])
      <4>1. rows \in Seq(Records) /\ CycleNum \in Nat /\ decided \in Nat
        <5>1. TypeOK
          BY DEF Inv
        <5> QED BY <5>1, Types
      <4>2. PICK row : row = [id |-> decided, num |-> CycleNum]
        OBVIOUS
      <4>3. row.id = decided
        BY <4>2
      <4>4. rows \in Seq(Records \union {row}) /\ row \in Records \union {row}
        <5>1. \A j \in 1 .. Len(rows) : rows[j] \in Records \union {row}
          BY <4>1, ElementOfSeq
        <5> QED BY <4>1
      <4>5. Len(rows') = Len(rows) + 1 /\ rows'[Len(rows) + 1] = row /\ Len(rows) \in Nat
        BY <3>3, <4>2, <4>4, AppendProperties, LenProperties
      <4> QED BY <3>1, <4>3, <4>5 DEF NewestRow
    <3> QED BY <2>4, <3>2, <3>3 DEF MirrorCycle, MirroredNumber
  <2>5. CASE AddCycle
    BY <2>3, <2>5 DEF AddCycle
  <2>6. CASE AddSnapshot \/ MirrorSnapshot \/ SaveOpen \/ SaveWrite \/ Restart
    BY <2>1, <2>6 DEF AddSnapshot, MirrorSnapshot, SaveOpen, SaveWrite, Restart, sqlite, history
  <2>7. CASE Crash
    BY <2>1, <2>2, <2>7 DEF Crash
  <2>8. CASE UNCHANGED vars
    BY <2>8 DEF vars, sqlite, history, NewestRow
  <2> QED BY <2>4, <2>5, <2>6, <2>7, <2>8 DEF Next
<1> QED BY <1>1, <1>2, Invariant, PTL DEF Spec

\* The newest decision is the last one of the list, if the list has it.
AtEnd(records) == \A i \in DOMAIN records : records[i].id = decided => i = Len(records)

\* A process has the decisions it makes in memory, and keeps them last.
NewestInMemory ==
  /\ pc # "down" /\ decided > born => Len(Cycles) > 0 /\ Cycles[Len(Cycles)].id = decided
  /\ AtEnd(Cycles)
  /\ Valid => AtEnd(file.Cycles)

LEMMA NewestInMemoryInvariant == Spec => []NewestInMemory
<1>1. ASSUME Init PROVE NewestInMemory
  <2>1. ~ (decided > born) /\ DOMAIN Cycles = {} /\ ~ Valid
    BY <1>1 DEF Init, Valid
  <2> QED BY <2>1 DEF NewestInMemory, AtEnd
<1>2. Inv /\ NewestInMemory /\ [Next]_vars => NewestInMemory'
  <2> SUFFICES ASSUME Inv, NewestInMemory, [Next]_vars PROVE NewestInMemory'
    OBVIOUS
  <2>1. ASSUME pc # "down", UNCHANGED <<Cycles, decided, born>>, file' \in {file, Corrupt, Image}
        PROVE  NewestInMemory'
    <3>1. CASE file' = file
      BY <2>1, <3>1 DEF NewestInMemory, AtEnd, Valid
    <3>2. CASE file' = Corrupt
      BY <2>1, <3>2 DEF NewestInMemory, AtEnd, Valid
    <3>3. CASE file' = Image
      <4>1. file'.Cycles = Cycles
        BY <3>3 DEF Image
      <4> QED BY <2>1, <4>1 DEF NewestInMemory, AtEnd
    <3> QED BY <2>1, <3>1, <3>2, <3>3
  <2>2. CASE AddCycle
    <3> DEFINE x == [id |-> decided + 1, num |-> CycleNum + 1]
    <3>1. /\ decided' = decided + 1 /\ Cycles' = Keep(Append(Cycles, x)) /\ file' = file
      BY <2>2 DEF AddCycle
    <3>2. /\ Cycles \in Seq(Records) /\ Len(Cycles) <= maxHistory
          /\ decided \in 0 .. MaxDecisions /\ CycleNum \in 0 .. MaxDecisions
          /\ Valid => file.Cycles \in Seq(Records)
      BY Types DEF Inv, Images
    <3>3. ASSUME NEW s \in Seq(Records), Mirrorable(s)
          PROVE  \A i \in DOMAIN s : s[i].id # decided'
      <4> SUFFICES ASSUME NEW i \in DOMAIN s PROVE s[i].id # decided'
        OBVIOUS
      <4>1. s[i].id \in Nat /\ s[i].id <= decided
        BY <3>3, RecordLemma DEF Mirrorable
      <4> QED BY <3>1, <3>2, <4>1
    <3>4. /\ \A i \in DOMAIN Cycles : Cycles[i].id # decided'
          /\ Valid => \A i \in DOMAIN file.Cycles : file.Cycles[i].id # decided'
      BY <3>2, <3>3 DEF Inv, Agreement
    <3>5. x.id = decided'
      BY <3>1
    <3>6. Kept(Cycles, x, Cycles')
      <4>1. decided + 1 \in 1 .. MaxDecisions /\ CycleNum + 1 \in 1 .. MaxDecisions
        <5>1. decided < MaxDecisions /\ CycleNum <= decided
          BY <2>2 DEF AddCycle, Inv, CountersBehind
        <5> QED BY <3>2, <5>1
      <4>2. x \in Records
        BY <4>1 DEF Records
      <4> HIDE DEF x
      <4> QED BY <3>1, <3>2, <4>2, KeepLemma
    <3> HIDE DEF x
    <3>7. Len(Cycles') > 0 /\ Cycles'[Len(Cycles')] = x
      BY <3>6, Zenon DEF Kept
    <3>8. AtEnd(Cycles)'
      <4> SUFFICES ASSUME NEW i \in DOMAIN Cycles', Cycles'[i].id = decided', i # Len(Cycles')
                   PROVE  FALSE
        BY DEF AtEnd
      <4>1. i \in 1 .. Len(Cycles')
        BY <3>6, Zenon DEF Kept
      <4>2. \E j \in 1 .. Len(Cycles) : Cycles'[i] = Cycles[j]
        BY <3>2, <3>6, <4>1, KeptFacts
      <4>3. DOMAIN Cycles = 1 .. Len(Cycles)
        BY <3>2, LenProperties
      <4> QED BY <3>4, <4>2, <4>3
    <3>9. Valid' => AtEnd(file.Cycles)'
      BY <3>1, <3>4 DEF AtEnd, Valid
    <3> QED BY <3>5, <3>7, <3>8, <3>9 DEF NewestInMemory
  <2>3. CASE MirrorCycle \/ AddSnapshot \/ MirrorSnapshot \/ SaveOpen \/ SaveWrite
    BY <2>1, <2>3 DEF MirrorCycle, AddSnapshot, MirrorSnapshot, SaveOpen, SaveWrite, memory, history
  <2>4. CASE Crash
    <3>1. /\ pc' = "down" /\ DOMAIN Cycles' = {} /\ UNCHANGED <<decided, file>>
      BY <2>4 DEF Crash
    <3> QED BY <3>1 DEF NewestInMemory, AtEnd, Valid
  <2>5. CASE Restart
    <3>1. /\ born' = decided /\ UNCHANGED <<decided, file>>
          /\ Cycles' = Cycles \/ (Valid /\ Cycles' = file.Cycles)
      BY <2>5 DEF Restart, memory
    <3>2. ~ (decided' > born')
      <4>1. decided \in 0 .. MaxDecisions
        <5>1. TypeOK
          BY DEF Inv
        <5> QED BY <5>1, Types
      <4> QED BY <3>1, <4>1
    <3> QED BY <3>1, <3>2 DEF NewestInMemory, AtEnd, Valid
  <2>6. CASE UNCHANGED vars
    BY <2>6 DEF vars, memory, history, NewestInMemory, AtEnd, Valid
  <2> QED BY <2>2, <2>3, <2>4, <2>5, <2>6 DEF Next
<1> QED BY <1>1, <1>2, Invariant, PTL DEF Spec

\* The last element of a list, as LastCycles(1) reads it.
LEMMA LastOfLemma ==
  ASSUME NEW S, NEW s \in Seq(S)
  PROVE  \/ s = << >> /\ LastOf(s, 1) = << >>
         \/ Len(s) \in DOMAIN s /\ LastOf(s, 1) = <<s[Len(s)]>>
<1>1. PICK n \in Nat : n = Len(s)
  BY LenProperties
<1>2. CASE n = 0
  <2>1. s = << >>
    BY <1>1, <1>2, EmptySeq
  <2> QED BY <2>1 DEF LastOf
<1>3. CASE n > 0
  <2>1. n \in 1 .. Len(s) + 1 /\ n \in n - 1 .. Len(s) /\ n \in DOMAIN s
    BY <1>1, <1>3, LenProperties
  <2>2. LastOf(s, 1) = SubSeq(s, n, n)
    <3>1. (IF 1 < n THEN n - 1 + 1 ELSE 1) = n
      BY <1>3
    <3> QED BY <1>1, <3>1 DEF LastOf
  <2>3. /\ SubSeq(s, n, n) \in Seq(S) /\ Len(SubSeq(s, n, n)) = n - n + 1
        /\ \A i \in 1 .. n - n + 1 : SubSeq(s, n, n)[i] = s[n + i - 1]
    BY <2>1, SubSeqProperties
  <2>4. n - n + 1 = 1 /\ 1 \in 1 .. n - n + 1 /\ n + 1 - 1 = n
    OBVIOUS
  <2>5. Len(SubSeq(s, n, n)) = 1 /\ SubSeq(s, n, n)[1] = s[n + 1 - 1]
    BY <2>3, <2>4
  <2>6. SubSeq(s, n, n)[1] = s[n]
    BY <2>4, <2>5
  <2>7. SubSeq(s, n, n) = <<s[n]>>
    <3>1. s[n] \in S
      BY <2>1, ElementOfSeq, <1>1
    <3>2. PICK t \in Seq(S) : t = SubSeq(s, n, n)
      BY <2>3
    <3>3. PICK x \in S : x = s[n]
      BY <3>1
    <3>4. Len(t) = 1 /\ t[1] = x
      BY <2>5, <2>6, <3>2, <3>3
    <3>5. <<x>> \in Seq(S) /\ Len(<<x>>) = 1 /\ <<x>>[1] = x
      OBVIOUS
    <3>6. t = <<x>>
      BY <3>4, <3>5, SeqEqual
    <3> QED BY <3>2, <3>3, <3>6
  <2> QED BY <1>1, <2>1, <2>2, <2>7
<1> QED BY <1>2, <1>3

\* Between two calls of the agent the newest decision is what a reader of the
\* DoubleWriteStore gets, whether the query is answered or fails: the decisions of
\* this process are also in memory, so only one that the answering database missed,
\* or one of an earlier process that neither state.json nor an answer hands on, is
\* not returned.
THEOREM NewestDecisionReadCorrect == Spec => []NewestDecisionRead
<1>1. ASSUME Inv, NewestRow, NewestInMemory PROVE NewestDecisionRead
  <2> SUFFICES ASSUME pc # "down", pc # "cycle", decided > 0, NEW answers \in BOOLEAN
               PROVE  \/ LastCycles(1, answers) # << >> /\ LastCycles(1, answers)[1].id = decided
                      \/ IF attached /\ answers
                           THEN decided \in missed
                           ELSE decided <= born /\ \A record \in ToSet(Cycles) : record.id # decided
    BY DEF NewestDecisionRead
  <2>1. /\ rows \in Seq(Records) /\ Cycles \in Seq(Records)
        /\ decided \in 1 .. MaxDecisions /\ born \in Nat
    <3>1. TypeOK
      BY <1>1 DEF Inv
    <3>2. born \in 0 .. MaxDecisions
      BY <3>1, Zenon DEF TypeOK
    <3>3. rows \in Seq(Records) /\ Cycles \in Seq(Records) /\ decided \in 0 .. MaxDecisions
      BY <3>1, Types
    <3> QED BY <3>2, <3>3
  <2>2. ASSUME NEW s \in Seq(Records), Len(s) > 0, s[Len(s)].id = decided
        PROVE  LastOf(s, 1) # << >> /\ LastOf(s, 1)[1].id = decided
    <3>1. s # << >>
      BY <2>2
    <3>2. PICK x : x = s[Len(s)]
      OBVIOUS
    <3>3. LastOf(s, 1) = <<x>>
      BY <3>1, <3>2, LastOfLemma
    <3> QED BY <2>2, <3>2, <3>3
  <2>3. CASE attached /\ answers
    <3>1. CASE decided \in missed
      BY <2>3, <3>1
    <3>2. CASE decided \notin missed
      <4>1. Len(rows) > 0 /\ rows[Len(rows)].id = decided
        BY <1>1, <2>1, <3>2 DEF NewestRow
      <4>2. LastOf(rows, 1) # << >> /\ LastOf(rows, 1)[1].id = decided
        BY <2>1, <2>2, <4>1
      <4> QED BY <2>3, <4>2, Zenon DEF LastCycles, SecondaryLastCycles
    <3> QED BY <3>1, <3>2
  <2>4. CASE ~ (attached /\ answers)
    <3>1. LastCycles(1, answers) = LastOf(Cycles, 1)
      BY <2>4, Zenon DEF LastCycles, SecondaryLastCycles
    <3>2. CASE decided > born
      BY <1>1, <2>1, <2>2, <3>1, <3>2 DEF NewestInMemory
    <3>3. CASE \E i \in DOMAIN Cycles : Cycles[i].id = decided
      <4>1. PICK i \in DOMAIN Cycles : Cycles[i].id = decided
        BY <3>3
      <4>2. i = Len(Cycles) /\ DOMAIN Cycles = 1 .. Len(Cycles) /\ Len(Cycles) \in Nat
        BY <1>1, <2>1, <4>1, LenProperties DEF NewestInMemory, AtEnd
      <4>3. Len(Cycles) > 0 /\ Cycles[Len(Cycles)].id = decided
        BY <4>1, <4>2
      <4> QED BY <2>1, <2>2, <3>1, <4>3
    <3>4. CASE decided <= born /\ ~ \E i \in DOMAIN Cycles : Cycles[i].id = decided
      BY <2>4, <3>4 DEF ToSet
    <3> QED BY <2>1, <3>2, <3>3, <3>4
  <2> QED BY <2>3, <2>4
<1> QED BY <1>1, Invariant, NewestRowInvariant, NewestInMemoryInvariant, PTL
=============================================================================
