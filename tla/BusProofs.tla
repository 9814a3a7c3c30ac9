------------------------------ MODULE BusProofs ------------------------------
(***************************************************************************)
(* The bus for any number of subscribers, publishers and publications and  *)
(* any buffer size.                                                        *)
(***************************************************************************)
EXTENDS Bus, SequenceTheorems, TLAPS

USE BufferSizeAssumption, NameOfAssumption, MaxPublishedAssumption

-----------------------------------------------------------------------------
(* Sequences                                                               *)

\* Element by element, what removing the i-th entry of a list leaves: the
\* slice surgery of Unsubscribe.
LEMMA RemoveAtLemma ==
  ASSUME NEW S, NEW q \in Seq(S), NEW i \in DOMAIN q
  PROVE  /\ RemoveAt(q, i) \in Seq(S)
         /\ Len(RemoveAt(q, i)) = Len(q) - 1
         /\ \A j \in 1 .. Len(q) - 1 :
              RemoveAt(q, i)[j] = IF j < i THEN q[j] ELSE q[j + 1]
<1> DEFINE a == SubSeq(q, 1, i - 1)
           b == SubSeq(q, i + 1, Len(q))
<1>1. i \in 1 .. Len(q) /\ Len(q) \in Nat
  OBVIOUS
<1>2. a \in Seq(S) /\ Len(a) = i - 1 /\ \A j \in 1 .. i - 1 : a[j] = q[j]
  BY <1>1, SubSeqProperties
<1>3. b \in Seq(S) /\ Len(b) = Len(q) - i /\ \A j \in 1 .. Len(q) - i : b[j] = q[i + j]
  <2>1. CASE i = Len(q)
    BY <1>1, <2>1, SubSeqProperties
  <2>2. CASE i < Len(q)
    BY <1>1, <2>2, SubSeqProperties
  <2> QED BY <1>1, <2>1, <2>2
<1>4. RemoveAt(q, i) = a \o b
  BY DEF RemoveAt
<1> HIDE DEF a, b
<1>5. a \o b \in Seq(S) /\ Len(a \o b) = Len(a) + Len(b)
  BY <1>2, <1>3, ConcatProperties
<1>6. ASSUME NEW j \in 1 .. Len(q) - 1
      PROVE  (a \o b)[j] = IF j < i THEN q[j] ELSE q[j + 1]
  <2>1. (a \o b)[j] = IF j <= Len(a) THEN a[j] ELSE b[j - Len(a)]
    BY <1>1, <1>2, <1>3, ConcatProperties
  <2>2. CASE j < i
    BY <1>1, <1>2, <2>1, <2>2
  <2>3. CASE j >= i
    BY <1>1, <1>2, <1>3, <2>1, <2>3
  <2>4. j < i \/ j >= i
    BY <1>1
  <2> QED BY <2>2, <2>3, <2>4
<1>7. Len(a \o b) = Len(q) - 1
  <2>1. Len(a) = i - 1 /\ Len(b) = Len(q) - i
    BY <1>2, <1>3
  <2> QED BY <1>1, <1>5, <2>1
<1> QED BY <1>4, <1>5, <1>6, <1>7, Zenon

-----------------------------------------------------------------------------
(* Types                                                                   *)

\* A publisher in the middle of its loop has a subscriber and an event to send.
LEMMA SendTarget ==
  ASSUME TypeOK, NEW p \in Publishers, Busy(p)
  PROVE  copy[p][next[p]] \in Subs /\ Event(p) \in Events
<1>1. copy[p] \in Seq(Subs) /\ next[p] \in DOMAIN copy[p]
  BY DEF TypeOK, Busy, Targets
<1>2. copy[p][next[p]] \in Subs
  BY <1>1
<1>3. sent[p] \in 1 .. MaxPublished[p]
  <2>1. sent[p] \in Nat /\ sent[p] > 0 /\ sent[p] <= MaxPublished[p]
    BY DEF TypeOK
  <2>2. MaxPublished[p] \in Nat
    BY MaxPublishedAssumption
  <2> QED BY <2>1, <2>2
<1>4. Event(p) \in Events
  BY <1>3 DEF Event, Events
<1> QED BY <1>2, <1>4

\* The variables keep their types and the two channels their capacities:
\* every send in bus.go is a select with a default.
THEOREM TypeCorrect == Spec => []TypeOK
<1>1. Init => TypeOK
  BY EmptySeq DEF Init, TypeOK, WorkerStates, DispatchCap, Busy, Targets
<1>2. TypeOK /\ [Next]_vars => TypeOK'
  <2> SUFFICES ASSUME TypeOK, [Next]_vars PROVE TypeOK'
    OBVIOUS
  <2> USE DEF TypeOK, Busy, Targets, DispatchCap
  <2>1. ASSUME NEW s \in Subs, Subscribe(s) PROVE TypeOK'
    BY <2>1 DEF Subscribe, channels, publishing, history, WorkerStates
  <2>2. ASSUME NEW s \in Subs, WorkerTake(s) PROVE TypeOK'
    <3>1. Head(dispatch[s]) \in Events /\ Tail(dispatch[s]) \in Seq(Events)
          /\ Len(Tail(dispatch[s])) = Len(dispatch[s]) - 1
      BY <2>2, HeadTailProperties DEF WorkerTake
    <3> QED BY <2>2, <3>1 DEF WorkerTake, publishing, history
  <2>3. ASSUME NEW s \in Subs, WorkerForward(s) PROVE TypeOK'
    <3>1. hold[s][1] \in Events
      BY <2>3 DEF WorkerForward
    <3>2. Append(ch[s], hold[s][1]) \in Seq(Events)
          /\ Len(Append(ch[s], hold[s][1])) <= BufferSize
      BY <2>3, <3>1, AppendProperties DEF WorkerForward, HasRoom
    <3> QED BY <2>3, <3>2 DEF WorkerForward, publishing, history
  <2>4. ASSUME NEW s \in Subs, WorkerDrop(s) PROVE TypeOK'
    BY <2>4 DEF WorkerDrop, publishing
  <2>5. ASSUME NEW s \in Subs, WorkerStop(s) PROVE TypeOK'
    BY <2>5 DEF WorkerStop, WorkerStates, publishing, history
  <2>6. ASSUME NEW s \in Subs, Receive(s) PROVE TypeOK'
    <3>1. Head(ch[s]) \in Events /\ Tail(ch[s]) \in Seq(Events)
          /\ Len(Tail(ch[s])) = Len(ch[s]) - 1
      BY <2>6, HeadTailProperties DEF Receive
    <3>2. /\ ch' = [ch EXCEPT ![s] = Tail(ch[s])]
          /\ received' = [received EXCEPT ![s] = Append(received[s], Head(ch[s]))]
          /\ UNCHANGED <<subscribers, worker, hold, quit, closed, dispatch, sent, copy, next,
                         offered, accepted, lost>>
      BY <2>6 DEF Receive, publishing
    <3>3. received' \in [Subs -> Seq(Events)]
      <4>1. received \in [Subs -> Seq(Events)]
        OBVIOUS
      <4>2. Append(received[s], Head(ch[s])) \in Seq(Events)
        BY <3>1, <4>1, AppendProperties
      <4> QED BY <3>2, <4>1, <4>2
    <3>4. ch' \in [Subs -> Seq(Events)] /\ \A t \in Subs : Len(ch'[t]) <= BufferSize
      <4>1. /\ ch \in [Subs -> Seq(Events)] /\ Len(ch[s]) \in Nat
            /\ \A t \in Subs : Len(ch[t]) <= BufferSize
        BY LenProperties
      <4>2. Len(Tail(ch[s])) <= BufferSize
        BY <3>1, <4>1, BufferSizeAssumption
      <4> QED BY <3>1, <3>2, <4>1, <4>2
    <3> QED BY <3>2, <3>3, <3>4
  <2>7. ASSUME NEW nm \in Names, Unsubscribe(nm) PROVE TypeOK'
    <3> PICK i \in DOMAIN subscribers : 
               /\ quit' = [quit EXCEPT ![subscribers[i]] = TRUE]
               /\ subscribers' = RemoveAt(subscribers, i)
               /\ UNCHANGED <<worker, hold, closed, dispatch, ch, publishing, history>>
      BY <2>7 DEF Unsubscribe
    <3>1. RemoveAt(subscribers, i) \in Seq(Subs)
      BY RemoveAtLemma
    <3> QED BY <3>1 DEF publishing, history
  <2>8. ASSUME NEW p \in Publishers, PublishBegin(p) PROVE TypeOK'
    <3>0. /\ sent \in [Publishers -> Nat] /\ copy \in [Publishers -> Seq(Subs)]
          /\ next \in [Publishers -> Nat] /\ offered \in [Publishers -> SUBSET Subs]
          /\ subscribers \in Seq(Subs)
          /\ \A q \in Publishers : sent[q] <= MaxPublished[q]
      OBVIOUS
    <3>1. /\ sent' \in [Publishers -> Nat]
          /\ \A q \in Publishers : sent'[q] <= MaxPublished[q] /\ sent'[q] >= sent[q]
          /\ sent'[p] > 0
      <4> HIDE DEF TypeOK
      <4> QED BY <2>8, <3>0 DEF PublishBegin
    <3>2. copy' \in [Publishers -> Seq(Subs)] /\ next' \in [Publishers -> Nat]
          /\ offered' \in [Publishers -> SUBSET Subs]
      <4> HIDE DEF TypeOK
      <4>1. copy' \in [Publishers -> Seq(Subs)]
        BY <2>8, <3>0 DEF PublishBegin
      <4>2. next' \in [Publishers -> Nat]
        <5>1. next' = [next EXCEPT ![p] = 1] \/ next' = next
          BY <2>8 DEF PublishBegin
        <5>2. CASE next' = [next EXCEPT ![p] = 1]
          BY <3>0, <5>2
        <5>3. CASE next' = next
          BY <3>0, <5>3
        <5> QED BY <5>1, <5>2, <5>3
      <4>3. {} \in SUBSET Subs /\ offered' = [offered EXCEPT ![p] = {}]
        BY <2>8 DEF PublishBegin
      <4> QED BY <3>0, <4>1, <4>2, <4>3
    <3>3. \A q \in Publishers \ {p} : Busy(q)' => Busy(q)
      BY <2>8 DEF PublishBegin
    <3>4. UNCHANGED <<subscribers, worker, hold, quit, closed, dispatch, ch, received,
                     accepted, lost>>
      BY <2>8 DEF PublishBegin, channels
    <3>5. \A q \in Publishers : Busy(q)' => sent'[q] > 0
      BY <3>1, <3>3
    <3> QED BY <3>1, <3>2, <3>4, <3>5
  <2>9. ASSUME NEW p \in Publishers, PublishSend(p) PROVE TypeOK'
    <3> DEFINE s == copy[p][next[p]]
    <3>0. s \in Subs /\ Event(p) \in Events
      <4> HIDE DEF TypeOK
      <4> QED BY <2>9, SendTarget DEF PublishSend
    <3>1. s \in Subs
      BY <3>0
    <3>2. Event(p) \in Events
      BY <3>0
    <3>a. Offer(p, s)
      BY <2>9 DEF PublishSend
    <3>b. \/ /\ Len(dispatch[s]) < DispatchCap
             /\ dispatch' = [dispatch EXCEPT ![s] = Append(@, Event(p))]
             /\ accepted' = [accepted EXCEPT ![s] = @ + 1]
          \/ UNCHANGED <<dispatch, accepted>>
      BY <2>9 DEF PublishSend
    <3>c. /\ copy \in [Publishers -> Seq(Subs)] /\ next \in [Publishers -> Nat]
          /\ offered \in [Publishers -> SUBSET Subs] /\ dispatch \in [Subs -> Seq(Events)]
          /\ accepted \in [Subs -> Nat] /\ \A t \in Subs : Len(dispatch[t]) <= DispatchCap
          /\ DispatchCap \in Nat
      OBVIOUS
    <3> HIDE DEF s
    <3>3. sent' = sent /\ copy' \in [Publishers -> Seq(Subs)] /\ next' \in [Publishers -> Nat]
          /\ offered' \in [Publishers -> SUBSET Subs]
      <4> HIDE DEF TypeOK
      <4>1. sent' = sent /\ copy' \in [Publishers -> Seq(Subs)]
        <5>1. \/ copy' = [copy EXCEPT ![p] = << >>]
              \/ copy' = copy
          BY <3>a DEF Offer
        <5>2. sent' = sent
          BY <3>a DEF Offer
        <5>3. CASE copy' = [copy EXCEPT ![p] = << >>]
          BY <3>c, <5>2, <5>3, EmptySeq
        <5>4. CASE copy' = copy
          BY <3>c, <5>2, <5>4
        <5> QED BY <5>1, <5>3, <5>4
      <4>2. next' \in [Publishers -> Nat]
        <5>1. \/ next' = [next EXCEPT ![p] = next[p] + 1]
              \/ next' = [next EXCEPT ![p] = 0]
          BY <3>a DEF Offer
        <5>2. CASE next' = [next EXCEPT ![p] = next[p] + 1]
          BY <3>c, <5>2
        <5>3. CASE next' = [next EXCEPT ![p] = 0]
          BY <3>c, <5>3
        <5> QED BY <5>1, <5>2, <5>3
      <4>3. /\ offered[p] \union {s} \in SUBSET Subs
            /\ offered' = [offered EXCEPT ![p] = offered[p] \union {s}]
        BY <3>a, <3>c, <3>1 DEF Offer
      <4> QED BY <3>c, <4>1, <4>2, <4>3
    <3>4. dispatch' \in [Subs -> Seq(Events)] /\ accepted' \in [Subs -> Nat]
          /\ \A t \in Subs : Len(dispatch'[t]) <= DispatchCap
      <4>1. Append(dispatch[s], Event(p)) \in Seq(Events)
            /\ Len(Append(dispatch[s], Event(p))) = Len(dispatch[s]) + 1
        BY <3>1, <3>2, AppendProperties
      <4> HIDE DEF TypeOK, DispatchCap
      <4>2. CASE UNCHANGED <<dispatch, accepted>>
        BY <3>c, <4>2
      <4>3. CASE /\ Len(dispatch[s]) < DispatchCap
                 /\ dispatch' = [dispatch EXCEPT ![s] = Append(@, Event(p))]
                 /\ accepted' = [accepted EXCEPT ![s] = @ + 1]
        BY <3>1, <3>c, <4>1, <4>3
      <4> QED BY <3>b, <4>2, <4>3
    <3>5. UNCHANGED <<subscribers, worker, hold, quit, closed, ch, received, lost>>
      BY <2>9 DEF PublishSend, Offer
    <3>6. \A q \in Publishers : Busy(q)' => sent'[q] > 0
      BY <2>9, <3>3 DEF PublishSend, Offer
    <3> QED BY <3>3, <3>4, <3>5, <3>6
  <2>10. CASE UNCHANGED vars
    BY <2>10 DEF vars, channels, publishing, history
  <2> QED
    BY <2>1, <2>2, <2>3, <2>4, <2>5, <2>6, <2>7, <2>8, <2>9, <2>10 DEF Next, Run
<1> QED
  BY <1>1, <1>2, PTL DEF Spec

-----------------------------------------------------------------------------
(* Channels are closed once and never sent to afterwards                   *)

Distinct(q) == \A i, j \in DOMAIN q : q[i] = q[j] => i = j

\* The life of a subscriber: its goroutine exists once it is on the list, its
\* quit channel is open as long as it is on the list, its channel is closed
\* exactly when the goroutine has returned, which it does between two events.
Lifecycle ==
  /\ \A i \in DOMAIN subscribers :
       worker[subscribers[i]] # "none" /\ ~ quit[subscribers[i]]
  /\ Distinct(subscribers)
  /\ \A s \in Subs : worker[s] = "none" => ~ quit[s]
  /\ \A s \in Subs : closed[s] <=> worker[s] = "done"
  /\ \A s \in Subs : worker[s] # "select" => hold[s] = << >>

LEMMA LifecycleStep ==
  ASSUME TypeOK, Lifecycle, [Next]_vars
  PROVE  Lifecycle'
<1> USE DEF Lifecycle, Distinct
<1>0. /\ subscribers \in Seq(Subs) /\ worker \in [Subs -> WorkerStates]
      /\ quit \in [Subs -> BOOLEAN] /\ closed \in [Subs -> BOOLEAN]
      /\ hold \in [Subs -> {<< >>} \union {<<e>> : e \in Events}]
  BY DEF TypeOK
<1>0a. \A i \in DOMAIN subscribers : subscribers[i] \in Subs
  BY <1>0, ElementOfSeq
<1>1. ASSUME NEW s \in Subs, Subscribe(s) PROVE Lifecycle'
  <2>1. /\ DOMAIN subscribers' = 1 .. Len(subscribers) + 1
        /\ \A i \in DOMAIN subscribers : subscribers'[i] = subscribers[i]
        /\ subscribers'[Len(subscribers) + 1] = s
        /\ DOMAIN subscribers = 1 .. Len(subscribers) /\ Len(subscribers) \in Nat
    BY <1>0, <1>1, AppendProperties DEF Subscribe
  <2>2. \A i \in DOMAIN subscribers : subscribers[i] # s
    BY <1>1 DEF Subscribe
  <2>3. /\ worker' = [worker EXCEPT ![s] = "select"] /\ worker[s] = "none"
        /\ UNCHANGED <<quit, closed, hold>>
    BY <1>1 DEF Subscribe
  <2>4. Distinct(subscribers)'
    BY <2>1, <2>2
  <2>5. \A i \in DOMAIN subscribers' :
          worker'[subscribers'[i]] # "none" /\ ~ quit'[subscribers'[i]]
    BY <1>0, <1>0a, <2>1, <2>3
  <2> QED BY <1>0, <2>3, <2>4, <2>5
<1>2. ASSUME NEW nm \in Names, Unsubscribe(nm) PROVE Lifecycle'
  <2>1. PICK i \in DOMAIN subscribers :
               /\ quit' = [quit EXCEPT ![subscribers[i]] = TRUE]
               /\ subscribers' = RemoveAt(subscribers, i)
               /\ UNCHANGED <<worker, hold, closed>>
    BY <1>2 DEF Unsubscribe
  <2>2. /\ DOMAIN subscribers' = 1 .. Len(subscribers) - 1
        /\ \A j \in 1 .. Len(subscribers) - 1 :
             subscribers'[j] = IF j < i THEN subscribers[j] ELSE subscribers[j + 1]
        /\ DOMAIN subscribers = 1 .. Len(subscribers) /\ Len(subscribers) \in Nat
    BY <1>0, <2>1, RemoveAtLemma
  <2> DEFINE old(j) == IF j < i THEN j ELSE j + 1
  <2>a. \A j \in DOMAIN subscribers' : /\ subscribers'[j] = subscribers[old(j)]
                                       /\ old(j) \in DOMAIN subscribers /\ old(j) # i
    BY <2>2
  <2>b. \A j, k \in DOMAIN subscribers' : old(j) = old(k) => j = k
    BY <2>2
  <2> HIDE DEF old
  <2>3. Distinct(subscribers)'
    BY <2>a, <2>b
  <2>4. \A j \in DOMAIN subscribers' : /\ worker'[subscribers'[j]] # "none"
                                       /\ subscribers'[j] # subscribers[i]
                                       /\ ~ quit[subscribers'[j]]
                                       /\ subscribers'[j] \in Subs
    BY <1>0a, <2>1, <2>a
  <2>5. \A s \in Subs : worker'[s] = "none" => ~ quit'[s]
    BY <1>0, <1>0a, <2>1
  <2> QED BY <1>0, <1>0a, <2>1, <2>3, <2>4, <2>5
<1>3. ASSUME NEW s \in Subs, WorkerTake(s) PROVE Lifecycle'
  BY <1>0, <1>3 DEF WorkerTake
<1>4. ASSUME NEW s \in Subs, WorkerForward(s) PROVE Lifecycle'
  BY <1>0, <1>4 DEF WorkerForward
<1>5. ASSUME NEW s \in Subs, WorkerDrop(s) PROVE Lifecycle'
  BY <1>0, <1>5 DEF WorkerDrop
<1>6. ASSUME NEW s \in Subs, WorkerStop(s) PROVE Lifecycle'
  BY <1>0, <1>0a, <1>6 DEF WorkerStop, WorkerStates
<1>7. ASSUME NEW s \in Subs, Receive(s) PROVE Lifecycle'
  BY <1>7 DEF Receive
<1>8. ASSUME NEW p \in Publishers, PublishBegin(p) PROVE Lifecycle'
  BY <1>8 DEF PublishBegin, channels
<1>9. ASSUME NEW p \in Publishers, PublishSend(p) PROVE Lifecycle'
  BY <1>9 DEF PublishSend, Offer
<1>10. CASE UNCHANGED vars
  BY <1>10 DEF vars, channels
<1> QED
  BY <1>1, <1>2, <1>3, <1>4, <1>5, <1>6, <1>7, <1>8, <1>9, <1>10 DEF Next, Run

LEMMA LifecycleInvariant == Spec => []Lifecycle
<1>1. Init => Lifecycle
  BY DEF Init, Lifecycle, Distinct
<1> QED
  BY <1>1, LifecycleStep, TypeCorrect, PTL DEF Spec

\* No send on a closed channel and no channel closed twice, in any
\* interleaving of publishers, dispatch goroutines and unsubscriptions.
THEOREM NoChannelPanicCorrect == Spec => []NoChannelPanic
<1>1. Lifecycle => NoChannelPanic
  BY DEF Lifecycle, Distinct, NoChannelPanic
<1> QED
  BY <1>1, LifecycleInvariant, PTL

-----------------------------------------------------------------------------
(* The first BufferSize events always get through                          *)

\* Every event accepted for s has been read, is on its way, or was dropped.
Balanced(s) ==
  accepted[s] = lost[s] + Len(received[s]) + Len(ch[s]) + Len(hold[s]) + Len(dispatch[s])

Accounting == \A s \in Subs : Balanced(s)

LossInv == Accounting /\ LossNeedsFullBuffer

LEMMA LossStep ==
  ASSUME TypeOK, Lifecycle, LossInv, [Next]_vars
  PROVE  LossInv'
<1> USE DEF LossInv, Accounting, LossNeedsFullBuffer, Balanced
<1>0. /\ dispatch \in [Subs -> Seq(Events)] /\ ch \in [Subs -> Seq(Events)]
      /\ received \in [Subs -> Seq(Events)]
      /\ hold \in [Subs -> {<< >>} \union {<<e>> : e \in Events}]
      /\ accepted \in [Subs -> Nat] /\ lost \in [Subs -> Nat]
      /\ \A s \in Subs : Len(ch[s]) <= BufferSize
      /\ \A s \in Subs : Len(ch[s]) \in Nat /\ Len(dispatch[s]) \in Nat
                         /\ Len(received[s]) \in Nat
      /\ BufferSize \in Nat
  BY DEF TypeOK
<1>0a. \A s \in Subs : hold[s] # << >> => Len(hold[s]) = 1 /\ hold[s][1] \in Events
  BY <1>0
<1>0b. Len(<< >>) = 0 /\ \A s \in Subs : Len(hold[s]) \in Nat
  BY <1>0a
<1>1. ASSUME NEW s \in Subs, Subscribe(s) PROVE LossInv'
  BY <1>1 DEF Subscribe, history
<1>2. ASSUME NEW nm \in Names, Unsubscribe(nm) PROVE LossInv'
  BY <1>2 DEF Unsubscribe, history
<1>3. ASSUME NEW s \in Subs, WorkerTake(s) PROVE LossInv'
  <2>1. /\ hold' = [hold EXCEPT ![s] = <<Head(dispatch[s])>>] /\ hold[s] = << >>
        /\ dispatch' = [dispatch EXCEPT ![s] = Tail(dispatch[s])]
        /\ UNCHANGED <<ch, received, accepted, lost>>
    BY <1>3 DEF WorkerTake, history
  <2>2. Len(Tail(dispatch[s])) = Len(dispatch[s]) - 1 /\ Len(<<Head(dispatch[s])>>) = 1
    BY <1>0, <1>3, HeadTailProperties DEF WorkerTake
  <2>3a. /\ accepted'[s] = accepted[s]
         /\ lost'[s] = lost[s]
         /\ Len(received'[s]) = Len(received[s])
         /\ Len(ch'[s]) = Len(ch[s])
         /\ Len(hold'[s]) = Len(hold[s]) + 1
         /\ Len(dispatch'[s]) = Len(dispatch[s]) - 1
    BY <1>0, <1>0b, <2>1, <2>2
  <2>3. Balanced(s)'
    <3>1. Balanced(s)
      OBVIOUS
    <3> HIDE DEF LossInv, Accounting, LossNeedsFullBuffer
    <3> QED BY <1>0, <1>0b, <2>3a, <3>1
  <2>4. \A t \in Subs \ {s} : Balanced(t)'
    BY <1>0, <2>1
  <2> QED BY <1>0, <2>1, <2>3, <2>4
<1>4. ASSUME NEW s \in Subs, WorkerForward(s) PROVE LossInv'
  <2>1. /\ hold' = [hold EXCEPT ![s] = << >>] /\ Len(hold[s]) = 1
        /\ ch' = [ch EXCEPT ![s] = Append(ch[s], hold[s][1])]
        /\ UNCHANGED <<dispatch, received, accepted, lost>>
    BY <1>0a, <1>4 DEF WorkerForward, history
  <2>2. Len(Append(ch[s], hold[s][1])) = Len(ch[s]) + 1
    BY <1>0, <1>0a, <1>4, AppendProperties DEF WorkerForward
  <2>3a. /\ accepted'[s] = accepted[s]
         /\ lost'[s] = lost[s]
         /\ Len(received'[s]) = Len(received[s])
         /\ Len(ch'[s]) = Len(ch[s]) + 1
         /\ Len(hold'[s]) = Len(hold[s]) - 1
         /\ Len(dispatch'[s]) = Len(dispatch[s])
    BY <1>0, <1>0b, <2>1, <2>2
  <2>3. Balanced(s)'
    <3>1. Balanced(s)
      OBVIOUS
    <3> HIDE DEF LossInv, Accounting, LossNeedsFullBuffer
    <3> QED BY <1>0, <1>0b, <2>3a, <3>1
  <2>4. \A t \in Subs \ {s} : Balanced(t)'
    BY <1>0, <2>1
  <2> QED BY <1>0, <2>1, <2>3, <2>4
<1>5. ASSUME NEW s \in Subs, WorkerDrop(s) PROVE LossInv'
  <2>1. /\ hold' = [hold EXCEPT ![s] = << >>] /\ Len(hold[s]) = 1
        /\ lost' = [lost EXCEPT ![s] = lost[s] + 1]
        /\ UNCHANGED <<ch, dispatch, received, accepted>>
    BY <1>0a, <1>5 DEF WorkerDrop
  <2>2. Len(ch[s]) = BufferSize
    BY <1>0, <1>5 DEF WorkerDrop, HasRoom
  <2>3. accepted[s] > BufferSize
    <3>1. Balanced(s)
      OBVIOUS
    <3> QED BY <1>0, <2>1, <2>2, <3>1
  <2>4a. /\ accepted'[s] = accepted[s]
         /\ lost'[s] = lost[s] + 1
         /\ Len(received'[s]) = Len(received[s])
         /\ Len(ch'[s]) = Len(ch[s])
         /\ Len(hold'[s]) = Len(hold[s]) - 1
         /\ Len(dispatch'[s]) = Len(dispatch[s])
    BY <1>0, <1>0b, <2>1
  <2>4. Balanced(s)'
    <3>1. Balanced(s)
      OBVIOUS
    <3> HIDE DEF LossInv, Accounting, LossNeedsFullBuffer
    <3> QED BY <1>0, <1>0b, <2>4a, <3>1
  <2>5. \A t \in Subs \ {s} : Balanced(t)'
    BY <1>0, <2>1
  <2> QED BY <1>0, <2>1, <2>3, <2>4, <2>5
<1>6. ASSUME NEW s \in Subs, WorkerStop(s) PROVE LossInv'
  BY <1>6 DEF WorkerStop, history
<1>7. ASSUME NEW s \in Subs, Receive(s) PROVE LossInv'
  <2>1. /\ ch' = [ch EXCEPT ![s] = Tail(ch[s])] /\ ch[s] # << >>
        /\ received' = [received EXCEPT ![s] = Append(received[s], Head(ch[s]))]
        /\ UNCHANGED <<dispatch, hold, accepted, lost>>
    BY <1>7 DEF Receive
  <2>2. Len(Tail(ch[s])) = Len(ch[s]) - 1
    BY <1>0, <2>1, HeadTailProperties
  <2>3. Len(Append(received[s], Head(ch[s]))) = Len(received[s]) + 1
    BY <1>0, <2>1, HeadTailProperties, AppendProperties
  <2>4. ASSUME NEW t \in Subs
        PROVE  accepted'[t] = lost'[t] + Len(received'[t]) + Len(ch'[t])
                              + Len(hold'[t]) + Len(dispatch'[t])
    BY <1>0, <1>0a, <1>0b, <2>1, <2>2, <2>3
  <2> QED BY <2>1, <2>4
<1>8. ASSUME NEW p \in Publishers, PublishBegin(p) PROVE LossInv'
  BY <1>8 DEF PublishBegin, channels
<1>9. ASSUME NEW p \in Publishers, PublishSend(p) PROVE LossInv'
  <2>0. copy[p][next[p]] \in Subs /\ Event(p) \in Events
    BY <1>9, SendTarget DEF PublishSend
  <2> PICK s \in Subs : s = copy[p][next[p]]
    BY <2>0
  <2>1. s \in Subs /\ Event(p) \in Events
    BY <2>0
  <2>2. UNCHANGED <<hold, ch, received, lost>>
    BY <1>9 DEF PublishSend, Offer
  <2>3. \/ /\ dispatch' = [dispatch EXCEPT ![s] = Append(dispatch[s], Event(p))]
           /\ accepted' = [accepted EXCEPT ![s] = accepted[s] + 1]
        \/ UNCHANGED <<dispatch, accepted>>
    BY <1>9 DEF PublishSend, Targets
  <2>4. CASE UNCHANGED <<dispatch, accepted>>
    BY <2>2, <2>4
  <2>5. CASE /\ dispatch' = [dispatch EXCEPT ![s] = Append(dispatch[s], Event(p))]
             /\ accepted' = [accepted EXCEPT ![s] = accepted[s] + 1]
    <3>1. Len(Append(dispatch[s], Event(p))) = Len(dispatch[s]) + 1
      BY <1>0, <2>1, AppendProperties
    <3>2a. /\ accepted'[s] = accepted[s] + 1
           /\ lost'[s] = lost[s]
           /\ Len(received'[s]) = Len(received[s])
           /\ Len(ch'[s]) = Len(ch[s])
           /\ Len(hold'[s]) = Len(hold[s])
           /\ Len(dispatch'[s]) = Len(dispatch[s]) + 1
      BY <1>0, <1>0b, <2>1, <2>2, <2>5, <3>1
    <3>2. Balanced(s)'
      <4>1. Balanced(s)
        BY <2>1
      <4> HIDE DEF LossInv, Accounting, LossNeedsFullBuffer
      <4>2. /\ accepted[s] \in Nat /\ lost[s] \in Nat /\ Len(received[s]) \in Nat
            /\ Len(ch[s]) \in Nat /\ Len(hold[s]) \in Nat /\ Len(dispatch[s]) \in Nat
        BY <1>0, <1>0b, <2>1
      <4>3. accepted[s] + 1 = lost[s] + Len(received[s]) + Len(ch[s]) + Len(hold[s])
                              + (Len(dispatch[s]) + 1)
        <5> DEFINE l == lost[s]
                   r == Len(received[s])
                   c == Len(ch[s])
                   h == Len(hold[s])
                   d == Len(dispatch[s])
                   a == accepted[s]
        <5>1. l \in Nat /\ r \in Nat /\ c \in Nat /\ h \in Nat /\ d \in Nat
          BY <4>2, Zenon
        <5>2. a = l + r + c + h + d
          BY <4>1, Zenon DEF Balanced
        <5> HIDE DEF l, r, c, h, d, a
        <5>3. a + 1 = l + r + c + h + (d + 1)
          BY <5>1, <5>2
        <5> QED BY <5>3, Zenon DEF l, r, c, h, d, a
      <4>4. accepted'[s] = lost'[s] + Len(received'[s]) + Len(ch'[s]) + Len(hold'[s])
                           + Len(dispatch'[s])
        BY <3>2a, <4>3, Zenon
      <4> QED BY <4>4, Zenon DEF Balanced
    <3>3. \A t \in Subs \ {s} : Balanced(t)'
      BY <1>0, <2>2, <2>5
    <3>4. \A t \in Subs \ {s} : accepted'[t] = accepted[t]
      BY <1>0, <2>5
    <3>5. ASSUME NEW t \in Subs, lost'[t] > 0 PROVE accepted'[t] > BufferSize
      <4>1. accepted[t] > BufferSize
        BY <2>2, <3>5
      <4>2. accepted[t] \in Nat /\ BufferSize \in Nat
        BY <1>0
      <4>3. CASE t = s
        <5>1. accepted'[t] = accepted[t] + 1
          BY <3>2a, <4>3, Zenon
        <5>2. PICK n \in Nat, b \in Nat : n = accepted[t] /\ b = BufferSize
          BY <4>2
        <5>3. n + 1 > b
          BY <4>1, <5>2
        <5> QED BY <5>1, <5>2, <5>3, Zenon
      <4>4. CASE t # s
        BY <3>4, <4>1, <4>4
      <4> QED BY <4>3, <4>4
    <3> QED BY <3>2, <3>3, <3>5
  <2> QED BY <2>3, <2>4, <2>5
<1>10. CASE UNCHANGED vars
  BY <1>10 DEF vars, channels, history
<1> QED
  BY <1>1, <1>2, <1>3, <1>4, <1>5, <1>6, <1>7, <1>8, <1>9, <1>10 DEF Next, Run

\* The dispatch goroutine never drops one of the first BufferSize events it is
\* handed, however slow the consumer.
THEOREM LossNeedsFullBufferCorrect == Spec => []LossNeedsFullBuffer
<1>1. Init => LossInv
  BY DEF Init, LossInv, Accounting, Balanced, LossNeedsFullBuffer
<1>2. LossInv => LossNeedsFullBuffer
  BY DEF LossInv
<1> QED
  BY <1>1, <1>2, LossStep, TypeCorrect, LifecycleInvariant, PTL DEF Spec

-----------------------------------------------------------------------------
(* What is on its way to a consumer, as one sequence                       *)

\* Element by element, the concatenation of ch, hold and dispatch.
LEMMA ConcatThree ==
  ASSUME NEW S, NEW a \in Seq(S), NEW h \in Seq(S), NEW d \in Seq(S)
  PROVE  /\ a \o h \o d \in Seq(S)
         /\ Len(a \o h \o d) = Len(a) + Len(h) + Len(d)
         /\ \A i \in 1 .. Len(a) + Len(h) + Len(d) :
              (a \o h \o d)[i] = IF i <= Len(a) THEN a[i]
                                ELSE IF i <= Len(a) + Len(h) THEN h[i - Len(a)]
                                ELSE d[i - Len(a) - Len(h)]
<1>1. Len(a) \in Nat /\ Len(h) \in Nat /\ Len(d) \in Nat
  BY LenProperties
<1>2. /\ a \o h \in Seq(S) /\ Len(a \o h) = Len(a) + Len(h)
      /\ \A i \in 1 .. Len(a) + Len(h) :
           (a \o h)[i] = IF i <= Len(a) THEN a[i] ELSE h[i - Len(a)]
  BY ConcatProperties
<1>3. /\ (a \o h) \o d \in Seq(S) /\ Len((a \o h) \o d) = Len(a \o h) + Len(d)
      /\ \A i \in 1 .. Len(a \o h) + Len(d) :
           ((a \o h) \o d)[i] = IF i <= Len(a \o h) THEN (a \o h)[i] ELSE d[i - Len(a \o h)]
  BY <1>2, ConcatProperties
<1> HIDE <1>3
<1>4. ASSUME NEW i \in 1 .. Len(a) + Len(h) + Len(d)
      PROVE  (a \o h \o d)[i] = IF i <= Len(a) THEN a[i]
                                ELSE IF i <= Len(a) + Len(h) THEN h[i - Len(a)]
                                ELSE d[i - Len(a) - Len(h)]
  <2>1. (a \o h \o d)[i] = IF i <= Len(a) + Len(h) THEN (a \o h)[i] ELSE d[i - (Len(a) + Len(h))]
    BY <1>1, <1>2, <1>3
  <2>2. CASE i <= Len(a) + Len(h)
    BY <1>1, <1>2, <2>1, <2>2
  <2>3. CASE ~ (i <= Len(a) + Len(h))
    BY <1>1, <2>1, <2>3
  <2> QED BY <2>2, <2>3
<1> QED BY <1>2, <1>3, <1>4

\* run() takes the oldest event of dispatch: nothing overtakes it.
LEMMA TakeLemma ==
  ASSUME NEW S, NEW a \in Seq(S), NEW d \in Seq(S), d # << >>
  PROVE  a \o <<Head(d)>> \o Tail(d) = a \o << >> \o d
<1>1. /\ Head(d) \in S /\ Tail(d) \in Seq(S) /\ Len(Tail(d)) = Len(d) - 1
      /\ \A i \in 1 .. Len(d) - 1 : Tail(d)[i] = d[i + 1]
      /\ Head(d) = d[1] /\ Len(d) \in Nat \ {0} /\ Len(a) \in Nat
  BY HeadTailProperties, EmptySeq
<1>2. <<Head(d)>> \in Seq(S) /\ Len(<<Head(d)>>) = 1 /\ <<Head(d)>>[1] = d[1]
  BY <1>1
<1>3. << >> \in Seq(S) /\ Len(<< >>) = 0
  BY EmptySeq
<1> DEFINE u == a \o <<Head(d)>> \o Tail(d)
           v == a \o << >> \o d
<1>4. /\ u \in Seq(S) /\ Len(u) = Len(a) + Len(d)
      /\ \A i \in 1 .. Len(a) + Len(d) :
           u[i] = IF i <= Len(a) THEN a[i] ELSE IF i <= Len(a) + 1 THEN <<Head(d)>>[i - Len(a)]
                  ELSE Tail(d)[i - Len(a) - 1]
  BY <1>1, <1>2, ConcatThree
<1>5. /\ v \in Seq(S) /\ Len(v) = Len(a) + Len(d)
      /\ \A i \in 1 .. Len(a) + Len(d) : v[i] = IF i <= Len(a) THEN a[i] ELSE d[i - Len(a)]
  BY <1>1, <1>3, ConcatThree
<1> HIDE DEF u, v
<1>6. ASSUME NEW i \in 1 .. Len(u) PROVE u[i] = v[i]
  <2>1. CASE i <= Len(a)
    BY <1>1, <1>4, <1>5, <2>1
  <2>2. CASE i = Len(a) + 1
    BY <1>1, <1>2, <1>4, <1>5, <2>2
  <2>3. CASE i > Len(a) + 1
    <3>1. u[i] = Tail(d)[i - Len(a) - 1]
      BY <1>1, <1>4, <2>3
    <3>2. i - Len(a) - 1 \in 1 .. Len(d) - 1 /\ (i - Len(a) - 1) + 1 = i - Len(a)
      BY <1>1, <1>4, <2>3
    <3>3. v[i] = d[i - Len(a)]
      BY <1>1, <1>4, <1>5, <2>3
    <3> QED BY <1>1, <3>1, <3>2, <3>3
  <2> QED BY <1>1, <2>1, <2>2, <2>3
<1>7. u = v
  BY <1>4, <1>5, <1>6, SeqEqual
<1> QED BY <1>7 DEF u, v

\* ... and passes it on behind what ch already holds.
LEMMA ForwardLemma ==
  ASSUME NEW S, NEW a \in Seq(S), NEW d \in Seq(S), NEW e \in S
  PROVE  Append(a, e) \o << >> \o d = a \o <<e>> \o d
<1>1. Append(a, e) = a \o <<e>> /\ Append(a, e) \in Seq(S)
  BY AppendIsConcat, AppendProperties
<1> QED BY <1>1, ConcatEmptySeq

\* An event that is accepted goes behind all others.
LEMMA EventsRegroup ==
  \A a, h, d \in Seq(Events) : a \o h \o d = a \o (h \o d)
<1> TAKE a, h, d \in Seq(Events)
<1> QED BY ConcatAssociative

LEMMA AcceptLemma ==
  \A a, h, d \in Seq(Events) : \A e \in Events :
    a \o h \o Append(d, e) = Append(a \o h \o d, e)
<1> TAKE a, h, d \in Seq(Events)
<1> TAKE e \in Events
<1>1. a \o h \in Seq(Events) /\ (a \o h) \o d \in Seq(Events) /\ <<e>> \in Seq(Events)
  BY ConcatProperties
<1>2. Append(d, e) = d \o <<e>> /\ Append((a \o h) \o d, e) = ((a \o h) \o d) \o <<e>>
  BY <1>1, AppendIsConcat
<1>3. (a \o h) \o (d \o <<e>>) = ((a \o h) \o d) \o <<e>>
  BY <1>1, ConcatAssociative
<1> QED BY <1>2, <1>3

\* A drop takes one event out and leaves the order of the others.
LEMMA DropLemma ==
  \A a, d \in Seq(Events) : \A e \in Events :
    /\ Len(a) + 1 \in DOMAIN (a \o <<e>> \o d)
    /\ RemoveAt(a \o <<e>> \o d, Len(a) + 1) = a \o << >> \o d
<1> TAKE a, d \in Seq(Events)
<1> TAKE e \in Events
<1>1. Len(a) \in Nat /\ Len(d) \in Nat
  BY LenProperties
<1>2. <<e>> \in Seq(Events) /\ Len(<<e>>) = 1 /\ << >> \in Seq(Events) /\ Len(<< >>) = 0
  BY EmptySeq
<1> DEFINE u == a \o <<e>> \o d
           v == a \o << >> \o d
           r == RemoveAt(u, Len(a) + 1)
<1>3. /\ u \in Seq(Events) /\ Len(u) = Len(a) + 1 + Len(d)
      /\ \A i \in 1 .. Len(a) + 1 + Len(d) :
           u[i] = IF i <= Len(a) THEN a[i] ELSE IF i <= Len(a) + 1 THEN <<e>>[i - Len(a)]
                  ELSE d[i - Len(a) - 1]
  BY <1>2, ConcatThree
<1>4. /\ v \in Seq(Events) /\ Len(v) = Len(a) + Len(d)
      /\ \A i \in 1 .. Len(a) + Len(d) : v[i] = IF i <= Len(a) THEN a[i] ELSE d[i - Len(a)]
  BY <1>1, <1>2, ConcatThree
<1> HIDE DEF u, v
<1>5. Len(a) + 1 \in DOMAIN u
  BY <1>1, <1>3
<1>6. /\ r \in Seq(Events) /\ Len(r) = Len(u) - 1
      /\ \A j \in 1 .. Len(u) - 1 : r[j] = IF j < Len(a) + 1 THEN u[j] ELSE u[j + 1]
  BY <1>3, <1>5, RemoveAtLemma
<1> HIDE DEF r
<1>6a. Len(r) = Len(a) + Len(d) /\ Len(v) = Len(a) + Len(d)
  BY <1>1, <1>3, <1>4, <1>6
<1>7. ASSUME NEW i \in 1 .. Len(r) PROVE r[i] = v[i]
  <2>0. /\ i \in 1 .. Len(a) + Len(d) /\ i \in 1 .. Len(u) - 1
        /\ i \in 1 .. Len(a) + 1 + Len(d) /\ i + 1 \in 1 .. Len(a) + 1 + Len(d)
    BY <1>1, <1>3, <1>6a
  <2>1. CASE i <= Len(a)
    <3>1. r[i] = u[i]
      BY <1>1, <1>6, <2>0, <2>1
    <3>2. u[i] = a[i] /\ v[i] = a[i]
      BY <1>1, <1>3, <1>4, <2>0, <2>1
    <3> QED BY <3>1, <3>2
  <2>2. CASE i > Len(a)
    <3>1. r[i] = u[i + 1]
      BY <1>1, <1>6, <2>0, <2>2
    <3>2. u[i + 1] = d[(i + 1) - Len(a) - 1] /\ v[i] = d[i - Len(a)]
      BY <1>1, <1>3, <1>4, <2>0, <2>2
    <3>3. (i + 1) - Len(a) - 1 = i - Len(a)
      BY <1>1, <2>0
    <3> QED BY <3>1, <3>2, <3>3
  <2> QED BY <1>1, <2>0, <2>1, <2>2
<1>8. r = v
  BY <1>4, <1>6, <1>6a, <1>7, SeqEqual
<1> QED BY <1>5, <1>8 DEF r, u, v

\* The consumer reads the oldest event.
LEMMA ReceiveLemma ==
  ASSUME NEW S, NEW a \in Seq(S), NEW b \in Seq(S), a # << >>
  PROVE  /\ a \o b # << >>
         /\ Head(a \o b) = Head(a)
         /\ Tail(a \o b) = Tail(a) \o b
<1>1. /\ Head(a) = a[1] /\ Tail(a) \in Seq(S) /\ Len(Tail(a)) = Len(a) - 1
      /\ \A i \in 1 .. Len(a) - 1 : Tail(a)[i] = a[i + 1]
      /\ Len(a) \in Nat \ {0} /\ Len(b) \in Nat
  BY HeadTailProperties, EmptySeq
<1>2. /\ a \o b \in Seq(S) /\ Len(a \o b) = Len(a) + Len(b)
      /\ \A i \in 1 .. Len(a) + Len(b) : (a \o b)[i] = IF i <= Len(a) THEN a[i] ELSE b[i - Len(a)]
  BY ConcatProperties
<1>3. a \o b # << >>
  BY <1>1, <1>2, EmptySeq
<1>4. Head(a \o b) = Head(a)
  BY <1>1, <1>2, <1>3
<1>5. /\ Tail(a \o b) \in Seq(S) /\ Len(Tail(a \o b)) = Len(a \o b) - 1
      /\ \A i \in 1 .. Len(a \o b) - 1 : Tail(a \o b)[i] = (a \o b)[i + 1]
  BY <1>2, <1>3, HeadTailProperties
<1>6. /\ Tail(a) \o b \in Seq(S) /\ Len(Tail(a) \o b) = Len(a) - 1 + Len(b)
      /\ \A i \in 1 .. Len(a) - 1 + Len(b) :
           (Tail(a) \o b)[i] = IF i <= Len(a) - 1 THEN Tail(a)[i] ELSE b[i - (Len(a) - 1)]
  BY <1>1, ConcatProperties
<1>7. ASSUME NEW i \in 1 .. Len(a) + Len(b) - 1
      PROVE  Tail(a \o b)[i] = (Tail(a) \o b)[i]
  <2>1. Tail(a \o b)[i] = IF i + 1 <= Len(a) THEN a[i + 1] ELSE b[i + 1 - Len(a)]
    BY <1>1, <1>2, <1>5
  <2>2. CASE i <= Len(a) - 1
    BY <1>1, <1>6, <2>1, <2>2
  <2>3. CASE i > Len(a) - 1
    <3>1. i + 1 - Len(a) = i - (Len(a) - 1)
      BY <1>1
    <3> QED BY <1>1, <1>6, <2>1, <2>3, <3>1
  <2> QED BY <1>1, <2>2, <2>3
<1>8. Tail(a \o b) = Tail(a) \o b
  <2>1. Len(Tail(a \o b)) = Len(a) + Len(b) - 1 /\ Len(Tail(a) \o b) = Len(a) + Len(b) - 1
    BY <1>1, <1>2, <1>5, <1>6
  <2> QED BY <1>5, <1>6, <1>7, <2>1, SeqEqual
<1> QED BY <1>3, <1>4, <1>8

-----------------------------------------------------------------------------
(* What each step does to it                                               *)

LEMMA PipelineType ==
  ASSUME TypeOK
  PROVE  /\ ch \in [Subs -> Seq(Events)] /\ hold \in [Subs -> Seq(Events)]
         /\ dispatch \in [Subs -> Seq(Events)] /\ received \in [Subs -> Seq(Events)]
         /\ \A s \in Subs : Pipeline(s) \in Seq(Events)
<1>1. /\ ch \in [Subs -> Seq(Events)] /\ dispatch \in [Subs -> Seq(Events)]
      /\ received \in [Subs -> Seq(Events)]
      /\ hold \in [Subs -> {<< >>} \union {<<e>> : e \in Events}]
  BY DEF TypeOK
<1>2. {<< >>} \union {<<e>> : e \in Events} \subseteq Seq(Events)
  <2>1. << >> \in Seq(Events) /\ \A e \in Events : <<e>> \in Seq(Events)
    OBVIOUS
  <2> QED BY <2>1
<1>3. hold \in [Subs -> Seq(Events)]
  BY <1>1, <1>2
<1>4. \A s \in Subs : Pipeline(s) \in Seq(Events)
  BY <1>1, <1>3, ConcatThree DEF Pipeline
<1> QED BY <1>1, <1>3, <1>4

LEMMA PipelineFrame ==
  ASSUME NEW s \in Subs, worker'[s] = worker[s], ch'[s] = ch[s], hold'[s] = hold[s],
         dispatch'[s] = dispatch[s]
  PROVE  Pipeline(s)' = Pipeline(s)
BY DEF Pipeline

LEMMA SubscribePipeline ==
  ASSUME TypeOK, NEW s \in Subs, Subscribe(s)
  PROVE  \A t \in Subs : Pipeline(t)' = Pipeline(t)
BY DEF TypeOK, Subscribe, Pipeline

LEMMA TakePipeline ==
  ASSUME TypeOK, NEW s \in Subs, WorkerTake(s)
  PROVE  \A t \in Subs : Pipeline(t)' = Pipeline(t)
<1>1. /\ hold' = [hold EXCEPT ![s] = <<Head(dispatch[s])>>] /\ hold[s] = << >>
      /\ dispatch' = [dispatch EXCEPT ![s] = Tail(dispatch[s])] /\ dispatch[s] # << >>
      /\ worker[s] = "select" /\ UNCHANGED <<worker, ch>>
  BY DEF WorkerTake
<1>2. ch[s] \o <<Head(dispatch[s])>> \o Tail(dispatch[s]) = ch[s] \o << >> \o dispatch[s]
  <2>1. ch \in [Subs -> Seq(Events)] /\ dispatch \in [Subs -> Seq(Events)]
    BY PipelineType
  <2>2. PICK a \in Seq(Events), d \in Seq(Events) : a = ch[s] /\ d = dispatch[s]
    BY <2>1
  <2>3. d # << >>
    BY <1>1, <2>2
  <2>4. a \o <<Head(d)>> \o Tail(d) = a \o << >> \o d
    BY <2>3, TakeLemma
  <2> QED BY <2>2, <2>4, Zenon
<1>3. hold'[s] = <<Head(dispatch[s])>> /\ dispatch'[s] = Tail(dispatch[s])
  BY <1>1 DEF TypeOK
<1>4. Pipeline(s)' = Pipeline(s)
  BY <1>1, <1>2, <1>3 DEF Pipeline
<1>5. \A t \in Subs \ {s} : Pipeline(t)' = Pipeline(t)
  BY <1>1, PipelineFrame DEF TypeOK
<1> QED BY <1>4, <1>5

LEMMA ForwardPipeline ==
  ASSUME TypeOK, Lifecycle, NEW s \in Subs, WorkerForward(s)
  PROVE  \A t \in Subs : Pipeline(t)' = Pipeline(t)
<1>1. /\ hold' = [hold EXCEPT ![s] = << >>] /\ hold[s] # << >>
      /\ ch' = [ch EXCEPT ![s] = Append(ch[s], hold[s][1])]
      /\ UNCHANGED <<worker, dispatch>>
  BY DEF WorkerForward
<1>2. worker[s] = "select"
  BY <1>1 DEF Lifecycle
<1>3. PICK e \in Events : hold[s] = <<e>>
  BY <1>1 DEF TypeOK
<1>4. Append(ch[s], e) \o << >> \o dispatch[s] = ch[s] \o <<e>> \o dispatch[s]
  <2>1. /\ ch \in [Subs -> Seq(Events)] /\ dispatch \in [Subs -> Seq(Events)]
        /\ ch[s] \in Seq(Events) /\ dispatch[s] \in Seq(Events)
    BY PipelineType
  <2> QED BY <2>1, ForwardLemma
<1>5. hold'[s] = << >> /\ ch'[s] = Append(ch[s], e)
  BY <1>1, <1>3 DEF TypeOK
<1>6. Pipeline(s)' = Pipeline(s)
  BY <1>1, <1>2, <1>3, <1>4, <1>5 DEF Pipeline
<1>7. \A t \in Subs \ {s} : Pipeline(t)' = Pipeline(t)
  BY <1>1, PipelineFrame DEF TypeOK
<1> QED BY <1>6, <1>7

LEMMA DropPipeline ==
  ASSUME TypeOK, Lifecycle, NEW s \in Subs, WorkerDrop(s)
  PROVE  /\ \E i \in DOMAIN Pipeline(s) : Pipeline(s)' = RemoveAt(Pipeline(s), i)
         /\ \A t \in Subs \ {s} : Pipeline(t)' = Pipeline(t)
<1>1. /\ hold' = [hold EXCEPT ![s] = << >>] /\ hold[s] # << >>
      /\ UNCHANGED <<worker, ch, dispatch>>
  BY DEF WorkerDrop
<1>2. worker[s] = "select"
  BY <1>1 DEF Lifecycle
<1>3. PICK e \in Events : hold[s] = <<e>>
  BY <1>1 DEF TypeOK
<1>4. /\ Len(ch[s]) + 1 \in DOMAIN (ch[s] \o <<e>> \o dispatch[s])
      /\ RemoveAt(ch[s] \o <<e>> \o dispatch[s], Len(ch[s]) + 1) = ch[s] \o << >> \o dispatch[s]
  <2>1. /\ ch \in [Subs -> Seq(Events)] /\ dispatch \in [Subs -> Seq(Events)]
        /\ ch[s] \in Seq(Events) /\ dispatch[s] \in Seq(Events)
    BY PipelineType
  <2> QED BY <2>1, DropLemma
<1>5. hold'[s] = << >>
  BY <1>1 DEF TypeOK
<1>6. Pipeline(s) = ch[s] \o <<e>> \o dispatch[s] /\ Pipeline(s)' = ch[s] \o << >> \o dispatch[s]
  BY <1>1, <1>2, <1>3, <1>5 DEF Pipeline
<1>7. \A t \in Subs \ {s} : Pipeline(t)' = Pipeline(t)
  BY <1>1, PipelineFrame DEF TypeOK
<1> QED BY <1>4, <1>6, <1>7

\* Of a goroutine that returns, what it has passed on is left.
LEMMA StopPipeline ==
  ASSUME TypeOK, NEW s \in Subs, WorkerStop(s)
  PROVE  /\ \E n \in 0 .. Len(Pipeline(s)) : Pipeline(s)' = SubSeq(Pipeline(s), 1, n)
         /\ \A t \in Subs \ {s} : Pipeline(t)' = Pipeline(t)
<1>1. /\ worker[s] = "select" /\ hold[s] = << >>
      /\ worker' = [worker EXCEPT ![s] = "done"]
      /\ UNCHANGED <<hold, ch, dispatch>>
  BY DEF WorkerStop
<1>2. worker'[s] = "done"
  BY <1>1 DEF TypeOK
<1>3. /\ ch \in [Subs -> Seq(Events)] /\ dispatch \in [Subs -> Seq(Events)]
      /\ ch[s] \in Seq(Events) /\ dispatch[s] \in Seq(Events) /\ << >> \in Seq(Events)
      /\ Len(ch[s]) \in Nat /\ Len(dispatch[s]) \in Nat
  BY PipelineType, LenProperties, EmptySeq
<1>4. Pipeline(s) = ch[s] \o dispatch[s] /\ Pipeline(s)' = ch[s]
  <2>1. Pipeline(s) = ch[s] \o << >> \o dispatch[s]
    BY <1>1 DEF Pipeline
  <2>2. ch[s] \o << >> = ch[s]
    BY <1>3, ConcatEmptySeq
  <2> QED BY <1>1, <1>2, <2>1, <2>2 DEF Pipeline
<1>5. Len(ch[s]) \in 0 .. Len(Pipeline(s))
  <2>1. Len(Pipeline(s)) = Len(ch[s]) + Len(dispatch[s])
    BY <1>3, <1>4, ConcatProperties
  <2> QED BY <1>3, <2>1
<1>6. SubSeq(ch[s] \o dispatch[s], 1, Len(ch[s])) = ch[s]
  <2> DEFINE q == ch[s] \o dispatch[s]
  <2>1. /\ q \in Seq(Events) /\ Len(q) = Len(ch[s]) + Len(dispatch[s])
        /\ \A i \in 1 .. Len(ch[s]) : q[i] = ch[s][i]
    <3>1. /\ q \in Seq(Events) /\ Len(q) = Len(ch[s]) + Len(dispatch[s])
          /\ \A i \in 1 .. Len(ch[s]) + Len(dispatch[s]) :
               q[i] = IF i <= Len(ch[s]) THEN ch[s][i] ELSE dispatch[s][i - Len(ch[s])]
      BY <1>3, ConcatProperties
    <3> HIDE DEF q
    <3> QED BY <1>3, <3>1
  <2> HIDE DEF q
  <2>2. \A i \in 1 .. Len(ch[s]) : q[i] \in Events
    BY <1>3, <2>1, ElementOfSeq
  <2>3. /\ SubSeq(q, 1, Len(ch[s])) \in Seq(Events)
        /\ Len(SubSeq(q, 1, Len(ch[s]))) = Len(ch[s])
        /\ \A i \in 1 .. Len(ch[s]) : SubSeq(q, 1, Len(ch[s]))[i] = q[i]
    <3>1. 1 \in Int /\ Len(ch[s]) \in Int
      BY <1>3
    <3>2. /\ SubSeq(q, 1, Len(ch[s])) \in Seq(Events)
          /\ Len(SubSeq(q, 1, Len(ch[s]))) = IF 1 <= Len(ch[s]) THEN Len(ch[s]) - 1 + 1 ELSE 0
          /\ \A i \in 1 .. Len(ch[s]) - 1 + 1 : SubSeq(q, 1, Len(ch[s]))[i] = q[1 + i - 1]
      BY <2>2, <3>1, SubSeqProperties
    <3> QED BY <1>3, <3>2
  <2>4. SubSeq(q, 1, Len(ch[s])) = ch[s]
    <3>1. \A i \in 1 .. Len(SubSeq(q, 1, Len(ch[s]))) : SubSeq(q, 1, Len(ch[s]))[i] = ch[s][i]
      BY <2>1, <2>3
    <3> QED BY <1>3, <2>3, <3>1, SeqEqual
  <2> QED BY <2>4 DEF q
<1>7. \A t \in Subs \ {s} : Pipeline(t)' = Pipeline(t)
  BY <1>1, PipelineFrame DEF TypeOK
<1> QED BY <1>4, <1>5, <1>6, <1>7

LEMMA ReceivePipeline ==
  ASSUME TypeOK, NEW s \in Subs, Receive(s)
  PROVE  /\ Pipeline(s) # << >>
         /\ Pipeline(s)' = Tail(Pipeline(s))
         /\ received' = [received EXCEPT ![s] = Append(received[s], Head(Pipeline(s)))]
         /\ \A t \in Subs \ {s} : Pipeline(t)' = Pipeline(t)
<1>1. /\ ch[s] # << >>
      /\ ch' = [ch EXCEPT ![s] = Tail(ch[s])]
      /\ received' = [received EXCEPT ![s] = Append(received[s], Head(ch[s]))]
      /\ UNCHANGED <<worker, hold, dispatch>>
  BY DEF Receive
<1>2. ch'[s] = Tail(ch[s])
  BY <1>1 DEF TypeOK
<1>3. /\ ch \in [Subs -> Seq(Events)] /\ hold \in [Subs -> Seq(Events)]
      /\ dispatch \in [Subs -> Seq(Events)]
      /\ ch[s] \in Seq(Events) /\ hold[s] \in Seq(Events) /\ dispatch[s] \in Seq(Events)
      /\ hold[s] \o dispatch[s] \in Seq(Events) /\ Tail(ch[s]) \in Seq(Events)
      /\ << >> \in Seq(Events)
  BY <1>1, PipelineType, ConcatProperties, HeadTailProperties, EmptySeq
<1>4. PICK b \in Seq(Events) : Pipeline(s) = ch[s] \o b /\ Pipeline(s)' = Tail(ch[s]) \o b
  <2>1. CASE worker[s] = "done"
    <3>1. Pipeline(s) = ch[s] \o << >> /\ Pipeline(s)' = Tail(ch[s]) \o << >>
      BY <1>1, <1>2, <1>3, <2>1, ConcatEmptySeq DEF Pipeline
    <3> QED BY <1>3, <3>1
  <2>2. CASE worker[s] # "done"
    <3>1. /\ Pipeline(s) = ch[s] \o hold[s] \o dispatch[s]
          /\ Pipeline(s)' = Tail(ch[s]) \o hold[s] \o dispatch[s]
      BY <1>1, <1>2, <2>2 DEF Pipeline
    <3>2. /\ ch[s] \o hold[s] \o dispatch[s] = ch[s] \o (hold[s] \o dispatch[s])
          /\ Tail(ch[s]) \o hold[s] \o dispatch[s] = Tail(ch[s]) \o (hold[s] \o dispatch[s])
      <4>1. /\ ch[s] \in Seq(Events) /\ hold[s] \in Seq(Events)
            /\ dispatch[s] \in Seq(Events) /\ Tail(ch[s]) \in Seq(Events)
        BY <1>3
      <4>2. PICK a \in Seq(Events), t \in Seq(Events), h \in Seq(Events), d \in Seq(Events) :
              a = ch[s] /\ t = Tail(ch[s]) /\ h = hold[s] /\ d = dispatch[s]
        BY <4>1, Zenon
      <4>3. a \o h \o d = a \o (h \o d)
        BY EventsRegroup, Zenon
      <4>4. t \o h \o d = t \o (h \o d)
        BY EventsRegroup, Zenon
      <4> QED BY <4>2, <4>3, <4>4, Zenon
    <3> QED BY <1>3, <3>1, <3>2, Zenon
  <2> QED BY <2>1, <2>2
<1>5. /\ Pipeline(s) # << >> /\ Head(Pipeline(s)) = Head(ch[s])
      /\ Tail(Pipeline(s)) = Tail(ch[s]) \o b
  BY <1>1, <1>3, <1>4, ReceiveLemma
<1>6. \A t \in Subs \ {s} : Pipeline(t)' = Pipeline(t)
  BY <1>1, PipelineFrame DEF TypeOK
<1> QED BY <1>1, <1>4, <1>5, <1>6

\* An event that is accepted joins the end of the pipeline, unless the
\* goroutine has returned: then dispatch is a dead letter box.
LEMMA SendPipeline ==
  ASSUME TypeOK, NEW p \in Publishers, PublishSend(p), NEW s, s = copy[p][next[p]]
  PROVE  /\ s \in Subs /\ Event(p) \in Events
         /\ \/ Pipeline(s)' = Pipeline(s)
            \/ worker[s] # "done" /\ Pipeline(s)' = Append(Pipeline(s), Event(p))
         /\ \A t \in Subs \ {s} : Pipeline(t)' = Pipeline(t)
<1>1. s \in Subs /\ Event(p) \in Events
  BY SendTarget DEF PublishSend
<1>2. UNCHANGED <<worker, hold, ch>>
  BY DEF PublishSend, Offer
<1>3. \/ dispatch' = [dispatch EXCEPT ![s] = Append(dispatch[s], Event(p))]
      \/ UNCHANGED dispatch
  BY DEF PublishSend, Targets
<1>4. \A t \in Subs \ {s} : Pipeline(t)' = Pipeline(t)
  BY <1>2, <1>3, PipelineFrame DEF TypeOK
<1>5. CASE dispatch'[s] = dispatch[s] \/ worker[s] = "done"
  BY <1>1, <1>2, <1>4, <1>5 DEF Pipeline
<1>6. CASE dispatch' = [dispatch EXCEPT ![s] = Append(dispatch[s], Event(p))] /\ worker[s] # "done"
  <2>1. dispatch'[s] = Append(dispatch[s], Event(p))
    BY <1>1, <1>6 DEF TypeOK
  <2>2. /\ ch \in [Subs -> Seq(Events)] /\ hold \in [Subs -> Seq(Events)]
        /\ dispatch \in [Subs -> Seq(Events)]
        /\ ch[s] \in Seq(Events) /\ hold[s] \in Seq(Events) /\ dispatch[s] \in Seq(Events)
    BY <1>1, PipelineType
  <2>3. ch[s] \o hold[s] \o Append(dispatch[s], Event(p))
          = Append(ch[s] \o hold[s] \o dispatch[s], Event(p))
    <3> PICK e \in Events : e = Event(p)
      BY <1>1
    <3>1. ch[s] \o hold[s] \o Append(dispatch[s], e) = Append(ch[s] \o hold[s] \o dispatch[s], e)
      <4>1. ch[s] \in Seq(Events) /\ hold[s] \in Seq(Events) /\ dispatch[s] \in Seq(Events)
        BY <2>2
      <4>2. PICK a \in Seq(Events), h \in Seq(Events), d \in Seq(Events) :
              a = ch[s] /\ h = hold[s] /\ d = dispatch[s]
        BY <4>1, Zenon
      <4>3. a \o h \o Append(d, e) = Append(a \o h \o d, e)
        BY AcceptLemma
      <4> QED BY <4>2, <4>3, Zenon
    <3> QED BY <3>1
  <2>4. /\ Pipeline(s) = ch[s] \o hold[s] \o dispatch[s]
        /\ Pipeline(s)' = ch[s] \o hold[s] \o dispatch'[s]
    BY <1>2, <1>6 DEF Pipeline
  <2>5. Pipeline(s)' = Append(Pipeline(s), Event(p))
    BY <2>1, <2>3, <2>4, Zenon
  <2> QED BY <1>1, <1>4, <1>6, <2>5
<1> QED BY <1>3, <1>5, <1>6

-----------------------------------------------------------------------------
(* The bus implements the lossy FIFO                                       *)

queueBar == [s \in Subs |-> Pipeline(s)]

LEMMA QueueStep ==
  ASSUME NEW s \in Subs, NEW q, Pipeline(s)' = q,
         \A t \in Subs \ {s} : Pipeline(t)' = Pipeline(t)
  PROVE  queueBar' = [queueBar EXCEPT ![s] = q]
BY DEF queueBar

\* Each step of the bus is a step of the FIFO of one subscription, or none: an
\* accepted send is Accept, a drop is Lose, a read is Deliver, and the return
\* of a dispatch goroutine is Close.
LEMMA RefinementStep ==
  ASSUME TypeOK, Lifecycle, [Next]_vars
  PROVE  [Abstract!Next]_(Abstract!abstractVars)
<1> USE DEF Abstract!abstractVars
<1>a. ASSUME \A t \in Subs : Pipeline(t)' = Pipeline(t), UNCHANGED <<received, closed>>
      PROVE  UNCHANGED <<[s \in Subs |-> Pipeline(s)], received, closed>>
  BY <1>a
<1>1. ASSUME NEW s \in Subs, Subscribe(s)
      PROVE  UNCHANGED <<[t \in Subs |-> Pipeline(t)], received, closed>>
  BY <1>1, <1>a, SubscribePipeline DEF Subscribe, history
<1>2. ASSUME NEW nm \in Names, Unsubscribe(nm)
      PROVE  UNCHANGED <<[t \in Subs |-> Pipeline(t)], received, closed>>
  BY <1>2, <1>a, PipelineFrame DEF Unsubscribe, history
<1>3. ASSUME NEW s \in Subs, WorkerTake(s)
      PROVE  UNCHANGED <<[t \in Subs |-> Pipeline(t)], received, closed>>
  BY <1>3, <1>a, TakePipeline DEF WorkerTake, history
<1>4. ASSUME NEW s \in Subs, WorkerForward(s)
      PROVE  UNCHANGED <<[t \in Subs |-> Pipeline(t)], received, closed>>
  BY <1>4, <1>a, ForwardPipeline DEF WorkerForward, history
<1>5. ASSUME NEW s \in Subs, WorkerDrop(s) PROVE Abstract!Lose(s)
  <2>1. PICK i \in DOMAIN Pipeline(s) : Pipeline(s)' = RemoveAt(Pipeline(s), i)
    BY <1>5, DropPipeline
  <2>2. queueBar' = [queueBar EXCEPT ![s] = RemoveAt(Pipeline(s), i)]
    BY <1>5, <2>1, DropPipeline, QueueStep
  <2>3. queueBar[s] = Pipeline(s)
    BY DEF queueBar
  <2>4. UNCHANGED <<received, closed>>
    BY <1>5 DEF WorkerDrop
  <2>5. \E j \in DOMAIN queueBar[s] : queueBar' = [queueBar EXCEPT ![s] = RemoveAt(@, j)]
    BY <2>2, <2>3
  <2>6. \A q, j : RemoveAt(q, j) = Abstract!RemoveAt(q, j)
    BY DEF RemoveAt, Abstract!RemoveAt
  <2>7. \E j \in DOMAIN queueBar[s] : queueBar' = [queueBar EXCEPT ![s] = Abstract!RemoveAt(@, j)]
    BY <2>5, <2>6
  <2> QED BY <2>4, <2>7 DEF Abstract!Lose, queueBar
<1>6. ASSUME NEW s \in Subs, WorkerStop(s) PROVE Abstract!Close(s)
  <2>1. PICK n \in 0 .. Len(Pipeline(s)) : Pipeline(s)' = SubSeq(Pipeline(s), 1, n)
    BY <1>6, StopPipeline
  <2>2. queueBar' = [queueBar EXCEPT ![s] = SubSeq(Pipeline(s), 1, n)]
    BY <1>6, <2>1, StopPipeline, QueueStep
  <2>3. queueBar[s] = Pipeline(s)
    BY DEF queueBar
  <2>4. ~ closed[s] /\ closed' = [closed EXCEPT ![s] = TRUE] /\ UNCHANGED received
    BY <1>6 DEF WorkerStop, history, Lifecycle
  <2>5. \E m \in 0 .. Len(queueBar[s]) : queueBar' = [queueBar EXCEPT ![s] = SubSeq(@, 1, m)]
    BY <2>2, <2>3
  <2> QED BY <2>4, <2>5 DEF Abstract!Close, queueBar
<1>7. ASSUME NEW s \in Subs, Receive(s) PROVE Abstract!Deliver(s)
  <2>1. /\ Pipeline(s) # << >>
        /\ queueBar' = [queueBar EXCEPT ![s] = Tail(Pipeline(s))]
        /\ received' = [received EXCEPT ![s] = Append(received[s], Head(Pipeline(s)))]
    BY <1>7, ReceivePipeline, QueueStep
  <2>2. queueBar[s] = Pipeline(s)
    BY DEF queueBar
  <2>3. UNCHANGED closed
    BY <1>7 DEF Receive
  <2>4. /\ queueBar[s] # << >>
        /\ queueBar' = [queueBar EXCEPT ![s] = Tail(@)]
        /\ received' = [received EXCEPT ![s] = Append(@, Head(queueBar[s]))]
    BY <2>1, <2>2
  <2> QED BY <2>3, <2>4 DEF Abstract!Deliver, queueBar
<1>8. ASSUME NEW p \in Publishers, PublishBegin(p)
      PROVE  UNCHANGED <<[t \in Subs |-> Pipeline(t)], received, closed>>
  BY <1>8, <1>a, PipelineFrame DEF PublishBegin, channels
<1>9. ASSUME NEW p \in Publishers, PublishSend(p)
      PROVE  \/ \E s \in Subs, e \in Events : Abstract!Accept(s, e)
             \/ UNCHANGED <<[t \in Subs |-> Pipeline(t)], received, closed>>
  <2>0. copy[p][next[p]] \in Subs
    BY <1>9, SendPipeline
  <2> PICK s \in Subs : s = copy[p][next[p]]
    BY <2>0
  <2>1. /\ Event(p) \in Events
        /\ \/ Pipeline(s)' = Pipeline(s)
           \/ worker[s] # "done" /\ Pipeline(s)' = Append(Pipeline(s), Event(p))
        /\ \A t \in Subs \ {s} : Pipeline(t)' = Pipeline(t)
    BY <1>9, SendPipeline
  <2>2. UNCHANGED <<received, closed>>
    BY <1>9 DEF PublishSend, Offer
  <2>3. CASE Pipeline(s)' = Pipeline(s)
    BY <1>a, <2>1, <2>2, <2>3
  <2>4. CASE worker[s] # "done" /\ Pipeline(s)' = Append(Pipeline(s), Event(p))
    <3>1. queueBar' = [queueBar EXCEPT ![s] = Append(Pipeline(s), Event(p))]
      BY <2>1, <2>4, QueueStep
    <3>2. queueBar[s] = Pipeline(s)
      BY DEF queueBar
    <3>3. ~ closed[s]
      BY <2>4 DEF Lifecycle
    <3>4. queueBar' = [queueBar EXCEPT ![s] = Append(@, Event(p))]
      BY <3>1, <3>2
    <3>5. Abstract!Accept(s, Event(p))
      BY <2>2, <3>3, <3>4 DEF Abstract!Accept, queueBar
    <3> QED BY <2>1, <3>5
  <2> QED BY <2>1, <2>3, <2>4
<1>10. CASE UNCHANGED vars
  <2>1. UNCHANGED <<worker, ch, hold, dispatch, received, closed>>
    BY <1>10 DEF vars, channels, history
  <2> QED BY <1>a, <2>1, PipelineFrame
<1> QED
  BY <1>1, <1>2, <1>3, <1>4, <1>5, <1>6, <1>7, <1>8, <1>9, <1>10 DEF Next, Run, Abstract!Next

\* Whatever publishers, dispatch goroutines, consumers and unsubscriptions do,
\* a consumer sees a FIFO that may lose events and nothing else.
THEOREM ImplementsLossyFifoCorrect == Spec => ImplementsLossyFifo
<1>1. Init => Abstract!Init
  BY DEF Init, Abstract!Init, Pipeline
<1> QED
  BY <1>1, RefinementStep, TypeCorrect, LifecycleInvariant, PTL
     DEF Spec, ImplementsLossyFifo, Abstract!Spec

-----------------------------------------------------------------------------
(* Order of delivery                                                       *)

Ordered(q) == \A i, j \in DOMAIN q : i < j /\ q[i].from = q[j].from => q[i].n < q[j].n

\* r is q without some of its elements.
Thinned(r, q) ==
  \E f \in [DOMAIN r -> DOMAIN q] :
    /\ \A i \in DOMAIN r : r[i] = q[f[i]]
    /\ \A i, j \in DOMAIN r : i < j => f[i] < f[j]

LEMMA EventType == \A e \in Events : e.from \in Publishers /\ e.n \in Nat
BY DEF Events

LEMMA ThinnedOrdered ==
  \A q, r \in Seq(Events) :
    Thinned(r, q) => /\ Ordered(q) => Ordered(r)
                     /\ \A i \in DOMAIN r : \E j \in DOMAIN q : r[i] = q[j]
<1> TAKE q, r \in Seq(Events)
<1> HAVE Thinned(r, q)
<1>1. PICK f \in [DOMAIN r -> DOMAIN q] : /\ \A i \in DOMAIN r : r[i] = q[f[i]]
                                          /\ \A i, j \in DOMAIN r : i < j => f[i] < f[j]
  BY DEF Thinned
<1>2. \A i \in DOMAIN r : f[i] \in DOMAIN q /\ r[i] = q[f[i]]
  BY <1>1
<1>3. ASSUME Ordered(q), NEW i \in DOMAIN r, NEW j \in DOMAIN r, i < j, r[i].from = r[j].from
      PROVE  r[i].n < r[j].n
  <2>1. f[i] < f[j] /\ q[f[i]].from = q[f[j]].from
    BY <1>1, <1>2, <1>3
  <2> QED BY <1>2, <1>3, <2>1, Zenon DEF Ordered
<1> QED BY <1>2, <1>3 DEF Ordered

LEMMA ThinnedSame == \A q \in Seq(Events) : Thinned(q, q)
<1> TAKE q \in Seq(Events)
<1> DEFINE f == [i \in DOMAIN q |-> i]
<1>1. f \in [DOMAIN q -> DOMAIN q]
  OBVIOUS
<1> QED BY <1>1 DEF Thinned

\* Losing an event, wherever it is.
LEMMA ThinnedRemove ==
  \A q \in Seq(Events) : \A k \in DOMAIN q :
    RemoveAt(q, k) \in Seq(Events) /\ Thinned(RemoveAt(q, k), q)
<1> TAKE q \in Seq(Events)
<1> TAKE k \in DOMAIN q
<1> DEFINE r == RemoveAt(q, k)
           f == [i \in DOMAIN r |-> IF i < k THEN i ELSE i + 1]
<1>1. /\ r \in Seq(Events) /\ Len(r) = Len(q) - 1
      /\ \A j \in 1 .. Len(q) - 1 : r[j] = IF j < k THEN q[j] ELSE q[j + 1]
  BY RemoveAtLemma
<1>2. DOMAIN r = 1 .. Len(q) - 1 /\ DOMAIN q = 1 .. Len(q) /\ Len(q) \in Nat /\ k \in 1 .. Len(q)
  BY <1>1, LenProperties
<1>2a. r \in Seq(Events)
  BY <1>1
<1> HIDE DEF r
<1>3. f \in [DOMAIN r -> DOMAIN q]
  BY <1>2
<1>4. \A i \in DOMAIN r : r[i] = q[f[i]]
  BY <1>1, <1>2
<1>5. \A i, j \in DOMAIN r : i < j => f[i] < f[j]
  BY <1>2
<1>6. Thinned(r, q)
  BY <1>3, <1>4, <1>5 DEF Thinned
<1> QED BY <1>2a, <1>6 DEF r

\* Losing the youngest events.
LEMMA ThinnedPrefix ==
  \A q \in Seq(Events) : \A n \in 0 .. Len(q) :
    SubSeq(q, 1, n) \in Seq(Events) /\ Thinned(SubSeq(q, 1, n), q)
<1> TAKE q \in Seq(Events)
<1> TAKE n \in 0 .. Len(q)
<1> DEFINE r == SubSeq(q, 1, n)
           f == [i \in DOMAIN r |-> i]
<1>1. \A i \in 1 .. n : q[i] \in Events
  BY ElementOfSeq, LenProperties
<1>2. r \in Seq(Events) /\ Len(r) = n /\ \A i \in 1 .. n : r[i] = q[i]
  <2>1. /\ SubSeq(q, 1, n) \in Seq(Events)
        /\ Len(SubSeq(q, 1, n)) = IF 1 <= n THEN n - 1 + 1 ELSE 0
        /\ \A i \in 1 .. n - 1 + 1 : SubSeq(q, 1, n)[i] = q[1 + i - 1]
    BY <1>1, SubSeqProperties, LenProperties
  <2> QED BY <2>1, LenProperties
<1> HIDE DEF r
<1>3. DOMAIN r = 1 .. n /\ DOMAIN q = 1 .. Len(q) /\ Len(q) \in Nat
  BY <1>2, LenProperties
<1>4. f \in [DOMAIN r -> DOMAIN q]
  BY <1>3
<1>5. Thinned(r, q)
  BY <1>2, <1>3, <1>4 DEF Thinned
<1> QED BY <1>2, <1>5 DEF r

\* What a consumer has read stays in front.
LEMMA ThinnedConcat ==
  \A a, q, r \in Seq(Events) : Thinned(r, q) => Thinned(a \o r, a \o q)
<1> TAKE a, q, r \in Seq(Events)
<1> HAVE Thinned(r, q)
<1>1. PICK f \in [DOMAIN r -> DOMAIN q] : /\ \A i \in DOMAIN r : r[i] = q[f[i]]
                                          /\ \A i, j \in DOMAIN r : i < j => f[i] < f[j]
  BY DEF Thinned
<1> DEFINE u == a \o r
           v == a \o q
           n == Len(a)
           g == [i \in DOMAIN u |-> IF i <= n THEN i ELSE n + f[i - n]]
<1>2. /\ DOMAIN a = 1 .. n /\ DOMAIN r = 1 .. Len(r) /\ DOMAIN q = 1 .. Len(q)
      /\ n \in Nat /\ Len(r) \in Nat /\ Len(q) \in Nat
  BY LenProperties
<1>3. /\ DOMAIN u = 1 .. n + Len(r)
      /\ \A i \in 1 .. n + Len(r) : u[i] = IF i <= n THEN a[i] ELSE r[i - n]
  BY ConcatProperties, LenProperties
<1>4. /\ DOMAIN v = 1 .. n + Len(q)
      /\ \A i \in 1 .. n + Len(q) : v[i] = IF i <= n THEN a[i] ELSE q[i - n]
  BY ConcatProperties, LenProperties
<1> HIDE DEF u, v, n
<1>5. \A i \in DOMAIN u : i > n => i - n \in DOMAIN r /\ f[i - n] \in 1 .. Len(q)
  BY <1>1, <1>2, <1>3
<1>6. g \in [DOMAIN u -> DOMAIN v]
  BY <1>2, <1>3, <1>4, <1>5
<1>7. ASSUME NEW i \in DOMAIN u PROVE u[i] = v[g[i]]
  <2>1. CASE i <= n
    BY <1>2, <1>3, <1>4, <1>6, <2>1
  <2>2. CASE i > n
    <3>1. g[i] = n + f[i - n] /\ g[i] \in 1 .. n + Len(q) /\ ~ (g[i] <= n)
      BY <1>2, <1>3, <1>4, <1>5, <2>2
    <3>2. v[g[i]] = q[g[i] - n] /\ g[i] - n = f[i - n]
      BY <1>2, <1>4, <1>5, <2>2, <3>1
    <3>3. u[i] = r[i - n]
      BY <1>2, <1>3, <2>2
    <3> QED BY <1>1, <1>5, <2>2, <3>2, <3>3
  <2> QED BY <1>2, <1>3, <2>1, <2>2
<1>8. ASSUME NEW i \in DOMAIN u, NEW j \in DOMAIN u, i < j PROVE g[i] < g[j]
  <2>1. CASE j <= n
    BY <1>2, <1>3, <1>8, <2>1
  <2>2. CASE i <= n /\ j > n
    BY <1>2, <1>3, <1>5, <1>8, <2>2
  <2>3. CASE i > n
    <3>1. /\ j > n /\ i - n < j - n /\ i - n \in DOMAIN r /\ j - n \in DOMAIN r
          /\ f[i - n] \in 1 .. Len(q) /\ f[j - n] \in 1 .. Len(q)
      BY <1>2, <1>3, <1>5, <1>8, <2>3
    <3>2. f[i - n] < f[j - n]
      BY <1>1, <3>1
    <3>3. g[i] = n + f[i - n] /\ g[j] = n + f[j - n]
      BY <1>2, <1>3, <2>3, <3>1
    <3> QED BY <1>2, <3>1, <3>2, <3>3
  <2> QED BY <1>2, <1>3, <2>1, <2>2, <2>3
<1>9. Thinned(u, v)
  BY <1>6, <1>7, <1>8 DEF Thinned
<1> QED BY <1>9 DEF u, v

\* An event younger than all of its publisher may join the end.
LEMMA OrderedAppend ==
  \A q \in Seq(Events) : \A e \in Events :
    Ordered(q) /\ (\A i \in DOMAIN q : q[i].from = e.from => q[i].n < e.n) => Ordered(Append(q, e))
<1> TAKE q \in Seq(Events)
<1> TAKE e \in Events
<1>1. /\ DOMAIN Append(q, e) = 1 .. Len(q) + 1 /\ DOMAIN q = 1 .. Len(q) /\ Len(q) \in Nat
      /\ \A i \in 1 .. Len(q) : Append(q, e)[i] = q[i]
      /\ Append(q, e)[Len(q) + 1] = e
  BY AppendProperties, LenProperties
<1> QED BY <1>1 DEF Ordered

-----------------------------------------------------------------------------
(* Order of delivery and completeness of the fan-out                       *)

Whole(s) == received[s] \o Pipeline(s)

\* Nothing on its way to s is younger than its publisher's last event, and that
\* event itself is not there as long as its publisher has yet to come to s.
Stamped(s) ==
  \A i \in DOMAIN Whole(s) :
    LET p == Whole(s)[i].from IN
      /\ Whole(s)[i].n <= sent[p]
      /\ \A k \in next[p] .. Len(copy[p]) :
           next[p] > 0 /\ copy[p][k] = s => Whole(s)[i].n < sent[p]

\* The copy names nobody twice, so that a Publish comes to each only once, all
\* it names before next have been offered the event, and next stays within it.
Copies ==
  \A p \in Publishers :
    /\ Distinct(copy[p])
    /\ next[p] <= Len(copy[p])
    /\ \A k \in DOMAIN copy[p] : k < next[p] => copy[p][k] \in offered[p]

OrderInv ==
  /\ \A s \in Subs : Ordered(Whole(s)) /\ Stamped(s)
  /\ Copies

LEMMA WholeType == TypeOK => \A s \in Subs : Whole(s) \in Seq(Events)
BY PipelineType, ConcatProperties DEF Whole

\* A step of a goroutine other than a publisher takes events away at most.
LEMMA WholeThinned ==
  ASSUME TypeOK, Lifecycle, NEW s \in Subs,
         \/ \E t \in Subs : Subscribe(t) \/ Run(t) \/ Receive(t)
         \/ \E nm \in Names : Unsubscribe(nm)
  PROVE  Thinned(Whole(s)', Whole(s))
<1>0. Pipeline(s) \in Seq(Events) /\ received[s] \in Seq(Events) /\ Whole(s) \in Seq(Events)
  BY PipelineType, WholeType
<1>a. ASSUME Pipeline(s)' \in Seq(Events), Thinned(Pipeline(s)', Pipeline(s)),
             received'[s] = received[s]
      PROVE  Thinned(Whole(s)', Whole(s))
  <2> PICK q \in Seq(Events) : q = Pipeline(s)
    BY <1>0
  <2> PICK r \in Seq(Events) : r = Pipeline(s)'
    BY <1>a
  <2> PICK a \in Seq(Events) : a = received[s]
    BY <1>0
  <2>1. Thinned(a \o r, a \o q)
    BY <1>a, ThinnedConcat, Zenon
  <2>2. Whole(s) = a \o q /\ Whole(s)' = a \o r
    BY <1>a, Zenon DEF Whole
  <2> QED BY <2>1, <2>2, Zenon
<1>b. ASSUME Pipeline(s)' = Pipeline(s), received'[s] = received[s]
      PROVE  Thinned(Whole(s)', Whole(s))
  BY <1>0, <1>b, ThinnedSame, Zenon DEF Whole
<1>1. ASSUME NEW t \in Subs, Subscribe(t) PROVE Thinned(Whole(s)', Whole(s))
  BY <1>1, <1>b, SubscribePipeline DEF Subscribe, history
<1>2. ASSUME NEW nm \in Names, Unsubscribe(nm) PROVE Thinned(Whole(s)', Whole(s))
  BY <1>2, <1>b, PipelineFrame DEF Unsubscribe, history
<1>3. ASSUME NEW t \in Subs, WorkerTake(t) PROVE Thinned(Whole(s)', Whole(s))
  BY <1>3, <1>b, TakePipeline DEF WorkerTake, history
<1>4. ASSUME NEW t \in Subs, WorkerForward(t) PROVE Thinned(Whole(s)', Whole(s))
  BY <1>4, <1>b, ForwardPipeline DEF WorkerForward, history
<1>5. ASSUME NEW t \in Subs, WorkerDrop(t) PROVE Thinned(Whole(s)', Whole(s))
  <2>1. received' = received
    BY <1>5 DEF WorkerDrop
  <2>2. CASE t = s
    <3>1. Pipeline(s)' \in Seq(Events) /\ Thinned(Pipeline(s)', Pipeline(s))
      BY <1>0, <1>5, <2>2, DropPipeline, ThinnedRemove, Zenon
    <3> QED BY <1>a, <2>1, <3>1
  <2>3. CASE t # s
    BY <1>5, <1>b, <2>1, <2>3, DropPipeline
  <2> QED BY <2>2, <2>3
<1>6. ASSUME NEW t \in Subs, WorkerStop(t) PROVE Thinned(Whole(s)', Whole(s))
  <2>1. received' = received
    BY <1>6 DEF WorkerStop, history
  <2>2. CASE t = s
    <3>1. Pipeline(s)' \in Seq(Events) /\ Thinned(Pipeline(s)', Pipeline(s))
      BY <1>0, <1>6, <2>2, StopPipeline, ThinnedPrefix, Zenon
    <3> QED BY <1>a, <2>1, <3>1
  <2>3. CASE t # s
    BY <1>6, <1>b, <2>1, <2>3, StopPipeline
  <2> QED BY <2>2, <2>3
<1>7. ASSUME NEW t \in Subs, Receive(t) PROVE Thinned(Whole(s)', Whole(s))
  <2>1. /\ Pipeline(t) # << >> /\ Pipeline(t)' = Tail(Pipeline(t))
        /\ received' = [received EXCEPT ![t] = Append(received[t], Head(Pipeline(t)))]
        /\ t # s => Pipeline(s)' = Pipeline(s)
    BY <1>7, ReceivePipeline
  <2>2. CASE t = s
    <3> PICK d \in Seq(Events) : d = Pipeline(s)
      BY <1>0
    <3> PICK a \in Seq(Events) : a = received[s]
      BY <1>0
    <3>1. received'[s] = Append(a, Head(d)) /\ Pipeline(s)' = Tail(d) /\ d # << >>
      BY <2>1, <2>2, PipelineType
    <3>2. Append(a, Head(d)) \o Tail(d) = a \o d
      <4>1. \A b \in Seq(Events) : b # << >> => Append(a, Head(b)) \o Tail(b) = a \o b
        <5> TAKE b \in Seq(Events)
        <5> HAVE b # << >>
        <5>1. Head(b) \in Events
          BY HeadTailProperties
        <5>2. Append(a, Head(b)) = a \o <<Head(b)>>
          BY <5>1, AppendIsConcat
        <5>3. a \o <<Head(b)>> \o Tail(b) = a \o << >> \o b
          BY TakeLemma
        <5>4. a \o << >> = a
          BY ConcatEmptySeq
        <5> QED BY <5>2, <5>3, <5>4
      <4> QED BY <3>1, <4>1, Zenon
    <3>3. Whole(s)' = Whole(s)
      BY <3>1, <3>2, Zenon DEF Whole
    <3> QED BY <1>0, <3>3, ThinnedSame, Zenon
  <2>3. CASE t # s
    <3>1. received'[s] = received[s]
      BY <2>1, <2>3, PipelineType
    <3> QED BY <1>b, <2>1, <2>3, <3>1
  <2> QED BY <2>2, <2>3
<1> QED BY <1>1, <1>2, <1>3, <1>4, <1>5, <1>6, <1>7 DEF Run

LEMMA OrderStep ==
  ASSUME TypeOK, Lifecycle, OrderInv, [Next]_vars
  PROVE  OrderInv'
<1>0. /\ \A s \in Subs : Whole(s) \in Seq(Events)
      /\ sent \in [Publishers -> Nat] /\ next \in [Publishers -> Nat]
      /\ copy \in [Publishers -> Seq(Subs)] /\ offered \in [Publishers -> SUBSET Subs]
      /\ subscribers \in Seq(Subs)
  BY WholeType DEF TypeOK
<1>a. \A s \in Subs : \A i \in DOMAIN Whole(s) : Whole(s)[i] \in Events
  BY <1>0, ElementOfSeq, LenProperties
<1>1. CASE \/ \E t \in Subs : Subscribe(t) \/ Run(t) \/ Receive(t)
           \/ \E nm \in Names : Unsubscribe(nm)
  <2>1. UNCHANGED <<publishing, offered>>
    BY <1>1 DEF Subscribe, Run, WorkerTake, WorkerForward, WorkerDrop, WorkerStop, Receive,
                Unsubscribe, history
  <2>2. ASSUME NEW s \in Subs PROVE Ordered(Whole(s))' /\ Stamped(s)'
    <3>1. Thinned(Whole(s)', Whole(s))
      BY <1>1, WholeThinned
    <3>2. Whole(s) \in Seq(Events) /\ Ordered(Whole(s)) /\ Stamped(s)
      BY <1>0 DEF OrderInv
    <3>3. /\ Ordered(Whole(s)')
          /\ \A i \in DOMAIN Whole(s)' : \E j \in DOMAIN Whole(s) : Whole(s)'[i] = Whole(s)[j]
      <4> PICK q : q = Whole(s)
        OBVIOUS
      <4> PICK r : r = Whole(s)'
        OBVIOUS
      <4>1. PICK f \in [DOMAIN r -> DOMAIN q] : /\ \A i \in DOMAIN r : r[i] = q[f[i]]
                                                /\ \A i, j \in DOMAIN r : i < j => f[i] < f[j]
        BY <3>1 DEF Thinned
      <4>2. \A i \in DOMAIN r : f[i] \in DOMAIN q /\ r[i] = q[f[i]]
        BY <4>1
      <4>3. Ordered(q)
        BY <3>2
      <4>4. Ordered(r)
        BY <4>1, <4>2, <4>3 DEF Ordered
      <4> QED BY <4>2, <4>4
    <3>4. Stamped(s)'
      <4> SUFFICES ASSUME NEW i \in DOMAIN Whole(s)'
                   PROVE  LET p == Whole(s)'[i].from IN
                            /\ Whole(s)'[i].n <= sent'[p]
                            /\ \A k \in next'[p] .. Len(copy'[p]) :
                                 next'[p] > 0 /\ copy'[p][k] = s => Whole(s)'[i].n < sent'[p]
        BY DEF Stamped
      <4>1. PICK j \in DOMAIN Whole(s) : Whole(s)'[i] = Whole(s)[j]
        BY <3>3
      <4>2. sent' = sent /\ next' = next /\ copy' = copy
        BY <2>1 DEF publishing
      <4> HIDE DEF Whole
      <4> QED BY <3>2, <4>1, <4>2 DEF Stamped
    <3> QED BY <3>3, <3>4
  <2>3. Copies'
    BY <2>1 DEF OrderInv, Copies, publishing
  <2> QED BY <2>2, <2>3 DEF OrderInv
<1>2. ASSUME NEW p \in Publishers, PublishBegin(p) PROVE OrderInv'
  <2>1. /\ \A s \in Subs : Whole(s)' = Whole(s)
        /\ sent' = [sent EXCEPT ![p] = @ + 1]
        /\ offered' = [offered EXCEPT ![p] = {}]
        /\ \/ copy' = [copy EXCEPT ![p] = subscribers] /\ next' = [next EXCEPT ![p] = 1]
           \/ UNCHANGED <<copy, next>>
    <3>1. UNCHANGED <<worker, ch, hold, dispatch, received>>
      BY <1>2 DEF PublishBegin, channels
    <3>2. \A s \in Subs : Whole(s)' = Whole(s)
      BY <3>1, PipelineFrame DEF Whole
    <3> QED BY <1>2, <3>2 DEF PublishBegin
  <2>2. ~ Busy(p)
    BY <1>2 DEF PublishBegin
  <2>3. \A q \in Publishers : sent'[q] = IF q = p THEN sent[q] + 1 ELSE sent[q]
    BY <1>0, <2>1
  <2>4. \A q \in Publishers \ {p} : copy'[q] = copy[q] /\ next'[q] = next[q] /\ offered'[q] = offered[q]
    BY <1>0, <2>1
  <2>5. ASSUME NEW s \in Subs PROVE Stamped(s)'
    <3>1. Stamped(s)
      BY DEF OrderInv
    <3> SUFFICES ASSUME NEW i \in DOMAIN Whole(s)
                 PROVE  LET q == Whole(s)[i].from IN
                          /\ Whole(s)[i].n <= sent'[q]
                          /\ \A k \in next'[q] .. Len(copy'[q]) :
                               next'[q] > 0 /\ copy'[q][k] = s => Whole(s)[i].n < sent'[q]
      BY <2>1 DEF Stamped
    <3> DEFINE e == Whole(s)[i]
    <3>2. e \in Events
      BY <1>a
    <3>3. e.from \in Publishers /\ e.n \in Nat
      BY <3>2, EventType
    <3>4. e.n <= sent[e.from]
      BY <3>1 DEF Stamped
    <3>5. \A k \in next[e.from] .. Len(copy[e.from]) :
            next[e.from] > 0 /\ copy[e.from][k] = s => e.n < sent[e.from]
      BY <3>1 DEF Stamped
    <3> HIDE DEF e
    <3> PICK q \in Publishers : q = e.from
      BY <3>3
    <3>6. CASE q = p
      <4>1. e.n < sent'[q] /\ e.n <= sent'[q]
        BY <1>0, <2>3, <3>3, <3>4, <3>6
      <4> QED BY <4>1 DEF e
    <3>7. CASE q # p
      <4>1. sent'[q] = sent[q] /\ copy'[q] = copy[q] /\ next'[q] = next[q]
        BY <2>3, <2>4, <3>7
      <4> QED BY <3>4, <3>5, <4>1, Zenon DEF e
    <3> QED BY <3>6, <3>7
  <2>6. Copies'
    <3>1. ASSUME NEW q \in Publishers
          PROVE  /\ Distinct(copy[q])' /\ next'[q] <= Len(copy'[q])
                 /\ \A k \in DOMAIN copy'[q] : k < next'[q] => copy'[q][k] \in offered'[q]
      <4>0. /\ Distinct(copy[q]) /\ next[q] <= Len(copy[q])
            /\ \A k \in DOMAIN copy[q] : k < next[q] => copy[q][k] \in offered[q]
        BY DEF OrderInv, Copies
      <4>1. CASE q # p
        BY <2>4, <4>0, <4>1 DEF Distinct
      <4>2. CASE q = p /\ copy' = [copy EXCEPT ![p] = subscribers] /\ next' = [next EXCEPT ![p] = 1]
        <5>1. /\ copy'[q] = subscribers /\ next'[q] = 1
              /\ DOMAIN subscribers = 1 .. Len(subscribers) /\ Len(subscribers) \in Nat
          BY <1>0, <4>2, LenProperties
        <5>2. CASE subscribers # << >>
          <6>1. Len(subscribers) > 0
            BY <1>0, <5>2, EmptySeq
          <6> QED BY <5>1, <6>1 DEF Lifecycle, Distinct
        <5>3. CASE subscribers = << >>
          <6>1. next' = next
            BY <1>2, <5>3 DEF PublishBegin
          <6>2. next[p] = 1 /\ DOMAIN copy[p] = 1 .. Len(copy[p]) /\ Len(copy[p]) \in Nat
            BY <1>0, <4>2, <5>1, <6>1, LenProperties
          <6> QED BY <2>2, <4>0, <4>2, <6>2 DEF Busy, Targets
        <5> QED BY <5>2, <5>3
      <4>3. CASE q = p /\ UNCHANGED <<copy, next>>
        <5>1. next[p] \in Nat /\ DOMAIN copy[p] = 1 .. Len(copy[p]) /\ Len(copy[p]) \in Nat
          BY <1>0, LenProperties
        <5>2. next[p] = 0
          BY <2>2, <4>0, <4>3, <5>1 DEF Busy, Targets
        <5> QED BY <4>0, <4>3, <5>1, <5>2 DEF Distinct
      <4> QED BY <2>1, <4>1, <4>2, <4>3
    <3> QED BY <3>1 DEF Copies
  <2>7. \A s \in Subs : Ordered(Whole(s))'
    BY <2>1 DEF OrderInv, Ordered
  <2> QED BY <2>5, <2>6, <2>7 DEF OrderInv

<1>3. ASSUME NEW p \in Publishers, PublishSend(p) PROVE OrderInv'
  <2>0. copy[p][next[p]] \in Subs
    BY <1>3, SendPipeline
  <2> PICK s \in Subs : s = copy[p][next[p]]
    BY <2>0
  <2> PICK e \in Events : e = Event(p)
    BY <1>3, SendPipeline
  <2>1. /\ Whole(s)' = Whole(s) \/ Whole(s)' = Append(Whole(s), e)
        /\ \A t \in Subs \ {s} : Whole(t)' = Whole(t)
    <3>1. received' = received
      BY <1>3 DEF PublishSend, Offer
    <3>2. \A t \in Subs \ {s} : Whole(t)' = Whole(t)
      BY <1>3, <3>1, SendPipeline DEF Whole
    <3>3. Pipeline(s)' = Pipeline(s) \/ Pipeline(s)' = Append(Pipeline(s), e)
      BY <1>3, SendPipeline
    <3>4. CASE Pipeline(s)' = Append(Pipeline(s), e)
      <4>1. \A a, q \in Seq(Events) : a \o Append(q, e) = Append(a \o q, e)
        <5> TAKE a, q \in Seq(Events)
        <5>1. Append(q, e) = q \o <<e>> /\ <<e>> \in Seq(Events) /\ a \o q \in Seq(Events)
          BY AppendIsConcat, ConcatProperties
        <5>2. Append(a \o q, e) = (a \o q) \o <<e>>
          BY <5>1, AppendIsConcat
        <5>3. a \o (q \o <<e>>) = (a \o q) \o <<e>>
          BY <5>1, ConcatAssociative
        <5> QED BY <5>1, <5>2, <5>3
      <4>2. received[s] \in Seq(Events) /\ Pipeline(s) \in Seq(Events)
        BY PipelineType
      <4>3. received[s] \o Append(Pipeline(s), e) = Append(received[s] \o Pipeline(s), e)
        BY <4>1, <4>2, Zenon
      <4> QED BY <3>1, <3>2, <3>4, <4>3, Zenon DEF Whole
    <3>5. CASE Pipeline(s)' = Pipeline(s)
      BY <3>1, <3>2, <3>5 DEF Whole
    <3> QED BY <3>3, <3>4, <3>5
  <2>2. /\ e.from = p /\ e.n = sent[p] /\ sent' = sent
        /\ offered' = [offered EXCEPT ![p] = @ \union {s}]
        /\ \/ next[p] < Len(copy[p]) /\ next' = [next EXCEPT ![p] = @ + 1] /\ copy' = copy
           \/ next' = [next EXCEPT ![p] = 0] /\ copy' = [copy EXCEPT ![p] = << >>]
    BY <1>3 DEF PublishSend, Offer, Event, Targets
  <2>3. next[p] \in DOMAIN copy[p] /\ DOMAIN copy[p] = 1 .. Len(copy[p]) /\ Len(copy[p]) \in Nat
    BY <1>0, <1>3, LenProperties DEF PublishSend, Busy, Targets
  <2>4. \A q \in Publishers \ {p} : copy'[q] = copy[q] /\ next'[q] = next[q] /\ offered'[q] = offered[q]
    BY <1>0, <2>2
  <2>5. /\ offered'[p] = offered[p] \union {s}
        /\ \/ next'[p] = next[p] + 1 /\ copy'[p] = copy[p] /\ next[p] < Len(copy[p])
           \/ next'[p] = 0 /\ copy'[p] = << >>
    BY <1>0, <2>2
  <2>6. Distinct(copy[p]) /\ \A k \in DOMAIN copy[p] : k < next[p] => copy[p][k] \in offered[p]
    BY DEF OrderInv, Copies
  <2>7. \A i \in DOMAIN Whole(s) : Whole(s)[i].from = p => Whole(s)[i].n < sent[p]
    <3>1. Stamped(s)
      BY DEF OrderInv
    <3>2. next[p] \in next[p] .. Len(copy[p]) /\ next[p] > 0 /\ copy[p][next[p]] = s
      BY <2>3
    <3> QED BY <3>1, <3>2 DEF Stamped
  <2>8. Ordered(Whole(s)')
    <3>1. Whole(s) \in Seq(Events) /\ Ordered(Whole(s))
      BY <1>0 DEF OrderInv
    <3>2. \A i \in DOMAIN Whole(s) : Whole(s)[i].from = e.from => Whole(s)[i].n < e.n
      BY <2>2, <2>7
    <3>3. Ordered(Append(Whole(s), e))
      BY <3>1, <3>2, OrderedAppend, Zenon
    <3> QED BY <2>1, <3>1, <3>3, Zenon
  \* The events that were there already.
  <2>9. ASSUME NEW t \in Subs, NEW i \in DOMAIN Whole(t)
        PROVE  LET q == Whole(t)[i].from IN
                 /\ Whole(t)[i].n <= sent'[q]
                 /\ \A k \in next'[q] .. Len(copy'[q]) :
                      next'[q] > 0 /\ copy'[q][k] = t => Whole(t)[i].n < sent'[q]
    <3> PICK q \in Publishers : q = Whole(t)[i].from
      BY <1>a, EventType
    <3>1. /\ Whole(t)[i].n <= sent[q]
          /\ \A k \in next[q] .. Len(copy[q]) :
               next[q] > 0 /\ copy[q][k] = t => Whole(t)[i].n < sent[q]
      BY DEF OrderInv, Stamped
    <3>2. CASE q # p
      BY <2>2, <2>4, <3>1, <3>2
    <3>3. CASE q = p /\ next'[p] = 0
      BY <2>2, <3>1, <3>3
    <3>4. CASE q = p /\ next'[p] = next[p] + 1 /\ copy'[p] = copy[p]
      <4>1. \A k \in next'[p] .. Len(copy'[p]) : k \in next[p] .. Len(copy[p]) /\ next[p] > 0
        BY <2>3, <3>4
      <4> QED BY <2>2, <3>1, <3>4, <4>1
    <3> QED BY <2>5, <3>2, <3>3, <3>4
  <2>10. ASSUME NEW t \in Subs PROVE Stamped(t)'
    <3>1. CASE Whole(t)' = Whole(t)
      BY <2>9, <3>1 DEF Stamped
    <3>2. CASE t = s /\ Whole(s)' = Append(Whole(s), e)
      <4>1. /\ DOMAIN Whole(s)' = 1 .. Len(Whole(s)) + 1 /\ DOMAIN Whole(s) = 1 .. Len(Whole(s))
            /\ \A i \in DOMAIN Whole(s) : Whole(s)'[i] = Whole(s)[i]
            /\ Whole(s)'[Len(Whole(s)) + 1] = e /\ Len(Whole(s)) \in Nat
        <5> PICK q \in Seq(Events) : q = Whole(s)
          BY <1>0
        <5>1. /\ DOMAIN Append(q, e) = 1 .. Len(q) + 1 /\ DOMAIN q = 1 .. Len(q)
              /\ \A i \in DOMAIN q : Append(q, e)[i] = q[i]
              /\ Append(q, e)[Len(q) + 1] = e /\ Len(q) \in Nat
          BY AppendProperties, LenProperties
        <5> QED BY <3>2, <5>1
      <4>2. /\ e.n <= sent'[p]
            /\ \A k \in next'[p] .. Len(copy'[p]) : ~ (next'[p] > 0 /\ copy'[p][k] = s)
        <5>1. e.n <= sent'[p]
          BY <1>0, <2>2
        <5>2. ASSUME NEW k \in next'[p] .. Len(copy'[p]), next'[p] > 0, copy'[p][k] = s PROVE FALSE
          <6>1. k \in next[p] + 1 .. Len(copy[p]) /\ copy[p][k] = copy[p][next[p]]
            BY <2>5, <5>2
          <6> QED BY <2>3, <2>6, <6>1 DEF Distinct
        <5> QED BY <5>1, <5>2
      <4>3. ASSUME NEW i \in DOMAIN Whole(s)'
            PROVE  LET q == Whole(s)'[i].from IN
                     /\ Whole(s)'[i].n <= sent'[q]
                     /\ \A k \in next'[q] .. Len(copy'[q]) :
                          next'[q] > 0 /\ copy'[q][k] = s => Whole(s)'[i].n < sent'[q]
        <5> DEFINE Bounded(x) == /\ x.n <= sent'[x.from]
                                 /\ \A k \in next'[x.from] .. Len(copy'[x.from]) :
                                      next'[x.from] > 0 /\ copy'[x.from][k] = s
                                        => x.n < sent'[x.from]
        <5>1. \A j \in DOMAIN Whole(s) : Bounded(Whole(s)[j])
          BY <2>9
        <5>2. Bounded(e)
          <6>1. e.from = p
            BY <2>2
          <6> QED BY <4>2, <6>1, Zenon
        <5>3. i \in DOMAIN Whole(s) \/ i = Len(Whole(s)) + 1
          <6>1. PICK m \in Nat : m = Len(Whole(s))
            BY <4>1
          <6>2. i \in 1 .. m + 1 /\ DOMAIN Whole(s) = 1 .. m
            BY <4>1, <6>1
          <6>3. i \in 1 .. m \/ i = m + 1
            BY <6>2
          <6> QED BY <6>1, <6>2, <6>3, Zenon
        <5> HIDE DEF Bounded
        <5>4. Bounded(Whole(s)'[i])
          <6>1. CASE i \in DOMAIN Whole(s)
            <7>1. Whole(s)'[i] = Whole(s)[i]
              BY <4>1, <6>1, Zenon
            <7> QED BY <5>1, <6>1, <7>1, Zenon
          <6>2. CASE i = Len(Whole(s)) + 1
            <7>1. Whole(s)'[i] = e
              BY <4>1, <6>2, Zenon
            <7> QED BY <5>2, <7>1, Zenon
          <6> QED BY <5>3, <6>1, <6>2
        <5> QED BY <5>4 DEF Bounded
      <4> QED BY <3>2, <4>3 DEF Stamped
    <3> QED BY <2>1, <3>1, <3>2
  <2>11. Copies'
    <3>1. ASSUME NEW q \in Publishers
          PROVE  /\ Distinct(copy[q])' /\ next'[q] <= Len(copy'[q])
                 /\ \A k \in DOMAIN copy'[q] : k < next'[q] => copy'[q][k] \in offered'[q]
      <4>1. CASE q # p
        BY <2>4, <4>1 DEF OrderInv, Copies, Distinct
      <4>2. CASE q = p /\ next'[p] = next[p] + 1 /\ copy'[p] = copy[p] /\ next[p] < Len(copy[p])
        <5>1. \A k \in DOMAIN copy[p] : k < next[p] + 1 => k < next[p] \/ k = next[p]
          BY <2>3
        <5>2. next[p] + 1 <= Len(copy[p])
          BY <2>3, <4>2
        <5> QED BY <2>5, <2>6, <4>2, <5>1, <5>2 DEF Distinct
      <4>3. CASE q = p /\ next'[p] = 0 /\ copy'[p] = << >>
        BY <4>3 DEF Distinct
      <4> QED BY <2>5, <4>1, <4>2, <4>3
    <3> QED BY <3>1 DEF Copies
  <2>12. \A t \in Subs : Ordered(Whole(t))'
    BY <2>1, <2>8 DEF OrderInv, Ordered
  <2> QED BY <2>10, <2>11, <2>12 DEF OrderInv
<1>4. CASE UNCHANGED vars
  <2>1. UNCHANGED <<worker, ch, hold, dispatch, received, sent, next, copy, offered>>
    BY <1>4 DEF vars, channels, publishing, history
  <2>2. \A s \in Subs : Whole(s)' = Whole(s)
    BY <2>1, PipelineFrame DEF Whole
  <2> QED BY <2>1, <2>2 DEF OrderInv, Ordered, Stamped, Copies, Distinct
<1> QED BY <1>1, <1>2, <1>3, <1>4 DEF Next

LEMMA OrderInvariant == Spec => []OrderInv
<1>1. Init => OrderInv
  <2> SUFFICES ASSUME Init PROVE OrderInv
    OBVIOUS
  <2>1. ASSUME NEW s \in Subs PROVE Whole(s) = << >>
    <3>1. Pipeline(s) = << >> \o << >> \o << >> /\ received[s] = << >>
      BY DEF Init, Pipeline
    <3>2. << >> \o << >> = << >>
      BY EmptySeq, ConcatEmptySeq
    <3> QED BY <3>1, <3>2 DEF Whole
  <2>2. Copies
    BY EmptySeq DEF Init, Copies, Distinct
  <2> QED BY <2>1, <2>2 DEF OrderInv, Ordered, Stamped
<1> QED BY <1>1, OrderStep, TypeCorrect, LifecycleInvariant, PTL DEF Spec

\* The copy Publish takes is used after the lock is gone, and still a publication
\* is offered to all who stay, and comes to each in order and once.
THEOREM PublicationsArriveCorrect == Spec => PublicationsArrive
<1>1. OrderInv => InOrder
  BY DEF OrderInv, InOrder, Ordered, Whole
<1>2. ASSUME TypeOK, OrderInv, [Next]_vars
      PROVE  [\A p \in Publishers :
                Busy(p) /\ ~ Busy(p)' =>
                  \A s \in ToSet(copy[p]) \intersect ToSet(subscribers) : s \in offered'[p]]_vars
  <2> SUFFICES ASSUME NEW p \in Publishers, Busy(p), ~ Busy(p)', NEW s \in ToSet(copy[p])
               PROVE  s \in offered'[p]
    OBVIOUS
  <2>0. /\ next \in [Publishers -> Nat] /\ copy \in [Publishers -> Seq(Subs)]
        /\ offered \in [Publishers -> SUBSET Subs]
    BY <1>2 DEF TypeOK
  <2>1. PublishSend(p)
    <3>1. ~ UNCHANGED <<copy, next>>
      BY DEF Busy, Targets
    <3>2. PICK q \in Publishers : PublishBegin(q) \/ PublishSend(q)
      BY <1>2, <3>1 DEF Next, Subscribe, Run, WorkerTake, WorkerForward, WorkerDrop, WorkerStop,
                        Receive, Unsubscribe, vars, publishing
    <3>3. CASE PublishBegin(q)
      <4>1. q # p
        BY <3>3 DEF PublishBegin
      <4>2. copy'[p] = copy[p] /\ next'[p] = next[p]
        BY <2>0, <3>3, <4>1 DEF PublishBegin
      <4> QED BY <4>2 DEF Busy, Targets
    <3>4. CASE PublishSend(q) /\ q # p
      <4>1. copy'[p] = copy[p] /\ next'[p] = next[p]
        BY <2>0, <3>4 DEF PublishSend, Offer
      <4> QED BY <4>1 DEF Busy, Targets
    <3> QED BY <3>2, <3>3, <3>4
  <2>2. next[p] \in DOMAIN copy[p] /\ DOMAIN copy[p] = 1 .. Len(copy[p]) /\ Len(copy[p]) \in Nat
    BY <2>0, LenProperties DEF Busy, Targets
  <2>3. offered'[p] = offered[p] \union {copy[p][next[p]]}
    BY <2>0, <2>1 DEF PublishSend, Offer, Targets
  <2>4. next[p] = Len(copy[p])
    <3>1. CASE next[p] < Len(copy[p]) /\ next' = [next EXCEPT ![p] = @ + 1] /\ UNCHANGED copy
      <4>1. next'[p] = next[p] + 1 /\ copy'[p] = copy[p]
        BY <2>0, <3>1
      <4> QED BY <2>2, <3>1, <4>1 DEF Busy, Targets
    <3> QED BY <2>1, <3>1 DEF PublishSend, Offer, Targets
  <2>5. PICK k \in DOMAIN copy[p] : s = copy[p][k]
    BY DEF ToSet
  <2>6. k < next[p] => copy[p][k] \in offered[p]
    BY <1>2 DEF OrderInv, Copies
  <2> QED BY <2>2, <2>3, <2>4, <2>5, <2>6
<1>3. Spec => [][\A p \in Publishers :
                   Busy(p) /\ ~ Busy(p)' =>
                     \A s \in ToSet(copy[p]) \intersect ToSet(subscribers) : s \in offered'[p]]_vars
  BY <1>2, TypeCorrect, OrderInvariant, PTL DEF Spec
<1> QED BY <1>1, <1>3, OrderInvariant, PTL DEF PublicationsArrive, FanOutComplete
-----------------------------------------------------------------------------
(* Publish ends, and what it still sends to who has left                   *)

\* The steps a Publish in progress has left: one per subscriber of its copy.
ToSend(p) == IF Busy(p) THEN Len(copy[p]) - next[p] + 1 ELSE 0

\* The loop of p advances by p's own send and by nothing else.
Stays(p) == copy'[p] = copy[p] /\ next'[p] = next[p]
Advances(p) ==
  next[p] < Len(copy[p]) /\ copy'[p] = copy[p] /\ next'[p] = next[p] + 1
Ends(p) == next[p] = Len(copy[p]) /\ ~ Busy(p)'

LEMMA LoopStep ==
  ASSUME TypeOK, NEW p \in Publishers, Busy(p), [Next]_vars
  PROVE  IF PublishSend(p) THEN Advances(p) \/ Ends(p) ELSE Stays(p)
<1>0. next \in [Publishers -> Nat] /\ copy \in [Publishers -> Seq(Subs)]
  BY DEF TypeOK
<1>1. ASSUME UNCHANGED <<copy, next>> PROVE Stays(p)
  BY <1>1 DEF Stays
<1>2. ASSUME NEW q \in Publishers, PublishBegin(q) PROVE Stays(p)
  <2>1. q # p
    BY <1>2 DEF PublishBegin
  <2> QED BY <1>0, <1>2, <2>1 DEF PublishBegin, Stays
<1>3. ASSUME NEW q \in Publishers, PublishSend(q), q # p PROVE Stays(p)
  <2>1. \/ UNCHANGED copy \/ copy' = [copy EXCEPT ![q] = << >>]
    BY <1>3 DEF PublishSend, Offer
  <2>2. \/ next' = [next EXCEPT ![q] = @ + 1] \/ next' = [next EXCEPT ![q] = 0]
    BY <1>3 DEF PublishSend, Offer
  <2>3. copy'[p] = copy[p]
    BY <1>0, <1>3, <2>1
  <2>4. next'[p] = next[p]
    BY <1>0, <1>3, <2>2
  <2> QED BY <2>3, <2>4 DEF Stays
<1>4. ASSUME PublishSend(p) PROVE Advances(p) \/ Ends(p)
  <2>1. CASE next[p] < Len(copy[p]) /\ next' = [next EXCEPT ![p] = @ + 1] /\ UNCHANGED copy
    BY <1>0, <2>1 DEF Advances
  <2>2. CASE next[p] = Len(copy[p]) /\ next' = [next EXCEPT ![p] = 0]
                                    /\ copy' = [copy EXCEPT ![p] = << >>]
    <3>1. copy'[p] = << >>
      BY <1>0, <2>2
    <3>2. DOMAIN copy'[p] = {}
      BY <3>1, EmptySeq
    <3> QED BY <2>2, <3>2 DEF Ends, Busy, Targets
  <2> QED BY <1>4, <2>1, <2>2 DEF PublishSend, Offer, Targets
<1>5. UNCHANGED <<copy, next>> \/ \E q \in Publishers : PublishBegin(q) \/ PublishSend(q)
  BY DEF Next, Subscribe, Run, WorkerTake, WorkerForward, WorkerDrop, WorkerStop,
         Receive, Unsubscribe, vars, publishing
<1>6. CASE ~ PublishSend(p)
  BY <1>1, <1>2, <1>3, <1>5, <1>6
<1> QED BY <1>4, <1>6

LEMMA ToSendType ==
  ASSUME TypeOK, NEW p \in Publishers, Busy(p)
  PROVE  /\ next[p] \in 1 .. Len(copy[p]) /\ Len(copy[p]) \in Nat
         /\ ToSend(p) = Len(copy[p]) - next[p] + 1
<1>1. copy[p] \in Seq(Subs) /\ next[p] \in DOMAIN copy[p]
  BY DEF TypeOK, Busy, Targets
<1>2. DOMAIN copy[p] = 1 .. Len(copy[p]) /\ Len(copy[p]) \in Nat
  BY <1>1, LenProperties
<1> QED BY <1>1, <1>2 DEF ToSend

\* A Publish in progress takes one step for each subscriber of its copy and is
\* over: no step of anyone else, a Subscribe or another Publish included, gives
\* it more to do ("Publish() non-bloquant", bus.go: the copy, the default case).
PublishIsBounded ==
  [][\A p \in Publishers :
       Busy(p) => IF PublishSend(p) THEN ToSend(p) > 0 /\ ToSend(p)' = ToSend(p) - 1
                                    ELSE ToSend(p)' = ToSend(p)]_vars

\* For any number of subscribers and publishers, a Publish has one step for each
\* subscriber it copied and no more (Publish, bus.go).
THEOREM PublishIsBoundedCorrect == Spec => PublishIsBounded
<1>1. ASSUME TypeOK, [Next]_vars, NEW p \in Publishers, Busy(p)
      PROVE  IF PublishSend(p) THEN ToSend(p) > 0 /\ ToSend(p)' = ToSend(p) - 1
                               ELSE ToSend(p)' = ToSend(p)
  <2>1. /\ next[p] \in 1 .. Len(copy[p]) /\ Len(copy[p]) \in Nat
        /\ ToSend(p) = Len(copy[p]) - next[p] + 1
    BY <1>1, ToSendType
  <2>2. CASE ~ PublishSend(p) /\ Stays(p)
    BY <2>2 DEF Stays, ToSend, Busy, Targets
  <2>3. CASE PublishSend(p) /\ Advances(p)
    <3>1. next'[p] = next[p] + 1 /\ copy'[p] = copy[p] /\ next[p] < Len(copy[p])
      BY <2>3 DEF Advances
    <3>2. DOMAIN copy[p] = 1 .. Len(copy[p])
      BY <1>1, LenProperties DEF TypeOK
    <3>3. next'[p] \in DOMAIN copy'[p]
      <4>1. next[p] + 1 \in 1 .. Len(copy[p])
        BY <2>1, <3>1
      <4> QED BY <3>1, <3>2, <4>1
    <3>4. ToSend(p)' = Len(copy[p]) - (next[p] + 1) + 1
      BY <3>1, <3>3 DEF ToSend, Busy, Targets
    <3> QED BY <2>1, <2>3, <3>4
  <2>4. CASE PublishSend(p) /\ Ends(p)
    <3>1. ToSend(p) = 1 /\ ToSend(p)' = 0
      BY <2>1, <2>4 DEF Ends, ToSend
    <3> QED BY <2>4, <3>1
  <2> QED BY <1>1, <2>2, <2>3, <2>4, LoopStep
<1>2. TypeOK /\ [Next]_vars
        => [\A p \in Publishers :
              Busy(p) => IF PublishSend(p) THEN ToSend(p) > 0 /\ ToSend(p)' = ToSend(p) - 1
                                           ELSE ToSend(p)' = ToSend(p)]_vars
  BY <1>1
<1> QED BY <1>2, TypeCorrect, PTL DEF Spec, PublishIsBounded

\* The calls of Publish that copied the list before s left it and have yet to
\* come to s.
Late(s) == {p \in Publishers : Busy(p) /\ \E k \in next[p] .. Len(copy[p]) : copy[p][k] = s}

\* Once Unsubscribe has returned, s is handed at most one more event by each
\* Publish that was then under way, and none by a Publish that begins later.
FewLateEvents ==
  [][\A s \in Subs :
       quit[s] => /\ Late(s)' \subseteq Late(s)
                  /\ \/ accepted'[s] = accepted[s]
                     \/ /\ accepted'[s] = accepted[s] + 1
                        /\ \E p \in Late(s) : p \notin Late(s)']_vars

LEMMA LateShrinks ==
  ASSUME TypeOK, Lifecycle, [Next]_vars, NEW s \in Subs, quit[s], NEW p \in Late(s)'
  PROVE  p \in Late(s)
<1>0. /\ p \in Publishers /\ next \in [Publishers -> Nat] /\ copy \in [Publishers -> Seq(Subs)]
      /\ subscribers \in Seq(Subs)
  BY DEF TypeOK, Late
<1>1. PICK k \in next'[p] .. Len(copy'[p]) : copy'[p][k] = s
  BY DEF Late
<1>2. Busy(p)'
  BY DEF Late
<1>3. CASE Busy(p)
  <2>1. CASE Stays(p)
    BY <1>0, <1>1, <1>3, <2>1 DEF Stays, Late
  <2>2. CASE Advances(p)
    <3>1. copy'[p] = copy[p] /\ next'[p] = next[p] + 1
      BY <2>2 DEF Advances
    <3>2. next[p] \in Nat /\ Len(copy[p]) \in Nat
      BY <1>0, LenProperties
    <3>3. k \in next[p] .. Len(copy[p]) /\ copy[p][k] = s
      BY <1>1, <3>1, <3>2
    <3> QED BY <1>0, <1>3, <3>3 DEF Late
  <2> QED BY <1>0, <1>2, <1>3, <2>1, <2>2, LoopStep DEF Ends
<1>4. CASE ~ Busy(p)
  <2>1. ~ UNCHANGED <<copy, next>>
    BY <1>2, <1>4 DEF Busy, Targets
  <2>2. PICK q \in Publishers : PublishBegin(q) \/ PublishSend(q)
    BY <2>1 DEF Next, Subscribe, Run, WorkerTake, WorkerForward, WorkerDrop, WorkerStop,
                Receive, Unsubscribe, vars, publishing
  <2>3. CASE q # p
    <3>1. copy'[p] = copy[p] /\ next'[p] = next[p]
      <4>1. CASE PublishBegin(q)
        BY <1>0, <2>3, <4>1 DEF PublishBegin
      <4>2. CASE PublishSend(q)
        BY <1>0, <2>3, <4>2 DEF PublishSend, Offer
      <4> QED BY <2>2, <4>1, <4>2
    <3> QED BY <1>2, <1>4, <3>1 DEF Busy, Targets
  <2>4. CASE q = p
    <3>1. PublishBegin(p)
      BY <1>4, <2>2, <2>4 DEF PublishSend
    <3>2. copy' = [copy EXCEPT ![p] = subscribers] /\ next' = [next EXCEPT ![p] = 1]
      BY <2>1, <3>1 DEF PublishBegin
    <3>3. copy'[p] = subscribers /\ next'[p] = 1
      BY <1>0, <3>2
    <3>4. k \in DOMAIN subscribers /\ subscribers[k] = s
      BY <1>0, <1>1, <3>3, LenProperties
    <3> QED BY <3>4 DEF Lifecycle
  <2> QED BY <2>3, <2>4
<1> QED BY <1>3, <1>4

\* What still reaches a subscriber that has left is bounded by the calls of Publish
\* that were under way (Publish and Unsubscribe, bus.go).
THEOREM FewLateEventsCorrect == Spec => FewLateEvents
<1>1. ASSUME TypeOK, Lifecycle, Copies, [Next]_vars, NEW s \in Subs, quit[s],
             accepted'[s] # accepted[s]
      PROVE  accepted'[s] = accepted[s] + 1 /\ \E p \in Late(s) : p \notin Late(s)'
  <2>0. accepted \in [Subs -> Nat]
    BY <1>1 DEF TypeOK
  <2>1. PICK p \in Publishers : PublishSend(p)
    BY <1>1 DEF Next, Subscribe, Run, WorkerTake, WorkerForward, WorkerDrop, WorkerStop,
                Receive, Unsubscribe, PublishBegin, vars, history
  <2>2. Busy(p)
    BY <2>1 DEF PublishSend
  <2>3. PICK t \in Subs : t = copy[p][next[p]]
    BY <1>1, <2>2, SendTarget
  <2>4. UNCHANGED accepted \/ accepted' = [accepted EXCEPT ![t] = @ + 1]
    BY <2>1, <2>3 DEF PublishSend, Targets
  <2>5. t = s /\ accepted'[s] = accepted[s] + 1
    BY <1>1, <2>0, <2>4
  <2>6. next[p] \in 1 .. Len(copy[p]) /\ Len(copy[p]) \in Nat
    BY <1>1, <2>2, ToSendType
  <2>7. p \in Late(s)
    <3>1. next[p] \in next[p] .. Len(copy[p]) /\ copy[p][next[p]] = s
      BY <2>3, <2>5, <2>6
    <3> QED BY <2>2, <3>1 DEF Late
  <2>8. p \notin Late(s)'
    <3> SUFFICES ASSUME p \in Late(s)' PROVE FALSE
      OBVIOUS
    <3>1. Busy(p)'
      BY DEF Late
    <3>2. PICK k \in next'[p] .. Len(copy'[p]) : copy'[p][k] = s
      BY DEF Late
    <3>3. Advances(p)
      BY <1>1, <2>1, <2>2, <3>1, LoopStep DEF Ends
    <3>4. copy'[p] = copy[p] /\ next'[p] = next[p] + 1
      BY <3>3 DEF Advances
    <3>5. k \in 1 .. Len(copy[p]) /\ k # next[p] /\ copy[p][k] = s
      BY <2>6, <3>2, <3>4
    <3>6. DOMAIN copy[p] = 1 .. Len(copy[p])
      BY <1>1, LenProperties DEF TypeOK
    <3>7. copy[p][k] = copy[p][next[p]] => k = next[p]
      BY <1>1, <2>6, <3>5, <3>6 DEF Copies, Distinct
    <3> QED BY <2>3, <2>5, <3>5, <3>7
  <2> QED BY <2>5, <2>7, <2>8
<1>2. ASSUME TypeOK, Lifecycle, Copies, [Next]_vars
      PROVE  [\A s \in Subs :
                quit[s] => /\ Late(s)' \subseteq Late(s)
                           /\ \/ accepted'[s] = accepted[s]
                              \/ /\ accepted'[s] = accepted[s] + 1
                                 /\ \E p \in Late(s) : p \notin Late(s)']_vars
  <2> SUFFICES ASSUME NEW s \in Subs, quit[s]
               PROVE  /\ Late(s)' \subseteq Late(s)
                      /\ \/ accepted'[s] = accepted[s]
                         \/ /\ accepted'[s] = accepted[s] + 1
                            /\ \E p \in Late(s) : p \notin Late(s)'
    OBVIOUS
  <2>1. Late(s)' \subseteq Late(s)
    BY <1>2, LateShrinks
  <2>2. \/ accepted'[s] = accepted[s]
        \/ accepted'[s] = accepted[s] + 1 /\ \E p \in Late(s) : p \notin Late(s)'
    BY <1>1, <1>2
  <2> QED BY <2>1, <2>2
<1>3. OrderInv => Copies
  BY DEF OrderInv
<1> QED BY <1>2, <1>3, TypeCorrect, LifecycleInvariant, OrderInvariant, PTL
        DEF Spec, FewLateEvents
=============================================================================
