--------------------------------- MODULE Bus ---------------------------------
(***************************************************************************)
(* core/bus.go: publish/subscribe with one dispatch goroutine per          *)
(* subscriber.                                                             *)
(*                                                                         *)
(* Publish copies the list of subscribers under the read lock, releases    *)
(* the lock and then offers the event to each subscriber of the copy       *)
(* without ever blocking.  The goroutine of a subscriber moves events from *)
(* its dispatch channel (capacity 2 * BufferSize) to the channel its       *)
(* consumer reads (capacity BufferSize) and drops what does not fit.       *)
(* Unsubscribe takes the subscriber off the list and tells its goroutine   *)
(* to close the channel.                                                   *)
(*                                                                         *)
(* Each step below is what a goroutine does between two points where       *)
(* another one can be seen: a critical section of Bus.mu, or one channel   *)
(* operation.                                                              *)
(***************************************************************************)
EXTENDS Naturals, Sequences, FiniteSets, SequencesExt

CONSTANTS
  Subs,         \* identities of the *subscriber values Subscribe creates
  Names,        \* names passed to Subscribe and Unsubscribe
  NameOf,       \* NameOf[s]: subscriber.name, never assigned again
  Publishers,   \* goroutines that call Publish
  BufferSize,   \* NewBus(bufferSize)
  MaxPublished  \* bound: MaxPublished[p] calls of Publish by p

ASSUME BufferSizeAssumption == BufferSize \in Nat \ {0}
ASSUME NameOfAssumption == NameOf \in [Subs -> Names]
ASSUME MaxPublishedAssumption == MaxPublished \in [Publishers -> Nat]

VARIABLES
  subscribers,  \* Bus.subscribers, the slice
  worker,       \* worker[s]: goroutine run(): "none" before Subscribe, "select", "done"
  hold,         \* hold[s]: the event run() took from dispatch and has not disposed of
  quit,         \* quit[s]: subscriber.quit is closed
  closed,       \* closed[s]: subscriber.ch is closed
  dispatch,     \* dispatch[s]: content of subscriber.dispatch
  ch,           \* ch[s]: content of subscriber.ch
  sent,         \* sent[p]: calls of Publish by p so far; the k-th one publishes event k
  next,         \* next[p]: index in copy[p] of the next subscriber to offer the event to,
                \* 0 when p is not in Publish
  copy,         \* copy[p]: p's local slice subs
  received,     \* history: what the consumer of s has read
  offered,      \* history: subscribers p has offered its current event to
  accepted,     \* history: accepted[s] counts the events put into dispatch[s]
  lost          \* history: lost[s] counts the events run() dropped

channels == <<worker, hold, quit, closed, dispatch, ch>>
publishing == <<sent, copy, next>>
history == <<received, offered, accepted, lost>>
vars == <<subscribers, channels, publishing, history>>

Events == UNION {[from : {p}, n : 1 .. MaxPublished[p]] : p \in Publishers}

Event(p) == [from |-> p, n |-> sent[p]]

\* The subscribers Publish ranges over: the copy, not the live slice, which
\* Unsubscribe compacts in place.
LiveTargets(p) == subscribers
Targets(p) == copy[p]

Busy(p) == next[p] \in DOMAIN Targets(p)

DispatchCap == 2 * BufferSize

Init ==
  /\ subscribers = << >>
  /\ worker = [s \in Subs |-> "none"]
  /\ hold = [s \in Subs |-> << >>]
  /\ quit = [s \in Subs |-> FALSE]
  /\ closed = [s \in Subs |-> FALSE]
  /\ dispatch = [s \in Subs |-> << >>]
  /\ ch = [s \in Subs |-> << >>]
  /\ sent = [p \in Publishers |-> 0]
  /\ copy = [p \in Publishers |-> << >>]
  /\ next = [p \in Publishers |-> 0]
  /\ received = [s \in Subs |-> << >>]
  /\ offered = [p \in Publishers |-> {}]
  /\ accepted = [s \in Subs |-> 0]
  /\ lost = [s \in Subs |-> 0]

-----------------------------------------------------------------------------
(* Subscribe and Unsubscribe, each one critical section of Bus.mu          *)

Subscribe(s) ==
  /\ worker[s] = "none"
  /\ worker' = [worker EXCEPT ![s] = "select"]
  /\ subscribers' = Append(subscribers, s)
  /\ UNCHANGED <<hold, quit, closed, dispatch, ch, publishing, history>>

\* The first subscriber of that name leaves the list and its quit is closed.
IsFirstNamed(i, nm) ==
  /\ NameOf[subscribers[i]] = nm
  /\ \A j \in 1 .. i - 1 : NameOf[subscribers[j]] # nm

\* Mutant: Unsubscribe closes the consumer's channel itself.
UnsubscribeClosesChannel(nm) ==
  \E i \in DOMAIN subscribers :
    /\ IsFirstNamed(i, nm)
    /\ quit' = [quit EXCEPT ![subscribers[i]] = TRUE]
    /\ closed' = [closed EXCEPT ![subscribers[i]] = TRUE]
    /\ subscribers' = RemoveAt(subscribers, i)
    /\ UNCHANGED <<worker, hold, dispatch, ch, publishing, history>>

Unsubscribe(nm) ==
  \E i \in DOMAIN subscribers :
    /\ IsFirstNamed(i, nm)
    /\ quit' = [quit EXCEPT ![subscribers[i]] = TRUE]
    /\ subscribers' = RemoveAt(subscribers, i)
    /\ UNCHANGED <<worker, hold, closed, dispatch, ch, publishing, history>>

-----------------------------------------------------------------------------
(* Publish: copy the list under the read lock, then one non-blocking send  *)
(* per subscriber of the copy                                              *)

PublishBegin(p) ==
  /\ ~ Busy(p)
  /\ sent[p] < MaxPublished[p]
  /\ sent' = [sent EXCEPT ![p] = @ + 1]
  /\ offered' = [offered EXCEPT ![p] = {}]
  /\ \/ /\ subscribers # << >>
        /\ copy' = [copy EXCEPT ![p] = subscribers]
        /\ next' = [next EXCEPT ![p] = 1]
     \/ /\ subscribers = << >>
        /\ UNCHANGED <<copy, next>>
  /\ UNCHANGED <<subscribers, channels, received, accepted, lost>>

\* The loop advances; after the last subscriber Publish returns and its locals
\* are gone.
Offer(p, s) ==
  /\ offered' = [offered EXCEPT ![p] = @ \union {s}]
  /\ \/ /\ next[p] < Len(Targets(p))
        /\ next' = [next EXCEPT ![p] = @ + 1]
        /\ UNCHANGED copy
     \/ /\ next[p] = Len(Targets(p))
        /\ next' = [next EXCEPT ![p] = 0]
        /\ copy' = [copy EXCEPT ![p] = << >>]
  /\ UNCHANGED <<subscribers, worker, hold, quit, closed, ch, sent, received, lost>>

\* Mutant: a plain send, which waits for room in dispatch.
BlockingSend(p) ==
  /\ Busy(p)
  /\ LET s == Targets(p)[next[p]] IN
       /\ Len(dispatch[s]) < DispatchCap
       /\ Offer(p, s)
       /\ dispatch' = [dispatch EXCEPT ![s] = Append(@, Event(p))]
       /\ accepted' = [accepted EXCEPT ![s] = @ + 1]

PublishSend(p) ==
  /\ Busy(p)
  /\ LET s == Targets(p)[next[p]] IN
       /\ Offer(p, s)
       /\ \/ /\ Len(dispatch[s]) < DispatchCap
             /\ dispatch' = [dispatch EXCEPT ![s] = Append(@, Event(p))]
             /\ accepted' = [accepted EXCEPT ![s] = @ + 1]
          \/ /\ Len(dispatch[s]) >= DispatchCap     \* default: WARN, event ignored
             /\ UNCHANGED <<dispatch, accepted>>

-----------------------------------------------------------------------------
(* subscriber.run: the dispatch goroutine                                  *)

\* Mutant: the youngest event is taken first.
WorkerTakesLast(s) ==
  /\ worker[s] = "select"
  /\ hold[s] = << >>
  /\ dispatch[s] # << >>
  /\ hold' = [hold EXCEPT ![s] = <<Last(dispatch[s])>>]
  /\ dispatch' = [dispatch EXCEPT ![s] = Front(@)]
  /\ UNCHANGED <<subscribers, worker, quit, closed, ch, publishing, history>>

\* case e := <-s.dispatch
WorkerTake(s) ==
  /\ worker[s] = "select"
  /\ hold[s] = << >>
  /\ dispatch[s] # << >>
  /\ hold' = [hold EXCEPT ![s] = <<Head(dispatch[s])>>]
  /\ dispatch' = [dispatch EXCEPT ![s] = Tail(@)]
  /\ UNCHANGED <<subscribers, worker, quit, closed, ch, publishing, history>>

\* Mutants: the buffer is never full; it is full one event early.
RoomAlways(s) == TRUE
RoomOffByOne(s) == Len(ch[s]) + 1 < BufferSize
HasRoom(s) == Len(ch[s]) < BufferSize

\* case s.ch <- e
WorkerForward(s) ==
  /\ hold[s] # << >>
  /\ HasRoom(s)
  /\ ch' = [ch EXCEPT ![s] = Append(@, hold[s][1])]
  /\ hold' = [hold EXCEPT ![s] = << >>]
  /\ UNCHANGED <<subscribers, worker, quit, closed, dispatch, publishing, history>>

\* default: the event is dropped
WorkerDrop(s) ==
  /\ hold[s] # << >>
  /\ ~ HasRoom(s)
  /\ hold' = [hold EXCEPT ![s] = << >>]
  /\ lost' = [lost EXCEPT ![s] = @ + 1]
  /\ UNCHANGED <<subscribers, worker, quit, closed, dispatch, ch, publishing,
                 received, offered, accepted>>

\* Mutant: the goroutine waits for its consumer to drain the channel.
WorkerStopsWhenDrained(s) ==
  /\ worker[s] = "select"
  /\ hold[s] = << >>
  /\ quit[s]
  /\ ch[s] = << >>
  /\ closed' = [closed EXCEPT ![s] = TRUE]
  /\ worker' = [worker EXCEPT ![s] = "done"]
  /\ UNCHANGED <<subscribers, hold, quit, dispatch, ch, publishing, history>>

\* case <-s.quit
WorkerStop(s) ==
  /\ worker[s] = "select"
  /\ hold[s] = << >>
  /\ quit[s]
  /\ closed' = [closed EXCEPT ![s] = TRUE]
  /\ worker' = [worker EXCEPT ![s] = "done"]
  /\ UNCHANGED <<subscribers, hold, quit, dispatch, ch, publishing, history>>

Run(s) == WorkerTake(s) \/ WorkerForward(s) \/ WorkerDrop(s) \/ WorkerStop(s)

-----------------------------------------------------------------------------
(* The consumer of the channel Subscribe returned                          *)

Receive(s) ==
  /\ ch[s] # << >>
  /\ ch' = [ch EXCEPT ![s] = Tail(@)]
  /\ received' = [received EXCEPT ![s] = Append(@, Head(ch[s]))]
  /\ UNCHANGED <<subscribers, worker, hold, quit, closed, dispatch, publishing,
                 offered, accepted, lost>>

-----------------------------------------------------------------------------

Next ==
  \/ \E s \in Subs : Subscribe(s) \/ Run(s) \/ Receive(s)
  \/ \E nm \in Names : Unsubscribe(nm)
  \/ \E p \in Publishers : PublishBegin(p) \/ PublishSend(p)

Spec == Init /\ [][Next]_vars

\* The Go scheduler runs every goroutine that can run, and select picks among
\* its ready cases at random, so a stop that stays possible is taken: each
\* subscriber's goroutine and each publisher in the middle of a Publish is
\* fair.  Nothing forces a consumer to read or anybody to publish.
Fairness ==
  /\ \A s \in Subs : WF_vars(Run(s))
  /\ \A p \in Publishers : WF_vars(PublishSend(p))

FairSpec == Spec /\ Fairness

-----------------------------------------------------------------------------
(* Properties                                                              *)

WorkerStates == {"none", "select", "done"}

\* Types of the variables, and the capacities of the two channels.
TypeOK ==
  /\ subscribers \in Seq(Subs)
  /\ worker \in [Subs -> WorkerStates]
  /\ hold \in [Subs -> {<< >>} \union {<<e>> : e \in Events}]
  /\ quit \in [Subs -> BOOLEAN]
  /\ closed \in [Subs -> BOOLEAN]
  /\ dispatch \in [Subs -> Seq(Events)]
  /\ ch \in [Subs -> Seq(Events)]
  /\ \A s \in Subs : Len(dispatch[s]) <= DispatchCap /\ Len(ch[s]) <= BufferSize
  /\ sent \in [Publishers -> Nat]
  /\ \A p \in Publishers : sent[p] <= MaxPublished[p] /\ (Busy(p) => sent[p] > 0)
  /\ copy \in [Publishers -> Seq(Subs)]
  /\ next \in [Publishers -> Nat]
  /\ received \in [Subs -> Seq(Events)]
  /\ offered \in [Publishers -> SUBSET Subs]
  /\ accepted \in [Subs -> Nat]
  /\ lost \in [Subs -> Nat]

\* Everything accepted for s that its consumer has read or can still read, in
\* the order it is read.  Once run() has returned, dispatch[s] is unreachable.
Pipeline(s) == IF worker[s] = "done" THEN ch[s] ELSE ch[s] \o hold[s] \o dispatch[s]

\* A consumer sees the events of one publisher in the order they were
\* published and none of them twice, whatever is dropped on the way and
\* however publishers, dispatch goroutine and unsubscriptions interleave
\* (bus.go: Publish sends outside the lock).
InOrder ==
  \A s \in Subs :
    LET all == received[s] \o Pipeline(s) IN
      \A i, j \in DOMAIN all :
        i < j /\ all[i].from = all[j].from => all[i].n < all[j].n

\* No channel operation of bus.go can panic: run() never sends on a closed
\* channel, because only run() closes it and only between two events; and
\* Unsubscribe never closes a quit channel twice, because whoever is on the
\* list is there once and has its quit channel open.
NoChannelPanic ==
  /\ \A s \in Subs : closed[s] => hold[s] = << >> /\ worker[s] = "done"
  /\ \A i \in DOMAIN subscribers : ~ quit[subscribers[i]]
  /\ \A i, j \in DOMAIN subscribers : subscribers[i] = subscribers[j] => i = j

\* A Publish that ends has offered its event to every subscriber that was on
\* the list when it began and still is, even if others left meanwhile
\* (bus.go: the copy taken under RLock, the slice Unsubscribe shifts in place).
FanOutComplete ==
  [][\A p \in Publishers :
       Busy(p) /\ ~ Busy(p)' =>
         \A s \in ToSet(copy[p]) \intersect ToSet(subscribers) : s \in offered'[p]]_vars

\* What Publish's copy of the list, used after the lock is gone, must not break: a
\* publication is offered to all who stay, and comes to each in order and once.
PublicationsArrive == []InOrder /\ FanOutComplete

\* run() drops nothing until it has been handed more events than its
\* consumer's channel holds: the first BufferSize events always get through.
LossNeedsFullBuffer == \A s \in Subs : lost[s] > 0 => accepted[s] > BufferSize

\* "Publish() non-bloquant": a Publish that began ends, even if no consumer
\* ever reads and even if the subscriber is gone.
PublishNeverBlocks == \A p \in Publishers : Busy(p) ~> ~ Busy(p)

\* After Unsubscribe the consumer's channel is closed, even if the consumer
\* stopped reading with its buffer full (Orchestrator.Start does stop).
UnsubscribeCloses == \A s \in Subs : quit[s] ~> closed[s]

\* Bus implements the lossy FIFO, subscriber by subscriber.
Abstract == INSTANCE LossyFifo
              WITH queue <- [s \in Subs |-> Pipeline(s)], Events <- Events

ImplementsLossyFifo == Abstract!Spec

\* What docs/TECHNICAL.md says of a slow consumer: dispatch absorbs the
\* surplus, and an event is dropped only when dispatch is full as well.
DispatchAbsorbsSurplus ==
  [][\A s \in Subs : lost'[s] > lost[s] => Len(dispatch[s]) = DispatchCap]_vars
=============================================================================
