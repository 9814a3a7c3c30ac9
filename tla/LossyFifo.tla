------------------------------ MODULE LossyFifo ------------------------------
(***************************************************************************)
(* What the event bus promises each subscriber, with no goroutine, no      *)
(* buffer and no lock in sight: one FIFO that may lose events.  Whatever   *)
(* is delivered comes out in the order it was accepted, nothing is         *)
(* delivered twice or invented, and once the FIFO is closed only what it   *)
(* already holds can still be read.  Bus.tla implements it.                *)
(***************************************************************************)
EXTENDS Naturals, Sequences, SequencesExt

CONSTANTS
  Subs,    \* the subscriptions
  Events   \* what can be published

VARIABLES
  queue,      \* queue[s]: accepted for s and not yet read
  received,   \* received[s]: what the consumer of s has read, oldest first
  closed      \* closed[s]: s accepts nothing any more

abstractVars == <<queue, received, closed>>

Init ==
  /\ queue = [s \in Subs |-> << >>]
  /\ received = [s \in Subs |-> << >>]
  /\ closed = [s \in Subs |-> FALSE]

\* An event is accepted at the tail.  (An event that is refused leaves no trace.)
Accept(s, e) ==
  /\ ~ closed[s]
  /\ queue' = [queue EXCEPT ![s] = Append(@, e)]
  /\ UNCHANGED <<received, closed>>

\* One of the queued events is lost; the others keep their order.
Lose(s) ==
  /\ \E i \in DOMAIN queue[s] : queue' = [queue EXCEPT ![s] = RemoveAt(@, i)]
  /\ UNCHANGED <<received, closed>>

Deliver(s) ==
  /\ queue[s] # << >>
  /\ queue' = [queue EXCEPT ![s] = Tail(@)]
  /\ received' = [received EXCEPT ![s] = Append(@, Head(queue[s]))]
  /\ UNCHANGED closed

\* Closing may lose the youngest events, never one out of the middle.
Close(s) ==
  /\ ~ closed[s]
  /\ closed' = [closed EXCEPT ![s] = TRUE]
  /\ \E n \in 0 .. Len(queue[s]) : queue' = [queue EXCEPT ![s] = SubSeq(@, 1, n)]
  /\ UNCHANGED received

Next ==
  \E s \in Subs :
    \/ \E e \in Events : Accept(s, e)
    \/ Lose(s)
    \/ Deliver(s)
    \/ Close(s)

Spec == Init /\ [][Next]_abstractVars
=============================================================================
