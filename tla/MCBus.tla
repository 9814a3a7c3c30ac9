-------------------------------- MODULE MCBus --------------------------------
(* Bus on a small instance: a buffer of one event, so that every capacity is  *)
(* reached, and enough publications to overflow it.                           *)
EXTENDS Bus, TLC

CONSTANTS s1, s2, n1, n2, p1, p2

MCNameOf == s1 :> n1 @@ s2 :> n2

\* Three events fill the dispatch channel of a subscriber whose goroutine has
\* not run yet; two of them have the same publisher.
MCMaxPublished == p1 :> 2 @@ p2 :> 1
=============================================================================
