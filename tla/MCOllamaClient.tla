--------------------------- MODULE MCOllamaClient ---------------------------
(***************************************************************************)
(* The code's values: three attempts, three failures.  A tick is 15        *)
(* seconds: the breaker resets after 2 (30 s) and callCtx expires after 4  *)
(* (60 s).                                                                 *)
(***************************************************************************)
EXTENDS OllamaClient
=============================================================================
