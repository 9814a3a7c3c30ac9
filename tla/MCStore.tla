------------------------------- MODULE MCStore -------------------------------
(***************************************************************************)
(* A history of two entries and four decisions, so that it is trimmed      *)
(* before and after a restart; two restarts, so that the database can be   *)
(* missing for one run and come back in the next.                          *)
(***************************************************************************)
EXTENDS Store
=============================================================================
