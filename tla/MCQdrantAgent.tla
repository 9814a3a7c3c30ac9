---------------------------- MODULE MCQdrantAgent ----------------------------
(***************************************************************************)
(* Two decisions and one restart, enough for a process to inherit a        *)
(* decision and to make one of its own.                                    *)
(***************************************************************************)
EXTENDS QdrantAgent
=============================================================================
