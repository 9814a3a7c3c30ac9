--------------------------- MODULE MCDailyReport ----------------------------
(***************************************************************************)
(* The default configuration, without SQLite, with all figures scaled: a   *)
(* day of four minutes and as many cycles, of which memory.State keeps     *)
(* one.                                                                    *)
(***************************************************************************)
EXTENDS DailyReport

MCNotifiers == <<"discord">>
=============================================================================
