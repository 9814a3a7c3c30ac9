----------------------------- MODULE MCServices -----------------------------
(***************************************************************************)
(* The parts of the system that share no state with each other, checked in *)
(* one run.  A behaviour is one of a single part, which part it is chosen  *)
(* at the start, while the variables of all others keep the values of an   *)
(* initial state (the scheduler's, of one that has stopped): steps of      *)
(* parts without common variables commute, so that interleaving them would *)
(* multiply the states and show nothing more.                              *)
(***************************************************************************)
EXTENDS AlertAgent, Logger, Scheduler, DailyReport, Watchers, Web, ContextBuilder, Config

VARIABLE part

parts == {"alert", "log", "scheduler", "daily", "docker", "file", "web", "context", "config"}

MCNeverAlerted == -1
MCNotifiers == <<"discord", "ntfy">>

IdleScheduler ==
  /\ interval = FirstInterval /\ currentInterval = FirstInterval
  /\ period = FirstInterval /\ due = FirstInterval
  /\ tick = FALSE /\ cancelled = FALSE /\ schedPc = "stopped" /\ observed = 0
  /\ hasNet = TRUE /\ prevAge = 0 /\ prevAtAge = 0 /\ unread = FALSE /\ rate = NoRate
IdleConfig ==
  /\ given = Blank /\ environ = Blank /\ written = << >> /\ next = 1 /\ flag = FALSE
  /\ config = Default /\ mainPc = "load" /\ errors = {}

ServicesInit ==
  /\ part \in parts
  /\ Init /\ LogInit /\ DailyInit /\ WatchInit /\ WebInit /\ ContextInit
  /\ IF part = "scheduler" THEN SchedInit ELSE IdleScheduler
  /\ IF part = "config" THEN ConfigInit ELSE IdleConfig

\* Only the part's own variables change.
ServicesNext ==
  /\ UNCHANGED part
  /\ \/ part = "alert" /\ Next
        /\ UNCHANGED <<LogVars, SchedVars, DailyVars, WatchVars, WebVars, ContextVars, ConfigVars>>
     \/ part = "log" /\ LogNext
        /\ UNCHANGED <<vars, SchedVars, DailyVars, WatchVars, WebVars, ContextVars, ConfigVars>>
     \/ part = "scheduler" /\ SchedNext
        /\ UNCHANGED <<vars, LogVars, DailyVars, WatchVars, WebVars, ContextVars, ConfigVars>>
     \/ part = "daily" /\ DailyNext
        /\ UNCHANGED <<vars, LogVars, SchedVars, WatchVars, WebVars, ContextVars, ConfigVars>>
     \/ part = "docker" /\ DockerNext
        /\ UNCHANGED <<vars, LogVars, SchedVars, DailyVars, WebVars, ContextVars, ConfigVars>>
     \/ part = "file" /\ FileNext
        /\ UNCHANGED <<vars, LogVars, SchedVars, DailyVars, WebVars, ContextVars, ConfigVars>>
     \/ part = "web" /\ WebNext
        /\ UNCHANGED <<vars, LogVars, SchedVars, DailyVars, WatchVars, ContextVars, ConfigVars>>
     \/ part = "context" /\ ContextNext
        /\ UNCHANGED <<vars, LogVars, SchedVars, DailyVars, WatchVars, WebVars, ConfigVars>>
     \/ part = "config" /\ ConfigNext
        /\ UNCHANGED <<vars, LogVars, SchedVars, DailyVars, WatchVars, WebVars, ContextVars>>

ServicesSpec ==
  ServicesInit
  /\ [][ServicesNext]_<<part, vars, LogVars, SchedVars, DailyVars, WatchVars, WebVars,
                        ContextVars, ConfigVars>>
  /\ SchedFairness

\* Types, bounds and capacities of all parts.
ServicesTypeOK ==
  /\ TypeOK /\ LogTypeOK /\ SchedTypeOK /\ DailyTypeOK /\ WatchTypeOK
  /\ WebTypeOK /\ ContextTypeOK /\ ConfigTypeOK
=============================================================================
