------------------------------- MODULE Config -------------------------------
(***************************************************************************)
(* config/env.go, config/validate.go and the start of cmd/main.go: from    *)
(* the .env file and the environment to a configuration, or to an exit.    *)
(*                                                                         *)
(* A field stands for all that are read and checked as it is; the name of  *)
(* a variable is that of its field.  Of a text only its class is kept.     *)
(* Inf is above every bound.                                               *)
(***************************************************************************)
EXTENDS Integers, Sequences, FiniteSets

CONSTANTS
  Amounts,         \* numbers a variable may hold
  Inf,             \* above every bound
  EnvLines         \* bound: lines of the .env file

ASSUME ConfigAssumption ==
  Inf \in Nat /\ Inf > 65535 /\ Amounts \subseteq -Inf .. Inf /\ EnvLines \in Nat

Number(n) == [kind |-> "number", n |-> n]
Word(kind) == [kind |-> kind, n |-> 0]
Empty == Word("empty")

\* blank: spaces only; nan: what ParseFloat reads as not a number; true: the word;
\* text: any other, among them an https URL; insecure: a URL without https.
Texts == {Word(k) : k \in {"empty", "blank", "nan", "true", "text", "insecure"}}
Values == Texts \union {Number(n) : n \in Amounts}

Ints == {"Interval", "AlertMinCycles", "AlertCooldown", "WebPort", "LogMaxBackups", "ExecCooldown"}
Clock == {"DailyReportHour", "DailyReportMinute"}
Floats == {"CPUAlertThreshold"}
Names == {"Model", "DiscordWebhook"}
Switches == {"DryRun"}
Fields == Ints \union Clock \union Floats \union Names \union Switches

Bounds(k) ==
  CASE k = "Interval" -> <<5, 3600>>
    [] k = "AlertMinCycles" -> <<1, 20>>
    [] k = "AlertCooldown" -> <<1, Inf>>
    [] k = "WebPort" -> <<1024, 65535>>
    [] k = "DailyReportHour" -> <<0, 23>>
    [] k = "DailyReportMinute" -> <<0, 59>>
    [] k = "CPUAlertThreshold" -> <<1, 100>>
    [] OTHER -> <<-Inf, Inf>>

Within(k, v) == v.kind = "number" /\ v.n >= Bounds(k)[1] /\ v.n <= Bounds(k)[2]

Blank == [k \in Fields |-> Empty]

Default ==
  [k \in Fields |->
     CASE k = "Interval" -> Number(15)
       [] k = "AlertMinCycles" -> Number(2)
       [] k = "AlertCooldown" -> Number(5)
       [] k = "WebPort" -> Number(8080)
       [] k = "LogMaxBackups" -> Number(3)
       [] k = "ExecCooldown" -> Number(300)
       [] k = "DailyReportHour" -> Number(8)
       [] k = "DailyReportMinute" -> Number(0)
       [] k = "CPUAlertThreshold" -> Number(85)
       [] k = "Model" -> Word("text")
       [] k = "DiscordWebhook" -> Empty
       [] k = "DryRun" -> Word("false")]

VARIABLES
  given,           \* history: the environment the process was started with
  environ,         \* the process environment
  written,         \* history: the lines of .env, a field and a value each
  next,            \* the line LoadEnv comes to
  flag,            \* --dry-run
  config,          \* Config
  mainPc,          \* load, override, flag, validate, running, exited
  errors           \* ValidationError: the fields complained of

ConfigVars == <<given, environ, written, next, flag, config, mainPc, errors>>

Files == UNION {[1 .. n -> Values] : n \in 0 .. EnvLines}

\* The variable of field k is set to v, and the file has lines for it.
Started(k, v, lines) ==
  /\ given = [Blank EXCEPT ![k] = v]
  /\ written = [i \in DOMAIN lines |-> [field |-> k, value |-> lines[i]]]
  /\ flag \in BOOLEAN /\ (flag => k \in Switches)

\* Each variable is read without regard to the others: one of them is set, and the
\* flag only together with the variable it overrides.
ConfigInit ==
  /\ \E k \in Fields, v \in Values, lines \in Files : Started(k, v, lines)
  /\ environ = given /\ next = 1
  /\ config = Default
  /\ mainPc = "load" /\ errors = {}

\* Values in the file are trimmed; those of the environment are not.
Trimmed(v) == IF v.kind = "blank" THEN Empty ELSE v

\* Mutant: the file wins.
LoadOver ==
  /\ mainPc = "load" /\ next <= Len(written)
  /\ environ' = [environ EXCEPT ![written[next].field] = Trimmed(written[next].value)]
  /\ next' = next + 1
  /\ UNCHANGED <<given, written, flag, config, mainPc, errors>>

\* LoadEnv: a variable that is set, and not to nothing, stays as it is.
LoadLine ==
  /\ mainPc = "load" /\ next <= Len(written)
  /\ LET line == written[next]
     IN  environ' = IF environ[line.field] = Empty
                      THEN [environ EXCEPT ![line.field] = Trimmed(line.value)]
                      ELSE environ
  /\ next' = next + 1
  /\ UNCHANGED <<given, written, flag, config, mainPc, errors>>

Loaded ==
  /\ mainPc = "load" /\ next > Len(written)
  /\ mainPc' = "override"
  /\ UNCHANGED <<given, environ, written, next, flag, config, errors>>

\* What the conversion of a variable yields a value for; hour and minute are also
\* compared with their bounds, and a switch is only ever turned.
Accepts(k, v) ==
  \/ k \in Ints /\ v.kind = "number"
  \/ k \in Clock /\ Within(k, v)
  \/ k \in Floats /\ v.kind \in {"number", "nan"}
  \/ k \in Names /\ v # Empty
  \/ k \in Switches /\ v.kind = "true"

FromEnv ==
  /\ mainPc = "override"
  /\ config' = [k \in Fields |-> IF Accepts(k, environ[k]) THEN environ[k] ELSE config[k]]
  /\ mainPc' = "flag"
  /\ UNCHANGED <<given, environ, written, next, flag, errors>>

Flag ==
  /\ mainPc = "flag"
  /\ config' = IF flag THEN [config EXCEPT !.DryRun = Word("true")] ELSE config
  /\ mainPc' = "validate"
  /\ UNCHANGED <<given, environ, written, next, flag, errors>>

\* validateThreshold asks whether a value is outside its bounds, which one that is
\* no number is not; the two last ints are not looked at.
Valid(k, v) ==
  CASE k \in Floats -> v.kind = "nan" \/ Within(k, v)
    [] k = "Model" -> v.kind \notin {"empty", "blank"}
    [] k = "DiscordWebhook" -> v.kind \in {"empty", "text"}
    [] k \in Switches -> TRUE
    [] OTHER -> Within(k, v)

Validate ==
  /\ mainPc = "validate"
  /\ errors' = {k \in Fields : ~ Valid(k, config[k])}
  /\ mainPc' = IF errors' = {} THEN "running" ELSE "exited"
  /\ UNCHANGED <<given, environ, written, next, flag, config>>

ConfigNext == LoadLine \/ Loaded \/ FromEnv \/ Flag \/ Validate

ConfigSpec == ConfigInit /\ [][ConfigNext]_ConfigVars

-----------------------------------------------------------------------------
(* Properties                                                              *)

ConfigTypeOK ==
  /\ given \in [Fields -> Values] /\ environ \in [Fields -> Values]
  /\ written \in Seq([field : Fields, value : Values])
  /\ next \in 1 .. Len(written) + 1
  /\ flag \in BOOLEAN
  /\ DOMAIN config = Fields /\ \A k \in Fields : config[k] \in Values \union {Default[k]}
  /\ mainPc \in {"load", "override", "flag", "validate", "running", "exited"}
  /\ errors \subseteq Fields

\* Where a field's value comes from: the environment, else the first line of the
\* file that has one.
Source(k) ==
  LET lines == {i \in DOMAIN written : written[i].field = k /\ Trimmed(written[i].value) # Empty}
  IN  IF given[k] # Empty THEN given[k]
      ELSE IF lines = {} THEN Empty
      ELSE written[CHOOSE i \in lines : \A j \in lines : i <= j].value

\* The environment has priority over .env and both over the defaults, and a value
\* that cannot be read changes nothing, in whichever of the two it is.
Precedence ==
  mainPc \in {"validate", "running", "exited"} =>
    \A k \in Fields :
      config[k] = IF k \in Switches /\ flag THEN Word("true")
                  ELSE IF Accepts(k, Source(k)) THEN Source(k)
                  ELSE Default[k]

\* A process that runs has every checked number within its bounds, unless a threshold
\* is none; one that does not was told of every field that is not.
Bounded ==
  /\ mainPc = "running" =>
       /\ \A k \in Ints \union Clock : Within(k, config[k])
       /\ \A k \in Floats : Within(k, config[k]) \/ config[k].kind = "nan"
       /\ config["Model"] # Empty
  /\ mainPc = "exited" =>
       errors # {} /\ \A k \in Ints \union Clock : k \in errors <=> ~ Within(k, config[k])

ConfigSound == Precedence /\ Bounded
=============================================================================
