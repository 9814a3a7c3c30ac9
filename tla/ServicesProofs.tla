--------------------------- MODULE ServicesProofs ----------------------------
(***************************************************************************)
(* The scheduler for any intervals and durations, the configuration for    *)
(* any numbers and any number of lines, the prompts' context for any       *)
(* windows and limits, the event log for any number of backups and any     *)
(* size of a file; and the types of the parts of MCServices together.      *)
(***************************************************************************)
EXTENDS MCServices, AgentsProofs, WebProofs, SequenceTheorems, FiniteSetTheorems,
        WellFoundedInduction, TLAPS

-----------------------------------------------------------------------------
(* The scheduler                                                           *)


\* There are as many numbers of n bits as sets of n bits.
LEMMA PowerLemma == ASSUME NEW n \in Nat PROVE 2 ^ n \in Nat \ {0}
<1>1. IsFiniteSet(1 .. n) /\ Cardinality(1 .. n) = n
  BY FS_Interval
<1>2. IsFiniteSet(SUBSET (1 .. n)) /\ Cardinality(SUBSET (1 .. n)) = 2 ^ n
  BY <1>1, FS_SUBSET
<1>3. Cardinality(SUBSET (1 .. n)) \in Nat
  BY <1>2, FS_CardinalityType
<1>4. SUBSET (1 .. n) # {}
  OBVIOUS
<1> QED BY <1>2, <1>3, <1>4, FS_EmptySet

LEMMA DurationType == \A secs \in Seconds : Duration(secs) \in Int
<1> USE SecondsAssumption, WidthAssumption, FirstIntervalAssumption, SchedulerBoundsAssumption
<1> SUFFICES ASSUME NEW secs \in Seconds PROVE Duration(secs) \in Int
  OBVIOUS
<1>1. PICK m \in Nat \ {0} : m = 2 ^ Width
  BY PowerLemma
<1>2. secs * Second \in Int
  OBVIOUS
<1>3. (secs * Second) % m \in 0 .. m - 1
  BY <1>2
<1> QED BY <1>1, <1>3 DEF Duration

\* Both readings are renewed together, unless the counters could not be read.
SchedInv ==
  /\ SchedTypeOK
  /\ unread \/ prevAge = prevAtAge
  /\ RateCoversItsTime

LEMMA SchedStep == SchedInv /\ [SchedNext]_SchedVars => SchedInv'
<1> USE SecondsAssumption, WidthAssumption, FirstIntervalAssumption, SchedulerBoundsAssumption
<1> SUFFICES ASSUME SchedInv, [SchedNext]_SchedVars PROVE SchedInv'
  OBVIOUS
<1> USE DEF SchedInv, SchedTypeOK, RateCoversItsTime
<1>0. 0 \in 0 .. MaxAge /\ 0 \in 0 .. MaxObserve
  OBVIOUS
<1>1. CASE UNCHANGED SchedVars
  BY <1>1 DEF SchedVars, ticker, net
<1>2. ASSUME NEW secs \in Seconds, SetInterval(secs) PROVE SchedInv'
  BY <1>2, DurationType DEF SetInterval, ticker, net
<1>3. CASE Cancel
  BY <1>3 DEF Cancel, ticker, net
<1>4. CASE Stop
  BY <1>4 DEF Stop, ticker, net
<1>10. CASE MakeTicker
  <2>1. CASE interval > 0
    BY <1>10, <2>1 DEF MakeTicker, net
  <2>2. CASE ~ interval > 0
    BY <1>10, <2>2 DEF MakeTicker, net
  <2> QED BY <2>1, <2>2
<1>11. CASE ReadInterval
  BY <1>0, <1>11 DEF ReadInterval, ticker
<1>5. CASE TakeTick
  <2>1. tick' = FALSE /\ UNCHANGED <<interval, cancelled, net>> /\ observed' = 0
    BY <1>5 DEF TakeTick
  <2>2. /\ currentInterval' \in Int /\ period' \in Nat /\ due' \in 0 .. period' /\ due' > 0
        /\ schedPc' \in {"observing", "dead"}
    <3>1. CASE interval = currentInterval
      BY <1>5, <3>1 DEF TakeTick
    <3>2. CASE interval # currentInterval /\ interval > 0
      BY <1>5, <3>2 DEF TakeTick
    <3>3. CASE interval # currentInterval /\ ~ interval > 0
      BY <1>5, <3>3 DEF TakeTick
    <3> QED BY <3>1, <3>2, <3>3
  <2> QED BY <1>0, <2>1, <2>2, Zenon DEF net
<1>6. CASE ObserveCancelled
  BY <1>6 DEF ObserveCancelled, ticker, net
<1>7. CASE ObserveFails
  BY <1>7 DEF ObserveFails, ticker, net
<1>8. ASSUME NEW ok \in BOOLEAN, NEW wrapped \in BOOLEAN, ObserveEnds(ok, wrapped) PROVE SchedInv'
  <2>1. /\ UNCHANGED <<interval, currentInterval, period, due, tick, cancelled, observed>>
        /\ schedPc = "observing" /\ schedPc' = "select"
        /\ rate' \in {NoRate, Reset, Over(prevAtAge, prevAge, unread)}
        /\ prevAtAge' = 0
    BY <1>8 DEF ObserveEnds, ticker, ReadCounters, DeltaMBps
  <2>2. /\ hasNet' \in BOOLEAN /\ unread' \in BOOLEAN /\ prevAge' \in 0 .. MaxAge
        /\ unread' \/ prevAge' = 0
    <3>1. CASE ok
      BY <1>0, <1>8, <3>1, Zenon DEF ObserveEnds, ReadCounters
    <3>2. CASE ~ ok
      BY <1>8, <3>2 DEF ObserveEnds, ReadCounters
    <3> QED BY <3>1, <3>2
  <2>3. /\ rate'.kind \in {"none", "reset", "rate"}
        /\ rate'.kind = "rate" => rate'.missed \/ rate'.elapsed = rate'.covered
    <3>1. CASE rate' \in {NoRate, Reset}
      BY <3>1 DEF NoRate, Reset
    <3>2. CASE rate' = Over(prevAtAge, prevAge, unread)
      BY <3>2 DEF Over
    <3> QED BY <2>1, <3>1, <3>2
  <2> QED BY <2>1, <2>2, <2>3
<1>9. CASE SchedTime
  <2>1. /\ UNCHANGED <<interval, currentInterval, period, cancelled, schedPc, hasNet, unread, rate>>
        /\ schedPc \in {"select", "observing"}
        /\ prevAge' = Older(prevAge) /\ prevAtAge' = Older(prevAtAge)
    BY <1>9 DEF SchedTime
  <2>2. due' \in 0 .. period /\ due' > 0 /\ tick' \in BOOLEAN
    <3>1. CASE due = 1
      BY <1>9, <2>1, <3>1 DEF SchedTime
    <3>2. CASE due # 1
      BY <1>9, <2>1, <3>2 DEF SchedTime
    <3> QED BY <3>1, <3>2
  <2>3. observed' \in 0 .. MaxObserve
    BY <1>9 DEF SchedTime
  <2>4. \A a \in 0 .. MaxAge : Older(a) \in 0 .. MaxAge
    BY DEF Older
  <2> QED BY <2>1, <2>2, <2>3, <2>4
<1> QED BY <1>1, <1>2, <1>3, <1>4, <1>5, <1>6, <1>7, <1>8, <1>9, <1>10, <1>11 DEF SchedNext, Start

LEMMA SchedInvInit == SchedInit => SchedInv
<1> USE SecondsAssumption, WidthAssumption, FirstIntervalAssumption, SchedulerBoundsAssumption
<1> SUFFICES ASSUME SchedInit PROVE SchedInv
  OBVIOUS
<1>1. SchedTypeOK
  <2>1. /\ FirstInterval \in Int /\ 0 \in Int /\ 0 \in Nat /\ 0 \in 0 .. 0
        /\ 0 \in 0 .. MaxAge /\ 0 \in 0 .. MaxObserve
    OBVIOUS
  <2> QED BY <2>1, Zenon DEF SchedInit, SchedTypeOK, NoRate
<1>2. prevAge = prevAtAge /\ rate.kind = "none"
  BY DEF SchedInit, NoRate
<1> QED BY <1>1, <1>2 DEF SchedInv, RateCoversItsTime

LEMMA SchedInvariant == SchedSpec => []SchedInv
  BY SchedInvInit, SchedStep, PTL DEF SchedSpec

\* A rate is taken over the time between its two readings, unless one in between failed
\* (DeltaMBps and ObserveWithContext, core/scheduler.go).
THEOREM RateCoversItsTimeCorrect == SchedSpec => []RateCoversItsTime
<1>1. SchedInv => RateCoversItsTime
  BY DEF SchedInv
<1> QED BY <1>1, SchedInvariant, PTL

\* The steps Start has left before it returns, once its context is done.  An
\* observation that was already sampling may still end well; one that begins
\* later sees the context, and so does the select it comes back to or the next.
ToStop ==
  CASE schedPc = "new" -> 4
    [] schedPc = "starting" -> 3
    [] schedPc = "observing" -> (IF observed > 0 THEN 3 ELSE 1)
    [] schedPc = "select" -> 2
    [] OTHER -> 0

\* After the cancellation each step of the loop brings its end nearer, even if its
\* select prefers a tick to ctx.Done() or the observation ends in spite of it, and
\* neither time nor the CLI puts it off (Start and ObserveWithContext, core/scheduler.go).
CancelEndsLoop ==
  [][cancelled => IF Start THEN ToStop' < ToStop ELSE ToStop' = ToStop]_SchedVars

\* The loop ends soon after its context, for any intervals and any length of an
\* observation (Start, core/scheduler.go).
THEOREM CancelEndsLoopCorrect == SchedSpec => CancelEndsLoop
<1>1. ASSUME SchedInv, [SchedNext]_SchedVars, cancelled
      PROVE  IF Start THEN ToStop' < ToStop ELSE ToStop' = ToStop
  <2>1. ASSUME Start PROVE ToStop' < ToStop
    <3>1. CASE Stop
      BY <3>1 DEF Stop, ToStop
    <3>6. CASE MakeTicker \/ ReadInterval
      <4>1. \/ schedPc = "new" /\ schedPc' \in {"starting", "dead"}
            \/ schedPc = "starting" /\ schedPc' = "select"
        BY <3>6 DEF MakeTicker, ReadInterval
      <4> QED BY <4>1 DEF ToStop
    <3>2. CASE TakeTick
      <4>1. schedPc = "select" /\ observed' = 0 /\ schedPc' \in {"observing", "dead"}
        BY <3>2 DEF TakeTick
      <4> QED BY <4>1 DEF ToStop
    <3>3. CASE ObserveCancelled
      BY <3>3 DEF ObserveCancelled, ToStop
    <3>4. CASE ObserveFails
      BY <1>1, <3>4 DEF ObserveFails
    <3>5. CASE \E ok, wrapped \in BOOLEAN : ObserveEnds(ok, wrapped)
      <4>1. schedPc = "observing" /\ observed > 0 /\ schedPc' = "select"
        BY <3>5 DEF ObserveEnds
      <4> QED BY <4>1 DEF ToStop
    <3> QED BY <2>1, <3>1, <3>2, <3>3, <3>4, <3>5, <3>6 DEF Start
  <2>2. ASSUME ~ Start PROVE ToStop' = ToStop
    <3>1. CASE SchedTime
      <4>1. UNCHANGED schedPc /\ schedPc = "observing" /\ observed > 0 /\ observed' = observed + 1
        BY <1>1, <3>1 DEF SchedTime
      <4>2. observed \in Nat
        BY <1>1, SchedulerBoundsAssumption DEF SchedInv, SchedTypeOK
      <4> QED BY <4>1, <4>2 DEF ToStop
    <3>2. CASE UNCHANGED <<schedPc, observed>>
      BY <3>2 DEF ToStop
    <3> QED BY <1>1, <2>2, <3>1, <3>2 DEF SchedNext, SetInterval, Cancel, SchedVars
  <2> QED BY <2>1, <2>2
<1>2. SchedInv /\ [SchedNext]_SchedVars
        => [cancelled => IF Start THEN ToStop' < ToStop ELSE ToStop' = ToStop]_SchedVars
  BY <1>1
<1> QED BY <1>2, SchedInvariant, PTL DEF SchedSpec, CancelEndsLoop

\* Once the loop is in step with its ticker it stays so, whatever the CLI sends, and a
\* loop that is not comes into step by the next tick that finds a new interval: only the
\* two readings before the loop can part them (Start, core/scheduler.go).
THEOREM StaysInStepCorrect == SchedSpec => StaysInStep
<1>1. ASSUME [SchedNext]_SchedVars, InStep PROVE period' = currentInterval'
  <2>1. schedPc \in {"select", "observing"} /\ period = currentInterval
    BY <1>1 DEF InStep
  <2>2. CASE TakeTick
    BY <2>1, <2>2 DEF TakeTick
  <2>3. CASE \E ok, wrapped \in BOOLEAN : ObserveEnds(ok, wrapped)
    BY <2>1, <2>3 DEF ObserveEnds, ticker
  <2>4. CASE UNCHANGED <<currentInterval, period>>
    BY <2>1, <2>4
  <2> QED BY <1>1, <2>1, <2>2, <2>3, <2>4 DEF SchedNext, Start, SetInterval, Cancel, MakeTicker,
             ReadInterval, Stop, ObserveCancelled, ObserveFails, SchedTime, SchedVars, ticker
<1>2. ASSUME TakeTick, interval # currentInterval, schedPc' = "observing"
      PROVE  period' = currentInterval'
  BY <1>2 DEF TakeTick
<1>3. [SchedNext]_SchedVars
        => [InStep \/ (TakeTick /\ interval # currentInterval /\ schedPc' = "observing")
              => period' = currentInterval']_SchedVars
  BY <1>1, <1>2
<1> QED BY <1>3, PTL DEF SchedSpec, StaysInStep

-----------------------------------------------------------------------------
(* The configuration                                                       *)


\* The lines that have a value for a field, and what of them LoadEnv has put
\* into the environment when it comes to line next.
LinesOf(k) == {i \in DOMAIN written : written[i].field = k /\ Trimmed(written[i].value) # Empty}

Loading(k) ==
  \/ given[k] # Empty /\ environ[k] = given[k]
  \/ given[k] = Empty /\ environ[k] = Empty /\ \A i \in LinesOf(k) : i >= next
  \/ /\ given[k] = Empty
     /\ \E i \in LinesOf(k) :
          /\ i < next /\ environ[k] = written[i].value
          /\ \A j \in LinesOf(k) : i <= j

Overridden(k) == IF Accepts(k, Source(k)) THEN Source(k) ELSE Default[k]

ConfigInv ==
  /\ ConfigTypeOK
  /\ \A k \in Fields : Loading(k)
  /\ mainPc \in {"load", "override"} => config = Default
  /\ mainPc # "load" => next = Len(written) + 1
  /\ mainPc = "flag" => \A k \in Fields : config[k] = Overridden(k)
  /\ Precedence
  /\ mainPc \in {"running", "exited"} =>
       /\ errors = {k \in Fields : ~ Valid(k, config[k])}
       /\ mainPc = "running" <=> errors = {}

LEMMA ValuesLemma ==
  /\ Empty \in Values /\ Word("true") \in Values
  /\ \A v \in Values : Trimmed(v) \in Values /\ (Trimmed(v) # Empty => Trimmed(v) = v)
  /\ Trimmed(Empty) = Empty
  /\ \A v \in Values : v.kind = "blank" => Trimmed(v) = Empty
BY DEF Values, Texts, Word, Empty, Trimmed

LEMMA InitLoading == ConfigInit => ConfigTypeOK /\ \A k \in Fields : Loading(k)
<1> USE ConfigAssumption
<1> SUFFICES ASSUME ConfigInit PROVE ConfigTypeOK /\ \A k \in Fields : Loading(k)
  OBVIOUS
<1>1. PICK k \in Fields, v \in Values, lines \in Files : Started(k, v, lines)
  BY DEF ConfigInit
<1>2. PICK n \in 0 .. EnvLines : lines \in [1 .. n -> Values]
  BY DEF Files
<1>3. n \in Nat /\ written \in [1 .. n -> [field : Fields, value : Values]]
  BY <1>1, <1>2 DEF Started
<1>4. written \in Seq([field : Fields, value : Values])
  <2> DEFINE S == [field : Fields, value : Values]
  <2>1. [1 .. n -> S] \in {[1 .. m -> S] : m \in Nat}
    BY <1>3
  <2> HIDE DEF S
  <2>2. written \in UNION {[1 .. m -> S] : m \in Nat}
    BY <1>3, <2>1 DEF S
  <2>3. Seq(S) = UNION {[1 .. m -> S] : m \in Nat}
    BY SeqDef
  <2>4. written \in Seq(S)
    BY <2>2, <2>3
  <2> QED BY <2>4 DEF S
<1>5. given \in [Fields -> Values]
  BY <1>1, ValuesLemma DEF Blank, Started
<1>6. /\ environ = given /\ next = 1 /\ config = Default
      /\ mainPc = "load" /\ errors = {} /\ flag \in BOOLEAN
  BY <1>1 DEF ConfigInit, Started
<1>7. Len(written) \in Nat /\ \A i \in DOMAIN written : i >= 1
  BY <1>4, LenProperties
<1>8. ConfigTypeOK
  <2>1. next \in 1 .. Len(written) + 1
    BY <1>6, <1>7
  <2>2. DOMAIN config = Fields
    BY <1>6 DEF Default
  <2> QED BY <1>4, <1>5, <1>6, <2>1, <2>2 DEF ConfigTypeOK
<1>9. \A j \in Fields : Loading(j)
  BY <1>6, <1>7 DEF Loading, LinesOf
<1> QED BY <1>8, <1>9

\* A field that has a value keeps it; the others take that of the line.
LEMMA LoadLineLoads ==
  ASSUME ConfigTypeOK, \A k \in Fields : Loading(k), LoadLine
  PROVE  ConfigTypeOK' /\ \A k \in Fields : Loading(k)'
<1> USE ConfigAssumption
<1> DEFINE line == written[next]
<1>1. /\ next \in DOMAIN written /\ next' = next + 1 /\ next \in Nat
      /\ Len(written) \in Nat /\ DOMAIN written = 1 .. Len(written)
  BY LenProperties DEF LoadLine, ConfigTypeOK
<1>2. line \in [field : Fields, value : Values]
  <2>1. written \in Seq([field : Fields, value : Values])
    BY DEF ConfigTypeOK
  <2>2. next \in 1 .. Len(written)
    BY <1>1
  <2> DEFINE S == [field : Fields, value : Values]
  <2> HIDE DEF S
  <2>3. written \in Seq(S)
    BY <2>1 DEF S
  <2>4. written[next] \in S
    BY <2>2, <2>3, ElementOfSeq
  <2> QED BY <2>4 DEF S, line
<1>3. UNCHANGED <<given, written, flag, config, mainPc, errors>>
  BY DEF LoadLine
<1>4. line.field \in Fields /\ line.value \in Values
  BY <1>2
<1>5. environ' = IF environ[line.field] = Empty
                   THEN [environ EXCEPT ![line.field] = Trimmed(line.value)]
                   ELSE environ
  BY DEF LoadLine
<1> HIDE DEF line
<1>6. environ \in [Fields -> Values]
  BY DEF ConfigTypeOK
<1>7. environ' \in [Fields -> Values]
  BY <1>4, <1>5, <1>6, ValuesLemma
<1>8. ConfigTypeOK'
  BY <1>1, <1>3, <1>7 DEF ConfigTypeOK
<1>9. ASSUME NEW k \in Fields PROVE Loading(k)'
  <2>1. LinesOf(k)' = LinesOf(k) /\ LinesOf(k) \subseteq Nat
    BY <1>1, <1>3 DEF LinesOf
  <2>2. next \in LinesOf(k) <=> line.field = k /\ Trimmed(line.value) # Empty
    BY <1>1 DEF LinesOf, line
  <2>3. CASE environ'[k] = environ[k] /\ (environ[k] = Empty => next \notin LinesOf(k))
    <3>1. CASE given[k] # Empty /\ environ[k] = given[k]
      BY <1>3, <2>3, <3>1 DEF Loading
    <3>2. CASE given[k] = Empty /\ environ[k] = Empty /\ \A i \in LinesOf(k) : i >= next
      <4>1. \A i \in LinesOf(k) : i >= next'
        BY <1>1, <2>1, <2>3, <3>2
      <4> QED BY <1>3, <2>1, <2>3, <3>2, <4>1 DEF Loading
    <3>3. CASE /\ given[k] = Empty
               /\ \E i \in LinesOf(k) : /\ i < next /\ environ[k] = written[i].value
                                        /\ \A j \in LinesOf(k) : i <= j
      <4>1. PICK i \in LinesOf(k) : /\ i < next /\ environ[k] = written[i].value
                                    /\ \A j \in LinesOf(k) : i <= j
        BY <3>3
      <4>2. i < next'
        BY <1>1, <2>1, <4>1
      <4>3. i \in LinesOf(k)' /\ environ'[k] = written'[i].value /\ given'[k] = Empty
            /\ \A j \in LinesOf(k)' : i <= j
        BY <1>3, <2>1, <2>3, <3>3, <4>1
      <4> QED BY <4>2, <4>3 DEF Loading
    <3> QED BY <3>1, <3>2, <3>3 DEF Loading
  <2>4. CASE line.field = k /\ environ[k] = Empty /\ Trimmed(line.value) # Empty
    <3>1. environ'[k] = line.value
      BY <1>4, <1>5, <1>6, <2>4, ValuesLemma
    <3>2. \A i \in LinesOf(k) : written[i].value # Empty
      BY ValuesLemma DEF LinesOf
    <3>3. given[k] = Empty /\ \A i \in LinesOf(k) : i >= next
      BY <2>4, <3>2 DEF Loading
    <3>4. next \in LinesOf(k) /\ next < next'
      BY <1>1, <2>2, <2>4
    <3>5. next \in LinesOf(k)' /\ environ'[k] = written'[next].value /\ given'[k] = Empty
          /\ \A j \in LinesOf(k)' : next <= j
      BY <1>1, <1>3, <2>1, <3>1, <3>3, <3>4 DEF line
    <3> QED BY <3>4, <3>5 DEF Loading
  <2>5. CASE ~ (line.field = k /\ environ[k] = Empty /\ Trimmed(line.value) # Empty)
    <3>1. environ'[k] = environ[k]
      BY <1>4, <1>5, <1>6, <2>5
    <3> QED BY <2>2, <2>3, <2>5, <3>1
  <2> QED BY <2>4, <2>5
<1> QED BY <1>8, <1>9

\* When the last line has been read the environment holds what the fields'
\* sources say.
LEMMA LoadedSource ==
  ASSUME ConfigTypeOK, next = Len(written) + 1, NEW k \in Fields, Loading(k)
  PROVE  environ[k] = Source(k)
<1> USE ConfigAssumption
<1>0. DOMAIN written = 1 .. Len(written) /\ Len(written) \in Nat
  BY LenProperties DEF ConfigTypeOK
<1>1. Source(k) = IF given[k] # Empty THEN given[k]
                  ELSE IF LinesOf(k) = {} THEN Empty
                  ELSE written[CHOOSE i \in LinesOf(k) : \A j \in LinesOf(k) : i <= j].value
  BY DEF Source, LinesOf
<1>2. LinesOf(k) \subseteq 1 .. Len(written)
  BY <1>0 DEF LinesOf
<1>3. CASE given[k] # Empty
  BY <1>1, <1>3 DEF Loading
<1>4. CASE given[k] = Empty /\ environ[k] = Empty /\ \A i \in LinesOf(k) : i >= next
  <2>1. LinesOf(k) = {}
    BY <1>0, <1>2, <1>4
  <2> QED BY <1>1, <1>4, <2>1
<1>5. ASSUME NEW i \in LinesOf(k), environ[k] = written[i].value, given[k] = Empty,
             \A j \in LinesOf(k) : i <= j
      PROVE  environ[k] = Source(k)
  <2>1. \A h \in LinesOf(k) : (\A j \in LinesOf(k) : h <= j) => h = i
    BY <1>2, <1>5
  <2>2. (CHOOSE h \in LinesOf(k) : \A j \in LinesOf(k) : h <= j) = i
    BY <1>5, <2>1
  <2> DEFINE c == CHOOSE h \in LinesOf(k) : \A j \in LinesOf(k) : h <= j
  <2>3. c = i
    BY <2>2
  <2>4. Source(k) = written[c].value
    BY <1>1, <1>5
  <2> HIDE DEF c
  <2> QED BY <1>5, <2>3, <2>4
<1> QED BY <1>3, <1>4, <1>5 DEF Loading

LEMMA ConfigStep == ConfigInv /\ [ConfigNext]_ConfigVars => ConfigInv'
<1> USE ConfigAssumption
<1> SUFFICES ASSUME ConfigInv, [ConfigNext]_ConfigVars PROVE ConfigInv'
  OBVIOUS
<1>0. /\ ConfigTypeOK /\ \A k \in Fields : Loading(k)
      /\ Len(written) \in Nat
  BY LenProperties DEF ConfigInv, ConfigTypeOK
<1>1. CASE UNCHANGED ConfigVars
  <2>1. \A k \in Fields : Loading(k)' /\ Overridden(k)' = Overridden(k) /\ Source(k)' = Source(k)
    BY <1>0, <1>1 DEF ConfigVars, Loading, LinesOf, Overridden, Source
  <2>2. ConfigTypeOK'
    BY <1>0, <1>1 DEF ConfigVars, ConfigTypeOK
  <2> QED BY <1>1, <2>1, <2>2 DEF ConfigVars, ConfigInv, Precedence
<1>2. CASE LoadLine
  <2>1. ConfigTypeOK' /\ \A k \in Fields : Loading(k)'
    BY <1>0, <1>2, LoadLineLoads
  <2>2. mainPc' = "load" /\ config' = Default
    BY <1>2 DEF LoadLine, ConfigInv
  <2> QED BY <2>1, <2>2 DEF ConfigInv, Precedence
<1>3. CASE UNCHANGED <<given, environ, written, next>> /\ ~ LoadLine
  <2>1. \A k \in Fields : Loading(k)'
    BY <1>0, <1>3 DEF Loading, LinesOf
  <2>2. \A k \in Fields : Source(k)' = Source(k)
    BY <1>3 DEF Source
  <2>3. CASE Loaded
    <3>1. next = Len(written) + 1
      BY <1>0, <2>3 DEF Loaded, ConfigTypeOK
    <3>2. mainPc' = "override" /\ config' = Default /\ next' = Len(written') + 1 /\ ConfigTypeOK'
      BY <1>0, <2>3, <3>1 DEF Loaded, ConfigInv, ConfigTypeOK
    <3> QED BY <2>1, <3>2 DEF ConfigInv, Precedence
  <2>4. CASE FromEnv
    <3>1. mainPc = "override" /\ mainPc' = "flag" /\ UNCHANGED <<written, next, flag, errors>>
      BY <2>4 DEF FromEnv
    <3>2. next' = Len(written') + 1
      BY <3>1 DEF ConfigInv
    <3>3. \A k \in Fields : environ[k] = Source(k)
      BY <1>0, <3>1, <3>2, LoadedSource
    <3>4. \A k \in Fields : config'[k] = Overridden(k) /\ config[k] = Default[k]
      BY <2>4, <3>1, <3>3 DEF FromEnv, Overridden, ConfigInv
    <3>5. \A k \in Fields : config'[k] = Overridden(k)'
      BY <2>2, <3>4 DEF Overridden
    <3>6. \A k \in Fields : (IF Accepts(k, environ[k]) THEN environ[k] ELSE config[k])
                               \in Values \union {Default[k]}
      BY <1>0 DEF ConfigTypeOK
    <3>7. ConfigTypeOK'
      BY <1>0, <1>3, <2>4, <3>1, <3>6 DEF ConfigTypeOK, FromEnv
    <3> QED BY <2>1, <3>1, <3>2, <3>5, <3>7 DEF ConfigInv, Precedence
  <2>5. CASE Flag
    <3>1. mainPc = "flag" /\ mainPc' = "validate" /\ UNCHANGED <<written, next, flag, errors>>
      BY <2>5 DEF Flag
    <3>2. next' = Len(written') + 1
      BY <3>1 DEF ConfigInv
    <3>3. \A k \in Fields : config'[k] = IF k \in Switches /\ flag THEN Word("true") ELSE config[k]
      <4>1. DOMAIN config = Fields
        BY <1>0 DEF ConfigTypeOK
      <4>2. \A k \in Fields : k \in Switches <=> k = "DryRun"
        BY DEF Switches
      <4>3. config' = IF flag THEN [config EXCEPT !["DryRun"] = Word("true")] ELSE config
        BY <2>5 DEF Flag
      <4> QED BY <4>1, <4>2, <4>3
    <3>4. Precedence'
      BY <2>2, <3>1, <3>3 DEF ConfigInv, Precedence, Overridden
    <3>5. DOMAIN config' = Fields /\ \A k \in Fields : config'[k] \in Values \union {Default[k]}
      BY <1>0, <2>5, <3>3, ValuesLemma DEF ConfigTypeOK, Flag
    <3>6. ConfigTypeOK'
      BY <1>0, <1>3, <3>1, <3>5 DEF ConfigTypeOK
    <3> QED BY <2>1, <3>1, <3>2, <3>4, <3>6 DEF ConfigInv
  <2>6. CASE Validate
    <3>1. /\ mainPc = "validate" /\ UNCHANGED <<written, next, flag, config>>
          /\ errors' = {k \in Fields : ~ Valid(k, config[k])}
          /\ mainPc' = IF errors' = {} THEN "running" ELSE "exited"
      BY <2>6 DEF Validate
    <3>2. next' = Len(written') + 1
      BY <3>1 DEF ConfigInv
    <3>3. Precedence'
      BY <2>2, <3>1 DEF ConfigInv, Precedence
    <3>4. ConfigTypeOK'
      BY <1>0, <1>3, <3>1 DEF ConfigTypeOK
    <3> QED BY <2>1, <3>1, <3>2, <3>3, <3>4 DEF ConfigInv
  <2> QED BY <1>1, <1>3, <2>3, <2>4, <2>5, <2>6 DEF ConfigNext
<1> QED BY <1>1, <1>2, <1>3 DEF ConfigNext, Loaded, FromEnv, Flag, Validate

LEMMA BoundedLemma == ConfigInv => Bounded
<1> USE ConfigAssumption
<1> SUFFICES ASSUME ConfigInv PROVE Bounded
  OBVIOUS
<1>1. ASSUME NEW k \in Ints \union Clock
      PROVE  k \in Fields /\ (Valid(k, config[k]) <=> Within(k, config[k]))
  <2>1. k \notin Floats /\ k # "Model" /\ k # "DiscordWebhook" /\ k \notin Switches
    BY DEF Ints, Clock, Floats, Switches
  <2> QED BY <2>1 DEF Valid, Fields
<1>2. ASSUME NEW k \in Floats
      PROVE  k \in Fields /\ (Valid(k, config[k]) => config[k].kind = "nan" \/ Within(k, config[k]))
  <2>1. k # "Model" /\ k # "DiscordWebhook" /\ k \notin Switches
    BY DEF Floats, Switches
  <2> QED BY <2>1 DEF Valid, Fields
<1>3. "Model" \in Fields /\ (Valid("Model", config["Model"]) => config["Model"] # Empty)
  <2>1. "Model" \notin Floats /\ "Model" # "DiscordWebhook" /\ "Model" \notin Switches
    BY DEF Floats, Switches
  <2>2. Valid("Model", config["Model"]) => config["Model"].kind \notin {"empty", "blank"}
    BY <2>1 DEF Valid
  <2>3. Empty.kind = "empty" /\ "Model" \in Fields
    BY DEF Empty, Word, Names, Fields
  <2> QED BY <2>2, <2>3
<1> QED BY <1>1, <1>2, <1>3 DEF ConfigInv, Bounded

LEMMA ConfigInvInit == ConfigInit => ConfigInv
<1> SUFFICES ASSUME ConfigInit PROVE ConfigInv
  OBVIOUS
<1>1. mainPc = "load" /\ config = Default
  BY DEF ConfigInit
<1> QED BY <1>1, InitLoading DEF ConfigInv, Precedence

LEMMA ConfigInvariant == ConfigSpec => []ConfigInv
  BY ConfigInvInit, ConfigStep, PTL DEF ConfigSpec

\* The environment has priority over the file and the file over the defaults,
\* the first of several lines counts, and what runs is within its bounds.
THEOREM ConfigSoundCorrect == ConfigSpec => []ConfigSound
<1>1. ConfigInv => ConfigSound
  BY BoundedLemma DEF ConfigInv, ConfigSound
<1> QED BY <1>1, ConfigInvariant, PTL

-----------------------------------------------------------------------------
(* The context of the prompts                                              *)


LEMMA MaxLemma == ASSUME NEW S, NEW x \in S, S \subseteq Int, \A y \in S : x >= y PROVE Max(S) = x
<1> SUFFICES (CHOOSE z \in S : \A y \in S : z >= y) = x
  BY DEF Max
<1>1. \A z \in S : (\A y \in S : z >= y) => z = x
  OBVIOUS
<1> QED BY <1>1

LEMMA MinLemma == ASSUME NEW S, NEW x \in S, S \subseteq Int, \A y \in S : x =< y PROVE Min(S) = x
<1> SUFFICES (CHOOSE z \in S : \A y \in S : z =< y) = x
  BY DEF Min
<1>1. \A z \in S : (\A y \in S : z =< y) => z = x
  OBVIOUS
<1> QED BY <1>1

LEMMA LeastOfTwo == \A a, b \in Int : Min({a, b}) = IF a <= b THEN a ELSE b
<1> SUFFICES ASSUME NEW a \in Int, NEW b \in Int PROVE Min({a, b}) = IF a <= b THEN a ELSE b
  OBVIOUS
<1>1. CASE a <= b
  BY <1>1, MinLemma
<1>2. CASE ~ (a <= b)
  BY <1>2, MinLemma
<1> QED BY <1>1, <1>2

LEMMA GreatestOfTwo == \A a, b \in Int : Max({a, b}) = IF a >= b THEN a ELSE b
<1> SUFFICES ASSUME NEW a \in Int, NEW b \in Int PROVE Max({a, b}) = IF a >= b THEN a ELSE b
  OBVIOUS
<1>1. CASE a >= b
  BY <1>1, MaxLemma
<1>2. CASE ~ (a >= b)
  BY <1>2, MaxLemma
<1> QED BY <1>1, <1>2

\* t is s after one more element x, of which a window of w is kept: x comes last, and
\* the others move down by one when the window was full.
Slid(t, s, x, w) ==
  /\ Len(s) \in Nat /\ Len(t) \in 1 .. w
  /\ \/ /\ Len(s) < w /\ Len(t) = Len(s) + 1
        /\ \A i \in 1 .. Len(s) : t[i] = s[i]
     \/ /\ Len(s) = w /\ Len(t) = w
        /\ \A i \in 1 .. w - 1 : t[i] = s[i + 1]
  /\ t[Len(t)] = x

LEMMA WindowLemma ==
  ASSUME NEW S, NEW s \in Seq(S), NEW x \in S, NEW w \in Nat \ {0}, Len(s) <= w
  PROVE  /\ Window(Append(s, x), w) \in Seq(S)
         /\ Slid(Window(Append(s, x), w), s, x, w)
<1> DEFINE a == Append(s, x)
<1>1. PICK n \in Nat : n = Len(s)
  BY LenProperties
<1>2. /\ a \in Seq(S) /\ Len(a) = n + 1 /\ a[n + 1] = x
      /\ \A i \in 1 .. n : a[i] = s[i]
  BY <1>1, AppendProperties
<1> HIDE DEF a
<1>3. CASE n < w
  <2>1. Max({1, Len(a) - w + 1}) = 1
    BY <1>2, <1>3, GreatestOfTwo
  <2>2. 1 \in 1 .. Len(a) + 1 /\ n + 1 \in 0 .. Len(a)
    BY <1>2
  <2>3. /\ SubSeq(a, 1, n + 1) \in Seq(S) /\ Len(SubSeq(a, 1, n + 1)) = n + 1
        /\ \A i \in 1 .. n + 1 : SubSeq(a, 1, n + 1)[i] = a[i]
    BY <1>2, <2>2, SubSeqProperties
  <2>4. Window(a, w) = SubSeq(a, 1, n + 1)
    BY <1>2, <2>1 DEF Window
  <2>5. Slid(SubSeq(a, 1, n + 1), s, x, w)
    BY <1>1, <1>2, <1>3, <2>3 DEF Slid
  <2> QED BY <2>3, <2>4, <2>5 DEF a
<1>4. CASE n = w
  <2>1. Max({1, Len(a) - w + 1}) = 2
    BY <1>2, <1>4, GreatestOfTwo
  <2>2. 2 \in 1 .. Len(a) + 1 /\ n + 1 \in 1 .. Len(a)
    BY <1>2, <1>4
  <2>3. /\ SubSeq(a, 2, n + 1) \in Seq(S) /\ Len(SubSeq(a, 2, n + 1)) = n
        /\ \A i \in 1 .. n : SubSeq(a, 2, n + 1)[i] = a[i + 1]
    BY <1>2, <2>2, SubSeqProperties
  <2>4. Window(a, w) = SubSeq(a, 2, n + 1)
    BY <1>2, <2>1 DEF Window
  <2>5. \A i \in 1 .. w - 1 : SubSeq(a, 2, n + 1)[i] = s[i + 1]
    BY <1>2, <1>4, <2>3
  <2>6. SubSeq(a, 2, n + 1)[n] = x
    BY <1>2, <1>4, <2>3
  <2>7. Slid(SubSeq(a, 2, n + 1), s, x, w)
    BY <1>1, <1>4, <2>3, <2>5, <2>6 DEF Slid
  <2> QED BY <2>3, <2>4, <2>7 DEF a
<1> QED BY <1>1, <1>3, <1>4

\* quiet, as far as the window reaches, is the distance to its last alert.
QuietMatches ==
  /\ \A i \in DOMAIN cycles : i > Len(cycles) - quiet => ~ IsAlert(i)
  /\ quiet < Len(cycles) => IsAlert(Len(cycles) - quiet)

CtxInv == ContextTypeOK /\ QuietMatches

LEMMA ContextInitInv == ContextInit => CtxInv
<1> USE ContextAssumption
<1> SUFFICES ASSUME ContextInit PROVE CtxInv
  OBVIOUS
<1>1. << >> \in Seq(Actions) /\ << >> \in Seq(Snapshots) /\ Len(<< >>) = 0 /\ DOMAIN << >> = {}
  BY EmptySeq
<1>2. 0 \in 0 .. CycleWindow + 1
  OBVIOUS
<1> QED BY <1>1, <1>2 DEF ContextInit, CtxInv, ContextTypeOK, QuietMatches

LEMMA AddCycleQuiet ==
  ASSUME CtxInv, NEW s \in Snapshots, NEW a \in Actions, AddCycle(s, a)
  PROVE  CtxInv'
<1> USE ContextAssumption
<1>0. /\ cycles \in Seq(Actions) /\ Len(cycles) <= CycleWindow
      /\ DOMAIN cycles = 1 .. Len(cycles)
      /\ quiet \in 0 .. CycleWindow + 1
  BY LenProperties DEF CtxInv, ContextTypeOK
<1>1. PICK t \in Seq(Actions) : cycles' = t /\ Slid(t, cycles, a, CycleWindow)
  BY <1>0, WindowLemma DEF AddCycle
<1>2. PICK n \in Nat, m \in 1 .. CycleWindow :
        /\ n = Len(cycles) /\ m = Len(t) /\ n <= CycleWindow
        /\ \/ n < CycleWindow /\ m = n + 1 /\ \A i \in 1 .. n : t[i] = cycles[i]
           \/ n = CycleWindow /\ m = n /\ \A i \in 1 .. n - 1 : t[i] = cycles[i + 1]
        /\ t[m] = a
  BY <1>0, <1>1 DEF Slid
<1>3. UNCHANGED snaps /\ adding' = s
  BY DEF AddCycle
<1>4. PICK q \in 0 .. CycleWindow + 1 :
        /\ quiet' = q
        /\ a = "alert" => q = 0
        /\ a # "alert" => q = IF quiet + 1 <= CycleWindow + 1 THEN quiet + 1 ELSE CycleWindow + 1
  <2>1. CASE a = "alert"
    BY <2>1 DEF AddCycle
  <2>2. CASE a # "alert"
    <3>1. quiet' = Min({quiet + 1, CycleWindow + 1})
      BY <2>2 DEF AddCycle
    <3>2. quiet' = IF quiet + 1 <= CycleWindow + 1 THEN quiet + 1 ELSE CycleWindow + 1
      BY <1>0, <3>1, LeastOfTwo
    <3> QED BY <1>0, <2>2, <3>2
  <2> QED BY <2>1, <2>2
<1>5. DOMAIN t = 1 .. m
  BY <1>2, LenProperties
<1>10. /\ n \in Nat /\ m \in Nat /\ n <= CycleWindow /\ CycleWindow \in Nat
       /\ (n < CycleWindow /\ m = n + 1) \/ (n = CycleWindow /\ m = n)
       /\ quiet \in 0 .. CycleWindow + 1
  <2>1. (n < CycleWindow /\ m = n + 1) \/ (n = CycleWindow /\ m = n)
    BY <1>2
  <2>2. CycleWindow \in Nat
    BY DEF ContextAssumption
  <2>3. m \in Nat /\ n <= CycleWindow
    BY <1>2, <2>2
  <2> QED BY <1>0, <2>1, <2>2, <2>3
<1>11. a # "alert" => q = IF quiet <= CycleWindow THEN quiet + 1 ELSE CycleWindow + 1
  BY <1>0, <1>4
<1>6. ContextTypeOK'
  BY <1>1, <1>2, <1>3, <1>4 DEF CtxInv, ContextTypeOK
<1>7. /\ \A i \in 1 .. n : i > n - quiet => cycles[i] # "alert"
      /\ quiet < n => cycles[n - quiet] = "alert"
  BY <1>0, <1>2 DEF CtxInv, QuietMatches, IsAlert
<1>8. \A i \in 1 .. m : i > m - q => t[i] # "alert"
  <2>1. CASE a = "alert"
    BY <1>4, <2>1
  <2>2. CASE a # "alert"
    <3> SUFFICES ASSUME NEW i \in 1 .. m, i > m - q PROVE t[i] # "alert"
      OBVIOUS
    <3>1. CASE i = m
      BY <1>2, <2>2, <3>1
    <3>2. CASE i < m /\ n < CycleWindow
      <4>1. t[i] = cycles[i] /\ i \in 1 .. n
        BY <1>2, <3>2
      <4>2. i > n - quiet
        BY <1>10, <1>11, <2>2, <3>2
      <4> QED BY <1>7, <4>1, <4>2
    <3>3. CASE i < m /\ n = CycleWindow
      <4>1. t[i] = cycles[i + 1] /\ i + 1 \in 1 .. n
        BY <1>2, <3>3
      <4>2. i + 1 > n - quiet
        BY <1>10, <1>11, <2>2, <3>3
      <4> QED BY <1>7, <4>1, <4>2
    <3> QED BY <1>2, <3>1, <3>2, <3>3
  <2> QED BY <2>1, <2>2
<1>9. q < m => t[m - q] = "alert"
  <2>1. CASE a = "alert"
    BY <1>2, <1>4, <2>1
  <2>2. CASE a # "alert" /\ q < m
    <3>1. q = quiet + 1 /\ quiet < n /\ m - q \in 1 .. m - 1
      BY <1>10, <1>11, <2>2
    <3>2. CASE n < CycleWindow
      <4>1. t[m - q] = cycles[m - q] /\ m - q = n - quiet
        BY <1>10, <1>2, <3>1, <3>2
      <4> QED BY <1>7, <3>1, <4>1
    <3>3. CASE n = CycleWindow
      <4>1. t[m - q] = cycles[m - q + 1]
        BY <1>2, <3>1, <3>3
      <4>2. m - q + 1 = n - quiet
        BY <1>0, <1>2, <3>1, <3>3
      <4> QED BY <1>7, <3>1, <4>1, <4>2
    <3> QED BY <1>2, <3>2, <3>3
  <2> QED BY <2>1, <2>2
<1> QED BY <1>1, <1>2, <1>4, <1>5, <1>6, <1>8, <1>9 DEF CtxInv, QuietMatches, IsAlert

LEMMA AddSnapshotQuiet == CtxInv /\ AddSnapshot => CtxInv'
<1> USE ContextAssumption
<1> SUFFICES ASSUME CtxInv, AddSnapshot PROVE CtxInv'
  OBVIOUS
<1>1. snaps \in Seq(Snapshots) /\ Len(snaps) <= SnapWindow /\ adding \in Snapshots
  BY DEF CtxInv, ContextTypeOK, AddSnapshot
<1>2. PICK t \in Seq(Snapshots) : snaps' = t /\ Slid(t, snaps, adding, SnapWindow)
  BY <1>1, WindowLemma DEF AddSnapshot
<1>3. Len(t) \in 1 .. SnapWindow
  BY <1>2 DEF Slid
<1>4. UNCHANGED <<cycles, quiet>> /\ adding' = NoSnapshot
  BY DEF AddSnapshot
<1>5. Len(t) <= SnapWindow
  BY <1>3
<1> QED BY <1>2, <1>4, <1>5 DEF CtxInv, ContextTypeOK, QuietMatches, IsAlert

LEMMA ContextStep == CtxInv /\ [ContextNext]_ContextVars => CtxInv'
<1> SUFFICES ASSUME CtxInv, [ContextNext]_ContextVars PROVE CtxInv'
  OBVIOUS
<1>1. CASE UNCHANGED ContextVars
  BY <1>1 DEF ContextVars, CtxInv, ContextTypeOK, QuietMatches, IsAlert
<1> QED BY <1>1, AddCycleQuiet, AddSnapshotQuiet DEF ContextNext

LEMMA ContextInvariant == ContextSpec => []CtxInv
  BY ContextInitInv, ContextStep, PTL DEF ContextSpec

LEMMA LeastElement ==
  ASSUME NEW S \in SUBSET Nat, S # {}
  PROVE  \E x \in S : \A y \in S : x <= y
<1>1. PICK R : IsWellFoundedOn(R, Nat) /\ \A x, y \in Nat : <<y, x>> \in R <=> y < x
  <2>1. \A x, y \in Nat : <<y, x>> \in OpToRel(<, Nat) <=> y < x
    BY Zenon DEF OpToRel
  <2> QED BY <2>1, NatLessThanWellFounded, Zenon
<1>2. \E x \in S : \A y \in S : <<y, x>> \notin R
  BY <1>1, WFMin
<1>3. \A x, y \in S : <<y, x>> \notin R => x <= y
  BY <1>1
<1> QED BY <1>2, <1>3, Zenon

LEMMA AlertLines == CtxInv => AlertLinesAgree
<1> USE ContextAssumption
<1> SUFFICES ASSUME CtxInv PROVE AlertLinesAgree
  OBVIOUS
<1>1. PICK n \in Nat : n = Len(cycles) /\ DOMAIN cycles = 1 .. n /\ (cycles # <<>> => n > 0)
  BY LenProperties, EmptySeq DEF CtxInv, ContextTypeOK
<1>2. PICK q \in Nat : quiet = q
  BY DEF CtxInv, ContextTypeOK
<1>3. AlertCycles \subseteq 1 .. n
  BY <1>1 DEF AlertCycles
<1>4. /\ \A i \in AlertCycles : i <= n - q
      /\ q < n => n - q \in AlertCycles
  BY <1>1, <1>2 DEF CtxInv, QuietMatches, AlertCycles
<1>5. q >= n => AlertCycles = {}
  BY <1>3, <1>4
<1>6. stableStreak = IF q < n THEN q ELSE n
  <2>1. CASE q < n
    <3>1. \A y \in AlertCycles \union {0} : n - q >= y
      BY <1>4, <2>1
    <3>2. AlertCycles \union {0} \subseteq Int
      BY <1>3
    <3>3. Max(AlertCycles \union {0}) = n - q
      BY <1>4, <2>1, <3>1, <3>2, MaxLemma
    <3> QED BY <1>1, <2>1, <3>3 DEF stableStreak
  <2>2. CASE ~ (q < n)
    <3>1. AlertCycles \union {0} = {0}
      BY <1>5, <2>2
    <3>2. Max(AlertCycles \union {0}) = 0
      BY <3>1, MaxLemma
    <3>3. stableStreak = n - Max(AlertCycles \union {0})
      BY <1>1 DEF stableStreak
    <3> QED BY <2>2, <3>2, <3>3
  <2> QED BY <2>1, <2>2
<1>7. PICK c \in Nat : c = Cardinality(AlertCycles) /\ (c = 0 <=> AlertCycles = {})
  <2>1. IsFiniteSet(1 .. n)
    BY FS_Interval
  <2>2. IsFiniteSet(AlertCycles)
    BY <1>3, <2>1, FS_Subset
  <2> QED BY <2>2, FS_CardinalityType, FS_EmptySet
<1>8. RecentAlerts = {} <=> AlertCycles = {}
  <2>1. ASSUME AlertCycles # {} PROVE RecentAlerts # {}
    <3>1. PICK i \in AlertCycles : \A j \in AlertCycles : i <= j
      BY <1>3, <2>1, LeastElement
    <3>2. {j \in AlertCycles : j < i} = {}
      <4>1. \A j \in AlertCycles : ~ (j < i)
        BY <1>3, <3>1
      <4> QED BY <4>1
    <3>3. Cardinality({j \in AlertCycles : j < i}) < RecentLimit
      BY <3>2, FS_EmptySet DEF ContextAssumption
    <3> QED BY <3>3 DEF RecentAlerts
  <2> QED BY <2>1 DEF RecentAlerts
<1>9. /\ Says.noAlerts <=> n > 0 /\ c = 0
      /\ Says.vigilant <=> n > 0 /\ 100 * c > 20 * n
      /\ Says.lists = IF n > 0 THEN RecentAlerts ELSE {}
      /\ Says.since = IF n > 0 /\ stableStreak >= 3 THEN stableStreak ELSE 0
  BY <1>1, <1>7 DEF Says, BuildAdaptiveContext
<1>10. Says.noAlerts => Says.lists = {} /\ ~ Says.vigilant /\ quiet >= Len(cycles)
  BY <1>1, <1>2, <1>4, <1>7, <1>8, <1>9
<1>11. Says.lists = {} /\ cycles # <<>> => Says.noAlerts
  BY <1>1, <1>7, <1>8, <1>9
<1>12. Says.since = IF quiet >= 3 /\ Len(cycles) >= 3 THEN Min({quiet, Len(cycles)}) ELSE 0
  BY <1>1, <1>2, <1>6, <1>9, LeastOfTwo
<1> QED BY <1>10, <1>11, <1>12 DEF AlertLinesAgree

\* Rounding a quotient moves it by less than one.
LEMMA RoundLemma ==
  ASSUME NEW p \in Nat, NEW q \in Nat \ {0}
  PROVE  /\ Rounded(p, q) \in Nat
         /\ (Rounded(p, q) - 1) * q < p
         /\ (Rounded(p, q) + 1) * q >= p
<1>1. PICK d \in Nat, r \in 0 .. q - 1 : d = p \div q /\ r = p % q /\ p = d * q + r
  OBVIOUS
<1>2. (d - 1) * q = d * q - q /\ (d + 1) * q = d * q + q /\ (d + 2) * q = d * q + 2 * q
  OBVIOUS
<1>3. CASE Rounded(p, q) = d
  BY <1>1, <1>2, <1>3
<1>4. CASE Rounded(p, q) = d + 1 /\ r > 0
  BY <1>1, <1>2, <1>4
<1>5. Rounded(p, q) = d \/ (Rounded(p, q) = d + 1 /\ r > 0)
  BY <1>1 DEF Rounded
<1> QED BY <1>3, <1>4, <1>5

LEMMA Forecasts == CtxInv => ForecastHolds
<1> USE ContextAssumption
<1> SUFFICES ASSUME CtxInv, NEW m \in {"cpu", "ram"}
             PROVE  LET n == BuildAdaptiveContext.forecast[m]
                        value(k) == Current(m) * Steps + k * Rise(m)
                    IN  IF n = NoForecast
                          THEN Enough /\ Rise(m) > 0 /\ Current(m) < Thresholds[m] =>
                                 value(100) < Thresholds[m] * Steps
                          ELSE /\ BuildAdaptiveContext.trend[m] # "critical"
                               /\ value(n - 1) < Thresholds[m] * Steps
                               /\ value(n + 1) >= Thresholds[m] * Steps
  BY DEF ForecastHolds
<1>1. /\ BuildAdaptiveContext.forecast[m] = forecastCycles(m)
      /\ BuildAdaptiveContext.trend[m] = trendWithThreshold(m)
  BY DEF BuildAdaptiveContext
<1>2. Enough => /\ Current(m) \in Int /\ Rise(m) \in Int /\ Thresholds[m] \in Int
                /\ Steps \in Nat
  <2> SUFFICES ASSUME Enough
               PROVE  /\ Current(m) \in Int /\ Rise(m) \in Int /\ Thresholds[m] \in Int
                      /\ Steps \in Nat
    OBVIOUS
  <2>1. PICK k \in Nat : k = Len(snaps) /\ k >= 3 /\ snaps[1] \in Snapshots /\ snaps[k] \in Snapshots
    BY LenProperties, ElementOfSeq DEF CtxInv, ContextTypeOK, Enough
  <2>2. \A s \in Snapshots : s[m] \in Int
    BY DEF Snapshots, ContextAssumption
  <2>3. Thresholds[m] \in Int
    BY DEF Thresholds, ContextAssumption
  <2>4. Current(m) \in Int
    BY <2>1, <2>2 DEF Current
  <2>5. snaps[1][m] \in Int
    BY <2>1, <2>2
  <2>6. Rise(m) \in Int
    BY <2>4, <2>5 DEF Rise
  <2>7. Steps \in Nat
    BY <2>1 DEF Steps
  <2> QED BY <2>3, <2>4, <2>6, <2>7
<1>3. CASE ~ (Enough /\ Rise(m) > 0 /\ Current(m) < Thresholds[m])
  <2>1. forecastCycles(m) = NoForecast
    <3>1. ~ Enough \/ Current(m) >= Thresholds[m] \/ Rise(m) <= 0
      BY <1>2, <1>3
    <3> QED BY <3>1 DEF forecastCycles
  <2> QED BY <1>1, <1>3, <2>1
<1>4. CASE Enough /\ Rise(m) > 0 /\ Current(m) < Thresholds[m]
  <2>1. PICK t \in Int, c \in Int, rise \in Int, steps \in Nat :
          t = Thresholds[m] /\ c = Current(m) /\ rise = Rise(m) /\ steps = Steps
    BY <1>2, <1>4
  <2>2. rise \in Nat \ {0} /\ c < t
    BY <1>4, <2>1
  <2>3. PICK p \in Nat : p = (t - c) * steps
    BY <2>1, <2>2
  <2>4. forecastCycles(m) = IF p > 100 * rise THEN NoForecast ELSE Rounded(p, rise)
    <3>1. ~ (~ Enough \/ Current(m) >= Thresholds[m] \/ Rise(m) <= 0)
      BY <1>4, <2>1
    <3> QED BY <2>1, <2>3, <3>1 DEF forecastCycles
  <2>5. t * steps = c * steps + p
    BY <2>1, <2>2, <2>3
  <2>6. CASE p > 100 * rise
    BY <1>1, <2>1, <2>4, <2>5, <2>6
  <2>7. CASE ~ (p > 100 * rise)
    <3>1. PICK n \in Nat : n = Rounded(p, rise) /\ (n - 1) * rise < p /\ (n + 1) * rise >= p
      BY <2>2, RoundLemma
    <3>2. trendWithThreshold(m) # "critical"
      <4>1. Enough /\ ~ (Current(m) >= Thresholds[m])
        BY <1>4, <2>1
      <4> QED BY <4>1 DEF trendWithThreshold
    <3>3. n # NoForecast
      BY DEF NoForecast
    <3> QED BY <1>1, <2>1, <2>4, <2>5, <2>7, <3>1, <3>2, <3>3
  <2> QED BY <2>6, <2>7
<1> QED BY <1>3, <1>4

\* The lines of the prompt on alerts, and its projections, are true of the windows.
THEOREM ContextConsistentCorrect == ContextSpec => []ContextConsistent
<1>1. CtxInv => ContextConsistent
  BY AlertLines, Forecasts DEF ContextConsistent
<1> QED BY <1>1, ContextInvariant, PTL

-----------------------------------------------------------------------------
(* The event log                                                           *)


\* The missing backups below .i.
Holes(i) == {h \in 1 .. i - 1 : ~ Exists(h)}

\* A rotation moves the backups above the one it has come to away from a free number.
Slack(i) == IF Rotating /\ i > from + 1 THEN 1 ELSE 0

\* All backups, and, when something was lost, the number after the last.
Tops == (DOMAIN files \ {0}) \union (IF accepted # Kept THEN {MaxBackups + 1} ELSE {})

\* A number is free only where a rotation was spoiled.
FewHoles == \A i \in Tops : Cardinality(Holes(i)) <= spoiled + Slack(i)

\* The number the next rename goes to is free, unless the oldest could not be removed.
GapAhead == Rotating => ~ Exists(from + 1) \/ from + 1 = MaxBackups

SuffixLeft == Kept \subseteq accepted /\ \A lost \in accepted \ Kept, n \in Kept : lost < n

\* Backups are full files; Write rotates a full file and appends to another.
FullBackups ==
  /\ \A i \in DOMAIN files \ {0} : Len(files[i]) = MaxSize
  /\ logPc = "remove" \/ Rotating => Full
  /\ logPc = "append" => ~ Full
  /\ logPc = "shift" => from \in 1 .. MaxBackups - 1
  /\ logPc = "archive" => from = IF MaxBackups = 0 THEN -1 ELSE 0

NumbersPast ==
  /\ logPc # "idle" => calls >= 1
  /\ \A i \in DOMAIN files : \A n \in Range(files[i]) :
       n <= calls /\ (logPc # "idle" => n < calls)
  /\ \A n \in accepted : n <= calls /\ (logPc # "idle" => n < calls)

LogState == LogTypeOK /\ FullBackups /\ NumbersPast

-----------------------------------------------------------------------------

LEMMA SlotNumbers ==
  LogTypeOK => /\ \A i \in DOMAIN files : i \in Nat /\ (i <= MaxBackups \/ i <= 1)
               /\ \A i \in DOMAIN files : files[i] \in Seq(1 .. LogCalls)
  BY MaxBackupsAssumption, MaxSizeAssumption, LogCallsAssumption, LogSpoilsAssumption
     DEF LogTypeOK, Slots

LEMMA KeptMembers == \A n : n \in Kept <=> \E i \in DOMAIN files : n \in Range(files[i])
  BY DEF Kept

\* A rename to the next number.
LEMMA MovedFiles ==
  ASSUME NEW a \in Nat, Exists(a), files' = Renamed(a, a + 1)
  PROVE  /\ DOMAIN files' = (DOMAIN files \ {a}) \union {a + 1}
         /\ files'[a + 1] = files[a]
         /\ \A k \in DOMAIN files' : k # a + 1 => k \in DOMAIN files /\ k # a /\ files'[k] = files[k]
         /\ \A k \in DOMAIN files : k # a /\ k # a + 1 => k \in DOMAIN files' /\ files'[k] = files[k]
  BY DEF Renamed, Exists

LEMMA RemovedFiles ==
  ASSUME NEW a, files' = Without(a)
  PROVE  /\ DOMAIN files' = DOMAIN files \ {a}
         /\ \A k \in DOMAIN files' : files'[k] = files[k]
  BY DEF Without

\* An append.
LEMMA AppendedFiles ==
  ASSUME LogState, LogAppend
  PROVE  /\ DOMAIN files' = DOMAIN files \union {0}
         /\ \A k \in DOMAIN files : k # 0 => files'[k] = files[k]
         /\ files'[0] \in Seq(1 .. LogCalls)
         /\ Len(files'[0]) <= MaxSize
         /\ Range(files'[0]) = (IF Exists(0) THEN Range(files[0]) ELSE {}) \union {calls}
         /\ \A n \in Range(files'[0]) : n <= calls
         /\ (\A j, k \in DOMAIN files[0] : j < k => files[0][j] < files[0][k])
            => \A j, k \in DOMAIN files'[0] : j < k => files'[0][j] < files'[0][k]
<1> USE MaxBackupsAssumption, MaxSizeAssumption, LogCallsAssumption, LogSpoilsAssumption
<1>1. PICK s : s = IF Exists(0) THEN files[0] ELSE << >>
  OBVIOUS
<1>2. s \in Seq(1 .. LogCalls) /\ Len(s) < MaxSize /\ Len(s) \in Nat /\ DOMAIN s = 1 .. Len(s)
  <2>1. CASE Exists(0)
    BY <1>1, <2>1, LenProperties DEF LogState, LogTypeOK, FullBackups, Full, LogAppend, Exists
  <2>2. CASE ~ Exists(0)
    BY <1>1, <2>2, EmptySeq
  <2> QED BY <2>1, <2>2
<1>3. /\ DOMAIN files' = DOMAIN files \union {0}
      /\ \A k \in DOMAIN files : k # 0 => files'[k] = files[k]
      /\ files'[0] = Append(s, calls)
  BY <1>1 DEF LogAppend
<1>4. calls \in 1 .. LogCalls
  BY DEF LogState, LogTypeOK, NumbersPast, LogAppend
<1>5. PICK t : t = Append(s, calls)
  OBVIOUS
<1>6. PICK m \in Nat : m = Len(s)
  BY <1>2
<1>7. /\ t \in Seq(1 .. LogCalls) /\ Len(t) = m + 1 /\ DOMAIN t = 1 .. m + 1
      /\ \A i \in 1 .. m : t[i] = s[i]
      /\ t[m + 1] = calls
  BY <1>2, <1>4, <1>5, <1>6, AppendProperties, LenProperties
<1>8. Range(t) = Range(s) \union {calls}
  <2>1. ASSUME NEW n \in Range(t) PROVE n \in Range(s) \union {calls}
    BY <1>2, <1>6, <1>7 DEF Range
  <2>2. ASSUME NEW n \in Range(s) PROVE n \in Range(t)
    BY <1>2, <1>6, <1>7 DEF Range
  <2>3. calls \in Range(t)
    BY <1>6, <1>7 DEF Range
  <2> QED BY <2>1, <2>2, <2>3
<1>9. Range(s) = IF Exists(0) THEN Range(files[0]) ELSE {}
  BY <1>1, EmptySeq DEF Range
<1>10. \A n \in Range(s) : n < calls /\ n \in Nat
  <2> SUFFICES ASSUME Exists(0), NEW n \in Range(files[0]) PROVE n < calls /\ n \in Nat
    BY <1>9
  <2>1. n < calls
    BY DEF LogState, NumbersPast, LogAppend, Exists
  <2>2. s = files[0]
    BY <1>1
  <2>3. n \in 1 .. LogCalls
    BY <1>2, <2>2, ElementOfSeq DEF Range
  <2> QED BY <2>1, <2>3
<1>11. ASSUME \A j, k \in DOMAIN files[0] : j < k => files[0][j] < files[0][k],
              NEW j \in 1 .. m + 1, NEW k \in 1 .. m + 1, j < k
       PROVE  t[j] < t[k]
  <2>1. j \in 1 .. m /\ t[j] = s[j]
    BY <1>7, <1>11
  <2>2. Exists(0) /\ s = files[0]
    <3>1. ~ Exists(0) => m = 0
      BY <1>1, <1>6, EmptySeq
    <3> QED BY <1>1, <2>1, <3>1
  <2>3. CASE k \in 1 .. m
    BY <1>2, <1>6, <1>7, <1>11, <2>1, <2>2, <2>3
  <2>4. CASE k = m + 1
    <3>1. s[j] \in Range(s)
      BY <1>2, <1>6, <2>1 DEF Range
    <3> QED BY <1>7, <1>10, <2>1, <2>4, <3>1
  <2> QED BY <2>3, <2>4
<1>12. \A n \in Range(t) : n <= calls
  BY <1>4, <1>8, <1>10
<1> QED BY <1>2, <1>3, <1>5, <1>6, <1>7, <1>8, <1>9, <1>11, <1>12

-----------------------------------------------------------------------------
(* Order                                                                   *)

\* Files that keep their order keep the order of the entries.
LEMMA OrderKept ==
  ASSUME InOrderOnce, NEW origin,
         \A k \in DOMAIN files' : origin[k] \in DOMAIN files /\ files'[k] = files[origin[k]],
         \A i, j \in DOMAIN files' : i < j => origin[i] < origin[j]
  PROVE  InOrderOnce'
  BY DEF InOrderOnce

LEMMA MovedOrder ==
  ASSUME LogTypeOK, InOrderOnce, NEW a \in Nat, Exists(a), files' = Renamed(a, a + 1)
  PROVE  InOrderOnce'
<1> DEFINE origin == [k \in DOMAIN files' |-> IF k = a + 1 THEN a ELSE k]
<1>1. \A k \in DOMAIN files' : origin[k] \in DOMAIN files /\ files'[k] = files[origin[k]]
  <2>1. /\ DOMAIN files' = (DOMAIN files \ {a}) \union {a + 1}
        /\ files'[a + 1] = files[a]
        /\ \A k \in DOMAIN files' : k # a + 1 => k \in DOMAIN files /\ k # a /\ files'[k] = files[k]
        /\ \A k \in DOMAIN files : k # a /\ k # a + 1 => k \in DOMAIN files' /\ files'[k] = files[k]
    BY MovedFiles
  <2>2. a \in DOMAIN files
    BY DEF Exists
  <2> QED BY <2>1, <2>2
<1>2. \A k \in DOMAIN files' : k \in Nat /\ k # a
  <2> SUFFICES ASSUME NEW k \in DOMAIN files' PROVE k \in Nat /\ k # a
    OBVIOUS
  <2>1. CASE k = a + 1
    BY <2>1
  <2>2. CASE k # a + 1
    BY <2>2, MovedFiles, SlotNumbers
  <2> QED BY <2>1, <2>2
<1>3. \A i, j \in DOMAIN files' : i < j => origin[i] < origin[j]
  <2> SUFFICES ASSUME NEW i \in DOMAIN files', NEW j \in DOMAIN files', i < j
               PROVE  origin[i] < origin[j]
    OBVIOUS
  <2>1. origin[i] = (IF i = a + 1 THEN a ELSE i) /\ origin[j] = (IF j = a + 1 THEN a ELSE j)
    OBVIOUS
  <2>2. i \in Nat /\ j \in Nat /\ i # a /\ j # a
    BY <1>2
  <2> HIDE DEF origin
  <2>3. CASE i = a + 1
    BY <2>1, <2>2, <2>3
  <2>4. CASE j = a + 1
    BY <2>1, <2>2, <2>4
  <2>5. CASE i # a + 1 /\ j # a + 1
    BY <2>1, <2>2, <2>5
  <2> QED BY <2>3, <2>4, <2>5
<1> HIDE DEF origin
<1> QED BY <1>1, <1>3, OrderKept

LEMMA RemovedOrder ==
  ASSUME InOrderOnce, NEW a, files' = Without(a)
  PROVE  InOrderOnce'
<1> DEFINE origin == [k \in DOMAIN files' |-> k]
<1>1. /\ \A k \in DOMAIN files' : origin[k] \in DOMAIN files /\ files'[k] = files[origin[k]]
      /\ \A i, j \in DOMAIN files' : i < j => origin[i] < origin[j]
  BY RemovedFiles
<1> HIDE DEF origin
<1> QED BY <1>1, OrderKept

-----------------------------------------------------------------------------
(* What is left of the log                                                 *)

\* A step that leaves all files, or all but the last, leaves a suffix.
LEMMA SuffixKept ==
  ASSUME LogState, InOrderOnce, SuffixLeft, accepted' = accepted, NEW t,
         t \in DOMAIN files => \A i \in DOMAIN files : i = t \/ i < t,
         \A k \in DOMAIN files' : \E i \in DOMAIN files : i # t /\ files'[k] = files[i],
         \A i \in DOMAIN files : i # t => \E k \in DOMAIN files' : files'[k] = files[i]
  PROVE  SuffixLeft' /\ (t \notin DOMAIN files => Kept' = Kept)
<1>1. \A n : n \in Kept' <=> \E i \in DOMAIN files : i # t /\ n \in Range(files[i])
  <2>1. \A n : n \in Kept' <=> \E k \in DOMAIN files' : n \in Range(files'[k])
    BY DEF Kept
  <2> QED BY <2>1
<1>2. Kept' \subseteq Kept /\ (t \notin DOMAIN files => Kept' = Kept)
  BY <1>1, KeptMembers
<1>3. ASSUME NEW lost \in accepted, lost \notin Kept', NEW n \in Kept' PROVE lost < n
  <2>1. CASE lost \notin Kept
    BY <1>2, <2>1 DEF SuffixLeft
  <2>2. CASE lost \in Kept
    <3>1. t \in DOMAIN files /\ lost \in Range(files[t])
      BY <1>1, <1>3, <2>2, KeptMembers
    <3>2. PICK i \in DOMAIN files : i # t /\ n \in Range(files[i])
      BY <1>1
    <3>3. i < t
      BY <3>1, <3>2
    <3> QED BY <3>1, <3>2, <3>3 DEF InOrderOnce
  <2> QED BY <2>1, <2>2
<1> QED BY <1>2, <1>3 DEF SuffixLeft

LEMMA AppendedSuffix ==
  ASSUME LogState, SuffixLeft, LogAppend
  PROVE  SuffixLeft' /\ Kept' = Kept \union {calls}
<1>1. Kept' = Kept \union {calls}
  <2>1. \A n : n \in Kept' <=> \E k \in DOMAIN files' : n \in Range(files'[k])
    BY DEF Kept
  <2>2. ASSUME NEW n PROVE n \in Kept' <=> n \in Kept \/ n = calls
    <3>1. ASSUME NEW k \in DOMAIN files', n \in Range(files'[k]) PROVE n \in Kept \/ n = calls
      <4>1. CASE k = 0
        BY <3>1, <4>1, AppendedFiles, KeptMembers DEF Exists
      <4>2. CASE k # 0
        BY <3>1, <4>2, AppendedFiles, KeptMembers
      <4> QED BY <4>1, <4>2
    <3>2. ASSUME NEW k \in DOMAIN files, n \in Range(files[k]) PROVE n \in Kept'
      <4>1. CASE k = 0
        BY <2>1, <3>2, <4>1, AppendedFiles DEF Exists
      <4>2. CASE k # 0
        BY <2>1, <3>2, <4>2, AppendedFiles
      <4> QED BY <4>1, <4>2
    <3>3. calls \in Kept'
      BY <2>1, AppendedFiles
    <3> QED BY <2>1, <3>1, <3>2, <3>3, KeptMembers
  <2> QED BY <2>2
<1>2. accepted' = accepted \union {calls}
  BY DEF LogAppend
<1>3. \A n \in accepted : n < calls
  BY DEF LogState, NumbersPast, LogAppend
<1> QED BY <1>1, <1>2, <1>3 DEF SuffixLeft

-----------------------------------------------------------------------------
(* Types, full files and numbers                                           *)

\* A file, as the types and FullBackups and NumbersPast want it.
GoodFile(i, f) ==
  /\ f \in Seq(1 .. LogCalls) /\ Len(f) <= MaxSize
  /\ i # 0 => Len(f) = MaxSize

LEMMA GoodFiles ==
  LogState <=>
    /\ DOMAIN files \subseteq Slots /\ \A i \in DOMAIN files : GoodFile(i, files[i])
    /\ logPc \in {"idle", "remove", "shift", "archive", "append"}
    /\ from \in -1 .. MaxBackups /\ calls \in 0 .. LogCalls
    /\ accepted \subseteq 1 .. LogCalls /\ spoiled \in 0 .. LogSpoils /\ shiftFailed \in BOOLEAN
    /\ logPc = "remove" \/ Rotating => Full
    /\ logPc = "append" => ~ Full
    /\ logPc = "shift" => from \in 1 .. MaxBackups - 1
    /\ logPc = "archive" => from = IF MaxBackups = 0 THEN -1 ELSE 0
    /\ NumbersPast
  BY DEF LogState, LogTypeOK, FullBackups, GoodFile

LEMMA LogStateStep == LogState /\ [LogNext]_LogVars => LogState'
<1> USE MaxBackupsAssumption, MaxSizeAssumption, LogCallsAssumption, LogSpoilsAssumption
<1> SUFFICES ASSUME LogState, [LogNext]_LogVars PROVE LogState'
  OBVIOUS
<1>0. /\ DOMAIN files \subseteq Slots /\ \A i \in DOMAIN files : GoodFile(i, files[i])
      /\ logPc \in {"idle", "remove", "shift", "archive", "append"}
      /\ from \in -1 .. MaxBackups /\ calls \in 0 .. LogCalls
      /\ accepted \subseteq 1 .. LogCalls /\ spoiled \in 0 .. LogSpoils /\ shiftFailed \in BOOLEAN
      /\ logPc = "remove" \/ Rotating => Full
      /\ logPc = "append" => ~ Full
      /\ logPc = "shift" => from \in 1 .. MaxBackups - 1
      /\ logPc = "archive" => from = IF MaxBackups = 0 THEN -1 ELSE 0
      /\ NumbersPast
  BY GoodFiles
<1>n. /\ logPc # "idle" => calls >= 1
      /\ \A i \in DOMAIN files : \A n \in Range(files[i]) :
           n \in Nat /\ n <= calls /\ (logPc # "idle" => n < calls)
      /\ \A n \in accepted : n <= calls /\ (logPc # "idle" => n < calls)
  <2>1. \A i \in DOMAIN files : \A n \in Range(files[i]) : n \in Nat
    BY <1>0, LenProperties, ElementOfSeq DEF GoodFile, Range
  <2> QED BY <1>0, <2>1 DEF NumbersPast
\* Steps that leave the files alone.
<1>1. CASE UNCHANGED LogVars
  BY <1>1 DEF LogVars, LogState, LogTypeOK, FullBackups, NumbersPast, Rotating, Full, Exists
<1>2. CASE LogWrite
  BY <1>0, <1>n, <1>2 DEF LogWrite, LogState, LogTypeOK, FullBackups, NumbersPast, GoodFile,
                          Rotating, Full, Exists
<1>3. CASE LogStatFails
  BY <1>0, <1>n, <1>3 DEF LogStatFails, LogState, LogTypeOK, FullBackups, NumbersPast, GoodFile,
                          Rotating, Full, Exists
<1>4. CASE LogArchiveFails
  BY <1>0, <1>n, <1>4
     DEF LogArchiveFails, LogState, LogTypeOK, FullBackups, NumbersPast, GoodFile,
                          Rotating, Full, Exists
<1>5. CASE LogCrash
  BY <1>0, <1>n, <1>5 DEF LogCrash, LogState, LogTypeOK, FullBackups, NumbersPast, GoodFile,
                          Rotating, Full, Exists
\* Steps that move or remove files.
<1>6. ASSUME \A k \in DOMAIN files' : k \in Slots /\ \E i \in DOMAIN files : files'[k] = files[i]
                                                       /\ (k = 0 => i = 0) /\ (k # 0 => Len(files[i]) = MaxSize),
             logPc # "idle", UNCHANGED <<calls, accepted>>
      PROVE  NumbersPast' /\ \A k \in DOMAIN files' : k \in Slots /\ GoodFile(k, files'[k])
  BY <1>0, <1>n, <1>6 DEF NumbersPast, GoodFile
<1>7. ASSUME NEW ok \in BOOLEAN, LogRemove(ok) PROVE LogState'
  <2>1. /\ logPc = "remove" /\ from' = MaxBackups - 1 /\ logPc' = AfterShift(MaxBackups)
        /\ UNCHANGED <<calls, accepted, spoiled, shiftFailed>>
    BY <1>7 DEF LogRemove
  <2>2. /\ \A k \in DOMAIN files' : k \in DOMAIN files /\ files'[k] = files[k]
        /\ 0 \in DOMAIN files => 0 \in DOMAIN files'
    <3>1. CASE files' = files
      BY <3>1
    <3>2. CASE files' = Without(MaxBackups) /\ MaxBackups > 0
      <4>1. MaxBackups # 0
        BY <3>2
      <4> QED BY <3>2, <4>1, RemovedFiles
    <3> QED BY <1>7, <3>1, <3>2 DEF LogRemove
  <2>3. NumbersPast' /\ \A k \in DOMAIN files' : k \in Slots /\ GoodFile(k, files'[k])
    BY <1>0, <1>6, <2>1, <2>2 DEF GoodFile
  <2>4. Full'
    BY <1>0, <2>1, <2>2 DEF Full, Exists
  <2>5. /\ logPc' \in {"shift", "archive"}
        /\ logPc' = "shift" => from' \in 1 .. MaxBackups - 1
        /\ logPc' = "archive" => from' = IF MaxBackups = 0 THEN -1 ELSE 0
        /\ from' \in -1 .. MaxBackups
    BY <2>1 DEF AfterShift
  <2> QED BY <1>0, <2>1, <2>3, <2>4, <2>5 DEF LogState, LogTypeOK, FullBackups, GoodFile
<1>8. ASSUME NEW ok \in BOOLEAN, LogShift(ok) PROVE LogState'
  <2>1. /\ logPc = "shift" /\ from' = from - 1 /\ logPc' = AfterShift(from)
        /\ UNCHANGED <<calls, accepted, spoiled>> /\ shiftFailed' \in BOOLEAN
        /\ from \in 1 .. MaxBackups - 1
    BY <1>0, <1>8 DEF LogShift
  <2>2. /\ \A k \in DOMAIN files' : k \in Slots /\ \E i \in DOMAIN files : files'[k] = files[i]
                                                    /\ (k = 0 => i = 0) /\ (k # 0 => i # 0)
        /\ 0 \in DOMAIN files => 0 \in DOMAIN files' /\ files'[0] = files[0]
    <3>1. CASE files' = files
      BY <1>0, <3>1
    <3>2. CASE files' = Renamed(from, from + 1) /\ Exists(from)
      <4>1. from + 1 \in Slots /\ from + 1 # 0 /\ from # 0 /\ from \in Nat
        BY <2>1 DEF Slots
      <4>2. /\ from \in DOMAIN files /\ files'[from + 1] = files[from]
            /\ \A k \in DOMAIN files' : k # from + 1 => k \in DOMAIN files /\ files'[k] = files[k]
            /\ \A k \in DOMAIN files : k # from /\ k # from + 1 => k \in DOMAIN files' /\ files'[k] = files[k]
        <5>1. PICK a \in Nat : a = from
          BY <4>1
        <5>2. Exists(a) /\ files' = Renamed(a, a + 1)
          BY <3>2, <5>1
        <5>3. a \in DOMAIN files
          BY <5>2 DEF Exists
        <5>4. /\ files'[a + 1] = files[a]
              /\ \A k \in DOMAIN files' : k # a + 1 => k \in DOMAIN files /\ files'[k] = files[k]
              /\ \A k \in DOMAIN files : k # a /\ k # a + 1 => k \in DOMAIN files' /\ files'[k] = files[k]
          <6>1. files'[a + 1] = files[a]
            BY <5>2, MovedFiles
          <6>2. \A k \in DOMAIN files' : k # a + 1 => k \in DOMAIN files /\ files'[k] = files[k]
            <7>1. \A k \in DOMAIN files' : k # a + 1 => k \in DOMAIN files /\ k # a /\ files'[k] = files[k]
              BY <5>2, MovedFiles, Zenon
            <7> QED BY <7>1, Zenon
          <6>3. \A k \in DOMAIN files : k # a /\ k # a + 1 => k \in DOMAIN files' /\ files'[k] = files[k]
            BY <5>2, MovedFiles
          <6> QED BY <6>1, <6>2, <6>3
        <5> QED BY <5>1, <5>3, <5>4
      <4>3. 0 \in DOMAIN files => 0 \in DOMAIN files' /\ files'[0] = files[0]
        BY <4>1, <4>2
      <4>4. ASSUME NEW k \in DOMAIN files'
            PROVE  k \in Slots /\ \E i \in DOMAIN files : files'[k] = files[i]
                                                  /\ (k = 0 => i = 0) /\ (k # 0 => i # 0)
        <5>1. CASE k = from + 1
          BY <4>1, <4>2, <5>1
        <5>2. CASE k # from + 1
          BY <1>0, <4>2, <5>2
        <5> QED BY <5>1, <5>2
      <4> QED BY <4>3, <4>4
    <3> QED BY <1>8, <3>1, <3>2 DEF LogShift
  <2>3. NumbersPast' /\ \A k \in DOMAIN files' : k \in Slots /\ GoodFile(k, files'[k])
    BY <1>0, <1>6, <2>1, <2>2 DEF GoodFile
  <2>4. Full'
    BY <1>0, <2>1, <2>2 DEF Full, Exists, Rotating
  <2>5. /\ logPc' \in {"shift", "archive"}
        /\ logPc' = "shift" => from' \in 1 .. MaxBackups - 1
        /\ logPc' = "archive" => from' = IF MaxBackups = 0 THEN -1 ELSE 0
        /\ from' \in -1 .. MaxBackups
    BY <2>1 DEF AfterShift
  <2> QED BY <1>0, <2>1, <2>3, <2>4, <2>5 DEF LogState, LogTypeOK, FullBackups, GoodFile
<1>9. CASE LogArchive
  <2>1. /\ logPc = "archive" /\ logPc' = "append" /\ files' = Renamed(0, 0 + 1)
        /\ UNCHANGED <<from, calls, accepted, spoiled, shiftFailed>>
    BY <1>9 DEF LogArchive
  <2>2. Exists(0) /\ Len(files[0]) = MaxSize
    BY <1>0, <2>1, LenProperties DEF Full, Exists, Rotating, GoodFile
  <2>3. 0 + 1 = 1 /\ 1 \in Slots
    BY DEF Slots
  <2>4. /\ 0 \notin DOMAIN files'
        /\ \A k \in DOMAIN files' : k \in Slots /\ \E i \in DOMAIN files : files'[k] = files[i]
                                                    /\ (k = 0 => i = 0) /\ (k # 0 => Len(files[i]) = MaxSize)
    <3>1. /\ DOMAIN files' = (DOMAIN files \ {0}) \union {1}
          /\ files'[1] = files[0]
          /\ \A k \in DOMAIN files' : k # 1 => k \in DOMAIN files /\ k # 0 /\ files'[k] = files[k]
          /\ \A k \in DOMAIN files : k # 0 /\ k # 1 => k \in DOMAIN files' /\ files'[k] = files[k]
      <4>1. 0 \in Nat
        OBVIOUS
      <4> QED BY <2>1, <2>2, <2>3, <4>1, MovedFiles
    <3>2. 0 \in DOMAIN files
      BY <2>2 DEF Exists
    <3> QED BY <1>0, <2>2, <2>3, <3>1, <3>2 DEF GoodFile
  <2>5. NumbersPast' /\ \A k \in DOMAIN files' : k \in Slots /\ GoodFile(k, files'[k])
    BY <1>6, <2>1, <2>4
  <2> QED BY <1>0, <2>1, <2>4, <2>5
             DEF LogState, LogTypeOK, FullBackups, GoodFile, Full, Exists, Rotating
\* Steps that write.
<1>10. CASE LogAppend
  <2>1. /\ logPc' = "idle" /\ UNCHANGED <<from, calls, spoiled, shiftFailed>>
        /\ accepted' = accepted \union {calls} /\ calls \in 1 .. LogCalls
    BY <1>0, <1>n, <1>10 DEF LogAppend
  <2>2. \A k \in DOMAIN files' : k \in Slots /\ GoodFile(k, files'[k])
    BY <1>0, <1>10, AppendedFiles DEF GoodFile, Slots
  <2>3. \A k \in DOMAIN files' : \A n \in Range(files'[k]) : n <= calls
    BY <1>n, <1>10, AppendedFiles
  <2>4. \A n \in accepted' : n <= calls
    BY <1>n, <2>1
  <2>5. NumbersPast'
    BY <2>1, <2>3, <2>4 DEF NumbersPast
  <2> QED BY <1>0, <2>1, <2>2, <2>5
          DEF LogState, LogTypeOK, FullBackups, NumbersPast, GoodFile, Rotating
<1>11. CASE LogAppendFails
  <2>1. /\ logPc' = "idle" /\ UNCHANGED <<from, calls, accepted, spoiled, shiftFailed>>
    BY <1>11 DEF LogAppendFails
  <2>2. \A k \in DOMAIN files' : \/ k \in DOMAIN files /\ files'[k] = files[k]
                                 \/ k = 0 /\ files'[k] = << >>
    BY <1>11 DEF LogAppendFails
  <2>3. << >> \in Seq(1 .. LogCalls) /\ Len(<< >>) = 0 /\ Range(<< >>) = {}
    BY EmptySeq DEF Range
  <2>4. \A k \in DOMAIN files' : k \in Slots /\ GoodFile(k, files'[k])
    <3>1. 0 \in Slots /\ GoodFile(0, << >>)
      BY <2>3 DEF GoodFile, Slots
    <3> QED BY <1>0, <2>2, <3>1
  <2>5. \A k \in DOMAIN files' : \A n \in Range(files'[k]) : n <= calls
    BY <1>n, <2>2, <2>3
  <2> QED BY <1>0, <1>n, <2>1, <2>4, <2>5
          DEF LogState, LogTypeOK, FullBackups, NumbersPast, GoodFile, Rotating
<1> QED BY <1>1, <1>2, <1>3, <1>4, <1>5, <1>7, <1>8, <1>9, <1>10, <1>11 DEF LogNext

-----------------------------------------------------------------------------
(* How many backups are left                                               *)

LEMMA HolesFinite ==
  \A i \in Int : /\ IsFiniteSet(Holes(i)) /\ Cardinality(Holes(i)) \in Nat
                 /\ IsFiniteSet(Holes(i)') /\ Cardinality(Holes(i)') \in Nat
<1> SUFFICES ASSUME NEW i \in Int
             PROVE  /\ IsFiniteSet(Holes(i)) /\ Cardinality(Holes(i)) \in Nat
                    /\ IsFiniteSet(Holes(i)') /\ Cardinality(Holes(i)') \in Nat
  OBVIOUS
<1>1. IsFiniteSet(1 .. i - 1)
  <2>1. i - 1 \in Int
    OBVIOUS
  <2> QED BY <2>1, FS_Interval
<1>2. Holes(i) \subseteq 1 .. i - 1 /\ Holes(i)' \subseteq 1 .. i - 1
  BY DEF Holes
<1> QED BY <1>1, <1>2, FS_Subset, FS_CardinalityType

\* One element in place of another, or one more, or one less.
LEMMA OneMore ==
  \A S, T, x : IsFiniteSet(S) /\ T \subseteq S \union {x} => Cardinality(T) <= Cardinality(S) + 1
<1> SUFFICES ASSUME NEW S, NEW T, NEW x, IsFiniteSet(S), T \subseteq S \union {x}
             PROVE  Cardinality(T) <= Cardinality(S) + 1
  OBVIOUS
<1>1. IsFiniteSet(S \union {x}) /\ Cardinality(S \union {x}) <= Cardinality(S) + 1
  <2>1. Cardinality(S) \in Nat
    BY FS_CardinalityType
  <2> QED BY <2>1, FS_AddElement
<1>2. Cardinality(T) <= Cardinality(S \union {x})
  BY <1>1, FS_Subset
<1>3. IsFiniteSet(T)
  BY <1>1, FS_Subset
<1> QED BY <1>1, <1>2, <1>3, FS_CardinalityType

LEMMA OneLess ==
  \A S, T, x : IsFiniteSet(S) /\ x \in S /\ T = S \ {x} => Cardinality(T) = Cardinality(S) - 1
  BY FS_RemoveElement

LEMMA OneForAnother ==
  \A S, T, x, y : IsFiniteSet(S) /\ x \in S /\ T \subseteq (S \ {x}) \union {y}
                  => Cardinality(T) <= Cardinality(S)
<1> SUFFICES ASSUME NEW S, NEW T, NEW x, NEW y, IsFiniteSet(S), x \in S,
                    T \subseteq (S \ {x}) \union {y}
             PROVE  Cardinality(T) <= Cardinality(S)
  OBVIOUS
<1>1. IsFiniteSet(S \ {x}) /\ Cardinality(S \ {x}) = Cardinality(S) - 1
  BY FS_RemoveElement
<1>2. Cardinality(T) <= Cardinality(S \ {x}) + 1
  BY <1>1, OneMore
<1>3. Cardinality(S) \in Nat /\ IsFiniteSet(T)
  <2>1. IsFiniteSet((S \ {x}) \union {y})
    BY <1>1, FS_AddElement
  <2> QED BY <2>1, FS_Subset, FS_CardinalityType
<1>4. Cardinality(T) \in Nat
  BY <1>3, FS_CardinalityType
<1> QED BY <1>1, <1>2, <1>3, <1>4

RoomInv == ~ shiftFailed => SuffixLeft /\ FewHoles /\ GapAhead

LEMMA TopNumbers == LogState => Tops \subseteq 1 .. MaxBackups + 1
<1> USE MaxBackupsAssumption, MaxSizeAssumption, LogCallsAssumption, LogSpoilsAssumption
<1> SUFFICES ASSUME LogState PROVE Tops \subseteq 1 .. MaxBackups + 1
  OBVIOUS
<1>1. \A i \in DOMAIN files \ {0} : i \in 1 .. MaxBackups + 1
  BY SlotNumbers DEF LogState
<1> QED BY <1>1 DEF Tops

\* Steps that move no backup.
LEMMA SameHoles ==
  ASSUME LogState, FewHoles,
         \A h : h # 0 => (Exists(h)' <=> Exists(h)),
         accepted' # Kept' => accepted # Kept,
         spoiled' \in Nat, \A i \in 1 .. MaxBackups + 1 : spoiled + Slack(i) <= spoiled' + Slack(i)'
  PROVE  FewHoles'
<1>1. Tops' \subseteq Tops /\ Tops \subseteq 1 .. MaxBackups + 1
  BY TopNumbers DEF Tops, Exists
<1>2. \A i : Holes(i)' = Holes(i)
  BY DEF Holes
<1> SUFFICES ASSUME NEW i \in Tops' PROVE Cardinality(Holes(i)') <= spoiled' + Slack(i)'
  BY DEF FewHoles
<1>3. i \in Tops /\ i \in 1 .. MaxBackups + 1
  BY <1>1
<1>4. PICK c \in Nat : c = Cardinality(Holes(i))
  BY <1>3, HolesFinite
<1>5. c <= spoiled + Slack(i)
  BY <1>3, <1>4 DEF FewHoles
<1>6. spoiled + Slack(i) <= spoiled' + Slack(i)'
  BY <1>3
<1>7. PICK a \in Nat, b \in Nat : a = spoiled + Slack(i) /\ b = spoiled' + Slack(i)'
  <2>1. Slack(i) \in Nat /\ Slack(i)' \in Nat /\ spoiled \in Nat
    BY DEF Slack, LogState, LogTypeOK
  <2> QED BY <2>1
<1>8. c <= b
  BY <1>5, <1>6, <1>7
<1> QED BY <1>2, <1>4, <1>7, <1>8

LEMMA RemoveRoom ==
  ASSUME LogState, InOrderOnce, RoomInv, NEW ok \in BOOLEAN, LogRemove(ok)
  PROVE  RoomInv'
<1> USE MaxBackupsAssumption, MaxSizeAssumption, LogCallsAssumption, LogSpoilsAssumption
<1> SUFFICES ASSUME ~ shiftFailed' PROVE (SuffixLeft /\ FewHoles /\ GapAhead)'
  BY DEF RoomInv
<1>1. /\ logPc = "remove" /\ from' = MaxBackups - 1 /\ logPc' \in {"shift", "archive"}
      /\ UNCHANGED <<calls, accepted, spoiled>> /\ SuffixLeft /\ FewHoles
  BY DEF LogRemove, AfterShift, RoomInv
<1>2. /\ DOMAIN files' \subseteq DOMAIN files /\ \A k \in DOMAIN files' : files'[k] = files[k]
      /\ DOMAIN files' = DOMAIN files \/ (MaxBackups > 0 /\ DOMAIN files' = DOMAIN files \ {MaxBackups})
  <2>1. CASE files' = files
    BY <2>1
  <2>2. CASE files' = Without(MaxBackups) /\ MaxBackups > 0
    BY <2>2, RemovedFiles
  <2> QED BY <2>1, <2>2 DEF LogRemove
<1>3. PICK s \in Nat : s = spoiled
  BY DEF LogState, LogTypeOK
<1>4. \A i \in 1 .. MaxBackups + 1 : Slack(i)' = IF i = MaxBackups + 1 THEN 1 ELSE 0
  BY <1>1 DEF Slack, Rotating
<1>5. \A i : Slack(i) = 0
  BY <1>1 DEF Slack, Rotating
<1>6. GapAhead'
  BY <1>1 DEF GapAhead
<1>7. \A i \in Tops : Cardinality(Holes(i)) <= s
  BY <1>1, <1>3, <1>5 DEF FewHoles
<1>8. CASE DOMAIN files' = DOMAIN files
  <2>1. SuffixLeft' /\ Kept' = Kept
    <3>1. PICK t : t \notin DOMAIN files
      <4>1. -1 \notin DOMAIN files
        BY SlotNumbers DEF LogState
      <4> QED BY <4>1
    <3> QED BY <1>1, <1>2, <1>8, <3>1, SuffixKept
  <2>2. \A i \in 1 .. MaxBackups + 1 : spoiled + Slack(i) <= spoiled' + Slack(i)'
    BY <1>1, <1>3, <1>4, <1>5
  <2>3. FewHoles'
    BY <1>1, <1>3, <1>8, <2>1, <2>2, SameHoles DEF Exists
  <2> QED BY <1>6, <2>1, <2>3
<1>9. CASE MaxBackups \in DOMAIN files /\ MaxBackups > 0 /\ DOMAIN files' = DOMAIN files \ {MaxBackups}
  <2>1. \A i \in DOMAIN files : i = MaxBackups \/ i < MaxBackups
    <3> SUFFICES ASSUME NEW i \in DOMAIN files PROVE i = MaxBackups \/ i < MaxBackups
      OBVIOUS
    <3>1. i \in Nat /\ (i <= MaxBackups \/ i <= 1)
      BY SlotNumbers DEF LogState
    <3> QED BY <1>9, <3>1
  <2>2. SuffixLeft'
    BY <1>1, <1>2, <1>9, <2>1, SuffixKept
  <2>3. MaxBackups \in Tops /\ Cardinality(Holes(MaxBackups)) <= s
    BY <1>7, <1>9 DEF Tops
  <2>4. IsFiniteSet(Holes(MaxBackups)) /\ Cardinality(Holes(MaxBackups)) \in Nat
    BY HolesFinite
  <2>5. ASSUME NEW i \in Tops' PROVE Cardinality(Holes(i)') <= spoiled' + Slack(i)'
    <3>1. CASE i = MaxBackups + 1
      <4>1. Holes(i)' \subseteq Holes(MaxBackups) \union {MaxBackups}
        BY <1>9, <3>1 DEF Holes, Exists
      <4>2. Cardinality(Holes(i)') <= Cardinality(Holes(MaxBackups)) + 1
        BY <2>4, <4>1, OneMore
      <4>3. IsFiniteSet(Holes(i)') /\ Cardinality(Holes(i)') \in Nat
        BY <3>1, HolesFinite
      <4>4. Slack(i)' = 1
        BY <1>4, <3>1
      <4> QED BY <1>1, <1>3, <2>3, <2>4, <4>2, <4>3, <4>4
    <3>2. CASE i # MaxBackups + 1
      <4>1. i \in DOMAIN files /\ i # 0 /\ i \in Tops /\ i \in 1 .. MaxBackups
        BY <1>9, <2>1, <3>2, SlotNumbers DEF Tops, LogState
      <4>2. Holes(i)' = Holes(i)
        BY <1>9, <4>1 DEF Holes, Exists
      <4>3. Slack(i)' = 0
        BY <1>4, <4>1
      <4> QED BY <1>1, <1>3, <1>7, <4>1, <4>2, <4>3
    <3> QED BY <3>1, <3>2
  <2> QED BY <1>6, <2>2, <2>5 DEF FewHoles
<1> QED BY <1>2, <1>8, <1>9

\* A rename to the next number, when that is free or the last one.
LEMMA MovedSuffix ==
  ASSUME LogState, InOrderOnce, SuffixLeft, accepted' = accepted,
         NEW a \in Nat, Exists(a), files' = Renamed(a, a + 1),
         ~ Exists(a + 1) \/ a + 1 >= MaxBackups
  PROVE  SuffixLeft' /\ (~ Exists(a + 1) => Kept' = Kept)
<1> USE MaxBackupsAssumption, MaxSizeAssumption, LogCallsAssumption, LogSpoilsAssumption
<1>1. PICK t \in Nat : t = a + 1 /\ t # a
  OBVIOUS
<1>2. /\ files'[t] = files[a] /\ a \in DOMAIN files /\ t \in DOMAIN files'
      /\ \A k \in DOMAIN files' : k # t => k \in DOMAIN files /\ k # a /\ files'[k] = files[k]
      /\ \A k \in DOMAIN files : k # a /\ k # t => k \in DOMAIN files' /\ files'[k] = files[k]
  <2>1. /\ DOMAIN files' = (DOMAIN files \ {a}) \union {a + 1}
        /\ files'[a + 1] = files[a]
        /\ \A k \in DOMAIN files' : k # a + 1 => k \in DOMAIN files /\ k # a /\ files'[k] = files[k]
        /\ \A k \in DOMAIN files : k # a /\ k # a + 1 => k \in DOMAIN files' /\ files'[k] = files[k]
    BY MovedFiles
  <2>2. a \in DOMAIN files
    BY DEF Exists
  <2> QED BY <1>1, <2>1, <2>2
<1>3. t \in DOMAIN files => \A i \in DOMAIN files : i = t \/ i < t
  <2> SUFFICES ASSUME t \in DOMAIN files, NEW i \in DOMAIN files PROVE i = t \/ i < t
    OBVIOUS
  <2>1. t >= MaxBackups /\ t >= 1
    BY <1>1 DEF Exists
  <2>2. i \in Nat /\ (i <= MaxBackups \/ i <= 1)
    BY SlotNumbers DEF LogState
  <2> QED BY <2>1, <2>2
<1>4. \A k \in DOMAIN files' : \E i \in DOMAIN files : i # t /\ files'[k] = files[i]
  BY <1>1, <1>2
<1>5. \A i \in DOMAIN files : i # t => \E k \in DOMAIN files' : files'[k] = files[i]
  BY <1>2
<1>6. SuffixLeft' /\ (t \notin DOMAIN files => Kept' = Kept)
  BY <1>3, <1>4, <1>5, SuffixKept
<1> QED BY <1>1, <1>6 DEF Exists

LEMMA ShiftRoom ==
  ASSUME LogState, InOrderOnce, RoomInv, NEW ok \in BOOLEAN, LogShift(ok)
  PROVE  RoomInv'
<1> USE MaxBackupsAssumption, MaxSizeAssumption, LogCallsAssumption, LogSpoilsAssumption
<1> SUFFICES ASSUME ~ shiftFailed' PROVE (SuffixLeft /\ FewHoles /\ GapAhead)'
  BY DEF RoomInv
<1>1. PICK f \in 1 .. MaxBackups - 1, s \in Nat : f = from /\ s = spoiled
  BY DEF LogState, FullBackups, LogShift, LogTypeOK
<1>2. /\ logPc = "shift" /\ logPc' \in {"shift", "archive"} /\ from' = f - 1
      /\ UNCHANGED <<calls, accepted, spoiled>>
      /\ SuffixLeft /\ FewHoles
      /\ ~ Exists(f + 1) \/ f + 1 = MaxBackups
      /\ IF Exists(f) THEN files' = Renamed(f, f + 1) ELSE files' = files
  BY <1>1 DEF LogShift, AfterShift, RoomInv, GapAhead, Rotating
<1>3. \A i \in Int : Slack(i) = (IF i > f + 1 THEN 1 ELSE 0) /\ Slack(i)' = IF i > f THEN 1 ELSE 0
  BY <1>1, <1>2 DEF Slack, Rotating
<1>4. \A i \in Tops : i \in Int /\ Cardinality(Holes(i)) <= s + IF i > f + 1 THEN 1 ELSE 0
  BY <1>1, <1>2, <1>3, TopNumbers DEF FewHoles
<1>5. CASE ~ Exists(f)
  <2>1. files' = files /\ Kept' = Kept
    BY <1>2, <1>5 DEF Kept
  <2>2. SuffixLeft'
    BY <1>2, <2>1 DEF SuffixLeft
  <2>3. GapAhead'
    BY <1>1, <1>2, <1>5, <2>1 DEF GapAhead, Exists
  <2>4. \A i \in 1 .. MaxBackups + 1 : spoiled + Slack(i) <= spoiled' + Slack(i)'
    BY <1>1, <1>2, <1>3
  <2>5. FewHoles'
    BY <1>1, <1>2, <2>1, <2>4, SameHoles DEF Exists
  <2> QED BY <2>2, <2>3, <2>5
<1>6. CASE Exists(f)
  <2>1. files' = Renamed(f, f + 1)
    BY <1>2, <1>6
  <2>2. /\ SuffixLeft' /\ (~ Exists(f + 1) => Kept' = Kept)
    BY <1>2, <1>6, <2>1, MovedSuffix
  <2>3. DOMAIN files' = (DOMAIN files \ {f}) \union {f + 1}
    <3>1. f \in Nat
      OBVIOUS
    <3> QED BY <1>6, <2>1, <3>1, MovedFiles
  <2>4. GapAhead'
    BY <1>1, <1>2, <2>3 DEF GapAhead, Exists
  <2>5. ASSUME NEW i \in Tops' PROVE Cardinality(Holes(i)') <= s + IF i > f THEN 1 ELSE 0
    <3>0. i \in Int
      BY <2>3, SlotNumbers DEF Tops, LogState
    <3>f. f \in Tops /\ Cardinality(Holes(f)) <= s
      BY <1>4, <1>6 DEF Tops, Exists
    <3>c. /\ IsFiniteSet(Holes(i)) /\ Cardinality(Holes(i)) \in Nat
          /\ IsFiniteSet(Holes(f)) /\ Cardinality(Holes(f)) \in Nat
          /\ Cardinality(Holes(i)') \in Nat
      BY <3>0, HolesFinite
    <3>1. CASE i = f + 1
      <4>1. Holes(i)' \subseteq Holes(f) \union {f}
        BY <2>3, <3>1 DEF Holes, Exists
      <4>2. Cardinality(Holes(i)') <= Cardinality(Holes(f)) + 1
        BY <3>c, <4>1, OneMore
      <4> QED BY <3>1, <3>c, <3>f, <4>2
    <3>2. CASE i < f
      <4>1. Holes(i)' = Holes(i)
        BY <2>3, <3>0, <3>2 DEF Holes, Exists
      <4>2. i \in DOMAIN files \ {0}
        BY <2>3, <3>2 DEF Tops
      <4> QED BY <1>4, <3>2, <3>c, <4>1, <4>2 DEF Tops
    <3>3. CASE i > f + 1 /\ ~ Exists(f + 1)
      <4>1. i \in Tops
        BY <1>2, <2>2, <2>3, <3>3 DEF Tops
      <4>2. f + 1 \in Holes(i) /\ Holes(i)' \subseteq (Holes(i) \ {f + 1}) \union {f}
        BY <2>3, <3>0, <3>3 DEF Holes, Exists
      <4>3. Cardinality(Holes(i)') <= Cardinality(Holes(i))
        <5>1. PICK S, T : S = Holes(i) /\ T = Holes(i)'
          OBVIOUS
        <5>2. IsFiniteSet(S) /\ f + 1 \in S /\ T \subseteq (S \ {f + 1}) \union {f}
          BY <3>c, <4>2, <5>1
        <5>3. Cardinality(T) <= Cardinality(S)
          BY <5>2, OneForAnother
        <5> QED BY <5>1, <5>3
      <4> QED BY <1>4, <3>3, <3>c, <4>1, <4>3
    <3>4. CASE i > f + 1 /\ Exists(f + 1)
      <4>1. f + 1 = MaxBackups /\ MaxBackups \in Tops
        BY <1>2, <3>4 DEF Tops, Exists
      <4>2. i = MaxBackups + 1
        BY <2>3, <3>0, <3>4, <4>1, SlotNumbers DEF Tops, LogState
      <4>3. Holes(i)' \subseteq Holes(MaxBackups) \union {f}
        BY <2>3, <3>4, <4>1, <4>2 DEF Holes, Exists
      <4>4. IsFiniteSet(Holes(MaxBackups)) /\ Cardinality(Holes(MaxBackups)) \in Nat
        BY HolesFinite
      <4>5. Cardinality(Holes(MaxBackups)) <= s
        BY <1>4, <4>1
      <4>6. Cardinality(Holes(i)') <= Cardinality(Holes(MaxBackups)) + 1
        BY <4>3, <4>4, OneMore
      <4> QED BY <3>0, <3>4, <3>c, <4>4, <4>5, <4>6
    <3>5. i # f
      BY <1>1, <2>3 DEF Tops
    <3> QED BY <3>0, <3>1, <3>2, <3>3, <3>4, <3>5
  <2>6. ASSUME NEW i \in Tops' PROVE Cardinality(Holes(i)') <= spoiled' + Slack(i)'
    <3>1. i \in Int
      BY <2>3, SlotNumbers DEF Tops, LogState
    <3> QED BY <1>1, <1>2, <1>3, <2>5, <3>1
  <2> QED BY <2>2, <2>4, <2>6 DEF FewHoles
<1> QED BY <1>5, <1>6

LEMMA ArchiveRoom ==
  ASSUME LogState, InOrderOnce, RoomInv, LogArchive
  PROVE  RoomInv'
<1> USE MaxBackupsAssumption, MaxSizeAssumption, LogCallsAssumption, LogSpoilsAssumption
<1> SUFFICES ASSUME ~ shiftFailed' PROVE (SuffixLeft /\ FewHoles /\ GapAhead)'
  BY DEF RoomInv
<1>1. /\ logPc = "archive" /\ logPc' = "append" /\ UNCHANGED <<from, calls, accepted, spoiled>>
      /\ Exists(0) /\ files' = Renamed(0, 1) /\ SuffixLeft /\ FewHoles /\ GapAhead
      /\ from = IF MaxBackups = 0 THEN -1 ELSE 0
  BY DEF LogArchive, RoomInv, LogState, FullBackups, Rotating, Full
<1>2. ~ Exists(1) \/ 1 >= MaxBackups
  BY <1>1 DEF GapAhead, Rotating
<1>3. 0 \in Nat /\ 0 + 1 = 1
  OBVIOUS
<1>4. SuffixLeft' /\ (~ Exists(1) => Kept' = Kept)
  BY <1>1, <1>2, <1>3, MovedSuffix
<1>5. DOMAIN files' = (DOMAIN files \ {0}) \union {1}
  BY <1>1, <1>3, MovedFiles
<1>6. GapAhead'
  BY <1>1 DEF GapAhead, Rotating
<1>7. PICK s \in Nat : s = spoiled
  BY DEF LogState, LogTypeOK
<1>8. ASSUME NEW i \in Tops' PROVE Cardinality(Holes(i)') <= s
  <2>1. i \in 1 .. MaxBackups + 1
    <3>1. i \in DOMAIN files \ {0} \/ i = 1 \/ i = MaxBackups + 1
      BY <1>5 DEF Tops
    <3> QED BY <3>1, TopNumbers DEF Tops
  <2>2. CASE i = 1 \/ MaxBackups <= 1
    <3>1. Holes(i)' = {}
      BY <1>5, <2>1, <2>2 DEF Holes, Exists
    <3> QED BY <3>1, FS_EmptySet
  <2>3. CASE i > 1 /\ MaxBackups >= 2
    <3>1. ~ Exists(1) /\ Kept' = Kept
      BY <1>2, <1>4, <2>3
    <3>2. i \in Tops
      BY <1>1, <1>5, <2>3, <3>1 DEF Tops
    <3>3. Slack(i) = 1
      BY <1>1, <2>3 DEF Slack, Rotating
    <3>4. 1 \in Holes(i) /\ Holes(i)' = Holes(i) \ {1}
      BY <1>5, <2>1, <2>3, <3>1 DEF Holes, Exists
    <3>5. IsFiniteSet(Holes(i)) /\ Cardinality(Holes(i)) \in Nat /\ Cardinality(Holes(i)') \in Nat
      BY <2>1, HolesFinite
    <3>6. Cardinality(Holes(i)') = Cardinality(Holes(i)) - 1
      BY <3>4, <3>5, OneLess
    <3>7. Cardinality(Holes(i)) <= s + 1
      BY <1>1, <1>7, <3>2, <3>3 DEF FewHoles
    <3> QED BY <3>5, <3>6, <3>7
  <2> QED BY <2>1, <2>2, <2>3
<1>9. \A i : Slack(i)' = 0
  BY <1>1 DEF Slack, Rotating
<1>10. FewHoles'
  BY <1>1, <1>7, <1>8, <1>9 DEF FewHoles
<1> QED BY <1>4, <1>6, <1>10

\* The other steps rename nothing.
LEMMA QuietRoom ==
  ASSUME LogState, RoomInv, Kept' = Kept, UNCHANGED <<accepted, shiftFailed>>,
         \A h : h # 0 => (Exists(h)' <=> Exists(h)),
         ~ Rotating', spoiled' = IF Rotating THEN spoiled + 1 ELSE spoiled
  PROVE  RoomInv'
<1> SUFFICES ASSUME ~ shiftFailed' PROVE (SuffixLeft /\ FewHoles /\ GapAhead)'
  BY DEF RoomInv
<1>1. SuffixLeft /\ FewHoles
  BY DEF RoomInv
<1>2. SuffixLeft'
  BY <1>1 DEF SuffixLeft
<1>3. PICK s \in Nat : s = spoiled
  BY DEF LogState, LogTypeOK
<1>4. \A i \in 1 .. MaxBackups + 1 : spoiled + Slack(i) <= spoiled' + Slack(i)'
  BY <1>3 DEF Slack
<1>5. spoiled' \in Nat
  BY <1>3
<1>6. FewHoles'
  BY <1>1, <1>4, <1>5, SameHoles
<1> QED BY <1>2, <1>6 DEF GapAhead

LEMMA AppendRoom ==
  ASSUME LogState, RoomInv, LogAppend
  PROVE  RoomInv'
<1> SUFFICES ASSUME ~ shiftFailed' PROVE (SuffixLeft /\ FewHoles /\ GapAhead)'
  BY DEF RoomInv
<1>1. /\ logPc = "append" /\ logPc' = "idle" /\ UNCHANGED spoiled
      /\ accepted' = accepted \union {calls} /\ SuffixLeft /\ FewHoles
  BY DEF LogAppend, RoomInv
<1>2. SuffixLeft' /\ Kept' = Kept \union {calls}
  BY <1>1, AppendedSuffix
<1>3. \A h : h # 0 => (Exists(h)' <=> Exists(h))
  BY AppendedFiles DEF Exists
<1>4. accepted' # Kept' => accepted # Kept
  BY <1>1, <1>2
<1>5. PICK s \in Nat : s = spoiled
  BY DEF LogState, LogTypeOK
<1>6. spoiled' \in Nat /\ \A i \in 1 .. MaxBackups + 1 : spoiled + Slack(i) <= spoiled' + Slack(i)'
  BY <1>1, <1>5 DEF Slack, Rotating
<1>7. FewHoles'
  BY <1>1, <1>3, <1>4, <1>6, SameHoles
<1> QED BY <1>1, <1>2, <1>7 DEF GapAhead, Rotating

LogInv == LogState /\ InOrderOnce /\ RoomInv

LEMMA LogInvStep == LogInv /\ [LogNext]_LogVars => LogInv'
<1> SUFFICES ASSUME LogInv, [LogNext]_LogVars PROVE (InOrderOnce /\ RoomInv)'
  BY LogStateStep DEF LogInv
<1>0. LogState /\ InOrderOnce /\ RoomInv
  BY DEF LogInv
<1>1. CASE UNCHANGED LogVars
  BY <1>0, <1>1
     DEF LogVars, InOrderOnce, RoomInv, SuffixLeft, FewHoles, GapAhead, Kept, Tops, Holes,
                    Slack, Rotating, Exists
<1>2. ASSUME files' = files, UNCHANGED <<accepted, shiftFailed>>, ~ Rotating',
             spoiled' = IF Rotating THEN spoiled + 1 ELSE spoiled
      PROVE  (InOrderOnce /\ RoomInv)'
  <2>1. Kept' = Kept /\ \A h : Exists(h)' <=> Exists(h)
    BY <1>2 DEF Kept, Exists
  <2>2. RoomInv'
    BY <1>0, <1>2, <2>1, QuietRoom
  <2> QED BY <1>0, <1>2, <2>2 DEF InOrderOnce
<1>3. CASE LogWrite
  BY <1>2, <1>3 DEF LogWrite, Rotating
<1>4. CASE LogStatFails
  BY <1>2, <1>4 DEF LogStatFails, Rotating
<1>5. CASE LogArchiveFails
  BY <1>2, <1>5 DEF LogArchiveFails, Rotating
<1>6. CASE LogCrash
  BY <1>2, <1>6 DEF LogCrash, Rotating
<1>7. ASSUME NEW ok \in BOOLEAN, LogRemove(ok) PROVE (InOrderOnce /\ RoomInv)'
  <2>1. CASE files' = files
    BY <1>0, <1>7, <2>1, RemoveRoom DEF InOrderOnce
  <2>2. CASE files' = Without(MaxBackups)
    BY <1>0, <1>7, <2>2, RemoveRoom, RemovedOrder
  <2> QED BY <1>7, <2>1, <2>2 DEF LogRemove
<1>8. ASSUME NEW ok \in BOOLEAN, LogShift(ok) PROVE (InOrderOnce /\ RoomInv)'
  <2>1. CASE files' = files
    BY <1>0, <1>8, <2>1, ShiftRoom DEF InOrderOnce
  <2>2. CASE Exists(from) /\ files' = Renamed(from, from + 1)
    <3>1. PICK f \in Nat : f = from
      BY <1>0, <1>8 DEF LogShift, LogState, FullBackups
    <3>2. Exists(f) /\ files' = Renamed(f, f + 1)
      BY <2>2, <3>1
    <3>3. InOrderOnce'
      BY <1>0, <3>2, MovedOrder DEF LogState
    <3> QED BY <1>0, <1>8, <3>3, ShiftRoom
  <2> QED BY <1>8, <2>1, <2>2 DEF LogShift
<1>9. CASE LogArchive
  <2>1. Exists(0) /\ files' = Renamed(0, 1) /\ 0 \in Nat /\ 0 + 1 = 1
    BY <1>0, <1>9 DEF LogArchive, LogState, FullBackups, Rotating, Full
  <2>2. InOrderOnce'
    BY <1>0, <2>1, MovedOrder DEF LogState
  <2> QED BY <1>0, <1>9, <2>2, ArchiveRoom
<1>10. CASE LogAppend
  <2>1. \A i \in DOMAIN files' : \A j, k \in DOMAIN files'[i] : j < k => files'[i][j] < files'[i][k]
    <3> SUFFICES ASSUME NEW i \in DOMAIN files'
                 PROVE  \A j, k \in DOMAIN files'[i] : j < k => files'[i][j] < files'[i][k]
      OBVIOUS
    <3>1. CASE i # 0
      BY <1>0, <1>10, <3>1, AppendedFiles DEF InOrderOnce
    <3>2. CASE i = 0 /\ Exists(0)
      BY <1>0, <1>10, <3>2, AppendedFiles DEF InOrderOnce, Exists
    <3>3. CASE i = 0 /\ ~ Exists(0)
      <4>1. files'[0] = Append(<< >>, calls)
        BY <1>10, <3>3 DEF LogAppend
      <4>2. calls \in 1 .. LogCalls
        BY <1>0, <1>10 DEF LogState, LogTypeOK, NumbersPast, LogAppend
      <4>3. << >> \in Seq(1 .. LogCalls) /\ Len(<< >>) = 0
        BY EmptySeq
      <4>4. Append(<< >>, calls) \in Seq(1 .. LogCalls) /\ Len(Append(<< >>, calls)) = 1
        BY <4>2, <4>3, AppendProperties
      <4>5. DOMAIN files'[0] = 1 .. 1
        BY <4>1, <4>4, LenProperties
      <4> QED BY <3>3, <4>5
    <3> QED BY <3>1, <3>2, <3>3
  <2>2. ASSUME NEW i \in DOMAIN files', NEW j \in DOMAIN files', i < j,
               NEW m \in Range(files'[i]), NEW n \in Range(files'[j])
        PROVE  n < m
    <3>1. i \in Nat /\ j \in Nat /\ j # 0 /\ j \in DOMAIN files /\ files'[j] = files[j]
      <4>1. \A k \in DOMAIN files' : k = 0 \/ (k \in DOMAIN files /\ k \in Nat)
        BY <1>0, <1>10, AppendedFiles, SlotNumbers DEF LogState
      <4>2. i \in Nat /\ j \in Nat
        BY <4>1
      <4>3. j # 0
        BY <2>2, <4>2
      <4> QED BY <1>0, <1>10, <4>1, <4>2, <4>3, AppendedFiles
    <3>2. CASE i \in DOMAIN files /\ m \in Range(files[i])
      BY <1>0, <2>2, <3>1, <3>2 DEF InOrderOnce
    <3>3. CASE m = calls
      <4>1. n < calls
        BY <1>0, <1>10, <3>1 DEF LogState, NumbersPast, LogAppend
      <4> QED BY <3>3, <4>1
    <3>4. m = calls \/ (i \in DOMAIN files /\ m \in Range(files[i]))
      <4>1. CASE i = 0
        BY <1>0, <1>10, <2>2, <4>1, AppendedFiles DEF Exists
      <4>2. CASE i # 0
        BY <1>0, <1>10, <2>2, <4>2, AppendedFiles
      <4> QED BY <4>1, <4>2
    <3> QED BY <3>2, <3>3, <3>4
  <2>3. RoomInv'
    BY <1>0, <1>10, AppendRoom
  <2> QED BY <2>1, <2>2, <2>3 DEF InOrderOnce
<1>11. CASE LogAppendFails
  <2>1. logPc = "append" /\ logPc' = "idle" /\ UNCHANGED <<from, calls, accepted, spoiled, shiftFailed>>
    BY <1>11 DEF LogAppendFails
  <2>2. CASE files' = files
    BY <1>2, <2>1, <2>2 DEF Rotating
  <2>3. CASE ~ Exists(0) /\ files' = [j \in DOMAIN files \union {0} |-> IF j = 0 THEN << >> ELSE files[j]]
    <3>1. /\ DOMAIN files' = DOMAIN files \union {0} /\ files'[0] = << >>
          /\ \A j \in DOMAIN files : j # 0 /\ files'[j] = files[j]
      BY <2>3 DEF Exists
    <3>2. DOMAIN files'[0] = {} /\ Range(files'[0]) = {}
      <4>1. DOMAIN << >> = {}
        BY EmptySeq
      <4> QED BY <3>1, <4>1 DEF Range
    <3>3. InOrderOnce'
      BY <1>0, <3>1, <3>2 DEF InOrderOnce
    <3>4. Kept' = Kept
      <4>1. \A n : n \in Kept' <=> \E i \in DOMAIN files' : n \in Range(files'[i])
        BY DEF Kept
      <4>2. ASSUME NEW n PROVE n \in Kept' <=> n \in Kept
        BY <3>1, <3>2, <4>1, KeptMembers
      <4> QED BY <4>2
    <3>5. \A h : h # 0 => (Exists(h)' <=> Exists(h))
      BY <3>1 DEF Exists
    <3>6. RoomInv'
      BY <1>0, <2>1, <3>4, <3>5, QuietRoom DEF Rotating
    <3> QED BY <3>3, <3>6
  <2> QED BY <1>11, <2>2, <2>3 DEF LogAppendFails
<1> QED BY <1>1, <1>3, <1>4, <1>5, <1>6, <1>7, <1>8, <1>9, <1>10, <1>11 DEF LogNext

-----------------------------------------------------------------------------

\* If a set of n full files has different entries, n times MaxSize entries are left.
LEMMA EntriesOfFullFiles ==
  ASSUME LogState, InOrderOnce, NEW F, IsFiniteSet(F), F \subseteq DOMAIN files,
         \A i \in F : Len(files[i]) = MaxSize
  PROVE  Cardinality(Kept) \in Nat /\ Cardinality(F) * MaxSize <= Cardinality(Kept)
<1> USE MaxBackupsAssumption, MaxSizeAssumption, LogCallsAssumption, LogSpoilsAssumption
<1> DEFINE S == F \X (1 .. MaxSize)
           g == [p \in S |-> files[p[1]][p[2]]]
<1>1. IsFiniteSet(Kept)
  <2>1. \A i \in DOMAIN files : Range(files[i]) \subseteq 1 .. LogCalls
    BY SlotNumbers, LenProperties, ElementOfSeq DEF LogState, Range
  <2>2. Kept \subseteq 1 .. LogCalls
    BY <2>1 DEF Kept
  <2>3. IsFiniteSet(1 .. LogCalls)
    BY FS_Interval
  <2> QED BY <2>2, <2>3, FS_Subset
<1>2. IsFiniteSet(S) /\ Cardinality(S) = Cardinality(F) * MaxSize
  <2>1. IsFiniteSet(1 .. MaxSize) /\ Cardinality(1 .. MaxSize) = MaxSize
    <3>1. 1 \in Int /\ MaxSize \in Int
      OBVIOUS
    <3>2. /\ IsFiniteSet(1 .. MaxSize)
          /\ Cardinality(1 .. MaxSize) = IF 1 > MaxSize THEN 0 ELSE MaxSize - 1 + 1
      BY <3>1, FS_Interval
    <3> QED BY <3>2
  <2>2. IsFiniteSet(F \X (1 .. MaxSize)) /\ Cardinality(F \X (1 .. MaxSize)) = Cardinality(F) * Cardinality(1 .. MaxSize)
    BY <2>1, FS_Product
  <2> QED BY <2>1, <2>2
<1>3. \A i \in F : i \in DOMAIN files /\ i \in Nat /\ DOMAIN files[i] = 1 .. MaxSize
  BY SlotNumbers, LenProperties DEF LogState
<1>4. \A i \in F, j \in 1 .. MaxSize : files[i][j] \in Kept /\ files[i][j] \in Range(files[i]) /\ files[i][j] \in Nat
  <2> SUFFICES ASSUME NEW i \in F, NEW j \in 1 .. MaxSize
               PROVE  files[i][j] \in Kept /\ files[i][j] \in Range(files[i]) /\ files[i][j] \in Nat
    OBVIOUS
  <2>1. files[i][j] \in Range(files[i])
    BY <1>3 DEF Range
  <2>2. files[i][j] \in 1 .. LogCalls
    BY <1>3, SlotNumbers, LenProperties, ElementOfSeq DEF LogState
  <2> QED BY <1>3, <2>1, <2>2, KeptMembers
<1>5. g \in [S -> Kept]
  BY <1>4
<1>6. ASSUME NEW x \in S, NEW y \in S, x # y PROVE g[x] # g[y]
  <2>1. PICK i \in F, k \in 1 .. MaxSize : x = <<i, k>>
    BY <1>6
  <2>2. PICK j \in F, m \in 1 .. MaxSize : y = <<j, m>>
    BY <1>6
  <2>3. g[x] = files[i][k] /\ g[y] = files[j][m]
    BY <2>1, <2>2
  <2>4. i \in Nat /\ j \in Nat /\ files[i][k] \in Nat /\ files[j][m] \in Nat
    BY <1>3, <1>4
  <2>5. CASE i = j
    <3>1. k # m
      BY <1>6, <2>1, <2>2, <2>5
    <3>2. k < m \/ m < k
      BY <3>1
    <3>3. files[i][k] < files[i][m] \/ files[i][m] < files[i][k]
      BY <1>3, <3>2 DEF InOrderOnce
    <3> QED BY <2>3, <2>4, <2>5, <3>3
  <2>6. CASE i < j
    <3>1. files[j][m] < files[i][k]
      BY <1>3, <1>4, <2>6 DEF InOrderOnce
    <3> QED BY <2>3, <2>4, <3>1
  <2>7. CASE j < i
    <3>1. files[i][k] < files[j][m]
      BY <1>3, <1>4, <2>7 DEF InOrderOnce
    <3> QED BY <2>3, <2>4, <3>1
  <2> QED BY <2>4, <2>5, <2>6, <2>7
<1> HIDE DEF S, g
<1>7. ~ (Cardinality(Kept) < Cardinality(S))
  <2> SUFFICES ASSUME Cardinality(Kept) < Cardinality(S) PROVE FALSE
    OBVIOUS
  <2>1. \E x, y \in S : x # y /\ g[x] = g[y]
    BY <1>1, <1>2, <1>5, FS_PigeonHole
  <2> QED BY <1>6, <2>1
<1>8. Cardinality(Kept) \in Nat /\ Cardinality(S) \in Nat
  BY <1>1, <1>2, FS_CardinalityType
<1> QED BY <1>2, <1>7, <1>8

LEMMA KeepsFromInv == LogInv => LogKeepsLatest
<1> USE MaxBackupsAssumption, MaxSizeAssumption
<1> SUFFICES ASSUME LogInv, ~ shiftFailed, accepted # Kept
             PROVE  Cardinality(Kept) >= Retained
  BY DEF LogInv, RoomInv, SuffixLeft, LogKeepsLatest
<1>1. LogState /\ InOrderOnce /\ FewHoles
  BY DEF LogInv, RoomInv
<1>2. PICK s \in Nat : s = spoiled
  BY <1>1 DEF LogState, LogTypeOK
<1>3. PICK H : H = Holes(MaxBackups + 1)
  OBVIOUS
<1>4. PICK e \in {0, 1} : e = IF Rotating THEN 1 ELSE 0
  OBVIOUS
<1>5. Slack(MaxBackups + 1) <= e /\ Slack(MaxBackups + 1) \in Nat
  BY <1>4 DEF Slack
<1>6. IsFiniteSet(H) /\ Cardinality(H) \in Nat /\ Cardinality(H) <= s + e
  <2>1. IsFiniteSet(H) /\ Cardinality(H) \in Nat
    <3>1. MaxBackups + 1 \in Int
      OBVIOUS
    <3> QED BY <1>3, <3>1, HolesFinite
  <2>2. MaxBackups + 1 \in Tops
    BY DEF Tops
  <2>3. Cardinality(H) <= spoiled + Slack(MaxBackups + 1)
    BY <1>1, <1>3, <2>2 DEF FewHoles
  <2> QED BY <1>2, <1>5, <2>1, <2>3
<1>7. H \subseteq 1 .. MaxBackups /\ \A i \in 1 .. MaxBackups : i \notin H => i \in DOMAIN files
  BY <1>3 DEF Holes, Exists
<1>8. PICK B : B = (1 .. MaxBackups) \ H
  OBVIOUS
<1>9. IsFiniteSet(B) /\ Cardinality(B) \in Nat /\ Cardinality(B) >= MaxBackups - s - e
  <2>1. IsFiniteSet(1 .. MaxBackups) /\ Cardinality(1 .. MaxBackups) = MaxBackups
    <3>1. 1 \in Int /\ MaxBackups \in Int
      OBVIOUS
    <3>2. /\ IsFiniteSet(1 .. MaxBackups)
          /\ Cardinality(1 .. MaxBackups) = IF 1 > MaxBackups THEN 0 ELSE MaxBackups - 1 + 1
      BY <3>1, FS_Interval
    <3> QED BY <3>2
  <2>2. IsFiniteSet(B) /\ Cardinality(B) = Cardinality(1 .. MaxBackups) - Cardinality((1 .. MaxBackups) \cap H)
    BY <1>8, <2>1, FS_Difference
  <2>3. (1 .. MaxBackups) \cap H = H
    BY <1>7
  <2>4. Cardinality(B) = MaxBackups - Cardinality(H)
    BY <2>1, <2>2, <2>3
  <2> QED BY <1>6, <2>2, <2>4, FS_CardinalityType
<1>10. PICK F : F = IF Rotating THEN B \union {0} ELSE B
  OBVIOUS
<1>11. IsFiniteSet(F) /\ Cardinality(F) \in Nat /\ Cardinality(F) >= MaxBackups - s
  <2>1. CASE Rotating
    <3>1. 0 \notin B
      BY <1>8
    <3>2. IsFiniteSet(F) /\ Cardinality(F) = Cardinality(B) + 1
      BY <1>9, <1>10, <2>1, <3>1, FS_AddElement
    <3>3. e = 1
      BY <1>4, <2>1
    <3> QED BY <1>9, <3>2, <3>3
  <2>2. CASE ~ Rotating
    <3>1. F = B /\ e = 0
      BY <1>4, <1>10, <2>2
    <3> QED BY <1>9, <3>1
  <2> QED BY <2>1, <2>2
<1>12. F \subseteq DOMAIN files /\ \A i \in F : Len(files[i]) = MaxSize
  <2>1. \A i \in B : i \in DOMAIN files /\ i # 0
    BY <1>7, <1>8
  <2>2. \A i \in B : Len(files[i]) = MaxSize
    BY <1>1, <2>1 DEF LogState, FullBackups
  <2>3. Rotating => 0 \in DOMAIN files /\ Len(files[0]) = MaxSize
    BY <1>1, LenProperties DEF LogState, LogTypeOK, FullBackups, Full, Exists
  <2> QED BY <1>10, <2>1, <2>2, <2>3
<1>13. Cardinality(Kept) \in Nat /\ Cardinality(F) * MaxSize <= Cardinality(Kept)
  BY <1>1, <1>11, <1>12, EntriesOfFullFiles
<1>14. PICK c \in Nat, k \in Nat : c = Cardinality(F) /\ k = Cardinality(Kept)
  BY <1>11, <1>13
<1>15. (MaxBackups - s) * MaxSize <= c * MaxSize
  <2>1. c >= MaxBackups - s
    BY <1>11, <1>14
  <2>2. PICK a \in Int, b \in Nat, m \in Nat : a = MaxBackups - s /\ b = c - a /\ m = MaxSize
    BY <2>1
  <2>3. b * m >= 0 /\ b * m \in Int /\ a * m \in Int
    BY <2>2
  <2>4. c * m = a * m + b * m
    <3>1. c = a + b
      BY <2>2
    <3>2. (a + b) * m = a * m + b * m
      OBVIOUS
    <3> QED BY <3>1, <3>2
  <2>5. a * m <= c * m
    BY <2>3, <2>4
  <2> QED BY <2>2, <2>5
<1>16. Retained = (MaxBackups - s) * MaxSize /\ c * MaxSize <= k
  BY <1>2, <1>13, <1>14 DEF Retained
<1>17. Retained \in Int /\ c * MaxSize \in Int
  BY <1>16
<1> QED BY <1>14, <1>15, <1>16, <1>17

LEMMA LogInvInit == LogInit => LogInv
<1> USE MaxBackupsAssumption, MaxSizeAssumption, LogCallsAssumption, LogSpoilsAssumption
<1> SUFFICES ASSUME LogInit PROVE LogInv
  OBVIOUS
<1>1. /\ files = << >> /\ logPc = "idle" /\ from = 0 /\ calls = 0 /\ accepted = {}
      /\ spoiled = 0 /\ shiftFailed = FALSE
  BY DEF LogInit
<1>2. DOMAIN files = {} /\ Kept = {}
  <2>1. DOMAIN files = {}
    BY <1>1, EmptySeq
  <2> QED BY <2>1 DEF Kept
<1>3. LogState
  <2>1. LogTypeOK
    <3>1. DOMAIN files \subseteq Slots /\ \A i \in DOMAIN files : files[i] \in Seq(1 .. LogCalls) /\ Len(files[i]) <= MaxSize
      BY <1>2
    <3>2. from \in -1 .. MaxBackups
      BY <1>1
    <3>3. calls \in 0 .. LogCalls /\ spoiled \in 0 .. LogSpoils
      BY <1>1
    <3> QED BY <1>1, <3>1, <3>2, <3>3 DEF LogTypeOK
  <2>2. FullBackups
    BY <1>1, <1>2 DEF FullBackups, Rotating
  <2>3. NumbersPast
    BY <1>1, <1>2 DEF NumbersPast
  <2> QED BY <2>1, <2>2, <2>3 DEF LogState
<1>4. InOrderOnce
  BY <1>2 DEF InOrderOnce
<1>5. RoomInv
  BY <1>1, <1>2 DEF RoomInv, SuffixLeft, FewHoles, GapAhead, Tops, Rotating
<1> QED BY <1>3, <1>4, <1>5 DEF LogInv

\* The files hold what was written in the order of the calls, and only the oldest
\* entries are missing (rotate and rotateIfNeeded, memory/logger.go).
THEOREM LogKeepsLatestCorrect == LogSpec => []LogKeepsLatest
<1>1. LogSpec => []LogInv
  BY LogInvInit, LogInvStep, PTL DEF LogSpec
<1> QED BY <1>1, KeepsFromInv, PTL

-----------------------------------------------------------------------------
(* The parts together                                                      *)

\* The parts that stand still begin in a state of theirs.
LEMMA IdleConfigStarts == IdleConfig => ConfigInit
<1> SUFFICES ASSUME IdleConfig PROVE ConfigInit
  OBVIOUS
<1>1. "Interval" \in Fields /\ Empty \in Values /\ [Blank EXCEPT !["Interval"] = Empty] = Blank
  BY DEF Fields, Ints, Values, Texts, Empty, Blank
<1>2. << >> \in Files
  <2>1. 0 \in 0 .. EnvLines
    BY ConfigAssumption
  <2>2. << >> \in [1 .. 0 -> Values]
    BY EmptySeq
  <2> QED BY <2>1, <2>2 DEF Files
<1>3. [i \in DOMAIN << >> |-> [field |-> "Interval", value |-> << >>[i]]] = << >>
  OBVIOUS
<1>4. Started("Interval", Empty, << >>)
  BY <1>1, <1>3 DEF Started, IdleConfig
<1> QED BY <1>1, <1>2, <1>4 DEF ConfigInit, IdleConfig

LEMMA IdleSchedulerInv == IdleScheduler => SchedInv
<1> SUFFICES ASSUME IdleScheduler PROVE SchedInv
  OBVIOUS
<1>1. SchedTypeOK
  <2>1. /\ FirstInterval \in Int /\ FirstInterval \in Nat
        /\ FirstInterval \in 0 .. FirstInterval /\ FirstInterval > 0
        /\ 0 \in 0 .. MaxAge /\ 0 \in 0 .. MaxObserve
    BY FirstIntervalAssumption, SchedulerBoundsAssumption
  <2> QED BY <2>1, Zenon DEF IdleScheduler, SchedTypeOK, NoRate
<1>2. prevAge = prevAtAge /\ rate.kind = "none"
  BY DEF IdleScheduler, NoRate
<1> QED BY <1>1, <1>2 DEF SchedInv, RateCoversItsTime

\* The invariants of the parts hold of all of them together, whichever of them moves.
ServicesInv ==
  /\ AlertInv /\ LogInv /\ SchedInv /\ DailyInv /\ WatchInv
  /\ BucketInv /\ (Burst = 1 => ToggleInv) /\ CtxInv /\ ConfigInv

LEMMA ServicesInvInit == ServicesInit => ServicesInv
<1> SUFFICES ASSUME ServicesInit PROVE ServicesInv
  OBVIOUS
<1>1. Init /\ LogInit /\ DailyInit /\ WatchInit /\ WebInit /\ ContextInit
  BY DEF ServicesInit
<1>2. SchedInit \/ IdleScheduler
  BY DEF ServicesInit
<1>3. ConfigInit \/ IdleConfig
  BY DEF ServicesInit
<1> QED BY <1>1, <1>2, <1>3, AlertInvInit, LogInvInit, DailyInitInv, WatchInvInit, BucketInit,
           ToggleInit, ContextInitInv, SchedInvInit, IdleSchedulerInv, ConfigInvInit,
           IdleConfigStarts DEF ServicesInv

ServicesVars ==
  <<part, vars, LogVars, SchedVars, DailyVars, WatchVars, WebVars, ContextVars, ConfigVars>>

\* A step is one of each part or leaves it alone.
LEMMA EachPartSteps ==
  ASSUME [ServicesNext]_ServicesVars
  PROVE  /\ [Next]_vars /\ [LogNext]_LogVars /\ [SchedNext]_SchedVars /\ [DailyNext]_DailyVars
         /\ [WatchNext]_WatchVars /\ [WebNext]_WebVars /\ [ContextNext]_ContextVars
         /\ [ConfigNext]_ConfigVars
<1>1. CASE UNCHANGED ServicesVars
  BY <1>1 DEF ServicesVars
<1>2. CASE ServicesNext
  BY <1>2 DEF ServicesNext, WatchNext
<1> QED BY <1>1, <1>2

LEMMA ServicesStep == ServicesInv /\ [ServicesNext]_ServicesVars => ServicesInv'
<1> SUFFICES ASSUME ServicesInv, [ServicesNext]_ServicesVars PROVE ServicesInv'
  OBVIOUS
<1>1. /\ AlertInv /\ LogInv /\ SchedInv /\ DailyInv /\ WatchInv
      /\ BucketInv /\ (Burst = 1 => ToggleInv) /\ CtxInv /\ ConfigInv
  BY DEF ServicesInv
<1>2. AlertInv' /\ LogInv' /\ SchedInv' /\ DailyInv' /\ WatchInv'
  BY <1>1, EachPartSteps, AlertInvStep, LogInvStep, SchedStep, DailyStep, WatchInvStep
<1>3. BucketInv' /\ (Burst = 1 => ToggleInv') /\ CtxInv' /\ ConfigInv'
  BY <1>1, EachPartSteps, BucketStep, ToggleStep, ContextStep, ConfigStep
<1> QED BY <1>2, <1>3 DEF ServicesInv

LEMMA ServicesInvariant == ServicesSpec => []ServicesInv
  BY ServicesInvInit, ServicesStep, PTL DEF ServicesSpec, ServicesVars

\* Types, bounds and capacities of the parts that run beside each other (runtime/core/runtime.go
\* starts them): no step of one takes another out of its own.
THEOREM ServicesTypeOKCorrect == ServicesSpec => []ServicesTypeOK
<1>1. ServicesInv => ServicesTypeOK
  <2> SUFFICES ASSUME ServicesInv PROVE ServicesTypeOK
    OBVIOUS
  <2>1. TypeOK /\ LogTypeOK /\ SchedTypeOK /\ DailyTypeOK
    BY DEF ServicesInv, AlertInv, LogInv, LogState, SchedInv, DailyInv
  <2>2. WatchTypeOK /\ WebTypeOK /\ ContextTypeOK /\ ConfigTypeOK
    BY DEF ServicesInv, WatchInv, WatchTypes, BucketInv, CtxInv, ConfigInv
  <2> QED BY <2>1, <2>2 DEF ServicesTypeOK
<1> QED BY <1>1, ServicesInvariant, PTL
\* Nor does it break what another promises: everything a reader of a report, an alert, a
\* prompt, a log or an answer of the web server relies on holds of all parts at once.
THEOREM ServicesSafe ==
  ServicesSpec =>
    [](/\ AlertsExactly /\ OneReportADay /\ ChangesReported
       /\ LogKeepsLatest /\ RateCoversItsTime /\ ContextConsistent /\ ConfigSound
       /\ Burst = 1 => TogglesTakeEffect)
<1> DEFINE Safe == /\ AlertsExactly /\ OneReportADay /\ ChangesReported
                   /\ LogKeepsLatest /\ RateCoversItsTime /\ ContextConsistent /\ ConfigSound
                   /\ Burst = 1 => TogglesTakeEffect
<1>1. ASSUME ServicesInv PROVE Safe
  <2>0. /\ AlertInv /\ LogInv /\ SchedInv /\ DailyInv /\ WatchInv
        /\ (Burst = 1 => ToggleInv) /\ CtxInv /\ ConfigInv
    BY <1>1 DEF ServicesInv
  <2>1. AlertsExactly
    BY <2>0 DEF AlertInv
  <2>2. OneReportADay
    BY <2>0 DEF DailyInv, OneReportADay, Serving, EveryDayServed
  <2>3. ChangesReported
    BY <2>0 DEF WatchInv, DockerInv, FileInv, ChangesReported, StopsReportedOnce
  <2>4. LogKeepsLatest
    BY <2>0, KeepsFromInv
  <2>5. RateCoversItsTime
    BY <2>0 DEF SchedInv
  <2>6. ContextConsistent
    BY <2>0, AlertLines, Forecasts DEF ContextConsistent
  <2>7. ConfigSound
    BY <2>0, BoundedLemma DEF ConfigInv, ConfigSound
  <2>8. ASSUME Burst = 1 PROVE TogglesTakeEffect
    <3>1. ToggleInv
      BY <2>0, <2>8
    <3> QED BY <2>8, <3>1, ParityImpliesEffect, WindowsImplyBound DEF TogglesTakeEffect, ToggleInv
  <2> QED BY <2>1, <2>2, <2>3, <2>4, <2>5, <2>6, <2>7, <2>8
<1> HIDE DEF Safe
<1>2. ServicesSpec => []Safe
  BY <1>1, ServicesInvariant, PTL
<1> QED BY <1>2 DEF Safe
=============================================================================
