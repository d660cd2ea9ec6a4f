-------------------------- MODULE AdjudicatorProofs --------------------------
(* Theorems about Adjudicator, for every wiring of reporters to tests, every *)
(* table of thresholds and streams of any length.                            *)
EXTENDS Adjudicator, FiniteSetTheorems, TLAPS

-----------------------------------------------------------------------------
(* Keys and windows.                                                       *)

LEMMA KeyInKeys ==
    ASSUME NEW rec \in Reports, Judgeable(rec)
    PROVE  /\ KeyOf(rec) \in Keys
           /\ KeyOf(rec) = <<TrustOf[rec.reporter], rec.test>>
BY WiringAssumption DEF Reports, Judgeable, KeyOf, BucketOf, Keys, Buckets

LEMMA IdemType ==
    ASSUME NEW rec \in Reports
    PROVE  Idem(rec) \in Reporters \X Traces \X {NameOf[t] : t \in Tests}
BY DEF Reports, Idem

\* A deque has room for at least one run.
LEMMA CapPositive ==
    ASSUME NEW level \in Levels
    PROVE  Cap(level) \in Nat /\ Cap(level) > 0
<1>1. Threshold[level] \in Nat /\ Multiplier \in Nat /\ Multiplier > 0
    BY SpecAssumption
<1>2. ASSUME NEW a \in Nat, NEW b \in Nat, a > 0, b > 0
      PROVE  a * b \in Nat /\ a * b > 0
    BY <1>2
<1>3. CASE Threshold[level] = 0
    BY <1>3 DEF Cap
<1>4. CASE Threshold[level] # 0
    BY <1>1, <1>2, <1>4 DEF Cap
<1> QED
    BY <1>3, <1>4

\* append never makes a deque longer than its maxlen.
LEMMA SlideType ==
    ASSUME NEW w \in Windows, Len(w.runs) =< w.cap,
           NEW level \in Levels, NEW passed \in BOOLEAN
    PROVE  /\ Slide(w, level, passed) \in Windows
           /\ Len(Slide(w, level, passed).runs) =< Slide(w, level, passed).cap
<1> DEFINE kept == IF w.cap = Cap(level) THEN w.runs ELSE <<>>
           runs == Append(kept, passed)
           last == IF Len(runs) > Cap(level) THEN Tail(runs) ELSE runs
<1>1. kept \in Seq(BOOLEAN) /\ Len(kept) =< Cap(level)
  <2>1. w.runs \in Seq(BOOLEAN)
    BY DEF Windows
  <2>2. /\ <<>> \in Seq(BOOLEAN) /\ Len(<<>>) = 0
        /\ Cap(level) \in Nat
    BY CapPositive
  <2>3. CASE w.cap = Cap(level)
    BY <2>1, <2>3
  <2>4. CASE w.cap # Cap(level)
    BY <2>2, <2>4
  <2> QED
    BY <2>3, <2>4
<1>2. runs \in Seq(BOOLEAN) /\ Len(runs) = Len(kept) + 1 /\ runs # <<>>
    BY <1>1
<1>3. last \in Seq(BOOLEAN) /\ Len(last) =< Cap(level)
  <2>1. /\ Cap(level) \in Nat /\ Len(runs) \in Nat
        /\ Len(runs) =< Cap(level) + 1
    BY <1>1, <1>2, CapPositive
  <2>2. Tail(runs) \in Seq(BOOLEAN) /\ Len(Tail(runs)) = Len(runs) - 1
    BY <1>2
  <2>3. CASE Len(runs) > Cap(level)
    <3>1. last = Tail(runs)
      BY <2>3
    <3> HIDE DEF kept, runs, last
    <3> QED
      BY <2>1, <2>2, <3>1
  <2>4. CASE ~(Len(runs) > Cap(level))
    <3>1. last = runs
      BY <2>4
    <3> HIDE DEF kept, runs, last
    <3> QED
      BY <1>2, <2>1, <2>4, <3>1
  <2> QED
    BY <2>3, <2>4
<1>4. Slide(w, level, passed) = [cap |-> Cap(level), runs |-> last]
    BY DEF Slide
<1> QED
    BY <1>3, <1>4 DEF Windows

\* clear() empties a deque and leaves its maxlen.
LEMMA ClearType ==
    ASSUME NEW w \in Windows
    PROVE  /\ [w EXCEPT !.runs = <<>>] \in Windows
           /\ Len([w EXCEPT !.runs = <<>>].runs) =< [w EXCEPT !.runs = <<>>].cap
<1> DEFINE C == {0} \cup {Cap(l) : l \in Levels}
<1>1. PICK c \in C, r \in Seq(BOOLEAN) : w = [cap |-> c, runs |-> r]
    BY DEF Windows
<1>2. [w EXCEPT !.runs = <<>>] = [cap |-> c, runs |-> <<>>]
    BY <1>1
<1>3. c \in Nat
    BY CapPositive
<1>4. <<>> \in Seq(BOOLEAN) /\ Len(<<>>) = 0
    OBVIOUS
<1>5. /\ [cap |-> c, runs |-> <<>>] \in Windows
      /\ [cap |-> c, runs |-> <<>>].cap = c
      /\ [cap |-> c, runs |-> <<>>].runs = <<>>
    BY <1>4, Zenon DEF Windows
<1> QED
    BY <1>2, <1>3, <1>4, <1>5

\* What judging a report does to a well-typed engine.
EngineOK ==
    /\ seen \subseteq Reporters \X Traces \X {NameOf[t] : t \in Tests}
    /\ window \in [Keys -> Windows]
    /\ \A k \in Keys : Len(window[k].runs) =< window[k].cap
    /\ life \in [Keys -> [total : Nat, failed : Nat]]
    /\ \A k \in Keys : life[k].failed =< life[k].total
    /\ unreliable \subseteq Keys

LEMMA JudgeType ==
    ASSUME EngineOK, NEW rec \in Reports, Judgeable(rec), Judge(rec)
    PROVE  EngineOK'
<1> DEFINE k == KeyOf(rec)
           w == Slide(window[k], rec.level, rec.passed)
           W == IF Fires(rec) THEN [w EXCEPT !.runs = <<>>] ELSE w
<1>1. k \in Keys /\ rec.level \in Levels /\ rec.passed \in BOOLEAN
    BY KeyInKeys DEF Reports
<1>2. w \in Windows /\ Len(w.runs) =< w.cap
    BY <1>1, SlideType DEF EngineOK
<1>3. W \in Windows /\ Len(W.runs) =< W.cap
  <2>1. CASE Fires(rec)
    BY <1>2, <2>1, ClearType
  <2>2. CASE ~Fires(rec)
    BY <1>2, <2>2
  <2> QED
    BY <2>1, <2>2
<1>4. seen' \subseteq Reporters \X Traces \X {NameOf[t] : t \in Tests}
    BY IdemType DEF EngineOK, Judge
<1>5. window' = [window EXCEPT ![k] = W]
    BY DEF Judge
<1>6. /\ window' \in [Keys -> Windows]
      /\ \A j \in Keys : Len(window'[j].runs) =< window'[j].cap
    BY <1>1, <1>3, <1>5 DEF EngineOK
<1>7. /\ life' \in [Keys -> [total : Nat, failed : Nat]]
      /\ \A j \in Keys : life'[j].failed =< life'[j].total
  <2>1. /\ Lived(life[k], rec.passed) \in [total : Nat, failed : Nat]
        /\ Lived(life[k], rec.passed).failed =< Lived(life[k], rec.passed).total
    BY <1>1 DEF EngineOK, Lived
  <2>2. life' = [life EXCEPT ![k] = Lived(life[k], rec.passed)]
    BY DEF Judge
  <2> QED
    BY <1>1, <2>1, <2>2 DEF EngineOK
<1>8. unreliable' \subseteq Keys
    BY <1>1 DEF EngineOK, Judge
<1> QED
    BY <1>4, <1>6, <1>7, <1>8 DEF EngineOK

LEMMA FreshType ==
    /\ NoWindows \in [Keys -> Windows]
    /\ \A k \in Keys : Len(NoWindows[k].runs) =< NoWindows[k].cap
    /\ NoLives \in [Keys -> [total : Nat, failed : Nat]]
    /\ \A k \in Keys : NoLives[k].failed =< NoLives[k].total
BY DEF NoWindows, NoLives, Windows

-----------------------------------------------------------------------------
(* Types.                                                                  *)

LEMMA EffectType ==
    ASSUME NEW rec
    PROVE  EffectOf(rec) \in {"none", "decay", "inject", "trip"}
BY DEF EffectOf

LEMMA EngineType ==
    ASSUME EngineOK
    PROVE  Engine \in Engines
BY DEF EngineOK, Engine, Engines

LEMMA TypeInductive == TypeOK /\ [Next]_vars => TypeOK'
<1> SUFFICES ASSUME TypeOK, [Next]_vars
             PROVE  TypeOK'
    OBVIOUS
<1>1. EngineOK /\ log \in Seq(Reports) /\ replayed \in 0..Len(log)
    BY DEF TypeOK, EngineOK
<1>2. Submissions \subseteq Reports
    BY DEF Submissions
<1>3. ASSUME NEW rec \in Submissions, Persist(rec), Serving, EngineOK'
      PROVE  log' \in Seq(Reports) /\ replayed' \in 0..Len(log') /\ lived' \in Seq(Engines)
  <2>1. log' \in Seq(Reports) /\ replayed' \in 0..Len(log')
    BY <1>1, <1>2, <1>3 DEF Persist, Serving
  <2>2. Engine' \in Engines
    <3>1. EngineOK' => Engine' \in Engines
      BY DEF EngineOK, Engine, Engines
    <3> QED
      BY <1>3, <3>1
  <2>3. lived \in Seq(Engines) /\ lived' = Append(lived, Engine')
    BY <1>3 DEF Persist, TypeOK
  <2> QED
    BY <2>1, <2>2, <2>3
<1>4. ASSUME NEW rec \in Submissions, Decide(rec)
      PROVE  TypeOK'
  <2>1. EngineOK'
    BY <1>1, <1>2, <1>4, JudgeType DEF Decide
  <2>2. log' \in Seq(Reports) /\ replayed' \in 0..Len(log') /\ lived' \in Seq(Engines)
    BY <1>3, <1>4, <2>1 DEF Decide
  <2>3. effect' \in {"none", "decay", "inject", "trip"}
    BY <1>4, EffectType DEF Decide
  <2> QED
    BY <2>1, <2>2, <2>3 DEF TypeOK, EngineOK
<1>5. ASSUME NEW rec \in Submissions, Deduplicate(rec)
      PROVE  TypeOK'
    BY <1>5 DEF Deduplicate, TypeOK, engine
<1>6. ASSUME NEW rec \in Submissions, RecordOnly(rec)
      PROVE  TypeOK'
  <2>1. EngineOK'
    BY <1>1, <1>6 DEF RecordOnly, EngineOK, engine
  <2>2. log' \in Seq(Reports) /\ replayed' \in 0..Len(log') /\ lived' \in Seq(Engines)
    BY <1>3, <1>6, <2>1 DEF RecordOnly
  <2> QED
    BY <1>6, <2>1, <2>2 DEF RecordOnly, TypeOK, EngineOK
<1>7. CASE Restart
    BY <1>1, <1>7, FreshType DEF Restart, TypeOK
<1>8. CASE Replay
  <2>1. /\ log[replayed + 1] \in Reports
        /\ replayed + 1 \in 0..Len(log)
    BY <1>1, <1>8 DEF Replay, Serving
  <2>2. EngineOK'
    BY <1>1, <1>8, <2>1, JudgeType DEF Replay, Rejudge, engine, EngineOK
  <2> QED
    BY <1>1, <1>8, <2>1, <2>2 DEF Replay, TypeOK, EngineOK
<1>9. CASE UNCHANGED vars
    BY <1>9 DEF vars, TypeOK
<1> QED
    BY <1>4, <1>5, <1>6, <1>7, <1>8, <1>9 DEF Next, Submit

\* No report has a separator in its texts: the stream reads back whole.
Whole == Separated = {}

LEMMA ReplayJudges ==
    ASSUME Whole, Replay
    PROVE  LET rec == log[replayed + 1]
           IN  IF Judgeable(rec) THEN Rejudge(rec) ELSE UNCHANGED engine
BY DEF Whole, Replay, ReadBack

\* Every deque stays within its maxlen and every counter and key is well formed,
\* for a table of thresholds and a stream of any size: LEVEL_SPEC and _window
\* never give a test a window it can overflow.
THEOREM TypeCorrect == Spec => []TypeOK
<1>1. Init => TypeOK
    BY FreshType DEF Init, TypeOK
<1> QED
    BY <1>1, TypeInductive, PTL DEF Spec

-----------------------------------------------------------------------------
(* Idempotency.                                                            *)

\* The judged reports among the first n lines of a stream.
JudgedIn(lines, n) ==
    {Idem(lines[i]) : i \in {j \in 1..n : Judgeable(lines[j])}}

\* One more line adds its report, if it is one that is judged.
LEMMA JudgedGrows ==
    ASSUME NEW old, NEW new, NEW n \in Nat, \A i \in 1..n : new[i] = old[i]
    PROVE  JudgedIn(new, n + 1) = IF Judgeable(new[n + 1])
                                  THEN JudgedIn(old, n) \cup {Idem(new[n + 1])}
                                  ELSE JudgedIn(old, n)
<1> DEFINE J == {j \in 1..n : Judgeable(old[j])}
           K == {j \in 1..(n + 1) : Judgeable(new[j])}
<1>1. 1..(n + 1) = (1..n) \cup {n + 1}
    OBVIOUS
<1>2. K = IF Judgeable(new[n + 1]) THEN J \cup {n + 1} ELSE J
    BY <1>1
<1>3. \A j \in J : Idem(new[j]) = Idem(old[j])
    OBVIOUS
<1>4. JudgedIn(old, n) = {Idem(old[j]) : j \in J}
    BY DEF JudgedIn
<1>5. JudgedIn(new, n + 1) = {Idem(new[j]) : j \in K}
    BY DEF JudgedIn
<1> HIDE DEF J, K
<1>6. CASE Judgeable(new[n + 1])
    BY <1>2, <1>3, <1>4, <1>5, <1>6
<1>7. CASE ~Judgeable(new[n + 1])
    BY <1>2, <1>3, <1>4, <1>5, <1>7
<1> QED
    BY <1>6, <1>7

\* No two lines carry the same judged report.
NoTwins == \A i, j \in 1..Len(log) :
              i # j /\ Judgeable(log[i]) /\ Judgeable(log[j])
              => Idem(log[i]) # Idem(log[j])

LEMMA OnceUnfolds == JudgedOnce <=> NoTwins /\ seen = JudgedIn(log, replayed)
BY DEF JudgedOnce, NoTwins, JudgedIn

LEMMA PersistEffect ==
    ASSUME TypeOK, Serving, NEW rec \in Reports, Persist(rec)
    PROVE  /\ Len(log') = Len(log) + 1
           /\ replayed = Len(log) /\ replayed' = Len(log) + 1
           /\ log'[Len(log) + 1] = rec
           /\ \A i \in 1..Len(log) : log'[i] = log[i]
BY DEF TypeOK, Serving, Persist

LEMMA OnceInductive == Whole /\ TypeOK /\ JudgedOnce /\ [Next]_vars => JudgedOnce'
<1> SUFFICES ASSUME Whole, TypeOK, JudgedOnce, [Next]_vars
             PROVE  JudgedOnce'
    OBVIOUS
<1>1. NoTwins /\ seen = JudgedIn(log, replayed)
    BY OnceUnfolds
<1>2. Submissions \subseteq Reports
    BY DEF Submissions
<1>3. ASSUME NEW rec \in Submissions, Persist(rec), Serving,
             Judgeable(rec) => Idem(rec) \notin seen
      PROVE  /\ NoTwins'
             /\ JudgedIn(log', replayed') = IF Judgeable(rec)
                                            THEN seen \cup {Idem(rec)} ELSE seen
  <2>1. /\ Len(log') = Len(log) + 1
        /\ replayed = Len(log) /\ replayed' = Len(log) + 1
        /\ log'[Len(log) + 1] = rec
        /\ \A i \in 1..Len(log) : log'[i] = log[i]
    BY <1>2, <1>3, PersistEffect
  <2>2. Len(log) \in Nat
    BY DEF TypeOK
  <2>3. JudgedIn(log', replayed') = IF Judgeable(rec)
                                    THEN seen \cup {Idem(rec)} ELSE seen
    BY <1>1, <2>1, <2>2, JudgedGrows
  <2>4. NoTwins'
    <3> SUFFICES ASSUME NEW i \in 1..Len(log'), NEW j \in 1..Len(log'), i # j,
                        Judgeable(log'[i]), Judgeable(log'[j])
                 PROVE  Idem(log'[i]) # Idem(log'[j])
      BY DEF NoTwins, Judgeable, Idem
    <3>1. \A m \in 1..Len(log) : Judgeable(log'[m]) => Idem(log'[m]) \in seen
      BY <1>1, <2>1 DEF JudgedIn
    <3>2. CASE i \in 1..Len(log) /\ j \in 1..Len(log)
      BY <1>1, <2>1, <3>2 DEF NoTwins
    <3>3. CASE i = Len(log) + 1
      BY <1>3, <2>1, <2>2, <3>1, <3>3
    <3>4. CASE j = Len(log) + 1
      BY <1>3, <2>1, <2>2, <3>1, <3>4
    <3> QED
      BY <2>1, <2>2, <3>2, <3>3, <3>4
  <2> QED
    BY <2>3, <2>4
<1>4. ASSUME NEW rec \in Submissions, Decide(rec)
      PROVE  JudgedOnce'
  <2>1. /\ Persist(rec) /\ Serving /\ Judgeable(rec) /\ Idem(rec) \notin seen
        /\ seen' = seen \cup {Idem(rec)}
    BY <1>4 DEF Decide, Judge
  <2>2. NoTwins' /\ JudgedIn(log', replayed') = seen'
    BY <1>3, <2>1
  <2> QED
    BY <2>2 DEF JudgedOnce, NoTwins, JudgedIn
<1>5. ASSUME NEW rec \in Submissions, RecordOnly(rec)
      PROVE  JudgedOnce'
  <2>1. Persist(rec) /\ Serving /\ ~Judgeable(rec) /\ seen' = seen
    BY <1>5 DEF RecordOnly, engine
  <2>2. NoTwins' /\ JudgedIn(log', replayed') = seen'
    BY <1>3, <2>1
  <2> QED
    BY <2>2 DEF JudgedOnce, NoTwins, JudgedIn
<1>6. ASSUME NEW rec \in Submissions, Deduplicate(rec)
      PROVE  JudgedOnce'
    BY <1>6 DEF Deduplicate, engine, JudgedOnce
<1>7. CASE Restart
  <2>1. log' = log /\ replayed' = 0 /\ seen' = {}
    BY <1>7 DEF Restart
  <2> QED
    BY <2>1 DEF JudgedOnce
<1>8. CASE Replay
  <2>1. /\ log' = log /\ replayed' = replayed + 1
        /\ replayed \in 0..Len(log) /\ replayed < Len(log)
    BY <1>8 DEF Replay, Serving, TypeOK
  <2>2. seen' = IF Judgeable(log[replayed + 1])
                THEN seen \cup {Idem(log[replayed + 1])} ELSE seen
    BY <1>8, ReplayJudges DEF Rejudge, Judge, engine
  <2>3. JudgedIn(log, replayed + 1) = seen'
    <3>1. replayed \in Nat /\ \A i \in 1..replayed : log[i] = log[i]
      BY <2>1 DEF TypeOK
    <3>2. JudgedIn(log, replayed + 1) =
              IF Judgeable(log[replayed + 1])
              THEN JudgedIn(log, replayed) \cup {Idem(log[replayed + 1])}
              ELSE JudgedIn(log, replayed)
      BY <3>1, JudgedGrows, Zenon
    <3> QED
      BY <1>1, <2>2, <3>2
  <2>4. NoTwins' /\ JudgedIn(log', replayed') = seen'
    BY <1>1, <2>1, <2>3 DEF NoTwins
  <2> QED
    BY <2>4 DEF JudgedOnce, NoTwins, JudgedIn
<1>9. CASE UNCHANGED vars
    BY <1>9 DEF vars, JudgedOnce
<1> QED
    BY <1>4, <1>5, <1>6, <1>7, <1>8, <1>9 DEF Next, Submit

\* No resend and no restart has a report of the same reporter, trace and name
\* judged twice: _seen, the stream and the replay of __init__ agree about what
\* was judged, whatever the order of reports and deaths, when the stream reads
\* back whole.
THEOREM EachReportIsJudgedOnce ==
    ASSUME Whole
    PROVE  Spec => []JudgedOnce
<1>1. Init => JudgedOnce
    BY DEF Init, JudgedOnce
<1>2. Spec => []TypeOK
    BY TypeCorrect
<1> QED
    BY <1>1, <1>2, OnceInductive, PTL DEF Spec

-----------------------------------------------------------------------------
(* Restarts.                                                               *)

\* _judge as a function of the engine it finds.
LeavesOut(e, rec) ==
    \/ KeyOf(rec) \in e.unreliable
    \/ Flaky(Lived(e.life[KeyOf(rec)], rec.passed))

Triggers(e, rec) ==
    /\ ~LeavesOut(e, rec)
    /\ ~rec.passed
    /\ Threshold[rec.level] > 0
    /\ Enough(Slide(e.window[KeyOf(rec)], rec.level, rec.passed).runs, rec.level)

Judged(e, rec) ==
    LET k == KeyOf(rec)
        w == Slide(e.window[k], rec.level, rec.passed)
    IN  [seen       |-> e.seen \cup {Idem(rec)},
         window     |-> [e.window EXCEPT ![k] =
                            IF Triggers(e, rec) THEN [w EXCEPT !.runs = <<>>] ELSE w],
         life       |-> [e.life EXCEPT ![k] = Lived(e.life[k], rec.passed)],
         unreliable |-> IF LeavesOut(e, rec) THEN e.unreliable \cup {k} ELSE e.unreliable]

\* What a line of the stream makes of an engine, live or replayed.
After(e, rec) == IF Judgeable(rec) THEN Judged(e, rec) ELSE e

LEMMA JudgeIsJudged ==
    ASSUME NEW rec, Judge(rec)
    PROVE  Engine' = Judged(Engine, rec)
<1>1. /\ Engine.seen = seen /\ Engine.window = window
      /\ Engine.life = life /\ Engine.unreliable = unreliable
    BY DEF Engine
<1>2. LeavesOut(Engine, rec) <=> Excluded(rec)
    BY <1>1 DEF LeavesOut, Excluded
<1>3. Triggers(Engine, rec) <=> Fires(rec)
    BY <1>1, <1>2 DEF Triggers, Fires
<1> QED
    BY <1>1, <1>2, <1>3 DEF Judge, Judged, Engine

Fresh == [seen |-> {}, window |-> NoWindows, life |-> NoLives, unreliable |-> {}]

\* The live engine after n lines.
LivedAt(n) == IF n = 0 THEN Fresh ELSE lived[n]

\* Each line has taken the process that wrote it one step further.
Chained ==
    /\ Len(lived) = Len(log)
    /\ \A i \in 1..Len(log) : lived[i] = After(LivedAt(i - 1), log[i])

RestartInv == Chained /\ Engine = LivedAt(replayed)

\* A new line goes on from where the one before it left the engine.
LEMMA ChainGrows ==
    ASSUME TypeOK, RestartInv, Serving, NEW rec \in Reports, Persist(rec),
           Engine' = After(Engine, rec)
    PROVE  RestartInv'
<1>1. /\ Len(log) \in Nat /\ Len(lived) = Len(log) /\ replayed = Len(log)
      /\ lived \in Seq(Engines)
    BY DEF TypeOK, RestartInv, Chained, Serving
<1>2. /\ Len(log') = Len(log) + 1 /\ replayed' = Len(log) + 1 /\ log'[Len(log) + 1] = rec
      /\ \A i \in 1..Len(log) : log'[i] = log[i]
    BY PersistEffect
<1>3. /\ lived' = Append(lived, Engine')
      /\ Len(lived') = Len(log) + 1 /\ lived'[Len(log) + 1] = Engine'
      /\ \A i \in 1..Len(log) : lived'[i] = lived[i]
    BY <1>1 DEF Persist
<1>4. \A i \in 0..Len(log) : LivedAt(i)' = LivedAt(i)
    BY <1>3 DEF LivedAt
<1>5. ASSUME NEW i \in 1..Len(log')
      PROVE  lived'[i] = After(LivedAt(i - 1)', log'[i])
  <2>1. i - 1 \in 0..Len(log) /\ LivedAt(i - 1)' = LivedAt(i - 1)
    BY <1>1, <1>2, <1>4
  <2>2. CASE i \in 1..Len(log)
    BY <1>2, <1>3, <2>1, <2>2 DEF RestartInv, Chained
  <2>3. CASE i = Len(log) + 1
    <3>1. LivedAt(i - 1) = Engine
      BY <1>1, <2>3 DEF RestartInv
    <3> QED
      BY <1>2, <1>3, <2>1, <2>3, <3>1
  <2> QED
    BY <1>1, <1>2, <2>2, <2>3
<1>6. Chained'
    BY <1>2, <1>3, <1>5 DEF Chained, After, LivedAt
<1>7. Engine' = LivedAt(replayed)'
    BY <1>1, <1>2, <1>3 DEF LivedAt
<1> QED
    BY <1>6, <1>7 DEF RestartInv

LEMMA RestartInductive == Whole /\ TypeOK /\ RestartInv /\ [Next]_vars => RestartInv'
<1> SUFFICES ASSUME Whole, TypeOK, RestartInv, [Next]_vars PROVE RestartInv'
    OBVIOUS
<1>1. Submissions \subseteq Reports
    BY DEF Submissions
<1>2. ASSUME NEW rec \in Submissions, Decide(rec)
      PROVE  RestartInv'
  <2>1. Engine' = After(Engine, rec) /\ Serving /\ Persist(rec)
    BY <1>2, JudgeIsJudged DEF Decide, After
  <2> QED
    BY <1>1, <2>1, ChainGrows
<1>3. ASSUME NEW rec \in Submissions, RecordOnly(rec)
      PROVE  RestartInv'
  <2>1. Engine' = After(Engine, rec) /\ Serving /\ Persist(rec)
    BY <1>3 DEF RecordOnly, After, engine, Engine
  <2> QED
    BY <1>1, <2>1, ChainGrows
<1>4. CASE Restart
  <2>1. Engine' = Fresh /\ replayed' = 0 /\ UNCHANGED <<log, lived>>
    BY <1>4 DEF Restart, Engine, Fresh
  <2> QED
    BY <2>1 DEF RestartInv, Chained, LivedAt
<1>5. CASE Replay
  <2>1. /\ replayed' = replayed + 1 /\ UNCHANGED <<log, lived>>
        /\ replayed \in 0..Len(log) /\ replayed # Len(log)
    BY <1>5 DEF Replay, Serving, TypeOK
  <2>2. Engine' = After(Engine, log[replayed + 1])
    BY <1>5, JudgeIsJudged, ReplayJudges DEF Rejudge, After, engine, Engine
  <2>3. /\ Len(log) \in Nat /\ replayed + 1 \in 1..Len(log) /\ (replayed + 1) - 1 = replayed
    BY <2>1 DEF TypeOK
  <2>4. lived[replayed + 1] = After(LivedAt(replayed), log[replayed + 1])
    BY <2>3 DEF RestartInv, Chained
  <2>5. Engine' = LivedAt(replayed + 1)
    BY <2>2, <2>3, <2>4 DEF RestartInv, LivedAt
  <2>6. Chained' /\ LivedAt(replayed)' = LivedAt(replayed + 1)
    BY <2>1 DEF RestartInv, Chained, LivedAt
  <2> QED
    BY <2>5, <2>6 DEF RestartInv
<1>6. CASE UNCHANGED <<seen, window, life, unreliable, log, replayed, lived>>
    BY <1>6 DEF RestartInv, Chained, LivedAt, Engine
<1> QED
    BY <1>2, <1>3, <1>4, <1>5, <1>6 DEF Next, Submit, Deduplicate, engine, vars

\* The replay of __init__ rebuilds the engine of the process that judged the
\* stream live: windows, armed or not, counters, flaky marks and what is seen,
\* at every line, for every stream without separators and every number of
\* restarts.
THEOREM ReplayRebuilds ==
    ASSUME Whole
    PROVE  Spec => []RestartForgetsNothing
<1>1. Init => RestartInv
    BY DEF Init, RestartInv, Chained, LivedAt, Engine, Fresh
<1>2. RestartInv => RestartForgetsNothing
    BY DEF RestartInv, LivedAt, RestartForgetsNothing
<1>3. Spec => []TypeOK
    BY TypeCorrect
<1> QED
    BY <1>1, <1>2, <1>3, RestartInductive, PTL DEF Spec

-----------------------------------------------------------------------------
(* Buckets.                                                                *)

\* The lines among the first n that belong to a window, and the failures of
\* them.
Owns(k, rec) == <<TrustOf[rec.reporter], rec.test>> = k
LinesIn(lines, k, n) == {i \in 1..n : Owns(k, lines[i])}
FailsIn(lines, k, n) == {i \in LinesIn(lines, k, n) : ~lines[i].passed}

\* One more line counts for its own window and for no other.
LEMMA LinesGrow ==
    ASSUME NEW old, NEW new, NEW k, NEW n \in Nat, \A i \in 1..n : new[i] = old[i]
    PROVE  /\ Cardinality(LinesIn(new, k, n + 1)) =
                  Cardinality(LinesIn(old, k, n)) + (IF Owns(k, new[n + 1]) THEN 1 ELSE 0)
           /\ Cardinality(FailsIn(new, k, n + 1)) =
                  Cardinality(FailsIn(old, k, n))
                      + (IF Owns(k, new[n + 1]) /\ ~new[n + 1].passed THEN 1 ELSE 0)
           /\ Cardinality(LinesIn(old, k, n)) \in Nat
           /\ Cardinality(FailsIn(old, k, n)) \in Nat
<1> DEFINE own == Owns(k, new[n + 1])
<1>1. 1..(n + 1) = (1..n) \cup {n + 1} /\ n + 1 \notin 1..n
    OBVIOUS
<1>2. IsFiniteSet(1..n)
    BY FS_Interval
<1>3. /\ LinesIn(old, k, n) \in SUBSET (1..n)
      /\ FailsIn(old, k, n) \in SUBSET (1..n)
    BY DEF LinesIn, FailsIn
<1>4. /\ IsFiniteSet(LinesIn(old, k, n)) /\ n + 1 \notin LinesIn(old, k, n)
      /\ IsFiniteSet(FailsIn(old, k, n)) /\ n + 1 \notin FailsIn(old, k, n)
    BY <1>1, <1>2, <1>3, FS_Subset
<1>5. LinesIn(new, k, n + 1) = IF own THEN LinesIn(old, k, n) \cup {n + 1}
                                      ELSE LinesIn(old, k, n)
    BY <1>1 DEF LinesIn
<1>6. FailsIn(new, k, n + 1) = IF own /\ ~new[n + 1].passed
                               THEN FailsIn(old, k, n) \cup {n + 1}
                               ELSE FailsIn(old, k, n)
    BY <1>1, <1>3, <1>5 DEF LinesIn, FailsIn
<1>7. /\ Cardinality(LinesIn(old, k, n)) \in Nat
      /\ Cardinality(FailsIn(old, k, n)) \in Nat
    BY <1>4, FS_CardinalityType
<1>8. /\ Cardinality(LinesIn(old, k, n) \cup {n + 1}) =
             Cardinality(LinesIn(old, k, n)) + 1
      /\ Cardinality(FailsIn(old, k, n) \cup {n + 1}) =
             Cardinality(FailsIn(old, k, n)) + 1
    BY <1>4, FS_AddElement
<1> QED
    BY <1>5, <1>6, <1>7, <1>8

\* The counters of k say what the first n lines of a stream hold of it.
Counts(lines, n, L) ==
    \A k \in Keys : /\ L[k].total = Cardinality(LinesIn(lines, k, n))
                    /\ L[k].failed = Cardinality(FailsIn(lines, k, n))

LEMMA HistoryUnfolds == LifeIsOwnHistory <=> Counts(log, replayed, life)
BY DEF LifeIsOwnHistory, LinesOf, Counts, LinesIn, FailsIn, Owns

LEMMA NothingCounted == ASSUME NEW lines PROVE Counts(lines, 0, NoLives)
<1>1. ASSUME NEW k \in Keys
      PROVE  LinesIn(lines, k, 0) = {} /\ FailsIn(lines, k, 0) = {}
    BY DEF LinesIn, FailsIn
<1> QED
    BY <1>1, FS_EmptySet DEF Counts, NoLives

\* The next line keeps the counters true, whether it is judged or not.
LEMMA CountsGrow ==
    ASSUME NEW old, NEW new, NEW n \in Nat, \A i \in 1..n : new[i] = old[i],
           NEW L \in [Keys -> [total : Nat, failed : Nat]], NEW M,
           Counts(old, n, L), new[n + 1] \in Reports,
           M = IF Judgeable(new[n + 1])
               THEN [L EXCEPT ![KeyOf(new[n + 1])] =
                        Lived(L[KeyOf(new[n + 1])], new[n + 1].passed)]
               ELSE L
    PROVE  Counts(new, n + 1, M)
<1> DEFINE rec == new[n + 1]
<1> SUFFICES ASSUME NEW k \in Keys
             PROVE  /\ M[k].total = Cardinality(LinesIn(new, k, n + 1))
                    /\ M[k].failed = Cardinality(FailsIn(new, k, n + 1))
    BY DEF Counts
<1>1. /\ Cardinality(LinesIn(new, k, n + 1)) = L[k].total + (IF Owns(k, rec) THEN 1 ELSE 0)
      /\ Cardinality(FailsIn(new, k, n + 1)) =
             L[k].failed + (IF Owns(k, rec) /\ ~rec.passed THEN 1 ELSE 0)
  <2>1. /\ Cardinality(LinesIn(new, k, n + 1)) =
               Cardinality(LinesIn(old, k, n)) + (IF Owns(k, rec) THEN 1 ELSE 0)
        /\ Cardinality(FailsIn(new, k, n + 1)) =
               Cardinality(FailsIn(old, k, n))
                   + (IF Owns(k, rec) /\ ~rec.passed THEN 1 ELSE 0)
    BY LinesGrow
  <2> QED
    BY <2>1 DEF Counts
<1>2. L[k].total \in Nat /\ L[k].failed \in Nat
    OBVIOUS
<1>3. Owns(k, rec) => Judgeable(rec) /\ KeyOf(rec) = k
    BY DEF Keys, Buckets, Judgeable, KeyOf, BucketOf, Owns
<1>4. Judgeable(rec) /\ KeyOf(rec) = k => Owns(k, rec)
    BY DEF KeyOf, BucketOf, Owns
<1>5. CASE Owns(k, rec)
  <2>1. M[k] = Lived(L[k], rec.passed)
    BY <1>3, <1>5
  <2> QED
    BY <1>1, <1>2, <1>5, <2>1 DEF Lived
<1>6. CASE ~Owns(k, rec)
  <2>1. M[k] = L[k]
    BY <1>4, <1>6
  <2> QED
    BY <1>1, <1>2, <1>6, <2>1
<1> QED
    BY <1>5, <1>6

LEMMA HistoryInductive ==
    Whole /\ TypeOK /\ LifeIsOwnHistory /\ [Next]_vars => LifeIsOwnHistory'
<1> SUFFICES ASSUME Whole, TypeOK, LifeIsOwnHistory, [Next]_vars
             PROVE  LifeIsOwnHistory'
    OBVIOUS
<1>1. /\ Counts(log, replayed, life) /\ log \in Seq(Reports)
      /\ replayed \in Nat /\ replayed =< Len(log)
      /\ life \in [Keys -> [total : Nat, failed : Nat]]
    BY HistoryUnfolds DEF TypeOK
<1>2. Submissions \subseteq Reports
    BY DEF Submissions
<1>3. Counts(log', replayed', life') => LifeIsOwnHistory'
    BY DEF LifeIsOwnHistory, LinesOf, Counts, LinesIn, FailsIn, Owns
<1>4. ASSUME NEW rec \in Submissions, Persist(rec), Serving,
             life' = IF Judgeable(rec)
                     THEN [life EXCEPT ![KeyOf(rec)] =
                              Lived(life[KeyOf(rec)], rec.passed)]
                     ELSE life
      PROVE  LifeIsOwnHistory'
  <2>1. /\ replayed' = replayed + 1
        /\ log'[replayed + 1] = rec
        /\ \A i \in 1..replayed : log'[i] = log[i]
    BY <1>1, <1>2, <1>4, PersistEffect
  <2>2. Counts(log', replayed + 1, life')
    BY <1>1, <1>2, <1>4, <2>1, CountsGrow
  <2> QED
    BY <1>3, <2>1, <2>2
<1>5. ASSUME NEW rec \in Submissions, Decide(rec)
      PROVE  LifeIsOwnHistory'
    BY <1>4, <1>5 DEF Decide, Judge
<1>6. ASSUME NEW rec \in Submissions, RecordOnly(rec)
      PROVE  LifeIsOwnHistory'
    BY <1>4, <1>6 DEF RecordOnly, engine
<1>7. ASSUME NEW rec \in Submissions, Deduplicate(rec)
      PROVE  LifeIsOwnHistory'
    BY <1>1, <1>3, <1>7 DEF Deduplicate, engine
<1>8. CASE Restart
  <2>1. replayed' = 0 /\ life' = NoLives
    BY <1>8 DEF Restart
  <2> QED
    BY <1>3, <2>1, NothingCounted
<1>9. CASE Replay
  <2>1. /\ log' = log /\ replayed' = replayed + 1
        /\ replayed + 1 \in 1..Len(log)
    BY <1>1, <1>9 DEF Replay, Serving
  <2>2. log[replayed + 1] \in Reports
    BY <1>1, <2>1
  <2>3. life' = IF Judgeable(log[replayed + 1])
                THEN [life EXCEPT ![KeyOf(log[replayed + 1])] =
                         Lived(life[KeyOf(log[replayed + 1])],
                               log[replayed + 1].passed)]
                ELSE life
    BY <1>9, ReplayJudges DEF Rejudge, Judge, engine
  <2>4. Counts(log, replayed + 1, life')
    BY <1>1, <2>2, <2>3, CountsGrow
  <2> QED
    BY <1>3, <2>1, <2>4
<1>10. CASE UNCHANGED vars
    BY <1>1, <1>3, <1>10 DEF vars
<1> QED
    BY <1>5, <1>6, <1>7, <1>8, <1>9, <1>10 DEF Next, Submit

\* The structural isolation testing.py promises: the counters of a window are the
\* lines of its own bucket, model and test, so no report of lower trust moves
\* them, in any interleaving of reports and of restarts that read the stream whole.
THEOREM BucketsAreIsolated ==
    ASSUME Whole
    PROVE  Spec => []LifeIsOwnHistory
<1>1. Init => LifeIsOwnHistory
    BY HistoryUnfolds, NothingCounted DEF Init
<1>2. Spec => []TypeOK
    BY TypeCorrect
<1> QED
    BY <1>1, <1>2, HistoryInductive, PTL DEF Spec

-----------------------------------------------------------------------------
(* Windows.                                                                *)

\* runs are the last runs that the first n lines hold of window k.
Latest(lines, k, n, runs) ==
    \A m \in 1..Len(runs) :
        \E i \in LinesIn(lines, k, n) :
            /\ Cardinality({j \in LinesIn(lines, k, n) : j >= i}) = m
            /\ lines[i].passed = runs[Len(runs) + 1 - m]

\* A line of another window changes nothing.
LEMMA LatestKept ==
    ASSUME NEW old, NEW new, NEW k, NEW n \in Nat, \A i \in 1..n : new[i] = old[i],
           ~Owns(k, new[n + 1]), NEW runs, Latest(old, k, n, runs)
    PROVE  Latest(new, k, n + 1, runs)
<1>1. 1..(n + 1) = (1..n) \cup {n + 1}
    OBVIOUS
<1>2. LinesIn(new, k, n + 1) = LinesIn(old, k, n)
    BY <1>1 DEF LinesIn
<1>3. \A i \in LinesIn(old, k, n) : new[i] = old[i]
    BY DEF LinesIn
<1> QED
    BY <1>2, <1>3 DEF Latest

\* A line of its own is the latest, and moves the others back by one.
LEMMA LatestAppended ==
    ASSUME NEW old, NEW new, NEW k, NEW n \in Nat, \A i \in 1..n : new[i] = old[i],
           Owns(k, new[n + 1]), new[n + 1].passed \in BOOLEAN,
           NEW runs \in Seq(BOOLEAN), Latest(old, k, n, runs)
    PROVE  Latest(new, k, n + 1, Append(runs, new[n + 1].passed))
<1> DEFINE S == LinesIn(old, k, n)
           T == LinesIn(new, k, n + 1)
           more == Append(runs, new[n + 1].passed)
<1>1. 1..(n + 1) = (1..n) \cup {n + 1} /\ n + 1 \notin 1..n
    OBVIOUS
<1>2. /\ T = S \cup {n + 1} /\ S \in SUBSET (1..n)
      /\ \A i \in S : i \in 1..n /\ new[i] = old[i]
    BY <1>1 DEF LinesIn
<1>3. Len(runs) \in Nat /\ Len(more) = Len(runs) + 1
    OBVIOUS
<1>4. more[Len(more)] = new[n + 1].passed /\ \A i \in 1..Len(runs) : more[i] = runs[i]
    OBVIOUS
<1> HIDE DEF S, T, more
<1> SUFFICES ASSUME NEW m \in 1..Len(more)
             PROVE  \E i \in T : /\ Cardinality({j \in T : j >= i}) = m
                                /\ new[i].passed = more[Len(more) + 1 - m]
    BY DEF Latest, S, T, more
<1>5. CASE m = 1
  <2>1. {j \in T : j >= n + 1} = {n + 1}
    <3>1. \A j \in T : j >= n + 1 <=> j = n + 1
      BY <1>2
    <3>2. n + 1 \in T
      BY <1>2
    <3> QED
      BY <3>1, <3>2, Zenon
  <2>2. Cardinality({n + 1}) = 1
    BY FS_Singleton
  <2>3. Len(more) + 1 - m = Len(more) /\ n + 1 \in T
    BY <1>2, <1>3, <1>5
  <2> QED
    BY <1>4, <1>5, <2>1, <2>2, <2>3
<1>6. CASE m # 1
  <2>1. m - 1 \in 1..Len(runs)
    BY <1>3, <1>6
  <2>2. PICK i \in S : /\ Cardinality({j \in S : j >= i}) = m - 1
                      /\ old[i].passed = runs[Len(runs) + 1 - (m - 1)]
    BY <2>1 DEF Latest, S
  <2>3. {j \in T : j >= i} = {j \in S : j >= i} \cup {n + 1}
    BY <1>2, <2>2
  <2>4. IsFiniteSet({j \in S : j >= i}) /\ n + 1 \notin {j \in S : j >= i}
    <3>1. {j \in S : j >= i} \in SUBSET (1..n)
      BY <1>2
    <3>2. IsFiniteSet(1..n)
      BY FS_Interval
    <3> QED
      BY <1>1, <3>1, <3>2, FS_Subset
  <2>5. Cardinality({j \in T : j >= i}) = m
    <3>1. Cardinality({j \in S : j >= i} \cup {n + 1}) = Cardinality({j \in S : j >= i}) + 1
      BY <2>4, FS_AddElement
    <3>2. Cardinality({j \in T : j >= i}) = Cardinality({j \in S : j >= i}) + 1
      BY <2>3, <3>1, Zenon
    <3>3. m \in Nat
      BY <1>3
    <3> QED
      BY <2>2, <3>2, <3>3
  <2>6. /\ Len(more) + 1 - m = Len(runs) + 1 - (m - 1)
        /\ Len(runs) + 1 - (m - 1) \in 1..Len(runs)
    BY <1>3, <2>1
  <2>7. new[i].passed = more[Len(more) + 1 - m]
    BY <1>2, <1>4, <2>2, <2>6
  <2> QED
    BY <1>2, <2>5, <2>7
<1> QED
    BY <1>5, <1>6

\* The oldest run may go.
LEMMA LatestTail ==
    ASSUME NEW lines, NEW k, NEW n \in Nat, NEW runs \in Seq(BOOLEAN), runs # <<>>,
           Latest(lines, k, n, runs)
    PROVE  Latest(lines, k, n, Tail(runs))
<1>1. /\ Len(runs) \in Nat /\ Len(Tail(runs)) = Len(runs) - 1
      /\ \A i \in 1..(Len(runs) - 1) : Tail(runs)[i] = runs[i + 1]
    OBVIOUS
<1>2. ASSUME NEW m \in 1..Len(Tail(runs))
      PROVE  /\ m \in 1..Len(runs)
             /\ Tail(runs)[Len(Tail(runs)) + 1 - m] = runs[Len(runs) + 1 - m]
  <2>1. Len(runs) - m \in 1..(Len(runs) - 1)
    BY <1>1
  <2>2. /\ Len(Tail(runs)) + 1 - m = Len(runs) - m
        /\ (Len(runs) - m) + 1 = Len(runs) + 1 - m
    BY <1>1
  <2> QED
    BY <1>1, <2>1, <2>2
<1> QED
    BY <1>2 DEF Latest

LEMMA LatestSlides ==
    ASSUME NEW old, NEW new, NEW k, NEW n \in Nat, \A i \in 1..n : new[i] = old[i],
           Owns(k, new[n + 1]), new[n + 1].passed \in BOOLEAN,
           NEW w \in Windows, NEW level, Latest(old, k, n, w.runs)
    PROVE  Latest(new, k, n + 1, Slide(w, level, new[n + 1].passed).runs)
<1> DEFINE kept == IF w.cap = Cap(level) THEN w.runs ELSE <<>>
           runs == Append(kept, new[n + 1].passed)
<1>1. w.runs \in Seq(BOOLEAN) /\ <<>> \in Seq(BOOLEAN) /\ Len(<<>>) = 0
    BY DEF Windows
<1>2. kept \in Seq(BOOLEAN)
    BY <1>1
<1>3. Latest(old, k, n, kept)
  <2>1. Latest(old, k, n, <<>>)
    BY <1>1 DEF Latest
  <2> QED
    BY <2>1
<1> HIDE DEF kept
<1>4. Latest(new, k, n + 1, runs)
    BY <1>2, <1>3, LatestAppended
<1>5. runs \in Seq(BOOLEAN) /\ runs # <<>>
  <2>1. ASSUME NEW S, NEW r \in Seq(S), NEW x \in S
        PROVE  Append(r, x) \in Seq(S) /\ Append(r, x) # <<>>
    OBVIOUS
  <2> QED
    BY <1>2, <2>1
<1> HIDE DEF runs
<1>6. Latest(new, k, n + 1, Tail(runs))
    BY <1>4, <1>5, LatestTail
<1> QED
    BY <1>4, <1>6 DEF Slide, kept, runs

LEMMA FailsType ==
    ASSUME NEW runs \in Seq(BOOLEAN)
    PROVE  IsFiniteSet({i \in DOMAIN runs : ~runs[i]}) /\ Fails(runs) \in Nat
<1>1. DOMAIN runs = 1..Len(runs) /\ Len(runs) \in Nat
    OBVIOUS
<1>2. IsFiniteSet({i \in DOMAIN runs : ~runs[i]})
  <2>1. IsFiniteSet(1..Len(runs))
    BY <1>1, FS_Interval
  <2>2. {i \in DOMAIN runs : ~runs[i]} \in SUBSET (1..Len(runs))
    BY <1>1
  <2> QED
    BY <2>1, <2>2, FS_Subset
<1> QED
    BY <1>2, FS_CardinalityType DEF Fails

LEMMA FailsOfPass ==
    ASSUME NEW runs \in Seq(BOOLEAN)
    PROVE  Fails(Append(runs, TRUE)) = Fails(runs)
<1>1. {i \in DOMAIN Append(runs, TRUE) : ~Append(runs, TRUE)[i]} = {i \in DOMAIN runs : ~runs[i]}
    OBVIOUS
<1> QED
    BY <1>1 DEF Fails

\* The oldest run takes no failure in.
LEMMA FailsOfTail ==
    ASSUME NEW runs \in Seq(BOOLEAN), runs # <<>>
    PROVE  Fails(Tail(runs)) =< Fails(runs)
<1> DEFINE S == {i \in DOMAIN runs : ~runs[i]}
           T == {i \in DOMAIN Tail(runs) : ~Tail(runs)[i]}
           f == [i \in T |-> i + 1]
<1>1. /\ Len(runs) \in Nat /\ DOMAIN runs = 1..Len(runs)
      /\ DOMAIN Tail(runs) = 1..(Len(runs) - 1)
      /\ \A i \in 1..(Len(runs) - 1) : Tail(runs)[i] = runs[i + 1]
    OBVIOUS
<1>2. ASSUME NEW i \in T PROVE i \in Int /\ i + 1 \in S
    BY <1>1
<1>3. f \in Injection(T, S)
    BY <1>2 DEF Injection, IsInjective
<1>4. IsFiniteSet(S)
    BY FailsType
<1>5. Cardinality(T) =< Cardinality(S)
    BY <1>3, <1>4, FS_Injection
<1> QED
    BY <1>5 DEF Fails

\* Levels that trigger share a size of window only with levels of the same
\* threshold.
LEMMA CapTells ==
    ASSUME NEW l \in Levels, NEW m \in Levels, Threshold[l] > 0, Cap(l) = Cap(m)
    PROVE  Threshold[m] = Threshold[l]
<1>1. /\ Threshold[l] \in Nat /\ Threshold[m] \in Nat
      /\ Multiplier \in Nat /\ Multiplier >= 2
    BY SpecAssumption
<1>2. ASSUME NEW a \in Nat, NEW b \in Nat, NEW c \in Nat, c >= 2, a > 0, a < b
      PROVE  a * c < b * c
    BY <1>2
<1>3. ASSUME NEW a \in Nat, NEW c \in Nat, c >= 2, a > 0
      PROVE  a * c # 1
    BY <1>3
<1>4. CASE Threshold[m] = 0
    BY <1>1, <1>3, <1>4 DEF Cap
<1>5. CASE Threshold[m] # 0
  <2>1. Threshold[l] * Multiplier = Threshold[m] * Multiplier
    BY <1>5 DEF Cap
  <2>2. /\ Threshold[l] * Multiplier \in Int /\ Threshold[m] * Multiplier \in Int
    BY <1>1
  <2>3. /\ Threshold[l] < Threshold[m] => Threshold[l] * Multiplier < Threshold[m] * Multiplier
        /\ Threshold[m] < Threshold[l] => Threshold[m] * Multiplier < Threshold[l] * Multiplier
    BY <1>1, <1>2, <1>5
  <2>4. ~(Threshold[l] < Threshold[m]) /\ ~(Threshold[m] < Threshold[l])
    BY <2>1, <2>2, <2>3
  <2> QED
    BY <1>1, <2>4
<1> QED
    BY <1>4, <1>5

\* Too few failures for any level that has a deque of this size.
Calm(w) ==
    \A l \in Levels : Threshold[l] > 0 /\ w.cap = Cap(l) => Fails(w.runs) < Threshold[l]

\* A run that does not fire leaves a calm deque calm.
LEMMA CalmSlides ==
    ASSUME NEW w \in Windows, Calm(w), NEW level \in Levels, NEW passed \in BOOLEAN,
           passed \/ Threshold[level] = 0 \/ ~Enough(Slide(w, level, passed).runs, level)
    PROVE  Calm(Slide(w, level, passed))
<1> DEFINE kept == IF w.cap = Cap(level) THEN w.runs ELSE <<>>
           runs == Append(kept, passed)
           slid == Slide(w, level, passed).runs
<1>1. w.runs \in Seq(BOOLEAN) /\ <<>> \in Seq(BOOLEAN)
    BY DEF Windows
<1>2. kept \in Seq(BOOLEAN) /\ runs \in Seq(BOOLEAN) /\ runs # <<>>
  <2>1. kept \in Seq(BOOLEAN)
    BY <1>1
  <2> HIDE DEF kept
  <2> QED
    BY <2>1
<1>3. slid = IF Len(runs) > Cap(level) THEN Tail(runs) ELSE runs
    BY DEF Slide
<1>4. Slide(w, level, passed).cap = Cap(level)
    BY DEF Slide
<1>5. Fails(<<>>) = 0
  <2>1. {i \in DOMAIN <<>> : ~<<>>[i]} = {}
    OBVIOUS
  <2> QED
    BY <2>1, FS_EmptySet DEF Fails
<1>6. Threshold[level] \in Nat
    BY SpecAssumption
<1>7. Threshold[level] > 0 => Fails(kept) < Threshold[level]
    BY <1>5, <1>6 DEF Calm
<1> HIDE DEF kept
<1>8. slid \in Seq(BOOLEAN) /\ Fails(slid) =< Fails(runs)
  <2> HIDE DEF runs
  <2>1. Tail(runs) \in Seq(BOOLEAN) /\ Fails(Tail(runs)) =< Fails(runs)
    BY <1>2, FailsOfTail
  <2>2. Fails(runs) \in Nat
    BY <1>2, FailsType
  <2>3. slid = Tail(runs) \/ slid = runs
    BY <1>3
  <2> HIDE DEF slid
  <2>4. CASE slid = Tail(runs)
    BY <2>1, <2>4, Zenon
  <2>5. CASE slid = runs
    BY <1>2, <2>2, <2>5
  <2> QED
    BY <2>3, <2>4, <2>5
<1>9. Fails(slid) \in Nat /\ Fails(runs) \in Nat /\ Fails(kept) \in Nat
    BY <1>2, <1>8, FailsType
<1>10. Threshold[level] > 0 => Fails(slid) < Threshold[level]
  <2>1. CASE passed
    <3>1. Fails(runs) = Fails(kept)
      BY <1>2, <2>1, FailsOfPass
    <3> HIDE DEF slid, runs
    <3> QED
      BY <1>6, <1>7, <1>8, <1>9, <3>1
  <2>2. CASE ~passed
    BY <1>6, <1>9, <2>2 DEF Enough
  <2> QED
    BY <2>1, <2>2
<1> HIDE DEF slid, runs
<1>11. ASSUME NEW l \in Levels, Threshold[l] > 0, Cap(level) = Cap(l)
       PROVE  Fails(slid) < Threshold[l]
    BY <1>10, <1>11, CapTells
<1> QED
    BY <1>4, <1>11 DEF Calm, slid

LEMMA CalmCleared ==
    ASSUME NEW w \in Windows
    PROVE  Calm([w EXCEPT !.runs = <<>>])
<1>1. {i \in DOMAIN <<>> : ~<<>>[i]} = {}
    OBVIOUS
<1>2. Fails(<<>>) = 0
    BY <1>1, FS_EmptySet DEF Fails
<1>3. [w EXCEPT !.runs = <<>>].runs = <<>>
    BY DEF Windows
<1>4. \A l \in Levels : Threshold[l] > 0 => 0 < Threshold[l]
    BY SpecAssumption
<1> QED
    BY <1>2, <1>3, <1>4 DEF Calm

\* What the first n lines have made of the deques.
Windowed(lines, n, W, out) ==
    \A k \in Keys : /\ Latest(lines, k, n, W[k].runs)
                    /\ k \notin out => Calm(W[k])

LEMMA NothingWindowed == ASSUME NEW lines PROVE Windowed(lines, 0, NoWindows, {})
<1> SUFFICES ASSUME NEW k \in Keys
             PROVE  Latest(lines, k, 0, NoWindows[k].runs) /\ Calm(NoWindows[k])
    BY DEF Windowed
<1>1. NoWindows[k].runs = <<>> /\ NoWindows[k].cap = 0
    BY DEF NoWindows
<1>2. \A l \in Levels : Cap(l) # 0
    BY CapPositive
<1> QED
    BY <1>1, <1>2 DEF Latest, Calm

\* Judging the next line keeps them so, live or in a replay.
LEMMA JudgeWindows ==
    ASSUME EngineOK, NEW old, NEW new, NEW n \in Nat, \A i \in 1..n : new[i] = old[i],
           NEW rec \in Reports, new[n + 1] = rec, Judgeable(rec), Judge(rec),
           Windowed(old, n, window, unreliable)
    PROVE  Windowed(new, n + 1, window', unreliable')
<1> DEFINE k == KeyOf(rec)
           w == Slide(window[k], rec.level, rec.passed)
           W == IF Fires(rec) THEN [w EXCEPT !.runs = <<>>] ELSE w
<1>1. k \in Keys /\ rec.level \in Levels /\ rec.passed \in BOOLEAN
    BY KeyInKeys DEF Reports
<1>2. window[k] \in Windows /\ Len(window[k].runs) =< window[k].cap
    BY <1>1 DEF EngineOK
<1>3. w \in Windows
    BY <1>1, <1>2, SlideType
<1>4. window' = [window EXCEPT ![k] = W]
    BY DEF Judge
<1>5. unreliable' = IF Excluded(rec) THEN unreliable \cup {k} ELSE unreliable
    BY DEF Judge
<1>6. Owns(k, rec)
    BY KeyInKeys DEF Owns
<1>7. Latest(new, k, n + 1, W.runs)
  <2>1. Latest(new, k, n + 1, w.runs)
    BY <1>1, <1>2, <1>6, LatestSlides DEF Windowed
  <2>2. CASE Fires(rec)
    <3>1. W.runs = <<>>
      BY <1>3, <2>2 DEF Windows
    <3> QED
      BY <3>1 DEF Latest
  <2> QED
    BY <2>1, <2>2
<1>8. k \notin unreliable' => Calm(W)
  <2> SUFFICES ASSUME k \notin unreliable' PROVE Calm(W)
    OBVIOUS
  <2>1. ~Excluded(rec) /\ Calm(window[k])
    BY <1>1, <1>5 DEF Windowed
  <2>2. CASE Fires(rec)
    BY <1>3, <2>2, CalmCleared
  <2>3. CASE ~Fires(rec)
    <3>1. rec.passed \/ Threshold[rec.level] = 0 \/ ~Enough(w.runs, rec.level)
      BY <1>1, <2>1, <2>3, SpecAssumption DEF Fires
    <3>2. Calm(w)
      BY <1>1, <1>2, <2>1, <3>1, CalmSlides
    <3> QED
      BY <2>3, <3>2
  <2> QED
    BY <2>2, <2>3
<1> HIDE DEF W
<1>9. ASSUME NEW j \in Keys
      PROVE  Latest(new, j, n + 1, window'[j].runs) /\ (j \notin unreliable' => Calm(window'[j]))
  <2>1. CASE j = k
    <3>1. window'[j] = W
      BY <1>1, <1>4, <2>1 DEF EngineOK
    <3> QED
      BY <1>7, <1>8, <2>1, <3>1
  <2>2. CASE j # k
    <3>1. window'[j] = window[j] /\ (j \in unreliable => j \in unreliable')
      BY <1>1, <1>4, <1>5, <2>2 DEF EngineOK
    <3>2. ~Owns(j, new[n + 1])
      BY <1>6, <2>2 DEF Owns
    <3>3. Latest(new, j, n + 1, window[j].runs)
      BY <3>2, LatestKept DEF Windowed
    <3> QED
      BY <3>1, <3>3 DEF Windowed
  <2> QED
    BY <2>1, <2>2
<1> QED
    BY <1>9 DEF Windowed

\* A line of nobody's window leaves them alone.
LEMMA SkipWindows ==
    ASSUME NEW old, NEW new, NEW n \in Nat, \A i \in 1..n : new[i] = old[i],
           ~Judgeable(new[n + 1]), Windowed(old, n, window, unreliable)
    PROVE  Windowed(new, n + 1, window, unreliable)
<1>1. ASSUME NEW j \in Keys PROVE ~Owns(j, new[n + 1])
    BY DEF Owns, Judgeable, Keys, Buckets
<1> QED
    BY <1>1, LatestKept DEF Windowed

WindowInv == Windowed(log, replayed, window, unreliable)

LEMMA WindowInductive ==
    ASSUME Whole, TypeOK, WindowInv, [Next]_vars
    PROVE  WindowInv'
<1>1. log \in Seq(Reports) /\ replayed \in Nat /\ replayed =< Len(log) /\ EngineOK
    BY DEF TypeOK, EngineOK
<1>2. Submissions \subseteq Reports
    BY DEF Submissions
<1>3. ASSUME NEW rec \in Submissions, Serving, Persist(rec)
      PROVE  /\ replayed' = replayed + 1 /\ log'[replayed + 1] = rec
             /\ \A i \in 1..replayed : log'[i] = log[i]
    BY <1>1, <1>2, <1>3, PersistEffect
<1>4. ASSUME NEW rec \in Submissions, Decide(rec) PROVE WindowInv'
  <2>1. Windowed(log', replayed + 1, window', unreliable')
    BY <1>1, <1>2, <1>3, <1>4, JudgeWindows DEF Decide, WindowInv
  <2> QED
    BY <1>3, <1>4, <2>1 DEF Decide, WindowInv
<1>5. ASSUME NEW rec \in Submissions, RecordOnly(rec) PROVE WindowInv'
  <2>1. Windowed(log', replayed + 1, window, unreliable)
    BY <1>1, <1>3, <1>5, SkipWindows DEF RecordOnly, WindowInv
  <2> QED
    BY <1>3, <1>5, <2>1 DEF RecordOnly, WindowInv, engine
<1>6. ASSUME NEW rec \in Submissions, Deduplicate(rec) PROVE WindowInv'
    BY <1>6 DEF Deduplicate, WindowInv, engine
<1>7. CASE Restart
    BY <1>7, NothingWindowed DEF Restart, WindowInv
<1>8. CASE Replay
  <2>1. /\ log' = log /\ replayed' = replayed + 1
        /\ replayed + 1 \in 1..Len(log) /\ log[replayed + 1] \in Reports
    BY <1>1, <1>8 DEF Replay, Serving
  <2>2. CASE Judgeable(log[replayed + 1])
    <3>1. Judge(log[replayed + 1])
      BY <1>8, <2>2, ReplayJudges DEF Rejudge
    <3>2. Windowed(log, replayed + 1, window', unreliable')
      BY <1>1, <2>1, <2>2, <3>1, JudgeWindows DEF WindowInv
    <3> QED
      BY <2>1, <3>2 DEF WindowInv
  <2>3. CASE ~Judgeable(log[replayed + 1])
    <3>1. UNCHANGED engine
      BY <1>8, <2>3, ReplayJudges
    <3>2. Windowed(log, replayed + 1, window, unreliable)
      BY <1>1, <2>3, SkipWindows DEF WindowInv
    <3> QED
      BY <2>1, <3>1, <3>2 DEF WindowInv, engine
  <2> QED
    BY <2>2, <2>3
<1>9. CASE UNCHANGED vars
    BY <1>9 DEF vars, WindowInv
<1> QED
    BY <1>4, <1>5, <1>6, <1>7, <1>8, <1>9 DEF Next, Submit

LEMMA WindowsHold ==
    ASSUME Whole
    PROVE  Spec => [](TypeOK /\ WindowInv)
<1>1. Init => WindowInv
    BY NothingWindowed DEF Init, WindowInv
<1>2. TypeOK /\ WindowInv /\ [Next]_vars => WindowInv'
    BY WindowInductive
<1>3. Spec => []TypeOK
    BY TypeCorrect
<1> QED
    BY <1>1, <1>2, <1>3, PTL DEF Spec

\* A process that serves, however often it has restarted, has every window of an
\* adjudicated test hold latest runs of its lines, in their order, and fewer
\* failures than trigger, when the stream reads back whole.
THEOREM WindowsAreCurrent ==
    ASSUME Whole
    PROVE  Spec => []FullWindowFires
<1>1. TypeOK /\ WindowInv => FullWindowFires
  <2> SUFFICES ASSUME TypeOK, WindowInv, Serving, NEW k \in Keys \ unreliable, NEW l \in Levels,
                      Threshold[l] > 0, window[k].cap = Cap(l)
               PROVE  /\ Fails(window[k].runs) < Threshold[l]
                      /\ \A n \in 1..Len(window[k].runs) :
                            \E i \in LinesOf(k, Len(log)) :
                                /\ Cardinality({j \in LinesOf(k, Len(log)) : j >= i}) = n
                                /\ log[i].passed = window[k].runs[Len(window[k].runs) + 1 - n]
    BY DEF FullWindowFires
  <2>1. LinesOf(k, Len(log)) = LinesIn(log, k, replayed)
    BY DEF Serving, LinesOf, LinesIn, Owns
  <2>2. Latest(log, k, replayed, window[k].runs) /\ Calm(window[k])
    BY DEF WindowInv, Windowed
  <2> QED
    BY <2>1, <2>2 DEF Latest, Calm
<1> QED
    BY <1>1, WindowsHold, PTL

\* The failures among the last lines of a window.
LateFailures(lines, k, n, size) ==
    {i \in LinesIn(lines, k, n) : /\ Cardinality({j \in LinesIn(lines, k, n) : j > i}) < size
                                 /\ ~lines[i].passed}

\* The failures of a deque are among those.
LEMMA FailuresAreLines ==
    ASSUME NEW lines, NEW k, NEW n \in Nat, NEW runs \in Seq(BOOLEAN), Latest(lines, k, n, runs),
           NEW size \in Nat, Len(runs) =< size
    PROVE  Fails(runs) =< Cardinality(LateFailures(lines, k, n, size))
<1> DEFINE S == LinesIn(lines, k, n)
           F == {p \in DOMAIN runs : ~runs[p]}
           L == {i \in S : Cardinality({j \in S : j > i}) < size /\ ~lines[i].passed}
           Is(p, i) == /\ Cardinality({j \in S : j >= i}) = Len(runs) + 1 - p
                       /\ lines[i].passed = runs[p]
           f == [p \in F |-> CHOOSE i \in S : Is(p, i)]
<1>1. /\ Len(runs) \in Nat /\ DOMAIN runs = 1..Len(runs)
      /\ IsFiniteSet(S) /\ \A j \in S : j \in Nat
  <2>1. IsFiniteSet(1..n) /\ S \in SUBSET (1..n) /\ \A j \in S : j \in Nat
    BY FS_Interval DEF LinesIn
  <2> QED
    BY <2>1, FS_Subset
<1>2. ASSUME NEW p \in F PROVE f[p] \in S /\ Is(p, f[p])
  <2>1. Len(runs) + 1 - p \in 1..Len(runs) /\ Len(runs) + 1 - (Len(runs) + 1 - p) = p
    BY <1>1
  <2>2. \E i \in S : Is(p, i)
    BY <2>1 DEF Latest
  <2> QED
    BY <2>2
<1> HIDE DEF f
<1>3. ASSUME NEW p \in F PROVE f[p] \in L
  <2> DEFINE i == f[p]
             G == {j \in S : j > i}
  <2>1. i \in S /\ i \in Nat /\ \A j \in S : j \in Nat
    BY <1>1, <1>2
  <2>2. {j \in S : j >= i} = G \cup {i} /\ i \notin G
    BY <2>1
  <2>3. IsFiniteSet(G)
    BY <1>1, FS_Subset
  <2>4. Cardinality(G \cup {i}) = Cardinality(G) + 1 /\ Cardinality(G) \in Nat
    BY <2>2, <2>3, FS_AddElement, FS_CardinalityType
  <2>5. Cardinality({j \in S : j >= i}) = Len(runs) + 1 - p /\ ~lines[i].passed
    BY <1>2
  <2>6. Cardinality(G) + 1 = Len(runs) + 1 - p
    BY <2>2, <2>4, <2>5, Zenon
  <2>7. Cardinality(G) < size
    <3> HIDE DEF G
    <3> QED
      BY <1>1, <2>4, <2>6
  <2> QED
    BY <2>1, <2>5, <2>7
<1>4. f \in Injection(F, L)
  <2>1. \A p, q \in F : f[p] = f[q] => p = q
    <3> SUFFICES ASSUME NEW p \in F, NEW q \in F, f[p] = f[q] PROVE p = q
      OBVIOUS
    <3>1. Len(runs) + 1 - p = Len(runs) + 1 - q
      BY <1>2
    <3> QED
      BY <1>1, <3>1
  <2>2. f \in [F -> L]
    BY <1>3 DEF f
  <2> QED
    BY <2>1, <2>2 DEF Injection, IsInjective
<1>5. IsFiniteSet(L)
  <2>1. L \in SUBSET S
    OBVIOUS
  <2> QED
    BY <1>1, <2>1, FS_Subset
<1>6. Cardinality(F) =< Cardinality(L)
    BY <1>4, <1>5, FS_Injection
<1> QED
    BY <1>6 DEF Fails, LateFailures

LEMMA TripHasFailures ==
    ASSUME TypeOK, WindowInv, NEW rec \in Submissions, Decide(rec), effect' = "trip"
    PROVE  LET failures == {i \in LastLines(<<"trusted", rec.test>>, Cap(rec.level))' :
                               ~log'[i].passed}
           IN  Cardinality(failures) >= Threshold[rec.level]
<1> DEFINE k == KeyOf(rec)
           w == Slide(window[k], rec.level, rec.passed)
           L == LateFailures(log', k, replayed + 1, Cap(rec.level))
<1>1. /\ log \in Seq(Reports) /\ replayed \in Nat /\ replayed =< Len(log) /\ EngineOK
      /\ rec \in Reports
    BY DEF TypeOK, EngineOK, Submissions
<1>2. /\ Serving /\ Persist(rec) /\ Judgeable(rec) /\ effect' = EffectOf(rec)
    BY DEF Decide
<1>3. /\ replayed' = replayed + 1 /\ log'[replayed + 1] = rec /\ Len(log') = replayed + 1
      /\ \A i \in 1..replayed : log'[i] = log[i]
    BY <1>1, <1>2, PersistEffect DEF Serving, Persist
<1>4. Fires(rec) /\ BucketOf(rec) = "trusted"
    BY <1>2 DEF EffectOf
<1>5. k \in Keys /\ k = <<"trusted", rec.test>> /\ Owns(k, rec)
      /\ rec.level \in Levels /\ rec.passed \in BOOLEAN
    BY <1>1, <1>2, <1>4, KeyInKeys DEF KeyOf, BucketOf, Owns, Reports
<1>6. w \in Windows /\ Len(w.runs) =< Cap(rec.level) /\ w.runs \in Seq(BOOLEAN)
  <2>1. w \in Windows /\ Len(w.runs) =< w.cap
    BY <1>1, <1>5, SlideType DEF EngineOK
  <2>2. w.cap = Cap(rec.level)
    BY DEF Slide
  <2> QED
    BY <2>1, <2>2 DEF Windows
<1>7. Latest(log', k, replayed + 1, w.runs)
  <2>1. window[k] \in Windows /\ Latest(log, k, replayed, window[k].runs)
    BY <1>1, <1>5 DEF EngineOK, WindowInv, Windowed
  <2> QED
    BY <1>1, <1>3, <1>5, <2>1, LatestSlides
<1>8. Fails(w.runs) >= Threshold[rec.level]
    BY <1>4 DEF Fires, Enough
<1> HIDE DEF w
<1> HIDE DEF k
<1>9. Fails(w.runs) =< Cardinality(L)
  <2>1. replayed + 1 \in Nat /\ Cap(rec.level) \in Nat
    BY <1>1, <1>5, CapPositive
  <2> QED
    BY <1>6, <1>7, <2>1, FailuresAreLines
<1>10. /\ Fails(w.runs) \in Nat /\ Threshold[rec.level] \in Nat
    BY <1>5, <1>6, FailsType, SpecAssumption
<1>11. Cardinality(L) \in Nat
  <2>1. IsFiniteSet(1..(replayed + 1)) /\ L \in SUBSET (1..(replayed + 1))
    BY <1>1, FS_Interval DEF LateFailures, LinesIn
  <2> QED
    BY <2>1, FS_Subset, FS_CardinalityType
<1>12. {i \in LastLines(<<"trusted", rec.test>>, Cap(rec.level))' : ~log'[i].passed} = L
    BY <1>3, <1>5 DEF LastLines, LinesOf, LateFailures, LinesIn, Owns
<1> HIDE DEF L
<1>13. Cardinality(L) >= Threshold[rec.level]
    BY <1>8, <1>9, <1>10, <1>11
<1> QED
    BY <1>12, <1>13, Zenon

\* A trip has its failures: N of them in the last Multiplier * N runs that trusted
\* credentials reported of that test, whatever was resent, restarted or reported by
\* others in between, when the stream reads back whole.
THEOREM TripsHaveFailures ==
    ASSUME Whole
    PROVE  Spec => TripNeedsFailures
<1> DEFINE A == \A rec \in Submissions : Decide(rec) /\ effect' = "trip" =>
                   LET failures == {i \in LastLines(<<"trusted", rec.test>>, Cap(rec.level))' :
                                       ~log'[i].passed}
                   IN  Cardinality(failures) >= Threshold[rec.level]
<1>1. TypeOK /\ WindowInv /\ [Next]_vars => [A]_vars
    BY TripHasFailures
<1>2. TripNeedsFailures <=> [][A]_vars
    BY DEF TripNeedsFailures
<1> HIDE DEF A
<1> QED
    BY <1>1, <1>2, WindowsHold, PTL DEF Spec
=============================================================================
