----------------------------- MODULE Adjudicator -----------------------------
(***************************************************************************)
(* The adjudication of business test reports (satori_gateway/testing.py    *)
(* and test_report in app.py): deduplication, sliding windows, flaky marks *)
(* and trust buckets, and the stream of reports that a new process replays *)
(* to rebuild all of them.                                                 *)
(*                                                                         *)
(* decide() runs without awaiting, so a report is one action.  A process   *)
(* that dies before the report is in the stream has judged nothing; one    *)
(* that dies after it has lost only the answer.  What a verdict does to    *)
(* the suspicion ledger is in module Ledger; here it is the variable       *)
(* effect.  Request parsing, which rejects before anything is judged, and  *)
(* the attempt number, a part of the trace, are left out.                  *)
(*                                                                         *)
(* A line is JSON with U+2028, U+2029 and U+0085 as they are, and the      *)
(* stream is read with splitlines(), for which they end a line: a report   *)
(* with one of them in any of its texts is not read back.                  *)
(***************************************************************************)
EXTENDS Integers, Sequences, FiniteSets

CONSTANTS
    Tests,          \* (upstream, model, suite, name): what has a window
    NameOf,         \* the bare name of a test, shared between models and suites
    Traces,         \* trace ids with their attempt numbers
    Separated,      \* the traces whose report has such a separator in a text
    Wiring,         \* who reports which test at which level
    TrustOf,        \* the trust level of a credential
    Threshold,      \* LEVEL_SPEC: failures that trigger; 0 never does
    Multiplier,     \* WINDOW_MULTIPLIER
    FlakyMin,       \* FLAKY_MIN_SAMPLES
    FlakyNum, FlakyDen,     \* FLAKY_RATE as a fraction
    MaxLog          \* bound on the stream

Reporters == {w.reporter : w \in Wiring}
Levels    == DOMAIN Threshold
Buckets   == {"trusted", "normal"}

ASSUME WiringAssumption ==
    /\ Wiring \subseteq [reporter : Reporters, test : Tests, level : Levels]
    /\ TrustOf \in [Reporters -> {"trusted", "normal", "unverified"}]
    /\ DOMAIN NameOf = Tests
    /\ Separated \subseteq Traces

ASSUME SpecAssumption ==
    /\ Threshold \in [Levels -> Nat]
    /\ Multiplier \in Nat \ {0, 1}    \* L3's deque has a size of its own
    /\ FlakyMin \in Nat \ {0} /\ FlakyNum \in Nat /\ FlakyDen \in Nat \ {0}
    /\ MaxLog \in Nat

Reports == [reporter : Reporters, test : Tests, level : Levels,
            trace : Traces, passed : BOOLEAN]

VARIABLES
    seen,           \* _seen
    window,         \* _windows: the deque and its maxlen
    life,           \* _lifetime
    unreliable,     \* _unreliable
    log,            \* test_reports.jsonl
    replayed,       \* how many lines of it a new process has read
    effect,         \* what the last report did to the ledger
    lived           \* history: the engine as each line of the stream left it in
                    \* the process that wrote the line

engine == <<seen, window, life, unreliable>>
vars   == <<seen, window, life, unreliable, log, replayed, effect, lived>>

Engine == [seen |-> seen, window |-> window, life |-> life, unreliable |-> unreliable]

-----------------------------------------------------------------------------
(* Keys, windows and verdicts.                                             *)

\* trust_bucket: UNVERIFIED has none and is only recorded.
Judgeable(rec) == TrustOf[rec.reporter] # "unverified"
BucketOf(rec)  == TrustOf[rec.reporter]

Keys == Buckets \X Tests

\* Mutant of KeyOf: all credentials share a window.
SharedKey(rec) == <<"trusted", rec.test>>

\* _wkey
KeyOf(rec) == <<BucketOf(rec), rec.test>>

Idem(rec) == <<rec.reporter, rec.trace, NameOf[rec.test]>>

\* The deque's maxlen; a level without threshold keeps one run.
Cap(level) == IF Threshold[level] = 0 THEN 1 ELSE Threshold[level] * Multiplier

Fails(runs) == Cardinality({i \in DOMAIN runs : ~runs[i]})

\* Mutant of Slide: an unbounded list instead of a deque.
Pile(w, level, passed) ==
    [cap  |-> Cap(level),
     runs |-> Append(IF w.cap = Cap(level) THEN w.runs ELSE <<>>, passed)]

\* _window and append: another maxlen starts an empty deque, a full deque drops
\* its oldest run.
Slide(w, level, passed) ==
    LET kept == IF w.cap = Cap(level) THEN w.runs ELSE <<>>
        runs == Append(kept, passed)
    IN  [cap  |-> Cap(level),
         runs |-> IF Len(runs) > Cap(level) THEN Tail(runs) ELSE runs]

\* The lifetime counters with one more run.
Lived(l, passed) == [total  |-> l.total + 1,
                     failed |-> IF passed THEN l.failed ELSE l.failed + 1]

Flaky(l) == l.total >= FlakyMin /\ l.failed * FlakyDen > l.total * FlakyNum

\* Mutant of Enough: one failure more than the threshold.
MoreThanEnough(runs, level) == Fails(runs) > Threshold[level]

Enough(runs, level) == Fails(runs) >= Threshold[level]

\* Is the test out of adjudication, by an old mark or by this very run?
Excluded(rec) == \/ KeyOf(rec) \in unreliable
                 \/ Flaky(Lived(life[KeyOf(rec)], rec.passed))

\* A failure that fills the window up to the threshold.
Fires(rec) ==
    /\ ~Excluded(rec)
    /\ ~rec.passed
    /\ Threshold[rec.level] > 0
    /\ Enough(Slide(window[KeyOf(rec)], rec.level, rec.passed).runs, rec.level)

\* _judge, but for the deduplication: the same live and in a replay.
Judge(rec) ==
    LET k == KeyOf(rec)
        w == Slide(window[k], rec.level, rec.passed)
    IN  /\ seen' = seen \cup {Idem(rec)}
        /\ life' = [life EXCEPT ![k] = Lived(life[k], rec.passed)]
        /\ unreliable' = IF Excluded(rec) THEN unreliable \cup {k} ELSE unreliable
        /\ window' = [window EXCEPT ![k] = IF Fires(rec) THEN [w EXCEPT !.runs = <<>>]
                                                         ELSE w]

\* test_report: a PASS decays for TRUSTED alone, a trigger trips for TRUSTED and
\* adds its level score for NORMAL.
EffectOf(rec) ==
    CASE Fires(rec) -> IF BucketOf(rec) = "trusted" THEN "trip" ELSE "inject"
      [] ~Excluded(rec) /\ rec.passed /\ Threshold[rec.level] > 0
                    /\ BucketOf(rec) = "trusted" -> "decay"
      [] OTHER -> "none"

-----------------------------------------------------------------------------
\* What __init__ starts from; a key that is not in a dict yet.
NoWindows == [k \in Keys |-> [cap |-> 0, runs |-> <<>>]]
NoLives   == [k \in Keys |-> [total |-> 0, failed |-> 0]]

Init == /\ seen = {} /\ window = NoWindows /\ life = NoLives /\ unreliable = {}
        /\ log = <<>>
        /\ replayed = 0
        /\ effect = "none"
        /\ lived = <<>>

Serving == replayed = Len(log)

Persist(rec) == /\ log' = Append(log, rec)
                /\ replayed' = replayed + 1
                /\ lived' = Append(lived, Engine')

\* A new report of a TRUSTED or NORMAL credential.
Decide(rec) ==
    /\ Serving /\ Len(log) < MaxLog
    /\ Judgeable(rec)
    /\ Idem(rec) \notin seen
    /\ Judge(rec)
    /\ Persist(rec)
    /\ effect' = EffectOf(rec)

\* A report that was judged before: nothing is counted or recorded.
Deduplicate(rec) ==
    /\ Serving
    /\ Judgeable(rec)
    /\ Idem(rec) \in seen
    /\ effect' = "none"
    /\ UNCHANGED <<engine, log, replayed, lived>>

\* record_only.
RecordOnly(rec) ==
    /\ Serving /\ Len(log) < MaxLog
    /\ ~Judgeable(rec)
    /\ UNCHANGED engine
    /\ Persist(rec)
    /\ effect' = "none"

\* The process ends; the next one starts from an empty engine.
Restart ==
    /\ seen' = {} /\ window' = NoWindows /\ life' = NoLives /\ unreliable' = {}
    /\ replayed' = 0
    /\ effect' = "none"
    /\ UNCHANGED <<log, lived>>

\* Mutant of Rejudge: a replayed report is counted but not marked as seen.
RejudgeUnseen(rec) ==
    LET k == KeyOf(rec)
        w == Slide(window[k], rec.level, rec.passed)
    IN  /\ life' = [life EXCEPT ![k] = Lived(life[k], rec.passed)]
        /\ unreliable' = IF Excluded(rec) THEN unreliable \cup {k} ELSE unreliable
        /\ window' = [window EXCEPT ![k] = IF Fires(rec) THEN [w EXCEPT !.runs = <<>>]
                                                         ELSE w]
        /\ UNCHANGED seen

\* Mutant of Rejudge: only a live trigger arms the window again.
RejudgeUnarmed(rec) ==
    LET k == KeyOf(rec)
    IN  /\ seen' = seen \cup {Idem(rec)}
        /\ life' = [life EXCEPT ![k] = Lived(life[k], rec.passed)]
        /\ unreliable' = IF Excluded(rec) THEN unreliable \cup {k} ELSE unreliable
        /\ window' = [window EXCEPT ![k] = Slide(window[k], rec.level, rec.passed)]

\* _judge with replay = True: no deduplication, no new line, no effect.
Rejudge(rec) == Judge(rec)

\* _read_jsonl: halves of a line are no JSON and are passed over.
ReadBack(rec) == rec.trace \notin Separated

\* The constructor reads one more line of the stream.
Replay ==
    /\ ~Serving
    /\ LET rec == log[replayed + 1]
       IN  IF Judgeable(rec) /\ ReadBack(rec) THEN Rejudge(rec) ELSE UNCHANGED engine
    /\ replayed' = replayed + 1
    /\ UNCHANGED <<log, effect, lived>>

Submit(rec) == Decide(rec) \/ Deduplicate(rec) \/ RecordOnly(rec)

Submissions == {rec \in Reports :
                  [reporter |-> rec.reporter, test |-> rec.test, level |-> rec.level]
                      \in Wiring}

Next == (\E rec \in Submissions : Submit(rec)) \/ Restart \/ Replay

Spec == Init /\ [][Next]_vars

-----------------------------------------------------------------------------
(* Properties.                                                             *)

Windows == [cap : {0} \cup {Cap(l) : l \in Levels}, runs : Seq(BOOLEAN)]

Engines == [seen : SUBSET (Reporters \X Traces \X {NameOf[t] : t \in Tests}),
            window : [Keys -> Windows], life : [Keys -> [total : Nat, failed : Nat]],
            unreliable : SUBSET Keys]

\* Every deque respects its maxlen and no test has failed more than it ran.
TypeOK ==
    /\ seen \subseteq Reporters \X Traces \X {NameOf[t] : t \in Tests}
    /\ window \in [Keys -> Windows]
    /\ \A k \in Keys : Len(window[k].runs) =< window[k].cap
    /\ life \in [Keys -> [total : Nat, failed : Nat]]
    /\ \A k \in Keys : life[k].failed =< life[k].total
    /\ unreliable \subseteq Keys
    /\ log \in Seq(Reports)
    /\ replayed \in 0..Len(log)
    /\ effect \in {"none", "decay", "inject", "trip"}
    /\ lived \in Seq(Engines)

\* The lines of the stream that belong to a window, up to a position.
LinesOf(k, n) == {i \in 1..n : <<TrustOf[log[i].reporter], log[i].test>> = k}

\* Idempotency across every resend and restart: the stream never holds two
\* judged reports with the same reporter, trace and name, and once the replay
\* is through, exactly its reports are remembered.
JudgedOnce ==
    /\ \A i, j \in 1..Len(log) :
          /\ i # j /\ Judgeable(log[i]) /\ Judgeable(log[j])
          => Idem(log[i]) # Idem(log[j])
    /\ seen = {Idem(log[i]) : i \in {j \in 1..replayed : Judgeable(log[j])}}

\* Nobody's history but a test's own in its own bucket enters its counters: they
\* are the runs and failures of its lines, also for a process that has just
\* started, so that no report of low trust dilutes or poisons a trusted test.
LifeIsOwnHistory ==
    \A k \in Keys :
        /\ life[k].total = Cardinality(LinesOf(k, replayed))
        /\ life[k].failed = Cardinality({i \in LinesOf(k, replayed) : ~log[i].passed})

\* The last n lines of window k.
LastLines(k, n) ==
    {i \in LinesOf(k, Len(log)) :
        Cardinality({j \in LinesOf(k, Len(log)) : j > i}) < n}

\* The breaker is tripped by a test report only when that test, as TRUSTED
\* reporters see it, failed at least N times in its last Multiplier * N runs.
TripNeedsFailures ==
    [][\A rec \in Submissions : Decide(rec) /\ effect' = "trip" =>
          LET failures == {i \in LastLines(<<"trusted", rec.test>>, Cap(rec.level))' :
                              ~log'[i].passed}
          IN  Cardinality(failures) >= Threshold[rec.level]]_vars

\* A restart forgets nothing and invents nothing: at every line of the stream
\* that a process has got to, its windows, counters, flaky marks and remembered
\* reports are those that the process had which judged that line live, however
\* many processes have replayed it since and whatever they have judged.  (Lines
\* with a separator are the exception, here and below.)
RestartForgetsNothing == replayed > 0 => Engine = lived[replayed]

\* No window waits for a further failure: a process that serves holds in every
\* deque the latest runs of that test in that bucket, in their order, and among
\* them fewer failures than trigger.  (That none of them is missing is
\* RestartForgetsNothing.)
FullWindowFires ==
    Serving => \A k \in Keys \ unreliable, l \in Levels :
        Threshold[l] > 0 /\ window[k].cap = Cap(l) =>
            /\ Fails(window[k].runs) < Threshold[l]
            /\ \A n \in 1..Len(window[k].runs) :
                  \E i \in LinesOf(k, Len(log)) :
                      /\ Cardinality({j \in LinesOf(k, Len(log)) : j >= i}) = n
                      /\ log[i].passed = window[k].runs[Len(window[k].runs) + 1 - n]
=============================================================================
