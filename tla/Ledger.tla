------------------------------- MODULE Ledger -------------------------------
(***************************************************************************)
(* The suspicion ledger of the gateway: two pockets per upstream x model,  *)
(* the circuit breaker they trip, and the snapshot that outlives the       *)
(* process (satori_gateway/app.py, state.py, levels.py).                   *)
(*                                                                         *)
(* The program is one asyncio event loop.  A handler runs undisturbed      *)
(* until it awaits, and what it awaits here is publish(): one send per     *)
(* connected dashboard.  _add_suspicion publishes up to four times between *)
(* writing the pocket and marking the state dirty, so it is modelled as    *)
(* one action per segment between two publishes.  A publish to nobody does *)
(* not suspend the handler.  The events themselves are not modelled.       *)
(* _add_suspicion also formats its log line with {:+d}.  Once a log sink   *)
(* takes warnings (__main__ installs one, the tests do not), a float score *)
(* makes that line raise ValueError, after the pocket was written.         *)
(* A publish after the last state change of a handler (breaker "closed",   *)
(* "feedback", "test") is left out: it can neither change nor lose state.  *)
(***************************************************************************)
EXTENDS Integers

CONSTANTS
    Keys,           \* the upstream x model pairs
    Requests,       \* concurrent request handlers (proxy and control plane)
    Loop,           \* the one background _check_loop task
    HitScores,      \* int scores of quality hits; exempting rules are negative
    FloatScores,    \* float scores: confirmed slop, triggered NORMAL tests
    ProbeWeights,   \* identity hits, all floats
    FailScores,     \* float level score of a triggered TRUSTED test failure
    PassDecays,     \* decay amounts of a TRUSTED pass
    WatchThreshold,
    BreakThreshold,
    ScoreFloor,
    BreakerEnabled,
    LogSink,        \* is a log sink installed that takes warnings
    Decay,          \* Decay[s][a]: what is left of score s after a ticks
    Faults,         \* which of "churn", "crash", "shutdown" happen
    MaxScore,       \* bound on a pocket (the code has none)
    MaxTime,        \* bound on the clock
    MaxSubs         \* bound on connected dashboards

Scores == 0..MaxScore
Times  == 0..MaxTime

ASSUME ThresholdAssumption ==
    /\ MaxScore \in Nat /\ MaxTime \in Nat /\ MaxSubs \in Nat
    /\ WatchThreshold \in Nat /\ BreakThreshold \in Nat /\ ScoreFloor \in Scores
    /\ 0 < WatchThreshold /\ WatchThreshold =< BreakThreshold
    /\ ScoreFloor < BreakThreshold

ASSUME EvidenceAssumption ==
    /\ HitScores \subseteq Int /\ FloatScores \subseteq Nat \ {0}
    /\ ProbeWeights \subseteq Nat \ {0}
    /\ FailScores \subseteq Nat \ {0} /\ PassDecays \subseteq Nat \ {0}

\* The half-life curve 0.5 ** (dt / half), or no decay at all when half =< 0.
ASSUME DecayAssumption ==
    /\ Decay \in [Scores -> [Times -> Scores]]
    /\ \A s \in Scores : Decay[s][0] = s
    /\ \A s \in Scores, a \in Times : Decay[s][a] =< s
    /\ \A s \in Scores, a \in Times : a < MaxTime => Decay[s][a + 1] =< Decay[s][a]

ASSUME TaskAssumption == /\ Loop \notin Requests
                         /\ BreakerEnabled \in BOOLEAN /\ LogSink \in BOOLEAN

Tasks   == Requests \cup {Loop}
Pockets == {"quality", "identity"}
Entries == [score : Scores, at : Times]

\* Where a handler inside _add_suspicion is suspended: the event being sent.
Publishing == {"suspicion", "level", "alert", "breaker"}

\* What such a handler carries over its awaits: the key, the level it found the
\* total had climbed to, whether test_report trips the breaker afterwards, and
\* the number of dashboards when the current publish began to iterate.
Jobs  == [key : Keys, climbed : {"none", "WATCH", "DEGRADED"},
          trip : BOOLEAN, subs : 0..MaxSubs]
NoJob == [key |-> "none"]

VARIABLES
    ledger,     \* suspicion + _ledger_ts ("quality"), identity + _identity_ts
    breaker,    \* breakers: is the key in the dict
    pc, job,    \* the handlers
    subs,       \* size of _subscribers
    disk,       \* ledger.json
    dirty,      \* StateStore._dirty
    recent,     \* the last flush is younger than the debounce interval
    now,
    ruling      \* history: the last human ruling on a key, until new evidence

vars == <<ledger, breaker, pc, job, subs, disk, dirty, recent, now, ruling>>

-----------------------------------------------------------------------------
(* Scores and levels.                                                      *)

\* Mutant of Larger: max(x, 0) forgotten, a pocket can go below zero.
KeepFirst(a, b) == a

Larger(a, b) == IF a >= b THEN a ELSE b

Blank        == [score |-> 0, at |-> 0]
BlankPockets == [p \in Pockets |-> Blank]

\* _decay_component: an absent entry is a zero score.
Effective(k, p) == Decay[ledger[k][p].score][now - ledger[k][p].at]
Total(k)        == Effective(k, "quality") + Effective(k, "identity")

Other(p) == IF p = "quality" THEN "identity" ELSE "quality"

Degraded(total) == total >= BreakThreshold

\* Mutant of Climb: a climb from SAFETY stops at WATCH, so a total that jumps
\* over both thresholds never reaches DEGRADED.
ClimbByOne(prev, total) ==
    CASE total >= WatchThreshold /\ prev < WatchThreshold -> "WATCH"
      [] Degraded(total) /\ ~Degraded(prev) -> "DEGRADED"
      [] OTHER -> "none"

\* The level reached when the rank rose, "none" when it did not.
Climb(prev, total) ==
    CASE Degraded(total) /\ ~Degraded(prev) -> "DEGRADED"
      [] ~Degraded(total) /\ total >= WatchThreshold /\ prev < WatchThreshold -> "WATCH"
      [] OTHER -> "none"

\* Mutant of PassRemainder: the floor is not looked at.
PassToZero(k, amount) == Larger(Effective(k, "quality") - amount, 0)

\* What a PASS leaves in the quality pocket of k.
PassRemainder(k, amount) ==
    Larger(Larger(Effective(k, "quality") - amount,
                  ScoreFloor - Effective(k, "identity")), 0)

Write(k, p, s) == ledger' = [ledger EXCEPT ![k][p] = [score |-> s, at |-> now]]

-----------------------------------------------------------------------------
(* StateStore.                                                             *)

\* flush: the snapshot of the six dicts, swapped in atomically.
Flush == /\ disk' = [ledger |-> ledger', breaker |-> breaker]
         /\ dirty' = FALSE
         /\ recent' = TRUE

\* mark_dirty alone; also the mutant of SaveRuling that forgets the flush.
MarkOnly == dirty' = TRUE /\ UNCHANGED <<disk, recent>>

\* mark_dirty; flush: a human ruling must not be lost.
SaveRuling == Flush

\* Mutant of SaveSoon: mark_dirty is forgotten.
DebounceOnly == IF recent THEN UNCHANGED <<disk, dirty, recent>> ELSE Flush

\* mark_dirty; maybe_flush: within the debounce interval only the mark is set,
\* and nothing looks at it again before the next ledger write.
SaveSoon == IF recent THEN MarkOnly ELSE Flush

-----------------------------------------------------------------------------
(* The event loop.                                                         *)

Busy(t) == pc[t] \in Publishing

\* A publish to at least one dashboard suspends its handler.
Suspended(t) == Busy(t) => job[t].subs > 0

\* No other handler is in the middle of a stretch it runs without awaiting.
Scheduled(t)  == \A u \in Tasks \ {t} : Suspended(u)
LoopFree      == \A u \in Tasks : Suspended(u)

Init ==
    /\ ledger = [k \in Keys |-> BlankPockets]
    /\ breaker = [k \in Keys |-> FALSE]
    /\ pc = [t \in Tasks |-> "idle"]
    /\ job = [t \in Tasks |-> NoJob]
    /\ subs = 0
    /\ disk = [ledger |-> ledger, breaker |-> breaker]
    /\ dirty = FALSE
    /\ recent = FALSE
    /\ now = 0
    /\ ruling = [k \in Keys |-> "none"]

-----------------------------------------------------------------------------
(* _add_suspicion, one action per segment.                                 *)

\* An exception ends a handler; the check loop is never started again.
Ended(t) == IF t = Loop THEN "dead" ELSE "idle"

Dies(t) == /\ pc' = [pc EXCEPT ![t] = Ended(t)]
           /\ job' = [job EXCEPT ![t] = NoJob]

\* Decay, accumulate, write the pocket, judge the level, log, send "suspicion".
AddSuspicion(t, k, p, gained, float, trip) ==
    LET component == Larger(Effective(k, p) + gained, 0)
        total     == component + Effective(k, Other(p))
    IN  /\ pc[t] = "idle"
        /\ Scheduled(t)
        /\ component =< MaxScore
        /\ Write(k, p, component)
        /\ \/ /\ LogSink /\ float
              /\ Dies(t)
           \/ /\ ~(LogSink /\ float)
              /\ pc' = [pc EXCEPT ![t] = "suspicion"]
              /\ job' = [job EXCEPT ![t] =
                            [key |-> k, climbed |-> Climb(Total(k), total),
                             trip |-> trip, subs |-> subs]]
        /\ ruling' = [ruling EXCEPT ![k] = "none"]
        /\ UNCHANGED <<breaker, subs, disk, dirty, recent, now>>

\* A rule or side-channel hit of a request; slop and NORMAL tests score floats.
QualityHit(t, k) ==
    \/ \E s \in HitScores : AddSuspicion(t, k, "quality", s, FALSE, FALSE)
    \/ \E s \in FloatScores : AddSuspicion(t, k, "quality", s, TRUE, FALSE)

\* A failed voiceprint or answer-print probe of the check loop.
IdentityHit(k) ==
    \E w \in ProbeWeights : AddSuspicion(Loop, k, "identity", w, TRUE, FALSE)

\* test_report, TRUSTED failures reaching the trigger: the injected score is
\* topped up to the line, and the breaker trips once _add_suspicion returns.
\* max(float, int) is the int only when the top-up is the larger of the two.
TestFailure(t, k) ==
    \E s \in FailScores :
        LET topUp == BreakThreshold - Total(k)
        IN  AddSuspicion(t, k, "quality", Larger(s, topUp), s >= topUp, TRUE)

\* publish() came to the end of the subscriber set with its size unchanged;
\* dashboards whose send failed are discarded before the handler goes on.
Published(t) ==
    /\ Busy(t)
    /\ Scheduled(t)
    /\ subs = job[t].subs
    /\ subs' \in IF "churn" \in Faults THEN 0..subs ELSE {subs}

GoOn(t, event) ==
    /\ pc' = [pc EXCEPT ![t] = event]
    /\ job' = [job EXCEPT ![t].subs = subs']

AnnounceLevel(t) ==
    /\ pc[t] = "suspicion" /\ job[t].climbed # "none"
    /\ Published(t)
    /\ GoOn(t, "level")
    /\ UNCHANGED <<ledger, breaker, disk, dirty, recent, now, ruling>>

AnnounceAlert(t) ==
    /\ pc[t] = "level" /\ job[t].climbed = "DEGRADED"
    /\ Published(t)
    /\ GoOn(t, "alert")
    /\ UNCHANGED <<ledger, breaker, disk, dirty, recent, now, ruling>>

Trip(t) ==
    /\ pc[t] = "alert" /\ BreakerEnabled
    /\ Published(t)
    /\ breaker' = [breaker EXCEPT ![job[t].key] = TRUE]
    /\ GoOn(t, "breaker")
    /\ UNCHANGED <<ledger, disk, dirty, recent, now, ruling>>

\* The last publish of _add_suspicion, given how far the total climbed.
LastEvent(t) ==
    \/ pc[t] = "suspicion" /\ job[t].climbed = "none"
    \/ pc[t] = "level" /\ job[t].climbed = "WATCH"
    \/ pc[t] = "alert" /\ ~BreakerEnabled
    \/ pc[t] = "breaker"

\* mark_dirty, maybe_flush and return; test_report then opens the breaker
\* itself, after the flush and without marking the change.
Settle(t) ==
    /\ LastEvent(t)
    /\ Published(t)
    /\ pc' = [pc EXCEPT ![t] = "idle"]
    /\ job' = [job EXCEPT ![t] = NoJob]
    /\ breaker' = IF job[t].trip /\ BreakerEnabled
                  THEN [breaker EXCEPT ![job[t].key] = TRUE] ELSE breaker
    /\ UNCHANGED <<ledger, now, ruling>>
    /\ SaveSoon

\* A dashboard came or went while publish() iterated over the set: Python
\* raises RuntimeError, which publish() does not catch.
Abort(t) ==
    /\ Busy(t)
    /\ Scheduled(t)
    /\ subs # job[t].subs
    /\ Dies(t)
    /\ UNCHANGED <<ledger, breaker, subs, disk, dirty, recent, now, ruling>>

-----------------------------------------------------------------------------
(* Handlers that change the ledger without awaiting.                       *)

\* test_report, TRUSTED pass: _decay_quality.
TestPass(k, amount) ==
    /\ LoopFree
    /\ Write(k, "quality", PassRemainder(k, amount))
    /\ ruling' = [ruling EXCEPT ![k] = "none"]
    /\ UNCHANGED <<breaker, pc, job, subs, now>>
    /\ SaveSoon

\* Mutant of ClearLedger: the ruling closes the breaker too.
ClearAndClose(k) ==
    /\ LoopFree
    /\ ledger' = [ledger EXCEPT ![k] = BlankPockets]
    /\ breaker' = [breaker EXCEPT ![k] = FALSE]
    /\ ruling' = [ruling EXCEPT ![k] = "cleared"]
    /\ UNCHANGED <<pc, job, subs, now>>
    /\ SaveRuling

\* baseline_feedback (false alarm, network jitter, retirement): _clear_ledger.
ClearLedger(k) ==
    /\ LoopFree
    /\ ledger' = [ledger EXCEPT ![k] = BlankPockets]
    /\ ruling' = [ruling EXCEPT ![k] = "cleared"]
    /\ UNCHANGED <<breaker, pc, job, subs, now>>
    /\ SaveRuling

\* Mutant of IdentityCleared: it closes the breaker like a reset.
IdentityClearedCloses(k) ==
    /\ LoopFree
    /\ ledger[k]["identity"].score # 0
    /\ ledger' = [ledger EXCEPT ![k]["identity"] = Blank]
    /\ breaker' = [breaker EXCEPT ![k] = FALSE]
    /\ UNCHANGED <<pc, job, subs, now, ruling>>
    /\ SaveRuling

\* identity_cleared: the operator's ruling on the identity pocket alone.
IdentityCleared(k) ==
    /\ LoopFree
    /\ ledger[k]["identity"].score # 0
    /\ ledger' = [ledger EXCEPT ![k]["identity"] = Blank]
    /\ UNCHANGED <<breaker, pc, job, subs, now, ruling>>
    /\ SaveRuling

\* breaker_reset: both pockets and the breaker, in memory only.
BreakerReset(k) ==
    /\ LoopFree
    /\ ledger' = [ledger EXCEPT ![k] = BlankPockets]
    /\ breaker' = [breaker EXCEPT ![k] = FALSE]
    /\ ruling' = [ruling EXCEPT ![k] = "reset"]
    /\ UNCHANGED <<pc, job, subs, disk, dirty, recent, now>>

-----------------------------------------------------------------------------
(* The environment: dashboards, the process, the clock.                    *)

\* live(): between two publishes a connection is harmless, during one it is not.
MayChurn == LoopFree /\ ("churn" \in Faults \/ \A t \in Tasks : ~Busy(t))

Connect ==
    /\ MayChurn
    /\ subs < MaxSubs
    /\ subs' = subs + 1
    /\ UNCHANGED <<ledger, breaker, pc, job, disk, dirty, recent, now, ruling>>

Disconnect ==
    /\ MayChurn
    /\ subs > 0
    /\ subs' = subs - 1
    /\ UNCHANGED <<ledger, breaker, pc, job, disk, dirty, recent, now, ruling>>

\* A new process: no handler, no dashboard, a StateStore that never flushed.
Start(saved) ==
    /\ ledger' = saved.ledger
    /\ breaker' = saved.breaker
    /\ pc' = [t \in Tasks |-> "idle"]
    /\ job' = [t \in Tasks |-> NoJob]
    /\ subs' = 0
    /\ disk' = saved
    /\ dirty' = FALSE
    /\ recent' = FALSE
    /\ UNCHANGED <<now, ruling>>

\* The process dies at any point; lifespan restores what ledger.json holds.
Crash == /\ "crash" \in Faults
         /\ Start(disk)

\* Graceful stop: the server drains its requests, lifespan cancels the check
\* loop wherever it awaits and flushes; then the next process starts.
Shutdown == /\ "shutdown" \in Faults
            /\ \A t \in Requests : ~Busy(t)
            /\ LoopFree
            /\ Start([ledger |-> ledger, breaker |-> breaker])

Tick == /\ now < MaxTime
        /\ now' = now + 1
        /\ UNCHANGED <<ledger, breaker, pc, job, subs, disk, dirty, recent, ruling>>

DebounceElapses == /\ recent
                   /\ recent' = FALSE
                   /\ UNCHANGED <<ledger, breaker, pc, job, subs, disk, dirty, now, ruling>>

-----------------------------------------------------------------------------
TaskStep(t) ==
    AnnounceLevel(t) \/ AnnounceAlert(t) \/ Trip(t) \/ Settle(t) \/ Abort(t)

Next ==
    \/ \E t \in Requests, k \in Keys : QualityHit(t, k) \/ TestFailure(t, k)
    \/ \E k \in Keys : IdentityHit(k)
    \/ \E t \in Tasks : TaskStep(t)
    \/ \E k \in Keys, amount \in PassDecays : TestPass(k, amount)
    \/ \E k \in Keys : ClearLedger(k) \/ IdentityCleared(k) \/ BreakerReset(k)
    \/ Connect \/ Disconnect
    \/ Crash \/ Shutdown
    \/ Tick \/ DebounceElapses

Spec == Init /\ [][Next]_vars

\* A dashboard either takes the event or its connection is closed for it, and
\* the event loop resumes whoever was waiting: no handler is suspended forever.
\* The monotonic clock runs on past the debounce interval.
Fairness == /\ \A t \in Tasks : WF_vars(TaskStep(t))
            /\ WF_vars(DebounceElapses)

FairSpec == Spec /\ Fairness

-----------------------------------------------------------------------------
(* Properties.                                                             *)

\* Entries lie in their range and carry no stamp of the future.
Stamped(entries) ==
    /\ entries \in [Keys -> [Pockets -> Entries]]
    /\ \A k \in Keys, p \in Pockets : entries[k][p].at =< now

\* A suspended handler carries the record it needs to go on.
HandlersOK ==
    /\ pc \in [Tasks -> Publishing \cup {"idle", "dead"}]
    /\ job \in [Tasks -> Jobs \cup {NoJob}]
    /\ \A t \in Tasks : Busy(t) => job[t] \in Jobs
    /\ subs \in 0..MaxSubs

StoreOK ==
    /\ disk \in [ledger : [Keys -> [Pockets -> Entries]], breaker : [Keys -> BOOLEAN]]
    /\ Stamped(disk.ledger)
    /\ dirty \in BOOLEAN
    /\ recent \in BOOLEAN

\* Every variable keeps its type: pockets stay in their range under every mix
\* of hits, passes and decay, and ledger.json always holds a ledger that the
\* next process can load.
TypeOK ==
    /\ Stamped(ledger)
    /\ breaker \in [Keys -> BOOLEAN]
    /\ HandlersOK
    /\ StoreOK
    /\ now \in Times
    /\ ruling \in [Keys -> {"none", "cleared", "reset"}]

\* A handler that crossed the line for k and has still to open the breaker.
PendingTrip(k) ==
    \E t \in Tasks : /\ pc[t] \in Publishing \ {"breaker"}
                     /\ job[t].key = k
                     /\ job[t].climbed = "DEGRADED"

\* A key is never DEGRADED and open for traffic for good: whenever its
\* effective total is over the line, the breaker is open or the handler that
\* crossed the line is on its way to open it (_add_suspicion trips on the
\* crossing only, so a crossing that is lost is never made up for).
NoSilentDegrade ==
    BreakerEnabled =>
        \A k \in Keys : Degraded(Total(k)) => breaker[k] \/ PendingTrip(k)

\* A handler that has still to open the breaker of k: it crossed the line, or a
\* test report told it to trip.
Owes(k) == PendingTrip(k) \/ \E t \in Tasks : Busy(t) /\ job[t].key = k /\ job[t].trip

Promise == INSTANCE Gate WITH
    degraded <- [k \in Keys |-> Degraded(Total(k))],
    owed     <- [k \in Keys |-> Owes(k)]

\* The ledger implements the gate: totals cross the line by evidence alone, the
\* one who crosses opens the breaker however long the dashboards take, and only
\* a reset closes it.  Two pockets, decay and passes are invisible through it.
KeepsPromise == Promise!Spec

\* The crossing does open the breaker, unless the total falls back first.
CrossingTrips ==
    \A k \in Keys : BreakerEnabled /\ Degraded(Total(k))
                        ~> breaker[k] \/ ~Degraded(Total(k))

\* A TRUSTED pass never takes a total from the floor or above to below it and
\* never touches the identity pocket, whatever both pockets have decayed to by
\* then.  (What it does to a total already below the floor: PassNeverAccuses.)
PassKeepsFloor ==
    [][\A k \in Keys, amount \in PassDecays : TestPass(k, amount) =>
          /\ Total(k) >= ScoreFloor => Total(k)' >= ScoreFloor
          /\ ledger'[k]["identity"] = ledger[k]["identity"]]_vars

\* A pass is exculpatory: it never raises the total ("PASS decay").
PassNeverAccuses ==
    [][\A k \in Keys, amount \in PassDecays :
          TestPass(k, amount) => Total(k)' =< Total(k)]_vars

\* What a human cleared by feedback stays cleared until new evidence comes in,
\* through every crash: neither memory nor ledger.json remembers the score.
ClearedStaysCleared ==
    \A k \in Keys : ruling[k] = "cleared" =>
        ledger[k] = BlankPockets /\ disk.ledger[k] = BlankPockets

\* A clean dirty flag means the pockets are on disk, except for keys a handler
\* still works on and keys whose last ruling was a reset.
CleanMeansSaved ==
    ~dirty => \A k \in Keys :
        \/ ruling[k] = "reset"
        \/ \E t \in Tasks : Busy(t) /\ job[t].key = k
        \/ disk.ledger[k] = ledger[k]

\* A breaker is closed by a human's reset and nothing else, through restarts: a
\* graceful stop keeps every open breaker, a crash every breaker that was saved.
BreakerOutlives ==
    [][\A k \in Keys :
          /\ breaker[k] /\ ~breaker'[k]
          /\ disk.breaker[k] \/ ~Crash
          => BreakerReset(k)]_vars

\* The debounce merges writes, it does not drop them: what was marked dirty is
\* on disk in the end (state.py promises a write within the interval).
DirtyIsSaved == dirty ~> ~dirty

\* A reset is not undone by a restart: the scores it wiped do not come back.
ResetIsDurable ==
    \A k \in Keys : ruling[k] = "reset" => ledger[k] = BlankPockets

\* The periodic checks go on for as long as the process lives: nothing a
\* checker finds ends the check loop.
LoopSurvives == pc[Loop] # "dead"
=============================================================================
