------------------------------ MODULE Lifecycle ------------------------------
(***************************************************************************)
(* The life of the baseline of one upstream x model: collected by a        *)
(* command line of its own, probed by the check loop, retired by feedback  *)
(* (satori_gateway/app.py, baseline.py, state.py, __main__.py).            *)
(*                                                                         *)
(* Two processes share the files.  The gateway runs its handlers without   *)
(* interruption between two awaits, but the collector may write between    *)
(* any two files of a retirement, and either process may die there.  Every *)
(* step that stamps a record takes a moment of its own.  Lines of the      *)
(* feedback stream that never count (deduplicated, false alarms, remarks)  *)
(* are left out, and so is the ledger they clear: see module Ledger.  A    *)
(* note with U+2028, U+2029 or U+0085 splits its line when the stream is   *)
(* read with splitlines(), and the confirmation is not counted later.      *)
(***************************************************************************)
EXTENDS Integers, FiniteSets

CONSTANTS
    Kinds,          \* the identity checkers, each with a reference file
    First,          \* the one whose sidecar speaks for the baseline
    Reporters, Operators,
    Bodies,         \* request bodies that confirm an official update
    Separated,      \* those with such a note
    Weights,        \* W_source x W_pressure of a collection, in percent
    Unknown,        \* that of a reference without sidecar: secondhand
    StrictAt, StandardAt,   \* TRUST_STRICT, TRUST_STANDARD, in percent
    Ttl,            \* what ttl_for gives while it has too few events to learn from
    ColdEvents,     \* fewer events are a cold start
    Votes,          \* confirmations that retire after it
    Window,         \* timestamp_window_seconds
    MaxTime, MaxEpoch   \* bounds on moments and on gateway processes

Moments == 0..(MaxTime + 1)
Never   == -1
Levels  == {"STRICT", "STANDARD", "BASIC"}
Voters  == Reporters \cup Operators

ASSUME LifecycleAssumption ==
    /\ First \in Kinds /\ IsFiniteSet(Kinds)
    /\ Reporters \cap Operators = {}
    /\ Separated \subseteq Bodies
    /\ Unknown \in Weights
    /\ Weights \subseteq 0..100 /\ Ttl \in Nat \ {0}
    /\ StandardAt \in 1..100 /\ StrictAt \in StandardAt..100
    /\ ColdEvents \in Nat /\ Votes \in Nat \ {0} /\ Window \in Nat
    /\ MaxTime \in Nat /\ MaxEpoch \in Nat

VARIABLES
    ref,        \* the reference files: mtime, or Never
    side,       \* their sidecars: weight and collected_at, or NoSide
    marker,     \* retired_at in the archive's meta.json, or Never
    events,     \* how many lines baseline_events.jsonl has
    feedback,   \* feedback.jsonl: the confirmations that count; no two lines
                \* have the same stamp
    cached,     \* BaselineManager.states
    confirms,   \* _confirm_seen: when a body was confirmed, or Never
    retiring,   \* the retirement that is being written down
    pending,    \* confirmations whose handler still publishes
    collector,  \* satori collect, satori answers
    round,      \* where the check loop is
    now,
    epoch,      \* history: how often the gateway was started
    spent,      \* history: confirmations that have helped to retire a baseline
    stale       \* history: identity hits booked since the last reference was moved

files   == <<ref, side, marker, events, feedback>>
memory  == <<cached, confirms, retiring, pending, round>>
history == <<epoch, spent, stale>>
vars    == <<files, memory, collector, now, history>>

NoSide  == [weight |-> 0, at |-> Never]
Nobody  == [phase |-> "none"]
Resting == [phase |-> "none"]

-----------------------------------------------------------------------------
(* recompute.                                                              *)

Squared(x) == x * x
Cubed(x)   == x * x * x

\* Mutant of TrustAtLeast: another exponent, and no max(0, ...).
TrustWithoutFloor(line, weight, age) == weight * Squared(Ttl - age) >= line * Squared(Ttl)

\* weight * max(0, 1 - age / Ttl) ^ 1.5 >= line, both in percent, squared.
TrustAtLeast(line, weight, age) ==
    /\ age < Ttl
    /\ Squared(weight) * Cubed(Ttl - age) >= Squared(line) * Cubed(Ttl)

\* level_for(trust_score).
LevelFor(weight, age) ==
    IF TrustAtLeast(StrictAt, weight, age) THEN "STRICT"
    ELSE IF TrustAtLeast(StandardAt, weight, age) THEN "STANDARD" ELSE "BASIC"

\* _provenance: the first kind with a reference; without a sidecar its mtime.
Provenance(r, s) ==
    LET k == IF r[First] # Never THEN First ELSE CHOOSE j \in Kinds : r[j] # Never
    IN  IF s[k] = NoSide THEN [weight |-> Unknown, at |-> r[k]] ELSE s[k]

Present(r) == \E k \in Kinds : r[k] # Never

\* A retirement that is older than a reference is over, whatever meta.json says.
RetiredAt(r, m) == IF \E k \in Kinds : r[k] > m THEN Never ELSE m

LevelOf(r, s, t) ==
    IF Present(r) THEN LET p == Provenance(r, s) IN LevelFor(p.weight, t - p.at) ELSE "BASIC"

Recomputed(r, s, m, t) == [level |-> LevelOf(r, s, t), retired |-> RetiredAt(r, m)]


\* recompute is the only place that reads the files of the baseline.
Recompute == cached' = Recomputed(ref, side, marker, now)

Init ==
    /\ ref = [k \in Kinds |-> Never]
    /\ side = [k \in Kinds |-> NoSide]
    /\ marker = Never /\ events = 0 /\ feedback = {}
    /\ cached = Recomputed(ref, side, marker, 0)
    /\ confirms = [p \in Voters \X Bodies |-> Never]
    /\ retiring = Nobody /\ pending = {}
    /\ collector = Nobody /\ round = Resting
    /\ now = 0
    /\ epoch = 0 /\ spent = {} /\ stale = 0

\* The gateway's handlers do not interrupt each other, nor a retirement.
LoopFree == retiring = Nobody
Stamp    == now < MaxTime /\ now' = now + 1

-----------------------------------------------------------------------------
(* baseline_feedback with confirm: who sends a body.                       *)

Confirmation(who, body) == [who |-> who, body |-> body, at |-> now, epoch |-> epoch]

\* Still inside the window: the same body of the same reporter counts once.
Seen(p) == confirms[p] # Never /\ now - confirms[p] < Window

\* Mutant of Remember: the entry holds the end of its window.
RememberExpiry(p) ==
    confirms' = [q \in Voters \X Bodies |->
                    IF q = p THEN now + Window ELSE IF Seen(q) THEN confirms[q] ELSE Never]

\* The dict is pruned whenever somebody confirms.
Remember(p) ==
    confirms' = [q \in Voters \X Bodies |->
                    IF q = p THEN now ELSE IF Seen(q) THEN confirms[q] ELSE Never]

\* Mutant of ConfirmAgain: a resend refreshes the entry but is recorded as new.
CountAgain(who, body) ==
    /\ LoopFree /\ Stamp
    /\ Seen(<<who, body>>)
    /\ feedback' = feedback \cup {Confirmation(who, body)}
    /\ confirms' = [q \in Voters \X Bodies |-> IF Seen(q) THEN confirms[q] ELSE Never]
    /\ UNCHANGED <<ref, side, marker, events, cached, retiring, pending, round, collector, history>>

\* A resend inside the window is recorded, and never counted.
ConfirmAgain(who, body) ==
    /\ LoopFree /\ Stamp
    /\ Seen(<<who, body>>)
    /\ confirms' = [q \in Voters \X Bodies |-> IF Seen(q) THEN confirms[q] ELSE Never]
    /\ UNCHANGED <<files, cached, retiring, pending, round, collector, history>>

\* Mutant of Counted: all of them, whenever the last retirement was.
CountedEver == feedback

\* official_update_confirms: the confirmations since the retirement that the
\* gateway knows of, all of them when it knows of none, as far as they can be read.
Counted == {c \in feedback : c.at > cached.retired /\ c.body \notin Separated}

Threshold == IF events < ColdEvents THEN 1 ELSE Votes

Enough(who) == who \in Operators \/ Cardinality(Counted) + 1 >= Threshold

\* Not enough yet: the confirmation is recorded.
Vote(who, body) ==
    /\ LoopFree /\ Stamp
    /\ ~Seen(<<who, body>>)
    /\ ~Enough(who)
    /\ Remember(<<who, body>>)
    /\ feedback' = feedback \cup {Confirmation(who, body)}
    /\ UNCHANGED <<ref, side, marker, events, cached, retiring, pending, round, collector, history>>

\* Enough: retire begins.
Retire(who, body) ==
    /\ LoopFree /\ Stamp
    /\ ~Seen(<<who, body>>)
    /\ Enough(who)
    /\ Remember(<<who, body>>)
    /\ retiring' = [phase |-> "move", left |-> Kinds, record |-> Confirmation(who, body),
                    at |-> Never, votes |-> IF who \in Reporters THEN Counted ELSE {}]
    /\ UNCHANGED <<files, cached, pending, round, collector, history>>

\* The reference a retirement is at: the one that speaks for the baseline first.
Current == IF First \in retiring.left THEN First ELSE CHOOSE k \in retiring.left : TRUE

\* One reference after the other goes to the archive if it exists, ...
MoveReference ==
    /\ retiring.phase = "move" /\ retiring.left # {}
    /\ ref' = [ref EXCEPT ![Current] = Never]
    /\ retiring' = IF ref[Current] = Never THEN [retiring EXCEPT !.left = @ \ {Current}]
                   ELSE [retiring EXCEPT !.phase = "sidecar"]
    /\ stale' = IF Present(ref) /\ ~Present(ref') THEN 0 ELSE stale
    /\ UNCHANGED <<side, marker, events, feedback, cached, confirms, pending, round, collector,
                   now, epoch, spent>>

\* Mutant of MoveSidecar: done with the first reference there is.
MoveOnlyOne ==
    /\ retiring.phase = "sidecar"
    /\ side' = [side EXCEPT ![Current] = NoSide]
    /\ retiring' = [retiring EXCEPT !.phase = "move", !.left = {}]
    /\ UNCHANGED <<ref, marker, events, feedback, cached, confirms, pending, round, collector,
                   now, history>>

\* ... and then its sidecar.
MoveSidecar ==
    /\ retiring.phase = "sidecar"
    /\ side' = [side EXCEPT ![Current] = NoSide]
    /\ retiring' = [retiring EXCEPT !.phase = "move", !.left = @ \ {Current}]
    /\ UNCHANGED <<ref, marker, events, feedback, cached, confirms, pending, round, collector,
                   now, history>>

MarkRetired ==
    /\ retiring.phase = "move" /\ retiring.left = {}
    /\ marker' = now /\ now' = now + 1
    /\ retiring' = [retiring EXCEPT !.phase = "log", !.at = now]
    /\ spent' = spent \cup retiring.votes
    /\ UNCHANGED <<ref, side, events, feedback, cached, confirms, pending, round, collector,
                   epoch, stale>>

\* The event, recompute (retire sets retired_at over it), _clear_ledger with
\* its flush; then the handler publishes before it records the confirmation.
LogRetired ==
    /\ retiring.phase = "log"
    /\ events' = events + 1
    /\ cached' = [Recomputed(ref, side, marker, now) EXCEPT !.retired = retiring.at]
    /\ pending' = pending \cup {retiring.record}
    /\ retiring' = Nobody
    /\ UNCHANGED <<ref, side, marker, feedback, confirms, round, collector, now, history>>

\* append_feedback, once the dashboards have the retirement.
RecordRetirement ==
    /\ LoopFree
    /\ \E c \in pending : /\ feedback' = feedback \cup {c}
                          /\ pending' = pending \ {c}
    /\ UNCHANGED <<ref, side, marker, events, cached, confirms, retiring, round, collector,
                   now, history>>

-----------------------------------------------------------------------------
(* satori collect, satori answers: one write per step.                     *)

WriteReference(k) ==
    /\ collector = Nobody /\ Stamp
    /\ ref' = [ref EXCEPT ![k] = now]
    /\ collector' = [phase |-> "sidecar", kind |-> k]
    /\ UNCHANGED <<side, marker, events, feedback, memory, history>>

WriteSidecar(w) ==
    /\ collector.phase = "sidecar" /\ Stamp
    /\ side' = [side EXCEPT ![collector.kind] = [weight |-> w, at |-> now]]
    /\ collector' = [phase |-> "event"]
    /\ UNCHANGED <<ref, marker, events, feedback, memory, history>>

RecordRefreshed ==
    /\ collector.phase = "event"
    /\ events' = events + 1
    /\ collector' = [phase |-> "marker"]
    /\ UNCHANGED <<ref, side, marker, feedback, memory, now, history>>

ClearMarker ==
    /\ collector.phase = "marker"
    /\ marker' = Never
    /\ collector' = Nobody
    /\ UNCHANGED <<ref, side, events, feedback, memory, now, history>>

CollectorDies ==
    /\ collector # Nobody
    /\ collector' = Nobody
    /\ UNCHANGED <<files, memory, now, history>>

-----------------------------------------------------------------------------
(* run_all_checks for this model, and the recompute of _ttl_cycle.         *)

\* At BASIC the identity checkers are not even asked.
BeginRound ==
    /\ LoopFree /\ round = Resting
    /\ Recompute
    /\ round' = IF cached'.level = "BASIC" THEN [phase |-> "cycle"]
                ELSE [phase |-> "ask", left |-> Kinds]
    /\ UNCHANGED <<files, confirms, retiring, pending, collector, now, history>>

\* Mutant of Ask: what the reference was when the round began.
AskAnyway(k) ==
    /\ LoopFree /\ round.phase = "ask" /\ k \in round.left
    /\ round' = [round EXCEPT !.phase = "answer", !.left = @ \ {k}]
    /\ UNCHANGED <<files, cached, confirms, retiring, pending, collector, now, history>>

\* A checker reads its reference and awaits the upstream; without one it has
\* nothing to compare and scores 0.
Ask(k) ==
    /\ LoopFree /\ round.phase = "ask" /\ k \in round.left
    /\ round' = IF ref[k] = Never THEN [round EXCEPT !.left = @ \ {k}]
                ELSE [round EXCEPT !.phase = "answer", !.left = @ \ {k}]
    /\ UNCHANGED <<files, cached, confirms, retiring, pending, collector, now, history>>

\* The upstream passes, or the hit is booked with the weight of the level the
\* round began with, once the dashboards have the verdict.
Answer ==
    /\ LoopFree /\ round.phase = "answer"
    /\ round' = [round EXCEPT !.phase = "ask"]
    /\ \E ok \in BOOLEAN :
          stale' = IF ok \/ Present(ref) THEN stale ELSE stale + 1
    /\ UNCHANGED <<files, cached, confirms, retiring, pending, collector, now, epoch, spent>>

\* _ttl_cycle: recompute_all; then the loop sleeps.
EndRound ==
    /\ LoopFree /\ (round.phase = "cycle" \/ (round.phase = "ask" /\ round.left = {}))
    /\ Recompute
    /\ round' = Resting
    /\ UNCHANGED <<files, confirms, retiring, pending, collector, now, history>>

-----------------------------------------------------------------------------
\* The gateway dies anywhere and starts again: lifespan recomputes.
Restart ==
    /\ epoch < MaxEpoch
    /\ epoch' = epoch + 1
    /\ Recompute
    /\ confirms' = [p \in Voters \X Bodies |-> Never]
    /\ retiring' = Nobody /\ pending' = {} /\ round' = Resting
    /\ UNCHANGED <<files, collector, now, spent, stale>>

Ages == /\ Stamp
        /\ UNCHANGED <<files, memory, collector, history>>

Collect == \/ (\E k \in Kinds : WriteReference(k)) \/ (\E w \in Weights : WriteSidecar(w))
           \/ RecordRefreshed \/ ClearMarker \/ CollectorDies

Check == BeginRound \/ (\E k \in Kinds : Ask(k)) \/ Answer \/ EndRound

Confirm(who, body) ==
    ConfirmAgain(who, body) \/ Vote(who, body) \/ Retire(who, body)

WriteDown == MoveReference \/ MoveSidecar \/ MarkRetired \/ LogRetired

Feedback == \/ \E who \in Voters, body \in Bodies : Confirm(who, body)
            \/ WriteDown \/ RecordRetirement

Next == Feedback \/ Collect \/ Check \/ Restart \/ Ages

Spec == Init /\ [][Next]_vars

\* The loop sleeps and wakes for as long as the process lives, upstreams answer
\* or time out, and a handler that began to retire is not suspended before the
\* files are written.
FairSpec == Spec /\ WF_vars(Check) /\ WF_vars(WriteDown)

-----------------------------------------------------------------------------
(* Properties.                                                             *)

Records == [who : Voters, body : Bodies, at : Moments, epoch : 0..MaxEpoch]

\* Stamps lie in the past, so that no baseline is younger than it can be and no
\* window ends early, and the streams hold what they should.
TypeOK ==
    /\ now \in Moments
    /\ \A k \in Kinds : ref[k] < now /\ side[k].at < now
    /\ \A p \in Voters \X Bodies : confirms[p] < now
    /\ marker < now
    /\ ref \in [Kinds -> Moments \cup {Never}]
    /\ side \in [Kinds -> [weight : Weights, at : Moments] \cup {NoSide}]
    /\ marker \in Moments \cup {Never}
    /\ events \in Nat
    /\ feedback \subseteq Records /\ pending \subseteq Records
    /\ cached \in [level : Levels, retired : Moments \cup {Never}]
    /\ confirms \in [Voters \X Bodies -> Moments \cup {Never}]
    /\ epoch \in 0..MaxEpoch /\ stale \in Nat

\* A confirmation resent inside the window counts once, also while the handler
\* of the first one is suspended and not recorded yet; only a restart, which
\* forgets _confirm_seen, lets it count again.
ConfirmCountsOnce ==
    \A c, d \in feedback :
        /\ c # d
        /\ <<c.who, c.body, c.epoch>> = <<d.who, d.body, d.epoch>>
        => c.at - d.at >= Window \/ d.at - c.at >= Window

\* A retirement takes whatever baseline it found, and nothing that is collected
\* while it is under way is taken for it: when its marker is written, no reference
\* is left that is older than the confirmation.
RetiredIsGone ==
    retiring.phase = "log" =>
        \A k \in Kinds : ref[k] = Never \/ ref[k] > retiring.record.at

\* As long as a marker is in force on disk, a reporter retires with votes that
\* have not retired anything before: the gateway counts from that marker,
\* whoever died before, in, or after writing it, and whatever it has cached.
VotesAreSpentOnce ==
    [][\A who \in Reporters, body \in Bodies :
          Retire(who, body) /\ RetiredAt(ref, marker) # Never =>
              retiring'.votes \cap spent = {}]_vars

\* What the handbook says of all retirements ("counted from the last one"), also
\* when a baseline has been collected in between.
VotesCountFromLastRetirement ==
    [][\A who \in Reporters, body \in Bodies :
          Retire(who, body) => retiring'.votes \cap spent = {}]_vars

\* A retirement that overtakes a probe is charged for it once: the check loop
\* books at most one identity hit against a model whose reference is gone.
OneStaleCharge == stale =< 1

Rank == [STRICT |-> 2, STANDARD |-> 1, BASIC |-> 0]

\* Between two collections the trust in a baseline only fades: no passing of
\* time, restart, feedback or round raises the level that is due.  The exception
\* is the gateway between the files of a retirement, while it leaves a reference:
\* once the first one is in the archive, the other speaks for the baseline.
TrustOnlyFades ==
    [][/\ \A k \in Kinds : ref'[k] \in {ref[k], Never} /\ side'[k] \in {side[k], NoSide}
       /\ retiring.phase \in {"move", "sidecar"} => ~Present(ref')
       => Rank[LevelOf(ref, side, now)'] =< Rank[LevelOf(ref, side, now)]]_vars

=============================================================================
