------------------------------- MODULE Watches -------------------------------
(***************************************************************************)
(* The side channels of the audit (satori_gateway/watch.py, tokenwatch.py, *)
(* slop.py): a drift watch that learns its own baseline, the hit rate of   *)
(* serious rules, the score of a chain of tool calls, and the session      *)
(* ledger that confirms slop.  Each is a value and the function that       *)
(* observe() computes on it; module Proxy calls them.                      *)
(***************************************************************************)
EXTENDS Integers, SequencesExt

CONSTANTS
    Blend,          \* Blend[e][v]: the EMA e moved by alpha towards v
    Far,            \* the pairs <<baseline, value>> out of tolerance
    MinSamples,     \* min_samples of DriftWatch
    BreachLimit,    \* breach_limit
    RateUp, RateDown,   \* the EMA of the hit rate after a hit and a miss
    RateLine,       \* threshold of HitRateWatch
    RateSamples,    \* min_samples of HitRateWatch
    ConfirmSteps,   \* CONFIRM_STEPS
    MaxSessions     \* MAX_SESSIONS

Averages == DOMAIN Blend
HitRates == DOMAIN RateUp

ASSUME WatchAssumption ==
    /\ Averages \subseteq Nat /\ 0 \in Averages
    /\ \A e, v \in Averages : Blend[e][v] \in Averages
    /\ HitRates \subseteq Nat /\ 0 \in HitRates
    /\ \A e \in HitRates : RateUp[e] \in HitRates /\ RateDown[e] \in HitRates
    /\ MinSamples \in Nat \ {0} /\ BreachLimit \in Nat \ {0}
    /\ RateSamples \in Nat \ {0}
    /\ ConfirmSteps \in Nat \ {0} /\ MaxSessions \in Nat \ {0}

\* Counters that are only compared with a limit stop counting there.
UpTo(limit, n) == IF n >= limit THEN limit ELSE n

-----------------------------------------------------------------------------
(* DriftWatch: the token ratio, the first-byte latency, the billing ratio. *)

NoDrift == [ema |-> 0, samples |-> 0, breaches |-> 0]

Warm(st) == st.samples >= MinSamples /\ st.ema > 0

\* Out of tolerance, once there is a baseline to be out of.
Outlier(st, v) == Warm(st) /\ <<st.ema, v>> \in Far

\* A missing usage field is the value 0 and leaves no trace.
Alerts(st, v) == v > 0 /\ Outlier(st, v) /\ st.breaches + 1 >= BreachLimit

\* Mutant of Drifted: an alert does not start over.
NeverRearmed(st, v) ==
    CASE v = 0 -> st
      [] v > 0 /\ Warm(st) /\ <<st.ema, v>> \in Far -> [st EXCEPT !.breaches = @ + 1]
      [] OTHER -> [st EXCEPT !.ema = v, !.samples = UpTo(MinSamples, @ + 1)]

\* Mutant of Learn: a sample within tolerance does not clear the breaches.
LearnOnly(st, v) ==
    [ema |-> IF st.samples = 0 THEN v ELSE Blend[st.ema][v],
     samples |-> UpTo(MinSamples, st.samples + 1), breaches |-> st.breaches]

\* A normal sample moves the baseline and clears the breaches.
Learn(st, v) ==
    [ema |-> IF st.samples = 0 THEN v ELSE Blend[st.ema][v],
     samples |-> UpTo(MinSamples, st.samples + 1), breaches |-> 0]

\* An outlier is counted, never learnt; an alert arms the watch again.
Drifted(st, v) ==
    CASE v = 0 -> st
      [] v > 0 /\ Outlier(st, v) ->
            [st EXCEPT !.breaches = IF Alerts(st, v) THEN 0 ELSE st.breaches + 1]
      [] OTHER -> Learn(st, v)

-----------------------------------------------------------------------------
(* HitRateWatch.                                                           *)

NoRate == [ema |-> 0, samples |-> 0]

Rated(st, hit) == [ema     |-> IF hit THEN RateUp[st.ema] ELSE RateDown[st.ema],
                   samples |-> UpTo(RateSamples, st.samples + 1)]

RateAlerts(st, hit) ==
    Rated(st, hit).samples >= RateSamples /\ Rated(st, hit).ema > RateLine

\* observe: an alert starts over.
RateAfter(st, hit) == IF RateAlerts(st, hit) THEN NoRate ELSE Rated(st, hit)

-----------------------------------------------------------------------------
(* score_tool_calls and SlopLedger.                                        *)

\* A call is suspicious by its own arguments (broken, bloated), by a name that
\* was not declared, or as a repetition of an earlier one.
Suspicious(calls) ==
    \E i \in DOMAIN calls :
        \/ calls[i].args \in {"broken", "bloated"}
        \/ ~calls[i].declared
        \/ \E j \in 1..(i - 1) : calls[j] = calls[i]

\* The ledger is a dict in insertion order: who was idle longest comes first.
Holds(slots, s)   == \E i \in DOMAIN slots : slots[i].session = s
SlotOf(slots, s)  == CHOOSE i \in DOMAIN slots : slots[i].session = s
Without(slots, s) == RemoveAt(slots, SlotOf(slots, s))
StepsOf(slots, s) == IF Holds(slots, s) THEN slots[SlotOf(slots, s)].steps ELSE 0

\* A new session evicts the slots that were idle longest.
MakeRoom(slots) ==
    IF Len(slots) >= MaxSessions
    THEN SubSeq(slots, Len(slots) - MaxSessions + 2, Len(slots)) ELSE slots

\* The other slots; s itself goes to the end.
Rest(slots, s) == IF Holds(slots, s) THEN Without(slots, s) ELSE MakeRoom(slots)

Confirms(slots, s) == StepsOf(slots, s) + 1 >= ConfirmSteps

\* Mutant of Struck: an active session keeps its place in the queue.
StruckInPlace(slots, s) ==
    LET entry == [session |-> s,
                  steps   |-> IF Confirms(slots, s) THEN 0 ELSE StepsOf(slots, s) + 1]
    IN  IF Holds(slots, s)
        THEN [i \in DOMAIN slots |-> IF slots[i].session = s THEN entry ELSE slots[i]]
        ELSE Append(MakeRoom(slots), entry)

\* observe: a confirmed session keeps an empty slot.
Struck(slots, s) ==
    Append(Rest(slots, s),
           [session |-> s,
            steps   |-> IF Confirms(slots, s) THEN 0 ELSE StepsOf(slots, s) + 1])
=============================================================================
