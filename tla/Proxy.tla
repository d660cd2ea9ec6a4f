-------------------------------- MODULE Proxy --------------------------------
(***************************************************************************)
(* The way of a request through the gateway (satori_gateway/app.py): the   *)
(* breaker's gate, the upstream, the three ways an answer is delivered,    *)
(* and the audit that follows every answer (_finalize, _observe_tools),    *)
(* with all handlers sharing the side channels of module Watches.          *)
(*                                                                         *)
(* The ledger is module Gate.  An audit awaits wherever it publishes, so   *)
(* it is one action per segment between two awaits or two watches; with a  *)
(* dashboard connected, as here, every await suspends.  Segments without   *)
(* an await between them run undisturbed.  What an answer contains is      *)
(* chosen when a watch first looks at it.  Publishing after the last state *)
(* change of a handler is left out, as in module Ledger.                   *)
(***************************************************************************)
EXTENDS Watches, FiniteSets

CONSTANTS
    Keys,           \* the upstream x model pairs
    Requests,       \* concurrent request handlers
    Sessions,       \* X-Satori-Session values and the upstream/model fallback
    Drifts,         \* the drift watches, in the order _finalize asks them
    Samples,        \* the values they observe; 0 is a missing usage field
    ToolChains,     \* the chains of tool calls an upstream answers with
    Faults          \* "cut": an audit may end at an await

VARIABLES
    degraded, owed, breaker,    \* see module Gate
    pc,         \* what the handler waits for
    key, stage, waiting, crossed, serious, session, cut,    \* its locals
    drift,      \* _states of the three DriftWatch
    rate,       \* _states of HitRateWatch
    slots,      \* SlopLedger._sessions
    duty,       \* history: what has still to look at the handler's answer
    lately,     \* history: the last BreachLimit samples of a drift watch
    since,      \* history: other sessions struck since a session was; one that
                \* never was is in its own set
    torn        \* history: degraded keys whose trip was lost with its handler

gate     == <<degraded, owed, breaker>>
locals   == <<key, stage, waiting, crossed, serious, session, cut>>
watches  == <<drift, rate, slots>>
history  == <<duty, lately, since, torn>>
vars     == <<gate, pc, locals, watches, history>>

Gate == INSTANCE Gate

DriftSet == {Drifts[i] : i \in DOMAIN Drifts}

ASSUME ProxyAssumption ==
    /\ Keys # {} /\ Samples \subseteq Averages
    /\ Drifts \in Seq(DriftSet)
    /\ \A i, j \in DOMAIN Drifts : Drifts[i] = Drifts[j] => i = j
    /\ DriftSet \cap {"rules", "hitrate", "record", "slop"} = {}

Auditors == {"rules", "hitrate", "record", "slop"} \cup DriftSet

\* The segments of the audit in the order they run.
Order == <<"rules", "hitrate">> \o Drifts \o <<"record", "slop">>

\* The segment after st; "slop" is the last one.
After(st) == LET i == CHOOSE j \in DOMAIN Order : Order[j] = st IN Order[i + 1]

-----------------------------------------------------------------------------
(* The event loop.                                                         *)

Suspended(r) == pc[r] # "audit" \/ waiting[r]
Scheduled(r) == \A q \in Requests \ {r} : Suspended(q)
LoopFree     == \A r \in Requests : Suspended(r)

Init ==
    /\ Gate!Init
    /\ pc = [r \in Requests |-> "idle"]
    /\ key = [r \in Requests |-> CHOOSE k \in Keys : TRUE]
    /\ stage = [r \in Requests |-> "rules"]
    /\ waiting = [r \in Requests |-> FALSE]
    /\ crossed = [r \in Requests |-> FALSE]
    /\ serious = [r \in Requests |-> FALSE]
    /\ session = [r \in Requests |-> "none"]
    /\ cut = [r \in Requests |-> FALSE]
    /\ drift = [d \in DriftSet |-> [k \in Keys |-> NoDrift]]
    /\ rate = [k \in Keys |-> NoRate]
    /\ slots = <<>>
    /\ duty = [r \in Requests |-> {}]
    /\ lately = [d \in DriftSet |-> [k \in Keys |-> <<>>]]
    /\ since = [s \in Sessions |-> {s}]
    /\ torn = {}

-----------------------------------------------------------------------------
(* _proxy.                                                                 *)

\* The breaker of k is closed and the request goes to the upstream.  A refused
\* one is answered 503 and counted, which nothing here depends on.
Admit(r, k) ==
    /\ pc[r] = "idle" /\ LoopFree
    /\ ~breaker[k]
    /\ pc' = [pc EXCEPT ![r] = "sent"]
    /\ key' = [key EXCEPT ![r] = k]
    /\ UNCHANGED <<gate, stage, waiting, crossed, serious, session, cut, watches, history>>

\* Where a handler starts over: no local of the last answer is left.
Leave(r) ==
    /\ pc' = [pc EXCEPT ![r] = "idle"]
    /\ waiting' = [waiting EXCEPT ![r] = FALSE]
    /\ crossed' = [crossed EXCEPT ![r] = FALSE]
    /\ serious' = [serious EXCEPT ![r] = FALSE]
    /\ session' = [session EXCEPT ![r] = "none"]
    /\ cut' = [cut EXCEPT ![r] = FALSE]
    /\ stage' = [stage EXCEPT ![r] = "rules"]
    /\ key' = [key EXCEPT ![r] = CHOOSE k \in Keys : TRUE]

\* The upstream is unreachable, does not answer 200 or answers no JSON to a
\* request that wants some: there is nothing to audit.
Unanswered(r) ==
    /\ pc[r] = "sent" /\ LoopFree
    /\ Leave(r)
    /\ UNCHANGED <<gate, watches, history>>

\* The answer is complete, or was cut off: _finalize sends its first event.
BeginAudit(r, short) ==
    /\ pc' = [pc EXCEPT ![r] = "audit"]
    /\ waiting' = [waiting EXCEPT ![r] = TRUE]
    /\ cut' = [cut EXCEPT ![r] = short]
    /\ duty' = [duty EXCEPT ![r] = Auditors]
    /\ UNCHANGED <<gate, key, stage, crossed, serious, session, watches, lately, since, torn>>

\* A request for JSON: the whole body is read and translated.
Answered(r) == /\ pc[r] = "sent" /\ LoopFree
               /\ BeginAudit(r, FALSE)

\* Passthrough or translated: the client is sent the answer as it arrives.
StartStream(r) ==
    /\ pc[r] = "sent" /\ LoopFree
    /\ pc' = [pc EXCEPT ![r] = "streaming"]
    /\ UNCHANGED <<gate, locals, watches, history>>

\* Mutant of EndStream: the audit follows the loop instead of its finally.
EndWithoutFinally(r) ==
    /\ pc[r] = "streaming" /\ LoopFree
    /\ \/ BeginAudit(r, FALSE)
       \/ /\ Leave(r)
          /\ duty' = [duty EXCEPT ![r] = Auditors]
          /\ UNCHANGED <<gate, watches, lately, since, torn>>

\* The stream ends: by itself, by an upstream that breaks off, or by a client
\* that goes away.  In any case the finally clause audits what came so far.
EndStream(r) ==
    /\ pc[r] = "streaming" /\ LoopFree
    /\ \E short \in BOOLEAN : BeginAudit(r, short)

-----------------------------------------------------------------------------
(* The audit: one action per segment.                                      *)

\* Segment st of r runs: what it waited for is over and nothing is owed.
Turn(r, st) ==
    /\ pc[r] = "audit" /\ stage[r] = st
    /\ ~crossed[r]
    /\ Scheduled(r)

Due(k, handlers) == \E r \in handlers : key[r] = k /\ crossed[r]

\* On to the next segment, with an await before it or not.
GoOn(r, await) ==
    /\ stage' = [stage EXCEPT ![r] = After(stage[r])]
    /\ waiting' = [waiting EXCEPT ![r] = await]
    /\ duty' = [duty EXCEPT ![r] = @ \ {stage[r]}]
    /\ UNCHANGED <<pc, key, cut>>

\* No finding.
Pass == UNCHANGED <<gate, crossed, torn>>

\* Mutant of Accuse: the handler that crosses the line does not remember it over
\* its awaits.
AccuseAndForget(r) ==
    \E over \in BOOLEAN :
        /\ crossed' = crossed
        /\ degraded' = [degraded EXCEPT ![key[r]] = over]
        /\ owed' = owed
        /\ breaker' = breaker
        /\ torn' = torn

\* _add_suspicion for the key of r: the handler that crosses the line owes the
\* trip.  Rules with a negative score may bring a total down as well.
Accuse(r) ==
    \E over \in BOOLEAN :
        /\ crossed' = [crossed EXCEPT ![r] = over /\ ~degraded[key[r]]]
        /\ degraded' = [degraded EXCEPT ![key[r]] = over]
        /\ owed' = [owed EXCEPT ![key[r]] = @ \/ crossed'[r]]
        /\ breaker' = breaker
        /\ torn' = IF over THEN torn ELSE torn \ {key[r]}
        /\ Gate!Accuse(key[r])

\* The dashboards have the alert, the breaker opens, "breaker" is sent.
Trip(r) ==
    /\ pc[r] = "audit" /\ crossed[r]
    /\ Scheduled(r)
    /\ crossed' = [crossed EXCEPT ![r] = FALSE]
    /\ owed' = [owed EXCEPT ![key[r]] = Due(key[r], Requests \ {r})]
    /\ breaker' = [breaker EXCEPT ![key[r]] = TRUE]
    /\ degraded' = degraded
    /\ Gate!Open(key[r])
    /\ UNCHANGED <<pc, key, stage, waiting, serious, session, cut, watches, history>>

\* _apply_rules: no hit, mild hits, or one of 25 points and more.
ApplyRules(r) ==
    /\ Turn(r, "rules")
    /\ \/ Pass /\ GoOn(r, FALSE) /\ UNCHANGED serious
       \/ /\ Accuse(r)
          /\ GoOn(r, TRUE)
          /\ \E hit \in BOOLEAN : serious' = [serious EXCEPT ![r] = hit]
    /\ UNCHANGED <<session, watches, lately, since>>

WatchRate(r) ==
    /\ Turn(r, "hitrate")
    /\ rate' = [rate EXCEPT ![key[r]] = RateAfter(@, serious[r])]
    /\ IF RateAlerts(rate[key[r]], serious[r])
       THEN Accuse(r) /\ GoOn(r, TRUE) ELSE Pass /\ GoOn(r, FALSE)
    /\ serious' = [serious EXCEPT ![r] = FALSE]
    /\ UNCHANGED <<session, drift, slots, lately, since>>

\* The last n of a sequence.
Latest(n, q) == IF Len(q) > n THEN Tail(q) ELSE q

\* tokenwatch, latencywatch, billingwatch: one step each.
WatchDrift(r, d) ==
    /\ Turn(r, d)
    /\ \E v \in Samples :
          /\ drift' = [drift EXCEPT ![d][key[r]] = Drifted(@, v)]
          /\ lately' = IF v = 0 THEN lately
                       ELSE [lately EXCEPT ![d][key[r]] = Latest(BreachLimit, Append(@, v))]
          /\ IF Alerts(drift[d][key[r]], v)
             THEN Accuse(r) /\ GoOn(r, TRUE) ELSE Pass /\ GoOn(r, FALSE)
    /\ UNCHANGED <<serious, session, rate, slots, since>>

\* The end of a handler that has nothing left to look at.
Finish(r) == /\ Leave(r)
             /\ duty' = [duty EXCEPT ![r] = @ \ {"record", "slop"}]
             /\ UNCHANGED <<gate, watches, lately, since, torn>>

\* A stream cut inside a tool call leaves arguments that do not parse.
Received(r, calls) ==
    IF cut[r] /\ calls # <<>> THEN [calls EXCEPT ![Len(calls)].args = "broken"] ELSE calls

\* append_record and append_tool_trace; a suspicious chain is published, and
\* the session is not touched before the dashboards have it.
Record(r) ==
    /\ Turn(r, "record")
    /\ \E calls \in ToolChains, s \in Sessions :
          IF Suspicious(Received(r, calls))
          THEN /\ GoOn(r, TRUE)
               /\ session' = [session EXCEPT ![r] = s]
               /\ Pass
               /\ UNCHANGED <<serious, watches, lately, since>>
          ELSE Finish(r)

\* SlopLedger.observe.  The accusation that follows a confirmation ends the
\* handler; whoever has crossed still owes the trip, so it stays to make it.
ObserveSlop(r) ==
    /\ Turn(r, "slop") /\ session[r] # "none"
    /\ LET s == session[r]
       IN  /\ slots' = Struck(slots, s)
           /\ since' = [t \in Sessions |-> IF t = s THEN {} ELSE since[t] \cup
                                               (IF t \in since[t] THEN {} ELSE {s})]
           /\ IF Confirms(slots, s) THEN Accuse(r) ELSE Pass
    /\ session' = [session EXCEPT ![r] = "none"]
    /\ waiting' = [waiting EXCEPT ![r] = Confirms(slots, session[r])]
    /\ duty' = [duty EXCEPT ![r] = @ \ {"slop"}]
    /\ UNCHANGED <<pc, key, stage, serious, cut, drift, rate, lately>>

\* The last await is over.
EndAudit(r) ==
    /\ Turn(r, "slop") /\ session[r] = "none"
    /\ Finish(r)

\* An audit ends at an await: a dashboard came or went while publish iterated,
\* or a client that went away has its handler cancelled there.  What it still
\* had to look at is not looked at, and a trip it owed is not made.
Lost(r) ==
    /\ "cut" \in Faults
    /\ pc[r] = "audit" /\ waiting[r] /\ LoopFree
    /\ owed' = [owed EXCEPT ![key[r]] = Due(key[r], Requests \ {r})]
    /\ Leave(r)
    /\ duty' = [duty EXCEPT ![r] = {}]
    /\ torn' = IF crossed[r] THEN torn \cup {key[r]} ELSE torn
    /\ UNCHANGED <<degraded, breaker, watches, lately, since>>

-----------------------------------------------------------------------------
(* The rest of the gateway.                                                *)

\* breaker_reset.
ResetBreaker(k) == /\ LoopFree
                   /\ Gate!Reset(k)
                   /\ torn' = torn \ {k}
                   /\ UNCHANGED <<pc, locals, watches, duty, lately, since>>

\* Decay, passing tests, rulings.
Forgive(k) == /\ LoopFree
              /\ degraded[k]
              /\ Gate!Relieve({k})
              /\ torn' = torn \ {k}
              /\ UNCHANGED <<pc, locals, watches, duty, lately, since>>

Audit(r) == \/ ApplyRules(r) \/ WatchRate(r) \/ \E d \in DriftSet : WatchDrift(r, d)
            \/ Record(r) \/ ObserveSlop(r) \/ EndAudit(r) \/ Trip(r)

Next ==
    \/ \E r \in Requests, k \in Keys : Admit(r, k)
    \/ \E r \in Requests :
          \/ Unanswered(r) \/ Answered(r) \/ StartStream(r) \/ EndStream(r)
          \/ Audit(r) \/ Lost(r)
    \/ \E k \in Keys : ResetBreaker(k) \/ Forgive(k)

Spec == Init /\ [][Next]_vars

-----------------------------------------------------------------------------
(* Properties.                                                             *)

DriftStates == [ema : Averages, samples : 0..MinSamples, breaches : 0..(BreachLimit - 1)]
RateStates  == [ema : HitRates, samples : 0..RateSamples]
Entries     == [session : Sessions, steps : 0..(ConfirmSteps - 1)]
Slots       == Seq(Entries)

\* The memory of the side channels stays bounded and well formed, however many
\* sessions the clients invent.
TypeOK ==
    /\ {degraded, owed, breaker} \subseteq [Keys -> BOOLEAN]
    /\ pc \in [Requests -> {"idle", "sent", "streaming", "audit"}]
    /\ key \in [Requests -> Keys]
    /\ stage \in [Requests -> Auditors]
    /\ {waiting, crossed, serious, cut} \subseteq [Requests -> BOOLEAN]
    /\ session \in [Requests -> Sessions \cup {"none"}]
    /\ drift \in [DriftSet -> [Keys -> DriftStates]]
    /\ rate \in [Keys -> RateStates]
    /\ slots \in Slots /\ Len(slots) =< MaxSessions

\* No answer escapes the audit: whichever way it was delivered, and whatever
\* the watches found on the way, a handler that was not torn out of its audit
\* has shown the answer to every one of them.
AnswersAreAudited == \A r \in Requests : pc[r] = "idle" => duty[r] = {}

\* A degraded model is open for traffic only until the handler that crossed the
\* line gets to its trip, or because that very handler was torn out of its
\* audit: no interleaving of audits, resets and forgiveness loses a trip.
SilentOnlyIfTorn ==
    \A k \in Keys : degraded[k] => breaker[k] \/ Due(k, Requests) \/ k \in torn

\* Once the line is crossed, requests for that model are refused until a reset
\* (or until the suspicion is gone): none is sent to the upstream meanwhile.
OverTheLineIsRefused ==
    [][\A r \in Requests, k \in Keys : Admit(r, k) => ~degraded[k]]_vars

\* A drift watch alerts on a sustained shift only: when it starts over, the last
\* BreachLimit samples of that model, of whichever handlers, were all out of
\* tolerance of a baseline learnt before from MinSamples samples or more.
AlertIsSustained ==
    [][\A r \in Requests, d \in DriftSet, k \in Keys :
          WatchDrift(r, d) /\ key[r] = k /\ waiting'[r] =>
              /\ drift[d][k].samples >= MinSamples
              /\ Len(lately'[d][k]) = BreachLimit
              /\ \A i \in 1..BreachLimit :
                    <<drift[d][k].ema, lately'[d][k][i]>> \in Far]_vars

\* The slop ledger remembers exactly the sessions after which fewer than
\* MaxSessions others were struck: an active session is never evicted for an
\* idle one, and none is kept past its turn.
SlotsAreRecent ==
    \A s \in Sessions :
        Holds(slots, s) <=> s \notin since[s] /\ Cardinality(since[s]) < MaxSessions
=============================================================================
