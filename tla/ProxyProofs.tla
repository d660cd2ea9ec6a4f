----------------------------- MODULE ProxyProofs -----------------------------
(***************************************************************************)
(* Theorems about Proxy, for any numbers of models, handlers, sessions and *)
(* drift watches, any learning curves and any limits: no answer escapes    *)
(* the audit, no interleaving loses a trip, an open breaker lets nothing   *)
(* out, and a drift alert is sustained.                                    *)
(***************************************************************************)
EXTENDS Proxy, FiniteSetTheorems, SequenceTheorems, TLAPS

-----------------------------------------------------------------------------
(* The segments of the audit and their order.                              *)

\* The segments from st on.
Ahead(st) == {Order[j] : j \in {n \in 1..Len(Order) : \E i \in 1..n : Order[i] = st}}

\* Order names every auditor once, from "rules" to "record" and "slop".
LEMMA OrderFacts ==
    /\ Order \in Seq(Auditors)
    /\ Len(Order) = Len(Drifts) + 4 /\ Len(Drifts) \in Nat
    /\ Order[1] = "rules" /\ Order[2] = "hitrate"
    /\ \A i \in 1..Len(Drifts) : Order[i + 2] = Drifts[i]
    /\ Order[Len(Drifts) + 3] = "record" /\ Order[Len(Drifts) + 4] = "slop"
<1>1. /\ <<"rules", "hitrate">> \in Seq(Auditors) /\ <<"record", "slop">> \in Seq(Auditors)
      /\ Drifts \in Seq(Auditors) /\ Len(Drifts) \in Nat
    BY ProxyAssumption DEF Auditors
<1>2. /\ <<"rules", "hitrate">> \o Drifts \in Seq(Auditors)
      /\ Len(<<"rules", "hitrate">> \o Drifts) = Len(Drifts) + 2
      /\ (<<"rules", "hitrate">> \o Drifts)[1] = "rules"
      /\ (<<"rules", "hitrate">> \o Drifts)[2] = "hitrate"
      /\ \A i \in 1..Len(Drifts) : (<<"rules", "hitrate">> \o Drifts)[i + 2] = Drifts[i]
    BY <1>1
<1> QED
    BY <1>1, <1>2 DEF Order

LEMMA OrderIsOnce ==
    \A i, j \in 1..Len(Order) : Order[i] = Order[j] => i = j
<1> SUFFICES ASSUME NEW i \in 1..Len(Order), NEW j \in 1..Len(Order), Order[i] = Order[j]
             PROVE  i = j
    OBVIOUS
<1> DEFINE n == Len(Drifts)
<1>1. ASSUME NEW m \in 1..Len(Order)
      PROVE  m = 1 \/ m = 2 \/ m = n + 3 \/ m = n + 4 \/ (m - 2 \in 1..n /\ Order[m] = Drifts[m - 2])
    <2>1. CASE m - 2 \in 1..n
        <3>1. Order[(m - 2) + 2] = Drifts[m - 2]
            BY <2>1, OrderFacts
        <3> QED
            BY <2>1, <3>1, OrderFacts
    <2>2. CASE m - 2 \notin 1..n
        BY <2>2, OrderFacts
    <2> QED
        BY <2>1, <2>2
<1>2. /\ DOMAIN Drifts = 1..n
      /\ \A a, b \in 1..n : Drifts[a] = Drifts[b] => a = b
      /\ \A a \in 1..n : Drifts[a] \notin {"rules", "hitrate", "record", "slop"}
    <2>1. DOMAIN Drifts = 1..n
        BY ProxyAssumption
    <2>2. \A a \in DOMAIN Drifts : Drifts[a] \in DriftSet
        BY DEF DriftSet
    <2>3. DriftSet \cap {"rules", "hitrate", "record", "slop"} = {}
        BY ProxyAssumption
    <2>4. \A a, b \in DOMAIN Drifts : Drifts[a] = Drifts[b] => a = b
        BY ProxyAssumption
    <2> QED
        BY <2>1, <2>2, <2>3, <2>4
<1>3. i = 1 \/ i = 2 \/ i = n + 3 \/ i = n + 4 \/ (i - 2 \in 1..n /\ Order[i] = Drifts[i - 2])
    BY <1>1
<1>4. j = 1 \/ j = 2 \/ j = n + 3 \/ j = n + 4 \/ (j - 2 \in 1..n /\ Order[j] = Drifts[j - 2])
    BY <1>1
<1>5. CASE i - 2 \in 1..n /\ Order[i] = Drifts[i - 2]
    <2>1. j - 2 \in 1..n /\ Order[j] = Drifts[j - 2]
        BY <1>2, <1>4, <1>5, OrderFacts
    <2>2. i - 2 = j - 2
        BY <1>2, <1>5, <2>1
    <2> QED
        BY <2>2
<1>6. CASE i = 1 \/ i = 2 \/ i = n + 3 \/ i = n + 4
    BY <1>2, <1>4, <1>6, OrderFacts
<1> QED
    BY <1>3, <1>5, <1>6

LEMMA OrderIsAll == Auditors = {Order[i] : i \in 1..Len(Order)}
<1> DEFINE n == Len(Drifts)
<1>1. DOMAIN Drifts = 1..n
    BY ProxyAssumption
<1>2. ASSUME NEW st \in Auditors PROVE \E i \in 1..Len(Order) : Order[i] = st
    <2>1. CASE st \in {"rules", "hitrate", "record", "slop"}
        BY <2>1, OrderFacts
    <2>2. CASE st \in DriftSet
        <3>1. PICK i \in 1..n : st = Drifts[i]
            BY <1>1, <2>2 DEF DriftSet
        <3>2. Order[i + 2] = st /\ i + 2 \in 1..Len(Order)
            BY <3>1, OrderFacts
        <3> QED
            BY <3>2
    <2> QED
        BY <2>1, <2>2 DEF Auditors
<1>3. ASSUME NEW m \in 1..Len(Order) PROVE Order[m] \in Auditors
    <2>1. CASE m - 2 \in 1..n
        <3>1. Order[(m - 2) + 2] = Drifts[m - 2]
            BY <2>1, OrderFacts
        <3>2. Order[m] \in DriftSet
            BY <1>1, <2>1, <3>1 DEF DriftSet
        <3> QED
            BY <3>2 DEF Auditors
    <2>2. CASE m - 2 \notin 1..n
        BY <2>2, OrderFacts DEF Auditors
    <2> QED
        BY <2>1, <2>2
<1> QED
    BY <1>2, <1>3

\* Nothing is behind "rules", and nothing but "slop" is ahead of "record".
LEMMA AheadEnds ==
    /\ Ahead("rules") = Auditors
    /\ Ahead("record") = {"record", "slop"}
    /\ Ahead("slop") = {"slop"}
<1> DEFINE n == Len(Drifts)
<1>1. Ahead("rules") = Auditors
    BY OrderFacts, OrderIsAll DEF Ahead
<1>2. \A m \in 1..Len(Order) : (\E i \in 1..m : Order[i] = "record") <=> m \in {n + 3, n + 4}
    BY OrderFacts, OrderIsOnce
<1>3. \A m \in 1..Len(Order) : (\E i \in 1..m : Order[i] = "slop") <=> m = n + 4
    BY OrderFacts, OrderIsOnce
<1>4. n + 3 \in 1..Len(Order) /\ n + 4 \in 1..Len(Order)
    BY OrderFacts
<1>5. /\ Ahead("record") = {Order[j] : j \in {n + 3, n + 4}}
      /\ Ahead("slop") = {Order[j] : j \in {n + 4}}
    <2>1. {m \in 1..Len(Order) : \E i \in 1..m : Order[i] = "record"} = {n + 3, n + 4}
        BY <1>2, <1>4
    <2>2. {m \in 1..Len(Order) : \E i \in 1..m : Order[i] = "slop"} = {n + 4}
        BY <1>3, <1>4
    <2> QED
        BY <2>1, <2>2, Zenon DEF Ahead
<1>6. /\ {Order[j] : j \in {n + 3, n + 4}} = {Order[n + 3], Order[n + 4]}
      /\ {Order[j] : j \in {n + 4}} = {Order[n + 4]}
    OBVIOUS
<1>7. Order[n + 3] = "record" /\ Order[n + 4] = "slop"
    BY OrderFacts
<1> HIDE DEF n
<1> QED
    BY <1>1, <1>5, <1>6, <1>7

\* What is ahead of a segment is itself and what is ahead of the next one.
LEMMA AheadOfNext ==
    ASSUME NEW st \in Auditors, st # "slop"
    PROVE  After(st) \in Auditors /\ Ahead(st) \ {st} \subseteq Ahead(After(st))
<1> DEFINE i == CHOOSE j \in DOMAIN Order : Order[j] = st
<1>1. DOMAIN Order = 1..Len(Order) /\ Len(Order) \in Nat
    BY OrderFacts
<1>2. i \in 1..Len(Order) /\ Order[i] = st
    BY <1>1, OrderIsAll
<1>3. i + 1 \in 1..Len(Order)
    BY <1>1, <1>2, OrderFacts
<1>4. After(st) = Order[i + 1]
    BY DEF After
<1>5. ASSUME NEW x \in Ahead(st), x # st PROVE x \in Ahead(After(st))
    <2>1. PICK m \in 1..Len(Order) : x = Order[m] /\ \E j \in 1..m : Order[j] = st
        BY DEF Ahead
    <2>2. PICK j \in 1..m : Order[j] = st
        BY <2>1
    <2>3. j = i
        BY <1>1, <1>2, <2>2, OrderIsOnce
    <2>4. m # i
        BY <1>2, <1>5, <2>1
    <2>5. i + 1 \in 1..m
        BY <1>1, <1>2, <2>2, <2>3, <2>4
    <2> QED
        BY <1>4, <2>1, <2>5 DEF Ahead
<1> HIDE DEF i
<1>6. After(st) \in Auditors
    BY <1>3, <1>4, OrderIsAll
<1> QED
    BY <1>5, <1>6

-----------------------------------------------------------------------------
(* The handlers: what each still owes its answer.                          *)

TypeInv ==
    /\ pc \in [Requests -> {"idle", "sent", "streaming", "audit"}]
    /\ key \in [Requests -> Keys]
    /\ stage \in [Requests -> Auditors]
    /\ waiting \in [Requests -> BOOLEAN]
    /\ crossed \in [Requests -> BOOLEAN]
    /\ duty \in [Requests -> SUBSET Auditors]
    /\ degraded \in [Keys -> BOOLEAN] /\ breaker \in [Keys -> BOOLEAN]

\* An audit owes no more than what is ahead of it; outside of audits nothing is
\* owed, and the next audit will begin at the beginning.
HandlerInv ==
    /\ TypeInv
    /\ \A r \in Requests :
          IF pc[r] = "audit" THEN duty[r] \subseteq Ahead(stage[r])
          ELSE duty[r] = {} /\ ~crossed[r] /\ stage[r] = "rules"

LEMMA HandlerInit == Init => HandlerInv
<1> SUFFICES ASSUME Init PROVE HandlerInv
    OBVIOUS
<1>1. "rules" \in Auditors
    BY DEF Auditors
<1>2. (CHOOSE k \in Keys : TRUE) \in Keys
    BY ProxyAssumption
<1> QED
    BY <1>1, <1>2 DEF Init, Gate!Init, HandlerInv, TypeInv

\* A handler that leaves with nothing owed is as good as new.
LEMMA LeaveKeeps ==
    ASSUME HandlerInv, NEW r \in Requests, Leave(r), duty' = [duty EXCEPT ![r] = {}],
           UNCHANGED <<degraded, breaker>>
    PROVE  HandlerInv'
<1>1. "rules" \in Auditors
    BY DEF Auditors
<1>2. (CHOOSE k \in Keys : TRUE) \in Keys
    BY ProxyAssumption
<1>3. TypeInv'
    BY <1>1, <1>2 DEF HandlerInv, TypeInv, Leave
<1> QED
    BY <1>3 DEF HandlerInv, TypeInv, Leave

LEMMA AuditBegins ==
    ASSUME HandlerInv, NEW r \in Requests, pc[r] # "audit", NEW short \in BOOLEAN,
           BeginAudit(r, short)
    PROVE  HandlerInv'
<1>1. Ahead("rules") = Auditors
    BY AheadEnds
<1>2. TypeInv'
    BY DEF HandlerInv, TypeInv, BeginAudit, gate
<1> QED
    BY <1>1, <1>2 DEF HandlerInv, TypeInv, BeginAudit

\* A segment that has looked at the answer hands over to the next one.
LEMMA GoOnKeeps ==
    ASSUME HandlerInv, NEW r \in Requests, NEW st \in Auditors, Turn(r, st), st # "slop",
           NEW await \in BOOLEAN, GoOn(r, await),
           crossed' \in [Requests -> BOOLEAN],
           \A q \in Requests \ {r} : crossed'[q] = crossed[q],
           degraded' \in [Keys -> BOOLEAN], breaker' \in [Keys -> BOOLEAN]
    PROVE  HandlerInv'
<1>1. After(st) \in Auditors /\ Ahead(st) \ {st} \subseteq Ahead(After(st))
    BY AheadOfNext
<1>2. stage[r] = st /\ pc[r] = "audit"
    BY DEF Turn
<1>3. TypeInv'
    BY <1>1, <1>2 DEF HandlerInv, TypeInv, GoOn
<1>4. stage'[r] = After(st) /\ duty'[r] = duty[r] \ {st} /\ pc' = pc
    BY <1>2 DEF HandlerInv, TypeInv, GoOn
<1>5. duty[r] \subseteq Ahead(st)
    BY <1>2 DEF HandlerInv
<1>6. duty'[r] \subseteq Ahead(stage'[r])
    BY <1>1, <1>4, <1>5
<1>7. \A q \in Requests \ {r} : stage'[q] = stage[q] /\ duty'[q] = duty[q]
    BY DEF HandlerInv, TypeInv, GoOn
<1> QED
    BY <1>2, <1>3, <1>4, <1>6, <1>7 DEF HandlerInv

\* An accusation is about the key of its handler and touches nothing else.
LEMMA AccuseTypes ==
    ASSUME HandlerInv, NEW r \in Requests, Accuse(r) \/ Pass
    PROVE  /\ crossed' \in [Requests -> BOOLEAN]
           /\ \A q \in Requests \ {r} : crossed'[q] = crossed[q]
           /\ degraded' \in [Keys -> BOOLEAN] /\ breaker' \in [Keys -> BOOLEAN]
<1>1. CASE Accuse(r)
    <2>1. PICK over \in BOOLEAN :
              /\ crossed' = [crossed EXCEPT ![r] = over /\ ~degraded[key[r]]]
              /\ degraded' = [degraded EXCEPT ![key[r]] = over]
              /\ breaker' = breaker
        BY <1>1 DEF Accuse
    <2> QED
        BY <2>1 DEF HandlerInv, TypeInv
<1>2. CASE Pass
    BY <1>2 DEF Pass, HandlerInv, TypeInv, gate
<1> QED
    BY <1>1, <1>2

LEMMA FinishKeeps ==
    ASSUME HandlerInv, NEW r \in Requests, NEW st \in {"record", "slop"}, Turn(r, st), Finish(r)
    PROVE  HandlerInv'
<1>1. Ahead(st) \subseteq {"record", "slop"}
    BY AheadEnds
<1>2. duty[r] \ {"record", "slop"} = {}
    BY <1>1 DEF HandlerInv, Turn
<1>3. duty' = [duty EXCEPT ![r] = {}]
    BY <1>2 DEF Finish, HandlerInv, TypeInv
<1> QED
    BY <1>3, LeaveKeeps DEF Finish, gate

LEMMA AuditKeeps ==
    ASSUME HandlerInv, NEW r \in Requests, Audit(r)
    PROVE  HandlerInv'
<1>1. CASE ApplyRules(r)
    <2>1. "rules" \in Auditors
        BY DEF Auditors
    <2>2. Turn(r, "rules") /\ (Accuse(r) \/ Pass) /\ \E await \in BOOLEAN : GoOn(r, await)
        BY <1>1 DEF ApplyRules
    <2> QED
        BY <2>1, <2>2, AccuseTypes, GoOnKeeps
<1>2. CASE WatchRate(r)
    <2>1. "hitrate" \in Auditors
        BY DEF Auditors
    <2>2. Turn(r, "hitrate") /\ (Accuse(r) \/ Pass) /\ \E await \in BOOLEAN : GoOn(r, await)
        BY <1>2 DEF WatchRate
    <2> QED
        BY <2>1, <2>2, AccuseTypes, GoOnKeeps
<1>3. ASSUME NEW d \in DriftSet, WatchDrift(r, d) PROVE HandlerInv'
    <2>1. d \in Auditors /\ d # "slop"
        BY ProxyAssumption DEF Auditors
    <2>2. Turn(r, d) /\ (Accuse(r) \/ Pass) /\ \E await \in BOOLEAN : GoOn(r, await)
        BY <1>3 DEF WatchDrift
    <2> QED
        BY <2>1, <2>2, AccuseTypes, GoOnKeeps
<1>4. CASE Record(r)
    <2>1. "record" \in Auditors
        BY DEF Auditors
    <2>2. Turn(r, "record") /\ (Finish(r) \/ (Pass /\ GoOn(r, TRUE)))
        BY <1>4 DEF Record
    <2> QED
        BY <2>1, <2>2, AccuseTypes, GoOnKeeps, FinishKeeps
<1>5. CASE ObserveSlop(r)
    <2>1. Accuse(r) \/ Pass
        BY <1>5 DEF ObserveSlop
    <2>2. /\ pc[r] = "audit" /\ stage[r] = "slop" /\ pc' = pc /\ key' = key /\ stage' = stage
          /\ waiting' = [waiting EXCEPT ![r] = Confirms(slots, session[r])]
          /\ duty' = [duty EXCEPT ![r] = @ \ {"slop"}]
        BY <1>5 DEF ObserveSlop, Turn
    <2>3. Confirms(slots, session[r]) \in BOOLEAN
        BY DEF Confirms
    <2>4. TypeInv'
        BY <2>1, <2>2, <2>3, AccuseTypes DEF HandlerInv, TypeInv
    <2>5. \A q \in Requests \ {r} : crossed'[q] = crossed[q]
        BY <2>1, AccuseTypes
    <2> QED
        BY <2>2, <2>4, <2>5 DEF HandlerInv, TypeInv
<1>6. CASE EndAudit(r)
    BY <1>6, FinishKeeps DEF EndAudit
<1>7. CASE Trip(r)
    <2>1. TypeInv'
        BY <1>7 DEF Trip, HandlerInv, TypeInv, history
    <2> QED
        BY <1>7, <2>1 DEF Trip, HandlerInv, TypeInv, history
<1> QED
    BY <1>1, <1>2, <1>3, <1>4, <1>5, <1>6, <1>7 DEF Audit

LEMMA HandlerStep ==
    ASSUME HandlerInv, [Next]_vars
    PROVE  HandlerInv'
<1>1. ASSUME NEW r \in Requests, NEW k \in Keys, Admit(r, k) PROVE HandlerInv'
    <2>1. TypeInv'
        BY <1>1 DEF Admit, HandlerInv, TypeInv, gate, history
    <2> QED
        BY <1>1, <2>1 DEF Admit, HandlerInv, TypeInv, history
<1>2. ASSUME NEW r \in Requests, Unanswered(r) PROVE HandlerInv'
    <2>1. duty[r] = {} /\ duty' = duty
        BY <1>2 DEF Unanswered, HandlerInv, history
    <2>2. duty' = [duty EXCEPT ![r] = {}]
        BY <2>1 DEF HandlerInv, TypeInv
    <2> QED
        BY <1>2, <2>2, LeaveKeeps DEF Unanswered, gate
<1>3. ASSUME NEW r \in Requests, Answered(r) \/ EndStream(r) PROVE HandlerInv'
    <2>1. pc[r] # "audit" /\ \E short \in BOOLEAN : BeginAudit(r, short)
        BY <1>3 DEF Answered, EndStream
    <2> QED
        BY <2>1, AuditBegins
<1>4. ASSUME NEW r \in Requests, StartStream(r) PROVE HandlerInv'
    <2>1. TypeInv'
        BY <1>4 DEF StartStream, HandlerInv, TypeInv, gate, locals, history
    <2> QED
        BY <1>4, <2>1 DEF StartStream, HandlerInv, TypeInv, locals, history
<1>5. ASSUME NEW r \in Requests, Lost(r) PROVE HandlerInv'
    BY <1>5, LeaveKeeps DEF Lost
<1>6. ASSUME NEW k \in Keys, ResetBreaker(k) \/ Forgive(k) PROVE HandlerInv'
    <2>1. degraded' \in [Keys -> BOOLEAN] /\ breaker' \in [Keys -> BOOLEAN]
        BY <1>6 DEF ResetBreaker, Forgive, Gate!Reset, Gate!Relieve, HandlerInv, TypeInv
    <2>2. UNCHANGED <<pc, key, stage, waiting, crossed, duty>>
        BY <1>6 DEF ResetBreaker, Forgive, locals
    <2> QED
        BY <2>1, <2>2 DEF HandlerInv, TypeInv
<1>7. CASE UNCHANGED vars
    BY <1>7 DEF vars, gate, locals, history, HandlerInv, TypeInv
<1> QED
    BY <1>1, <1>2, <1>3, <1>4, <1>5, <1>6, <1>7, AuditKeeps DEF Next

LEMMA HandlersAreSound == Spec => []HandlerInv
<1>1. HandlerInv /\ [Next]_vars => HandlerInv'
    BY HandlerStep
<1> QED
    BY <1>1, HandlerInit, PTL DEF Spec

\* No answer escapes the audit: a handler that is done has shown its answer to
\* every watch, whichever of them accused the model on the way, or was torn.
THEOREM EveryAnswerIsAudited == Spec => []AnswersAreAudited
<1>1. HandlerInv => AnswersAreAudited
    BY DEF HandlerInv, AnswersAreAudited
<1> QED
    BY <1>1, HandlersAreSound, PTL

-----------------------------------------------------------------------------
(* Trips.                                                                  *)

\* Whoever crosses the line has its own trip to make; who finds the model
\* degraded leaves it to those that were there before.
LEMMA AccuseKeepsTrips ==
    ASSUME HandlerInv, SilentOnlyIfTorn, NEW r \in Requests, ~crossed[r], Accuse(r), key' = key
    PROVE  SilentOnlyIfTorn'
<1>1. PICK over \in BOOLEAN :
          /\ crossed' = [crossed EXCEPT ![r] = over /\ ~degraded[key[r]]]
          /\ degraded' = [degraded EXCEPT ![key[r]] = over]
          /\ breaker' = breaker
          /\ torn' = IF over THEN torn ELSE torn \ {key[r]}
    BY DEF Accuse
<1> SUFFICES ASSUME NEW k \in Keys, degraded'[k]
             PROVE  breaker'[k] \/ Due(k, Requests)' \/ k \in torn'
    BY DEF SilentOnlyIfTorn
<1>2. CASE degraded[k]
    <2>1. k \in torn => k \in torn'
        BY <1>1 DEF HandlerInv, TypeInv
    <2>2. Due(k, Requests) => Due(k, Requests)'
        BY <1>1 DEF Due, HandlerInv, TypeInv
    <2> QED
        BY <1>1, <1>2, <2>1, <2>2 DEF SilentOnlyIfTorn
<1>3. CASE ~degraded[k]
    <2>1. key[r] = k /\ over
        BY <1>1, <1>3 DEF HandlerInv, TypeInv
    <2>2. crossed'[r] /\ key'[r] = k
        BY <1>1, <1>3, <2>1 DEF HandlerInv, TypeInv
    <2> QED
        BY <2>2 DEF Due
<1> QED
    BY <1>2, <1>3

\* A handler without a trip to make may go.
LEMMA LeaveKeepsTrips ==
    ASSUME HandlerInv, SilentOnlyIfTorn, NEW r \in Requests, Leave(r),
           UNCHANGED <<degraded, breaker>>, torn \subseteq torn', crossed[r] => key[r] \in torn'
    PROVE  SilentOnlyIfTorn'
<1> SUFFICES ASSUME NEW k \in Keys, degraded[k]
             PROVE  breaker[k] \/ Due(k, Requests)' \/ k \in torn'
    BY DEF SilentOnlyIfTorn
<1>1. CASE Due(k, Requests)
    <2>1. PICK q \in Requests : key[q] = k /\ crossed[q]
        BY <1>1 DEF Due
    <2>2. CASE q = r
        BY <2>1, <2>2
    <2>3. CASE q # r
        <3>1. key'[q] = k /\ crossed'[q]
            BY <2>1, <2>3 DEF Leave, HandlerInv, TypeInv
        <3> QED
            BY <3>1 DEF Due
    <2> QED
        BY <2>2, <2>3
<1>2. CASE ~Due(k, Requests)
    BY <1>2 DEF SilentOnlyIfTorn
<1> QED
    BY <1>1, <1>2

LEMMA QuietKeepsTrips ==
    ASSUME SilentOnlyIfTorn, UNCHANGED <<degraded, breaker, crossed, key, torn>>
    PROVE  SilentOnlyIfTorn'
BY DEF SilentOnlyIfTorn, Due

LEMMA TripsStep ==
    ASSUME HandlerInv, SilentOnlyIfTorn, [Next]_vars
    PROVE  SilentOnlyIfTorn'
<1>1. ASSUME NEW r \in Requests, NEW k \in Keys, Admit(r, k) PROVE SilentOnlyIfTorn'
    <2>1. UNCHANGED <<degraded, breaker, crossed, torn>> /\ key' = [key EXCEPT ![r] = k]
        BY <1>1 DEF Admit, gate, history
    <2>2. ~crossed[r]
        BY <1>1 DEF Admit, HandlerInv
    <2>3. \A j \in Keys : Due(j, Requests) => Due(j, Requests)'
        BY <2>1, <2>2 DEF Due, HandlerInv, TypeInv
    <2> QED
        BY <2>1, <2>3 DEF SilentOnlyIfTorn
<1>2. ASSUME NEW r \in Requests, Unanswered(r) PROVE SilentOnlyIfTorn'
    BY <1>2, LeaveKeepsTrips DEF Unanswered, gate, history, HandlerInv
<1>3. ASSUME NEW r \in Requests, Answered(r) \/ StartStream(r) \/ EndStream(r)
      PROVE  SilentOnlyIfTorn'
    BY <1>3, QuietKeepsTrips
       DEF Answered, StartStream, EndStream, BeginAudit, gate, locals, history
<1>4. ASSUME NEW r \in Requests, Audit(r), ~Trip(r) PROVE SilentOnlyIfTorn'
    <2>1. CASE ApplyRules(r)
        <3>1. ~crossed[r] /\ key' = key
            BY <2>1 DEF ApplyRules, Turn, GoOn
        <3> QED
            BY <2>1, <3>1, AccuseKeepsTrips, QuietKeepsTrips DEF ApplyRules, Pass, gate
    <2>2. CASE WatchRate(r)
        <3>1. ~crossed[r] /\ key' = key
            BY <2>2 DEF WatchRate, Turn, GoOn
        <3> QED
            BY <2>2, <3>1, AccuseKeepsTrips, QuietKeepsTrips DEF WatchRate, Pass, gate
    <2>3. ASSUME NEW d \in DriftSet, WatchDrift(r, d) PROVE SilentOnlyIfTorn'
        <3>1. ~crossed[r] /\ key' = key /\ (Accuse(r) \/ Pass)
            BY <2>3 DEF WatchDrift, Turn, GoOn
        <3> QED
            BY <3>1, AccuseKeepsTrips, QuietKeepsTrips DEF Pass, gate
    <2>4. CASE Record(r)
        <3>1. ~crossed[r] /\ (Finish(r) \/ (Pass /\ key' = key))
            BY <2>4 DEF Record, Turn, GoOn
        <3> QED
            BY <3>1, LeaveKeepsTrips, QuietKeepsTrips DEF Pass, Finish, gate
    <2>5. CASE ObserveSlop(r)
        <3>1. ~crossed[r] /\ key' = key /\ (Accuse(r) \/ Pass)
            BY <2>5 DEF ObserveSlop, Turn
        <3> QED
            BY <3>1, AccuseKeepsTrips, QuietKeepsTrips DEF Pass, gate
    <2>6. CASE EndAudit(r)
        BY <2>6, LeaveKeepsTrips DEF EndAudit, Turn, Finish, gate
    <2> QED
        BY <1>4, <2>1, <2>2, <2>3, <2>4, <2>5, <2>6 DEF Audit
<1>5. ASSUME NEW r \in Requests, Trip(r) PROVE SilentOnlyIfTorn'
    <2>1. /\ crossed' = [crossed EXCEPT ![r] = FALSE] /\ breaker' = [breaker EXCEPT ![key[r]] = TRUE]
          /\ UNCHANGED <<degraded, key, torn>>
        BY <1>5 DEF Trip, history
    <2>2. \A k \in Keys : Due(k, Requests) => Due(k, Requests)' \/ breaker'[k]
        BY <2>1 DEF Due, HandlerInv, TypeInv
    <2>3. \A k \in Keys : breaker[k] => breaker'[k]
        BY <2>1 DEF HandlerInv, TypeInv
    <2> QED
        BY <2>1, <2>2, <2>3 DEF SilentOnlyIfTorn
<1>6. ASSUME NEW r \in Requests, Lost(r) PROVE SilentOnlyIfTorn'
    BY <1>6, LeaveKeepsTrips DEF Lost
<1>7. ASSUME NEW k \in Keys, ResetBreaker(k) \/ Forgive(k) PROVE SilentOnlyIfTorn'
    <2>1. /\ UNCHANGED <<crossed, key>> /\ torn' = torn \ {k}
          /\ ~degraded'[k]
          /\ \A j \in Keys \ {k} : (degraded'[j] => degraded[j]) /\ breaker'[j] = breaker[j]
        BY <1>7 DEF ResetBreaker, Forgive, Gate!Reset, Gate!Relieve, HandlerInv, TypeInv, locals
    <2> QED
        BY <2>1 DEF SilentOnlyIfTorn, Due
<1>8. CASE UNCHANGED vars
    BY <1>8, QuietKeepsTrips DEF vars, gate, locals, history
<1> QED
    BY <1>1, <1>2, <1>3, <1>4, <1>5, <1>6, <1>7, <1>8 DEF Next

\* However audits, resets and forgiveness interleave, a degraded model is open to
\* traffic only while the handler that crossed the line is on its way to the trip,
\* or when that handler was torn out of its audit.
THEOREM TripsAreLostWithHandlers == Spec => []SilentOnlyIfTorn
<1>1. Init => SilentOnlyIfTorn
    BY DEF Init, Gate!Init, SilentOnlyIfTorn
<1>2. HandlerInv /\ SilentOnlyIfTorn /\ [Next]_vars => SilentOnlyIfTorn'
    BY TripsStep
<1> QED
    BY <1>1, <1>2, HandlersAreSound, PTL DEF Spec

-----------------------------------------------------------------------------
(* Drift watches.                                                          *)

Shape(st) == st = [ema |-> st.ema, samples |-> st.samples, breaches |-> st.breaches]

\* The breaches a watch has counted are the last samples of q, and all of them
\* are out of tolerance of the baseline that it still has.
Counts(st, q) ==
    /\ Shape(st)
    /\ st.breaches \in 0..(BreachLimit - 1)
    /\ q \in Seq(Samples) /\ Len(q) =< BreachLimit /\ st.breaches =< Len(q)
    /\ \A i \in 0..(st.breaches - 1) : <<st.ema, q[Len(q) - i]>> \in Far

\* What appending to a window does, counted from its end.
LEMMA LatestEnds ==
    ASSUME NEW q \in Seq(Samples), Len(q) =< BreachLimit, NEW v \in Samples
    PROVE  LET w == Latest(BreachLimit, Append(q, v))
           IN  /\ w \in Seq(Samples)
               /\ Len(w) = IF Len(q) = BreachLimit THEN BreachLimit ELSE Len(q) + 1
               /\ w[Len(w)] = v
               /\ \A i \in 1..(Len(w) - 1) : w[Len(w) - i] = q[Len(q) - (i - 1)]
<1> DEFINE long == Append(q, v)
           w == Latest(BreachLimit, long)
<1>1. Len(q) \in Nat /\ BreachLimit \in Nat \ {0}
    BY WatchAssumption
<1>2. /\ long \in Seq(Samples) /\ Len(long) = Len(q) + 1 /\ long[Len(q) + 1] = v
      /\ \A i \in 1..Len(q) : long[i] = q[i]
    OBVIOUS
<1>3. CASE Len(q) = BreachLimit
    <2>1. w = Tail(long) /\ long # <<>>
        BY <1>1, <1>2, <1>3 DEF Latest
    <2>2. w \in Seq(Samples) /\ Len(w) = Len(q) /\ \A i \in 1..Len(q) : w[i] = long[i + 1]
        BY <1>1, <1>2, <2>1
    <2> HIDE DEF w, long
    <2>3. w[Len(w)] = v
        BY <1>1, <1>2, <1>3, <2>2
    <2>4. ASSUME NEW i \in 1..(Len(w) - 1) PROVE w[Len(w) - i] = q[Len(q) - (i - 1)]
        <3>1. w[Len(q) - i] = long[(Len(q) - i) + 1] /\ (Len(q) - i) + 1 = Len(q) - (i - 1)
            BY <1>1, <2>2
        <3>2. Len(q) - (i - 1) \in 1..Len(q)
            BY <1>1, <2>2
        <3> QED
            BY <1>2, <2>2, <3>1, <3>2
    <2>5. Len(w) = BreachLimit
        BY <1>3, <2>2
    <2> QED
        BY <1>3, <2>2, <2>3, <2>4, <2>5 DEF w, long
<1>4. CASE Len(q) # BreachLimit
    <2>1. w = long
        BY <1>1, <1>2, <1>4 DEF Latest
    <2> HIDE DEF w, long
    <2>2. w[Len(w)] = v
        BY <1>1, <1>2, <2>1
    <2>3. ASSUME NEW i \in 1..(Len(w) - 1) PROVE w[Len(w) - i] = q[Len(q) - (i - 1)]
        BY <1>1, <1>2, <2>1
    <2> QED
        BY <1>1, <1>2, <1>4, <2>1, <2>2, <2>3 DEF w, long
<1> QED
    BY <1>3, <1>4

\* One sample: the count stays true, and an alert has a full window behind it.
LEMMA DriftedCounts ==
    ASSUME NEW st, NEW q, Counts(st, q), NEW v \in Samples,
           NEW w, w = IF v = 0 THEN q ELSE Latest(BreachLimit, Append(q, v))
    PROVE  /\ Counts(Drifted(st, v), w)
           /\ Alerts(st, v) => /\ Len(w) = BreachLimit
                               /\ \A i \in 1..BreachLimit : <<st.ema, w[i]>> \in Far
<1>1. /\ st.breaches \in 0..(BreachLimit - 1) /\ BreachLimit \in Nat \ {0} /\ v \in Nat
      /\ Len(q) \in Nat /\ Shape(st) /\ q \in Seq(Samples)
    BY WatchAssumption, ProxyAssumption DEF Counts
<1>2. CASE v = 0
    BY <1>1, <1>2 DEF Drifted, Alerts
<1>3. CASE v # 0
    <2>1. /\ w \in Seq(Samples)
          /\ Len(w) = IF Len(q) = BreachLimit THEN BreachLimit ELSE Len(q) + 1
          /\ w[Len(w)] = v
          /\ \A i \in 1..(Len(w) - 1) : w[Len(w) - i] = q[Len(q) - (i - 1)]
        BY <1>3, LatestEnds DEF Counts
    <2>2. Len(w) \in Nat /\ Len(w) =< BreachLimit
        BY <1>1, <2>1 DEF Counts
    <2>3. st.breaches + 1 =< Len(w)
        BY <1>1, <2>1 DEF Counts
    <2>4. ASSUME Outlier(st, v), NEW i \in 0..st.breaches
          PROVE  <<st.ema, w[Len(w) - i]>> \in Far
        <3>1. CASE i = 0
            BY <2>1, <2>2, <2>4, <3>1 DEF Outlier
        <3>2. CASE i # 0
            <4>1. i \in 1..(Len(w) - 1) /\ i - 1 \in 0..(st.breaches - 1)
                BY <1>1, <2>2, <2>3, <3>2
            <4> QED
                BY <2>1, <4>1 DEF Counts
        <3> QED
            BY <3>1, <3>2
    <2>5. CASE Outlier(st, v) /\ ~Alerts(st, v)
        <3>1. Drifted(st, v) = [st EXCEPT !.breaches = st.breaches + 1]
            BY <1>1, <1>3, <2>5 DEF Drifted
        <3>2. Drifted(st, v) = [ema |-> st.ema, samples |-> st.samples, breaches |-> st.breaches + 1]
            BY <1>1, <3>1 DEF Shape
        <3>3. st.breaches + 1 \in 0..(BreachLimit - 1)
            BY <1>1, <1>3, <2>5 DEF Alerts
        <3> QED
            BY <1>1, <2>1, <2>2, <2>3, <2>4, <2>5, <3>2, <3>3 DEF Counts, Shape
    <2>6. CASE Alerts(st, v)
        <3>1. Outlier(st, v) /\ st.breaches = BreachLimit - 1
            BY <1>1, <2>6 DEF Alerts
        <3>2. Drifted(st, v) = [st EXCEPT !.breaches = 0]
            BY <1>1, <1>3, <2>6, <3>1 DEF Drifted
        <3>3. Drifted(st, v) = [ema |-> st.ema, samples |-> st.samples, breaches |-> 0]
            BY <1>1, <3>2 DEF Shape
        <3>4. Len(w) = BreachLimit
            BY <1>1, <2>2, <2>3, <3>1
        <3>5. ASSUME NEW i \in 1..BreachLimit PROVE <<st.ema, w[i]>> \in Far
            <4>1. BreachLimit - i \in 0..st.breaches /\ Len(w) - (BreachLimit - i) = i
                BY <1>1, <3>1, <3>4
            <4> QED
                BY <2>4, <3>1, <4>1
        <3>6. Counts(Drifted(st, v), w)
            BY <1>1, <2>1, <2>2, <3>3 DEF Counts, Shape
        <3> QED
            BY <3>4, <3>5, <3>6
    <2>7. CASE ~Outlier(st, v)
        <3>1. Drifted(st, v) = Learn(st, v) /\ ~Alerts(st, v)
            BY <1>1, <1>3, <2>7 DEF Drifted, Alerts
        <3> QED
            BY <1>1, <2>1, <2>2, <3>1 DEF Learn, Counts, Shape
    <2> QED
        BY <2>5, <2>6, <2>7
<1> QED
    BY <1>2, <1>3

DriftInv ==
    /\ drift = [d \in DriftSet |-> [k \in Keys |-> drift[d][k]]]
    /\ lately = [d \in DriftSet |-> [k \in Keys |-> lately[d][k]]]
    /\ \A d \in DriftSet, k \in Keys : Counts(drift[d][k], lately[d][k])

LEMMA DriftInit == Init => DriftInv
<1> SUFFICES ASSUME Init PROVE DriftInv
    OBVIOUS
<1>1. drift = [d \in DriftSet |-> [k \in Keys |-> NoDrift]]
    BY DEF Init
<1>2. lately = [d \in DriftSet |-> [k \in Keys |-> <<>>]]
    BY DEF Init
<1>3. Counts(NoDrift, <<>>)
    BY WatchAssumption DEF Counts, Shape, NoDrift
<1> QED
    BY <1>1, <1>2, <1>3 DEF DriftInv

\* What a handler does to its own watch, and to no other.
LEMMA WatchedSample ==
    ASSUME HandlerInv, DriftInv, NEW r \in Requests, NEW d \in DriftSet, WatchDrift(r, d)
    PROVE  /\ DriftInv'
           /\ waiting'[r] =>
                 /\ drift[d][key[r]].samples >= MinSamples
                 /\ Len(lately'[d][key[r]]) = BreachLimit
                 /\ \A i \in 1..BreachLimit : <<drift[d][key[r]].ema, lately'[d][key[r]][i]>> \in Far
<1> DEFINE k == key[r]
<1>1. PICK v \in Samples :
          /\ drift' = [drift EXCEPT ![d][k] = Drifted(@, v)]
          /\ lately' = IF v = 0 THEN lately
                       ELSE [lately EXCEPT ![d][k] = Latest(BreachLimit, Append(@, v))]
          /\ IF Alerts(drift[d][k], v)
             THEN Accuse(r) /\ GoOn(r, TRUE) ELSE Pass /\ GoOn(r, FALSE)
    BY DEF WatchDrift
<1>2. k \in Keys
    BY DEF HandlerInv, TypeInv
<1> HIDE DEF k
<1> DEFINE w == IF v = 0 THEN lately[d][k] ELSE Latest(BreachLimit, Append(lately[d][k], v))
<1>3. /\ drift' = [e \in DriftSet |-> [j \in Keys |->
                      IF e = d /\ j = k THEN Drifted(drift[d][k], v) ELSE drift[e][j]]]
      /\ lately' = [e \in DriftSet |-> [j \in Keys |-> IF e = d /\ j = k THEN w ELSE lately[e][j]]]
    <2>1. drift' = [e \in DriftSet |-> [j \in Keys |->
                       IF e = d /\ j = k THEN Drifted(drift[d][k], v) ELSE drift[e][j]]]
        BY <1>1, <1>2 DEF DriftInv
    <2>2. CASE v = 0
        BY <1>1, <1>2, <2>1, <2>2 DEF DriftInv
    <2>3. CASE v # 0
        BY <1>1, <1>2, <2>1, <2>3 DEF DriftInv
    <2> QED
        BY <2>1, <2>2, <2>3
<1>4. /\ Counts(Drifted(drift[d][k], v), w)
      /\ Alerts(drift[d][k], v) =>
            /\ Len(w) = BreachLimit
            /\ \A i \in 1..BreachLimit : <<drift[d][k].ema, w[i]>> \in Far
    BY <1>2, DriftedCounts DEF DriftInv
<1> HIDE DEF w
<1>5. /\ \A e \in DriftSet, j \in Keys :
              /\ drift'[e][j] = IF e = d /\ j = k THEN Drifted(drift[d][k], v) ELSE drift[e][j]
              /\ lately'[e][j] = IF e = d /\ j = k THEN w ELSE lately[e][j]
      /\ drift' = [e \in DriftSet |-> [j \in Keys |-> drift'[e][j]]]
      /\ lately' = [e \in DriftSet |-> [j \in Keys |-> lately'[e][j]]]
    BY <1>3
<1>6. DriftInv'
    <2>1. ASSUME NEW e \in DriftSet, NEW j \in Keys PROVE Counts(drift'[e][j], lately'[e][j])
        BY <1>4, <1>5 DEF DriftInv
    <2> QED
        BY <1>5, <2>1 DEF DriftInv
<1>7. waiting'[r] => Alerts(drift[d][k], v)
    BY <1>1 DEF GoOn, HandlerInv, TypeInv
<1>8. lately'[d][k] = w
    BY <1>2, <1>5
<1>9. Alerts(drift[d][k], v) => drift[d][k].samples >= MinSamples
    BY DEF Alerts, Outlier, Warm
<1> QED
    BY <1>4, <1>6, <1>7, <1>8, <1>9 DEF k

LEMMA DriftStep ==
    ASSUME HandlerInv, DriftInv, [Next]_vars
    PROVE  DriftInv'
<1>1. ASSUME NEW r \in Requests, NEW d \in DriftSet, WatchDrift(r, d) PROVE DriftInv'
    BY <1>1, WatchedSample
<1>2. CASE UNCHANGED <<drift, lately>>
    BY <1>2 DEF DriftInv
<1> QED
    BY <1>1, <1>2
       DEF Next, Admit, Unanswered, Answered, StartStream, EndStream, BeginAudit, Audit, ApplyRules,
           WatchRate, Record, ObserveSlop, EndAudit, Finish, Trip, Lost, ResetBreaker, Forgive,
           watches, history, vars

LEMMA WatchesAreSound == Spec => [](HandlerInv /\ DriftInv)
<1>1. HandlerInv /\ DriftInv /\ [Next]_vars => HandlerInv' /\ DriftInv'
    BY HandlerStep, DriftStep
<1> QED
    BY <1>1, HandlerInit, DriftInit, PTL DEF Spec

\* A drift watch that alerts has learnt its baseline from MinSamples samples and
\* then seen BreachLimit of that model in a row, of whichever handlers, all out of
\* tolerance of it.
THEOREM AlertsAreSustained == Spec => AlertIsSustained
<1> DEFINE A == \A r \in Requests, d \in DriftSet, k \in Keys :
                    WatchDrift(r, d) /\ key[r] = k /\ waiting'[r] =>
                        /\ drift[d][k].samples >= MinSamples
                        /\ Len(lately'[d][k]) = BreachLimit
                        /\ \A i \in 1..BreachLimit : <<drift[d][k].ema, lately'[d][k][i]>> \in Far
<1>1. HandlerInv /\ DriftInv /\ [Next]_vars => [A]_vars
    BY WatchedSample
<1>2. AlertIsSustained <=> [][A]_vars
    BY DEF AlertIsSustained
<1> HIDE DEF A
<1> QED
    BY <1>1, <1>2, WatchesAreSound, PTL DEF Spec

-----------------------------------------------------------------------------
(* The slop ledger: one slot a session, who was idle longest first.        *)

SlotsOnce(q) == \A i, j \in 1..Len(q) : q[i].session = q[j].session => i = j

\* The sessions with a slot behind the i-th.
Later(q, i) == {q[j].session : j \in (i + 1)..Len(q)}

LEMMA HoldsAt ==
    ASSUME NEW q \in Slots, NEW s
    PROVE  Holds(q, s) <=> \E i \in 1..Len(q) : q[i].session = s
BY DEF Slots, Holds

LEMMA LaterCounts ==
    ASSUME NEW q \in Slots, SlotsOnce(q), NEW i \in 0..Len(q)
    PROVE  IsFiniteSet(Later(q, i)) /\ Cardinality(Later(q, i)) = Len(q) - i
<1> DEFINE f == [j \in (i + 1)..Len(q) |-> q[j].session]
<1>1. Len(q) \in Nat
    BY DEF Slots
<1>2. f \in Bijection((i + 1)..Len(q), Later(q, i))
    <2>1. f \in Injection((i + 1)..Len(q), Later(q, i))
        BY <1>1 DEF Injection, IsInjective, Later, SlotsOnce
    <2>2. f \in Surjection((i + 1)..Len(q), Later(q, i))
        BY DEF Surjection, Later
    <2> QED
        BY <2>1, <2>2 DEF Bijection
<1>3. ExistsBijection((i + 1)..Len(q), Later(q, i))
    BY <1>2 DEF ExistsBijection
<1>4. /\ IsFiniteSet((i + 1)..Len(q))
      /\ Cardinality((i + 1)..Len(q)) = Len(q) - i
    <2>1. i + 1 \in Int /\ Len(q) \in Int
        BY <1>1
    <2>2. /\ IsFiniteSet((i + 1)..Len(q))
          /\ Cardinality((i + 1)..Len(q)) = IF i + 1 > Len(q) THEN 0 ELSE Len(q) - (i + 1) + 1
        BY <2>1, FS_Interval
    <2> QED
        BY <1>1, <2>2
<1> QED
    BY <1>3, <1>4, FS_Bijection

\* The slots that stay when s is struck: all but the p-th, which is that of s or,
\* in a full ledger, the first; p is one past the last when all of them stay.
Stays(q, s, rest, p) ==
    /\ Len(rest) = IF p =< Len(q) THEN Len(q) - 1 ELSE Len(q)
    /\ \A i \in 1..Len(rest) : rest[i] = q[IF i < p THEN i ELSE i + 1]
    /\ \A j \in 1..Len(q) : j # p => q[j].session # s
    /\ p =< Len(q) => \/ q[p].session = s
                      \/ p = 1 /\ Len(q) = MaxSessions /\ ~Holds(q, s)
    /\ p > Len(q) => Len(q) < MaxSessions

LEMMA RestShape ==
    ASSUME NEW q \in Slots, Len(q) =< MaxSessions, SlotsOnce(q), NEW s
    PROVE  /\ Rest(q, s) \in Slots
           /\ \E p \in 1..(Len(q) + 1) : Stays(q, s, Rest(q, s), p)
<1>1. /\ q \in Seq(Entries) /\ Len(q) \in Nat
      /\ \A j \in 1..Len(q) : q[j] \in Entries
      /\ MaxSessions \in Nat \ {0}
    BY WatchAssumption DEF Slots
<1>2. CASE Holds(q, s)
    <2>1. PICK p \in 1..Len(q) : p = SlotOf(q, s) /\ q[p].session = s
        <3>1. \E i \in DOMAIN q : q[i].session = s
            BY <1>2 DEF Holds
        <3>2. SlotOf(q, s) \in DOMAIN q /\ q[SlotOf(q, s)].session = s
            BY <3>1 DEF SlotOf
        <3> QED
            BY <3>2 DEF Slots
    <2>2. PICK a : a = SubSeq(q, 1, p - 1)
        OBVIOUS
    <2>3. PICK b : b = SubSeq(q, p + 1, Len(q))
        OBVIOUS
    <2>4. a \in Seq(Entries) /\ Len(a) = p - 1 /\ \A i \in 1..(p - 1) : a[i] = q[i]
        <3>1. \A i \in 1..(p - 1) : q[i] \in Entries
            BY <1>1
        <3> QED
            BY <1>1, <2>2, <3>1, SubSeqProperties
    <2>5. b \in Seq(Entries) /\ Len(b) = Len(q) - p /\ \A i \in 1..(Len(q) - p) : b[i] = q[p + i]
        <3>1. \A i \in (p + 1)..Len(q) : q[i] \in Entries
            BY <1>1
        <3>2. b \in Seq(Entries) /\ Len(b) = Len(q) - p
            BY <1>1, <2>3, <3>1, SubSeqProperties
        <3>3. \A i \in 1..(Len(q) - p) : b[i] = q[(p + 1) + i - 1]
            BY <1>1, <2>3, <3>1, SubSeqProperties
        <3>4. \A i \in 1..(Len(q) - p) : (p + 1) + i - 1 = p + i
            BY <1>1
        <3> QED
            BY <3>2, <3>3, <3>4
    <2>6. Rest(q, s) = a \o b
        BY <1>2, <2>1, <2>2, <2>3 DEF Rest, Without, RemoveAt
    <2>7. /\ a \o b \in Seq(Entries) /\ Len(a \o b) = Len(q) - 1
          /\ \A i \in 1..(Len(q) - 1) : (a \o b)[i] = IF i < p THEN a[i] ELSE b[i - (p - 1)]
        <3>1. /\ a \o b \in Seq(Entries) /\ Len(a \o b) = Len(a) + Len(b)
              /\ \A i \in 1..(Len(a) + Len(b)) :
                    (a \o b)[i] = IF i =< Len(a) THEN a[i] ELSE b[i - Len(a)]
            BY <2>4, <2>5, ConcatProperties
        <3>2. Len(a) + Len(b) = Len(q) - 1 /\ \A i \in Nat : i =< p - 1 <=> i < p
            BY <1>1, <2>4, <2>5
        <3> QED
            BY <2>4, <3>1, <3>2
    <2>8. \A i \in 1..(Len(q) - 1) : (a \o b)[i] = q[IF i < p THEN i ELSE i + 1]
        <3> SUFFICES ASSUME NEW i \in 1..(Len(q) - 1)
                     PROVE  (a \o b)[i] = q[IF i < p THEN i ELSE i + 1]
            OBVIOUS
        <3>1. CASE i < p
            <4>1. i \in 1..(p - 1)
                BY <1>1, <3>1
            <4> QED
                BY <2>4, <2>7, <3>1, <4>1
        <3>2. CASE ~(i < p)
            <4>1. i - (p - 1) \in 1..(Len(q) - p) /\ p + (i - (p - 1)) = i + 1
                BY <1>1, <3>2
            <4> QED
                BY <2>5, <2>7, <3>2, <4>1
        <3> QED
            BY <3>1, <3>2
    <2>9. \A j \in 1..Len(q) : j # p => q[j].session # s
        BY <2>1 DEF SlotsOnce
    <2>10. Stays(q, s, a \o b, p)
        BY <1>1, <2>1, <2>7, <2>8, <2>9 DEF Stays
    <2> QED
        BY <1>1, <2>6, <2>7, <2>10 DEF Slots
<1>3. CASE ~Holds(q, s)
    <2>1. \A j \in 1..Len(q) : q[j].session # s
        BY <1>3, HoldsAt
    <2>2. CASE Len(q) < MaxSessions
        <3>1. Rest(q, s) = q
            BY <1>1, <1>3, <2>2 DEF Rest, MakeRoom
        <3>2. Stays(q, s, q, Len(q) + 1)
            BY <1>1, <2>1, <2>2 DEF Stays
        <3> QED
            BY <1>1, <3>1, <3>2
    <2>3. CASE Len(q) = MaxSessions
        <3>1. PICK b : b = SubSeq(q, 2, Len(q))
            OBVIOUS
        <3>2. Rest(q, s) = b
            BY <1>1, <1>3, <2>3, <3>1 DEF Rest, MakeRoom
        <3>3. b \in Seq(Entries) /\ Len(b) = Len(q) - 1 /\ \A i \in 1..(Len(q) - 1) : b[i] = q[i + 1]
            <4>1. \A i \in 2..Len(q) : q[i] \in Entries
                BY <1>1
            <4>2. b \in Seq(Entries) /\ Len(b) = Len(q) - 1
                BY <1>1, <2>3, <3>1, <4>1, SubSeqProperties
            <4>3. \A i \in 1..(Len(q) - 1) : b[i] = q[2 + i - 1]
                BY <1>1, <2>3, <3>1, <4>1, SubSeqProperties
            <4> QED
                BY <1>1, <4>2, <4>3
        <3>4. Stays(q, s, b, 1)
            BY <1>1, <1>3, <2>1, <2>3, <3>3 DEF Stays
        <3> QED
            BY <1>1, <3>2, <3>3, <3>4 DEF Slots
    <2> QED
        BY <1>1, <2>2, <2>3
<1> QED
    BY <1>2, <1>3

LEMMA StruckShape ==
    ASSUME NEW q \in Slots, Len(q) =< MaxSessions, SlotsOnce(q), NEW s \in Sessions
    PROVE  \E rest \in Slots, p \in 1..(Len(q) + 1) :
              LET new == Struck(q, s)
              IN  /\ Stays(q, s, rest, p)
                  /\ new \in Slots /\ Len(new) = Len(rest) + 1 /\ Len(new) =< MaxSessions
                  /\ \A i \in 1..Len(rest) : new[i] = rest[i]
                  /\ new[Len(rest) + 1].session = s
<1>1. PICK rest \in Slots : rest = Rest(q, s) /\ \E p \in 1..(Len(q) + 1) : Stays(q, s, rest, p)
    BY RestShape
<1>2. PICK p \in 1..(Len(q) + 1) : Stays(q, s, rest, p)
    BY <1>1
<1>3. /\ q \in Seq(Entries) /\ Len(q) \in Nat
      /\ \A j \in 1..Len(q) : q[j] \in Entries
      /\ rest \in Seq(Entries) /\ ConfirmSteps \in Nat \ {0} /\ MaxSessions \in Nat \ {0}
    BY WatchAssumption DEF Slots
<1>4. StepsOf(q, s) \in 0..(ConfirmSteps - 1)
    <2>1. CASE Holds(q, s)
        <3>1. SlotOf(q, s) \in DOMAIN q
            BY <2>1 DEF Holds, SlotOf
        <3>2. q[SlotOf(q, s)] \in Entries
            BY <3>1 DEF Slots
        <3> QED
            BY <2>1, <3>2 DEF StepsOf, Entries
    <2>2. CASE ~Holds(q, s)
        BY <1>3, <2>2 DEF StepsOf
    <2> QED
        BY <2>1, <2>2
<1>5. PICK e \in Entries : e.session = s /\ Struck(q, s) = Append(rest, e)
    <2> DEFINE n == IF Confirms(q, s) THEN 0 ELSE StepsOf(q, s) + 1
    <2>1. n \in 0..(ConfirmSteps - 1)
        BY <1>3, <1>4 DEF Confirms
    <2>2. Struck(q, s) = Append(rest, [session |-> s, steps |-> n])
        BY <1>1 DEF Struck
    <2> QED
        BY <2>1, <2>2 DEF Entries
<1>6. PICK new : new = Struck(q, s)
    OBVIOUS
<1>7. /\ new \in Seq(Entries) /\ Len(new) = Len(rest) + 1 /\ new[Len(rest) + 1] = e
      /\ \A i \in 1..Len(rest) : new[i] = rest[i]
    BY <1>3, <1>5, <1>6, AppendProperties
<1>8. Len(new) =< MaxSessions
    BY <1>2, <1>3, <1>7 DEF Stays
<1>9. new \in Slots
    BY <1>7 DEF Slots
<1> QED
    BY <1>2, <1>5, <1>6, <1>7, <1>8, <1>9

\* A session with a slot was overtaken by those behind it; one without was never
\* struck, or was overtaken by as many as there are slots.
RecentInv ==
    /\ slots \in Slots /\ Len(slots) =< MaxSessions /\ SlotsOnce(slots)
    /\ since \in [Sessions -> SUBSET Sessions]
    /\ \A i \in 1..Len(slots) : since[slots[i].session] = Later(slots, i)
    /\ \A t \in Sessions :
          /\ IsFiniteSet(since[t])
          /\ Holds(slots, t) \/ t \in since[t] \/ Cardinality(since[t]) >= MaxSessions

LEMMA RecentInit == Init => RecentInv
<1> SUFFICES ASSUME Init PROVE RecentInv
    OBVIOUS
<1>1. slots = <<>> /\ <<>> \in Slots /\ Len(<<>>) = 0 /\ MaxSessions \in Nat
    BY WatchAssumption DEF Init, Slots
<1>2. \A t \in Sessions : since[t] = {t} /\ IsFiniteSet({t})
    BY FS_Singleton DEF Init
<1>3. since \in [Sessions -> SUBSET Sessions]
    BY DEF Init
<1> QED
    <2>1. 1..Len(slots) = {}
        BY <1>1
    <2>2. SlotsOnce(slots) /\ Len(slots) =< MaxSessions
        BY <1>1, <2>1 DEF SlotsOnce
    <2>3. \A i \in 1..Len(slots) : since[slots[i].session] = Later(slots, i)
        BY <2>1
    <2> QED
        BY <1>1, <1>2, <1>3, <2>2, <2>3 DEF RecentInv

\* Striking s keeps the order of the others.
LEMMA StrikeKeeps ==
    ASSUME RecentInv, NEW s \in Sessions, slots' = Struck(slots, s),
           since' = [t \in Sessions |-> IF t = s THEN {} ELSE since[t] \cup
                                            (IF t \in since[t] THEN {} ELSE {s})]
    PROVE  RecentInv'
<1>1. /\ slots \in Slots /\ Len(slots) =< MaxSessions /\ SlotsOnce(slots) /\ Len(slots) \in Nat
      /\ MaxSessions \in Nat \ {0}
      /\ \A j \in 1..Len(slots) : slots[j].session \in Sessions
    <2>1. slots \in Seq(Entries) /\ Len(slots) =< MaxSessions /\ SlotsOnce(slots)
        BY DEF RecentInv, Slots
    <2>2. \A j \in 1..Len(slots) : slots[j] \in Entries
        BY <2>1
    <2> QED
        BY <2>1, <2>2, WatchAssumption DEF Entries, Slots
<1>2. PICK rest \in Slots, p \in 1..(Len(slots) + 1) :
          /\ Stays(slots, s, rest, p)
          /\ slots' \in Slots /\ Len(slots') = Len(rest) + 1 /\ Len(slots') =< MaxSessions
          /\ \A i \in 1..Len(rest) : slots'[i] = rest[i]
          /\ slots'[Len(rest) + 1].session = s
    BY <1>1, StruckShape
<1> DEFINE n == Len(rest)
           from(i) == IF i < p THEN i ELSE i + 1
<1>3. /\ n \in Nat /\ n = IF p =< Len(slots) THEN Len(slots) - 1 ELSE Len(slots)
      /\ Len(slots') = n + 1 /\ slots'[n + 1].session = s
      /\ \A j \in 1..Len(slots) : j # p => slots[j].session # s
    BY <1>1, <1>2 DEF Stays, Slots
<1>4. \A i \in 1..n : from(i) \in 1..Len(slots) /\ from(i) # p /\ slots'[i] = slots[from(i)]
    BY <1>1, <1>2, <1>3 DEF Stays
<1>5. \A j \in 1..Len(slots) : j # p =>
          /\ j < p => j \in 1..n /\ from(j) = j
          /\ j > p => j - 1 \in 1..n /\ from(j - 1) = j
    BY <1>1, <1>3
<1>6. \A i, j \in 1..n : from(i) = from(j) => i = j
    OBVIOUS
<1>7. SlotsOnce(slots)'
    BY <1>1, <1>3, <1>4, <1>6 DEF SlotsOnce
<1>8. since' \in [Sessions -> SUBSET Sessions]
    BY DEF RecentInv
<1>9. ASSUME NEW i \in 1..(n + 1) PROVE since'[slots'[i].session] = Later(slots', i)
    <2>1. CASE i = n + 1
        BY <1>3, <2>1 DEF Later
    <2>2. CASE i \in 1..n
        <3> DEFINE t == slots[from(i)].session
        <3>1. /\ t \in Sessions /\ t # s /\ slots'[i].session = t
              /\ since[t] = Later(slots, from(i))
            BY <1>1, <1>3, <1>4, <2>2 DEF RecentInv
        <3>2. t \notin since[t]
            <4>1. PICK m : m = from(i)
                OBVIOUS
            <4>2. m \in 1..Len(slots) /\ t = slots[m].session
                BY <1>4, <2>2, <4>1
            <4>3. \A j \in (m + 1)..Len(slots) : j \in 1..Len(slots) /\ j # m
                BY <1>1, <4>2
            <4>4. t \notin Later(slots, m)
                BY <1>1, <4>2, <4>3 DEF Later, SlotsOnce
            <4> QED
                BY <3>1, <4>1, <4>4
        <3>3. since'[t] = since[t] \cup {s}
            BY <3>1, <3>2
        <3>4. ASSUME NEW x \in Later(slots, from(i)) PROVE x \in Later(slots', i)
            <4>1. PICK j \in (from(i) + 1)..Len(slots) : x = slots[j].session
                BY DEF Later
            <4>2. CASE j = p
                <5>1. x = s
                    BY <1>1, <1>2, <2>2, <4>1, <4>2 DEF Stays
                <5> QED
                    BY <1>3, <2>2, <5>1 DEF Later
            <4>3. CASE j < p
                <5>1. j \in (i + 1)..(n + 1) /\ slots'[j].session = x
                    BY <1>1, <1>3, <1>4, <1>5, <2>2, <4>1, <4>3
                <5> QED
                    BY <1>3, <5>1 DEF Later
            <4>4. CASE j > p
                <5>1. j - 1 \in (i + 1)..(n + 1) /\ slots'[j - 1].session = x
                    BY <1>1, <1>3, <1>4, <1>5, <2>2, <4>1, <4>4
                <5> QED
                    BY <1>3, <5>1 DEF Later
            <4> QED
                BY <1>1, <4>1, <4>2, <4>3, <4>4
        <3>5. s \in Later(slots', i)
            BY <1>3, <2>2 DEF Later
        <3>6. ASSUME NEW x \in Later(slots', i) PROVE x = s \/ x \in Later(slots, from(i))
            <4>1. PICK j \in (i + 1)..(n + 1) : x = slots'[j].session
                BY <1>3 DEF Later
            <4>2. CASE j = n + 1
                BY <1>3, <4>1, <4>2
            <4>3. CASE j \in 1..n
                <5>1. from(j) \in (from(i) + 1)..Len(slots)
                    BY <1>1, <1>4, <2>2, <4>1, <4>3
                <5> QED
                    BY <1>4, <4>1, <4>3, <5>1 DEF Later
            <4> QED
                BY <1>3, <2>2, <4>1, <4>2, <4>3
        <3> QED
            BY <3>1, <3>3, <3>4, <3>5, <3>6
    <2> QED
        BY <1>3, <2>1, <2>2
<1>10. ASSUME NEW t \in Sessions
       PROVE  /\ IsFiniteSet(since'[t])
              /\ Holds(slots', t) \/ t \in since'[t] \/ Cardinality(since'[t]) >= MaxSessions
    <2>1. CASE t = s
        <3>1. since'[t] = {}
            BY <2>1
        <3>3. Holds(slots', t)
            BY <1>2, <1>3, <2>1, HoldsAt
        <3> QED
            BY <3>1, <3>3, FS_EmptySet
    <2>2. CASE t # s
        <3>1. /\ IsFiniteSet(since[t])
              /\ Holds(slots, t) \/ t \in since[t] \/ Cardinality(since[t]) >= MaxSessions
            BY DEF RecentInv
        <3>2. since'[t] = since[t] \/ (t \notin since[t] /\ since'[t] = since[t] \cup {s})
            BY <2>2
        <3>3. /\ IsFiniteSet(since'[t]) /\ Cardinality(since[t]) \in Nat
              /\ Cardinality(since'[t]) \in Nat
              /\ Cardinality(since'[t]) >= Cardinality(since[t])
            <4>1. /\ IsFiniteSet(since[t] \cup {s})
                  /\ Cardinality(since[t] \cup {s}) \in {Cardinality(since[t]), Cardinality(since[t]) + 1}
                BY <3>1, FS_AddElement
            <4>2. Cardinality(since[t]) \in Nat
                BY <3>1, FS_CardinalityType
            <4>3. PICK c \in Nat : c = Cardinality(since[t])
                BY <4>2
            <4>4. Cardinality(since'[t]) \in {c, c + 1}
                BY <3>2, <4>1, <4>3
            <4>5. IsFiniteSet(since'[t])
                BY <3>1, <3>2, <4>1
            <4>6. PICK d : d = Cardinality(since'[t])
                OBVIOUS
            <4>7. d \in Nat /\ d >= c
                BY <4>3, <4>4, <4>6
            <4> QED
                BY <4>3, <4>5, <4>6, <4>7
        <3>4. CASE t \in since[t] \/ Cardinality(since[t]) >= MaxSessions
            BY <1>1, <3>2, <3>3, <3>4
        <3>5. CASE Holds(slots, t)
            <4>1. PICK j \in 1..Len(slots) : slots[j].session = t
                BY <1>1, <3>5, HoldsAt
            <4>2. CASE j = p
                <5>1. p = 1 /\ Len(slots) = MaxSessions /\ ~Holds(slots, s)
                    BY <1>1, <1>2, <2>2, <4>1, <4>2 DEF Stays
                <5>2. since[t] = Later(slots, 1)
                    BY <4>1, <4>2, <5>1 DEF RecentInv
                <5>3. Cardinality(since[t]) = MaxSessions - 1
                    BY <1>1, <5>1, <5>2, LaterCounts
                <5>4. s \notin since[t] /\ t \notin since[t]
                    <6>1. s \notin since[t]
                        BY <1>1, <5>1, <5>2, HoldsAt DEF Later
                    <6>2. t \notin since[t]
                        BY <1>1, <4>1, <4>2, <5>1, <5>2 DEF Later, SlotsOnce
                    <6> QED
                        BY <6>1, <6>2
                <5>5. since'[t] = since[t] \cup {s}
                    BY <2>2, <5>4
                <5>6. Cardinality(since'[t]) = MaxSessions
                    <6>1. Cardinality(since[t] \cup {s}) = Cardinality(since[t]) + 1
                        BY <3>1, <5>4, FS_AddElement
                    <6>2. (MaxSessions - 1) + 1 = MaxSessions
                        BY <1>1
                    <6> QED
                        BY <5>3, <5>5, <6>1, <6>2
                <5> QED
                    BY <1>1, <3>3, <5>6
            <4>3. CASE j # p
                <5>1. \E i \in 1..n : from(i) = j
                    BY <1>1, <1>5, <4>1, <4>3
                <5>2. Holds(slots', t)
                    <6>1. PICK i \in 1..n : slots'[i].session = t
                        BY <1>4, <4>1, <5>1
                    <6>2. i \in 1..Len(slots')
                        BY <1>3
                    <6> QED
                        BY <1>2, <6>1, <6>2, HoldsAt
                <5> QED
                    BY <3>3, <5>2
            <4> QED
                BY <4>2, <4>3
        <3> QED
            BY <3>1, <3>4, <3>5
    <2> QED
        BY <2>1, <2>2
<1> HIDE DEF n, from
<1> QED
    BY <1>2, <1>3, <1>7, <1>8, <1>9, <1>10 DEF RecentInv

-----------------------------------------------------------------------------
(* The types of the side channels.                                         *)

LEMMA DriftedType ==
    ASSUME NEW st \in DriftStates, NEW v \in Samples
    PROVE  Drifted(st, v) \in DriftStates
<1>1. /\ st.ema \in Averages /\ st.samples \in 0..MinSamples
      /\ st.breaches \in 0..(BreachLimit - 1)
      /\ st = [ema |-> st.ema, samples |-> st.samples, breaches |-> st.breaches]
    BY DEF DriftStates
<1>2. /\ v \in Averages /\ v \in Nat /\ MinSamples \in Nat \ {0} /\ BreachLimit \in Nat \ {0}
      /\ Blend[st.ema][v] \in Averages
    BY <1>1, WatchAssumption, ProxyAssumption
<1>3. CASE v > 0 /\ Outlier(st, v)
    <2> DEFINE n == IF Alerts(st, v) THEN 0 ELSE st.breaches + 1
    <2>1. Drifted(st, v) = [st EXCEPT !.breaches = n]
        BY <1>2, <1>3 DEF Drifted
    <2>2. n \in 0..(BreachLimit - 1)
        BY <1>1, <1>2, <1>3 DEF Alerts
    <2> HIDE DEF n
    <2> QED
        BY <1>1, <2>1, <2>2 DEF DriftStates
<1>4. CASE v > 0 /\ ~Outlier(st, v)
    <2>1. Drifted(st, v) = Learn(st, v)
        BY <1>2, <1>4 DEF Drifted
    <2>2. UpTo(MinSamples, st.samples + 1) \in 0..MinSamples /\ 0 \in 0..(BreachLimit - 1)
        BY <1>1, <1>2 DEF UpTo
    <2>3. (IF st.samples = 0 THEN v ELSE Blend[st.ema][v]) \in Averages
        BY <1>2
    <2> QED
        BY <2>1, <2>2, <2>3 DEF Learn, DriftStates
<1>5. CASE v = 0
    BY <1>2, <1>5 DEF Drifted
<1> QED
    BY <1>2, <1>3, <1>4, <1>5

LEMMA RateType ==
    ASSUME NEW st \in RateStates, NEW hit \in BOOLEAN
    PROVE  RateAfter(st, hit) \in RateStates
<1>1. /\ st.ema \in HitRates /\ st.samples \in 0..RateSamples /\ RateSamples \in Nat \ {0}
      /\ RateUp[st.ema] \in HitRates /\ RateDown[st.ema] \in HitRates /\ 0 \in HitRates
    BY WatchAssumption DEF RateStates
<1>2. UpTo(RateSamples, st.samples + 1) \in 0..RateSamples /\ 0 \in 0..RateSamples
    BY <1>1 DEF UpTo
<1>3. (IF hit THEN RateUp[st.ema] ELSE RateDown[st.ema]) \in HitRates
    BY <1>1
<1>4. Rated(st, hit) \in RateStates /\ NoRate \in RateStates
    BY <1>1, <1>2, <1>3 DEF Rated, NoRate, RateStates
<1> QED
    BY <1>4 DEF RateAfter

SideTypes ==
    /\ owed \in [Keys -> BOOLEAN]
    /\ serious \in [Requests -> BOOLEAN] /\ cut \in [Requests -> BOOLEAN]
    /\ session \in [Requests -> Sessions \cup {"none"}]
    /\ drift \in [DriftSet -> [Keys -> DriftStates]]
    /\ rate \in [Keys -> RateStates]

SideInv == HandlerInv /\ SideTypes /\ RecentInv

LEMMA SideInit == Init => SideInv
<1> SUFFICES ASSUME Init PROVE SideInv
    OBVIOUS
<1>1. NoDrift \in DriftStates /\ NoRate \in RateStates
    BY WatchAssumption DEF NoDrift, NoRate, DriftStates, RateStates
<1>2. SideTypes
    BY <1>1 DEF Init, Gate!Init, SideTypes
<1> QED
    BY <1>2, HandlerInit, RecentInit DEF SideInv

LEMMA RecentStays ==
    ASSUME RecentInv, UNCHANGED <<slots, since>>
    PROVE  RecentInv'
BY DEF RecentInv

LEMMA OwedType ==
    ASSUME HandlerInv, SideTypes, NEW r \in Requests, Accuse(r) \/ Pass
    PROVE  owed' \in [Keys -> BOOLEAN]
<1>1. CASE Accuse(r)
    <2>1. crossed' \in [Requests -> BOOLEAN] /\ key[r] \in Keys
        BY <1>1, AccuseTypes DEF HandlerInv, TypeInv
    <2>2. owed' = [owed EXCEPT ![key[r]] = @ \/ crossed'[r]]
        BY <1>1 DEF Accuse
    <2> QED
        BY <2>1, <2>2 DEF SideTypes
<1>2. CASE Pass
    BY <1>2 DEF Pass, gate, SideTypes
<1> QED
    BY <1>1, <1>2

\* A handler that leaves its audit.
LEMMA LeaveTypes ==
    ASSUME SideTypes, NEW r \in Requests, Leave(r), UNCHANGED <<drift, rate>>,
           owed' \in [Keys -> BOOLEAN]
    PROVE  SideTypes'
BY DEF SideTypes, Leave

LEMMA SideStep ==
    ASSUME SideInv, [Next]_vars
    PROVE  SideInv'
<1> SUFFICES SideTypes' /\ RecentInv'
    BY HandlerStep DEF SideInv
<1>0. HandlerInv /\ TypeInv /\ SideTypes /\ RecentInv
    BY DEF SideInv, HandlerInv
<1> USE DEF gate, locals, watches, history
<1>1. ASSUME NEW r \in Requests, NEW k \in Keys, Admit(r, k) PROVE SideTypes' /\ RecentInv'
    BY <1>0, <1>1, RecentStays DEF Admit, SideTypes
<1>2. ASSUME NEW r \in Requests, Unanswered(r) PROVE SideTypes' /\ RecentInv'
    <2>1. owed' \in [Keys -> BOOLEAN] /\ UNCHANGED <<drift, rate, slots, since>>
        BY <1>0, <1>2 DEF Unanswered, SideTypes
    <2> QED
        BY <1>0, <1>2, <2>1, RecentStays, LeaveTypes DEF Unanswered
<1>3. ASSUME NEW r \in Requests, Answered(r) \/ EndStream(r) PROVE SideTypes' /\ RecentInv'
    <2>1. PICK short \in BOOLEAN : BeginAudit(r, short)
        BY <1>3 DEF Answered, EndStream
    <2> QED
        BY <1>0, <2>1, RecentStays DEF BeginAudit, SideTypes
<1>4. ASSUME NEW r \in Requests, StartStream(r) PROVE SideTypes' /\ RecentInv'
    BY <1>0, <1>4, RecentStays DEF StartStream, SideTypes
<1>5. ASSUME NEW r \in Requests, ApplyRules(r) PROVE SideTypes' /\ RecentInv'
    <2>1. owed' \in [Keys -> BOOLEAN]
        BY <1>0, <1>5, OwedType DEF ApplyRules
    <2>2. /\ serious' \in [Requests -> BOOLEAN]
          /\ UNCHANGED <<session, cut, drift, rate, slots, since>>
        BY <1>0, <1>5 DEF ApplyRules, GoOn, SideTypes
    <2> QED
        BY <1>0, <2>1, <2>2, RecentStays DEF SideTypes
<1>6. ASSUME NEW r \in Requests, WatchRate(r) PROVE SideTypes' /\ RecentInv'
    <2>1. owed' \in [Keys -> BOOLEAN]
        BY <1>0, <1>6, OwedType DEF WatchRate
    <2>2. /\ serious' \in [Requests -> BOOLEAN]
          /\ UNCHANGED <<session, cut, drift, slots, since>>
        BY <1>0, <1>6 DEF WatchRate, GoOn, SideTypes
    <2>3. rate[key[r]] \in RateStates /\ serious[r] \in BOOLEAN
        BY <1>0 DEF SideTypes, TypeInv
    <2>4. RateAfter(rate[key[r]], serious[r]) \in RateStates
        BY <2>3, RateType
    <2>5. rate' = [rate EXCEPT ![key[r]] = RateAfter(rate[key[r]], serious[r])]
        BY <1>6 DEF WatchRate
    <2>6. rate' \in [Keys -> RateStates]
        BY <1>0, <2>4, <2>5 DEF SideTypes
    <2> QED
        BY <1>0, <2>1, <2>2, <2>6, RecentStays DEF SideTypes
<1>7. ASSUME NEW r \in Requests, NEW d \in DriftSet, WatchDrift(r, d)
      PROVE  SideTypes' /\ RecentInv'
    <2>1. owed' \in [Keys -> BOOLEAN]
        BY <1>0, <1>7, OwedType DEF WatchDrift
    <2>2. UNCHANGED <<serious, session, cut, rate, slots, since>>
        BY <1>7 DEF WatchDrift, GoOn
    <2>3. PICK v \in Samples : drift' = [drift EXCEPT ![d][key[r]] = Drifted(drift[d][key[r]], v)]
        BY <1>7 DEF WatchDrift
    <2>4. drift[d] \in [Keys -> DriftStates] /\ key[r] \in Keys
        BY <1>0 DEF SideTypes, TypeInv
    <2>5. Drifted(drift[d][key[r]], v) \in DriftStates
        BY <2>4, DriftedType
    <2>6. drift' \in [DriftSet -> [Keys -> DriftStates]]
        BY <1>0, <2>3, <2>4, <2>5 DEF SideTypes
    <2> QED
        BY <1>0, <2>1, <2>2, <2>6, RecentStays DEF SideTypes
<1>8. ASSUME NEW r \in Requests, Record(r) PROVE SideTypes' /\ RecentInv'
    <2>1. CASE Finish(r)
        <3>1. owed' \in [Keys -> BOOLEAN] /\ UNCHANGED <<drift, rate, slots, since>>
            BY <1>0, <2>1 DEF Finish, SideTypes
        <3> QED
            BY <1>0, <2>1, <3>1, RecentStays, LeaveTypes DEF Finish
    <2>2. CASE \E s \in Sessions : /\ GoOn(r, TRUE) /\ Pass
                                   /\ session' = [session EXCEPT ![r] = s]
                                   /\ UNCHANGED <<serious, watches, lately, since>>
        BY <1>0, <2>2, RecentStays DEF GoOn, Pass, SideTypes
    <2> QED
        BY <1>8, <2>1, <2>2 DEF Record
<1>9. ASSUME NEW r \in Requests, ObserveSlop(r) PROVE SideTypes' /\ RecentInv'
    <2>1. owed' \in [Keys -> BOOLEAN]
        BY <1>0, <1>9, OwedType DEF ObserveSlop
    <2>2. UNCHANGED <<serious, cut, drift, rate>> /\ session' = [session EXCEPT ![r] = "none"]
        BY <1>9 DEF ObserveSlop
    <2>3. session[r] \in Sessions
        BY <1>0, <1>9 DEF ObserveSlop, SideTypes
    <2>4. RecentInv'
        BY <1>0, <1>9, <2>3, StrikeKeeps DEF ObserveSlop
    <2> QED
        BY <1>0, <2>1, <2>2, <2>4 DEF SideTypes
<1>10. ASSUME NEW r \in Requests, EndAudit(r) PROVE SideTypes' /\ RecentInv'
    <2>1. owed' \in [Keys -> BOOLEAN] /\ UNCHANGED <<drift, rate, slots, since>>
        BY <1>0, <1>10 DEF EndAudit, Finish, SideTypes
    <2> QED
        BY <1>0, <1>10, <2>1, RecentStays, LeaveTypes DEF EndAudit, Finish
<1>11. ASSUME NEW r \in Requests, Trip(r) PROVE SideTypes' /\ RecentInv'
    <2>1. Due(key[r], Requests \ {r}) \in BOOLEAN
        BY DEF Due
    <2>2. owed' \in [Keys -> BOOLEAN]
        BY <1>0, <1>11, <2>1 DEF Trip, SideTypes
    <2> QED
        BY <1>0, <1>11, <2>2, RecentStays DEF Trip, SideTypes
<1>12. ASSUME NEW r \in Requests, Lost(r) PROVE SideTypes' /\ RecentInv'
    <2>1. Due(key[r], Requests \ {r}) \in BOOLEAN
        BY DEF Due
    <2>2. owed' \in [Keys -> BOOLEAN]
        BY <1>0, <1>12, <2>1 DEF Lost, SideTypes
    <2> QED
        BY <1>0, <1>12, <2>2, RecentStays, LeaveTypes DEF Lost
<1>13. ASSUME NEW k \in Keys, ResetBreaker(k) \/ Forgive(k) PROVE SideTypes' /\ RecentInv'
    <2>1. owed' \in [Keys -> BOOLEAN]
        BY <1>0, <1>13 DEF ResetBreaker, Forgive, Gate!Reset, Gate!Relieve, SideTypes
    <2> QED
        BY <1>0, <1>13, <2>1, RecentStays DEF ResetBreaker, Forgive, SideTypes
<1>14. CASE UNCHANGED vars
    BY <1>0, <1>14, RecentStays DEF vars, SideTypes
<1> QED
    BY <1>1, <1>2, <1>3, <1>4, <1>5, <1>6, <1>7, <1>8, <1>9, <1>10, <1>11, <1>12, <1>13, <1>14
    DEF Next, Audit

LEMMA SideIsSound == Spec => []SideInv
<1>1. SideInv /\ [Next]_vars => SideInv'
    BY SideStep
<1> QED
    BY <1>1, SideInit, PTL DEF Spec

\* The side channels stay bounded and well formed, however many models and sessions
\* there are and however their audits interleave (watch.py, slop.py).
THEOREM SideChannelsAreBounded == Spec => []TypeOK
<1>1. SideInv => TypeOK
    BY DEF SideInv, HandlerInv, TypeInv, SideTypes, RecentInv, TypeOK
<1> QED
    BY <1>1, SideIsSound, PTL

\* The slop ledger remembers a session exactly while fewer than MaxSessions others
\* were struck after it: for any number of sessions, and any order of their strikes
\* (SlopLedger.observe, which moves a session to the end and evicts the first).
THEOREM RecentSessionsAreKept == Spec => []SlotsAreRecent
<1>1. SideInv => SlotsAreRecent
    <2> SUFFICES ASSUME RecentInv, NEW t \in Sessions
                 PROVE  Holds(slots, t) <=> t \notin since[t] /\ Cardinality(since[t]) < MaxSessions
        BY DEF SideInv, SlotsAreRecent
    <2>1. slots \in Slots /\ Len(slots) =< MaxSessions /\ SlotsOnce(slots) /\ Len(slots) \in Nat
        BY DEF RecentInv, Slots
    <2>2. IsFiniteSet(since[t]) /\ Cardinality(since[t]) \in Nat /\ MaxSessions \in Nat
        BY WatchAssumption, FS_CardinalityType DEF RecentInv
    <2>3. CASE Holds(slots, t)
        <3>1. PICK i \in 1..Len(slots) : slots[i].session = t
            BY <2>1, <2>3, HoldsAt
        <3>2. since[t] = Later(slots, i)
            BY <3>1 DEF RecentInv
        <3>3. Cardinality(since[t]) = Len(slots) - i
            BY <2>1, <3>1, <3>2, LaterCounts
        <3>4. \A j \in (i + 1)..Len(slots) : j \in 1..Len(slots) /\ j # i
            BY <2>1, <3>1
        <3>5. t \notin since[t]
            BY <2>1, <3>1, <3>2, <3>4 DEF Later, SlotsOnce
        <3> QED
            BY <2>1, <2>2, <2>3, <3>1, <3>3, <3>5
    <2>4. CASE ~Holds(slots, t)
        BY <2>2, <2>4 DEF RecentInv
    <2> QED
        BY <2>3, <2>4
<1> QED
    BY <1>1, SideIsSound, PTL
=============================================================================
