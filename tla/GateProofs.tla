----------------------------- MODULE GateProofs -----------------------------
(* The ledger implements the abstract gate of module Gate: every step of the  *)
(* one is a step of the other or leaves it as it is, for every number of      *)
(* handlers, keys and dashboards, every decay curve and every threshold.      *)
EXTENDS LedgerProofs

\* What the proof adds to SilentInv: a handler that announces an alert crossed
\* the line, so that the trip that follows is one it owes.
GateInv ==
    /\ SilentInv
    /\ \A t \in Tasks : pc[t] = "alert" => job[t].climbed = "DEGRADED"

LEMMA GateInvInit == Init => GateInv
BY InitSilent DEF Init, GateInv

LEMMA GateInvNext ==
    ASSUME NoLoss
    PROVE  GateInv /\ [Next]_vars => GateInv'
<1> SUFFICES ASSUME GateInv, [Next]_vars PROVE GateInv'
    OBVIOUS
<1>1. SilentInv'
    BY NextSilent DEF GateInv
<1>2. /\ pc \in [Tasks -> Publishing \cup {"idle", "dead"}]
      /\ job \in [Tasks -> Jobs \cup {NoJob}]
      /\ \A t \in Tasks : Busy(t) => job[t] \in Jobs
      /\ \A t \in Tasks : pc[t] = "alert" => job[t].climbed = "DEGRADED"
    BY DEF GateInv, SilentInv, TypeOK, HandlersOK
<1>3. CASE UNCHANGED <<pc, job>>
    BY <1>1, <1>2, <1>3 DEF GateInv
<1>4. ASSUME NEW t \in Tasks, \A u \in Tasks \ {t} : pc'[u] = pc[u] /\ job'[u] = job[u],
             pc'[t] = "alert" => job'[t].climbed = "DEGRADED"
      PROVE  GateInv'
    BY <1>1, <1>2, <1>4 DEF GateInv
<1>5. ASSUME NEW t \in Tasks, NEW k \in Keys, NEW p \in Pockets, NEW gained, NEW float,
             NEW trip, AddSuspicion(t, k, p, gained, float, trip)
      PROVE  GateInv'
  <2>1. /\ \A u \in Tasks \ {t} : pc'[u] = pc[u] /\ job'[u] = job[u]
        /\ pc'[t] \in {"idle", "dead", "suspicion"}
    BY <1>2, <1>5 DEF AddSuspicion, Dies, Ended
  <2> QED
    BY <1>4, <2>1
<1>6. ASSUME NEW t \in Tasks, TaskStep(t)
      PROVE  GateInv'
  <2>1. Busy(t) /\ job[t] \in Jobs
    BY <1>2, <1>6 DEF TaskStep, AnnounceLevel, AnnounceAlert, Trip, Settle, Abort, Published
  <2>2. \A u \in Tasks \ {t} : pc'[u] = pc[u] /\ job'[u] = job[u]
    BY <1>2, <1>6 DEF TaskStep, AnnounceLevel, AnnounceAlert, Trip, Settle, Abort, GoOn, Dies
  <2>3. pc'[t] = "alert" => AnnounceAlert(t)
    BY <1>2, <1>6 DEF TaskStep, AnnounceLevel, AnnounceAlert, Trip, Settle, Abort, GoOn, Dies,
                      Ended
  <2>4. AnnounceAlert(t) => job'[t].climbed = "DEGRADED"
    BY <1>2, <2>1 DEF AnnounceAlert, GoOn, Jobs
  <2> QED
    BY <1>4, <2>2, <2>3, <2>4
<1>7. CASE Crash \/ Shutdown
    BY <1>1, <1>7, <1>2 DEF Crash, Shutdown, Start, GateInv
<1>8. Requests \subseteq Tasks /\ Loop \in Tasks /\ {"quality", "identity"} \subseteq Pockets
    BY DEF Tasks, Pockets
<1> QED
    BY <1>3, <1>5, <1>6, <1>7, <1>8
       DEF Next, QualityHit, IdentityHit, TestFailure, TestPass, ClearLedger, IdentityCleared,
           BreakerReset, Connect, Disconnect, Tick, DebounceElapses, vars

-----------------------------------------------------------------------------
(* Which step of the gate a step of the ledger is.                          *)

\* A handler that carries something of the trip of j.
Carries(t, j) == /\ Busy(t) /\ job[t].key = j
                 /\ job[t].trip \/ (pc[t] # "breaker" /\ job[t].climbed = "DEGRADED")

LEMMA OwesIsCarried ==
    ASSUME NEW j \in Keys
    PROVE  Owes(j) <=> \E t \in Tasks : Carries(t, j)
BY DEF Owes, PendingTrip, Carries, Busy

LEMMA OwesIsCarriedNext ==
    ASSUME NEW j \in Keys
    PROVE  Owes(j)' <=> \E t \in Tasks : Carries(t, j)'
BY DEF Owes, PendingTrip, Carries, Busy

LEMMA AccuseStep ==
    ASSUME NEW k \in Keys, breaker' = breaker,
           \A j \in Keys \ {k} : Degraded(Total(j))' = Degraded(Total(j))
                                 /\ Owes(j)' = Owes(j),
           Degraded(Total(k))' /\ ~Degraded(Total(k)) => Owes(k)',
           Owes(k) => Owes(k)',
           Owes(k)' => Owes(k) \/ Degraded(Total(k))'
    PROVE  Promise!Next
<1>1. Promise!Accuse(k)
  <2>1. Degraded(Total(k))' \in BOOLEAN /\ Owes(k)' \in BOOLEAN
    BY DEF Degraded, Owes, PendingTrip, Busy
  <2> QED
    BY <2>1 DEF Promise!Accuse
<1> QED
    BY <1>1 DEF Promise!Next

LEMMA OpenStep ==
    ASSUME NEW k \in Keys, Owes(k), breaker' = [breaker EXCEPT ![k] = TRUE],
           \A j \in Keys : Degraded(Total(j))' = Degraded(Total(j)),
           \A j \in Keys \ {k} : Owes(j)' = Owes(j)
    PROVE  Promise!Next
<1>1. Promise!Open(k)
  <2>1. Owes(k)' \in BOOLEAN
    BY DEF Owes, PendingTrip, Busy
  <2> QED
    BY <2>1 DEF Promise!Open
<1> QED
    BY <1>1 DEF Promise!Next

LEMMA RelieveStep ==
    ASSUME breaker' = breaker, \A j \in Keys : Owes(j)' = Owes(j),
           \A j \in Keys : Degraded(Total(j))' => Degraded(Total(j))
    PROVE  Promise!Next
<1> DEFINE K == {j \in Keys : ~Degraded(Total(j))'}
<1>1. \A j \in Keys : Degraded(Total(j))' = (Degraded(Total(j)) /\ j \notin K)
    BY DEF Degraded
<1>2. Promise!Relieve(K)
    BY <1>1 DEF Promise!Relieve
<1> QED
    BY <1>2 DEF Promise!Next

LEMMA ResetStep ==
    ASSUME NEW k \in Keys, breaker' = [breaker EXCEPT ![k] = FALSE],
           \A j \in Keys : Owes(j)' = Owes(j),
           Degraded(Total(k))' = FALSE,
           \A j \in Keys \ {k} : Degraded(Total(j))' = Degraded(Total(j))
    PROVE  Promise!Next
<1>1. Promise!Reset(k)
    BY DEF Promise!Reset
<1> QED
    BY <1>1 DEF Promise!Next

LEMMA StutterStep ==
    ASSUME breaker' = breaker, \A j \in Keys : Owes(j)' = Owes(j),
           \A j \in Keys : Degraded(Total(j))' = Degraded(Total(j))
    PROVE  UNCHANGED Promise!gate
BY DEF Promise!gate

\* Evidence is an accusation: the one who takes a total over the line carries its
\* trip, and a handler that a test report told to trip has taken it there.
LEMMA EvidenceIsAccusation ==
    ASSUME NoLoss, GateInv, NEW t \in Tasks, NEW k \in Keys, NEW p \in Pockets,
           NEW gained \in Int, NEW float \in BOOLEAN, NEW trip \in BOOLEAN,
           AddSuspicion(t, k, p, gained, float, trip),
           trip => p = "quality" /\ gained >= BreakThreshold - Total(k)
    PROVE  Promise!Next
<1> DEFINE component == Larger(Effective(k, p) + gained, 0)
           total     == component + Effective(k, Other(p))
<1>1. /\ pc[t] = "idle"
      /\ pc' = [pc EXCEPT ![t] = "suspicion"]
      /\ job' = [job EXCEPT ![t] =
                    [key |-> k, climbed |-> Climb(Total(k), total),
                     trip |-> trip, subs |-> subs]]
      /\ UNCHANGED <<breaker, subs, now>>
      /\ Write(k, p, component)
      /\ component =< MaxScore
    BY DEF AddSuspicion, NoLoss
<1>2. /\ TypeOK
      /\ pc \in [Tasks -> Publishing \cup {"idle", "dead"}]
      /\ job \in [Tasks -> Jobs \cup {NoJob}]
    BY DEF GateInv, SilentInv, TypeOK, HandlersOK
<1>3. component \in Scores
  <2>1. Effective(k, p) \in Int
    BY <1>2, EffectiveRange DEF Scores
  <2>2. component \in Nat
    BY <2>1 DEF Larger
  <2> HIDE DEF component
  <2> QED
    BY <1>1, <2>2, ThresholdAssumption DEF Scores
<1>4. Total(k)' = total /\ \A j \in Keys \ {k} : Total(j)' = Total(j)
  <2> HIDE DEF component
  <2> QED
    BY <1>1, <1>2, <1>3, EffectiveWritten
<1>5. /\ pc'[t] = "suspicion" /\ job'[t].key = k /\ job'[t].trip = trip
      /\ job'[t].climbed = Climb(Total(k), total)
      /\ \A u \in Tasks \ {t} : pc'[u] = pc[u] /\ job'[u] = job[u]
  <2> HIDE DEF total
  <2> QED
    BY <1>1, <1>2
<1>6. \A j \in Keys : ~Carries(t, j)
    BY <1>1 DEF Carries, Busy, Publishing
<1>7. \A u \in Tasks \ {t}, j \in Keys : Carries(u, j)' <=> Carries(u, j)
    BY <1>5 DEF Carries, Busy
<1>8. \A j \in Keys : Carries(t, j)' <=>
          j = k /\ (trip \/ Climb(Total(k), total) = "DEGRADED")
  <2> HIDE DEF total
  <2> QED
    BY <1>5 DEF Carries, Busy, Publishing
<1>9. Climb(Total(k), total) = "DEGRADED" <=> Degraded(total) /\ ~Degraded(Total(k))
  <2> HIDE DEF total
  <2> QED
    BY DEF Climb
<1>10. trip => Degraded(total)
  <2>1. ASSUME trip
        PROVE  total >= BreakThreshold
    <3>1. p = "quality" /\ Other(p) = "identity" /\ "identity" \in Pockets
      BY <2>1 DEF Other, Pockets
    <3>2. Effective(k, "quality") \in Int /\ Effective(k, "identity") \in Int
      BY <1>2, <3>1, EffectiveRange DEF Scores
    <3>3. gained >= BreakThreshold - (Effective(k, "quality") + Effective(k, "identity"))
      BY <2>1 DEF Total
    <3>4. component >= Effective(k, "quality") + gained /\ component \in Int
      <4>1. component \in Int
        BY <1>3 DEF Scores
      <4> QED
        BY <3>1, <3>2, <4>1 DEF Larger
    <3> HIDE DEF component
    <3> QED
      BY <3>1, <3>2, <3>3, <3>4, ThresholdAssumption
  <2> HIDE DEF total
  <2> QED
    BY <2>1 DEF Degraded
<1>11. \A j \in Keys \ {k} : /\ Degraded(Total(j))' = Degraded(Total(j))
                             /\ Owes(j)' = Owes(j)
  <2> TAKE j \in Keys \ {k}
  <2>1. Degraded(Total(j))' = Degraded(Total(j))
    BY <1>4 DEF Degraded
  <2>2. \A u \in Tasks : Carries(u, j)' <=> Carries(u, j)
    BY <1>6, <1>7, <1>8
  <2>3. Owes(j)' <=> Owes(j)
    BY <2>2, OwesIsCarried, OwesIsCarriedNext
  <2>4. Owes(j)' \in BOOLEAN /\ Owes(j) \in BOOLEAN
    BY DEF Owes, PendingTrip
  <2> QED
    BY <2>1, <2>3, <2>4
<1>12. Degraded(Total(k))' <=> Degraded(total)
  <2> HIDE DEF total
  <2> QED
    BY <1>4 DEF Degraded
<1>13. Owes(k) => Owes(k)'
    BY <1>6, <1>7, OwesIsCarried, OwesIsCarriedNext
<1>14. Owes(k)' => Owes(k) \/ Degraded(Total(k))'
    BY <1>7, <1>8, <1>9, <1>10, <1>12, OwesIsCarried, OwesIsCarriedNext
<1>15. Degraded(Total(k))' /\ ~Degraded(Total(k)) => Owes(k)'
    BY <1>8, <1>9, <1>12, OwesIsCarriedNext
<1> QED
    BY <1>1, <1>11, <1>13, <1>14, <1>15, AccuseStep

\* Going on with a publish changes nothing for the gate, except where it ends in
\* the trip.
LEMMA HandlerOpensOrStutters ==
    ASSUME NoLoss, BreakerEnabled, GateInv, NEW t \in Tasks, TaskStep(t)
    PROVE  Promise!Next \/ UNCHANGED Promise!gate
<1>1. /\ TypeOK
      /\ pc \in [Tasks -> Publishing \cup {"idle", "dead"}]
      /\ job \in [Tasks -> Jobs \cup {NoJob}]
      /\ breaker \in [Keys -> BOOLEAN]
    BY DEF GateInv, SilentInv, TypeOK, HandlersOK
<1>2. Busy(t) /\ ~Abort(t) /\ job[t] \in Jobs
    BY <1>1 DEF NoLoss, GateInv, SilentInv, Undisturbed, TaskStep, AnnounceLevel, AnnounceAlert,
           Trip, Settle, Abort, Published, TypeOK, HandlersOK
<1>3. /\ ledger' = ledger /\ now' = now
      /\ \A u \in Tasks \ {t} : pc'[u] = pc[u] /\ job'[u] = job[u]
    BY <1>1, <1>2
       DEF TaskStep, AnnounceLevel, AnnounceAlert, Trip, Settle, GoOn, Jobs
<1>4. \A j \in Keys : Degraded(Total(j))' = Degraded(Total(j))
    BY <1>3, TotalKept DEF Degraded
<1>5. \A u \in Tasks \ {t}, j \in Keys : Carries(u, j)' <=> Carries(u, j)
    BY <1>3 DEF Carries, Busy
<1>6. \A j \in Keys : Owes(j)' \in BOOLEAN /\ Owes(j) \in BOOLEAN
    BY DEF Owes, PendingTrip
<1>7. ASSUME NEW j \in Keys, Carries(t, j)' <=> Carries(t, j)
      PROVE  Owes(j)' = Owes(j)
  <2>1. \A u \in Tasks : Carries(u, j)' <=> Carries(u, j)
    BY <1>5, <1>7
  <2>2. Owes(j)' <=> Owes(j)
    BY <2>1, OwesIsCarried, OwesIsCarriedNext
  <2> QED
    BY <1>6, <2>2
<1>8. CASE AnnounceLevel(t) \/ AnnounceAlert(t)
  <2>1. /\ pc[t] \in Publishing \ {"breaker"} /\ pc'[t] \in Publishing \ {"breaker"}
        /\ job'[t].key = job[t].key /\ job'[t].trip = job[t].trip
        /\ job'[t].climbed = job[t].climbed /\ breaker' = breaker
    BY <1>1, <1>2, <1>8 DEF AnnounceLevel, AnnounceAlert, GoOn, Jobs, Publishing
  <2>2. \A j \in Keys : Carries(t, j)' <=> Carries(t, j)
    BY <2>1 DEF Carries, Busy
  <2> QED
    BY <1>4, <1>7, <2>1, <2>2, StutterStep
<1>9. CASE Trip(t)
  <2> DEFINE k == job[t].key
  <2>1. /\ pc[t] = "alert" /\ pc'[t] = "breaker" /\ k \in Keys
        /\ job'[t].key = k /\ job'[t].trip = job[t].trip
        /\ breaker' = [breaker EXCEPT ![k] = TRUE]
    BY <1>1, <1>2, <1>9 DEF Trip, GoOn, Jobs
  <2>2. Carries(t, k)
    BY <2>1 DEF Carries, Busy, Publishing, GateInv
  <2>3. Owes(k)
    BY <2>1, <2>2, OwesIsCarried
  <2>4. \A j \in Keys \ {k} : Carries(t, j)' <=> Carries(t, j)
    BY <2>1 DEF Carries
  <2> HIDE DEF k
  <2> QED
    BY <1>4, <1>7, <2>1, <2>3, <2>4, OpenStep
<1>10. CASE Settle(t)
  <2> DEFINE k == job[t].key
  <2>1. /\ pc'[t] = "idle" /\ k \in Keys /\ LastEvent(t)
        /\ breaker' = IF job[t].trip THEN [breaker EXCEPT ![k] = TRUE] ELSE breaker
    BY <1>1, <1>2, <1>10 DEF Settle, Jobs
  <2>2. \A j \in Keys : ~Carries(t, j)'
    BY <2>1 DEF Carries, Busy, Publishing
  <2>3. \A j \in Keys : Carries(t, j) => j = k /\ job[t].trip
    BY <2>1 DEF Carries, LastEvent
  <2>4. CASE job[t].trip
    <3>1. Carries(t, k)
      BY <1>2, <2>4 DEF Carries
    <3>2. Owes(k)
      BY <2>1, <3>1, OwesIsCarried
    <3>3. \A j \in Keys \ {k} : Carries(t, j)' <=> Carries(t, j)
      BY <2>2, <2>3
    <3> HIDE DEF k
    <3> QED
      BY <1>4, <1>7, <2>1, <2>4, <3>2, <3>3, OpenStep
  <2>5. CASE ~job[t].trip
    <3>1. \A j \in Keys : Carries(t, j)' <=> Carries(t, j)
      BY <2>2, <2>3, <2>5
    <3> QED
      BY <1>4, <1>7, <2>1, <2>5, <3>1, StutterStep
  <2> QED
    BY <2>4, <2>5
<1> QED
    BY <1>2, <1>8, <1>9, <1>10 DEF TaskStep

\* A step that touches no handler owes what was owed.
LEMMA OwesKept ==
    ASSUME UNCHANGED <<pc, job>>
    PROVE  \A j \in Keys : Owes(j)' = Owes(j)
BY DEF Owes, PendingTrip, Busy

LEMMA RulingRelievesOrResets ==
    ASSUME GateInv, NEW k \in Keys,
           ClearLedger(k) \/ IdentityCleared(k) \/ BreakerReset(k)
    PROVE  Promise!Next
<1>1. UNCHANGED <<pc, job, now>> /\ TypeOK
    BY DEF ClearLedger, IdentityCleared, BreakerReset, GateInv, SilentInv
<1>2. /\ Total(k)' =< Total(k) /\ Total(k)' \in Nat
      /\ ~IdentityCleared(k) => Total(k)' = 0
      /\ \A j \in Keys \ {k} : Total(j)' = Total(j)
    BY <1>1, TotalWiped DEF ClearLedger, IdentityCleared, BreakerReset
<1>3. Total(k) \in Nat
    BY <1>1, TotalType
<1>4. \A j \in Keys : Degraded(Total(j))' => Degraded(Total(j))
    BY <1>2, <1>3, ThresholdAssumption DEF Degraded
<1>5. CASE ClearLedger(k) \/ IdentityCleared(k)
  <2>1. breaker' = breaker
    BY <1>5 DEF ClearLedger, IdentityCleared
  <2> QED
    BY <1>1, <1>4, <2>1, OwesKept, RelieveStep
<1>6. CASE BreakerReset(k)
  <2>1. Total(k)' = 0
    BY <1>1, <1>6, TotalWiped DEF BreakerReset
  <2>2. Degraded(Total(k))' = FALSE
    BY <2>1, ThresholdAssumption DEF Degraded
  <2>3. \A j \in Keys \ {k} : Degraded(Total(j))' = Degraded(Total(j))
    BY <1>2 DEF Degraded
  <2>4. breaker' = [breaker EXCEPT ![k] = FALSE]
    BY <1>6 DEF BreakerReset
  <2> QED
    BY <1>1, <2>2, <2>3, <2>4, OwesKept, ResetStep
<1> QED
    BY <1>5, <1>6

LEMMA StepMapsToStep ==
    ASSUME NoLoss, BreakerEnabled, GateInv, [Next]_vars
    PROVE  Promise!Next \/ UNCHANGED Promise!gate
<1>0. TypeOK /\ Requests \subseteq Tasks /\ Loop \in Tasks /\ {"quality", "identity"} \subseteq Pockets
    BY DEF GateInv, SilentInv, Tasks, Pockets
<1>1. ASSUME NEW t \in Requests, NEW k \in Keys, QualityHit(t, k)
      PROVE  Promise!Next
  <2>1. HitScores \cup FloatScores \subseteq Int
    BY EvidenceAssumption
  <2>2. PICK gained \in Int, float \in BOOLEAN :
            AddSuspicion(t, k, "quality", gained, float, FALSE)
    BY <1>1, <2>1 DEF QualityHit
  <2> QED
    BY <1>0, <2>2, EvidenceIsAccusation
<1>2. ASSUME NEW t \in Requests, NEW k \in Keys, TestFailure(t, k)
      PROVE  Promise!Next
  <2>1. PICK s \in FailScores :
            AddSuspicion(t, k, "quality", Larger(s, BreakThreshold - Total(k)),
                         s >= BreakThreshold - Total(k), TRUE)
    BY <1>2 DEF TestFailure
  <2> DEFINE gained == Larger(s, BreakThreshold - Total(k))
             float  == s >= BreakThreshold - Total(k)
  <2>2. gained \in Int /\ gained >= BreakThreshold - Total(k) /\ float \in BOOLEAN
    BY <1>0, EvidenceAssumption, ThresholdAssumption, TotalType DEF Larger
  <2> HIDE DEF gained, float
  <2>3. AddSuspicion(t, k, "quality", gained, float, TRUE)
    BY <2>1 DEF gained, float
  <2> QED
    BY <1>0, <2>2, <2>3, EvidenceIsAccusation
<1>3. ASSUME NEW k \in Keys, IdentityHit(k)
      PROVE  Promise!Next
  <2>1. PICK w \in ProbeWeights : AddSuspicion(Loop, k, "identity", w, TRUE, FALSE)
    BY <1>3 DEF IdentityHit
  <2>2. w \in Int
    BY EvidenceAssumption
  <2> QED
    BY <1>0, <2>1, <2>2, EvidenceIsAccusation
<1>4. ASSUME NEW t \in Tasks, TaskStep(t)
      PROVE  Promise!Next \/ UNCHANGED Promise!gate
    BY <1>4, HandlerOpensOrStutters
<1>5. ASSUME NEW k \in Keys, NEW amount \in PassDecays, TestPass(k, amount)
      PROVE  Promise!Next
  <2>1. UNCHANGED <<pc, job, breaker>>
    BY <1>5 DEF TestPass
  <2>2. \A j \in Keys : Degraded(Total(j))' => Degraded(Total(j))
    BY <1>0, <1>5, PassNeverCrosses DEF Degraded
  <2> QED
    BY <2>1, <2>2, OwesKept, RelieveStep
<1>6. ASSUME NEW k \in Keys, ClearLedger(k) \/ IdentityCleared(k) \/ BreakerReset(k)
      PROVE  Promise!Next
    BY <1>6, RulingRelievesOrResets
<1>7. CASE Tick
  <2>1. UNCHANGED <<pc, job, breaker>>
    BY <1>7 DEF Tick
  <2>2. \A j \in Keys : Degraded(Total(j))' => Degraded(Total(j))
    <3> TAKE j \in Keys
    <3>1. Total(j)' \in Nat /\ Total(j)' =< Total(j) /\ Total(j) \in Nat
      BY <1>0, <1>7, TotalTicks, TotalType
    <3> QED
      BY <3>1, ThresholdAssumption DEF Degraded
  <2> QED
    BY <2>1, <2>2, OwesKept, RelieveStep
<1>8. CASE Connect \/ Disconnect \/ DebounceElapses \/ UNCHANGED vars
  <2>1. UNCHANGED <<ledger, now, pc, job, breaker>>
    BY <1>8 DEF Connect, Disconnect, DebounceElapses, vars
  <2>2. \A j \in Keys : Degraded(Total(j))' = Degraded(Total(j))
    BY <2>1, TotalKept DEF Degraded
  <2> QED
    BY <2>1, <2>2, OwesKept, StutterStep
<1>9. ~Crash /\ ~Shutdown
    BY DEF NoLoss, Crash, Shutdown
<1> QED
    BY <1>1, <1>2, <1>3, <1>4, <1>5, <1>6, <1>7, <1>8, <1>9 DEF Next

LEMMA InitMapsToInit == Init => Promise!Init
<1> SUFFICES ASSUME Init PROVE Promise!Init
    OBVIOUS
<1>1. ASSUME NEW k \in Keys
      PROVE  Degraded(Total(k)) = FALSE
  <2>1. TypeOK /\ \A p \in Pockets : ledger[k][p].score = 0
    BY InitType DEF Init, BlankPockets, Blank
  <2>2. \A p \in Pockets : Effective(k, p) = 0
    BY <2>1, EffectiveRange, ThresholdAssumption DEF Scores
  <2> QED
    BY <2>2, ThresholdAssumption DEF Total, Degraded, Pockets
<1>2. \A k \in Keys : Owes(k) = FALSE
    BY DEF Init, Owes, PendingTrip, Busy, Publishing
<1>3. breaker = [k \in Keys |-> FALSE]
    BY DEF Init
<1> QED
    BY <1>1, <1>2, <1>3 DEF Promise!Init

\* While no handler is lost, the ledger implements the safety part of the gate:
\* only evidence takes a total over the line, whoever takes it there owes the trip
\* until it is made, and only a reset closes the breaker.  (That owed trips are
\* made in the end is liveness.)
THEOREM LedgerImplementsGate ==
    ASSUME NoLoss, BreakerEnabled
    PROVE  Spec => Promise!Init /\ [][Promise!Next]_(Promise!gate)
<1>1. GateInv /\ [Next]_vars => GateInv'
    BY GateInvNext
<1>2. GateInv /\ [Next]_vars => [Promise!Next]_(Promise!gate)
    BY StepMapsToStep
<1> QED
    BY <1>1, <1>2, GateInvInit, InitMapsToInit, PTL DEF Spec
=============================================================================
