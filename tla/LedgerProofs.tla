---------------------------- MODULE LedgerProofs ----------------------------
(* Theorems about Ledger, for every set of keys, every number of concurrent  *)
(* handlers, every decay curve and every threshold its assumptions allow.    *)
EXTENDS Ledger, TLAPS

\* What is left of a well-typed entry is a number between 0 and its score.
LEMMA EffectiveRange ==
    ASSUME TypeOK, NEW k \in Keys, NEW p \in Pockets
    PROVE  /\ Effective(k, p) \in Scores
           /\ Effective(k, p) =< ledger[k][p].score
<1>1. /\ ledger[k][p].score \in Scores
      /\ ledger[k][p].at \in Times
      /\ now \in Times
      /\ ledger[k][p].at =< now
    BY DEF TypeOK, Stamped, Entries
<1>2. now - ledger[k][p].at \in Times
    BY <1>1, ThresholdAssumption DEF Times
<1> QED
    BY <1>1, <1>2, DecayAssumption DEF Effective

\* Writing one pocket changes that entry and no other.
LEMMA WriteEffect ==
    ASSUME TypeOK, NEW k \in Keys, NEW p \in Pockets, NEW s \in Scores,
           Write(k, p, s)
    PROVE  /\ ledger' \in [Keys -> [Pockets -> Entries]]
           /\ ledger'[k][p] = [score |-> s, at |-> now]
           /\ \A j \in Keys, q \in Pockets :
                 j # k \/ q # p => ledger'[j][q] = ledger[j][q]
BY DEF TypeOK, Stamped, Write, Entries

LEMMA WriteStamped ==
    ASSUME TypeOK, NEW k \in Keys, NEW p \in Pockets, NEW s \in Scores,
           Write(k, p, s), now' = now
    PROVE  Stamped(ledger)'
<1>1. /\ ledger' \in [Keys -> [Pockets -> Entries]]
      /\ ledger'[k][p] = [score |-> s, at |-> now]
      /\ \A j \in Keys, q \in Pockets :
            j # k \/ q # p => ledger'[j][q] = ledger[j][q]
    BY WriteEffect
<1>2. ASSUME NEW j \in Keys, NEW q \in Pockets
      PROVE  ledger'[j][q].at =< now
  <2>1. now \in Int /\ ledger[j][q].at =< now
    BY ThresholdAssumption DEF TypeOK, Stamped, Times
  <2>2. CASE j = k /\ q = p
    BY <1>1, <2>1, <2>2
  <2>3. CASE j # k \/ q # p
    BY <1>1, <2>1, <2>3
  <2> QED
    BY <2>2, <2>3
<1> QED
    BY <1>1, <1>2 DEF Stamped

LEMMA BlankPocketsType == BlankPockets \in [Pockets -> Entries]
BY ThresholdAssumption DEF BlankPockets, Blank, Entries, Scores, Times

\* What flush() writes is a well-typed snapshot.
LEMMA SnapshotType ==
    ASSUME NEW L, NEW B, NEW S, NEW T, L \in S, B \in T
    PROVE  [ledger |-> L, breaker |-> B] \in [ledger : S, breaker : T]
OBVIOUS

LEMMA InitType == Init => TypeOK
<1> SUFFICES ASSUME Init PROVE TypeOK
    OBVIOUS
<1>1. now \in Times /\ subs \in 0..MaxSubs
    BY ThresholdAssumption DEF Init, Times
<1>2. Stamped(ledger)
    BY BlankPocketsType DEF Init, Stamped, BlankPockets, Blank
<1>3. breaker \in [Keys -> BOOLEAN] /\ ruling \in [Keys -> {"none", "cleared", "reset"}]
    BY DEF Init
<1>4. HandlersOK
    BY <1>1 DEF Init, HandlersOK, Busy, Publishing
<1>5. StoreOK
  <2>1. disk = [ledger |-> ledger, breaker |-> breaker]
    BY DEF Init
  <2>2. disk \in [ledger : [Keys -> [Pockets -> Entries]], breaker : [Keys -> BOOLEAN]]
    BY <2>1, <1>2, <1>3, SnapshotType DEF Stamped
  <2>3. dirty \in BOOLEAN /\ recent \in BOOLEAN
    BY DEF Init
  <2> QED
    BY <1>2, <2>1, <2>2, <2>3 DEF StoreOK
<1> QED
    BY <1>1, <1>2, <1>3, <1>4, <1>5 DEF TypeOK

\* Each way of saving leaves a well-typed store behind.
LEMMA FlushType ==
    ASSUME TypeOK, Stamped(ledger)', now' = now, Flush
    PROVE  StoreOK'
<1>1. disk' = [ledger |-> ledger', breaker |-> breaker] /\ dirty' = FALSE /\ recent' = TRUE
    BY DEF Flush
<1>2. disk' \in [ledger : [Keys -> [Pockets -> Entries]], breaker : [Keys -> BOOLEAN]]
    BY <1>1, SnapshotType DEF TypeOK, Stamped
<1>3. disk'.ledger = ledger'
    BY <1>1
<1> QED
    BY <1>1, <1>2, <1>3 DEF StoreOK, Stamped

LEMMA StoreUnchanged ==
    ASSUME TypeOK, now' \in Times, now =< now', UNCHANGED <<disk, dirty, recent>>
    PROVE  StoreOK'
<1>1. disk.ledger \in [Keys -> [Pockets -> Entries]]
    BY DEF TypeOK, StoreOK
<1>2. \A k \in Keys, p \in Pockets : disk.ledger[k][p].at \in Times
    BY <1>1 DEF Entries
<1>3. Stamped(disk.ledger)'
    BY <1>1, <1>2 DEF TypeOK, StoreOK, Stamped, Times
<1> QED
    BY <1>3 DEF TypeOK, StoreOK

LEMMA SaveType ==
    ASSUME TypeOK, Stamped(ledger)', now' = now, SaveSoon
    PROVE  StoreOK'
<1>1. CASE recent
  <2>1. dirty' = TRUE /\ disk' = disk /\ recent' = recent
    BY <1>1 DEF SaveSoon, MarkOnly
  <2>2. Stamped(disk.ledger)'
    BY <2>1 DEF TypeOK, StoreOK, Stamped
  <2> QED
    BY <2>1, <2>2 DEF TypeOK, StoreOK
<1>2. CASE ~recent
  <2>1. Flush
    BY <1>2 DEF SaveSoon
  <2> QED
    BY <2>1, FlushType
<1> QED
    BY <1>1, <1>2

LEMMA ClimbType ==
    ASSUME NEW prev \in Int, NEW total \in Int
    PROVE  Climb(prev, total) \in {"none", "WATCH", "DEGRADED"}
BY DEF Climb

LEMMA TotalType ==
    ASSUME TypeOK, NEW k \in Keys
    PROVE  Total(k) \in Nat
<1>1. "quality" \in Pockets /\ "identity" \in Pockets
    BY DEF Pockets
<1> QED
    BY <1>1, EffectiveRange, ThresholdAssumption DEF Total, Scores

LEMMA AddSuspicionType ==
    ASSUME TypeOK, NEW t \in Tasks, NEW k \in Keys, NEW p \in Pockets,
           NEW gained \in Int, NEW float \in BOOLEAN, NEW trip \in BOOLEAN,
           AddSuspicion(t, k, p, gained, float, trip)
    PROVE  TypeOK'
<1> DEFINE component == Larger(Effective(k, p) + gained, 0)
           total     == component + Effective(k, Other(p))
<1>1. Other(p) \in Pockets
    BY DEF Other, Pockets
<1>2. component \in Scores /\ total \in Int
  <2>1. Effective(k, p) \in Int /\ Effective(k, Other(p)) \in Int
    BY <1>1, EffectiveRange DEF Scores
  <2>2. component \in Nat
    BY <2>1 DEF Larger
  <2>3. component =< MaxScore
    BY DEF AddSuspicion
  <2>4. component \in Scores
    <3> HIDE DEF component
    <3> QED
      BY <2>2, <2>3, ThresholdAssumption DEF Scores
  <2>5. total \in Int
    <3> HIDE DEF component
    <3> QED
      BY <2>1, <2>2
  <2> QED
    BY <2>4, <2>5
<1>3. Write(k, p, component) /\ now' = now
    BY DEF AddSuspicion
<1>4. Stamped(ledger)'
  <2> HIDE DEF component
  <2> QED
    BY <1>2, <1>3, WriteStamped
<1>5. [key |-> k, climbed |-> Climb(Total(k), total), trip |-> trip, subs |-> subs] \in Jobs
    BY <1>2, TotalType, ClimbType DEF TypeOK, HandlersOK, Jobs
<1>6. HandlersOK'
  <2>1. CASE LogSink /\ float
    BY <2>1 DEF AddSuspicion, Dies, Ended, TypeOK, HandlersOK, Busy, Publishing
  <2>2. CASE ~(LogSink /\ float)
    BY <1>5, <2>2 DEF AddSuspicion, TypeOK, HandlersOK, Busy, Publishing
  <2> QED
    BY <2>1, <2>2
<1>7. StoreOK'
    BY <1>3, StoreUnchanged DEF AddSuspicion, TypeOK, Times
<1>8. /\ breaker' \in [Keys -> BOOLEAN]
      /\ ruling' \in [Keys -> {"none", "cleared", "reset"}]
    BY DEF AddSuspicion, TypeOK
<1> QED
    BY <1>3, <1>4, <1>6, <1>7, <1>8 DEF TypeOK

\* The steps that continue a suspended handler.
LEMMA TaskStepType ==
    ASSUME TypeOK, NEW t \in Tasks, TaskStep(t)
    PROVE  TypeOK'
<1>1. now' = now /\ ledger' = ledger /\ ruling' = ruling
    BY DEF TaskStep, AnnounceLevel, AnnounceAlert, Trip, Settle, Abort
<1>2. Stamped(ledger)'
    BY <1>1 DEF TypeOK, Stamped
<1>3. job[t] \in Jobs /\ subs' \in 0..MaxSubs
    BY ThresholdAssumption
       DEF TypeOK, HandlersOK, TaskStep, AnnounceLevel, AnnounceAlert, Trip,
           Settle, Abort, Published
<1>4. job[t].key \in Keys /\ [job[t] EXCEPT !.subs = subs'] \in Jobs
    BY <1>3 DEF Jobs
<1>5. breaker' \in [Keys -> BOOLEAN]
    BY <1>4 DEF TypeOK, TaskStep, AnnounceLevel, AnnounceAlert, Trip, Settle, Abort
<1>6. HandlersOK'
  <2>1. ASSUME NEW event \in Publishing, GoOn(t, event)
        PROVE  HandlersOK'
    BY <1>3, <1>4, <2>1 DEF GoOn, TypeOK, HandlersOK, Busy
  <2>2. CASE AnnounceLevel(t) \/ AnnounceAlert(t) \/ Trip(t)
    BY <2>1, <2>2 DEF AnnounceLevel, AnnounceAlert, Trip, Publishing
  <2>3. CASE Settle(t) \/ Abort(t)
    BY <1>3, <2>3 DEF Settle, Abort, Dies, Ended, TypeOK, HandlersOK, Busy, Publishing
  <2> QED
    BY <2>2, <2>3 DEF TaskStep
<1>7. StoreOK'
  <2>1. CASE Settle(t)
    BY <1>1, <1>2, <2>1, SaveType DEF Settle
  <2>2. CASE ~Settle(t)
    BY <1>1, <2>2, StoreUnchanged
       DEF TaskStep, AnnounceLevel, AnnounceAlert, Trip, Abort, TypeOK, Times
  <2> QED
    BY <2>1, <2>2
<1> QED
    BY <1>1, <1>2, <1>5, <1>6, <1>7 DEF TypeOK

\* A pass leaves a score in range whatever the two pockets hold.
LEMMA PassRemainderRange ==
    ASSUME TypeOK, NEW k \in Keys, NEW amount \in PassDecays
    PROVE  /\ PassRemainder(k, amount) \in Scores
           /\ PassRemainder(k, amount) + Effective(k, "identity") >= ScoreFloor
<1>1. Effective(k, "quality") \in Scores /\ Effective(k, "identity") \in Scores
    BY EffectiveRange DEF Pockets
<1>2. amount \in Nat
    BY EvidenceAssumption
<1> QED
    BY <1>1, <1>2, ThresholdAssumption DEF PassRemainder, Larger, Scores

\* Wiping one key keeps every entry typed and stamped in the past.
LEMMA WipeStamped ==
    ASSUME TypeOK, NEW k \in Keys, now' = now,
           \/ ledger' = [ledger EXCEPT ![k] = BlankPockets]
           \/ ledger' = [ledger EXCEPT ![k]["identity"] = Blank]
    PROVE  Stamped(ledger)'
<1>1. /\ ledger \in [Keys -> [Pockets -> Entries]]
      /\ Blank \in Entries /\ Blank.at =< now
      /\ \A j \in Keys, q \in Pockets : ledger[j][q].at =< now
    BY ThresholdAssumption DEF TypeOK, Stamped, Blank, Entries, Scores, Times
<1>2. ledger' \in [Keys -> [Pockets -> Entries]]
  <2>1. CASE ledger' = [ledger EXCEPT ![k] = BlankPockets]
    BY <1>1, <2>1, BlankPocketsType
  <2>2. CASE ledger' = [ledger EXCEPT ![k]["identity"] = Blank]
    BY <1>1, <2>2
  <2> QED
    BY <2>1, <2>2
<1>3. ASSUME NEW j \in Keys, NEW q \in Pockets
      PROVE  ledger'[j][q] = ledger[j][q] \/ ledger'[j][q] = Blank
    BY <1>1 DEF BlankPockets
<1> QED
    BY <1>1, <1>2, <1>3 DEF Stamped

\* The handlers that never await: a pass, and the rulings of a human.
LEMMA PassStepType ==
    ASSUME TypeOK, NEW k \in Keys, NEW amount \in PassDecays, TestPass(k, amount)
    PROVE  TypeOK'
<1>1. UNCHANGED <<now, pc, job, subs, breaker>>
    BY DEF TestPass
<1>2. Stamped(ledger)'
    BY <1>1, PassRemainderRange, WriteStamped DEF TestPass, Pockets
<1>3. HandlersOK'
    BY <1>1 DEF TypeOK, HandlersOK, Busy
<1>4. StoreOK'
    BY <1>1, <1>2, SaveType DEF TestPass
<1>5. ruling' \in [Keys -> {"none", "cleared", "reset"}]
    BY DEF TestPass, TypeOK
<1> QED
    BY <1>1, <1>2, <1>3, <1>4, <1>5 DEF TypeOK

LEMMA RulingStepType ==
    ASSUME TypeOK, NEW k \in Keys,
           ClearLedger(k) \/ IdentityCleared(k) \/ BreakerReset(k)
    PROVE  TypeOK'
<1>1. UNCHANGED <<now, pc, job, subs>>
    BY DEF ClearLedger, IdentityCleared, BreakerReset
<1>2. Stamped(ledger)'
    BY <1>1, WipeStamped DEF ClearLedger, IdentityCleared, BreakerReset
<1>3. HandlersOK'
    BY <1>1 DEF TypeOK, HandlersOK, Busy
<1>4. StoreOK'
  <2>1. Flush \/ UNCHANGED <<disk, dirty, recent>>
    BY DEF ClearLedger, IdentityCleared, BreakerReset, SaveRuling
  <2>2. now' \in Times /\ now =< now'
    BY <1>1, ThresholdAssumption DEF TypeOK, Times
  <2> QED
    BY <1>1, <1>2, <2>1, <2>2, FlushType, StoreUnchanged
<1>5. /\ breaker' \in [Keys -> BOOLEAN]
      /\ ruling' \in [Keys -> {"none", "cleared", "reset"}]
    BY DEF ClearLedger, IdentityCleared, BreakerReset, TypeOK
<1> QED
    BY <1>1, <1>2, <1>3, <1>4, <1>5 DEF TypeOK

\* A process that starts from a well-typed snapshot is well typed.
LEMMA StartType ==
    ASSUME TypeOK, NEW saved, Start(saved), Stamped(saved.ledger),
           saved \in [ledger : [Keys -> [Pockets -> Entries]], breaker : [Keys -> BOOLEAN]]
    PROVE  TypeOK'
<1>1. now' = now /\ ruling' = ruling
    BY DEF Start
<1>2. Stamped(ledger)' /\ breaker' \in [Keys -> BOOLEAN]
    BY <1>1 DEF Start, Stamped
<1>3. HandlersOK'
    BY ThresholdAssumption DEF Start, HandlersOK, Busy, Publishing
<1>4. StoreOK'
  <2>1. disk' = saved /\ dirty' = FALSE /\ recent' = FALSE
    BY DEF Start
  <2>2. Stamped(disk.ledger)'
    BY <1>1, <2>1 DEF Stamped
  <2> QED
    BY <2>1, <2>2 DEF StoreOK
<1> QED
    BY <1>1, <1>2, <1>3, <1>4 DEF TypeOK

\* Dashboards, restarts and the passing of time.
LEMMA EnvironmentStepType ==
    ASSUME TypeOK, Connect \/ Disconnect \/ Crash \/ Shutdown \/ Tick \/ DebounceElapses
    PROVE  TypeOK'
<1>1. CASE Crash
    BY <1>1, StartType DEF Crash, TypeOK, StoreOK
<1>2. CASE Shutdown
  <2> DEFINE saved == [ledger |-> ledger, breaker |-> breaker]
  <2>1. saved \in [ledger : [Keys -> [Pockets -> Entries]], breaker : [Keys -> BOOLEAN]]
    BY SnapshotType DEF TypeOK, Stamped
  <2>2. Stamped(saved.ledger)
    BY DEF TypeOK
  <2>3. Start(saved)
    BY <1>2 DEF Shutdown
  <2> HIDE DEF saved
  <2> QED
    BY <2>1, <2>2, <2>3, StartType
<1>3. CASE Connect \/ Disconnect \/ Tick \/ DebounceElapses
  <2>1. UNCHANGED <<ledger, breaker, pc, job, disk, dirty, ruling>>
    BY <1>3 DEF Connect, Disconnect, Tick, DebounceElapses
  <2>2. now' \in Times /\ now =< now'
    BY <1>3, ThresholdAssumption
       DEF Connect, Disconnect, Tick, DebounceElapses, TypeOK, Times
  <2>3. subs' \in 0..MaxSubs
    BY <1>3, ThresholdAssumption
       DEF Connect, Disconnect, Tick, DebounceElapses, TypeOK, HandlersOK
  <2>4. recent' \in BOOLEAN
    BY <1>3 DEF Connect, Disconnect, Tick, DebounceElapses, TypeOK, StoreOK
  <2>5. HandlersOK'
    BY <2>1, <2>3 DEF TypeOK, HandlersOK, Busy
  <2>6. ASSUME NEW entries \in [Keys -> [Pockets -> Entries]], Stamped(entries),
               entries' = entries
        PROVE  Stamped(entries)'
    <3>1. \A k \in Keys, p \in Pockets : entries[k][p].at \in Times
      BY DEF Entries
    <3>2. now \in Times
      BY DEF TypeOK
    <3> QED
      BY <2>2, <2>6, <3>1, <3>2, ThresholdAssumption DEF Stamped, Times
  <2>7. Stamped(ledger)' /\ Stamped(disk.ledger)'
    BY <2>1, <2>6 DEF TypeOK, Stamped, StoreOK
  <2> QED
    BY <2>1, <2>2, <2>4, <2>5, <2>7 DEF TypeOK, StoreOK
<1> QED
    BY <1>1, <1>2, <1>3

LEMMA NextType == TypeOK /\ [Next]_vars => TypeOK'
<1> SUFFICES ASSUME TypeOK, [Next]_vars PROVE TypeOK'
    OBVIOUS
<1>1. ASSUME NEW t \in Requests, NEW k \in Keys, QualityHit(t, k) \/ TestFailure(t, k)
      PROVE  TypeOK'
  <2>1. t \in Tasks /\ "quality" \in Pockets
    BY DEF Tasks, Pockets
  <2>2. CASE QualityHit(t, k)
    <3>1. PICK s \in HitScores \cup FloatScores, float \in BOOLEAN :
              AddSuspicion(t, k, "quality", s, float, FALSE)
      BY <2>2 DEF QualityHit
    <3>2. s \in Int
      BY EvidenceAssumption
    <3> QED
      BY <2>1, <3>1, <3>2, AddSuspicionType
  <2>3. CASE TestFailure(t, k)
    <3> DEFINE topUp == BreakThreshold - Total(k)
    <3>1. PICK s \in FailScores :
              AddSuspicion(t, k, "quality", Larger(s, topUp), s >= topUp, TRUE)
      BY <2>3 DEF TestFailure
    <3>2. Larger(s, topUp) \in Int /\ (s >= topUp) \in BOOLEAN
      BY EvidenceAssumption, ThresholdAssumption, TotalType DEF Larger
    <3> QED
      BY <2>1, <3>1, <3>2, AddSuspicionType
  <2> QED
    BY <1>1, <2>2, <2>3
<1>2. ASSUME NEW k \in Keys, IdentityHit(k)
      PROVE  TypeOK'
  <2>1. Loop \in Tasks /\ "identity" \in Pockets
    BY DEF Tasks, Pockets
  <2>2. PICK w \in ProbeWeights : AddSuspicion(Loop, k, "identity", w, TRUE, FALSE)
    BY <1>2 DEF IdentityHit
  <2>3. w \in Int
    BY EvidenceAssumption
  <2> QED
    BY <2>1, <2>2, <2>3, AddSuspicionType
<1>3. ASSUME NEW t \in Tasks, TaskStep(t)
      PROVE  TypeOK'
    BY <1>3, TaskStepType
<1>4. ASSUME NEW k \in Keys, NEW amount \in PassDecays, TestPass(k, amount)
      PROVE  TypeOK'
    BY <1>4, PassStepType
<1>5. ASSUME NEW k \in Keys, ClearLedger(k) \/ IdentityCleared(k) \/ BreakerReset(k)
      PROVE  TypeOK'
    BY <1>5, RulingStepType
<1>6. CASE Connect \/ Disconnect \/ Crash \/ Shutdown \/ Tick \/ DebounceElapses
    BY <1>6, EnvironmentStepType
<1>7. CASE UNCHANGED vars
    BY <1>7 DEF vars, TypeOK, Stamped, HandlersOK, StoreOK, Busy
<1> QED
    BY <1>1, <1>2, <1>3, <1>4, <1>5, <1>6, <1>7 DEF Next

\* Every variable of the ledger keeps its type, whatever fails and whenever.
THEOREM TypeCorrect == Spec => []TypeOK
<1> QED
    BY InitType, NextType, PTL DEF Spec

-----------------------------------------------------------------------------
(* NoSilentDegrade.  It holds as long as no handler is lost between writing  *)
(* the pocket and opening the breaker.  That a suspended publish never sees  *)
(* another number of dashboards is what makes it inductive.                  *)

Undisturbed == \A t \in Tasks : Busy(t) => job[t].subs = subs

NoLoss == Faults = {} /\ ~LogSink

SilentInv == TypeOK /\ Undisturbed /\ NoSilentDegrade

\* A key neither written nor read at another time keeps its total.
LEMMA TotalKept ==
    ASSUME NEW k \in Keys, ledger'[k] = ledger[k], now' = now
    PROVE  Total(k)' = Total(k)
BY DEF Total, Effective

\* A score just written has not decayed yet.
LEMMA EffectiveWritten ==
    ASSUME TypeOK, NEW k \in Keys, NEW p \in Pockets, NEW s \in Scores,
           Write(k, p, s), now' = now
    PROVE  /\ Effective(k, p)' = s
           /\ Effective(k, Other(p))' = Effective(k, Other(p))
           /\ Total(k)' = s + Effective(k, Other(p))
           /\ \A j \in Keys \ {k} : Total(j)' = Total(j)
<1>1. Other(p) \in Pockets /\ Other(p) # p
    BY DEF Other, Pockets
<1>2. /\ ledger'[k][p] = [score |-> s, at |-> now]
      /\ \A j \in Keys, q \in Pockets :
            j # k \/ q # p => ledger'[j][q] = ledger[j][q]
    BY WriteEffect
<1>3. Effective(k, p)' = s
  <2>1. now - now = 0
    BY ThresholdAssumption DEF TypeOK, Times
  <2> QED
    BY <1>2, <2>1, DecayAssumption DEF Effective
<1>4. Effective(k, Other(p))' = Effective(k, Other(p))
    BY <1>1, <1>2 DEF Effective
<1>5. Total(k)' = s + Effective(k, Other(p))
  <2>1. /\ Effective(k, p)' \in Int
        /\ Effective(k, Other(p))' \in Int
    BY <1>1, <1>3, <1>4, EffectiveRange DEF Scores
  <2>2. CASE p = "quality"
    BY <1>3, <1>4, <2>2 DEF Total, Other
  <2>3. CASE p = "identity"
    BY <1>3, <1>4, <2>1, <2>3 DEF Total, Other
  <2> QED
    BY <2>2, <2>3 DEF Pockets
<1>6. \A j \in Keys \ {k} : Total(j)' = Total(j)
    BY <1>2 DEF Total, Effective, Pockets
<1> QED
    BY <1>3, <1>4, <1>5, <1>6

\* Wiping never raises a total; wiping both pockets leaves none.
LEMMA TotalWiped ==
    ASSUME TypeOK, NEW k \in Keys, now' = now,
           \/ ledger' = [ledger EXCEPT ![k] = BlankPockets]
           \/ ledger' = [ledger EXCEPT ![k]["identity"] = Blank]
    PROVE  /\ Total(k)' =< Total(k)
           /\ Total(k)' \in Nat
           /\ ledger' = [ledger EXCEPT ![k] = BlankPockets] => Total(k)' = 0
           /\ \A j \in Keys \ {k} : Total(j)' = Total(j)
<1> DEFINE q == Effective(k, "quality")
           i == Effective(k, "identity")
<1>1. "quality" \in Pockets /\ "identity" \in Pockets /\ q \in Nat /\ i \in Nat
    BY EffectiveRange, ThresholdAssumption DEF Pockets, Scores
<1>2. ledger \in [Keys -> [Pockets -> Entries]]
    BY DEF TypeOK, Stamped
<1>3. Decay[0][now] = 0
  <2>1. 0 \in Scores /\ now \in Times
    BY ThresholdAssumption DEF TypeOK, Scores
  <2>2. Decay[0][now] \in Scores /\ Decay[0][now] =< 0
    BY <2>1, DecayAssumption
  <2> QED
    BY <2>2, ThresholdAssumption DEF Scores
<1>4. now - 0 = now
    BY ThresholdAssumption DEF TypeOK, Times
<1>5. \A e \in {"quality", "identity"} :
          ledger'[k][e] = Blank => Effective(k, e)' = 0
    BY <1>3, <1>4 DEF Effective, Blank
<1>6. CASE ledger' = [ledger EXCEPT ![k] = BlankPockets]
  <2>1. ledger'[k]["quality"] = Blank /\ ledger'[k]["identity"] = Blank
    BY <1>1, <1>2, <1>6 DEF BlankPockets
  <2>2. Total(k)' = 0
    BY <1>5, <2>1 DEF Total
  <2>3. \A j \in Keys \ {k} : Total(j)' = Total(j)
    BY <1>2, <1>6 DEF Total, Effective
  <2> QED
    BY <2>2, <2>3, TotalType
<1>7. CASE ledger' = [ledger EXCEPT ![k]["identity"] = Blank]
  <2>1. /\ ledger'[k]["identity"] = Blank
        /\ ledger'[k]["quality"] = ledger[k]["quality"]
    BY <1>1, <1>2, <1>7
  <2>2. Effective(k, "quality")' = q /\ Effective(k, "identity")' = 0
    BY <1>5, <2>1 DEF Effective
  <2>3. Total(k) = q + i /\ Total(k)' = q
    BY <1>1, <2>2 DEF Total
  <2>4. \A j \in Keys \ {k} : Total(j)' = Total(j)
    BY <1>2, <1>7 DEF Total, Effective
  <2>5. ledger' = [ledger EXCEPT ![k] = BlankPockets] => Total(k)' = 0
    <3>1. ASSUME ledger' = [ledger EXCEPT ![k] = BlankPockets]
          PROVE  ledger'[k]["quality"] = Blank
      BY <1>1, <1>2, <3>1 DEF BlankPockets
    <3> QED
      BY <3>1, <1>5, <2>3, <2>2
  <2> QED
    BY <1>1, <2>3, <2>4, <2>5
<1> QED
    BY <1>6, <1>7

\* Time only lowers a total.
LEMMA TotalTicks ==
    ASSUME TypeOK, NEW k \in Keys, Tick
    PROVE  Total(k)' \in Nat /\ Total(k)' =< Total(k)
<1>1. ASSUME NEW p \in Pockets
      PROVE  Effective(k, p)' \in Nat /\ Effective(k, p)' =< Effective(k, p)
  <2> DEFINE s == ledger[k][p].score
             a == now - ledger[k][p].at
  <2>1. /\ ledger[k][p].score \in Scores
        /\ ledger[k][p].at \in Times
        /\ ledger[k][p].at =< now
        /\ now \in Times
    BY DEF TypeOK, Stamped, Entries
  <2>2. now' = now + 1 /\ now < MaxTime /\ ledger' = ledger
    BY DEF Tick
  <2>3. /\ a \in Times /\ a + 1 \in Times /\ a < MaxTime
        /\ now' - ledger[k][p].at = a + 1
    BY <2>1, <2>2, ThresholdAssumption DEF Times
  <2>4. Effective(k, p) = Decay[s][a] /\ Effective(k, p)' = Decay[s][a + 1]
    BY <2>2, <2>3 DEF Effective
  <2>5. Decay[s][a + 1] \in Scores /\ Decay[s][a + 1] =< Decay[s][a]
    BY <2>1, <2>3, DecayAssumption
  <2> QED
    BY <2>4, <2>5, ThresholdAssumption DEF Scores
<1>2. "quality" \in Pockets /\ "identity" \in Pockets
    BY DEF Pockets
<1>3. Effective(k, "quality") \in Int /\ Effective(k, "identity") \in Int
    BY <1>2, EffectiveRange DEF Scores
<1> QED
    BY <1>1, <1>2, <1>3 DEF Total

\* A step that loses no handler, closes no breaker and takes no total over the
\* line keeps the promise.
LEMMA PromiseKept ==
    ASSUME TypeOK, NoSilentDegrade, NEW k \in Keys,
           Degraded(Total(k))' => Degraded(Total(k)),
           breaker[k] => breaker'[k],
           PendingTrip(k) => PendingTrip(k)' \/ breaker'[k] \/ ~BreakerEnabled
    PROVE  (BreakerEnabled => (Degraded(Total(k)) => breaker[k] \/ PendingTrip(k)))'
BY DEF NoSilentDegrade

LEMMA AddSuspicionSilent ==
    ASSUME NoLoss, SilentInv, NEW t \in Tasks, NEW k \in Keys, NEW p \in Pockets,
           NEW gained \in Int, NEW float \in BOOLEAN, NEW trip \in BOOLEAN,
           AddSuspicion(t, k, p, gained, float, trip)
    PROVE  Undisturbed' /\ NoSilentDegrade'
<1> DEFINE component == Larger(Effective(k, p) + gained, 0)
           total     == component + Effective(k, Other(p))
<1>1. /\ pc[t] = "idle"
      /\ pc' = [pc EXCEPT ![t] = "suspicion"]
      /\ job' = [job EXCEPT ![t] =
                    [key |-> k, climbed |-> Climb(Total(k), total),
                     trip |-> trip, subs |-> subs]]
      /\ UNCHANGED <<breaker, subs, now>>
      /\ Write(k, p, component)
      /\ component =< MaxScore
    BY DEF AddSuspicion, NoLoss
<1>2. /\ TypeOK
      /\ pc \in [Tasks -> Publishing \cup {"idle", "dead"}]
      /\ job \in [Tasks -> Jobs \cup {NoJob}]
    BY DEF SilentInv, TypeOK, HandlersOK
<1>3. Undisturbed'
    BY <1>1, <1>2 DEF SilentInv, Undisturbed, Busy
<1>4. component \in Scores
  <2>1. Effective(k, p) \in Int
    BY <1>2, EffectiveRange DEF Scores
  <2>2. component \in Nat
    BY <2>1 DEF Larger
  <2> HIDE DEF component
  <2> QED
    BY <1>1, <2>2, ThresholdAssumption DEF Scores
<1>5. Total(k)' = total /\ \A j \in Keys \ {k} : Total(j)' = Total(j)
  <2> HIDE DEF component
  <2> QED
    BY <1>1, <1>2, <1>4, EffectiveWritten
<1>6. ASSUME NEW j \in Keys, PendingTrip(j)
      PROVE  PendingTrip(j)'
  <2>1. PICK u \in Tasks : /\ pc[u] \in Publishing \ {"breaker"}
                           /\ job[u].key = j
                           /\ job[u].climbed = "DEGRADED"
    BY <1>6 DEF PendingTrip
  <2>2. u # t
    BY <1>1, <2>1 DEF Publishing
  <2> QED
    BY <1>1, <1>2, <2>1, <2>2 DEF PendingTrip
<1>7. ASSUME Degraded(total), ~Degraded(Total(k))
      PROVE  PendingTrip(k)'
  <2>1. Climb(Total(k), total) = "DEGRADED"
    BY <1>7 DEF Climb
  <2>2. pc'[t] = "suspicion" /\ job'[t].key = k /\ job'[t].climbed = "DEGRADED"
    BY <1>1, <1>2, <2>1
  <2> QED
    BY <2>2 DEF PendingTrip, Publishing
<1>8. ASSUME NEW j \in Keys
      PROVE  (BreakerEnabled => (Degraded(Total(j)) => breaker[j] \/ PendingTrip(j)))'
  <2>1. CASE Degraded(Total(j))' => Degraded(Total(j))
    BY <1>1, <1>2, <1>6, <2>1, PromiseKept DEF SilentInv
  <2>2. CASE ~(Degraded(Total(j))' => Degraded(Total(j)))
    <3> HIDE DEF total
    <3>1. j = k
      BY <1>5, <2>2 DEF Degraded
    <3>2. Degraded(total) /\ ~Degraded(Total(k))
      BY <1>5, <2>2, <3>1 DEF Degraded
    <3> QED
      BY <1>7, <3>1, <3>2
  <2> QED
    BY <2>1, <2>2
<1> QED
    BY <1>3, <1>8 DEF NoSilentDegrade

LEMMA TaskStepSilent ==
    ASSUME NoLoss, SilentInv, NEW t \in Tasks, TaskStep(t)
    PROVE  Undisturbed' /\ NoSilentDegrade'
<1>1. /\ TypeOK
      /\ pc \in [Tasks -> Publishing \cup {"idle", "dead"}]
      /\ job \in [Tasks -> Jobs \cup {NoJob}]
      /\ breaker \in [Keys -> BOOLEAN]
    BY DEF SilentInv, TypeOK, HandlersOK
<1>2. Busy(t) /\ ~Abort(t) /\ subs' = subs
    BY DEF NoLoss, SilentInv, Undisturbed, TaskStep, AnnounceLevel, AnnounceAlert,
           Trip, Settle, Abort, Published
<1>3. job[t] \in Jobs
    BY <1>1, <1>2 DEF TypeOK, HandlersOK
<1>4. /\ ledger' = ledger /\ now' = now
      /\ \A u \in Tasks \ {t} : pc'[u] = pc[u] /\ job'[u] = job[u]
      /\ \A j \in Keys : breaker[j] => breaker'[j]
    BY <1>1, <1>2, <1>3
       DEF TaskStep, AnnounceLevel, AnnounceAlert, Trip, Settle, GoOn, Jobs
<1>5. Undisturbed'
  <2>1. CASE Settle(t)
    BY <1>1, <1>2, <1>4, <2>1
       DEF Settle, SilentInv, Undisturbed, Busy, Publishing
  <2>2. CASE AnnounceLevel(t) \/ AnnounceAlert(t) \/ Trip(t)
    <3>1. job'[t].subs = subs'
      BY <1>1, <1>3, <2>2 DEF AnnounceLevel, AnnounceAlert, Trip, GoOn, Jobs
    <3> QED
      BY <1>2, <1>4, <3>1 DEF SilentInv, Undisturbed, Busy
  <2> QED
    BY <1>2, <2>1, <2>2 DEF TaskStep
<1>6. ASSUME NEW j \in Keys, PendingTrip(j)
      PROVE  PendingTrip(j)' \/ breaker'[j] \/ ~BreakerEnabled
  <2>1. PICK u \in Tasks : /\ pc[u] \in Publishing \ {"breaker"}
                           /\ job[u].key = j
                           /\ job[u].climbed = "DEGRADED"
    BY <1>6 DEF PendingTrip
  <2>2. CASE u # t
    BY <1>4, <2>1, <2>2 DEF PendingTrip
  <2>3. CASE u = t /\ (AnnounceLevel(t) \/ AnnounceAlert(t))
    <3>1. /\ pc'[t] \in {"level", "alert"}
          /\ job'[t].key = j /\ job'[t].climbed = "DEGRADED"
      BY <1>1, <1>3, <2>1, <2>3 DEF AnnounceLevel, AnnounceAlert, GoOn, Jobs
    <3> QED
      BY <3>1 DEF PendingTrip, Publishing
  <2>4. CASE u = t /\ Trip(t)
    BY <1>1, <1>3, <2>1, <2>4 DEF Trip, Jobs
  <2>5. CASE u = t /\ Settle(t)
    BY <2>1, <2>5 DEF Settle, LastEvent, Publishing
  <2> QED
    BY <1>2, <2>2, <2>3, <2>4, <2>5 DEF TaskStep
<1>7. \A j \in Keys : Total(j)' = Total(j)
    BY <1>4, TotalKept
<1> QED
  <2>1. ASSUME NEW j \in Keys
        PROVE  (BreakerEnabled => (Degraded(Total(j)) => breaker[j] \/ PendingTrip(j)))'
    <3>1. Degraded(Total(j))' => Degraded(Total(j))
      BY <1>7 DEF Degraded
    <3> QED
      BY <1>1, <1>4, <1>6, <3>1, PromiseKept DEF SilentInv
  <2> QED
    BY <1>5, <2>1 DEF NoSilentDegrade

\* A pass that ends over the line was over the line before.
LEMMA PassNeverCrosses ==
    ASSUME TypeOK, NEW k \in Keys, NEW amount \in PassDecays, TestPass(k, amount)
    PROVE  /\ Degraded(Total(k))' => Degraded(Total(k))
           /\ \A j \in Keys \ {k} : Total(j)' = Total(j)
<1> DEFINE left == PassRemainder(k, amount)
           q == Effective(k, "quality")
           i == Effective(k, "identity")
<1>1. left \in Scores /\ "quality" \in Pockets /\ Other("quality") = "identity"
    BY PassRemainderRange DEF Pockets, Other
<1>2. Write(k, "quality", left) /\ now' = now
    BY DEF TestPass
<1>3. Total(k)' = left + i /\ \A j \in Keys \ {k} : Total(j)' = Total(j)
  <2> HIDE DEF left
  <2> QED
    BY <1>1, <1>2, EffectiveWritten
<1>4. q \in Nat /\ i \in Nat /\ Total(k) = q + i /\ amount \in Nat
    BY EffectiveRange, ThresholdAssumption, EvidenceAssumption
       DEF Pockets, Scores, Total
<1>5. left + i =< q + i \/ left + i =< ScoreFloor
    BY <1>4, ThresholdAssumption DEF PassRemainder, Larger, Scores
<1>6. left + i >= BreakThreshold => q + i >= BreakThreshold
  <2>1. left \in Int
    BY <1>1 DEF Scores
  <2> HIDE DEF left, q, i
  <2> QED
    BY <1>4, <1>5, <2>1, ThresholdAssumption DEF Scores
<1>7. Total(k)' >= BreakThreshold => Total(k) >= BreakThreshold
    BY <1>3, <1>4, <1>6
<1> QED
    BY <1>3, <1>7 DEF Degraded

LEMMA PassSilent ==
    ASSUME NoLoss, SilentInv, NEW k \in Keys, NEW amount \in PassDecays,
           TestPass(k, amount)
    PROVE  Undisturbed' /\ NoSilentDegrade'
<1>1. UNCHANGED <<pc, job, subs, breaker>> /\ TypeOK
    BY DEF TestPass, SilentInv
<1>2. Undisturbed'
    BY <1>1 DEF SilentInv, Undisturbed, Busy
<1>3. ASSUME NEW j \in Keys
      PROVE  (BreakerEnabled => (Degraded(Total(j)) => breaker[j] \/ PendingTrip(j)))'
  <2>1. Degraded(Total(j))' => Degraded(Total(j))
    BY <1>1, PassNeverCrosses DEF Degraded
  <2>2. PendingTrip(j) => PendingTrip(j)'
    BY <1>1 DEF PendingTrip
  <2> QED
    BY <1>1, <2>1, <2>2, PromiseKept DEF SilentInv
<1> QED
    BY <1>2, <1>3 DEF NoSilentDegrade

LEMMA RulingSilent ==
    ASSUME NoLoss, SilentInv, NEW k \in Keys,
           ClearLedger(k) \/ IdentityCleared(k) \/ BreakerReset(k)
    PROVE  Undisturbed' /\ NoSilentDegrade'
<1>1. UNCHANGED <<pc, job, subs, now>> /\ TypeOK /\ breaker \in [Keys -> BOOLEAN]
    BY DEF ClearLedger, IdentityCleared, BreakerReset, SilentInv, TypeOK
<1>2. Undisturbed'
    BY <1>1 DEF SilentInv, Undisturbed, Busy
<1>3. /\ Total(k)' =< Total(k)
      /\ Total(k)' \in Nat
      /\ ~IdentityCleared(k) => Total(k)' = 0
      /\ \A j \in Keys \ {k} : Total(j)' = Total(j)
    BY <1>1, TotalWiped DEF ClearLedger, IdentityCleared, BreakerReset
<1>4. Total(k) \in Nat
    BY <1>1, TotalType
<1>5. ASSUME NEW j \in Keys
      PROVE  (BreakerEnabled => (Degraded(Total(j)) => breaker[j] \/ PendingTrip(j)))'
  <2>1. Degraded(Total(j))' => Degraded(Total(j))
    BY <1>3, <1>4, ThresholdAssumption DEF Degraded
  <2>2. PendingTrip(j) => PendingTrip(j)'
    BY <1>1 DEF PendingTrip
  <2>3. CASE j # k \/ ~BreakerReset(k)
    <3>1. breaker[j] => breaker'[j]
      BY <1>1, <2>3 DEF ClearLedger, IdentityCleared, BreakerReset
    <3> QED
      BY <1>1, <2>1, <2>2, <3>1, PromiseKept DEF SilentInv
  <2>4. CASE j = k /\ BreakerReset(k)
    <3>1. Total(k)' = 0
      BY <1>1, <2>4, TotalWiped DEF BreakerReset
    <3>2. ~Degraded(Total(k))'
      BY <3>1, ThresholdAssumption DEF Degraded
    <3> QED
      BY <2>4, <3>2
  <2> QED
    BY <2>3, <2>4
<1> QED
    BY <1>2, <1>5 DEF NoSilentDegrade

LEMMA EnvironmentSilent ==
    ASSUME NoLoss, SilentInv,
           Connect \/ Disconnect \/ Crash \/ Shutdown \/ Tick \/ DebounceElapses
    PROVE  Undisturbed' /\ NoSilentDegrade'
<1>1. ~Crash /\ ~Shutdown
    BY DEF NoLoss, Crash, Shutdown
<1>2. UNCHANGED <<pc, job, breaker>> /\ TypeOK
    BY <1>1 DEF Connect, Disconnect, Tick, DebounceElapses, SilentInv
<1>3. Undisturbed'
  <2>1. CASE Connect \/ Disconnect
    BY <1>2, <2>1 DEF Connect, Disconnect, MayChurn, NoLoss, Undisturbed, Busy
  <2>2. CASE Tick \/ DebounceElapses
    BY <1>2, <2>2 DEF Tick, DebounceElapses, SilentInv, Undisturbed, Busy
  <2> QED
    BY <1>1, <2>1, <2>2
<1>4. ASSUME NEW j \in Keys
      PROVE  (BreakerEnabled => (Degraded(Total(j)) => breaker[j] \/ PendingTrip(j)))'
  <2>1. Degraded(Total(j))' => Degraded(Total(j))
    <3>1. CASE Tick
      <4>1. Total(j)' \in Nat /\ Total(j)' =< Total(j) /\ Total(j) \in Nat
        BY <1>2, <3>1, TotalTicks, TotalType
      <4> QED
        BY <4>1, ThresholdAssumption DEF Degraded
    <3>2. CASE Connect \/ Disconnect \/ DebounceElapses
      <4>1. Total(j)' = Total(j)
        BY <3>2, TotalKept DEF Connect, Disconnect, DebounceElapses
      <4> QED
        BY <4>1 DEF Degraded
    <3> QED
      BY <1>1, <3>1, <3>2
  <2>2. PendingTrip(j) => PendingTrip(j)'
    BY <1>2 DEF PendingTrip
  <2> QED
    BY <1>2, <2>1, <2>2, PromiseKept DEF SilentInv
<1> QED
    BY <1>3, <1>4 DEF NoSilentDegrade

LEMMA NextSilent ==
    ASSUME NoLoss
    PROVE  SilentInv /\ [Next]_vars => SilentInv'
<1> SUFFICES ASSUME SilentInv, [Next]_vars PROVE SilentInv'
    OBVIOUS
<1>1. TypeOK'
    BY NextType DEF SilentInv
<1>2. ASSUME NEW t \in Requests, NEW k \in Keys, QualityHit(t, k) \/ TestFailure(t, k)
      PROVE  Undisturbed' /\ NoSilentDegrade'
  <2>1. t \in Tasks /\ "quality" \in Pockets
    BY DEF Tasks, Pockets
  <2>2. PICK gained \in Int, float \in BOOLEAN, trip \in BOOLEAN :
            AddSuspicion(t, k, "quality", gained, float, trip)
    <3>1. CASE QualityHit(t, k)
      <4>1. HitScores \cup FloatScores \subseteq Int
        BY EvidenceAssumption
      <4> QED
        BY <3>1, <4>1 DEF QualityHit
    <3>2. CASE TestFailure(t, k)
      <4>1. \A s \in FailScores :
                /\ Larger(s, BreakThreshold - Total(k)) \in Int
                /\ (s >= BreakThreshold - Total(k)) \in BOOLEAN
        BY EvidenceAssumption, ThresholdAssumption, TotalType DEF Larger, SilentInv
      <4> QED
        BY <3>2, <4>1 DEF TestFailure
    <3> QED
      BY <1>2, <3>1, <3>2
  <2> QED
    BY <2>1, <2>2, AddSuspicionSilent
<1>3. ASSUME NEW k \in Keys, IdentityHit(k)
      PROVE  Undisturbed' /\ NoSilentDegrade'
  <2>1. Loop \in Tasks /\ "identity" \in Pockets
    BY DEF Tasks, Pockets
  <2>2. PICK w \in ProbeWeights : AddSuspicion(Loop, k, "identity", w, TRUE, FALSE)
    BY <1>3 DEF IdentityHit
  <2>3. w \in Int
    BY EvidenceAssumption
  <2> QED
    BY <2>1, <2>2, <2>3, AddSuspicionSilent
<1>4. ASSUME NEW t \in Tasks, TaskStep(t)
      PROVE  Undisturbed' /\ NoSilentDegrade'
    BY <1>4, TaskStepSilent
<1>5. ASSUME NEW k \in Keys, NEW amount \in PassDecays, TestPass(k, amount)
      PROVE  Undisturbed' /\ NoSilentDegrade'
    BY <1>5, PassSilent
<1>6. ASSUME NEW k \in Keys, ClearLedger(k) \/ IdentityCleared(k) \/ BreakerReset(k)
      PROVE  Undisturbed' /\ NoSilentDegrade'
    BY <1>6, RulingSilent
<1>7. ASSUME Connect \/ Disconnect \/ Crash \/ Shutdown \/ Tick \/ DebounceElapses
      PROVE  Undisturbed' /\ NoSilentDegrade'
    BY <1>7, EnvironmentSilent
<1>8. ASSUME UNCHANGED vars
      PROVE  Undisturbed' /\ NoSilentDegrade'
    BY <1>8 DEF vars, SilentInv, Undisturbed, Busy, NoSilentDegrade, Degraded,
       Total, Effective, PendingTrip
<1> QED
    BY <1>1, <1>2, <1>3, <1>4, <1>5, <1>6, <1>7, <1>8 DEF Next, SilentInv

LEMMA InitSilent == Init => SilentInv
<1> SUFFICES ASSUME Init PROVE SilentInv
    OBVIOUS
<1>1. TypeOK
    BY InitType
<1>2. Undisturbed
    BY DEF Init, Undisturbed, Busy, Publishing
<1>3. ASSUME NEW k \in Keys
      PROVE  ~Degraded(Total(k))
  <2>1. \A p \in Pockets : ledger[k][p].score = 0
    BY DEF Init, BlankPockets, Blank
  <2>2. \A p \in Pockets : Effective(k, p) = 0
    BY <1>1, <2>1, EffectiveRange, ThresholdAssumption DEF Scores
  <2> QED
    BY <2>2, ThresholdAssumption DEF Total, Degraded, Pockets
<1> QED
    BY <1>1, <1>2, <1>3 DEF SilentInv, NoSilentDegrade

\* While no handler is lost (no dashboard comes or goes during a publish, the
\* process stays up, no float meets the log line), a key over the line is
\* blocked or about to be, for any decay curve and any number of handlers.
THEOREM NeverSilentlyDegraded ==
    ASSUME NoLoss
    PROVE  Spec => []NoSilentDegrade
<1>1. SilentInv /\ [Next]_vars => SilentInv'
    BY NextSilent
<1>2. SilentInv => NoSilentDegrade
    BY DEF SilentInv
<1> QED
    BY <1>1, <1>2, InitSilent, PTL DEF Spec

-----------------------------------------------------------------------------
(* CleanMeansSaved: the debounce only ever forgets pockets it marked dirty.  *)

\* The part of CleanMeansSaved that speaks of one key.
SavedKey(k) ==
    \/ ruling[k] = "reset"
    \/ \E t \in Tasks : Busy(t) /\ job[t].key = k
    \/ disk.ledger[k] = ledger[k]

LEMMA AddSuspicionClean ==
    ASSUME NoLoss, SilentInv, CleanMeansSaved, NEW t \in Tasks, NEW k \in Keys,
           NEW p, NEW gained, NEW float, NEW trip,
           AddSuspicion(t, k, p, gained, float, trip)
    PROVE  CleanMeansSaved'
<1> DEFINE climbed == Climb(Total(k), Larger(Effective(k, p) + gained, 0)
                                        + Effective(k, Other(p)))
           record  == [key |-> k, climbed |-> climbed, trip |-> trip, subs |-> subs]
<1>1. /\ pc[t] = "idle" /\ pc' = [pc EXCEPT ![t] = "suspicion"]
      /\ job' = [job EXCEPT ![t] = record]
      /\ UNCHANGED <<disk, dirty>>
      /\ \A j \in Keys \ {k} : ledger'[j] = ledger[j] /\ ruling'[j] = ruling[j]
  <2>1. /\ ledger \in [Keys -> [Pockets -> Entries]]
        /\ ruling \in [Keys -> {"none", "cleared", "reset"}]
    BY DEF SilentInv, TypeOK, Stamped
  <2>2. /\ \A j \in Keys \ {k} : ledger'[j] = ledger[j]
        /\ \A j \in Keys \ {k} : ruling'[j] = ruling[j]
    BY <2>1 DEF AddSuspicion, Write
  <2> QED
    BY <2>2 DEF NoLoss, AddSuspicion
<1> HIDE DEF climbed
<1>2. /\ pc \in [Tasks -> Publishing \cup {"idle", "dead"}]
      /\ job \in [Tasks -> Jobs \cup {NoJob}]
    BY DEF SilentInv, TypeOK, HandlersOK
<1>3. Busy(t)' /\ job'[t].key = k
    BY <1>1, <1>2 DEF Busy, Publishing
<1>4. ASSUME NEW j \in Keys \ {k}, ~dirty, SavedKey(j)
      PROVE  SavedKey(j)'
  <2>1. ASSUME NEW u \in Tasks, Busy(u), job[u].key = j
        PROVE  Busy(u)' /\ job'[u].key = j
    BY <1>1, <1>2, <2>1 DEF Busy, Publishing
  <2> QED
    BY <1>1, <1>4, <2>1 DEF SavedKey
<1> QED
    BY <1>1, <1>3, <1>4 DEF CleanMeansSaved, SavedKey

LEMMA TaskStepClean ==
    ASSUME NoLoss, SilentInv, CleanMeansSaved, NEW t \in Tasks, TaskStep(t)
    PROVE  CleanMeansSaved'
<1>1. /\ pc \in [Tasks -> Publishing \cup {"idle", "dead"}]
      /\ job \in [Tasks -> Jobs \cup {NoJob}]
    BY DEF SilentInv, TypeOK, HandlersOK
<1>2. ~Abort(t) /\ Busy(t) /\ UNCHANGED <<ledger, ruling>>
    BY DEF NoLoss, SilentInv, Undisturbed, TaskStep, AnnounceLevel, AnnounceAlert,
           Trip, Settle, Abort, Published
<1>3. CASE Settle(t)
    BY <1>2, <1>3 DEF Settle, SaveSoon, MarkOnly, Flush, CleanMeansSaved
<1>4. CASE AnnounceLevel(t) \/ AnnounceAlert(t) \/ Trip(t)
  <2>1. job[t] \in Jobs
    BY <1>2 DEF SilentInv, TypeOK, HandlersOK
  <2>2. /\ UNCHANGED <<disk, dirty>>
        /\ \A u \in Tasks : Busy(u) => Busy(u)' /\ job'[u].key = job[u].key
    BY <1>1, <1>4, <2>1
       DEF AnnounceLevel, AnnounceAlert, Trip, GoOn, Busy, Publishing, Jobs
  <2> QED
    BY <1>2, <2>2 DEF CleanMeansSaved
<1> QED
    BY <1>2, <1>3, <1>4 DEF TaskStep

LEMMA NextClean ==
    ASSUME NoLoss, SilentInv, CleanMeansSaved, [Next]_vars
    PROVE  CleanMeansSaved'
<1>1. ASSUME NEW t \in Requests, NEW k \in Keys, QualityHit(t, k) \/ TestFailure(t, k)
      PROVE  CleanMeansSaved'
  <2>1. t \in Tasks
    BY DEF Tasks
  <2> QED
    BY <1>1, <2>1, AddSuspicionClean DEF QualityHit, TestFailure
<1>2. ASSUME NEW k \in Keys, IdentityHit(k)
      PROVE  CleanMeansSaved'
  <2>1. Loop \in Tasks
    BY DEF Tasks
  <2> QED
    BY <1>2, <2>1, AddSuspicionClean DEF IdentityHit
<1>3. ASSUME NEW t \in Tasks, TaskStep(t)
      PROVE  CleanMeansSaved'
    BY <1>3, TaskStepClean
<1>4. ASSUME NEW k \in Keys, NEW amount \in PassDecays, TestPass(k, amount)
      PROVE  CleanMeansSaved'
    BY <1>4 DEF TestPass, SaveSoon, MarkOnly, Flush, CleanMeansSaved
<1>5. ASSUME NEW k \in Keys, ClearLedger(k) \/ IdentityCleared(k)
      PROVE  CleanMeansSaved'
    BY <1>5 DEF ClearLedger, IdentityCleared, SaveRuling, Flush, CleanMeansSaved
<1>6. ASSUME NEW k \in Keys, BreakerReset(k)
      PROVE  CleanMeansSaved'
  <2>1. /\ UNCHANGED <<pc, job, disk, dirty>>
        /\ \A j \in Keys : \/ ruling'[j] = "reset"
                           \/ ledger'[j] = ledger[j] /\ ruling'[j] = ruling[j]
    BY <1>6 DEF BreakerReset, SilentInv, TypeOK, Stamped
  <2> QED
    BY <2>1 DEF CleanMeansSaved, Busy
<1>7. ASSUME Connect \/ Disconnect \/ Tick \/ DebounceElapses \/ UNCHANGED vars
      PROVE  CleanMeansSaved'
    BY <1>7 DEF Connect, Disconnect, Tick, DebounceElapses, vars, CleanMeansSaved, Busy
<1>8. ~Crash /\ ~Shutdown
    BY DEF NoLoss, Crash, Shutdown
<1> QED
    BY <1>1, <1>2, <1>3, <1>4, <1>5, <1>6, <1>7, <1>8 DEF Next

\* While no handler is lost, a clear dirty flag can be believed: every pocket
\* that no handler works on and no reset emptied is in ledger.json.
THEOREM CleanLedgerIsOnDisk ==
    ASSUME NoLoss
    PROVE  Spec => []CleanMeansSaved
<1>1. ASSUME Init PROVE CleanMeansSaved
  <2>1. disk.ledger = ledger
    BY <1>1 DEF Init
  <2> QED
    BY <2>1 DEF CleanMeansSaved
<1>2. SilentInv /\ CleanMeansSaved /\ [Next]_vars => CleanMeansSaved'
    BY NextClean
<1> QED
    BY <1>1, <1>2, InitSilent, NextSilent, PTL DEF Spec

-----------------------------------------------------------------------------
(* ClearedStaysCleared and PassKeepsFloor hold under every fault.            *)

LEMMA NextCleared ==
    TypeOK /\ ClearedStaysCleared /\ [Next]_vars => ClearedStaysCleared'
<1> SUFFICES ASSUME TypeOK, ClearedStaysCleared, [Next]_vars
             PROVE  ClearedStaysCleared'
    OBVIOUS
<1> DEFINE Kept(k) == ruling'[k] = "cleared" =>
                          ledger'[k] = BlankPockets /\ disk'.ledger[k] = BlankPockets
<1>1. /\ ledger \in [Keys -> [Pockets -> Entries]]
      /\ ruling \in [Keys -> {"none", "cleared", "reset"}]
    BY DEF TypeOK, Stamped
<1>2. ASSUME \A k \in Keys : ruling'[k] = "cleared" => ledger'[k] = BlankPockets,
             \/ UNCHANGED <<disk, ruling>> \/ Flush
             \/ /\ disk' = disk
                /\ \A k \in Keys : ruling'[k] = "cleared" => ruling[k] = "cleared"
      PROVE  \A k \in Keys : Kept(k)
    BY <1>2 DEF ClearedStaysCleared, Flush
<1>3. ASSUME NEW t, NEW j \in Keys, NEW p \in Pockets, NEW s, NEW float, NEW trip,
             AddSuspicion(t, j, p, s, float, trip)
      PROVE  \A k \in Keys : Kept(k)
  <2>1. /\ ruling' = [ruling EXCEPT ![j] = "none"]
        /\ disk' = disk
        /\ \A k \in Keys \ {j} : ledger'[k] = ledger[k]
    BY <1>1, <1>3 DEF AddSuspicion, Write
  <2> QED
    BY <1>1, <1>2, <2>1 DEF ClearedStaysCleared
<1>4. ASSUME NEW t \in Tasks, TaskStep(t)
      PROVE  \A k \in Keys : Kept(k)
  <2>1. UNCHANGED <<ledger, ruling>> /\ (disk' = disk \/ Flush)
    BY <1>4 DEF TaskStep, AnnounceLevel, AnnounceAlert, Trip, Settle, Abort,
                SaveSoon, MarkOnly
  <2> QED
    BY <1>2, <2>1 DEF ClearedStaysCleared
<1>5. ASSUME NEW j \in Keys, NEW amount \in PassDecays, TestPass(j, amount)
      PROVE  \A k \in Keys : Kept(k)
  <2>1. /\ ruling' = [ruling EXCEPT ![j] = "none"]
        /\ disk' = disk \/ Flush
        /\ \A k \in Keys \ {j} : ledger'[k] = ledger[k]
    BY <1>1, <1>5 DEF TestPass, Write, SaveSoon, MarkOnly
  <2> QED
    BY <1>1, <1>2, <2>1 DEF ClearedStaysCleared
<1>6. ASSUME NEW j \in Keys, ClearLedger(j) \/ IdentityCleared(j) \/ BreakerReset(j)
      PROVE  \A k \in Keys : Kept(k)
  <2>1. CASE ClearLedger(j)
    BY <1>1, <1>2, <2>1 DEF ClearLedger, SaveRuling, ClearedStaysCleared
  <2>2. CASE IdentityCleared(j)
    <3>1. ruling[j] # "cleared"
      BY <2>2 DEF IdentityCleared, ClearedStaysCleared, BlankPockets, Blank, Pockets
    <3> QED
      BY <1>1, <1>2, <2>2, <3>1 DEF IdentityCleared, SaveRuling, ClearedStaysCleared
  <2>3. CASE BreakerReset(j)
    BY <1>1, <1>2, <2>3 DEF BreakerReset, ClearedStaysCleared
  <2> QED
    BY <1>6, <2>1, <2>2, <2>3
<1>7. ASSUME Connect \/ Disconnect \/ Tick \/ DebounceElapses \/ UNCHANGED vars
      PROVE  \A k \in Keys : Kept(k)
    BY <1>7 DEF Connect, Disconnect, Tick, DebounceElapses, vars, ClearedStaysCleared
<1>8. ASSUME Crash \/ Shutdown
      PROVE  \A k \in Keys : Kept(k)
  <2>1. CASE Crash
    BY <2>1 DEF Crash, Start, ClearedStaysCleared
  <2>2. CASE Shutdown
    BY <2>2 DEF Shutdown, Start, ClearedStaysCleared
  <2> QED
    BY <1>8, <2>1, <2>2
<1>9. \A k \in Keys : Kept(k)
  <2>1. "quality" \in Pockets /\ "identity" \in Pockets
    BY DEF Pockets
  <2>2. ASSUME NEW t \in Requests, NEW k \in Keys, QualityHit(t, k) \/ TestFailure(t, k)
        PROVE  \A j \in Keys : Kept(j)
    BY <1>3, <2>1, <2>2 DEF QualityHit, TestFailure
  <2>3. ASSUME NEW k \in Keys, IdentityHit(k)
        PROVE  \A j \in Keys : Kept(j)
    BY <1>3, <2>1, <2>3 DEF IdentityHit
  <2> QED
    BY <1>4, <1>5, <1>6, <1>7, <1>8, <2>2, <2>3 DEF Next
<1> QED
    BY <1>9 DEF ClearedStaysCleared

\* A feedback clears a key for good: whatever crashes or disconnects follow, the
\* wiped scores come back neither in memory nor in ledger.json.
THEOREM ClearingIsDurable == Spec => []ClearedStaysCleared
<1>1. Init => ClearedStaysCleared
    BY DEF Init, ClearedStaysCleared
<1> QED
    BY <1>1, InitType, NextType, NextCleared, PTL DEF Spec

\* No pass washes a total through the floor or touches the identity pocket.
\* (The code does more: it leaves every total at the floor at least, <1>1.)
THEOREM PassesKeepTheFloor == Spec => PassKeepsFloor
<1>1. ASSUME TypeOK, NEW k \in Keys, NEW amount \in PassDecays, TestPass(k, amount)
      PROVE  /\ Total(k)' >= ScoreFloor
             /\ ledger'[k]["identity"] = ledger[k]["identity"]
  <2> DEFINE left == PassRemainder(k, amount)
  <2>1. /\ left \in Scores /\ left + Effective(k, "identity") >= ScoreFloor
        /\ "quality" \in Pockets /\ "identity" \in Pockets
        /\ Other("quality") = "identity"
    BY <1>1, PassRemainderRange DEF Pockets, Other
  <2>2. Write(k, "quality", left) /\ now' = now
    BY <1>1 DEF TestPass
  <2> HIDE DEF left
  <2>3. Total(k)' = left + Effective(k, "identity")
    BY <1>1, <2>1, <2>2, EffectiveWritten
  <2>4. ledger'[k]["identity"] = ledger[k]["identity"]
    BY <1>1, <2>1, <2>2, WriteEffect
  <2> QED
    BY <2>1, <2>3, <2>4
<1>2. TypeOK /\ [Next]_vars =>
        [\A k \in Keys, amount \in PassDecays : TestPass(k, amount) =>
              /\ Total(k) >= ScoreFloor => Total(k)' >= ScoreFloor
              /\ ledger'[k]["identity"] = ledger[k]["identity"]]_vars
    BY <1>1
<1> QED
    BY <1>2, TypeCorrect, PTL DEF Spec, PassKeepsFloor
-----------------------------------------------------------------------------
(* BreakerOutlives: no step but a reset closes a saved breaker.              *)

\* A step that neither resets the key nor restarts the process leaves its
\* breaker open; a restart goes by the snapshot it starts from.
LEMMA BreakerStep ==
    ASSUME TypeOK, [Next]_vars, NEW k \in Keys, breaker[k], ~breaker'[k],
           disk.breaker[k] \/ ~Crash
    PROVE  BreakerReset(k)
<1>1. breaker \in [Keys -> BOOLEAN]
    BY DEF TypeOK
<1>2. ~UNCHANGED breaker
    OBVIOUS
<1>3. ~UNCHANGED vars
    BY <1>2 DEF vars
<1>4. ~Crash /\ ~Shutdown
    BY DEF Crash, Shutdown, Start
<1>5. ASSUME NEW t \in Tasks, TaskStep(t)
      PROVE  FALSE
  <2>1. CASE Trip(t)
    BY <1>1, <2>1 DEF Trip
  <2>2. CASE Settle(t)
    BY <1>1, <2>2 DEF Settle
  <2> QED
    BY <1>2, <1>5, <2>1, <2>2 DEF TaskStep, AnnounceLevel, AnnounceAlert, Abort
<1>6. ASSUME NEW j \in Keys, BreakerReset(j)
      PROVE  j = k
    BY <1>1, <1>6 DEF BreakerReset
<1> QED
    BY <1>2, <1>3, <1>4, <1>5, <1>6
       DEF Next, QualityHit, IdentityHit, TestFailure, AddSuspicion, TestPass, ClearLedger,
           IdentityCleared, Connect, Disconnect, Tick, DebounceElapses

\* Whatever is lost on the way, an open breaker is closed by a human's reset and
\* by nothing else, as long as the process stops gracefully or had saved it.
THEOREM OnlyResetCloses == Spec => BreakerOutlives
<1>1. TypeOK /\ [Next]_vars =>
        [\A k \in Keys :
            /\ breaker[k] /\ ~breaker'[k]
            /\ disk.breaker[k] \/ ~Crash
            => BreakerReset(k)]_vars
    BY BreakerStep
<1> QED
    BY <1>1, TypeCorrect, PTL DEF Spec, BreakerOutlives
=============================================================================
