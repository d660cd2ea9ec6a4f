--------------------------- MODULE LifecycleProofs ---------------------------
(* Theorems about Lifecycle, for every set of checkers, reporters and bodies, *)
(* every window, cold start and number of votes.                              *)
EXTENDS Lifecycle, FiniteSetTheorems, TLAPS

-----------------------------------------------------------------------------
(* The types that the invariants below need.                                *)

RetiringStates ==
    {Nobody} \cup [phase : {"move", "sidecar", "log"}, left : SUBSET Kinds, record : Records,
                   at : Moments \cup {Never}, votes : SUBSET Records]

CollectorStates ==
    {Nobody} \cup [phase : {"sidecar"}, kind : Kinds] \cup [phase : {"event", "marker"}]

RoundStates ==
    {Resting} \cup [phase : {"cycle"}]
    \cup [phase : {"ask", "answer"}, left : SUBSET Kinds]

\* A retirement that has not been marked yet has a moment left to be marked in.
TypeInv ==
    /\ TypeOK
    /\ retiring \in RetiringStates
    /\ collector \in CollectorStates
    /\ round \in RoundStates
    /\ spent \subseteq Records
    /\ retiring.phase \in {"move", "sidecar"} => now =< MaxTime
    /\ retiring.phase = "sidecar" => retiring.left # {}
    /\ retiring.phase = "log" => retiring.at # Never
    /\ retiring.phase # "none" => retiring.at < now

LEMMA Constants ==
    /\ MaxTime \in Nat /\ MaxEpoch \in Nat /\ Moments \subseteq Nat
    /\ Moments = 0..(MaxTime + 1)
    /\ Never \notin Moments /\ Never = -1
    /\ Window \in Nat /\ ColdEvents \in Nat /\ Votes \in Nat \ {0}
    /\ Weights \subseteq Nat /\ Unknown \in Weights /\ First \in Kinds
    /\ Reporters \cap Operators = {}
BY LifecycleAssumption DEF Moments, Never

LEMMA NobodyIsNot ==
    /\ Nobody \notin [phase : {"move", "sidecar", "log"}, left : SUBSET Kinds, record : Records,
                      at : Moments \cup {Never}, votes : SUBSET Records]
    /\ Nobody.phase = "none" /\ Resting.phase = "none"
    /\ Nobody \notin [phase : {"sidecar"}, kind : Kinds]
    /\ Nobody \notin [phase : {"event", "marker"}]
    /\ Resting \notin [phase : {"cycle"}]
    /\ Resting \notin [phase : {"ask", "answer"}, left : SUBSET Kinds]
BY DEF Nobody, Resting

\* A retirement under way has a record; its phase is none of Nobody's.
LEMMA RetiringFields ==
    ASSUME TypeInv, retiring.phase \in {"move", "sidecar", "log"}
    PROVE  /\ retiring # Nobody
           /\ retiring \in [phase : {"move", "sidecar", "log"}, left : SUBSET Kinds, record : Records,
                   at : Moments \cup {Never}, votes : SUBSET Records]
BY NobodyIsNot DEF TypeInv, RetiringStates

LEMMA CachedType ==
    ASSUME TypeOK
    PROVE  Recomputed(ref, side, marker, now) \in [level : Levels, retired : Moments \cup {Never}]
<1>1. LevelOf(ref, side, now) \in Levels
    BY DEF LevelOf, LevelFor, Levels
<1>2. RetiredAt(ref, marker) \in Moments \cup {Never}
    BY DEF RetiredAt, TypeOK
<1> QED
    BY <1>1, <1>2 DEF Recomputed

LEMMA ConfirmationType ==
    ASSUME TypeOK, now < MaxTime, NEW who \in Voters, NEW body \in Bodies
    PROVE  /\ Confirmation(who, body) \in Records
           /\ Confirmation(who, body).at = now
           /\ Confirmation(who, body).who = who
           /\ Confirmation(who, body).body = body
           /\ Confirmation(who, body).epoch = epoch
BY Constants DEF TypeOK, Confirmation, Records

LEMMA RecordTypes ==
    ASSUME NEW c \in Records
    PROVE  /\ c.at \in Nat /\ c.epoch \in Nat /\ <<c.who, c.body>> \in Voters \X Bodies
           /\ c.who \in Voters /\ c.body \in Bodies
BY Constants DEF Records

LEMMA InitType == Init => TypeInv
<1> SUFFICES ASSUME Init PROVE TypeInv
    OBVIOUS
<1>1. /\ now = 0 /\ now \in Moments /\ 0 \in Nat
      /\ ref \in [Kinds -> Moments \cup {Never}]
      /\ side \in [Kinds -> [weight : Weights, at : Moments] \cup {NoSide}]
      /\ marker \in Moments \cup {Never}
    BY Constants DEF Init
<1>2. \A k \in Kinds : ref[k] < now /\ side[k].at < now
    BY Constants DEF Init, NoSide
<1>3. /\ confirms \in [Voters \X Bodies -> Moments \cup {Never}]
      /\ \A p \in Voters \X Bodies : confirms[p] < now
    BY Constants DEF Init
<1>4. cached \in [level : Levels, retired : Moments \cup {Never}]
  <2>1. LevelOf(ref, side, 0) \in Levels
    BY DEF LevelOf, LevelFor, Levels
  <2>2. RetiredAt(ref, marker) \in Moments \cup {Never}
    BY <1>1 DEF RetiredAt
  <2> QED
    BY <2>1, <2>2 DEF Recomputed, Init
<1>5. TypeOK
    BY <1>1, <1>2, <1>3, <1>4, Constants DEF Init, TypeOK
<1>6. /\ retiring = Nobody /\ collector = Nobody /\ round = Resting /\ spent = {}
      /\ retiring.phase = "none"
    BY NobodyIsNot DEF Init
<1> QED
    BY <1>5, <1>6 DEF TypeInv, RetiringStates, CollectorStates, RoundStates

\* A step that takes a moment leaves every stamp in the past.
LEMMA StampMoves ==
    ASSUME TypeInv, Stamp
    PROVE  /\ now \in Moments /\ now' \in Moments /\ now' = now + 1
           /\ now < MaxTime /\ now' =< MaxTime
           /\ \A t \in Moments \cup {Never} : t < now => t < now'
           /\ \A k \in Kinds : ref[k] < now' /\ side[k].at < now'
           /\ \A p \in Voters \X Bodies : confirms[p] < now'
           /\ marker < now'
           /\ retiring.phase # "none" => retiring.at < now'
<1>1. /\ now \in Moments /\ now \in Nat /\ now < MaxTime /\ now' = now + 1
    BY Constants DEF Stamp, TypeInv, TypeOK
<1>2. now' \in Moments /\ now' =< MaxTime
    BY <1>1, Constants
<1>3. \A t \in Moments \cup {Never} : t < now => t < now'
    BY <1>1, Constants
<1>4. \A k \in Kinds : ref[k] < now'
    BY <1>3 DEF TypeInv, TypeOK
<1>5. \A k \in Kinds : side[k].at < now'
  <2> TAKE k \in Kinds
  <2>1. side[k].at \in Moments \cup {Never} /\ side[k].at < now
    BY DEF TypeInv, TypeOK, NoSide
  <2> QED
    BY <1>3, <2>1
<1>6. (\A p \in Voters \X Bodies : confirms[p] < now') /\ marker < now'
    BY <1>3 DEF TypeInv, TypeOK
<1>7. retiring.phase # "none" => retiring.at < now'
  <2> SUFFICES ASSUME retiring.phase # "none" PROVE retiring.at < now'
    OBVIOUS
  <2>1. retiring.phase \in {"move", "sidecar", "log"}
    BY NobodyIsNot DEF TypeInv, RetiringStates
  <2>2. retiring.at \in Moments \cup {Never} /\ retiring.at < now
    BY <2>1, RetiringFields DEF TypeInv
  <2> QED
    BY <1>3, <2>2
<1> QED
    BY <1>1, <1>2, <1>3, <1>4, <1>5, <1>6, <1>7

LEMMA FeedbackType == TypeInv /\ Feedback => TypeInv'
<1> SUFFICES ASSUME TypeInv, Feedback PROVE TypeInv'
    OBVIOUS
<1> USE DEF files, memory, history
<1>1. ASSUME NEW who \in Voters, NEW body \in Bodies, ConfirmAgain(who, body)
      PROVE  TypeInv'
  <2>1. /\ Stamp /\ retiring.phase = "none"
        /\ confirms' \in [Voters \X Bodies -> Moments \cup {Never}]
    BY <1>1, NobodyIsNot DEF ConfirmAgain, LoopFree, TypeInv, TypeOK
  <2>2. \A p \in Voters \X Bodies : confirms'[p] \in {confirms[p], Never}
    BY <1>1 DEF ConfirmAgain
  <2>3. \A p \in Voters \X Bodies : confirms'[p] < now'
    BY <2>1, <2>2, StampMoves, Constants
  <2> QED
    BY <1>1, <2>1, <2>3, StampMoves DEF ConfirmAgain, TypeInv, TypeOK
<1>2. ASSUME NEW who \in Voters, NEW body \in Bodies, Remember(<<who, body>>), Stamp
      PROVE  /\ confirms' \in [Voters \X Bodies -> Moments \cup {Never}]
             /\ \A p \in Voters \X Bodies : confirms'[p] < now'
  <2>1. /\ confirms' \in [Voters \X Bodies -> Moments \cup {Never}]
        /\ \A p \in Voters \X Bodies : confirms'[p] \in {now, confirms[p], Never}
    BY <1>2 DEF Remember, TypeInv, TypeOK
  <2> QED
    BY <1>2, <2>1, StampMoves, Constants
<1>3. ASSUME NEW who \in Voters, NEW body \in Bodies, Vote(who, body)
      PROVE  TypeInv'
  <2>1. Remember(<<who, body>>) /\ Stamp /\ retiring.phase = "none"
    BY <1>3, NobodyIsNot DEF Vote, LoopFree
  <2>2. Confirmation(who, body) \in Records
    BY <2>1, ConfirmationType DEF Stamp, TypeInv
  <2> QED
    BY <1>2, <1>3, <2>1, <2>2, StampMoves DEF Vote, TypeInv, TypeOK
<1>4. ASSUME NEW who \in Voters, NEW body \in Bodies, Retire(who, body)
      PROVE  TypeInv'
  <2>1. Remember(<<who, body>>) /\ Stamp
    BY <1>4 DEF Retire
  <2>2. Confirmation(who, body) \in Records
    BY <2>1, ConfirmationType DEF Stamp, TypeInv
  <2>3. Counted \in SUBSET Records
    BY DEF Counted, TypeInv, TypeOK
  <2>4. /\ retiring'.phase = "move" /\ retiring'.at = Never
        /\ retiring' \in RetiringStates
    BY <1>4, <2>2, <2>3 DEF Retire, RetiringStates
  <2> QED
    BY <1>2, <1>4, <2>1, <2>4, StampMoves, Constants DEF Retire, TypeInv, TypeOK
<1>5. CASE MoveReference
  <2>1. /\ retiring' \in RetiringStates /\ retiring'.phase \in {"move", "sidecar"}
        /\ retiring'.at = retiring.at
        /\ retiring'.phase = "sidecar" => retiring'.left # {}
    BY <1>5, RetiringFields DEF MoveReference, RetiringStates
  <2>2. /\ ref' \in [Kinds -> Moments \cup {Never}]
        /\ \A k \in Kinds : ref'[k] < now
    <3>1. ref' = [ref EXCEPT ![Current] = Never] /\ ref \in [Kinds -> Moments \cup {Never}]
      BY <1>5 DEF MoveReference, TypeInv, TypeOK
    <3>2. \A k \in Kinds : ref'[k] \in {ref[k], Never}
      BY <3>1
    <3>3. Never < now
      BY Constants DEF TypeInv, TypeOK
    <3> QED
      BY <3>1, <3>2, <3>3 DEF TypeInv, TypeOK
  <2>3. stale' \in Nat /\ now =< MaxTime
    BY <1>5 DEF MoveReference, TypeInv, TypeOK
  <2>4. retiring.phase = "move"
    BY <1>5 DEF MoveReference
  <2> QED
    BY <1>5, <2>1, <2>2, <2>3, <2>4 DEF MoveReference, TypeInv, TypeOK
<1>9. CASE MoveSidecar
  <2>1. /\ retiring' \in RetiringStates /\ retiring'.phase = "move"
        /\ retiring'.at = retiring.at
    BY <1>9, RetiringFields DEF MoveSidecar, RetiringStates
  <2>2. /\ side' \in [Kinds -> [weight : Weights, at : Moments] \cup {NoSide}]
        /\ \A k \in Kinds : side'[k].at < now
    <3>1. side' = [side EXCEPT ![Current] = NoSide]
      BY <1>9 DEF MoveSidecar
    <3>2. \A k \in Kinds : side'[k] \in {side[k], NoSide}
      BY <3>1 DEF TypeInv, TypeOK
    <3>3. Never < now /\ NoSide.at = Never
      BY Constants DEF TypeInv, TypeOK, NoSide
    <3> QED
      BY <3>1, <3>2, <3>3 DEF TypeInv, TypeOK
  <2>3. retiring.phase = "sidecar" /\ now =< MaxTime
    BY <1>9 DEF MoveSidecar, TypeInv
  <2> QED
    BY <1>9, <2>1, <2>2, <2>3 DEF MoveSidecar, TypeInv, TypeOK
<1>6. CASE MarkRetired
  <2>1. /\ now \in Moments /\ now \in Nat /\ now' = now + 1 /\ now =< MaxTime
        /\ marker' = now
    BY <1>6, Constants DEF MarkRetired, TypeInv, TypeOK
  <2>2. /\ retiring' \in RetiringStates /\ retiring'.phase = "log"
        /\ retiring'.at = now /\ retiring.votes \subseteq Records
    BY <1>6, <2>1, RetiringFields DEF MarkRetired, RetiringStates
  <2>3. now' \in Moments /\ now < now' /\ \A t \in Moments \cup {Never} : t < now => t < now'
    BY <2>1, Constants
  <2>4. \A k \in Kinds : ref[k] < now' /\ side[k].at < now'
    BY <2>3 DEF TypeInv, TypeOK, NoSide
  <2>5. \A p \in Voters \X Bodies : confirms[p] < now'
    BY <2>3 DEF TypeInv, TypeOK
  <2> QED
    BY <1>6, <2>1, <2>2, <2>3, <2>4, <2>5, Constants DEF MarkRetired, TypeInv, TypeOK
<1>7. CASE LogRetired
  <2>1. retiring.record \in Records /\ retiring.at \in Moments \cup {Never}
    BY <1>7, RetiringFields DEF LogRetired
  <2>2. cached' \in [level : Levels, retired : Moments \cup {Never}]
    BY <1>7, <2>1, CachedType DEF LogRetired, TypeInv
  <2>3. events' \in Nat /\ retiring' = Nobody
    BY <1>7 DEF LogRetired, TypeInv, TypeOK
  <2> QED
    BY <1>7, <2>1, <2>2, <2>3, NobodyIsNot DEF LogRetired, TypeInv, TypeOK, RetiringStates
<1>8. CASE RecordRetirement
    BY <1>8 DEF RecordRetirement, TypeInv, TypeOK
<1> QED
    BY <1>1, <1>3, <1>4, <1>5, <1>6, <1>7, <1>8, <1>9 DEF Feedback, Confirm, WriteDown

LEMMA CollectType == TypeInv /\ Collect => TypeInv'
<1> SUFFICES ASSUME TypeInv, Collect PROVE TypeInv'
    OBVIOUS
<1> USE DEF files, memory, history
<1>1. ASSUME NEW k \in Kinds, WriteReference(k)
      PROVE  TypeInv'
  <2>1. collector' \in CollectorStates
    BY <1>1 DEF WriteReference, CollectorStates
  <2>2. ref' \in [Kinds -> Moments \cup {Never}] /\ \A j \in Kinds : ref'[j] < now'
    <3>1. ref' = [ref EXCEPT ![k] = now] /\ Stamp /\ now \in Moments /\ now < now'
      BY <1>1, StampMoves, Constants DEF WriteReference
    <3>2. \A j \in Kinds : ref'[j] \in {ref[j], now}
      BY <3>1 DEF TypeInv, TypeOK
    <3> QED
      BY <3>1, <3>2, StampMoves DEF TypeInv, TypeOK
  <2> QED
    BY <1>1, <2>1, <2>2, StampMoves DEF WriteReference, TypeInv, TypeOK
<1>2. ASSUME NEW w \in Weights, WriteSidecar(w)
      PROVE  TypeInv'
  <2>1. collector' \in CollectorStates
    BY <1>2 DEF WriteSidecar, CollectorStates
  <2>2. /\ side' \in [Kinds -> [weight : Weights, at : Moments] \cup {NoSide}]
        /\ \A j \in Kinds : side'[j].at < now'
    <3>1. /\ side' = [side EXCEPT ![collector.kind] = [weight |-> w, at |-> now]]
          /\ Stamp /\ now \in Moments
      BY <1>2, StampMoves DEF WriteSidecar
    <3>2. \A j \in Kinds : side'[j] \in {side[j], [weight |-> w, at |-> now]}
      BY <3>1 DEF TypeInv, TypeOK
    <3>3. now < now'
      BY <3>1, StampMoves, Constants
    <3>4. \A j \in Kinds : side'[j].at < now'
      BY <3>1, <3>2, <3>3, StampMoves
    <3> QED
      BY <3>1, <3>2, <3>4 DEF TypeInv, TypeOK
  <2> QED
    BY <1>2, <2>1, <2>2, StampMoves DEF WriteSidecar, TypeInv, TypeOK
<1>3. CASE RecordRefreshed
    BY <1>3 DEF RecordRefreshed, TypeInv, TypeOK, CollectorStates
<1>4. CASE ClearMarker
    BY <1>4, Constants DEF ClearMarker, TypeInv, TypeOK, CollectorStates, Moments
<1>5. CASE CollectorDies
    BY <1>5 DEF CollectorDies, TypeInv, TypeOK, CollectorStates
<1> QED
    BY <1>1, <1>2, <1>3, <1>4, <1>5 DEF Collect

LEMMA RecomputeType ==
    ASSUME TypeInv, Recompute
    PROVE  cached' \in [level : Levels, retired : Moments \cup {Never}]
BY CachedType DEF Recompute, TypeInv

LEMMA CheckType == TypeInv /\ Check => TypeInv'
<1> SUFFICES ASSUME TypeInv, Check PROVE TypeInv'
    OBVIOUS
<1> USE DEF files, memory, history
<1>1. CASE BeginRound
  <2>1. round' \in RoundStates
    BY <1>1 DEF BeginRound, RoundStates
  <2> QED
    BY <1>1, <2>1, RecomputeType DEF BeginRound, TypeInv, TypeOK
<1>2. ASSUME NEW k \in Kinds, Ask(k)
      PROVE  TypeInv'
  <2>1. round' \in RoundStates
    BY <1>2, NobodyIsNot DEF Ask, RoundStates, TypeInv
  <2> QED
    BY <1>2, <2>1 DEF Ask, TypeInv, TypeOK
<1>3. CASE Answer
  <2>1. round' \in RoundStates
    BY <1>3, NobodyIsNot DEF Answer, RoundStates, TypeInv
  <2>2. stale' \in Nat
    BY <1>3 DEF Answer, TypeInv, TypeOK
  <2> QED
    BY <1>3, <2>1, <2>2 DEF Answer, TypeInv, TypeOK
<1>4. CASE EndRound
  <2>1. round' \in RoundStates
    BY <1>4 DEF EndRound, RoundStates
  <2> QED
    BY <1>4, <2>1, RecomputeType DEF EndRound, TypeInv, TypeOK
<1> QED
    BY <1>1, <1>2, <1>3, <1>4 DEF Check

LEMMA NextType == TypeInv /\ [Next]_vars => TypeInv'
<1> SUFFICES ASSUME TypeInv, [Next]_vars PROVE TypeInv'
    OBVIOUS
<1>1. CASE Feedback
    BY <1>1, FeedbackType
<1>2. CASE Collect
    BY <1>2, CollectType
<1>3. CASE Check
    BY <1>3, CheckType
<1>4. CASE Restart
  <2>1. epoch' \in 0..MaxEpoch
    BY <1>4, Constants DEF Restart, TypeInv, TypeOK
  <2>2. /\ confirms' \in [Voters \X Bodies -> Moments \cup {Never}]
        /\ \A p \in Voters \X Bodies : confirms'[p] < now'
    BY <1>4, Constants DEF Restart, files, TypeInv, TypeOK
  <2> QED
    BY <1>4, <2>1, <2>2, RecomputeType, NobodyIsNot
       DEF Restart, files, TypeInv, TypeOK, RetiringStates, RoundStates
<1>5. CASE Ages
    BY <1>5, StampMoves DEF Ages, files, memory, history, TypeInv, TypeOK
<1>6. CASE UNCHANGED vars
    BY <1>6 DEF vars, files, memory, history, TypeInv, TypeOK
<1> QED
    BY <1>1, <1>2, <1>3, <1>4, <1>5, <1>6 DEF Next

\* Every record, stamp and counter of the gateway, the collector and their files
\* keeps its type, and no stamp lies in the future, whoever writes in between.
THEOREM TypeCorrect == Spec => []TypeOK
<1>1. TypeInv => TypeOK
    BY DEF TypeInv
<1> QED
    BY <1>1, InitType, NextType, PTL DEF Spec

-----------------------------------------------------------------------------
(* A retirement that overtakes a probe is charged once.                     *)

\* The answer that is charged is the one the round waited for when the
\* references were moved: no checker without its reference asks.
ChargeInv ==
    /\ stale \in {0, 1}
    /\ round.phase = "answer" /\ ~Present(ref) => stale = 0

LEMMA ChargeInit == Init => ChargeInv
BY NobodyIsNot DEF Init, ChargeInv

LEMMA ChargeNext == TypeInv /\ ChargeInv /\ [Next]_vars => ChargeInv'
<1> SUFFICES ASSUME TypeInv, ChargeInv, [Next]_vars PROVE ChargeInv'
    OBVIOUS
<1> USE DEF files, memory, history
<1>0. round \in RoundStates /\ ref \in [Kinds -> Moments \cup {Never}]
    BY DEF TypeInv, TypeOK
<1>1. CASE Feedback
  <2>1. CASE MoveReference
    BY <2>1, <1>0 DEF MoveReference, ChargeInv
  <2>2. CASE UNCHANGED <<ref, round, stale>>
    BY <2>2 DEF ChargeInv, Present
  <2> QED
    BY <1>1, <2>1, <2>2 DEF Feedback, Confirm, ConfirmAgain, Vote, Retire, WriteDown, MoveSidecar,
                            MarkRetired, LogRetired, RecordRetirement
<1>2. CASE Collect
  <2>1. ASSUME NEW k \in Kinds, WriteReference(k)
        PROVE  Present(ref) => Present(ref)'
    <3>1. /\ ref' = [ref EXCEPT ![k] = now] /\ now \in Moments
      BY <2>1, StampMoves DEF WriteReference
    <3>2. ref'[k] # Never
      BY <1>0, <3>1, Constants
    <3> QED
      BY <3>2 DEF Present
  <2>2. ASSUME NEW k \in Kinds, WriteReference(k)
        PROVE  ChargeInv'
    BY <2>1, <2>2 DEF WriteReference, ChargeInv
  <2>3. CASE UNCHANGED <<ref, round, stale>>
    BY <2>3 DEF ChargeInv, Present
  <2> QED
    BY <1>2, <2>2, <2>3 DEF Collect, WriteSidecar, RecordRefreshed, ClearMarker, CollectorDies
<1>3. CASE Check
  <2>1. CASE BeginRound
    BY <2>1, NobodyIsNot DEF BeginRound, ChargeInv, Present
  <2>2. ASSUME NEW k \in Kinds, Ask(k)
        PROVE  ChargeInv'
    <3>1. ref' = ref /\ stale' = stale
      BY <2>2 DEF Ask
    <3>2. CASE ref[k] = Never
      <4>1. round'.phase = "ask"
        BY <1>0, <2>2, <3>2, NobodyIsNot DEF Ask, RoundStates
      <4> QED
        BY <3>1, <4>1 DEF ChargeInv
    <3>3. CASE ref[k] # Never
      BY <3>1, <3>3 DEF ChargeInv, Present
    <3> QED
      BY <3>2, <3>3
  <2>3. CASE Answer
    <3>1. round.phase = "answer" /\ ref' = ref /\ round'.phase = "ask"
      BY <1>0, <2>3, NobodyIsNot DEF Answer, RoundStates
    <3>2. stale' \in {0, 1}
      BY <2>3, <3>1 DEF Answer, ChargeInv
    <3> QED
      BY <3>1, <3>2 DEF ChargeInv
  <2>4. CASE EndRound
    BY <2>4, NobodyIsNot DEF EndRound, ChargeInv, Present
  <2> QED
    BY <1>3, <2>1, <2>2, <2>3, <2>4 DEF Check
<1>4. CASE Restart
    BY <1>4, NobodyIsNot DEF Restart, ChargeInv
<1>5. CASE Ages
    BY <1>5 DEF Ages, ChargeInv, Present
<1>6. CASE UNCHANGED vars
    BY <1>6 DEF vars, ChargeInv, Present
<1> QED
    BY <1>1, <1>2, <1>3, <1>4, <1>5, <1>6 DEF Next

\* However retirements, collections, restarts and probes interleave, the check
\* loop books at most one identity hit against a model whose reference is gone.
THEOREM ChargedOnce == Spec => []OneStaleCharge
<1>1. ChargeInv => OneStaleCharge
    BY DEF ChargeInv, OneStaleCharge
<1> QED
    BY <1>1, InitType, NextType, ChargeInit, ChargeNext, PTL DEF Spec

-----------------------------------------------------------------------------
(* A retirement takes what it found.                                        *)

\* Behind the place the retirement has come to, there is only what a collector
\* has written since.
GoneInv ==
    /\ retiring.phase # "none" => retiring.record.at < now
    /\ retiring.phase # "none" =>
          \A k \in Kinds :
              k \notin retiring.left \/ (retiring.phase = "sidecar" /\ k = Current) =>
                  ref[k] = Never \/ ref[k] > retiring.record.at
    /\ retiring.phase = "log" => retiring.left = {}

LEMMA CurrentIsLeft ==
    ASSUME retiring.left # {}
    PROVE  Current \in retiring.left
BY DEF Current

LEMMA GoneInit == Init => GoneInv
BY NobodyIsNot DEF Init, GoneInv

LEMMA GoneNext == TypeInv /\ GoneInv /\ [Next]_vars => GoneInv'
<1> SUFFICES ASSUME TypeInv, GoneInv, [Next]_vars PROVE GoneInv'
    OBVIOUS
<1> USE DEF files, memory, history
<1>0. now \in Nat /\ ref \in [Kinds -> Moments \cup {Never}]
    BY Constants DEF TypeInv, TypeOK
<1>1. ASSUME retiring.phase # "none"
      PROVE  retiring.record.at \in Nat /\ retiring.left \subseteq Kinds
  <2>1. retiring.phase \in {"move", "sidecar", "log"}
    BY <1>1, NobodyIsNot DEF TypeInv, RetiringStates
  <2> QED
    BY <2>1, RetiringFields, RecordTypes
<1>2. ASSUME UNCHANGED <<ref, retiring>>, now' \in {now, now + 1}
      PROVE  GoneInv'
    BY <1>0, <1>1, <1>2 DEF GoneInv, Current
<1>3. ASSUME NEW who \in Voters, NEW body \in Bodies, Retire(who, body)
      PROVE  GoneInv'
  <2>1. /\ retiring'.phase = "move" /\ retiring'.left = Kinds /\ now' = now + 1
        /\ retiring'.record = Confirmation(who, body) /\ Stamp
    BY <1>3 DEF Retire, Stamp
  <2>2. retiring'.record.at = now
    BY <2>1 DEF Confirmation
  <2> QED
    BY <1>0, <2>1, <2>2 DEF GoneInv
<1>4. CASE MoveReference
  <2>1. /\ retiring.phase = "move" /\ retiring.left # {} /\ now' = now
        /\ ref' = [ref EXCEPT ![Current] = Never]
        /\ retiring'.record = retiring.record
        /\ \/ retiring'.phase = "sidecar" /\ retiring'.left = retiring.left
           \/ retiring'.phase = "move" /\ retiring'.left = retiring.left \ {Current}
    BY <1>4, RetiringFields DEF MoveReference
  <2>2. Current \in Kinds
    BY <1>1, <2>1, CurrentIsLeft
  <2>3. ref'[Current] = Never /\ \A k \in Kinds : k # Current => ref'[k] = ref[k]
    BY <1>0, <2>1, <2>2
  <2>4. ASSUME NEW k \in Kinds,
               k \notin retiring'.left \/ (retiring'.phase = "sidecar" /\ k = Current')
        PROVE  ref'[k] = Never \/ ref'[k] > retiring'.record.at
    <3>1. CASE k = Current
      BY <2>3, <3>1
    <3>2. CASE k # Current /\ k \notin retiring.left
      BY <2>1, <2>3, <3>2 DEF GoneInv
    <3>3. k = Current \/ k \notin retiring.left
      BY <2>1, <2>4 DEF Current
    <3> QED
      BY <3>1, <3>2, <3>3
  <2> QED
    BY <2>1, <2>4 DEF GoneInv
<1>5. CASE MoveSidecar
  <2>1. /\ retiring.phase = "sidecar" /\ retiring'.phase = "move" /\ UNCHANGED <<ref, now>>
        /\ retiring'.left = retiring.left \ {Current} /\ retiring'.record = retiring.record
    BY <1>5, RetiringFields DEF MoveSidecar
  <2> QED
    BY <2>1 DEF GoneInv
<1>6. CASE MarkRetired
  <2>1. /\ retiring.phase = "move" /\ retiring.left = {} /\ ref' = ref /\ now' = now + 1
        /\ retiring'.phase = "log" /\ retiring'.left = {} /\ retiring'.record = retiring.record
    BY <1>6, RetiringFields DEF MarkRetired
  <2> QED
    BY <1>0, <1>1, <2>1 DEF GoneInv
<1>7. CASE LogRetired \/ Restart
    BY <1>7, NobodyIsNot DEF LogRetired, Restart, GoneInv
<1>8. ASSUME NEW j \in Kinds, WriteReference(j)
      PROVE  GoneInv'
  <2>1. ref' = [ref EXCEPT ![j] = now] /\ now' = now + 1 /\ retiring' = retiring
    BY <1>8 DEF WriteReference, Stamp
  <2>2. \A k \in Kinds : ref'[k] \in {ref[k], now}
    BY <1>0, <2>1
  <2> QED
    BY <1>0, <1>1, <2>1, <2>2 DEF GoneInv, Current
<1> QED
    BY <1>2, <1>3, <1>4, <1>5, <1>6, <1>7, <1>8
       DEF Next, Feedback, Confirm, ConfirmAgain, Vote, WriteDown, RecordRetirement, Collect,
           WriteSidecar, RecordRefreshed, ClearMarker, CollectorDies, Check, BeginRound, Ask,
           Answer, EndRound, Ages, Stamp, vars

\* However a collector writes in between, a retirement that gets as far as its
\* marker has taken every reference that was there when it was confirmed.
THEOREM BaselineIsGone == Spec => []RetiredIsGone
<1>1. GoneInv => RetiredIsGone
    BY DEF GoneInv, RetiredIsGone
<1> QED
    BY <1>1, InitType, NextType, GoneInit, GoneNext, PTL DEF Spec

-----------------------------------------------------------------------------
(* A confirmation counts once in its window.                                *)

\* Recorded, about to be recorded by a suspended handler, or by the retirement.
Given == feedback \cup pending
         \cup (IF retiring.phase = "none" THEN {} ELSE {retiring.record})

\* _confirm_seen remembers whatever was given in this process, until its window
\* is over.
OnceInv ==
    /\ \A c \in Given : c.at < now /\ c.epoch =< epoch
    /\ \A c \in Given :
          c.epoch = epoch => confirms[<<c.who, c.body>>] >= c.at \/ now - c.at >= Window
    /\ \A c, d \in Given :
          /\ c # d
          /\ <<c.who, c.body, c.epoch>> = <<d.who, d.body, d.epoch>>
          => c.at - d.at >= Window \/ d.at - c.at >= Window

LEMMA GivenType == TypeInv => Given \subseteq Records
<1> SUFFICES ASSUME TypeInv PROVE Given \subseteq Records
    OBVIOUS
<1>1. retiring.phase = "none" \/ retiring.record \in Records
  <2>1. CASE retiring = Nobody
    BY <2>1, NobodyIsNot
  <2>2. CASE retiring # Nobody
    BY <2>2 DEF TypeInv, RetiringStates
  <2> QED
    BY <2>1, <2>2
<1> QED
    BY <1>1 DEF Given, TypeInv, TypeOK

\* What is pruned, or not seen at all, was given a window ago.
LEMMA UnseenIsOld ==
    ASSUME TypeInv, OnceInv, NEW d \in Given, d.epoch = epoch, ~Seen(<<d.who, d.body>>)
    PROVE  now - d.at >= Window
<1> DEFINE p == <<d.who, d.body>>
<1>1. d.at \in Nat /\ p \in Voters \X Bodies
    BY GivenType, RecordTypes
<1>2. confirms[p] \in Moments \cup {Never} /\ now \in Nat
    BY <1>1, Constants DEF TypeInv, TypeOK
<1>3. CASE confirms[p] >= d.at
  <2>1. confirms[p] \in Nat /\ confirms[p] # Never
    BY <1>1, <1>2, <1>3, Constants
  <2>2. now - confirms[p] >= Window
    BY <2>1, <1>2, Constants DEF Seen
  <2> QED
    BY <1>1, <1>2, <1>3, <2>1, <2>2, Constants
<1>4. CASE now - d.at >= Window
    BY <1>4
<1> QED
    BY <1>3, <1>4 DEF OnceInv

\* Pruning forgets nothing that still counts.
LEMMA PrunedIsOld ==
    ASSUME TypeInv, OnceInv, Stamp, NEW d \in Given, d.epoch = epoch,
           confirms'[<<d.who, d.body>>] \in
               {now, IF Seen(<<d.who, d.body>>) THEN confirms[<<d.who, d.body>>] ELSE Never}
    PROVE  confirms'[<<d.who, d.body>>] >= d.at \/ now' - d.at >= Window
<1> DEFINE p == <<d.who, d.body>>
<1>1. /\ d.at \in Nat /\ p \in Voters \X Bodies /\ d.at < now
      /\ now \in Nat /\ now' = now + 1
    BY GivenType, RecordTypes, StampMoves, Constants DEF OnceInv
<1>2. CASE confirms'[p] = now
    BY <1>1, <1>2
<1>3. CASE ~Seen(p)
    BY <1>1, <1>3, UnseenIsOld, Constants
<1>4. CASE Seen(p) /\ confirms'[p] = confirms[p]
    BY <1>1, <1>4, Constants DEF OnceInv
<1> QED
    BY <1>2, <1>3, <1>4

LEMMA OnceInit == Init => OnceInv
<1> SUFFICES ASSUME Init PROVE OnceInv
    OBVIOUS
<1>1. Given = {}
    BY NobodyIsNot DEF Init, Given
<1> QED
    BY <1>1 DEF OnceInv

\* A confirmation that is given anew lies a window behind those before it.
LEMMA OnceGiven ==
    ASSUME TypeInv, OnceInv, NEW who \in Voters, NEW body \in Bodies,
           Stamp, ~Seen(<<who, body>>), Remember(<<who, body>>), epoch' = epoch,
           Given' = Given \cup {Confirmation(who, body)}
    PROVE  OnceInv'
<1> DEFINE new == Confirmation(who, body)
<1>1. /\ now < MaxTime /\ now \in Nat /\ now' = now + 1 /\ epoch \in Nat
    BY StampMoves, Constants DEF TypeInv, TypeOK
<1>2. /\ new \in Records /\ new.at = now /\ new.epoch = epoch
      /\ new.who = who /\ new.body = body
    BY <1>1, ConfirmationType DEF TypeInv
<1>3. ASSUME NEW c \in Given
      PROVE  c.at \in Nat /\ c.at < now /\ c.epoch =< epoch
    BY GivenType, RecordTypes DEF OnceInv
<1>4. \A c \in Given' : c.at < now' /\ c.epoch =< epoch'
    BY <1>1, <1>2, <1>3
<1>5. ASSUME NEW c \in Given', c.epoch = epoch'
      PROVE  confirms'[<<c.who, c.body>>] >= c.at \/ now' - c.at >= Window
  <2>1. CASE c = new
    <3>1. confirms'[<<who, body>>] = now
      BY DEF Remember
    <3> QED
      BY <1>1, <1>2, <2>1, <3>1
  <2>2. CASE c \in Given
    <3>1. <<c.who, c.body>> \in Voters \X Bodies
      BY <2>2, GivenType, RecordTypes
    <3>2. confirms'[<<c.who, c.body>>] \in
               {now, IF Seen(<<c.who, c.body>>) THEN confirms[<<c.who, c.body>>] ELSE Never}
      BY <3>1 DEF Remember
    <3> QED
      BY <1>5, <2>2, <3>2, PrunedIsOld
  <2> QED
    BY <2>1, <2>2
<1>6. ASSUME NEW d \in Given, <<d.who, d.body, d.epoch>> = <<who, body, epoch>>
      PROVE  now - d.at >= Window
    BY <1>6, UnseenIsOld
<1>7. ASSUME NEW c \in Given', NEW d \in Given', c # d,
             <<c.who, c.body, c.epoch>> = <<d.who, d.body, d.epoch>>
      PROVE  c.at - d.at >= Window \/ d.at - c.at >= Window
  <2>1. CASE c = new /\ d \in Given
    BY <1>2, <1>6, <1>7, <2>1
  <2>2. CASE d = new /\ c \in Given
    BY <1>2, <1>6, <1>7, <2>2
  <2>3. CASE c \in Given /\ d \in Given
    BY <1>7, <2>3 DEF OnceInv
  <2> QED
    BY <1>7, <2>1, <2>2, <2>3
<1> QED
    BY <1>4, <1>5, <1>7 DEF OnceInv

\* Nothing new is given, and nothing is forgotten.
LEMMA OnceKept ==
    ASSUME TypeInv, TypeInv', OnceInv, Given' \subseteq Given, epoch' = epoch,
           now' >= now, confirms' = confirms
    PROVE  OnceInv'
<1>1. now \in Nat /\ now' \in Nat
    BY Constants DEF TypeInv, TypeOK
<1>2. ASSUME NEW c \in Given'
      PROVE  /\ c.at < now' /\ c.epoch =< epoch'
             /\ c.epoch = epoch' => confirms'[<<c.who, c.body>>] >= c.at \/ now' - c.at >= Window
  <2>1. c.at \in Nat
    BY GivenType, RecordTypes
  <2> QED
    BY <1>1, <2>1, Constants DEF OnceInv
<1>3. \A c, d \in Given' :
          /\ c # d
          /\ <<c.who, c.body, c.epoch>> = <<d.who, d.body, d.epoch>>
          => c.at - d.at >= Window \/ d.at - c.at >= Window
    BY DEF OnceInv
<1> QED
    BY <1>2, <1>3 DEF OnceInv

LEMMA OnceNext == TypeInv /\ OnceInv /\ [Next]_vars => OnceInv'
<1> SUFFICES ASSUME TypeInv, OnceInv, [Next]_vars PROVE OnceInv'
    OBVIOUS
<1> USE DEF files, memory, history
<1>0. TypeInv' /\ now \in Nat
    BY NextType, Constants DEF TypeInv, TypeOK
<1>1. CASE UNCHANGED <<feedback, pending, retiring, confirms, epoch, now>>
  <2>1. Given' = Given /\ now' >= now
    BY <1>0, <1>1 DEF Given
  <2> QED
    BY <1>0, <1>1, <2>1, OnceKept
<1>2. CASE UNCHANGED <<feedback, pending, retiring, confirms, epoch>> /\ Stamp
  <2>1. Given' = Given /\ now' >= now
    BY <1>0, <1>2 DEF Given, Stamp
  <2> QED
    BY <1>0, <1>2, <2>1, OnceKept
<1>3. ASSUME NEW who \in Voters, NEW body \in Bodies, ConfirmAgain(who, body)
      PROVE  OnceInv'
  <2>1. /\ Stamp /\ epoch' = epoch /\ Given' = Given
        /\ now \in Nat /\ now' = now + 1
    BY <1>0, <1>3 DEF ConfirmAgain, Given, Stamp
  <2>2. ASSUME NEW c \in Given'
        PROVE  /\ c.at < now' /\ c.epoch =< epoch'
               /\ c.epoch = epoch' => confirms'[<<c.who, c.body>>] >= c.at \/ now' - c.at >= Window
    <3>1. c \in Given /\ c.at \in Nat /\ <<c.who, c.body>> \in Voters \X Bodies
      BY <2>1, GivenType, RecordTypes
    <3>2. confirms'[<<c.who, c.body>>] =
              IF Seen(<<c.who, c.body>>) THEN confirms[<<c.who, c.body>>] ELSE Never
      BY <1>3, <3>1 DEF ConfirmAgain
    <3> QED
      BY <2>1, <3>1, <3>2, PrunedIsOld DEF OnceInv
  <2> QED
    BY <2>1, <2>2 DEF OnceInv
<1>4. ASSUME NEW who \in Voters, NEW body \in Bodies, Vote(who, body)
      PROVE  OnceInv'
  <2>1. Given' = Given \cup {Confirmation(who, body)}
    BY <1>4 DEF Vote, Given
  <2> QED
    BY <1>4, <2>1, OnceGiven DEF Vote
<1>5. ASSUME NEW who \in Voters, NEW body \in Bodies, Retire(who, body)
      PROVE  OnceInv'
  <2>1. retiring.phase = "none"
    BY <1>5, NobodyIsNot DEF Retire, LoopFree
  <2>2. retiring'.phase = "move" /\ retiring'.record = Confirmation(who, body)
    BY <1>5 DEF Retire
  <2>3. Given' = Given \cup {Confirmation(who, body)}
    BY <1>5, <2>1, <2>2 DEF Retire, Given
  <2> QED
    BY <1>5, <2>3, OnceGiven DEF Retire
<1>6. CASE MoveReference \/ MoveSidecar
  <2>1. /\ retiring.phase # "none" /\ retiring'.phase # "none"
        /\ retiring'.record = retiring.record
        /\ UNCHANGED <<feedback, pending, confirms, epoch, now>>
    BY <1>6, RetiringFields DEF MoveReference, MoveSidecar
  <2>2. Given' = Given
    BY <2>1 DEF Given
  <2> QED
    BY <1>0, <2>1, <2>2, OnceKept
<1>7. CASE MarkRetired
  <2>1. /\ retiring.phase # "none" /\ retiring'.phase = "log"
        /\ retiring'.record = retiring.record
    BY <1>7, RetiringFields DEF MarkRetired
  <2>2. Given' = Given
    BY <1>7, <2>1 DEF MarkRetired, Given
  <2> QED
    BY <1>0, <1>7, <2>2, OnceKept DEF MarkRetired
<1>8. CASE LogRetired
  <2>1. Given' = Given /\ now' >= now
    BY <1>0, <1>8, NobodyIsNot DEF LogRetired, Given
  <2> QED
    BY <1>0, <1>8, <2>1, OnceKept DEF LogRetired
<1>9. CASE RecordRetirement
  <2>1. Given' = Given /\ now' >= now
    BY <1>0, <1>9 DEF RecordRetirement, Given
  <2> QED
    BY <1>0, <1>9, <2>1, OnceKept DEF RecordRetirement
<1>10. CASE Restart
  <2>1. /\ Given' \subseteq Given /\ epoch' = epoch + 1 /\ now' = now
    BY <1>10, NobodyIsNot DEF Restart, Given
  <2>2. ASSUME NEW c \in Given'
        PROVE  c.at < now' /\ c.epoch =< epoch' /\ c.epoch # epoch'
    <3>1. c.epoch \in Nat /\ epoch \in Nat
      <4>1. epoch \in 0..MaxEpoch /\ c \in Given
        BY <2>1 DEF TypeInv, TypeOK
      <4>2. c \in Records
        BY <4>1, GivenType
      <4>3. epoch \in Nat
        BY <4>1, Constants
      <4> QED
        BY <4>2, <4>3, RecordTypes
    <3> QED
      BY <2>1, <3>1 DEF OnceInv
  <2> QED
    BY <2>1, <2>2 DEF OnceInv
<1> QED
    BY <1>1, <1>2, <1>3, <1>4, <1>5, <1>6, <1>7, <1>8, <1>9, <1>10
       DEF Next, Feedback, Confirm, WriteDown, Collect, WriteReference, WriteSidecar, RecordRefreshed,
           ClearMarker, CollectorDies, Check, BeginRound, Ask, Answer, EndRound, Ages, vars

\* The same body of the same reporter is counted once in its window, for every
\* window and however long the handler of the first one is suspended.
THEOREM ConfirmedOnce == Spec => []ConfirmCountsOnce
<1>1. OnceInv => ConfirmCountsOnce
    BY DEF OnceInv, Given, ConfirmCountsOnce
<1> QED
    BY <1>1, InitType, NextType, OnceInit, OnceNext, PTL DEF Spec

-----------------------------------------------------------------------------
(* Votes are spent once.                                                    *)

\* The votes that were spent lie behind the marker, and a marker that is in force
\* is the one the gateway counts from, unless it is just writing one down.
SpentInv ==
    /\ \A c \in spent : c.at < now
    /\ marker # Never => \A c \in spent : c.at < marker
    /\ retiring.phase = "log" => marker \in {retiring.at, Never}
    /\ retiring.phase = "none" /\ RetiredAt(ref, marker) # Never => cached.retired = marker
    /\ retiring.phase # "none" => \A c \in retiring.votes : c.at < now

\* What is collected outdates the marker.
LEMMA CollectedIsNewer ==
    ASSUME TypeInv, NEW k \in Kinds, WriteReference(k)
    PROVE  RetiredAt(ref', marker') = Never
<1>1. ref' = [ref EXCEPT ![k] = now] /\ marker' = marker
    BY DEF WriteReference
<1>2. ref'[k] = now /\ now > marker
    BY <1>1, Constants DEF TypeInv, TypeOK
<1> QED
    BY <1>1, <1>2 DEF RetiredAt

LEMMA SpentInit == Init => SpentInv
<1> SUFFICES ASSUME Init PROVE SpentInv
    OBVIOUS
<1>1. marker = Never /\ spent = {} /\ retiring.phase = "none" /\ RetiredAt(ref, marker) = Never
    BY NobodyIsNot DEF Init, RetiredAt
<1> QED
    BY <1>1 DEF SpentInv

LEMMA SpentNext == TypeInv /\ OnceInv /\ SpentInv /\ [Next]_vars => SpentInv'
<1> SUFFICES ASSUME TypeInv, OnceInv, SpentInv, [Next]_vars PROVE SpentInv'
    OBVIOUS
<1> USE DEF files, memory, history
<1>0. /\ now \in Nat /\ spent \subseteq Records
      /\ \A c \in spent : c.at \in Nat
    BY RecordTypes, Constants DEF TypeInv, TypeOK
<1>1. ASSUME UNCHANGED <<spent, marker, retiring, cached>>, now' \in {now, now + 1},
             ref' = ref \/ RetiredAt(ref', marker') = Never
      PROVE  SpentInv'
  <2>1. ASSUME retiring.phase # "none", NEW c \in retiring.votes
        PROVE  c.at \in Nat
    <3>1. retiring \in RetiringStates /\ retiring # Nobody
      BY <2>1, NobodyIsNot DEF TypeInv
    <3>2. retiring.votes \subseteq Records
      BY <3>1 DEF RetiringStates
    <3> QED
      BY <2>1, <3>2, RecordTypes
  <2>2. retiring.phase = "none" /\ RetiredAt(ref', marker') # Never => cached.retired = marker
    BY <1>1 DEF SpentInv
  <2> QED
    BY <1>0, <1>1, <2>1, <2>2 DEF SpentInv
<1>2. ASSUME NEW who \in Voters, NEW body \in Bodies, Retire(who, body)
      PROVE  SpentInv'
  <2>1. /\ UNCHANGED <<spent, marker, cached>> /\ now' = now + 1
        /\ retiring.phase = "none"
    BY <1>2, NobodyIsNot DEF Retire, LoopFree, Stamp
  <2>2. retiring'.phase = "move" /\ retiring'.votes \subseteq feedback
    BY <1>2 DEF Retire, Counted
  <2>3. ASSUME NEW c \in feedback
        PROVE  c.at < now'
    <3>1. c \in Given /\ c.at \in Nat
      BY GivenType, RecordTypes DEF Given
    <3> QED
      BY <1>0, <2>1, <3>1 DEF OnceInv
  <2> QED
    BY <1>0, <2>1, <2>2, <2>3 DEF SpentInv
<1>3. CASE MoveReference \/ MoveSidecar
  <2>1. /\ retiring.phase \in {"move", "sidecar"} /\ retiring'.phase \in {"move", "sidecar"}
        /\ retiring'.votes = retiring.votes
        /\ UNCHANGED <<spent, marker, now>>
    BY <1>3, RetiringFields DEF MoveReference, MoveSidecar
  <2> QED
    BY <2>1 DEF SpentInv
<1>4. CASE MarkRetired
  <2>1. /\ retiring.phase = "move" /\ retiring'.phase = "log"
        /\ retiring'.votes = retiring.votes /\ retiring'.at = now
        /\ spent' = spent \cup retiring.votes /\ marker' = now /\ now' = now + 1
        /\ retiring.votes \subseteq Records
    BY <1>4, RetiringFields DEF MarkRetired
  <2>2. \A c \in spent' : c.at < now /\ c.at \in Nat
    BY <1>0, <2>1, RecordTypes DEF SpentInv
  <2> QED
    BY <1>0, <2>1, <2>2 DEF SpentInv
<1>5. CASE LogRetired
  <2>1. /\ retiring.phase = "log" /\ retiring'.phase = "none"
        /\ cached'.retired = retiring.at /\ UNCHANGED <<spent, marker, now, ref>>
    BY <1>5, NobodyIsNot DEF LogRetired, Recomputed
  <2>2. RetiredAt(ref, marker) # Never => retiring.at = marker
    BY <2>1 DEF SpentInv, RetiredAt
  <2> QED
    BY <2>1, <2>2 DEF SpentInv
<1>6. CASE BeginRound \/ EndRound \/ Restart
  <2>1. /\ Recompute /\ UNCHANGED <<marker, now, spent, ref>>
        /\ retiring'.phase = "none"
    BY <1>6, NobodyIsNot DEF BeginRound, EndRound, Restart, LoopFree
  <2>2. RetiredAt(ref, marker) # Never => cached'.retired = marker
    BY <2>1 DEF Recompute, Recomputed, RetiredAt
  <2> QED
    BY <2>1, <2>2 DEF SpentInv
<1>7. CASE ClearMarker
  <2>1. /\ marker' = Never /\ RetiredAt(ref', marker') = Never
        /\ UNCHANGED <<spent, retiring, now>>
    BY <1>7 DEF ClearMarker, RetiredAt
  <2> QED
    BY <2>1 DEF SpentInv
<1>8. ASSUME NEW k \in Kinds, WriteReference(k)
      PROVE  SpentInv'
  <2>1. /\ UNCHANGED <<spent, marker, retiring, cached>> /\ now' \in {now, now + 1}
        /\ RetiredAt(ref', marker') = Never
    BY <1>8, CollectedIsNewer DEF WriteReference, Stamp
  <2> QED
    BY <1>1, <2>1
<1> QED
    BY <1>1, <1>2, <1>3, <1>4, <1>5, <1>6, <1>7, <1>8
       DEF Next, Feedback, Confirm, ConfirmAgain, Vote, WriteDown, RecordRetirement, Collect,
           WriteSidecar, RecordRefreshed, CollectorDies, Check, Ask, Answer, Ages, Stamp, vars

\* While a marker is in force on disk, votes that have helped to retire a baseline
\* retire none, whoever dies or collects in between.
THEOREM VotesSpentOnce == Spec => VotesAreSpentOnce
<1> DEFINE SpentOnce ==
        \A who \in Reporters, body \in Bodies :
            Retire(who, body) /\ RetiredAt(ref, marker) # Never =>
                retiring'.votes \cap spent = {}
<1>1. ASSUME SpentInv, TypeInv, NEW who \in Reporters, NEW body \in Bodies, Retire(who, body),
             RetiredAt(ref, marker) # Never
      PROVE  retiring'.votes \cap spent = {}
  <2>1. /\ retiring'.votes \subseteq Counted /\ retiring.phase = "none"
        /\ marker # Never /\ cached.retired = marker
    BY <1>1, NobodyIsNot DEF Retire, LoopFree, SpentInv, RetiredAt
  <2>2. ASSUME NEW c \in Counted, c \in spent
        PROVE  FALSE
    <3>1. c.at > cached.retired /\ c.at < cached.retired
      BY <1>1, <2>1, <2>2 DEF Counted, SpentInv
    <3>2. c.at \in Nat /\ cached.retired \in Int
      <4>1. /\ cached \in [level : Levels, retired : Moments \cup {Never}]
            /\ c \in Records
        BY <1>1, <2>2 DEF TypeInv, TypeOK
      <4>2. cached.retired \in Moments \cup {Never}
        BY <4>1
      <4>3. c.at \in Nat
        BY <4>1, RecordTypes
      <4>4. cached.retired \in Int
        BY <4>2, Constants
      <4> QED
        BY <4>3, <4>4
    <3> QED
      BY <3>1, <3>2
  <2> QED
    BY <2>1, <2>2
<1>2. SpentInv /\ TypeInv /\ [Next]_vars => [SpentOnce]_vars
    BY <1>1
<1> QED
    BY <1>2, InitType, NextType, OnceInit, OnceNext, SpentInit, SpentNext, PTL
       DEF Spec, VotesAreSpentOnce

-----------------------------------------------------------------------------
(* Trust only fades.                                                        *)

\* Products of naturals grow with their factors.
LEMMA TimesGrows ==
    ASSUME NEW x \in Nat, NEW y \in Nat, NEW z \in Nat, x =< y
    PROVE  x * z =< y * z /\ z * x =< z * y /\ x * z \in Nat
OBVIOUS

LEMMA CubedGrows ==
    ASSUME NEW x \in Nat, NEW y \in Nat, x =< y
    PROVE  Cubed(x) =< Cubed(y) /\ Cubed(x) \in Nat /\ Cubed(y) \in Nat
<1>1. x * x \in Nat /\ x * y \in Nat /\ y * y \in Nat /\ x * x =< x * y /\ x * y =< y * y
    BY TimesGrows
<1>2. x * x =< y * y
    BY <1>1
<1>3. x * x * x =< y * y * x /\ x * x * x \in Nat
    BY <1>1, <1>2, TimesGrows
<1>4. y * y * x =< y * y * y /\ y * y * x \in Nat
    BY <1>1, TimesGrows
<1>5. y * y * y \in Nat
    BY <1>1, TimesGrows
<1> QED
    BY <1>3, <1>4, <1>5 DEF Cubed

\* An older baseline reaches no line that a younger one misses.
LEMMA TrustFalls ==
    ASSUME NEW line \in Nat, NEW weight \in Nat, NEW age \in Int, NEW later \in Int,
           age =< later, TrustAtLeast(line, weight, later)
    PROVE  TrustAtLeast(line, weight, age)
<1>1. Ttl \in Nat /\ later < Ttl /\ age < Ttl
    BY LifecycleAssumption DEF TrustAtLeast
<1>2. PICK x \in Nat, y \in Nat : x = Ttl - later /\ y = Ttl - age /\ x =< y
    BY <1>1
<1>3. Squared(weight) \in Nat
    BY TimesGrows DEF Squared
<1>4. Cubed(x) \in Nat /\ Cubed(y) \in Nat /\ Cubed(x) =< Cubed(y)
    BY <1>2, CubedGrows
<1>5. Squared(weight) * Cubed(x) =< Squared(weight) * Cubed(y)
    BY <1>3, <1>4, TimesGrows
<1>6. /\ Squared(weight) * Cubed(x) >= Squared(line) * Cubed(Ttl)
      /\ Squared(weight) * Cubed(x) \in Nat /\ Squared(weight) * Cubed(y) \in Nat
      /\ Squared(line) * Cubed(Ttl) \in Nat
    <2>1. Squared(line) \in Nat /\ Cubed(Ttl) \in Nat
        BY <1>1, CubedGrows, TimesGrows DEF Squared
    <2>2. \A m, n \in Nat : m * n \in Nat
        BY TimesGrows
    <2>3. Squared(weight) * Cubed(x) >= Squared(line) * Cubed(Ttl)
        BY <1>2 DEF TrustAtLeast
    <2> QED
        BY <1>3, <1>4, <2>1, <2>2, <2>3
<1>7. Squared(weight) * Cubed(y) >= Squared(line) * Cubed(Ttl)
    BY <1>5, <1>6
<1> QED
    BY <1>1, <1>2, <1>7 DEF TrustAtLeast

LEMMA LevelFalls ==
    ASSUME NEW weight \in Nat, NEW age \in Int, NEW later \in Int, age =< later
    PROVE  Rank[LevelFor(weight, later)] =< Rank[LevelFor(weight, age)]
<1>1. StrictAt \in Nat /\ StandardAt \in Nat
    BY LifecycleAssumption
<1>2. \A line \in Nat : TrustAtLeast(line, weight, later) => TrustAtLeast(line, weight, age)
    BY TrustFalls
<1>3. Rank["STRICT"] = 2 /\ Rank["STANDARD"] = 1 /\ Rank["BASIC"] = 0
    BY DEF Rank
<1> QED
    BY <1>1, <1>2, <1>3 DEF LevelFor

\* A baseline that is there has a weight and a stamp.
LEMMA ProvenanceType ==
    ASSUME TypeOK, Present(ref)
    PROVE  Provenance(ref, side).weight \in Nat /\ Provenance(ref, side).at \in Int
<1>1. PICK k \in Kinds : /\ ref[k] # Never
                         /\ Provenance(ref, side) = IF side[k] = NoSide
                                                    THEN [weight |-> Unknown, at |-> ref[k]]
                                                    ELSE side[k]
    BY Constants DEF Present, Provenance
<1>2. ref[k] \in Moments /\ side[k] \in [weight : Weights, at : Moments] \cup {NoSide}
    BY <1>1 DEF TypeOK
<1>3. \A m \in Moments : m \in Int
    BY Constants
<1>4. CASE side[k] = NoSide
    BY <1>1, <1>2, <1>3, <1>4, Constants
<1>5. CASE side[k] # NoSide
    <2>1. side[k].weight \in Weights /\ side[k].at \in Moments
        BY <1>2, <1>5
    <2> QED
        BY <1>1, <1>3, <1>5, <2>1, Constants
<1> QED
    BY <1>4, <1>5

\* Time alone lowers the level that is due, or leaves it.
LEMMA LevelFades ==
    ASSUME TypeOK, NEW t \in Int, now =< t
    PROVE  Rank[LevelOf(ref, side, t)] =< Rank[LevelOf(ref, side, now)]
<1>1. now \in Int
    BY Constants DEF TypeOK
<1>2. CASE Present(ref)
    <2>1. PICK p : /\ p = Provenance(ref, side) /\ p.weight \in Nat /\ p.at \in Int
        BY <1>2, ProvenanceType
    <2>2. now - p.at \in Int /\ t - p.at \in Int /\ now - p.at =< t - p.at
        BY <1>1, <2>1
    <2> QED
        BY <1>2, <2>1, <2>2, LevelFalls DEF LevelOf
<1>3. CASE ~Present(ref)
    BY <1>3 DEF LevelOf, Rank
<1> QED
    BY <1>2, <1>3

\* Files without a reference are worth the least.
LEMMA NoneIsLeast ==
    ASSUME NEW r, NEW s, NEW t, ~Present(r), TypeOK
    PROVE  Rank[LevelOf(r, s, t)] =< Rank[LevelOf(ref, side, now)]
<1>1. LevelOf(ref, side, now) \in Levels /\ LevelOf(r, s, t) = "BASIC"
    BY DEF LevelOf, LevelFor, Levels
<1> QED
    BY <1>1 DEF Levels, Rank

\* Between two collections no step but one between the files of a retirement that
\* leaves a reference raises the level that is due: no passing of time, restart,
\* round or feedback (trust_score and level_for in baseline.py, over whatever
\* recompute would find in the files).
THEOREM TrustFades == Spec => TrustOnlyFades
<1> DEFINE
    Kept  == \A k \in Kinds : ref'[k] \in {ref[k], Never} /\ side'[k] \in {side[k], NoSide}
    Done  == retiring.phase \in {"move", "sidecar"} => ~Present(ref')
    Fades == Rank[LevelOf(ref, side, now)'] =< Rank[LevelOf(ref, side, now)]
<1>1. ASSUME TypeInv, [Next]_vars, Kept, Done
      PROVE  Fades
    <2>1. TypeOK /\ now \in Nat /\ now # Never
        <3>1. TypeOK /\ now \in Moments
            BY <1>1 DEF TypeInv, TypeOK
        <3> QED
            BY <3>1, Constants
    <2>2. ASSUME UNCHANGED <<ref, side>>, now' \in {now, now + 1}
          PROVE  Fades
        <3>1. LevelOf(ref, side, now)' = LevelOf(ref, side, now')
            BY <2>2 DEF LevelOf, Provenance, Present
        <3>2. now' \in Int /\ now =< now'
            BY <2>1, <2>2
        <3> QED
            BY <2>1, <3>1, <3>2, LevelFades
    <2>3. CASE MoveReference \/ MoveSidecar
        <3>1. retiring.phase \in {"move", "sidecar"}
            BY <2>3 DEF MoveReference, MoveSidecar
        <3>2. ~Present(ref')
            BY <1>1, <3>1
        <3>3. LevelOf(ref, side, now)' = LevelOf(ref', side', now')
            OBVIOUS
        <3> QED
            BY <2>1, <3>2, <3>3, NoneIsLeast
    <2>4. ASSUME NEW k \in Kinds, WriteReference(k) PROVE FALSE
        <3>1. ref'[k] = now /\ ref[k] < now
            BY <2>1, <2>4 DEF WriteReference, TypeOK
        <3> QED
            BY <1>1, <2>1, <2>4, <3>1
    <2>5. ASSUME NEW w \in Weights, WriteSidecar(w) PROVE FALSE
        <3>1. collector.phase = "sidecar"
            BY <2>5 DEF WriteSidecar
        <3>2. collector.kind \in Kinds
            BY <1>1, <3>1 DEF TypeInv, CollectorStates, Nobody
        <3>3. PICK k \in Kinds : k = collector.kind
            BY <3>2
        <3>4. side'[k].at = now /\ side[k].at < now
            BY <2>1, <2>5, <3>3 DEF WriteSidecar, TypeOK
        <3>5. NoSide.at = Never /\ side'[k] \in {side[k], NoSide}
            BY <1>1 DEF NoSide
        <3> QED
            BY <2>1, <3>4, <3>5
    <2> QED
        BY <1>1, <2>1, <2>2, <2>3, <2>4, <2>5
           DEF Next, Feedback, Confirm, ConfirmAgain, Vote, Retire, WriteDown, MarkRetired, LogRetired,
               RecordRetirement, Collect, RecordRefreshed, ClearMarker, CollectorDies, Check,
               BeginRound, Ask, Answer, EndRound, Restart, Ages, Stamp, files, memory, history,
               vars
<1>2. TypeInv /\ [Next]_vars => [Kept /\ Done => Fades]_vars
    BY <1>1
<1> QED
    BY <1>2, InitType, NextType, PTL DEF Spec, TrustOnlyFades
=============================================================================
