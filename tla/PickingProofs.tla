---------------------------- MODULE PickingProofs ----------------------------
(* Lemmas about Picked, for the proofs about the modules that filter.         *)
EXTENDS Picking, FiniteSetTheorems, SequenceTheorems, TLAPS

\* The places of a sequence are finitely many.
LEMMA PlacesFinite ==
    ASSUME NEW n \in Nat, NEW I \in SUBSET (1..n)
    PROVE  IsFiniteSet(I) /\ Cardinality(I) \in 0..n
<1>1. IsFiniteSet(1..n) /\ Cardinality(1..n) = n
    BY FS_Interval
<1>2. IsFiniteSet(I) /\ Cardinality(I) =< n
    BY <1>1, FS_Subset
<1>3. Cardinality(I) \in Nat
    BY <1>2, FS_CardinalityType
<1> QED
    BY <1>2, <1>3

LEMMA RankType ==
    ASSUME NEW n \in Nat, NEW I \in SUBSET (1..n), NEW k \in I
    PROVE  Rank(I, k) \in 1..Cardinality(I)
<1> DEFINE B == {j \in I : j =< k}
<1>1. IsFiniteSet(I) /\ Cardinality(I) \in Nat
    BY PlacesFinite
<1>2. IsFiniteSet(B) /\ Cardinality(B) =< Cardinality(I)
    BY <1>1, FS_Subset
<1>3. Cardinality(B) \in Nat /\ Cardinality(B) # 0
    BY <1>2, FS_CardinalityType, FS_EmptySet
<1> QED
    BY <1>1, <1>2, <1>3 DEF Rank

\* The later of two places has the higher rank.
LEMMA RankGrows ==
    ASSUME NEW n \in Nat, NEW I \in SUBSET (1..n), NEW k \in I, NEW m \in I, k < m
    PROVE  Rank(I, k) < Rank(I, m)
<1> DEFINE B == {j \in I : j =< k}
           C == {j \in I : j =< m}
<1>1. IsFiniteSet(C)
    BY PlacesFinite, FS_Subset
<1>2. B \in SUBSET C /\ m \in C /\ m \notin B
    <2>1. \A j \in I : j \in Int
        OBVIOUS
    <2>2. \A j \in I : j =< k => j =< m
        BY <2>1
    <2>3. m =< m /\ ~(m =< k)
        BY <2>1
    <2> QED
        BY <2>2, <2>3
<1>3. IsFiniteSet(B) /\ Cardinality(B) =< Cardinality(C) /\ Cardinality(B) # Cardinality(C)
    BY <1>1, <1>2, FS_Subset
<1>4. Cardinality(B) \in Nat /\ Cardinality(C) \in Nat
    BY <1>1, <1>3, FS_CardinalityType
<1> QED
    BY <1>3, <1>4 DEF Rank

\* Every number up to their number is the rank of one of the places.
LEMMA RankReached ==
    ASSUME NEW n \in Nat, NEW I \in SUBSET (1..n), NEW r \in 1..Cardinality(I)
    PROVE  \E k \in I : Rank(I, k) = r
<1> DEFINE T == 1..Cardinality(I)
           f == [k \in I |-> Rank(I, k)]
<1>1. IsFiniteSet(I) /\ Cardinality(I) \in Nat
    BY PlacesFinite
<1>2. IsFiniteSet(T) /\ Cardinality(T) = Cardinality(I)
    BY <1>1, FS_Interval
<1>3. f \in [I -> T]
    BY RankType
<1>4. \A a, b \in I : f[a] = f[b] => a = b
    <2> SUFFICES ASSUME NEW a \in I, NEW b \in I, a # b PROVE Rank(I, a) # Rank(I, b)
        OBVIOUS
    <2>1. Rank(I, a) \in T /\ Rank(I, b) \in T
        BY RankType
    <2>2. a < b \/ b < a
        OBVIOUS
    <2>3. Rank(I, a) < Rank(I, b) \/ Rank(I, b) < Rank(I, a)
        BY <2>2, RankGrows
    <2> QED
        BY <1>1, <2>1, <2>3
<1>5. f \in Injection(I, T)
    <2> HIDE DEF f, T
    <2> QED
        BY <1>3, <1>4 DEF Injection, IsInjective
<1>6. f \in Surjection(I, T)
    BY <1>2, <1>5, FS_Injection
<1> QED
    BY <1>6 DEF Surjection

\* The n-th place is one of them, has rank n, and no other has.
LEMMA PlaceFacts ==
    ASSUME NEW n \in Nat, NEW I \in SUBSET (1..n)
    PROVE  /\ \A r \in 1..Cardinality(I) : Place(I, r) \in I /\ Rank(I, Place(I, r)) = r
           /\ \A k \in I : Rank(I, k) \in 1..Cardinality(I) /\ Place(I, Rank(I, k)) = k
<1>1. ASSUME NEW r \in 1..Cardinality(I)
      PROVE  Place(I, r) \in I /\ Rank(I, Place(I, r)) = r
    BY RankReached DEF Place
<1>2. ASSUME NEW k \in I
      PROVE  Rank(I, k) \in 1..Cardinality(I) /\ Place(I, Rank(I, k)) = k
    <2>1. Rank(I, k) \in 1..Cardinality(I)
        BY RankType
    <2>2. PICK m : m = Place(I, Rank(I, k)) /\ m \in I /\ Rank(I, m) = Rank(I, k)
        BY <1>1, <2>1
    <2>3. Rank(I, k) \in Nat
        BY <2>1, PlacesFinite
    <2>4. m < k => Rank(I, m) < Rank(I, k)
        BY <2>2, RankGrows
    <2>5. k < m => Rank(I, k) < Rank(I, m)
        BY <2>2, RankGrows
    <2>6. m = k
        BY <2>2, <2>3, <2>4, <2>5
    <2> QED
        BY <2>1, <2>2, <2>6
<1> QED
    BY <1>1, <1>2

\* What is picked is a sequence of entries at the places, in the order of the
\* places, and every entry at one of the places is picked.
LEMMA PickedFacts ==
    ASSUME NEW n \in Nat, NEW I \in SUBSET (1..n), NEW s
    PROVE  /\ Len(Picked(s, I)) = Cardinality(I) /\ Cardinality(I) \in 0..n
           /\ DOMAIN Picked(s, I) = 1..Cardinality(I)
           /\ \A S : (\A k \in I : s[k] \in S) => Picked(s, I) \in Seq(S)
           /\ \A r \in 1..Cardinality(I) : Place(I, r) \in I /\ Picked(s, I)[r] = s[Place(I, r)]
           /\ \A k \in I : \E r \in 1..Cardinality(I) : Picked(s, I)[r] = s[k] /\ Place(I, r) = k
<1>1. Cardinality(I) \in 0..n
    BY PlacesFinite
<1>2. \A r \in 1..Cardinality(I) : Place(I, r) \in I
    BY PlaceFacts
<1>3. \A k \in I : \E r \in 1..Cardinality(I) : Place(I, r) = k
    BY PlaceFacts
<1>4. \A r \in 1..Cardinality(I) : Picked(s, I)[r] = s[Place(I, r)]
    BY DEF Picked
<1>5. Len(Picked(s, I)) = Cardinality(I) /\ DOMAIN Picked(s, I) = 1..Cardinality(I)
    BY <1>1 DEF Picked
<1>6. ASSUME NEW S, \A k \in I : s[k] \in S
      PROVE  Picked(s, I) \in Seq(S)
    <2>1. \A r \in 1..Cardinality(I) : s[Place(I, r)] \in S
        BY <1>2, <1>6
    <2> QED
        BY <1>1, <2>1 DEF Picked
<1> QED
    BY <1>1, <1>2, <1>3, <1>4, <1>5, <1>6

\* Nothing is picked from nowhere.
LEMMA PickedNone == \A s : Picked(s, {}) = <<>>
BY FS_EmptySet DEF Picked

\* The places from the k-th on have their ranks beyond those before.
LEMMA RankPrefix ==
    ASSUME NEW n \in Nat, NEW I \in SUBSET (1..n), NEW m \in 0..n
    PROVE  LET J == I \cap (1..m)
           IN  /\ Cardinality(J) =< Cardinality(I)
               /\ \A k \in J : Rank(J, k) = Rank(I, k)
               /\ \A r \in 1..Cardinality(J) : Place(J, r) = Place(I, r)
<1> DEFINE J == I \cap (1..m)
<1>1. J \in SUBSET (1..n) /\ J \in SUBSET I
    OBVIOUS
<1>2. IsFiniteSet(I) /\ IsFiniteSet(J) /\ Cardinality(J) =< Cardinality(I)
    BY <1>1, PlacesFinite, FS_Subset
<1>3. ASSUME NEW k \in J PROVE Rank(J, k) = Rank(I, k)
    <2>1. \A j \in I : j =< k => j \in J
        OBVIOUS
    <2>2. {j \in J : j =< k} = {j \in I : j =< k}
        BY <2>1
    <2> QED
        BY <2>2 DEF Rank
<1>4. ASSUME NEW r \in 1..Cardinality(J) PROVE Place(J, r) = Place(I, r)
    <2>1. Place(J, r) \in J /\ Rank(J, Place(J, r)) = r
        BY <1>1, PlaceFacts
    <2>2. Place(J, r) \in I /\ Rank(I, Place(J, r)) = r
        BY <1>3, <2>1
    <2> QED
        BY <2>2, PlaceFacts
<1> QED
    BY <1>2, <1>3, <1>4

-----------------------------------------------------------------------------
(* Two sequences, one after the other.                                      *)

\* The places J of a sequence when another of n entries precedes it.
Behind(n, J) == {n + j : j \in J}

\* The places I of the first n entries, and J of those that follow.
Joined(n, I, J) == I \cup Behind(n, J)

LEMMA BehindCounts ==
    ASSUME NEW n \in Nat, NEW I \in SUBSET (1..n), NEW J \in SUBSET (Nat \ {0}), IsFiniteSet(J),
           NEW a, a = Cardinality(I), NEW b, b = Cardinality(J)
    PROVE  a \in Nat /\ b \in Nat /\ Cardinality(Joined(n, I, J)) = a + b
<1> DEFINE B == Behind(n, J)
           f == [j \in J |-> n + j]
<1>1. IsFiniteSet(I) /\ a \in Nat /\ b \in Nat
    BY PlacesFinite, FS_CardinalityType
<1>2. f \in [J -> B] /\ \A x, y \in J : f[x] = f[y] => x = y
    BY DEF Behind
<1>3. \A x \in B : \E j \in J : f[j] = x
    BY DEF Behind
<1>4. f \in Surjection(J, B)
    <2> HIDE DEF f, B
    <2> QED
        BY <1>2, <1>3 DEF Surjection
<1>5. f \in Injection(J, B)
    <2> HIDE DEF f, B
    <2> QED
        BY <1>2 DEF Injection, IsInjective
<1>6. IsFiniteSet(B) /\ Cardinality(B) = b
    BY <1>1, <1>4, <1>5, FS_Surjection
<1>7. I \cap B = {}
    BY DEF Behind
<1>8. Cardinality(I \cup B) = Cardinality(I) + Cardinality(B) - Cardinality(I \cap B)
    BY <1>1, <1>6, FS_Union
<1>9. Cardinality(I \cap B) = 0
    BY <1>7, FS_EmptySet
<1> QED
    BY <1>1, <1>6, <1>8, <1>9 DEF Joined

\* What is picked from both is what is picked from the one, then from the other.
LEMMA PickedConcat ==
    ASSUME NEW S, NEW s \in Seq(S), NEW t \in Seq(S),
           NEW n \in Nat, NEW m \in Nat, n = Len(s), m = Len(t),
           NEW I \in SUBSET (1..n), NEW J \in SUBSET (1..m)
    PROVE  Picked(s \o t, Joined(n, I, J)) = Picked(s, I) \o Picked(t, J)
<1> DEFINE B == Behind(n, J)
           K == Joined(n, I, J)
<1>1. PICK a \in Nat, b \in Nat : a = Cardinality(I) /\ b = Cardinality(J)
    BY PlacesFinite
<1>2. B \in SUBSET ((n + 1)..(n + m)) /\ Cardinality(K) = a + b
    <2>1. B \in SUBSET ((n + 1)..(n + m))
        BY DEF Behind
    <2>2. IsFiniteSet(J) /\ J \in SUBSET (Nat \ {0})
        BY PlacesFinite
    <2> QED
        BY <1>1, <2>1, <2>2, BehindCounts
<1>3. K \in SUBSET (1..(n + m)) /\ n + m \in Nat
    <2> SUFFICES ASSUME NEW x \in K PROVE x \in 1..(n + m)
        OBVIOUS
    <2>1. CASE x \in I
        BY <2>1
    <2>2. CASE x \in B
        BY <1>2, <2>2
    <2> QED
        BY <2>1, <2>2 DEF Joined
<1>4. ASSUME NEW r \in 1..a
      PROVE  Place(K, r) = Place(I, r) /\ Place(I, r) \in I
    <2>1. K \cap (1..n) = I
        <3>1. \A x \in B : x \notin 1..n
            BY <1>2
        <3> QED
            BY <3>1 DEF Joined
    <2>2. n \in 0..(n + m)
        OBVIOUS
    <2>3. \A q \in 1..Cardinality(K \cap (1..n)) : Place(K \cap (1..n), q) = Place(K, q)
        <3> HIDE DEF K
        <3> QED
            BY <1>3, <2>2, RankPrefix
    <2>4. Place(I, r) \in I
        BY <1>1, PlaceFacts
    <2> QED
        BY <1>1, <2>1, <2>3, <2>4
<1>5. ASSUME NEW j \in J
      PROVE  Rank(K, n + j) = a + Rank(J, j)
    <2> DEFINE L == {i \in J : i =< j}
    <2>1. L \in SUBSET (1..m)
        OBVIOUS
    <2>2. {x \in K : x =< n + j} = Joined(n, I, L)
        <3>1. \A x \in I : x =< n + j
            OBVIOUS
        <3>2. \A i \in J : n + i =< n + j <=> i =< j
            OBVIOUS
        <3>3. \A x \in B : \E i \in J : x = n + i
            BY DEF Behind
        <3>4. \A x \in B : x =< n + j => x \in Behind(n, L)
            BY <3>2, <3>3 DEF Behind
        <3>5. \A x \in Behind(n, L) : x \in B /\ x =< n + j
            BY <3>2 DEF Behind
        <3> QED
            BY <3>1, <3>4, <3>5 DEF Joined
    <2>3. Cardinality(Joined(n, I, L)) = a + Cardinality(L)
        <3> HIDE DEF L
        <3>1. IsFiniteSet(L) /\ L \in SUBSET (Nat \ {0})
            BY <2>1, PlacesFinite
        <3> QED
            BY <1>1, <3>1, BehindCounts
    <2> QED
        BY <2>2, <2>3 DEF Rank
<1>6. ASSUME NEW r \in 1..b
      PROVE  Place(K, a + r) = n + Place(J, r) /\ Place(J, r) \in J
    <2>1. Place(J, r) \in J /\ Rank(J, Place(J, r)) = r
        BY <1>1, PlaceFacts
    <2>2. n + Place(J, r) \in K /\ Rank(K, n + Place(J, r)) = a + r
        BY <1>5, <2>1 DEF Behind, Joined
    <2>3. Place(K, Rank(K, n + Place(J, r))) = n + Place(J, r)
        <3> HIDE DEF K
        <3> QED
            BY <1>3, <2>2, PlaceFacts
    <2> QED
        BY <2>1, <2>2, <2>3
<1>7. Picked(s, I) \in Seq(S) /\ Picked(t, J) \in Seq(S)
    <2>1. (\A k \in 1..n : s[k] \in S) /\ (\A k \in 1..m : t[k] \in S)
        OBVIOUS
    <2> QED
        BY <2>1, PickedFacts
<1>8. Len(Picked(s, I)) = a /\ Len(Picked(t, J)) = b
    BY <1>1, PickedFacts
<1>9. ASSUME NEW r \in 1..(a + b)
      PROVE  (s \o t)[Place(K, r)] = (Picked(s, I) \o Picked(t, J))[r]
    <2>1. CASE r \in 1..a
        <3>1. (s \o t)[Place(I, r)] = s[Place(I, r)]
            <4>1. Place(I, r) \in 1..n
                BY <1>4, <2>1
            <4> QED
                BY <4>1
        <3>2. (Picked(s, I) \o Picked(t, J))[r] = Picked(s, I)[r]
            BY <1>2, <1>7, <1>8, <2>1
        <3>3. Picked(s, I)[r] = s[Place(I, r)]
            BY <1>1, <2>1 DEF Picked
        <3> QED
            BY <1>4, <2>1, <3>1, <3>2, <3>3
    <2>2. CASE r \notin 1..a
        <3>1. PICK q \in 1..b : r = a + q
            BY <1>2, <2>2
        <3>2. (s \o t)[n + Place(J, q)] = t[Place(J, q)]
            <4>1. Place(J, q) \in 1..m
                BY <1>6
            <4> QED
                BY <4>1
        <3>3. (Picked(s, I) \o Picked(t, J))[a + q] = Picked(t, J)[q]
            BY <1>2, <1>7, <1>8
        <3>4. Picked(t, J)[q] = t[Place(J, q)]
            BY <1>1, <3>1 DEF Picked
        <3> QED
            BY <1>6, <3>1, <3>2, <3>3, <3>4
    <2> QED
        BY <2>1, <2>2
<1>10. Picked(s \o t, K) = [r \in 1..(a + b) |-> (s \o t)[Place(K, r)]]
    BY <1>2 DEF Picked
<1>11. Picked(s, I) \o Picked(t, J) =
            [r \in 1..(a + b) |-> (Picked(s, I) \o Picked(t, J))[r]]
    <2>1. PICK u, v : u = Picked(s, I) /\ v = Picked(t, J)
        OBVIOUS
    <2>2. u \in Seq(S) /\ v \in Seq(S) /\ Len(u) = a /\ Len(v) = b
        BY <1>7, <1>8, <2>1
    <2>3. PICK w \in Seq(S) : w = u \o v /\ Len(w) = a + b
        BY <2>2, ConcatProperties
    <2>4. w \in [1..Len(w) -> S]
        BY LenProperties
    <2>5. w = [r \in 1..(a + b) |-> w[r]]
        BY <2>3, <2>4
    <2> QED
        BY <2>1, <2>3, <2>4
<1> QED
    BY <1>9, <1>10, <1>11

-----------------------------------------------------------------------------
(* Places without a gap.                                                    *)

\* If every place has all places before it, the n-th is n.
LEMMA InOrderDense ==
    ASSUME NEW n \in Nat, NEW I \in SUBSET (1..n), \A k \in I : (1..k) \subseteq I
    PROVE  /\ I = 1..Cardinality(I) /\ Cardinality(I) \in 0..n
           /\ InOrder(I) = [r \in 1..Cardinality(I) |-> r]
<1>1. \A k \in I : Rank(I, k) = k
    <2> SUFFICES ASSUME NEW k \in I PROVE Rank(I, k) = k
        OBVIOUS
    <2>1. \A j \in 1..k : j \in I
        OBVIOUS
    <2>2. \A j \in I : j =< k => j \in 1..k
        OBVIOUS
    <2>3. {j \in I : j =< k} = 1..k
        <3>1. \A j \in 1..k : j =< k
            OBVIOUS
        <3> QED
            BY <2>1, <2>2, <3>1
    <2>4. Cardinality(1..k) = k
        <3>1. 1 \in Int /\ k \in Int /\ k >= 1
            OBVIOUS
        <3> QED
            BY <3>1, FS_Interval
    <2> QED
        BY <2>3, <2>4 DEF Rank
<1>2. PICK c \in Nat : c = Cardinality(I) /\ c =< n
    BY PlacesFinite
<1>3. \A r \in 1..c : Place(I, r) \in I /\ Rank(I, Place(I, r)) = r
    BY <1>2, PlaceFacts
<1>4. \A r \in 1..c : Place(I, r) = r /\ r \in I
    BY <1>1, <1>3
<1>5. \A k \in I : k \in 1..c
    BY <1>1, <1>2, RankType
<1>6. I = 1..c
    BY <1>4, <1>5
<1>7. InOrder(I) = [r \in 1..c |-> r]
    BY <1>2, <1>4 DEF InOrder
<1> QED
    BY <1>2, <1>6, <1>7
=============================================================================
