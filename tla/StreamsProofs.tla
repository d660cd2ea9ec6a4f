---------------------------- MODULE StreamsProofs ----------------------------
(***************************************************************************)
(* The safety of the streams, for every pair of protocols and every length *)
(* of an answer.  The invariant relates four accounts of one answer: what  *)
(* the model said, the chunks kept for the audit, the events written so    *)
(* far (those in the queue included) and the adapter's state.              *)
(***************************************************************************)
EXTENDS Streams, PickingProofs

-----------------------------------------------------------------------------
(* Columns: what the entries of a sequence say under one heading.          *)

GivenPlaces(values) == {i \in DOMAIN values : values[i] # None}

\* What the entries of s say under the heading g.
Values == Nat

Headings(S) == [S -> Values]

Column(s, g) == [i \in DOMAIN s |-> g[s[i]]]

Heard(s, g) == Given(Column(s, g))

LEMMA GivenType ==
    ASSUME NEW S, NEW v \in Seq(S)
    PROVE  /\ Given(v) \in Seq(S)
           /\ \A k \in 1..Len(v) : v[k] # None =>
                 \E r \in 1..Len(Given(v)) : Given(v)[r] = v[k]
           /\ \A r \in 1..Len(Given(v)) :
                 \E k \in 1..Len(v) : v[k] # None /\ Given(v)[r] = v[k]
<1>1. PICK n \in Nat : n = Len(v)
    BY LenProperties
<1>2. v \in [1..n -> S]
    BY <1>1, LenProperties
<1>3. PICK I \in SUBSET (1..n) : I = GivenPlaces(v)
    BY <1>2 DEF GivenPlaces
<1>4. Given(v) = Picked(v, I)
    BY <1>3 DEF Given, GivenPlaces
<1>5. \A k \in I : v[k] \in S /\ v[k] # None /\ k \in 1..n
    BY <1>2, <1>3 DEF GivenPlaces
<1>6. \A k \in 1..n : v[k] # None => k \in I
    BY <1>2, <1>3 DEF GivenPlaces
<1>7. /\ Len(Picked(v, I)) = Cardinality(I)
      /\ Picked(v, I) \in Seq(S)
      /\ \A r \in 1..Cardinality(I) : Place(I, r) \in I /\ Picked(v, I)[r] = v[Place(I, r)]
      /\ \A k \in I : \E r \in 1..Cardinality(I) : Picked(v, I)[r] = v[k] /\ Place(I, r) = k
    BY <1>5, PickedFacts
<1> QED
    BY <1>1, <1>4, <1>5, <1>6, <1>7

LEMMA GivenNothing ==
    ASSUME NEW v, \A k \in DOMAIN v : v[k] = None
    PROVE  Given(v) = <<>>
BY PickedNone DEF Given

\* One entry is given.
LEMMA GivenOne ==
    ASSUME NEW S, NEW v \in Seq(S), NEW k \in 1..Len(v), v[k] # None,
           \A j \in 1..Len(v) : v[j] # None => j = k
    PROVE  Given(v) = <<v[k]>>
<1>0. PICK n \in Nat : n = Len(v) /\ DOMAIN v = 1..n
    BY LenProperties
<1>1. Given(v) = Picked(v, {k})
    <2>1. GivenPlaces(v) = {k}
        BY <1>0 DEF GivenPlaces
    <2> QED
        BY <2>1 DEF GivenPlaces, Given
<1>2. Cardinality({k}) = 1
    BY FS_Singleton
<1>3. Place({k}, 1) = k
    <2>1. {k} \in SUBSET (1..n) /\ 1 \in 1..Cardinality({k})
        BY <1>0, <1>2
    <2> QED
        BY <2>1, PlaceFacts
<1>4. Picked(v, {k}) = [j \in 1..1 |-> v[Place({k}, j)]]
    BY <1>2 DEF Picked
<1>5. \A j \in 1..1 : v[Place({k}, j)] = v[k]
    BY <1>3
<1>6. [j \in 1..1 |-> v[k]] = <<v[k]>>
    OBVIOUS
<1> QED
    BY <1>1, <1>4, <1>5, <1>6

LEMMA GivenConcat ==
    ASSUME NEW S, NEW v \in Seq(S), NEW w \in Seq(S)
    PROVE  Given(v \o w) = Given(v) \o Given(w)
<1>0. ASSUME NEW n \in Nat, NEW m \in Nat, n = Len(v), m = Len(w),
             NEW I \in SUBSET (1..n), NEW J \in SUBSET (1..m)
      PROVE  Picked(v \o w, Joined(n, I, J)) = Picked(v, I) \o Picked(w, J)
    BY <1>0, PickedConcat
<1>1. PICK n \in Nat, m \in Nat : n = Len(v) /\ m = Len(w)
    BY LenProperties
<1>2. PICK I, J : I = GivenPlaces(v) /\ J = GivenPlaces(w)
    OBVIOUS
<1>3. v \in [1..n -> S] /\ w \in [1..m -> S]
    BY <1>1, LenProperties
<1>4. I \in SUBSET (1..n) /\ J \in SUBSET (1..m)
    BY <1>2, <1>3 DEF GivenPlaces
<1>5. PICK u \in Seq(S) : u = v \o w
    BY ConcatProperties
<1>6. Len(u) = n + m /\ \A i \in 1..(n + m) : u[i] = IF i =< n THEN v[i] ELSE w[i - n]
    BY <1>1, <1>5, ConcatProperties
<1>7. u \in [1..(n + m) -> S]
    BY <1>6, LenProperties
<1>8. GivenPlaces(u) = Joined(n, I, J)
    <2>1. ASSUME NEW i \in GivenPlaces(u) PROVE i \in Joined(n, I, J)
        <3>1. i \in 1..(n + m) /\ u[i] # None
            BY <1>7, <2>1 DEF GivenPlaces
        <3>2. CASE i =< n
            BY <1>2, <1>3, <1>6, <3>1, <3>2 DEF GivenPlaces, Joined
        <3>3. CASE ~(i =< n)
            <4>1. i - n \in 1..m /\ w[i - n] # None /\ i = n + (i - n)
                BY <1>6, <3>1, <3>3
            <4> QED
                BY <1>2, <1>3, <4>1 DEF GivenPlaces, Joined, Behind
        <3> QED
            BY <3>2, <3>3
    <2>2. ASSUME NEW i \in I PROVE i \in GivenPlaces(u)
        <3>1. i \in 1..n /\ v[i] # None
            BY <1>2, <1>4 DEF GivenPlaces
        <3>2. i \in 1..(n + m) /\ i =< n
            BY <3>1
        <3>3. u[i] # None
            BY <1>6, <3>1, <3>2
        <3> QED
            BY <1>7, <3>2, <3>3 DEF GivenPlaces
    <2>3. ASSUME NEW j \in J PROVE n + j \in GivenPlaces(u)
        <3>1. j \in 1..m /\ w[j] # None
            BY <1>2, <1>4 DEF GivenPlaces
        <3>2. n + j \in 1..(n + m) /\ ~(n + j =< n) /\ (n + j) - n = j
            BY <3>1
        <3>3. u[n + j] # None
            BY <1>6, <3>1, <3>2
        <3> QED
            BY <1>7, <3>2, <3>3 DEF GivenPlaces
    <2> QED
        BY <2>1, <2>2, <2>3 DEF Joined, Behind
<1>9. Picked(v \o w, Joined(n, I, J)) = Picked(v, I) \o Picked(w, J)
    BY <1>0, <1>1, <1>4
<1>10. \A x : Given(x) = Picked(x, GivenPlaces(x))
    BY DEF Given, GivenPlaces
<1> QED
    BY <1>2, <1>5, <1>8, <1>9, <1>10

LEMMA ColumnType ==
    ASSUME NEW S, NEW g \in Headings(S), NEW s \in Seq(S)
    PROVE  /\ Column(s, g) \in Seq(Values)
           /\ Len(s) \in Nat
           /\ \A i \in 1..Len(s) : Column(s, g)[i] = g[s[i]]
           /\ Len(Column(s, g)) = Len(s)
<1>1. PICK n \in Nat : n = Len(s)
    BY LenProperties
<1>2. s \in [1..n -> S] /\ g \in [S -> Values]
    BY <1>1, LenProperties DEF Headings
<1>3. Column(s, g) = [i \in 1..n |-> g[s[i]]]
    BY <1>2 DEF Column
<1>4. [i \in 1..n |-> g[s[i]]] \in [1..n -> Values]
    BY <1>2
<1>5. [i \in 1..n |-> g[s[i]]] \in Seq(Values) /\ Len([i \in 1..n |-> g[s[i]]]) = n
    BY <1>4
<1> QED
    BY <1>1, <1>3, <1>4, <1>5

LEMMA HeardType ==
    ASSUME NEW S, NEW g \in Headings(S), NEW s \in Seq(S)
    PROVE  /\ Heard(s, g) \in Seq(Values)
           /\ \A k \in 1..Len(s) : g[s[k]] # None =>
                 \E r \in 1..Len(Heard(s, g)) : Heard(s, g)[r] = g[s[k]]
           /\ \A r \in 1..Len(Heard(s, g)) :
                 \E k \in 1..Len(s) : g[s[k]] # None /\ Heard(s, g)[r] = g[s[k]]
<1>1. PICK n \in Nat : n = Len(s)
    BY ColumnType
<1>2. Column(s, g) \in Seq(Values) /\ Len(Column(s, g)) = Len(s)
      /\ \A i \in 1..Len(s) : Column(s, g)[i] = g[s[i]]
    BY ColumnType
<1>3. PICK v \in Seq(Values) : v = Column(s, g) /\ Len(v) = n /\ \A i \in 1..n : v[i] = g[s[i]]
    BY <1>1, <1>2
<1>4. /\ Given(v) \in Seq(Values)
      /\ \A k \in 1..Len(v) : v[k] # None => \E r \in 1..Len(Given(v)) : Given(v)[r] = v[k]
      /\ \A r \in 1..Len(Given(v)) : \E k \in 1..Len(v) : v[k] # None /\ Given(v)[r] = v[k]
    BY GivenType
<1>5. PICK h \in Seq(Values) :
          /\ h = Heard(s, g)
          /\ \A k \in 1..n : v[k] # None => \E r \in 1..Len(h) : h[r] = v[k]
          /\ \A r \in 1..Len(h) : \E k \in 1..n : v[k] # None /\ h[r] = v[k]
    BY <1>3, <1>4 DEF Heard
<1>6. \A k \in 1..n : g[s[k]] # None => \E r \in 1..Len(h) : h[r] = g[s[k]]
    BY <1>3, <1>5
<1>7. ASSUME NEW r \in 1..Len(h)
      PROVE  \E k \in 1..n : g[s[k]] # None /\ h[r] = g[s[k]]
    <2>1. PICK k \in 1..n : v[k] # None /\ h[r] = v[k]
        BY <1>5
    <2> QED
        BY <1>3, <2>1
<1> QED
    BY <1>1, <1>5, <1>6, <1>7

LEMMA HeardConcat ==
    ASSUME NEW S, NEW g \in Headings(S), NEW s \in Seq(S), NEW t \in Seq(S)
    PROVE  Heard(s \o t, g) = Heard(s, g) \o Heard(t, g)
<1>1. PICK n \in Nat, m \in Nat : n = Len(s) /\ m = Len(t)
    BY LenProperties
<1>2. PICK u \in Seq(S) : u = s \o t
    BY ConcatProperties
<1>3. Len(u) = n + m /\ \A i \in 1..(n + m) : u[i] = IF i =< n THEN s[i] ELSE t[i - n]
    BY <1>1, <1>2, ConcatProperties
<1>4. PICK a \in Seq(Values) : a = Column(s, g) /\ Len(a) = n /\ \A i \in 1..n : a[i] = g[s[i]]
    BY <1>1, ColumnType
<1>5. PICK b \in Seq(Values) : b = Column(t, g) /\ Len(b) = m /\ \A i \in 1..m : b[i] = g[t[i]]
    BY <1>1, ColumnType
<1>61. Column(u, g) \in Seq(Values) /\ Len(Column(u, g)) = Len(u)
       /\ \A i \in 1..Len(u) : Column(u, g)[i] = g[u[i]]
    BY ColumnType
<1>6. PICK c \in Seq(Values) : c = Column(u, g) /\ Len(c) = n + m /\ \A i \in 1..(n + m) : c[i] = g[u[i]]
    BY <1>3, <1>61
<1>7. PICK w \in Seq(Values) : w = a \o b
    BY ConcatProperties
<1>8. Len(w) = n + m /\ \A i \in 1..(n + m) : w[i] = IF i =< n THEN a[i] ELSE b[i - n]
    <2>1. /\ Len(a \o b) = Len(a) + Len(b)
          /\ \A i \in 1..(Len(a) + Len(b)) : (a \o b)[i] = IF i =< Len(a) THEN a[i] ELSE b[i - Len(a)]
        BY ConcatProperties
    <2> QED
        BY <1>4, <1>5, <1>7, <2>1
<1>9. ASSUME NEW i \in 1..(n + m) PROVE c[i] = w[i]
    <2>1. CASE i =< n
        <3>1. i \in 1..n /\ c[i] = g[u[i]] /\ u[i] = s[i] /\ w[i] = a[i]
            BY <1>3, <1>6, <1>8, <2>1
        <3> QED
            BY <1>4, <3>1
    <2>2. CASE ~(i =< n)
        <3>1. i - n \in 1..m /\ c[i] = g[u[i]] /\ u[i] = t[i - n] /\ w[i] = b[i - n]
            BY <1>3, <1>6, <1>8, <2>2
        <3> QED
            BY <1>5, <3>1
    <2> QED
        BY <2>1, <2>2
<1>10. c = w
    BY <1>6, <1>8, <1>9, SeqEqual
<1>11. Given(a \o b) = Given(a) \o Given(b)
    BY GivenConcat
<1> QED
    BY <1>2, <1>4, <1>5, <1>6, <1>7, <1>10, <1>11 DEF Heard

LEMMA HeardNone ==
    ASSUME NEW S, NEW s \in Seq(S), NEW g, \A k \in 1..Len(s) : g[s[k]] = None
    PROVE  Heard(s, g) = <<>>
<1>1. DOMAIN s = 1..Len(s)
    BY LenProperties
<1> QED
    BY <1>1, GivenNothing DEF Heard, Column

LEMMA HeardEmpty == \A g : Heard(<<>>, g) = <<>>
BY GivenNothing DEF Heard, Column

LEMMA HeardOne ==
    ASSUME NEW S, NEW g \in Headings(S), NEW e \in S
    PROVE  Heard(<<e>>, g) = IF g[e] = None THEN <<>> ELSE <<g[e]>>
<1>1. <<e>> \in Seq(S) /\ Len(<<e>>) = 1 /\ <<e>>[1] = e
    OBVIOUS
<1>2. PICK s \in Seq(S) : s = <<e>> /\ Len(s) = 1 /\ s[1] = e
    BY <1>1
<1>3. CASE g[e] = None
    <2>1. \A k \in 1..Len(s) : g[s[k]] = None
        BY <1>2, <1>3
    <2>2. Heard(s, g) = <<>>
        BY <2>1, HeardNone
    <2> QED
        BY <1>2, <1>3, <2>2
<1>4. CASE g[e] # None
    <2>1. PICK v \in Seq(Values) : v = Column(s, g) /\ Len(v) = 1 /\ v[1] = g[e]
        <3>1. Column(s, g) \in Seq(Values) /\ Len(Column(s, g)) = Len(s)
              /\ \A i \in 1..Len(s) : Column(s, g)[i] = g[s[i]]
            BY ColumnType
        <3> QED
            BY <1>2, <3>1
    <2>2. Given(v) = <<v[1]>>
        <3>1. 1 \in 1..Len(v) /\ v[1] # None /\ \A j \in 1..Len(v) : v[j] # None => j = 1
            BY <1>4, <2>1
        <3> QED
            BY <3>1, GivenOne
    <2> QED
        BY <1>2, <1>4, <2>1, <2>2 DEF Heard
<1> QED
    BY <1>3, <1>4

\* One entry says something.
LEMMA HeardSingle ==
    ASSUME NEW S, NEW g \in Headings(S), NEW s \in Seq(S), NEW k \in 1..Len(s),
           g[s[k]] # None, \A j \in 1..Len(s) : g[s[j]] # None => j = k
    PROVE  Heard(s, g) = <<g[s[k]]>>
<1>1. Column(s, g) \in Seq(Values) /\ Len(Column(s, g)) = Len(s)
      /\ \A i \in 1..Len(s) : Column(s, g)[i] = g[s[i]]
    BY ColumnType
<1>2. PICK v \in Seq(Values) : v = Column(s, g) /\ Len(v) = Len(s) /\ \A i \in 1..Len(s) : v[i] = g[s[i]]
    BY <1>1
<1>3. k \in 1..Len(v) /\ v[k] # None /\ \A j \in 1..Len(v) : v[j] # None => j = k
    BY <1>2
<1>4. Given(v) = <<v[k]>>
    BY <1>3, GivenOne
<1> QED
    BY <1>2, <1>4 DEF Heard

\* One entry more.
LEMMA HeardNext ==
    ASSUME NEW S, NEW g \in Headings(S), NEW s \in Seq(S), NEW e \in S
    PROVE  Heard(s \o <<e>>, g) = IF g[e] = None THEN Heard(s, g) ELSE Append(Heard(s, g), g[e])
<1>1. <<e>> \in Seq(S)
    OBVIOUS
<1>2. Heard(s \o <<e>>, g) = Heard(s, g) \o Heard(<<e>>, g)
    BY <1>1, HeardConcat
<1>3. PICK h \in Seq(Values) : h = Heard(s, g)
    BY HeardType
<1>4. h \o <<>> = h /\ g[e] \in Values /\ h \o <<g[e]>> = Append(h, g[e])
    BY ConcatEmptySeq, AppendIsConcat DEF Headings
<1> QED
    BY <1>2, <1>3, <1>4, HeardOne

\* What is heard is not empty if something was said, and all of it was said.
LEMMA HeardSaid ==
    ASSUME NEW S, NEW g \in Headings(S), NEW s \in Seq(S)
    PROVE  \E h \in Seq(Values) :
               /\ h = Heard(s, g)
               /\ (\E k \in 1..Len(s) : g[s[k]] # None) => Len(h) # 0
               /\ \A r \in 1..Len(h) : \E k \in 1..Len(s) : g[s[k]] # None /\ h[r] = g[s[k]]
<1>1. PICK h \in Seq(Values) :
          /\ h = Heard(s, g)
          /\ \A k \in 1..Len(s) : g[s[k]] # None => \E r \in 1..Len(h) : h[r] = g[s[k]]
          /\ \A r \in 1..Len(h) : \E k \in 1..Len(s) : g[s[k]] # None /\ h[r] = g[s[k]]
    BY HeardType
<1>2. ASSUME NEW k \in 1..Len(s), g[s[k]] # None PROVE Len(h) # 0
    <2>1. \E r \in 1..Len(h) : h[r] = g[s[k]]
        BY <1>1, <1>2
    <2> QED
        BY <2>1
<1> QED
    BY <1>1, <1>2

\* All that is heard under the heading g is x, and it is heard.
LEMMA HeardLast ==
    ASSUME NEW S, NEW g \in Headings(S), NEW s \in Seq(S), NEW x \in Nat, x # None,
           \A k \in 1..Len(s) : g[s[k]] = None \/ g[s[k]] = x,
           \E k \in 1..Len(s) : g[s[k]] = x
    PROVE  LastOf(Heard(s, g)) = x
<1>1. PICK h \in Seq(Values) :
          /\ h = Heard(s, g)
          /\ (\E k \in 1..Len(s) : g[s[k]] # None) => Len(h) # 0
          /\ \A r \in 1..Len(h) : \E k \in 1..Len(s) : g[s[k]] # None /\ h[r] = g[s[k]]
    BY HeardSaid
<1>2. PICK n \in Nat : n = Len(h)
    BY LenProperties
<1>3. \A r \in 1..n : h[r] = x
    BY <1>1, <1>2
<1>4. n # 0
    BY <1>1, <1>2
<1>5. h # <<>> /\ n \in 1..n
    BY <1>2, <1>4
<1> QED
    BY <1>1, <1>2, <1>3, <1>5 DEF LastOf

-----------------------------------------------------------------------------
(* What is sent: events, and what they say of block i.                     *)

PlainTypes == {"message_start", "message_delta", "message_stop", "created", "item.added",
               "part.added", "part.done", "item.done", "completed"}

StartEvents == [type : {"start"}, index : Nat, name : Nat]
StopEvents  == [type : {"stop"}, index : Nat]
DeltaEvents == [type : {"delta"}, index : Nat, piece : Nat]
PlainEvents == [type : PlainTypes]
TextEvents  == [type : {"text.done"}, text : Seq(Nat)]

Events == StartEvents \cup StopEvents \cup DeltaEvents \cup PlainEvents \cup TextEvents

PieceOf(i) == [e \in Events |-> IF e.type = "delta" /\ e.index = i THEN e.piece ELSE None]
StartOf    == [e \in Events |-> IF e.type = "start" THEN e.index ELSE None]

IsStart(e, i) == e.type = "start" /\ e.index = i

\* The events are told apart by their types.
LEMMA StartFacts ==
    \A i, n \in Nat : LET e == Start(i, n)
                      IN  e \in Events /\ e.type = "start" /\ e.index = i /\ e.name = n
BY DEF Start, Events, StartEvents

LEMMA StopFacts ==
    \A i \in Nat : LET e == Stop(i) IN e \in Events /\ e.type = "stop" /\ e.index = i
BY DEF Stop, Events, StopEvents

LEMMA DeltaFacts ==
    \A i, p \in Nat :
        LET e == Delta(i, p) IN e \in Events /\ e.type = "delta" /\ e.index = i /\ e.piece = p
BY DEF Delta, Events, DeltaEvents

LEMMA PlainFacts ==
    \A t \in PlainTypes : LET e == Event(t)
                          IN  /\ e \in Events /\ e.type = t
                              /\ e.type \notin {"start", "stop", "delta"}
BY DEF Event, Events, PlainEvents, PlainTypes

LEMMA TextFacts ==
    \A t \in Seq(Nat) : LET e == [type |-> "text.done", text |-> t]
                        IN  e \in Events /\ e.type = "text.done"
BY DEF Events, TextEvents

LEMMA EventFacts ==
    ASSUME NEW e \in Events
    PROVE  /\ e.type = "start" => e.index \in Nat /\ e.name \in Nat
           /\ e.type = "delta" => e.index \in Nat /\ e.piece \in Nat
           /\ e.type = "stop" => e.index \in Nat /\ e = Stop(e.index)
<1>1. CASE e \in StartEvents
    BY <1>1 DEF StartEvents
<1>2. CASE e \in StopEvents
    BY <1>2 DEF StopEvents, Stop
<1>3. CASE e \in DeltaEvents
    BY <1>3 DEF DeltaEvents
<1>4. CASE e \in PlainEvents
    BY <1>4 DEF PlainEvents, PlainTypes
<1>5. CASE e \in TextEvents
    BY <1>5 DEF TextEvents
<1> QED
    BY <1>1, <1>2, <1>3, <1>4, <1>5 DEF Events

LEMMA PieceOfFacts ==
    ASSUME NEW i \in Nat
    PROVE  /\ PieceOf(i) \in Headings(Events)
           /\ \A e \in Events : e.type # "delta" => PieceOf(i)[e] = None
           /\ \A j, p \in Nat : PieceOf(i)[Delta(j, p)] = IF i = j THEN p ELSE None
<1>1. \A e \in Events : (IF e.type = "delta" /\ e.index = i THEN e.piece ELSE None) \in Nat
    BY EventFacts DEF None
<1>2. PieceOf(i) \in Headings(Events)
    BY <1>1 DEF PieceOf, Headings, Values
<1>3. \A e \in Events : PieceOf(i)[e] = IF e.type = "delta" /\ e.index = i THEN e.piece ELSE None
    BY DEF PieceOf
<1> QED
    BY <1>2, <1>3, DeltaFacts

LEMMA StartOfFacts ==
    /\ StartOf \in Headings(Events)
    /\ \A e \in Events : e.type # "start" => StartOf[e] = None
    /\ \A e \in Events : e.type = "start" => StartOf[e] = e.index
    /\ \A i, n \in Nat : StartOf[Start(i, n)] = i
<1>1. \A e \in Events : (IF e.type = "start" THEN e.index ELSE None) \in Nat
    BY EventFacts DEF None
<1>2. StartOf \in Headings(Events)
    BY <1>1 DEF StartOf, Headings, Values
<1>3. \A e \in Events : StartOf[e] = IF e.type = "start" THEN e.index ELSE None
    BY DEF StartOf
<1> QED
    BY <1>2, <1>3, StartFacts

\* The client's own words are these headings.
LEMMA DeltasAreHeard ==
    ASSUME NEW s \in Seq(Events), NEW i \in Nat
    PROVE  Given(Deltas(s, i)) = Heard(s, PieceOf(i))
<1>1. \A j \in DOMAIN s : s[j] \in Events
    OBVIOUS
<1> QED
    BY <1>1 DEF Heard, Column, Deltas, PieceOf

LEMMA StartsAreHeard ==
    ASSUME NEW s \in Seq(Events)
    PROVE  Given(Starts(s)) = Heard(s, StartOf)
<1>1. \A j \in DOMAIN s : s[j] \in Events
    OBVIOUS
<1> QED
    BY <1>1 DEF Heard, Column, Starts, StartOf

-----------------------------------------------------------------------------
(* What is kept: chunks, and what they say of block i, where call i is     *)
(* block i and the text is block 0.                                        *)

SayOf(i) == [c \in Chunks |-> IF i = 0 THEN c.text
                              ELSE IF c.tool.index = i - 1 THEN c.tool.args ELSE None]

\* The chunk with the first delta of call m + 1.
Names1(c, m) == c.tool.index = m /\ c.tool.name = m + 1

\* Whatever is said of a call is said of one whose first delta, and whose
\* predecessors' first deltas, have come.
Named(P, n) ==
    \A j \in 1..Len(P) :
        \/ P[j].tool.index = -1
        \/ /\ P[j].tool.index \in 0..(n - 1)
           /\ P[j].tool.name \in {None, P[j].tool.index + 1}
           /\ \A m \in 0..P[j].tool.index : \E i \in 1..j : Names1(P[i], m)

Kept(P, H, n) ==
    /\ P \in Seq(Chunks)
    /\ \A i \in Nat : Heard(P, SayOf(i)) = H[i]
    /\ Named(P, n)
    /\ \A m \in 0..(n - 1) : \E i \in 1..Len(P) : Names1(P[i], m)

LEMMA ChunkFacts ==
    ASSUME NEW c \in Chunks
    PROVE  /\ c.text \in Nat /\ c.tool.name \in Nat /\ c.tool.args \in Nat
           /\ c.tool.index \in -1..MaxSaid
           /\ c.finish \in BOOLEAN /\ c.usage \in BOOLEAN
BY StreamsAssumption DEF Chunks

LEMMA EmptyChunk == Empty \in Chunks
<1>1. -1 \in -1..MaxSaid /\ 0 \in 0..MaxSaid
    BY StreamsAssumption
<1>2. NoTool \in [index : -1..MaxSaid, name : 0..MaxSaid, args : 0..MaxSaid]
    BY <1>1 DEF NoTool, None
<1> QED
    BY <1>1, <1>2 DEF Empty, Chunks, None

LEMMA EmptyFacts ==
    ASSUME NEW f \in BOOLEAN, NEW u \in BOOLEAN
    PROVE  LET c == [Empty EXCEPT !.finish = f, !.usage = u]
           IN  c \in Chunks /\ c.text = None /\ c.tool = NoTool /\ c.finish = f /\ c.usage = u
<1>1. [Empty EXCEPT !.finish = f, !.usage = u] \in Chunks
    BY EmptyChunk DEF Chunks
<1> QED
    BY <1>1 DEF Empty

LEMMA TextChunkFacts ==
    ASSUME NEW p \in 1..MaxSaid
    PROVE  LET c == Text(p)
           IN  c \in Chunks /\ c.text = p /\ c.tool = NoTool /\ ~c.finish /\ ~c.usage
<1>1. Text(p) \in Chunks
    BY EmptyChunk, StreamsAssumption DEF Chunks, Text
<1> QED
    BY <1>1 DEF Text, Empty

LEMMA ToolChunkFacts ==
    ASSUME NEW i \in 0..MaxSaid, NEW n \in 0..MaxSaid, NEW p \in 0..MaxSaid
    PROVE  LET c == Tool(i, n, p)
           IN  /\ c \in Chunks /\ c.text = None /\ ~c.finish /\ ~c.usage
               /\ c.tool.index = i /\ c.tool.name = n /\ c.tool.args = p
<1>1. Tool(i, n, p) \in Chunks
    BY EmptyChunk, StreamsAssumption DEF Chunks, Tool
<1> QED
    BY <1>1 DEF Tool, Empty

LEMMA SayOfFacts ==
    ASSUME NEW i \in Nat
    PROVE  /\ SayOf(i) \in Headings(Chunks)
           /\ \A c \in Chunks : SayOf(i)[c] = IF i = 0 THEN c.text
                                              ELSE IF c.tool.index = i - 1 THEN c.tool.args
                                              ELSE None
<1>1. \A c \in Chunks : (IF i = 0 THEN c.text
                         ELSE IF c.tool.index = i - 1 THEN c.tool.args ELSE None) \in Nat
    BY ChunkFacts DEF None
<1> QED
    BY <1>1 DEF SayOf, Headings, Values

\* The extraction's words are these headings.
LEMMA TextIsHeard ==
    ASSUME NEW P \in Seq(Chunks)
    PROVE  TextIn(P) = Heard(P, SayOf(0))
<1>1. \A j \in DOMAIN P : P[j] \in Chunks
    OBVIOUS
<1> QED
    BY <1>1 DEF Heard, Column, TextIn, Texts, SayOf

LEMMA ArgsAreHeard ==
    ASSUME NEW P \in Seq(Chunks), NEW i \in Nat \ {0}
    PROVE  Given(Args(P, i - 1)) = Heard(P, SayOf(i))
<1>1. \A j \in DOMAIN P : P[j] \in Chunks
    OBVIOUS
<1> QED
    BY <1>1 DEF Heard, Column, Args, SayOf

\* _extract_tool_calls finds the calls whose first deltas have come.
LEMMA ToolsAreHeard ==
    ASSUME NEW n \in 0..MaxSaid, NEW P \in Seq(Chunks), Named(P, n)
    PROVE  \E K \in 0..n :
              /\ ToolsIn(P) = [i \in 1..K |-> [name |-> i, args |-> Heard(P, SayOf(i))]]
              /\ \A m \in 0..(n - 1) : (\E i \in 1..Len(P) : Names1(P[i], m)) => m + 1 \in 1..K
<1> DEFINE I == {i \in 1..MaxSaid : i - 1 \in Indices(P)}
           Said(m) == \E j \in 1..Len(P) : P[j].tool.index = m
<1>0. PICK len \in Nat : len = Len(P) /\ DOMAIN P = 1..len
    BY LenProperties
<1>1. \A m \in Nat : m \in Indices(P) <=> \E j \in 1..len : P[j].tool.index = m
    BY <1>0 DEF Indices
<1>2. MaxSaid \in Nat /\ n \in Nat /\ n =< MaxSaid
    BY StreamsAssumption
<1>3. \A i \in I : i \in 1..n /\ \A m \in 1..i : m \in I
    <2> SUFFICES ASSUME NEW i \in I PROVE i \in 1..n /\ \A m \in 1..i : m \in I
        OBVIOUS
    <2>1. i \in 1..MaxSaid /\ i - 1 \in Nat
        BY <1>2
    <2>2. PICK j \in 1..len : P[j].tool.index = i - 1
        BY <1>1, <2>1
    <2>3. i - 1 \in 0..(n - 1) /\ \A m \in 0..(i - 1) : \E k \in 1..j : Names1(P[k], m)
        BY <1>0, <2>1, <2>2 DEF Named
    <2>4. ASSUME NEW m \in 1..i PROVE m \in I
        <3>1. m - 1 \in 0..(i - 1) /\ m \in 1..MaxSaid
            BY <1>2, <2>1
        <3>2. PICK k \in 1..j : P[k].tool.index = m - 1
            BY <2>3, <3>1 DEF Names1
        <3>3. k \in 1..len
            OBVIOUS
        <3>4. m - 1 \in Indices(P)
            BY <1>1, <3>1, <3>2, <3>3
        <3> QED
            BY <3>1, <3>4
    <2> QED
        BY <1>2, <2>3, <2>4
<1>4. PICK K \in 0..n : K = Cardinality(I) /\ I = 1..K /\ InOrder(I) = [r \in 1..K |-> r]
    <2>1. I \in SUBSET (1..n) /\ \A k \in I : (1..k) \subseteq I
        BY <1>3
    <2> HIDE DEF I
    <2> QED
        BY <1>2, <2>1, InOrderDense
<1>5. ToolsIn(P) = [i \in 1..K |-> Merged(P, i - 1)]
    BY <1>4 DEF ToolsIn
<1>6. ASSUME NEW i \in 1..K
      PROVE  Merged(P, i - 1) = [name |-> i, args |-> Heard(P, SayOf(i))]
    <2>1. i \in Nat \ {0} /\ i \in I
        BY <1>4
    <2>2. Given(Args(P, i - 1)) = Heard(P, SayOf(i))
        BY <2>1, ArgsAreHeard
    <2> DEFINE g == [c \in Chunks |-> IF c.tool.index = i - 1 THEN c.tool.name ELSE None]
    <2>3. g \in Headings(Chunks)
        <3>1. \A c \in Chunks : (IF c.tool.index = i - 1 THEN c.tool.name ELSE None) \in Nat
            BY ChunkFacts DEF None
        <3> QED
            BY <3>1 DEF Headings, Values
    <2>4. Given(Names(P, i - 1)) = Heard(P, g)
        <3>1. \A j \in DOMAIN P : P[j] \in Chunks
            OBVIOUS
        <3> QED
            BY <3>1 DEF Heard, Column, Names
    <2>5. \A k \in 1..len : P[k] \in Chunks
                            /\ g[P[k]] = IF P[k].tool.index = i - 1 THEN P[k].tool.name ELSE None
        BY <1>0
    <2>6. \A k \in 1..len : g[P[k]] \in {None, i}
        <3> SUFFICES ASSUME NEW k \in 1..len, P[k].tool.index = i - 1
                     PROVE  P[k].tool.name \in {None, i}
            BY <2>5
        <3> QED
            BY <1>0, <2>1 DEF Named
    <2>7. \E k \in 1..len : g[P[k]] = i
        <3>1. i - 1 \in Nat /\ i - 1 \in Indices(P)
            BY <2>1
        <3>2. PICK j \in 1..len : P[j].tool.index = i - 1
            BY <1>1, <3>1
        <3>3. PICK k \in 1..j : Names1(P[k], i - 1)
            BY <1>0, <3>1, <3>2 DEF Named
        <3>4. k \in 1..len /\ P[k].tool.index = i - 1 /\ P[k].tool.name = i
            BY <2>1, <3>3 DEF Names1
        <3> QED
            BY <2>5, <3>4
    <2>8. i \in Nat \ {None}
        BY <2>1 DEF None
    <2>9. LastOf(Heard(P, g)) = i
        <3> HIDE DEF g
        <3> QED
            BY <1>0, <2>3, <2>6, <2>7, <2>8, HeardLast
    <2> QED
        BY <2>2, <2>4, <2>9 DEF Merged
<1>7. ASSUME NEW m \in 0..(n - 1), NEW j \in 1..Len(P), Names1(P[j], m)
      PROVE  m + 1 \in 1..K
    <2>1. m \in Nat /\ m + 1 \in 1..MaxSaid /\ (m + 1) - 1 = m
        BY <1>2
    <2>2. m \in Indices(P)
        BY <1>0, <1>1, <1>7, <2>1 DEF Names1
    <2> QED
        BY <1>4, <2>1, <2>2
<1> QED
    BY <1>5, <1>6, <1>7

-----------------------------------------------------------------------------
(* The account H of an answer gives what was said of every block.          *)

Accounts == [Nat -> Seq(Values)]

Nothing == [i \in Nat |-> <<>>]

\* The piece p is said of block i.
Add(H, i, p) == [H EXCEPT ![i] = Append(@, p)]

LEMMA AddFacts ==
    ASSUME NEW H \in Accounts, NEW i \in Nat, NEW p \in Nat
    PROVE  /\ Add(H, i, p) \in Accounts
           /\ \A j \in Nat : Add(H, i, p)[j] = IF j = i THEN Append(H[i], p) ELSE H[j]
<1>1. H[i] \in Seq(Values) /\ p \in Values
    BY DEF Accounts, Values
<1>2. Append(H[i], p) \in Seq(Values)
    BY <1>1, AppendProperties
<1> QED
    BY <1>2 DEF Add, Accounts

\* The account without what the audit cannot read.
Whole == [p \in Values |-> IF p \in Separated THEN None ELSE p]

Filtered(H) == [i \in Nat |-> Audible(H[i])]

LEMMA AudibleIsHeard ==
    ASSUME NEW h \in Seq(Values)
    PROVE  Audible(h) = Heard(h, Whole) /\ Audible(h) \in Seq(Values)
<1>1. Whole \in Headings(Values)
    BY DEF Whole, Headings, Values, None
<1>2. \A i \in DOMAIN h : h[i] \in Values
    OBVIOUS
<1>3. Audible(h) = Heard(h, Whole)
    BY <1>2 DEF Audible, Heard, Column, Whole
<1> QED
    BY <1>1, <1>3, HeardType

LEMMA AudibleNext ==
    ASSUME NEW h \in Seq(Values), NEW p \in Nat, p # None
    PROVE  Audible(Append(h, p)) = IF p \in Separated THEN Audible(h) ELSE Append(Audible(h), p)
<1>1. Whole \in Headings(Values) /\ p \in Values
    BY DEF Whole, Headings, Values, None
<1>2. Append(h, p) = h \o <<p>> /\ Append(h, p) \in Seq(Values)
    BY <1>1, AppendIsConcat, AppendProperties
<1>3. Heard(h \o <<p>>, Whole) = IF Whole[p] = None THEN Heard(h, Whole)
                                  ELSE Append(Heard(h, Whole), Whole[p])
    BY <1>1, HeardNext
<1>4. Whole[p] = IF p \in Separated THEN None ELSE p
    BY <1>1 DEF Whole
<1> QED
    BY <1>2, <1>3, <1>4, AudibleIsHeard

LEMMA FilteredFacts ==
    ASSUME NEW H \in Accounts
    PROVE  Filtered(H) \in Accounts /\ \A i \in Nat : Filtered(H)[i] = Audible(H[i])
<1>1. \A i \in Nat : Audible(H[i]) \in Seq(Values)
    BY AudibleIsHeard DEF Accounts
<1> QED
    BY <1>1 DEF Filtered, Accounts

LEMMA FilteredNext ==
    ASSUME NEW H \in Accounts, NEW i \in Nat, NEW p \in Nat, p # None
    PROVE  Filtered(Add(H, i, p)) = IF p \in Separated THEN Filtered(H)
                                    ELSE Add(Filtered(H), i, p)
<1>1. PICK F \in Accounts : F = Filtered(H) /\ \A j \in Nat : F[j] = Audible(H[j])
    BY FilteredFacts
<1>2. PICK G \in Accounts : /\ G = Add(H, i, p)
                            /\ \A j \in Nat : G[j] = IF j = i THEN Append(H[i], p) ELSE H[j]
    BY AddFacts
<1>3. PICK K \in Accounts : K = Filtered(G) /\ \A j \in Nat : K[j] = Audible(G[j])
    BY FilteredFacts
<1>4. PICK A \in Accounts : /\ A = Add(F, i, p)
                            /\ \A j \in Nat : A[j] = IF j = i THEN Append(F[i], p) ELSE F[j]
    BY AddFacts
<1>5. Audible(Append(H[i], p)) = IF p \in Separated THEN Audible(H[i])
                                 ELSE Append(Audible(H[i]), p)
    BY AudibleNext DEF Accounts
<1>6. \A j \in Nat : K[j] = IF p \in Separated THEN F[j] ELSE A[j]
    BY <1>1, <1>2, <1>3, <1>4, <1>5
<1>7. \A X, Y \in Accounts : (\A j \in Nat : X[j] = Y[j]) => X = Y
    BY DEF Accounts
<1> QED
    BY <1>1, <1>2, <1>3, <1>4, <1>6, <1>7

LEMMA FilteredNothing == Filtered(Nothing) = Nothing
<1>1. <<>> \in Seq(Values)
    OBVIOUS
<1>2. Audible(<<>>) = <<>>
    BY <1>1, AudibleIsHeard, HeardEmpty
<1> QED
    BY <1>2 DEF Filtered, Nothing

LEMMA NamedNext ==
    ASSUME NEW P \in Seq(Chunks), NEW c \in Chunks, NEW n \in Nat, NEW k \in Nat, n =< k,
           Named(P, n),
           \/ c.tool.index = -1
           \/ /\ c.tool.index \in 0..(k - 1)
              /\ c.tool.name \in {None, c.tool.index + 1}
              /\ \A m \in 0..c.tool.index : Names1(c, m) \/ \E i \in 1..Len(P) : Names1(P[i], m)
    PROVE  Named(Append(P, c), k)
<1>1. PICK len \in Nat : len = Len(P)
    BY LenProperties
<1>2. PICK Q : Q = Append(P, c)
    OBVIOUS
<1>3. Len(Q) = len + 1 /\ (\A j \in 1..len : Q[j] = P[j]) /\ Q[len + 1] = c
    BY <1>1, <1>2, AppendProperties
<1>4. ASSUME NEW j \in 1..(len + 1), Q[j].tool.index # -1
      PROVE  /\ Q[j].tool.index \in 0..(k - 1)
             /\ Q[j].tool.name \in {None, Q[j].tool.index + 1}
             /\ \A m \in 0..Q[j].tool.index : \E i \in 1..j : Names1(Q[i], m)
    <2>1. CASE j = len + 1
        <3>1. Q[j] = c /\ c.tool.index # -1
            BY <1>3, <1>4, <2>1
        <3>2. ASSUME NEW m \in 0..c.tool.index PROVE \E i \in 1..j : Names1(Q[i], m)
            <4>1. CASE Names1(c, m)
                BY <2>1, <3>1, <4>1
            <4>2. CASE \E i \in 1..len : Names1(P[i], m)
                <5>1. PICK i \in 1..len : Names1(P[i], m)
                    BY <4>2
                <5>2. i \in 1..j /\ Q[i] = P[i]
                    BY <1>3, <2>1
                <5> QED
                    BY <5>1, <5>2
            <4> QED
                BY <1>1, <3>1, <4>1, <4>2
        <3> QED
            BY <3>1, <3>2
    <2>2. CASE j # len + 1
        <3>1. j \in 1..len /\ Q[j] = P[j] /\ \A i \in 1..j : Q[i] = P[i]
            BY <1>3, <2>2
        <3>2. /\ P[j].tool.index \in 0..(n - 1)
              /\ P[j].tool.name \in {None, P[j].tool.index + 1}
              /\ \A m \in 0..P[j].tool.index : \E i \in 1..j : Names1(P[i], m)
            BY <1>1, <1>4, <3>1 DEF Named
        <3>3. P[j].tool.index \in 0..(k - 1)
            BY <3>2
        <3> QED
            BY <3>1, <3>2, <3>3
    <2> QED
        BY <2>1, <2>2
<1> QED
    BY <1>2, <1>3, <1>4 DEF Named

\* One chunk more is kept.
LEMMA KeptNext ==
    ASSUME NEW P, NEW H, NEW n \in Nat, Kept(P, H, n),
           NEW c \in Chunks, NEW G, NEW k \in Nat, n =< k,
           \A i \in Nat : G[i] = IF SayOf(i)[c] = None THEN H[i] ELSE Append(H[i], SayOf(i)[c]),
           \/ c.tool.index = -1
           \/ /\ c.tool.index \in 0..(k - 1)
              /\ c.tool.name \in {None, c.tool.index + 1}
              /\ \A m \in 0..c.tool.index : m < n \/ Names1(c, m),
           \A m \in 0..(k - 1) : m < n \/ Names1(c, m)
    PROVE  Kept(Append(P, c), G, k)
<1>1. PICK len \in Nat : len = Len(P) /\ P \in Seq(Chunks)
    BY LenProperties DEF Kept
<1>2. Append(P, c) = P \o <<c>> /\ Append(P, c) \in Seq(Chunks)
    BY <1>1, AppendIsConcat, AppendProperties
<1>3. \A m \in 0..(n - 1) : \E i \in 1..len : Names1(P[i], m)
    BY <1>1 DEF Kept
<1>4. \A i \in Nat : Heard(Append(P, c), SayOf(i)) = G[i]
    <2> SUFFICES ASSUME NEW i \in Nat PROVE Heard(P \o <<c>>, SayOf(i)) = G[i]
        BY <1>2
    <2>1. SayOf(i) \in Headings(Chunks)
        BY SayOfFacts
    <2>2. Heard(P \o <<c>>, SayOf(i)) =
              IF SayOf(i)[c] = None THEN Heard(P, SayOf(i)) ELSE Append(Heard(P, SayOf(i)), SayOf(i)[c])
        BY <1>1, <2>1, HeardNext
    <2>3. Heard(P, SayOf(i)) = H[i]
        BY DEF Kept
    <2> QED
        BY <2>2, <2>3
<1>5. Named(Append(P, c), k)
    <2>1. Named(P, n)
        BY DEF Kept
    <2>2. CASE c.tool.index = -1
        BY <1>1, <2>1, <2>2, NamedNext
    <2>3. CASE c.tool.index # -1
        <3>1. c.tool.index \in 0..(k - 1) /\ c.tool.name \in {None, c.tool.index + 1}
            BY <2>3
        <3>2. ASSUME NEW m \in 0..c.tool.index
              PROVE  Names1(c, m) \/ \E i \in 1..Len(P) : Names1(P[i], m)
            BY <1>1, <1>3, <2>3, <3>1
        <3> QED
            BY <1>1, <2>1, <3>1, <3>2, NamedNext
    <2> QED
        BY <2>2, <2>3
<1>6. \A m \in 0..(k - 1) : \E i \in 1..Len(Append(P, c)) : Names1(Append(P, c)[i], m)
    <2>1. PICK Q : Q = Append(P, c)
        OBVIOUS
    <2>2. Len(Q) = len + 1 /\ (\A j \in 1..len : Q[j] = P[j]) /\ Q[len + 1] = c
        BY <1>1, <2>1, AppendProperties
    <2>3. ASSUME NEW m \in 0..(k - 1) PROVE \E i \in 1..(len + 1) : Names1(Q[i], m)
        <3>1. CASE m < n
            <4>1. m \in 0..(n - 1)
                BY <3>1
            <4>2. PICK i \in 1..len : Names1(P[i], m)
                BY <1>3, <4>1
            <4>3. i \in 1..(len + 1) /\ Q[i] = P[i]
                BY <2>2
            <4> QED
                BY <4>2, <4>3
        <3>2. CASE ~(m < n)
            <4>1. len + 1 \in 1..(len + 1) /\ Names1(Q[len + 1], m)
                BY <2>2, <3>2
            <4> QED
                BY <4>1
        <3> QED
            BY <3>1, <3>2
    <2> QED
        BY <2>1, <2>2, <2>3
<1> QED
    BY <1>2, <1>4, <1>5, <1>6 DEF Kept

LEMMA KeptNothing == Kept(<<>>, Nothing, 0)
<1>1. <<>> \in Seq(Chunks) /\ Len(<<>>) = 0
    BY EmptySeq
<1>2. \A i \in Nat : Heard(<<>>, SayOf(i)) = <<>> /\ Nothing[i] = <<>>
    BY HeardEmpty DEF Nothing
<1> QED
    BY <1>1, <1>2 DEF Kept, Named

LEMMA KeptText ==
    ASSUME NEW P, NEW H \in Accounts, NEW n \in Nat, Kept(P, H, n), NEW p \in 1..MaxSaid
    PROVE  Kept(Append(P, Text(p)), Add(H, 0, p), n)
<1>1. PICK c : c = Text(p)
    OBVIOUS
<1>2. c \in Chunks /\ c.text = p /\ c.tool.index = -1 /\ c.tool.args = None
    BY <1>1, TextChunkFacts DEF NoTool
<1>3. p \in Nat /\ p # None /\ 0 \in Nat
    BY DEF None
<1>4. ASSUME NEW i \in Nat
      PROVE  Add(H, 0, p)[i] = IF SayOf(i)[c] = None THEN H[i] ELSE Append(H[i], SayOf(i)[c])
    <2>1. SayOf(i)[c] = IF i = 0 THEN p ELSE IF c.tool.index = i - 1 THEN c.tool.args ELSE None
        BY <1>2, SayOfFacts
    <2>2. SayOf(i)[c] = IF i = 0 THEN p ELSE None
        BY <1>2, <2>1
    <2> QED
        BY <1>3, <2>2, AddFacts
<1>5. n =< n /\ \A m \in 0..(n - 1) : m < n
    OBVIOUS
<1>6. Kept(Append(P, c), Add(H, 0, p), n)
    BY <1>2, <1>4, <1>5, KeptNext
<1> QED
    BY <1>1, <1>6

\* The first delta of call n + 1.
LEMMA KeptCall ==
    ASSUME NEW P, NEW H \in Accounts, NEW n \in 0..(MaxSaid - 1), Kept(P, H, n)
    PROVE  Kept(Append(P, Tool(n, n + 1, None)), H, n + 1)
<1>1. PICK c : c = Tool(n, n + 1, None)
    OBVIOUS
<1>2. n \in 0..MaxSaid /\ n + 1 \in 0..MaxSaid /\ None \in 0..MaxSaid /\ n \in Nat /\ n + 1 \in Nat
    BY StreamsAssumption DEF None
<1>3. c \in Chunks /\ c.text = None
      /\ c.tool.index = n /\ c.tool.name = n + 1 /\ c.tool.args = None
    BY <1>1, <1>2, ToolChunkFacts
<1>4. ASSUME NEW i \in Nat
      PROVE  H[i] = IF SayOf(i)[c] = None THEN H[i] ELSE Append(H[i], SayOf(i)[c])
    <2>1. SayOf(i)[c] = IF i = 0 THEN c.text ELSE IF c.tool.index = i - 1 THEN c.tool.args ELSE None
        BY <1>3, SayOfFacts
    <2> QED
        BY <1>3, <2>1
<1>5. n =< n + 1 /\ \A m \in 0..((n + 1) - 1) : m < n \/ Names1(c, m)
    BY <1>2, <1>3 DEF Names1
<1>6. /\ c.tool.index \in 0..((n + 1) - 1)
      /\ c.tool.name \in {None, c.tool.index + 1}
      /\ \A m \in 0..c.tool.index : m < n \/ Names1(c, m)
    BY <1>2, <1>3, <1>5
<1>7. Kept(Append(P, c), H, n + 1)
    BY <1>2, <1>3, <1>4, <1>5, <1>6, KeptNext
<1> QED
    BY <1>1, <1>7

LEMMA KeptArgs ==
    ASSUME NEW P, NEW H \in Accounts, NEW n \in 0..MaxSaid, Kept(P, H, n),
           NEW b \in 1..n, NEW p \in 1..MaxSaid
    PROVE  Kept(Append(P, Tool(b - 1, None, p)), Add(H, b, p), n)
<1>1. PICK c : c = Tool(b - 1, None, p)
    OBVIOUS
<1>2. b - 1 \in 0..MaxSaid /\ p \in 0..MaxSaid /\ None \in 0..MaxSaid /\ n \in Nat /\ b \in Nat
      /\ p \in Nat /\ p # None
    BY StreamsAssumption DEF None
<1>3. c \in Chunks /\ c.text = None
      /\ c.tool.index = b - 1 /\ c.tool.name = None /\ c.tool.args = p
    BY <1>1, <1>2, ToolChunkFacts
<1>4. ASSUME NEW i \in Nat
      PROVE  Add(H, b, p)[i] = IF SayOf(i)[c] = None THEN H[i] ELSE Append(H[i], SayOf(i)[c])
    <2>1. SayOf(i)[c] = IF i = 0 THEN c.text ELSE IF c.tool.index = i - 1 THEN c.tool.args ELSE None
        BY <1>3, SayOfFacts
    <2>2. SayOf(i)[c] = IF i = b THEN p ELSE None
        BY <1>2, <1>3, <2>1
    <2>3. Add(H, b, p)[i] = IF i = b THEN Append(H[b], p) ELSE H[i]
        BY <1>2, AddFacts
    <2> QED
        BY <1>2, <2>2, <2>3
<1>5. n =< n /\ \A m \in 0..(n - 1) : m < n
    BY <1>2
<1>6. /\ c.tool.index \in 0..(n - 1)
      /\ c.tool.name \in {None, c.tool.index + 1}
      /\ \A m \in 0..c.tool.index : m < n
    BY <1>2, <1>3
<1>7. Kept(Append(P, c), Add(H, b, p), n)
    BY <1>2, <1>3, <1>4, <1>5, <1>6, KeptNext
<1> QED
    BY <1>1, <1>7

LEMMA KeptOther ==
    ASSUME NEW P, NEW H, NEW n \in Nat, Kept(P, H, n),
           NEW c \in Chunks, c.text = None, c.tool = NoTool
    PROVE  Kept(Append(P, c), H, n)
<1>1. c.tool.index = -1 /\ c.tool.args = None
    BY DEF NoTool
<1>2. ASSUME NEW i \in Nat
      PROVE  H[i] = IF SayOf(i)[c] = None THEN H[i] ELSE Append(H[i], SayOf(i)[c])
    <2>1. SayOf(i)[c] = IF i = 0 THEN c.text ELSE IF c.tool.index = i - 1 THEN c.tool.args ELSE None
        BY SayOfFacts
    <2> QED
        BY <1>1, <2>1
<1>3. n =< n /\ \A m \in 0..(n - 1) : m < n
    OBVIOUS
<1> QED
    BY <1>1, <1>2, <1>3, KeptNext

-----------------------------------------------------------------------------
(* What is told: the events of an AnthropicAdapter, for the account H of   *)
(* an answer with n calls, before (~d) or after (d) the closing.           *)

NotStop(i)     == {e \in Events : e # Stop(i)}
NotLast        == {e \in Events : e.type \notin Last}
NamedEvents(n) == {e \in Events : e.type = "start" => e.index \in 0..n /\ e.name = e.index}

StoppedOnce(F, i) == \E k \in 1..Len(F) : F[k] = Stop(i) /\ \A j \in 1..Len(F) : F[j] = Stop(i) => j = k

Ended(F) == \E A \in Seq(NotLast), e \in Events : e.type \in Last /\ F = A \o <<e>>

FineAt(F, n) ==
    F[n].type = "delta" =>
        \/ OpenAt(F, F[n].index, n)
        \/ F[n].index = 0 /\ \E j \in 1..n : F[j].type = "start" /\ F[j].index > 0

\* The text block is closed by the first call, every block by the closing.
ClosedBlock(i, n, d) == i =< n /\ (d \/ (i = 0 /\ n # 0))

Upto(n) == [j \in 1..n |-> j]

Told(F, H, n, d) ==
    /\ F \in Seq(Events)
    /\ \A i \in Nat : Heard(F, PieceOf(i)) = H[i]
    /\ Heard(F, StartOf) = Upto(n)
    /\ F \in Seq(NamedEvents(n))
    /\ \A i \in 0..n : \E j \in 1..Len(F) : IsStart(F[j], i)
    /\ \A i \in Nat : IF ClosedBlock(i, n, d) THEN StoppedOnce(F, i) ELSE F \in Seq(NotStop(i))
    /\ IF d THEN Ended(F) ELSE F \in Seq(NotLast)
    /\ \A m \in 1..Len(F) : FineAt(F, m)

LEMMA StoppedBefore ==
    ASSUME NEW S, NEW F \in Seq(S), NEW Q \in Seq(S), NEW i,
           StoppedOnce(F, i), \A j \in 1..Len(Q) : Q[j] # Stop(i)
    PROVE  StoppedOnce(F \o Q, i)
<1>1. PICK n \in Nat, m \in Nat : n = Len(F) /\ m = Len(Q)
    BY LenProperties
<1>2. PICK u : u = F \o Q
    OBVIOUS
<1>3. Len(u) = n + m /\ \A j \in 1..(n + m) : u[j] = IF j =< n THEN F[j] ELSE Q[j - n]
    BY <1>1, <1>2, ConcatProperties
<1>4. PICK k \in 1..n : F[k] = Stop(i) /\ \A j \in 1..n : F[j] = Stop(i) => j = k
    BY <1>1 DEF StoppedOnce
<1>5. k \in 1..(n + m) /\ u[k] = Stop(i)
    BY <1>3, <1>4
<1>6. ASSUME NEW j \in 1..(n + m), u[j] = Stop(i) PROVE j = k
    <2>1. CASE j =< n
        <3>1. j \in 1..n /\ F[j] = Stop(i)
            BY <1>3, <1>6, <2>1
        <3> QED
            BY <1>4, <3>1
    <2>2. CASE ~(j =< n)
        <3>1. j - n \in 1..m /\ Q[j - n] = Stop(i)
            BY <1>3, <1>6, <2>2
        <3> QED
            BY <1>1, <3>1
    <2> QED
        BY <2>1, <2>2
<1> QED
    BY <1>2, <1>3, <1>5, <1>6 DEF StoppedOnce

LEMMA StoppedAfter ==
    ASSUME NEW S, NEW F \in Seq(S), NEW Q \in Seq(S), NEW i,
           StoppedOnce(Q, i), \A j \in 1..Len(F) : F[j] # Stop(i)
    PROVE  StoppedOnce(F \o Q, i)
<1>1. PICK n \in Nat, m \in Nat : n = Len(F) /\ m = Len(Q)
    BY LenProperties
<1>2. PICK u : u = F \o Q
    OBVIOUS
<1>3. Len(u) = n + m /\ \A j \in 1..(n + m) : u[j] = IF j =< n THEN F[j] ELSE Q[j - n]
    BY <1>1, <1>2, ConcatProperties
<1>4. PICK k \in 1..m : Q[k] = Stop(i) /\ \A j \in 1..m : Q[j] = Stop(i) => j = k
    BY <1>1 DEF StoppedOnce
<1>5. n + k \in 1..(n + m) /\ u[n + k] = Stop(i)
    <2>1. n + k \in 1..(n + m) /\ ~(n + k =< n) /\ (n + k) - n = k
        OBVIOUS
    <2> QED
        BY <1>3, <1>4, <2>1
<1>6. ASSUME NEW j \in 1..(n + m), u[j] = Stop(i) PROVE j = n + k
    <2>1. CASE j =< n
        <3>1. j \in 1..n /\ F[j] = Stop(i)
            BY <1>3, <1>6, <2>1
        <3> QED
            BY <1>1, <3>1
    <2>2. CASE ~(j =< n)
        <3>1. j - n \in 1..m /\ Q[j - n] = Stop(i)
            BY <1>3, <1>6, <2>2
        <3>2. j - n = k
            BY <1>4, <3>1
        <3> QED
            BY <3>2
    <2> QED
        BY <2>1, <2>2
<1> QED
    BY <1>2, <1>3, <1>5, <1>6 DEF StoppedOnce

LEMMA NotStopFacts ==
    ASSUME NEW i, NEW s \in Seq(NotStop(i))
    PROVE  s \in Seq(Events) /\ \A j \in 1..Len(s) : s[j] # Stop(i)
<1>1. NotStop(i) \subseteq Events
    BY DEF NotStop
<1>2. \A j \in 1..Len(s) : s[j] \in NotStop(i)
    BY ElementOfSeq
<1> QED
    BY <1>1, <1>2, SeqMonotonic DEF NotStop

LEMMA EndedAfter ==
    ASSUME NEW F \in Seq(NotLast), NEW Q, Ended(Q)
    PROVE  Ended(F \o Q)
<1>1. PICK A \in Seq(NotLast), e \in Events : e.type \in Last /\ Q = A \o <<e>>
    BY DEF Ended
<1>2. NotLast \subseteq Events
    BY DEF NotLast
<1>3. F \in Seq(Events) /\ A \in Seq(Events) /\ <<e>> \in Seq(Events)
    BY <1>2, SeqMonotonic
<1>4. F \o (A \o <<e>>) = (F \o A) \o <<e>>
    BY <1>3, ConcatAssociative
<1>5. F \o A \in Seq(NotLast)
    BY ConcatProperties
<1> QED
    BY <1>1, <1>4, <1>5 DEF Ended

\* Whether an event is in place depends on those before it.
LEMMA FineBefore ==
    ASSUME NEW F \in Seq(Events), NEW Q \in Seq(Events), NEW m \in 1..Len(F)
    PROVE  FineAt(F, m) <=> FineAt(F \o Q, m)
<1>1. PICK n \in Nat, k \in Nat : n = Len(F) /\ k = Len(Q)
    BY LenProperties
<1>2. PICK u : u = F \o Q
    OBVIOUS
<1>3. \A j \in 1..(n + k) : u[j] = IF j =< n THEN F[j] ELSE Q[j - n]
    BY <1>1, <1>2, ConcatProperties
<1>4. \A j \in 1..n : u[j] = F[j]
    BY <1>3
<1>5. m \in 1..n /\ \A j \in 1..m : u[j] = F[j]
    BY <1>1, <1>4
<1>6. ASSUME NEW i PROVE OpenAt(F, i, m) <=> OpenAt(u, i, m)
    <2> DEFINE
        Begins(v, j) == v[j].type = "start" /\ v[j].index = i
        Stays(v, j)  == \A x \in (j + 1)..m : ~(v[x].type = "stop" /\ v[x].index = i)
    <2>1. ASSUME NEW j \in 1..m PROVE Stays(F, j) <=> Stays(u, j)
        <3>1. \A x \in (j + 1)..m : u[x] = F[x]
            BY <1>5
        <3> QED
            BY <3>1
    <2>2. ASSUME NEW j \in 1..m PROVE Begins(F, j) <=> Begins(u, j)
        BY <1>5
    <2>3. \A v : OpenAt(v, i, m) <=> \E j \in 1..m : Begins(v, j) /\ Stays(v, j)
        BY DEF OpenAt
    <2> HIDE DEF Begins, Stays
    <2> QED
        BY <2>1, <2>2, <2>3
<1>7. u[m] = F[m]
    BY <1>5
<1>8. (\E j \in 1..m : F[j].type = "start" /\ F[j].index > 0)
      <=> (\E j \in 1..m : u[j].type = "start" /\ u[j].index > 0)
    BY <1>5
<1> QED
    BY <1>2, <1>6, <1>7, <1>8 DEF FineAt

\* The events Q take the account from H with n calls to G with k.
Continues(F, H, n, Q, G, k, d) ==
    /\ Q \in Seq(Events) /\ n =< k
    /\ \A i \in Nat : G[i] = H[i] \o Heard(Q, PieceOf(i))
    /\ Upto(k) = Upto(n) \o Heard(Q, StartOf)
    /\ Q \in Seq(NamedEvents(k))
    /\ \A i \in 0..k : i =< n \/ \E j \in 1..Len(Q) : IsStart(Q[j], i)
    /\ \A i \in Nat : IF ClosedBlock(i, k, d) /\ ~ClosedBlock(i, n, FALSE)
                      THEN StoppedOnce(Q, i) ELSE Q \in Seq(NotStop(i))
    /\ IF d THEN Ended(Q) ELSE Q \in Seq(NotLast)
    /\ \A m \in (Len(F) + 1)..(Len(F) + Len(Q)) : FineAt(F \o Q, m)

LEMMA ToldNext ==
    ASSUME NEW F, NEW H, NEW n \in Nat, Told(F, H, n, FALSE),
           NEW Q, NEW G, NEW k \in Nat, NEW d \in BOOLEAN, Continues(F, H, n, Q, G, k, d)
    PROVE  Told(F \o Q, G, k, d)
<1>0. /\ Q \in Seq(Events) /\ n =< k
      /\ \A i \in Nat : G[i] = H[i] \o Heard(Q, PieceOf(i))
      /\ Upto(k) = Upto(n) \o Heard(Q, StartOf)
      /\ Q \in Seq(NamedEvents(k))
      /\ \A i \in 0..k : i =< n \/ \E j \in 1..Len(Q) : IsStart(Q[j], i)
      /\ \A i \in Nat : IF ClosedBlock(i, k, d) /\ ~ClosedBlock(i, n, FALSE)
                        THEN StoppedOnce(Q, i) ELSE Q \in Seq(NotStop(i))
      /\ IF d THEN Ended(Q) ELSE Q \in Seq(NotLast)
      /\ \A m \in (Len(F) + 1)..(Len(F) + Len(Q)) : FineAt(F \o Q, m)
    BY DEF Continues
<1>1. PICK len \in Nat, more \in Nat : len = Len(F) /\ more = Len(Q)
    BY <1>0, LenProperties DEF Told
<1>2. PICK u : u = F \o Q
    OBVIOUS
<1>3. F \in Seq(Events) /\ F \in Seq(NamedEvents(n)) /\ F \in Seq(NotLast)
    BY DEF Told
<1>4. /\ u \in Seq(Events) /\ Len(u) = len + more
      /\ \A j \in 1..(len + more) : u[j] = IF j =< len THEN F[j] ELSE Q[j - len]
    BY <1>0, <1>1, <1>2, <1>3, ConcatProperties
<1>5. \A i \in Nat : Heard(u, PieceOf(i)) = G[i]
    <2> SUFFICES ASSUME NEW i \in Nat PROVE Heard(F \o Q, PieceOf(i)) = G[i]
        BY <1>2
    <2>0. PieceOf(i) \in Headings(Events)
        BY PieceOfFacts
    <2>1. Heard(F \o Q, PieceOf(i)) = Heard(F, PieceOf(i)) \o Heard(Q, PieceOf(i))
        BY <1>0, <1>3, <2>0, HeardConcat
    <2>2. Heard(F, PieceOf(i)) = H[i]
        BY DEF Told
    <2> QED
        BY <1>0, <2>1, <2>2
<1>6. Heard(u, StartOf) = Upto(k)
    <2>1. Heard(F \o Q, StartOf) = Heard(F, StartOf) \o Heard(Q, StartOf)
        BY <1>0, <1>3, StartOfFacts, HeardConcat
    <2>2. Heard(F, StartOf) = Upto(n)
        BY DEF Told
    <2> QED
        BY <1>0, <1>2, <2>1, <2>2
<1>7. u \in Seq(NamedEvents(k))
    <2>1. NamedEvents(n) \subseteq NamedEvents(k)
        BY <1>0 DEF NamedEvents
    <2>2. F \in Seq(NamedEvents(k))
        BY <1>3, <2>1, SeqMonotonic
    <2> QED
        BY <1>0, <1>2, <2>2, ConcatProperties
<1>8. \A i \in 0..k : \E j \in 1..Len(u) : IsStart(u[j], i)
    <2> SUFFICES ASSUME NEW i \in 0..k PROVE \E j \in 1..(len + more) : IsStart(u[j], i)
        BY <1>4
    <2>1. CASE i =< n
        <3>1. i \in 0..n
            BY <2>1
        <3>2. PICK j \in 1..len : IsStart(F[j], i)
            BY <1>1, <3>1 DEF Told
        <3>3. j \in 1..(len + more) /\ u[j] = F[j]
            BY <1>4
        <3> QED
            BY <3>2, <3>3
    <2>2. CASE ~(i =< n)
        <3>1. PICK j \in 1..more : IsStart(Q[j], i)
            BY <1>0, <1>1, <2>2
        <3>2. len + j \in 1..(len + more) /\ ~(len + j =< len) /\ (len + j) - len = j
            OBVIOUS
        <3>3. u[len + j] = Q[j]
            BY <1>4, <3>2
        <3> QED
            BY <3>1, <3>2, <3>3
    <2> QED
        BY <2>1, <2>2
<1>9. ASSUME NEW i \in Nat
      PROVE  IF ClosedBlock(i, k, d) THEN StoppedOnce(u, i) ELSE u \in Seq(NotStop(i))
    <2>1. ClosedBlock(i, n, FALSE) => ClosedBlock(i, k, d)
        BY <1>0 DEF ClosedBlock
    <2>2. CASE ClosedBlock(i, n, FALSE)
        <3>1. StoppedOnce(F, i) /\ Q \in Seq(NotStop(i))
            BY <1>0, <2>2 DEF Told
        <3>2. \A j \in 1..Len(Q) : Q[j] # Stop(i)
            BY <3>1, NotStopFacts
        <3>3. StoppedOnce(F \o Q, i)
            BY <1>0, <1>3, <3>1, <3>2, StoppedBefore
        <3> QED
            BY <1>2, <2>1, <2>2, <3>3
    <2>3. CASE ClosedBlock(i, k, d) /\ ~ClosedBlock(i, n, FALSE)
        <3>1. F \in Seq(NotStop(i)) /\ StoppedOnce(Q, i)
            BY <1>0, <2>3 DEF Told
        <3>2. \A j \in 1..Len(F) : F[j] # Stop(i)
            BY <3>1, NotStopFacts
        <3>3. StoppedOnce(F \o Q, i)
            BY <1>0, <1>3, <3>1, <3>2, StoppedAfter
        <3> QED
            BY <1>2, <2>3, <3>3
    <2>4. CASE ~ClosedBlock(i, k, d)
        <3>1. F \in Seq(NotStop(i)) /\ Q \in Seq(NotStop(i))
            BY <1>0, <2>1, <2>4 DEF Told
        <3>2. F \o Q \in Seq(NotStop(i))
            BY <3>1, ConcatProperties
        <3> QED
            BY <1>2, <2>4, <3>2
    <2> QED
        BY <2>2, <2>3, <2>4
<1>10. IF d THEN Ended(u) ELSE u \in Seq(NotLast)
    <2>1. CASE d
        BY <1>0, <1>2, <1>3, <2>1, EndedAfter
    <2>2. CASE ~d
        BY <1>0, <1>2, <1>3, <2>2, ConcatProperties
    <2> QED
        BY <2>1, <2>2
<1>11. ASSUME NEW m \in 1..Len(u) PROVE FineAt(u, m)
    <2>1. CASE m =< len
        <3>1. m \in 1..Len(F)
            BY <1>1, <1>4, <2>1
        <3>2. FineAt(F, m)
            BY <3>1 DEF Told
        <3> QED
            BY <1>0, <1>2, <1>3, <3>1, <3>2, FineBefore
    <2>2. CASE ~(m =< len)
        <3>1. m \in (len + 1)..(len + more)
            BY <1>4, <2>2
        <3> QED
            BY <1>0, <1>1, <1>2, <3>1
    <2> QED
        BY <2>1, <2>2
<1>12. Told(u, G, k, d)
    BY <1>4, <1>5, <1>6, <1>7, <1>8, <1>9, <1>10, <1>11 DEF Told
<1> QED
    BY <1>2, <1>12

LEMMA LastTypes ==
    ASSUME NEW e \in Events, e.type \in {"start", "stop", "delta", "message_start", "message_delta"}
    PROVE  e \in NotLast
BY DEF NotLast, Last

\* The first events of a message.
Opening == <<Event("message_start"), Start(0, None)>>

LEMMA ToldOpening == Told(Opening, Nothing, 0, FALSE)
<1>1. PICK e, f : e = Event("message_start") /\ f = Start(0, None)
    OBVIOUS
<1>2. e \in Events /\ e.type = "message_start"
    BY <1>1, PlainFacts DEF PlainTypes
<1>3. f \in Events /\ f.type = "start" /\ f.index = 0 /\ f.name = 0
    BY <1>1, StartFacts DEF None
<1>4. PICK F : F = <<e, f>>
    OBVIOUS
<1>5. Len(F) = 2 /\ F[1] = e /\ F[2] = f /\ \A k \in 1..2 : k = 1 \/ k = 2
    BY <1>4
<1>6. \A S : e \in S /\ f \in S => F \in Seq(S)
    BY <1>4
<1>7. F \in Seq(Events)
    BY <1>2, <1>3, <1>6
<1>8. \A i \in Nat : Heard(F, PieceOf(i)) = <<>> /\ Nothing[i] = <<>>
    <2> SUFFICES ASSUME NEW i \in Nat PROVE Heard(F, PieceOf(i)) = <<>> /\ Nothing[i] = <<>>
        OBVIOUS
    <2>1. \A k \in 1..Len(F) : PieceOf(i)[F[k]] = None
        BY <1>2, <1>3, <1>5, PieceOfFacts
    <2> QED
        BY <1>7, <2>1, HeardNone DEF Nothing
<1>9. Heard(F, StartOf) = Upto(0)
    <2>1. StartOf[e] = None /\ StartOf[f] = None
        BY <1>2, <1>3, StartOfFacts DEF None
    <2>2. \A k \in 1..Len(F) : StartOf[F[k]] = None
        BY <1>5, <2>1
    <2>3. Heard(F, StartOf) = <<>>
        BY <1>7, <2>2, HeardNone
    <2>4. Upto(0) = <<>>
        BY DEF Upto
    <2> QED
        BY <2>3, <2>4
<1>10. e \in NamedEvents(0) /\ f \in NamedEvents(0) /\ e \in NotLast /\ f \in NotLast
    BY <1>2, <1>3, LastTypes DEF NamedEvents
<1>11. \A i \in 0..0 : \E j \in 1..Len(F) : IsStart(F[j], i)
    BY <1>3, <1>5 DEF IsStart
<1>12. \A i \in Nat : ~ClosedBlock(i, 0, FALSE) /\ F \in Seq(NotStop(i))
    <2> SUFFICES ASSUME NEW i \in Nat PROVE e \in NotStop(i) /\ f \in NotStop(i)
        BY <1>6 DEF ClosedBlock
    <2> QED
        BY <1>2, <1>3, StopFacts DEF NotStop
<1>13. \A m \in 1..Len(F) : FineAt(F, m)
    BY <1>2, <1>3, <1>5 DEF FineAt
<1>14. F \in Seq(NamedEvents(0)) /\ F \in Seq(NotLast)
    BY <1>6, <1>10
<1>15. Told(F, Nothing, 0, FALSE)
    BY <1>7, <1>8, <1>9, <1>11, <1>12, <1>13, <1>14 DEF Told
<1> QED
    BY <1>1, <1>4, <1>15 DEF Opening

\* A delta of an open block, or of the text block after a call.
LEMMA ToldDelta ==
    ASSUME NEW F, NEW H \in Accounts, NEW n \in Nat, Told(F, H, n, FALSE),
           NEW b \in 0..n, NEW p \in Nat \ {None}
    PROVE  Told(F \o <<Delta(b, p)>>, Add(H, b, p), n, FALSE)
<1>1. PICK e : e = Delta(b, p)
    OBVIOUS
<1>2. e \in Events /\ e.type = "delta" /\ e.index = b /\ e.piece = p /\ b \in Nat /\ p \in Nat
    BY <1>1, DeltaFacts
<1>3. PICK Q : Q = <<e>>
    OBVIOUS
<1>4. Len(Q) = 1 /\ Q[1] = e /\ \A S : e \in S => Q \in Seq(S)
    BY <1>3
<1>5. Q \in Seq(Events)
    BY <1>2, <1>4
<1>6. ASSUME NEW i \in Nat PROVE Add(H, b, p)[i] = H[i] \o Heard(Q, PieceOf(i))
    <2>1. Add(H, b, p)[i] = IF i = b THEN Append(H[b], p) ELSE H[i]
        BY <1>2, AddFacts
    <2>2. PieceOf(i)[e] = IF i = b THEN p ELSE None
        BY <1>1, <1>2, PieceOfFacts
    <2>3. PieceOf(i) \in Headings(Events)
        BY PieceOfFacts
    <2>4. Heard(Q, PieceOf(i)) = IF PieceOf(i)[e] = None THEN <<>> ELSE <<PieceOf(i)[e]>>
        BY <1>2, <1>3, <2>3, HeardOne
    <2>5. Heard(Q, PieceOf(i)) = IF i = b THEN <<p>> ELSE <<>>
        BY <2>2, <2>4
    <2>6. H[i] \in Seq(Values) /\ p \in Values
        BY DEF Accounts, Values
    <2>7. H[i] \o <<>> = H[i] /\ H[i] \o <<p>> = Append(H[i], p)
        BY <2>6, ConcatEmptySeq, AppendIsConcat
    <2> QED
        BY <2>1, <2>5, <2>7
<1>7. Upto(n) = Upto(n) \o Heard(Q, StartOf)
    <2>1. \A k \in 1..Len(Q) : StartOf[Q[k]] = None
        BY <1>2, <1>4, StartOfFacts
    <2>2. Heard(Q, StartOf) = <<>>
        BY <1>5, <2>1, HeardNone
    <2>3. Upto(n) \in Seq(Nat)
        BY DEF Upto
    <2> QED
        BY <2>2, <2>3, ConcatEmptySeq
<1>8. Q \in Seq(NamedEvents(n)) /\ Q \in Seq(NotLast)
    BY <1>2, <1>4, LastTypes DEF NamedEvents
<1>9. \A i \in Nat : Q \in Seq(NotStop(i))
    BY <1>2, <1>4, StopFacts DEF NotStop
<1>10. ASSUME NEW m \in (Len(F) + 1)..(Len(F) + Len(Q)) PROVE FineAt(F \o Q, m)
    <2>1. PICK len \in Nat : len = Len(F) /\ F \in Seq(Events)
        BY LenProperties DEF Told
    <2>2. PICK u : u = F \o Q
        OBVIOUS
    <2>3. m = len + 1 /\ \A j \in 1..(len + 1) : u[j] = IF j =< len THEN F[j] ELSE Q[j - len]
        BY <1>4, <1>5, <2>1, <2>2, ConcatProperties
    <2>4. u[m] = e /\ \A j \in 1..len : u[j] = F[j] /\ j \in 1..m
        BY <1>4, <2>3
    <2>5. CASE ~ClosedBlock(b, n, FALSE)
        <3>1. F \in Seq(NotStop(b))
            BY <1>2, <2>5 DEF Told
        <3>2. PICK j \in 1..len : IsStart(F[j], b)
            BY <2>1 DEF Told
        <3>3. ASSUME NEW k \in (j + 1)..m PROVE ~(u[k].type = "stop" /\ u[k].index = b)
            <4>1. CASE k = m
                BY <1>2, <2>4, <4>1
            <4>2. CASE k # m
                <5>1. k \in 1..len
                    BY <2>3, <4>2
                <5>2. u[k] = F[k] /\ F[k] \in Events /\ F[k] # Stop(b)
                    BY <2>1, <2>4, <3>1, <5>1, NotStopFacts, ElementOfSeq
                <5> QED
                    BY <5>2, EventFacts
            <4> QED
                BY <4>1, <4>2
        <3>4. j \in 1..m /\ u[j] = F[j]
            BY <2>4
        <3>5. OpenAt(u, b, m)
            BY <3>2, <3>3, <3>4 DEF OpenAt, IsStart
        <3> QED
            BY <1>2, <2>2, <2>4, <3>5 DEF FineAt
    <2>6. CASE ClosedBlock(b, n, FALSE)
        <3>1. b = 0 /\ 1 \in 0..n
            BY <2>6 DEF ClosedBlock
        <3>2. PICK j \in 1..len : IsStart(F[j], 1)
            BY <2>1, <3>1 DEF Told
        <3>3. j \in 1..m /\ u[j].type = "start" /\ u[j].index > 0
            BY <2>4, <3>2 DEF IsStart
        <3> QED
            BY <1>2, <2>2, <2>4, <3>1, <3>3 DEF FineAt
    <2> QED
        BY <2>5, <2>6
<1>11. Told(F \o Q, Add(H, b, p), n, FALSE)
    <2>1. \A i \in 0..n : i =< n \/ \E j \in 1..Len(Q) : IsStart(Q[j], i)
        OBVIOUS
    <2>2. PICK d \in BOOLEAN : ~d
        OBVIOUS
    <2>3. \A i \in Nat : IF ClosedBlock(i, n, d) /\ ~ClosedBlock(i, n, FALSE)
                         THEN StoppedOnce(Q, i) ELSE Q \in Seq(NotStop(i))
        BY <1>9, <2>2 DEF ClosedBlock
    <2>4. IF d THEN Ended(Q) ELSE Q \in Seq(NotLast)
        BY <1>8, <2>2
    <2>5. n =< n /\ Q \in Seq(NamedEvents(n))
        BY <1>8
    <2>6. Continues(F, H, n, Q, Add(H, b, p), n, d)
        BY <1>5, <1>6, <1>7, <1>10, <2>1, <2>3, <2>4, <2>5 DEF Continues
    <2>7. Told(F \o Q, Add(H, b, p), n, d)
        BY <2>6, ToldNext
    <2> QED
        BY <2>2, <2>7
<1> QED
    BY <1>1, <1>3, <1>11

LEMMA UptoNext ==
    ASSUME NEW n \in Nat
    PROVE  Upto(n) \in Seq(Nat) /\ Upto(n + 1) = Upto(n) \o <<n + 1>>
<1>1. PICK u : u = Upto(n)
    OBVIOUS
<1>2. u \in Seq(Nat) /\ Len(u) = n /\ \A j \in 1..n : u[j] = j
    BY <1>1 DEF Upto
<1>3. PICK v : v = Append(u, n + 1)
    OBVIOUS
<1>4. v \in Seq(Nat) /\ Len(v) = n + 1 /\ (\A j \in 1..n : v[j] = j) /\ v[n + 1] = n + 1
    BY <1>2, <1>3, AppendProperties
<1>5. PICK w : w = Upto(n + 1)
    OBVIOUS
<1>6. w \in Seq(Nat) /\ Len(w) = n + 1 /\ \A j \in 1..(n + 1) : w[j] = j
    BY <1>5 DEF Upto
<1>7. \A j \in 1..(n + 1) : j \in 1..n \/ j = n + 1
    OBVIOUS
<1>8. v = w
    BY <1>4, <1>6, <1>7, SeqEqual
<1>9. v = u \o <<n + 1>>
    BY <1>2, <1>3, AppendIsConcat
<1> QED
    BY <1>1, <1>2, <1>5, <1>8, <1>9

LEMMA FineNoDelta ==
    ASSUME NEW F \in Seq(Events), NEW Q \in Seq(Events),
           \A k \in 1..Len(Q) : Q[k].type # "delta",
           NEW m \in (Len(F) + 1)..(Len(F) + Len(Q))
    PROVE  FineAt(F \o Q, m)
<1>1. PICK n \in Nat, k \in Nat : n = Len(F) /\ k = Len(Q)
    BY LenProperties
<1>2. PICK u : u = F \o Q
    OBVIOUS
<1>3. \A j \in 1..(n + k) : u[j] = IF j =< n THEN F[j] ELSE Q[j - n]
    BY <1>1, <1>2, ConcatProperties
<1>4. m \in 1..(n + k) /\ ~(m =< n) /\ m - n \in 1..k
    BY <1>1
<1>5. u[m] = Q[m - n]
    BY <1>3, <1>4
<1>6. u[m].type # "delta"
    BY <1>1, <1>4, <1>5
<1> QED
    BY <1>2, <1>6 DEF FineAt

LEMMA TwoEvents ==
    ASSUME NEW e \in Events, NEW f \in Events
    PROVE  <<e>> \o <<f>> = <<e, f>> /\ <<e, f>> \in Seq(Events)
<1>1. PICK u \in Seq(Events) : u = <<e, f>> /\ Len(u) = 2 /\ u[1] = e /\ u[2] = f
    <2>1. <<e, f>> \in Seq(Events) /\ Len(<<e, f>>) = 2 /\ <<e, f>>[1] = e /\ <<e, f>>[2] = f
        OBVIOUS
    <2> QED
        BY <2>1
<1>2. PICK s \in Seq(Events) : s = <<e>> /\ Len(s) = 1 /\ s[1] = e
    <2>1. <<e>> \in Seq(Events) /\ Len(<<e>>) = 1 /\ <<e>>[1] = e
        OBVIOUS
    <2> QED
        BY <2>1
<1>3. Append(s, f) \in Seq(Events) /\ Len(Append(s, f)) = 2
      /\ Append(s, f)[1] = e /\ Append(s, f)[2] = f
    BY <1>2, AppendProperties
<1>4. PICK v \in Seq(Events) : v = Append(s, f) /\ Len(v) = 2 /\ v[1] = e /\ v[2] = f
    BY <1>3
<1>5. u = v
    <2>1. \A i \in 1..2 : i = 1 \/ i = 2
        OBVIOUS
    <2>2. Len(u) = Len(v) /\ \A i \in 1..Len(u) : u[i] = v[i]
        BY <1>1, <1>4, <2>1
    <2> QED
        BY <2>2, SeqEqual
<1>6. Append(s, f) = s \o <<f>>
    BY AppendIsConcat
<1> QED
    BY <1>1, <1>2, <1>4, <1>5, <1>6

\* A call closes the text block, if it is the first, and opens its own.
LEMMA ToldCall ==
    ASSUME NEW F, NEW H \in Accounts, NEW n \in Nat, Told(F, H, n, FALSE)
    PROVE  Told(F \o ((IF n = 0 THEN <<Stop(0)>> ELSE <<>>) \o <<Start(n + 1, n + 1)>>),
                H, n + 1, FALSE)
<1>1. PICK e, f : e = Stop(0) /\ f = Start(n + 1, n + 1)
    OBVIOUS
<1>2. e \in Events /\ e.type = "stop" /\ e.index = 0
    BY <1>1, StopFacts
<1>3. f \in Events /\ f.type = "start" /\ f.index = n + 1 /\ f.name = n + 1
    BY <1>1, StartFacts
<1>4. PICK Q : Q = (IF n = 0 THEN <<e>> ELSE <<>>) \o <<f>>
    OBVIOUS
<1>5. PICK len \in 1..2 :
          /\ len = Len(Q) /\ Q[len] = f /\ (n = 0 <=> len = 2)
          /\ \A k \in 1..len : k # len => k = 1 /\ Q[k] = e
          /\ \A S : e \in S /\ f \in S => Q \in Seq(S)
          /\ \A S : f \in S /\ n # 0 => Q \in Seq(S)
    <2>1. CASE n = 0
        <3>1. Q = <<e, f>>
            BY <1>2, <1>3, <1>4, <2>1, TwoEvents
        <3>2. Len(Q) = 2 /\ Q[2] = f /\ Q[1] = e /\ \A k \in 1..2 : k # 2 => k = 1
            BY <3>1
        <3> QED
            BY <2>1, <3>1, <3>2
    <2>2. CASE n # 0
        <3>1. Q = <<f>>
            <4>1. Q = <<>> \o <<f>> /\ <<f>> \in Seq(Events)
                BY <1>3, <1>4, <2>2
            <4> QED
                BY <4>1, ConcatEmptySeq
        <3>2. Len(Q) = 1 /\ Q[1] = f /\ \A k \in 1..1 : k = 1
            BY <3>1
        <3> QED
            BY <2>2, <3>1, <3>2
    <2> QED
        BY <2>1, <2>2
<1>6. Q \in Seq(Events) /\ n + 1 \in Nat /\ len \in 1..len
    BY <1>2, <1>3, <1>5
<1>7. \A k \in 1..len : Q[k].type # "delta"
    BY <1>2, <1>3, <1>5
<1>8. ASSUME NEW i \in Nat PROVE H[i] = H[i] \o Heard(Q, PieceOf(i))
    <2>1. \A k \in 1..Len(Q) : PieceOf(i)[Q[k]] = None
        BY <1>2, <1>3, <1>5, PieceOfFacts
    <2>2. Heard(Q, PieceOf(i)) = <<>>
        BY <1>6, <2>1, HeardNone
    <2>3. H[i] \in Seq(Values)
        BY DEF Accounts
    <2> QED
        BY <2>2, <2>3, ConcatEmptySeq
<1>9. Upto(n + 1) = Upto(n) \o Heard(Q, StartOf)
    <2>1. StartOf[e] = None /\ StartOf[f] = n + 1 /\ StartOf \in Headings(Events)
        BY <1>2, <1>3, StartOfFacts
    <2>2. StartOf[Q[len]] # None /\ \A k \in 1..len : StartOf[Q[k]] # None => k = len
        BY <1>5, <2>1 DEF None
    <2>3. Heard(Q, StartOf) = <<StartOf[Q[len]]>>
        BY <1>5, <1>6, <2>1, <2>2, HeardSingle
    <2> QED
        BY <1>5, <2>1, <2>3, UptoNext
<1>10. Q \in Seq(NamedEvents(n + 1)) /\ Q \in Seq(NotLast)
    <2>1. e \in NamedEvents(n + 1) /\ f \in NamedEvents(n + 1) /\ e \in NotLast /\ f \in NotLast
        BY <1>2, <1>3, LastTypes DEF NamedEvents
    <2> QED
        BY <1>5, <2>1
<1>11. \A i \in 0..(n + 1) : i =< n \/ \E j \in 1..Len(Q) : IsStart(Q[j], i)
    <2>1. IsStart(Q[len], n + 1)
        BY <1>3, <1>5 DEF IsStart
    <2> QED
        BY <1>5, <1>6, <2>1
<1>12. ASSUME NEW i \in Nat
       PROVE  IF ClosedBlock(i, n + 1, FALSE) /\ ~ClosedBlock(i, n, FALSE)
              THEN StoppedOnce(Q, i) ELSE Q \in Seq(NotStop(i))
    <2>1. f \in NotStop(i)
        BY <1>3, StopFacts DEF NotStop
    <2>2. CASE n # 0
        <3>1. Q \in Seq(NotStop(i))
            BY <1>5, <2>1, <2>2
        <3>2. ~(ClosedBlock(i, n + 1, FALSE) /\ ~ClosedBlock(i, n, FALSE))
            BY <2>2 DEF ClosedBlock
        <3> QED
            BY <3>1, <3>2
    <2>3. CASE n = 0 /\ i = 0
        <3>1. ClosedBlock(i, n + 1, FALSE) /\ ~ClosedBlock(i, n, FALSE)
            BY <2>3 DEF ClosedBlock
        <3>2. 1 \in 1..len /\ Q[1] = Stop(i) /\ \A j \in 1..len : Q[j] = Stop(i) => j = 1
            BY <1>1, <1>2, <1>3, <1>5, <2>3
        <3>3. StoppedOnce(Q, i)
            BY <1>5, <3>2 DEF StoppedOnce
        <3> QED
            BY <3>1, <3>3
    <2>4. CASE n = 0 /\ i # 0
        <3>1. e \in NotStop(i)
            BY <1>2, <2>4, StopFacts DEF NotStop
        <3>2. Q \in Seq(NotStop(i))
            BY <1>5, <2>1, <3>1
        <3>3. ~ClosedBlock(i, n + 1, FALSE)
            BY <2>4 DEF ClosedBlock
        <3> QED
            BY <3>2, <3>3
    <2> QED
        BY <2>2, <2>3, <2>4
<1>13. ASSUME NEW m \in (Len(F) + 1)..(Len(F) + Len(Q)) PROVE FineAt(F \o Q, m)
    <2>1. F \in Seq(Events)
        BY DEF Told
    <2> QED
        BY <1>5, <1>6, <1>7, <2>1, FineNoDelta
<1>14. PICK d \in BOOLEAN : d = FALSE
    OBVIOUS
<1>15. Continues(F, H, n, Q, H, n + 1, d)
    <2>1. n =< n + 1
        OBVIOUS
    <2>2. \A i \in Nat : IF ClosedBlock(i, n + 1, d) /\ ~ClosedBlock(i, n, FALSE)
                         THEN StoppedOnce(Q, i) ELSE Q \in Seq(NotStop(i))
        BY <1>12, <1>14
    <2> QED
        BY <1>6, <1>8, <1>9, <1>10, <1>11, <1>13, <1>14, <2>1, <2>2 DEF Continues
<1>16. Told(F \o Q, H, n + 1, d)
    BY <1>6, <1>15, ToldNext
<1> QED
    BY <1>1, <1>4, <1>14, <1>16

-----------------------------------------------------------------------------
(* The closing of a message.                                               *)

\* An adapter that has written the account of n calls and not closed it.
OpenFor(a, n) == /\ a.textOpen <=> n = 0
                 /\ a.open = 1..n
                 /\ ~a.done

\* The blocks to stop are stopped, each once.
LEMMA StopsFacts ==
    ASSUME NEW n \in Nat, NEW a, OpenFor(a, n)
    PROVE  /\ Stops(a) \in Seq(Events)
           /\ \A k \in 1..Len(Stops(a)) :
                 \E i \in 0..n : /\ Stops(a)[k] = Stop(i)
                                 /\ ~ClosedBlock(i, n, FALSE)
           /\ \A i \in 0..n : ~ClosedBlock(i, n, FALSE) => StoppedOnce(Stops(a), i)
<1>1. InOrder(1..n) = Upto(n)
    <2>1. PICK I : I = 1..n
        OBVIOUS
    <2>2. I \in SUBSET (1..n) /\ \A k \in I : (1..k) \subseteq I
        BY <2>1
    <2>3. I = 1..Cardinality(I) /\ InOrder(I) = [r \in 1..Cardinality(I) |-> r]
        BY <2>2, InOrderDense
    <2> QED
        BY <2>1, <2>3 DEF Upto
<1> DEFINE T == [i \in 1..n |-> Stop(i)]
<1>2. Stops(a) = (IF n = 0 THEN <<Stop(0)>> ELSE <<>>) \o T
    <2>1. InOrder(a.open) = Upto(n) /\ (a.textOpen <=> n = 0)
        BY <1>1 DEF OpenFor
    <2>2. DOMAIN Upto(n) = 1..n /\ \A i \in 1..n : Upto(n)[i] = i
        BY DEF Upto
    <2>3. [i \in DOMAIN Upto(n) |-> Stop(Upto(n)[i])] = T
        BY <2>2
    <2> QED
        BY <2>1, <2>3 DEF Stops
<1>3. T \in Seq(Events) /\ Len(T) = n /\ \A i \in 1..n : T[i] = Stop(i)
    <2>1. \A i \in 1..n : Stop(i) \in Events
        BY StopFacts
    <2> QED
        BY <2>1
<1>4. CASE n = 0
    <2>1. T = <<>>
        BY <1>4
    <2>2. <<Stop(0)>> \in Seq(Events)
        BY StopFacts
    <2>3. Stops(a) = <<Stop(0)>>
        BY <1>2, <1>4, <2>1, <2>2, ConcatEmptySeq
    <2>4. PICK s : s = Stops(a)
        OBVIOUS
    <2>5. Len(s) = 1 /\ s[1] = Stop(0) /\ \A k \in 1..1 : k = 1
        BY <2>3, <2>4
    <2>6. 0 \in 0..n /\ ~ClosedBlock(0, n, FALSE) /\ \A i \in 0..n : i = 0
        BY <1>4 DEF ClosedBlock
    <2>7. StoppedOnce(s, 0)
        BY <2>5 DEF StoppedOnce
    <2> QED
        BY <2>2, <2>3, <2>4, <2>5, <2>6, <2>7
<1>5. CASE n # 0
    <2>1. Stops(a) = T
        <3> HIDE DEF T
        <3> QED
            BY <1>2, <1>3, <1>5, ConcatEmptySeq
    <2>2. \A i \in 0..n : ~ClosedBlock(i, n, FALSE) <=> i \in 1..n
        BY <1>5 DEF ClosedBlock
    <2>3. \A i, j \in 1..n : Stop(i) = Stop(j) => i = j
        BY StopFacts
    <2>4. ASSUME NEW i \in 1..n PROVE StoppedOnce(T, i)
        <3> HIDE DEF T
        <3> QED
            BY <1>3, <2>3 DEF StoppedOnce
    <2> HIDE DEF T
    <2>5. \A i \in 1..n : i \in 0..n
        OBVIOUS
    <2> QED
        BY <1>3, <2>1, <2>2, <2>4, <2>5
<1> QED
    BY <1>4, <1>5

LEMMA ToldClosing ==
    ASSUME NEW F, NEW H \in Accounts, NEW n \in Nat, Told(F, H, n, FALSE),
           NEW a, OpenFor(a, n)
    PROVE  MessagesClosing(a) \in Seq(Events) /\ Told(F \o MessagesClosing(a), H, n, TRUE)
<1>1. PICK s \in Seq(Events) :
          /\ s = Stops(a)
          /\ \A k \in 1..Len(s) : \E i \in 0..n : s[k] = Stop(i) /\ ~ClosedBlock(i, n, FALSE)
          /\ \A i \in 0..n : ~ClosedBlock(i, n, FALSE) => StoppedOnce(s, i)
    BY StopsFacts
<1>2. PICK e, f : e = Event("message_delta") /\ f = Event("message_stop")
    OBVIOUS
<1>3. e \in Events /\ e.type = "message_delta" /\ f \in Events /\ f.type = "message_stop"
    BY <1>2, PlainFacts DEF PlainTypes
<1>4. PICK t : t = <<e, f>>
    OBVIOUS
<1>5. /\ t \in Seq(Events) /\ Len(t) = 2 /\ t = <<e>> \o <<f>>
      /\ \A k \in 1..2 : t[k] = e \/ t[k] = f
    <2>1. t \in Seq(Events) /\ t = <<e>> \o <<f>>
        BY <1>3, <1>4, TwoEvents
    <2>2. Len(t) = 2 /\ t[1] = e /\ t[2] = f /\ \A k \in 1..2 : k = 1 \/ k = 2
        BY <1>4
    <2> QED
        BY <2>1, <2>2
<1>6. PICK Q \in Seq(Events) : Q = s \o t /\ Q = MessagesClosing(a)
    BY <1>1, <1>2, <1>4, <1>5, ConcatProperties DEF MessagesClosing
<1>7. PICK m \in Nat : m = Len(s)
    BY LenProperties
<1>8. Len(Q) = m + 2 /\ \A k \in 1..(m + 2) : Q[k] = IF k =< m THEN s[k] ELSE t[k - m]
    BY <1>5, <1>6, <1>7, ConcatProperties
<1>9. \A k \in 1..(m + 2) : \/ Q[k] = e \/ Q[k] = f
                            \/ \E i \in 0..n : Q[k] = Stop(i) /\ ~ClosedBlock(i, n, FALSE)
    <2> SUFFICES ASSUME NEW k \in 1..(m + 2)
                 PROVE  \/ Q[k] = e \/ Q[k] = f
                        \/ \E i \in 0..n : Q[k] = Stop(i) /\ ~ClosedBlock(i, n, FALSE)
        OBVIOUS
    <2>1. CASE k =< m
        <3>1. k \in 1..Len(s) /\ Q[k] = s[k]
            BY <1>7, <1>8, <2>1
        <3> QED
            BY <1>1, <3>1
    <2>2. CASE ~(k =< m)
        <3>1. k - m \in 1..2 /\ Q[k] = t[k - m]
            BY <1>8, <2>2
        <3> QED
            BY <1>5, <3>1
    <2> QED
        BY <2>1, <2>2
<1>10. \A k \in 1..Len(Q) : Q[k].type \notin {"start", "delta"} /\ Q[k] \in Events
    <2>1. \A i \in 0..n : Stop(i).type = "stop"
        BY StopFacts
    <2>2. \A k \in 1..Len(Q) : Q[k] \in Events
        BY ElementOfSeq
    <2> QED
        BY <1>3, <1>8, <1>9, <2>1, <2>2
<1>11. ASSUME NEW i \in Nat PROVE H[i] = H[i] \o Heard(Q, PieceOf(i))
    <2>1. \A k \in 1..Len(Q) : PieceOf(i)[Q[k]] = None
        BY <1>10, PieceOfFacts
    <2>2. Heard(Q, PieceOf(i)) = <<>>
        BY <2>1, HeardNone
    <2>3. H[i] \in Seq(Values)
        BY DEF Accounts
    <2> QED
        BY <2>2, <2>3, ConcatEmptySeq
<1>12. Upto(n) = Upto(n) \o Heard(Q, StartOf)
    <2>1. \A k \in 1..Len(Q) : StartOf[Q[k]] = None
        BY <1>10, StartOfFacts
    <2>2. Heard(Q, StartOf) = <<>>
        BY <2>1, HeardNone
    <2> QED
        BY <2>2, UptoNext, ConcatEmptySeq
<1>13. Q \in Seq(NamedEvents(n))
    <2>1. \A k \in 1..Len(Q) : Q[k] \in NamedEvents(n)
        BY <1>10 DEF NamedEvents
    <2> QED
        BY <2>1
<1>14. ASSUME NEW i \in Nat
       PROVE  IF ClosedBlock(i, n, TRUE) /\ ~ClosedBlock(i, n, FALSE)
              THEN StoppedOnce(Q, i) ELSE Q \in Seq(NotStop(i))
    <2>1. Stop(i) \in Events /\ Stop(i).type = "stop" /\ Stop(i) # e /\ Stop(i) # f
        BY <1>3, StopFacts
    <2>2. CASE i \in 0..n /\ ~ClosedBlock(i, n, FALSE)
        <3>1. StoppedOnce(s, i)
            BY <1>1, <2>2
        <3>2. \A k \in 1..Len(t) : t[k] # Stop(i)
            BY <1>5, <2>1
        <3>3. StoppedOnce(Q, i)
            BY <1>5, <1>6, <3>1, <3>2, StoppedBefore
        <3>4. ClosedBlock(i, n, TRUE)
            BY <2>2 DEF ClosedBlock
        <3> QED
            BY <2>2, <3>3, <3>4
    <2>3. CASE ~(i \in 0..n /\ ~ClosedBlock(i, n, FALSE))
        <3>1. \A j \in 0..n : Stop(j) = Stop(i) => j = i
            BY StopFacts
        <3>2. \A k \in 1..Len(Q) : Q[k] # Stop(i)
            BY <1>8, <1>9, <2>1, <2>3, <3>1
        <3>3. \A k \in 1..Len(Q) : Q[k] \in NotStop(i)
            BY <1>10, <3>2 DEF NotStop
        <3>4. Q \in Seq(NotStop(i))
            BY <3>3
        <3>5. ~(ClosedBlock(i, n, TRUE) /\ ~ClosedBlock(i, n, FALSE))
            BY <2>3 DEF ClosedBlock
        <3> QED
            BY <3>4, <3>5
    <2> QED
        BY <2>2, <2>3
<1>15. Ended(Q)
    <2>1. \A k \in 1..m : s[k] \in NotLast
        <3> SUFFICES ASSUME NEW k \in 1..m PROVE s[k] \in NotLast
            OBVIOUS
        <3>1. PICK i \in 0..n : s[k] = Stop(i)
            BY <1>1, <1>7
        <3> QED
            BY <3>1, StopFacts, LastTypes
    <2>2. s \in Seq(NotLast) /\ e \in NotLast /\ <<e>> \in Seq(NotLast)
        <3>1. e \in NotLast
            BY <1>3, LastTypes
        <3> QED
            BY <1>7, <2>1, <3>1
    <2>3. s \o <<e>> \in Seq(NotLast)
        BY <2>2, ConcatProperties
    <2>4. (s \o <<e>>) \o <<f>> = s \o (<<e>> \o <<f>>)
        <3>1. <<e>> \in Seq(Events) /\ <<f>> \in Seq(Events)
            BY <1>3
        <3> QED
            BY <3>1, ConcatAssociative
    <2>5. f.type \in Last
        BY <1>3 DEF Last
    <2> QED
        BY <1>3, <1>5, <1>6, <2>3, <2>4, <2>5 DEF Ended
<1>16. ASSUME NEW x \in (Len(F) + 1)..(Len(F) + Len(Q)) PROVE FineAt(F \o Q, x)
    <2>1. F \in Seq(Events)
        BY DEF Told
    <2>2. \A k \in 1..Len(Q) : Q[k].type # "delta"
        BY <1>10
    <2> QED
        BY <2>1, <2>2, FineNoDelta
<1>17. PICK d \in BOOLEAN : d = TRUE
    OBVIOUS
<1>18. Continues(F, H, n, Q, H, n, d)
    <2>1. n =< n /\ \A i \in 0..n : i =< n \/ \E j \in 1..Len(Q) : IsStart(Q[j], i)
        OBVIOUS
    <2>2. \A i \in Nat : IF ClosedBlock(i, n, d) /\ ~ClosedBlock(i, n, FALSE)
                         THEN StoppedOnce(Q, i) ELSE Q \in Seq(NotStop(i))
        BY <1>14, <1>17
    <2> QED
        BY <1>11, <1>12, <1>13, <1>15, <1>16, <1>17, <2>1, <2>2 DEF Continues
<1>19. Told(F \o Q, H, n, d)
    BY <1>18, ToldNext
<1> QED
    BY <1>6, <1>17, <1>19

-----------------------------------------------------------------------------
(* The AnthropicAdapter: whatever it is given, it tells the account.        *)

Adapters == [started : BOOLEAN, done : BOOLEAN, textOpen : BOOLEAN, blocks : Seq(Nat),
             open : SUBSET Nat, text : Seq(Nat)]

Indexed(n) == [j \in 1..n |-> j - 1]

\* The adapter of a message with n calls.
Writes(a, n) == /\ a \in Adapters
                /\ a.blocks = Indexed(n)
                /\ IF a.done THEN a.started /\ a.open = {} /\ ~a.textOpen ELSE OpenFor(a, n)

\* What it has written.
ToldBy(F, H, n, a) == /\ Writes(a, n)
                      /\ IF a.started THEN Told(F, H, n, a.done)
                         ELSE F = <<>> /\ H = Nothing /\ n = 0

OpeningOf(a) == IF a.started THEN <<>> ELSE Opening

Started(a) == [a EXCEPT !.started = TRUE]

LEMMA IndexedFacts ==
    ASSUME NEW n \in Nat
    PROVE  /\ Indexed(n) \in Seq(Nat) /\ Len(Indexed(n)) = n /\ DOMAIN Indexed(n) = 1..n
           /\ \A j \in 1..n : Indexed(n)[j] = j - 1
           /\ Append(Indexed(n), n) = Indexed(n + 1)
<1>1. PICK u : u = Indexed(n)
    OBVIOUS
<1>2. u \in Seq(Nat) /\ Len(u) = n /\ DOMAIN u = 1..n /\ \A j \in 1..n : u[j] = j - 1
    BY <1>1 DEF Indexed
<1>3. PICK v : v = Append(u, n)
    OBVIOUS
<1>4. v \in Seq(Nat) /\ Len(v) = n + 1 /\ (\A j \in 1..n : v[j] = j - 1) /\ v[n + 1] = n
    BY <1>2, <1>3, AppendProperties
<1>5. PICK w : w = Indexed(n + 1)
    OBVIOUS
<1>6. w \in Seq(Nat) /\ Len(w) = n + 1 /\ \A j \in 1..(n + 1) : w[j] = j - 1
    BY <1>5 DEF Indexed
<1>7. \A j \in 1..(n + 1) : j \in 1..n \/ j = n + 1
    OBVIOUS
<1>8. \A j \in 1..(n + 1) : v[j] = w[j]
    BY <1>4, <1>6, <1>7
<1>9. v = w
    BY <1>4, <1>6, <1>8, SeqEqual
<1> QED
    BY <1>1, <1>2, <1>3, <1>5, <1>9

LEMMA StartedFacts ==
    ASSUME NEW a \in Adapters
    PROVE  /\ Started(a) \in Adapters /\ Started(a).started
           /\ Started(a).done = a.done /\ Started(a).textOpen = a.textOpen
           /\ Started(a).blocks = a.blocks /\ Started(a).open = a.open
           /\ Started(a).text = a.text
BY DEF Adapters, Started

LEMMA ClosedFacts ==
    ASSUME NEW a \in Adapters
    PROVE  /\ Closed(a) \in Adapters /\ Closed(a).started = a.started
           /\ Closed(a).done /\ ~Closed(a).textOpen
           /\ Closed(a).blocks = a.blocks /\ Closed(a).open = {}
           /\ Closed(a).text = a.text
BY DEF Adapters, Closed

LEMMA OpenedFacts ==
    ASSUME NEW a \in Adapters, NEW i \in Nat
    PROVE  /\ Opened(a, i) \in Adapters /\ Opened(a, i).started = a.started
           /\ Opened(a, i).done = a.done /\ ~Opened(a, i).textOpen
           /\ Opened(a, i).blocks = Append(a.blocks, i)
           /\ Opened(a, i).open = a.open \cup {Len(a.blocks) + 1}
           /\ Opened(a, i).text = a.text
<1>1. a.blocks \in Seq(Nat) /\ a.open \in SUBSET Nat
    BY DEF Adapters
<1>2. Append(a.blocks, i) \in Seq(Nat) /\ a.open \cup {Len(a.blocks) + 1} \in SUBSET Nat
    BY <1>1, AppendProperties, LenProperties
<1> QED
    BY <1>2 DEF Adapters, Opened

Associates(x, y, z) == (x \o y) \o z = x \o (y \o z)

LEMMA Associative ==
    ASSUME NEW x \in Seq(Events), NEW y \in Seq(Events), NEW z \in Seq(Events)
    PROVE  Associates(x, y, z)
BY ConcatAssociative DEF Associates

Regroups(F, A, B, C, D) == F \o (A \o B \o C \o D) = (((F \o A) \o B) \o C) \o D

LEMMA Regroup ==
    ASSUME NEW F \in Seq(Events), NEW A \in Seq(Events), NEW B \in Seq(Events),
           NEW C \in Seq(Events), NEW D \in Seq(Events)
    PROVE  Regroups(F, A, B, C, D)
<1>1. PICK P \in Seq(Events) : P = A \o B
    BY ConcatProperties
<1>2. PICK Q \in Seq(Events) : Q = P \o C
    BY ConcatProperties
<1>3. Associates(F, Q, D) /\ Associates(F, P, C) /\ Associates(F, A, B)
    BY Associative
<1> QED
    BY <1>1, <1>2, <1>3 DEF Associates, Regroups

\* The opening, if it is due.
LEMMA ToldSoFar ==
    ASSUME NEW F, NEW H, NEW n \in Nat, NEW a, ToldBy(F, H, n, a)
    PROVE  /\ F \in Seq(Events) /\ OpeningOf(a) \in Seq(Events)
           /\ Told(F \o OpeningOf(a), H, n, a.done)
           /\ Writes(Started(a), n)
<1>1. Writes(a, n) /\ a \in Adapters
    BY DEF ToldBy, Writes
<1>2. Writes(Started(a), n)
    BY <1>1, StartedFacts DEF Writes, OpenFor
<1>3. CASE a.started
    <2>1. F \in Seq(Events) /\ Told(F, H, n, a.done)
        BY <1>3 DEF ToldBy, Told
    <2>2. OpeningOf(a) = <<>> /\ <<>> \in Seq(Events)
        BY <1>3 DEF OpeningOf
    <2>3. F \o OpeningOf(a) = F
        BY <2>1, <2>2, ConcatEmptySeq
    <2> QED
        BY <1>2, <2>1, <2>2, <2>3
<1>4. CASE ~a.started
    <2>1. F = <<>> /\ H = Nothing /\ n = 0 /\ a.done = FALSE
        BY <1>1, <1>4 DEF ToldBy, Writes, Adapters
    <2>2. OpeningOf(a) = Opening /\ Opening \in Seq(Events) /\ <<>> \in Seq(Events)
        BY <1>4, ToldOpening DEF OpeningOf, Told
    <2>3. <<>> \o Opening = Opening
        BY <2>2, ConcatEmptySeq
    <2> QED
        BY <1>2, <2>1, <2>2, <2>3, ToldOpening
<1> QED
    BY <1>3, <1>4

\* What an adapter has to do with a chunk, in its three parts.
PartsOf(a, c, T, X, C) ==
    /\ T = IF c.text # None THEN <<Delta(0, c.text)>> ELSE <<>>
    /\ X = ToolEvents(a, c.tool)
    /\ C = IF Closes(a, c) THEN MessagesClosing(AfterTool(a, c.tool)) ELSE <<>>

Adds(F, a, c, T, X, C) ==
    /\ MessagesEvents(a, c) \in Seq(Events)
    /\ F \o MessagesEvents(a, c) = (((F \o OpeningOf(a)) \o T) \o X) \o C

LEMMA MessagesStep ==
    ASSUME NEW F, NEW H, NEW n \in Nat, NEW a, ToldBy(F, H, n, a),
           NEW c, NEW T \in Seq(Events), NEW X \in Seq(Events), NEW C \in Seq(Events),
           PartsOf(a, c, T, X, C)
    PROVE  Adds(F, a, c, T, X, C)
<1>1. PICK G \in Seq(Events), A \in Seq(Events) : G = F /\ A = OpeningOf(a)
    BY ToldSoFar
<1>2. MessagesEvents(a, c) = A \o T \o X \o C
    BY <1>1 DEF MessagesEvents, OpeningOf, Opening, PartsOf
<1>3. Regroups(G, A, T, X, C)
    BY Regroup
<1>4. MessagesEvents(a, c) \in Seq(Events)
    <2>1. PICK P \in Seq(Events) : P = A \o T
        BY ConcatProperties
    <2>2. PICK Q \in Seq(Events) : Q = P \o X
        BY ConcatProperties
    <2>3. Q \o C \in Seq(Events)
        BY ConcatProperties
    <2> QED
        BY <1>2, <2>1, <2>2, <2>3
<1> QED
    BY <1>1, <1>2, <1>3, <1>4 DEF Regroups, Adds

\* AdapterAfter, for a client of the Messages protocol.
AfterChunk(a, c) ==
    LET d == AfterTool(Started(a), c.tool) IN IF Closes(a, c) THEN Closed(d) ELSE d

LEMMA NoToolEvents ==
    ASSUME NEW a PROVE ToolEvents(a, NoTool) = <<>> /\ AfterTool(a, NoTool) = a
BY DEF ToolEvents, AfterTool, NoTool

\* A text.
LEMMA MessagesText ==
    ASSUME NEW F, NEW H \in Accounts, NEW n \in Nat, NEW a, ToldBy(F, H, n, a), ~a.done,
           NEW p \in 1..MaxSaid
    PROVE  /\ MessagesEvents(a, Text(p)) \in Seq(Events)
           /\ ToldBy(F \o MessagesEvents(a, Text(p)), Add(H, 0, p), n, AfterChunk(a, Text(p)))
<1>1. PICK c : c = Text(p)
    OBVIOUS
<1>2. c.text = p /\ c.tool = NoTool /\ ~c.finish /\ ~c.usage
    BY <1>1, TextChunkFacts
<1>3. p \in Nat \ {None} /\ 0 \in 0..n
    BY DEF None
<1>4. PICK T \in Seq(Events) : T = <<Delta(0, p)>>
    <2>1. Delta(0, p) \in Events
        BY <1>3, DeltaFacts
    <2>2. <<Delta(0, p)>> \in Seq(Events)
        BY <2>1
    <2> QED
        BY <2>2
<1>5. <<>> \in Seq(Events) /\ PartsOf(a, c, T, <<>>, <<>>)
    BY <1>2, <1>3, <1>4, NoToolEvents DEF PartsOf, Closes
<1>6. PICK G \in Seq(Events) : G = F \o OpeningOf(a) /\ Told(G, H, n, FALSE)
    <2>1. Told(F \o OpeningOf(a), H, n, a.done) /\ a.done = FALSE
        BY ToldSoFar DEF ToldBy, Writes, Adapters
    <2> QED
        BY <2>1 DEF Told
<1>7. Told(G \o T, Add(H, 0, p), n, FALSE)
    BY <1>3, <1>4, <1>6, ToldDelta
<1>8. MessagesEvents(a, c) \in Seq(Events) /\ F \o MessagesEvents(a, c) = G \o T
    <2>0. Adds(F, a, c, T, <<>>, <<>>)
        BY <1>5, MessagesStep
    <2>1. MessagesEvents(a, c) \in Seq(Events) /\ F \o MessagesEvents(a, c) = ((G \o T) \o <<>>) \o <<>>
        BY <1>6, <2>0 DEF Adds
    <2>2. G \o T \in Seq(Events)
        BY ConcatProperties
    <2> QED
        BY <2>1, <2>2, ConcatEmptySeq
<1>9. AfterChunk(a, c) = Started(a)
    BY <1>2, NoToolEvents DEF AfterChunk, Closes
<1>10. Writes(Started(a), n) /\ Started(a).started /\ Started(a).done = FALSE
    BY ToldSoFar, StartedFacts DEF ToldBy, Writes, Adapters
<1> QED
    BY <1>1, <1>7, <1>8, <1>9, <1>10 DEF ToldBy

\* The first delta of a call.
LEMMA MessagesCall ==
    ASSUME NEW F, NEW H \in Accounts, NEW n \in 0..(MaxSaid - 1), NEW a, ToldBy(F, H, n, a),
           ~a.done
    PROVE  /\ MessagesEvents(a, Tool(n, n + 1, None)) \in Seq(Events)
           /\ ToldBy(F \o MessagesEvents(a, Tool(n, n + 1, None)), H, n + 1,
                     AfterChunk(a, Tool(n, n + 1, None)))
<1>0. n \in Nat /\ n + 1 \in Nat /\ n \in 0..MaxSaid /\ n + 1 \in 0..MaxSaid /\ None \in 0..MaxSaid
    BY StreamsAssumption DEF None
<1>1. PICK c : c = Tool(n, n + 1, None)
    OBVIOUS
<1>2. /\ c.text = None /\ ~c.finish /\ ~c.usage
      /\ c.tool.index = n /\ c.tool.name = n + 1 /\ c.tool.args = None
    BY <1>0, <1>1, ToolChunkFacts
<1>3. /\ a \in Adapters /\ a.blocks = Indexed(n) /\ OpenFor(a, n) /\ a.done = FALSE
      /\ a.textOpen \in BOOLEAN
    BY DEF ToldBy, Writes, Adapters
<1>4. Len(a.blocks) = n /\ DOMAIN a.blocks = 1..n /\ \A j \in 1..n : a.blocks[j] = j - 1
    BY <1>0, <1>3, IndexedFacts
<1>5. ~Known(a, n) /\ ~Known(Started(a), n)
    BY <1>0, <1>3, <1>4, StartedFacts DEF Known
<1>6. PICK T \in Seq(Events) :
          T = (IF n = 0 THEN <<Stop(0)>> ELSE <<>>) \o <<Start(n + 1, n + 1)>>
    <2>1. Stop(0) \in Events /\ Start(n + 1, n + 1) \in Events
        BY <1>0, StartFacts, StopFacts
    <2>4. <<Stop(0)>> \in Seq(Events) /\ <<>> \in Seq(Events)
        BY <2>1
    <2>2. PICK u \in Seq(Events) : u = IF n = 0 THEN <<Stop(0)>> ELSE <<>>
        BY <2>4
    <2>3. <<Start(n + 1, n + 1)>> \in Seq(Events)
        BY <2>1
    <2> QED
        BY <2>2, <2>3, ConcatProperties
<1>7. PartsOf(a, c, <<>>, T, <<>>)
    <2>1. a.textOpen <=> n = 0
        BY <1>3 DEF OpenFor
    <2>2. n # -1
        BY <1>0
    <2>3. ToolEvents(a, c.tool) = T \o <<>>
        BY <1>2, <1>4, <1>5, <1>6, <2>1, <2>2 DEF ToolEvents
    <2>4. T \o <<>> = T
        BY <1>6, ConcatEmptySeq
    <2> QED
        BY <1>2, <2>3, <2>4 DEF PartsOf, Closes
<1>8. PICK G \in Seq(Events) : G = F \o OpeningOf(a) /\ Told(G, H, n, FALSE)
    <2>1. Told(F \o OpeningOf(a), H, n, a.done)
        BY <1>0, ToldSoFar
    <2> QED
        BY <1>3, <2>1 DEF Told
<1>9. Told(G \o T, H, n + 1, FALSE)
    BY <1>0, <1>6, <1>8, ToldCall
<1>10. MessagesEvents(a, c) \in Seq(Events) /\ F \o MessagesEvents(a, c) = G \o T
    <2>0. <<>> \in Seq(Events)
        OBVIOUS
    <2>1. Adds(F, a, c, <<>>, T, <<>>)
        BY <1>0, <1>7, <2>0, MessagesStep
    <2>2. MessagesEvents(a, c) \in Seq(Events) /\ F \o MessagesEvents(a, c) = ((G \o <<>>) \o T) \o <<>>
        BY <1>8, <2>1 DEF Adds
    <2>3. G \o <<>> = G /\ G \o T \in Seq(Events)
        BY ConcatEmptySeq, ConcatProperties
    <2> QED
        BY <2>2, <2>3, ConcatEmptySeq
<1>11. PICK b : b = Started(a)
    OBVIOUS
<1>12. AfterChunk(a, c) = Opened(b, n)
    <2>1. n # -1
        BY <1>0
    <2> QED
        BY <1>2, <1>5, <1>11, <2>1 DEF AfterChunk, AfterTool, Closes
<1>13. /\ b \in Adapters /\ b.blocks = Indexed(n) /\ b.started /\ b.done = FALSE /\ b.open = 1..n
    BY <1>3, <1>11, StartedFacts DEF OpenFor
<1>14. PICK d : d = Opened(b, n)
    OBVIOUS
<1>15. /\ d \in Adapters /\ d.started /\ d.done = FALSE /\ ~d.textOpen
       /\ d.blocks = Indexed(n + 1) /\ d.open = (1..n) \cup {n + 1}
    <2>1. Append(Indexed(n), n) = Indexed(n + 1) /\ Len(Indexed(n)) = n
        BY <1>0, IndexedFacts
    <2> QED
        BY <1>0, <1>13, <1>14, <2>1, OpenedFacts
<1>16. d.open = 1..(n + 1) /\ n + 1 # 0
    BY <1>0, <1>15
<1>17. Writes(d, n + 1)
    BY <1>15, <1>16 DEF Writes, OpenFor
<1> QED
    BY <1>1, <1>9, <1>10, <1>12, <1>14, <1>15, <1>17 DEF ToldBy

\* Arguments of call b.
LEMMA MessagesArgs ==
    ASSUME NEW F, NEW H \in Accounts, NEW n \in 0..MaxSaid, NEW a, ToldBy(F, H, n, a),
           ~a.done, NEW b \in 1..n, NEW p \in 1..MaxSaid
    PROVE  /\ MessagesEvents(a, Tool(b - 1, None, p)) \in Seq(Events)
           /\ ToldBy(F \o MessagesEvents(a, Tool(b - 1, None, p)), Add(H, b, p), n,
                     AfterChunk(a, Tool(b - 1, None, p)))
<1>0. /\ n \in Nat /\ b \in Nat /\ b \in 0..n /\ b - 1 \in 0..MaxSaid /\ None \in 0..MaxSaid
      /\ p \in 0..MaxSaid /\ p \in Nat \ {None}
    BY StreamsAssumption DEF None
<1>1. PICK c : c = Tool(b - 1, None, p)
    OBVIOUS
<1>2. /\ c.text = None /\ ~c.finish /\ ~c.usage
      /\ c.tool.index = b - 1 /\ c.tool.name = None /\ c.tool.args = p
    BY <1>0, <1>1, ToolChunkFacts
<1>3. a \in Adapters /\ a.blocks = Indexed(n) /\ a.done = FALSE
    BY DEF ToldBy, Writes, Adapters
<1>4. DOMAIN a.blocks = 1..n /\ \A j \in 1..n : a.blocks[j] = j - 1
    BY <1>0, <1>3, IndexedFacts
<1>5. a.blocks[b] = b - 1 /\ \A j \in 1..n : a.blocks[j] = b - 1 => j = b
    BY <1>0, <1>4
<1>6. Known(a, b - 1) /\ Known(Started(a), b - 1) /\ BlockOf(a, b - 1) = b
    BY <1>3, <1>4, <1>5, StartedFacts DEF Known, BlockOf
<1>7. PICK T \in Seq(Events) : T = <<Delta(b, p)>>
    <2>1. Delta(b, p) \in Events
        BY <1>0, DeltaFacts
    <2>2. <<Delta(b, p)>> \in Seq(Events)
        BY <2>1
    <2> QED
        BY <2>2
<1>8. PartsOf(a, c, <<>>, T, <<>>)
    <2>1. b - 1 # -1 /\ p # None
        BY <1>0
    <2>2. ToolEvents(a, c.tool) = (<<>> \o <<>>) \o T
        BY <1>2, <1>6, <1>7, <2>1 DEF ToolEvents
    <2>3. <<>> \o <<>> = <<>> /\ <<>> \o T = T
        <3>1. <<>> \in Seq(Events)
            OBVIOUS
        <3> QED
            BY <1>7, <3>1, ConcatEmptySeq
    <2>4. ToolEvents(a, c.tool) = T
        BY <2>2, <2>3
    <2> QED
        BY <1>2, <2>4 DEF PartsOf, Closes
<1>9. PICK G \in Seq(Events) : G = F \o OpeningOf(a) /\ Told(G, H, n, FALSE)
    <2>1. Told(F \o OpeningOf(a), H, n, a.done)
        BY <1>0, ToldSoFar
    <2> QED
        BY <1>3, <2>1 DEF Told
<1>10. Told(G \o T, Add(H, b, p), n, FALSE)
    BY <1>0, <1>7, <1>9, ToldDelta
<1>11. MessagesEvents(a, c) \in Seq(Events) /\ F \o MessagesEvents(a, c) = G \o T
    <2>0. <<>> \in Seq(Events)
        OBVIOUS
    <2>1. Adds(F, a, c, <<>>, T, <<>>)
        BY <1>0, <1>8, <2>0, MessagesStep
    <2>2. MessagesEvents(a, c) \in Seq(Events) /\ F \o MessagesEvents(a, c) = ((G \o <<>>) \o T) \o <<>>
        BY <1>9, <2>1 DEF Adds
    <2>3. G \o <<>> = G /\ G \o T \in Seq(Events)
        BY ConcatEmptySeq, ConcatProperties
    <2> QED
        BY <2>2, <2>3, ConcatEmptySeq
<1>12. AfterChunk(a, c) = Started(a)
    BY <1>2, <1>6 DEF AfterChunk, AfterTool, Closes
<1>13. Writes(Started(a), n) /\ Started(a).started /\ Started(a).done = FALSE
    BY <1>0, <1>3, ToldSoFar, StartedFacts
<1> QED
    BY <1>1, <1>10, <1>11, <1>12, <1>13 DEF ToldBy

\* A chunk with nothing of the answer: it may be the one to close with.
LEMMA MessagesOther ==
    ASSUME NEW F, NEW H \in Accounts, NEW n \in Nat, NEW a, ToldBy(F, H, n, a),
           NEW c, c.text = None, c.tool = NoTool
    PROVE  /\ MessagesEvents(a, c) \in Seq(Events)
           /\ ToldBy(F \o MessagesEvents(a, c), H, n, AfterChunk(a, c))
<1>1. a \in Adapters /\ a.done \in BOOLEAN
    BY DEF ToldBy, Writes, Adapters
<1>2. PICK G \in Seq(Events) : G = F \o OpeningOf(a) /\ Told(G, H, n, a.done)
    <2>1. Told(F \o OpeningOf(a), H, n, a.done)
        BY ToldSoFar
    <2> QED
        BY <2>1 DEF Told
<1>3. Writes(Started(a), n) /\ Started(a) \in Adapters /\ Started(a).started
      /\ Started(a).done = a.done
    BY <1>1, ToldSoFar, StartedFacts
<1>4. <<>> \in Seq(Events)
    OBVIOUS
<1>5. CASE Closes(a, c)
    <2>1. a.done = FALSE /\ OpenFor(a, n)
        BY <1>1, <1>5 DEF Closes, ToldBy, Writes
    <2>2. Told(G \o MessagesClosing(a), H, n, TRUE) /\ MessagesClosing(a) \in Seq(Events)
        BY <1>2, <2>1, ToldClosing
    <2>3. PICK C \in Seq(Events) : C = MessagesClosing(a)
        BY <2>2
    <2>4. PartsOf(a, c, <<>>, <<>>, C)
        BY <1>5, <2>3, NoToolEvents DEF PartsOf
    <2>5. MessagesEvents(a, c) \in Seq(Events) /\ F \o MessagesEvents(a, c) = G \o C
        <3>1. Adds(F, a, c, <<>>, <<>>, C)
            BY <1>4, <2>4, MessagesStep
        <3>2. MessagesEvents(a, c) \in Seq(Events) /\ F \o MessagesEvents(a, c) = ((G \o <<>>) \o <<>>) \o C
            BY <1>2, <3>1 DEF Adds
        <3> QED
            BY <3>2, ConcatEmptySeq
    <2>6. AfterChunk(a, c) = Closed(Started(a))
        BY <1>5, NoToolEvents DEF AfterChunk
    <2>7. PICK d : d = Closed(Started(a))
        OBVIOUS
    <2>8. Writes(d, n) /\ d.started /\ d.done = TRUE
        BY <1>3, <2>7, ClosedFacts DEF Writes, Adapters
    <2> QED
        BY <2>2, <2>3, <2>5, <2>6, <2>7, <2>8 DEF ToldBy
<1>6. CASE ~Closes(a, c)
    <2>1. PartsOf(a, c, <<>>, <<>>, <<>>)
        BY <1>6, NoToolEvents DEF PartsOf
    <2>2. MessagesEvents(a, c) \in Seq(Events) /\ F \o MessagesEvents(a, c) = G
        <3>1. Adds(F, a, c, <<>>, <<>>, <<>>)
            BY <1>4, <2>1, MessagesStep
        <3>2. MessagesEvents(a, c) \in Seq(Events) /\ F \o MessagesEvents(a, c) = ((G \o <<>>) \o <<>>) \o <<>>
            BY <1>2, <3>1 DEF Adds
        <3> QED
            BY <3>2, ConcatEmptySeq
    <2>3. AfterChunk(a, c) = Started(a)
        BY <1>6, NoToolEvents DEF AfterChunk
    <2> QED
        BY <1>2, <1>3, <2>2, <2>3 DEF ToldBy
<1> QED
    BY <1>5, <1>6

\* The end of the upstream.
LEMMA MessagesEnd ==
    ASSUME NEW F, NEW H \in Accounts, NEW n \in Nat, NEW a, ToldBy(F, H, n, a)
    PROVE  LET Q == IF a.started /\ ~a.done THEN MessagesClosing(a) ELSE <<>>
           IN  Q \in Seq(Events) /\ ToldBy(F \o Q, H, n, IF a.started THEN Closed(a) ELSE a)
<1>1. a \in Adapters /\ a.done \in BOOLEAN
    BY DEF ToldBy, Writes, Adapters
<1>2. F \in Seq(Events) /\ <<>> \in Seq(Events)
    BY ToldSoFar
<1>3. CASE ~a.started
    BY <1>2, <1>3, ConcatEmptySeq
<1>4. CASE a.started
    <2>1. PICK d : d = Closed(a)
        OBVIOUS
    <2>2. Writes(d, n) /\ d.started /\ d.done = TRUE
        BY <1>1, <1>4, <2>1, ClosedFacts DEF ToldBy, Writes, Adapters
    <2>3. CASE a.done
        <3>1. Told(F, H, n, TRUE)
            BY <1>1, <1>4, <2>3 DEF ToldBy
        <3>2. F \o <<>> = F
            BY <1>2, ConcatEmptySeq
        <3> QED
            BY <1>2, <1>4, <2>1, <2>2, <2>3, <3>1, <3>2 DEF ToldBy
    <2>4. CASE ~a.done
        <3>1. Told(F, H, n, FALSE) /\ OpenFor(a, n)
            BY <1>1, <1>4, <2>4 DEF ToldBy, Writes
        <3>2. MessagesClosing(a) \in Seq(Events) /\ Told(F \o MessagesClosing(a), H, n, TRUE)
            BY <3>1, ToldClosing
        <3> QED
            BY <1>4, <2>1, <2>2, <2>4, <3>2 DEF ToldBy
    <2> QED
        BY <2>3, <2>4
<1> QED
    BY <1>3, <1>4

-----------------------------------------------------------------------------
(* The ResponsesAdapter: it tells the text of the account.                 *)

NotStart == {e \in Events : e.type # "start"}

Written(F, h, d) == /\ F \in Seq(Events) /\ F \in Seq(NotStart)
                    /\ Heard(F, PieceOf(0)) = h
                    /\ IF d THEN Ended(F) ELSE F \in Seq(NotLast)

WrittenBy(F, h, a) == /\ a \in Adapters /\ a.blocks = <<>> /\ a.open = {}
                      /\ a.done => a.started
                      /\ IF a.started THEN Written(F, h, a.done) ELSE F = <<>> /\ h = <<>>

\* AdapterAfter, for a client of the Responses protocol.
AfterWords(a, c) ==
    LET d == WithText(Started(a), c) IN IF Closes(a, c) THEN Closed(d) ELSE d

LEMMA WrittenNext ==
    ASSUME NEW F, NEW h \in Seq(Values), Written(F, h, FALSE),
           NEW Q \in Seq(Events), NEW d \in BOOLEAN, Written(Q, Heard(Q, PieceOf(0)), d)
    PROVE  Written(F \o Q, h \o Heard(Q, PieceOf(0)), d)
<1>1. F \in Seq(Events) /\ F \in Seq(NotStart) /\ F \in Seq(NotLast) /\ Q \in Seq(NotStart)
      /\ Heard(F, PieceOf(0)) = h
    BY DEF Written
<1>2. F \o Q \in Seq(Events) /\ F \o Q \in Seq(NotStart)
    BY <1>1, ConcatProperties
<1>3. PieceOf(0) \in Headings(Events)
    BY PieceOfFacts
<1>4. Heard(F \o Q, PieceOf(0)) = h \o Heard(Q, PieceOf(0))
    BY <1>1, <1>3, HeardConcat
<1>5. CASE d
    <2>1. Ended(F \o Q)
        BY <1>1, <1>5, EndedAfter DEF Written
    <2> QED
        BY <1>2, <1>4, <1>5, <2>1 DEF Written
<1>6. CASE ~d
    <2>1. F \o Q \in Seq(NotLast)
        BY <1>1, <1>6, ConcatProperties DEF Written
    <2> QED
        BY <1>2, <1>4, <1>6, <2>1 DEF Written
<1> QED
    BY <1>5, <1>6

WordsOpening == <<Event("created"), Event("item.added"), Event("part.added")>>

LEMMA WordsOpened == Written(WordsOpening, <<>>, FALSE)
<1>1. PICK e, f, g : e = Event("created") /\ f = Event("item.added") /\ g = Event("part.added")
    OBVIOUS
<1>2. /\ e \in Events /\ e.type = "created" /\ f \in Events /\ f.type = "item.added"
      /\ g \in Events /\ g.type = "part.added"
    BY <1>1, PlainFacts DEF PlainTypes
<1>3. \A x \in {e, f, g} : x \in NotStart /\ x \in NotLast /\ x.type # "delta"
    BY <1>2 DEF NotStart, NotLast, Last
<1>4. PICK F : F = <<e, f, g>>
    OBVIOUS
<1>5. F \in Seq(Events) /\ F \in Seq(NotStart) /\ F \in Seq(NotLast)
    BY <1>2, <1>3, <1>4
<1>6. \A k \in 1..Len(F) : F[k] \in {e, f, g}
    <2>1. Len(F) = 3 /\ F[1] = e /\ F[2] = f /\ F[3] = g /\ \A k \in 1..3 : k = 1 \/ k = 2 \/ k = 3
        BY <1>4
    <2> QED
        BY <2>1
<1>7. \A k \in 1..Len(F) : PieceOf(0)[F[k]] = None
    BY <1>2, <1>3, <1>6, PieceOfFacts
<1>8. Heard(F, PieceOf(0)) = <<>>
    BY <1>5, <1>7, HeardNone
<1> QED
    BY <1>1, <1>4, <1>5, <1>8 DEF Written, WordsOpening

LEMMA WordsClosed ==
    ASSUME NEW a \in Adapters
    PROVE  /\ ResponsesClosing(a) \in Seq(Events)
           /\ Written(ResponsesClosing(a), <<>>, TRUE)
<1>1. PICK e, f, g, x : /\ e = [type |-> "text.done", text |-> a.text]
                        /\ f = Event("part.done") /\ g = Event("item.done")
                        /\ x = Event("completed")
    OBVIOUS
<1>2. /\ e \in Events /\ e.type = "text.done" /\ f \in Events /\ f.type = "part.done"
      /\ g \in Events /\ g.type = "item.done" /\ x \in Events /\ x.type = "completed"
    <2>1. a.text \in Seq(Nat)
        BY DEF Adapters
    <2> QED
        BY <1>1, <2>1, PlainFacts, TextFacts DEF PlainTypes
<1>3. \A y \in {e, f, g, x} : y \in NotStart /\ y.type # "delta"
    BY <1>2 DEF NotStart
<1>4. PICK A : A = <<e, f, g>>
    OBVIOUS
<1>5. A \in Seq(NotLast) /\ A \in Seq(Events) /\ Len(A) = 3 /\ A[1] = e /\ A[2] = f /\ A[3] = g
    <2>1. e \in NotLast /\ f \in NotLast /\ g \in NotLast
        BY <1>2 DEF NotLast, Last
    <2> QED
        BY <1>2, <1>4, <2>1
<1>6. PICK F : F = <<e, f, g, x>>
    OBVIOUS
<1>7. /\ F \in Seq(Events) /\ F \in Seq(NotStart)
      /\ Len(F) = 4 /\ F[1] = e /\ F[2] = f /\ F[3] = g /\ F[4] = x
    BY <1>2, <1>3, <1>6
<1>8. F = Append(A, x)
    <2>1. PICK u : u = Append(A, x)
        OBVIOUS
    <2>2. /\ u \in Seq(Events) /\ Len(u) = 4 /\ u[1] = e /\ u[2] = f /\ u[3] = g /\ u[4] = x
        <3>1. /\ Append(A, x) \in Seq(Events) /\ Len(Append(A, x)) = 4 /\ Append(A, x)[4] = x
              /\ \A k \in 1..3 : Append(A, x)[k] = A[k]
            <4>1. A \in Seq(Events) /\ x \in Events
                BY <1>2, <1>5
            <4>2. /\ Append(A, x) \in Seq(Events) /\ Len(Append(A, x)) = Len(A) + 1
                  /\ Append(A, x)[Len(A) + 1] = x
                  /\ \A k \in 1..Len(A) : Append(A, x)[k] = A[k]
                BY <4>1, AppendProperties
            <4> QED
                BY <1>5, <4>2
        <3>2. 1 \in 1..3 /\ 2 \in 1..3 /\ 3 \in 1..3
            OBVIOUS
        <3> QED
            BY <1>5, <2>1, <3>1, <3>2
    <2>3. \A k \in 1..4 : k = 1 \/ k = 2 \/ k = 3 \/ k = 4
        OBVIOUS
    <2>4. \A k \in 1..Len(F) : F[k] = u[k]
        BY <1>7, <2>2, <2>3
    <2>5. F = u
        BY <1>7, <2>2, <2>4, SeqEqual
    <2> QED
        BY <2>1, <2>5
<1>9. Ended(F)
    <2>1. F = A \o <<x>>
        BY <1>2, <1>5, <1>8, AppendIsConcat
    <2> QED
        BY <1>2, <1>5, <2>1 DEF Ended, Last
<1>10. \A k \in 1..Len(F) : F[k] \in {e, f, g, x}
    <2>1. \A k \in 1..4 : k = 1 \/ k = 2 \/ k = 3 \/ k = 4
        OBVIOUS
    <2> QED
        BY <1>7, <2>1
<1>11. Heard(F, PieceOf(0)) = <<>>
    <2>1. \A k \in 1..Len(F) : PieceOf(0)[F[k]] = None
        BY <1>2, <1>3, <1>10, PieceOfFacts
    <2> QED
        BY <1>7, <2>1, HeardNone
<1> QED
    BY <1>1, <1>6, <1>7, <1>9, <1>11 DEF Written, ResponsesClosing

LEMMA WordsAfter ==
    ASSUME NEW a \in Adapters, NEW c, c.text \in Nat, NEW d, d = WithText(Started(a), c)
    PROVE  /\ d \in Adapters /\ d.started /\ d.done = a.done /\ d.blocks = a.blocks
           /\ d.open = a.open
<1>1. PICK b : b = Started(a)
    OBVIOUS
<1>2. b \in Adapters /\ b.started /\ b.done = a.done /\ b.blocks = a.blocks /\ b.open = a.open
    BY <1>1, StartedFacts
<1>3. Append(b.text, c.text) \in Seq(Nat)
    BY <1>2, AppendProperties DEF Adapters
<1> QED
    BY <1>1, <1>2, <1>3 DEF WithText, Adapters

LEMMA WordsStep ==
    ASSUME NEW F, NEW h \in Seq(Values), NEW a, WrittenBy(F, h, a),
           NEW c, c.text \in Nat, ~a.done \/ c.text = None
    PROVE  /\ ResponsesEvents(a, c) \in Seq(Events)
           /\ WrittenBy(F \o ResponsesEvents(a, c),
                        IF c.text = None THEN h ELSE Append(h, c.text), AfterWords(a, c))
<1>1. a \in Adapters /\ a.blocks = <<>> /\ a.open = {} /\ a.done \in BOOLEAN
    BY DEF WrittenBy, Adapters
<1> DEFINE A == IF a.started THEN <<>> ELSE WordsOpening
           T == IF c.text # None THEN <<Delta(0, c.text)>> ELSE <<>>
           d == WithText(Started(a), c)
           C == IF Closes(a, c) THEN ResponsesClosing(WithText(a, c)) ELSE <<>>
           k == IF c.text = None THEN h ELSE Append(h, c.text)
<1>2. ResponsesEvents(a, c) = (A \o T) \o C
    BY DEF ResponsesEvents, WordsOpening
<1>3. A \in Seq(Events) /\ F \in Seq(Events) /\ Written(F \o A, h, a.done)
    <2>1. <<>> \in Seq(Events) /\ WordsOpening \in Seq(Events)
        BY WordsOpened DEF Written
    <2>2. CASE a.started
        <3>1. F \in Seq(Events) /\ Written(F, h, a.done)
            BY <2>2 DEF WrittenBy, Written
        <3> QED
            BY <2>1, <2>2, <3>1, ConcatEmptySeq
    <2>3. CASE ~a.started
        <3>1. F = <<>> /\ h = <<>> /\ a.done = FALSE
            BY <1>1, <2>3 DEF WrittenBy
        <3>2. <<>> \o WordsOpening = WordsOpening
            BY <2>1, ConcatEmptySeq
        <3> QED
            BY <2>1, <2>3, <3>1, <3>2, WordsOpened
    <2> QED
        BY <2>2, <2>3
<1>4. T \in Seq(Events) /\ (c.text # None => Written(T, <<c.text>>, FALSE))
    <2>1. CASE c.text = None
        <3>1. T = <<>> /\ <<>> \in Seq(Events)
            BY <2>1
        <3> QED
            BY <2>1, <3>1
    <2>2. CASE c.text # None
        <3>1. PICK e : e = Delta(0, c.text)
            OBVIOUS
        <3>2. e \in Events /\ e.type = "delta"
            BY <3>1, DeltaFacts
        <3>3. e \in NotStart /\ e \in NotLast
            BY <3>2 DEF NotStart, NotLast, Last
        <3>4. PieceOf(0) \in Headings(Events) /\ PieceOf(0)[e] = c.text
            BY <3>1, PieceOfFacts
        <3>5. Heard(<<e>>, PieceOf(0)) = <<c.text>>
            BY <2>2, <3>2, <3>4, HeardOne
        <3>6. <<e>> \in Seq(Events) /\ <<e>> \in Seq(NotStart) /\ <<e>> \in Seq(NotLast)
            BY <3>2, <3>3
        <3>7. T = <<e>>
            BY <2>2, <3>1
        <3> QED
            BY <3>5, <3>6, <3>7 DEF Written
    <2> QED
        BY <2>1, <2>2
<1>5. k \in Seq(Values)
    BY AppendProperties DEF Values
<1>6. (F \o A) \o T \in Seq(Events) /\ Written((F \o A) \o T, k, a.done)
    <2>1. PICK G \in Seq(Events) : G = F \o A /\ Written(G, h, a.done)
        BY <1>3 DEF Written
    <2>2. CASE c.text = None
        <3>1. T = <<>> /\ k = h
            BY <2>2
        <3> HIDE DEF T, k
        <3> QED
            BY <2>1, <3>1, ConcatEmptySeq
    <2>3. CASE c.text # None
        <3>1. k = Append(h, c.text) /\ a.done = FALSE
            BY <1>1, <2>3
        <3>2. Written(T, <<c.text>>, FALSE) /\ Heard(T, PieceOf(0)) = <<c.text>>
            BY <1>4, <2>3 DEF Written
        <3>3. h \o <<c.text>> = Append(h, c.text)
            BY AppendIsConcat DEF Values
        <3> HIDE DEF T, k
        <3>4. Written(G \o T, h \o Heard(T, PieceOf(0)), FALSE)
            BY <1>4, <2>1, <3>1, <3>2, WrittenNext
        <3>5. Written(G \o T, k, FALSE)
            BY <3>1, <3>2, <3>3, <3>4
        <3> QED
            BY <2>1, <3>1, <3>5 DEF Written
    <2> QED
        BY <2>2, <2>3
<1>7. d \in Adapters /\ d.started /\ d.done = a.done /\ d.blocks = <<>> /\ d.open = {}
    BY <1>1, WordsAfter
<1>8. WithText(a, c) \in Adapters
    <2>1. Append(a.text, c.text) \in Seq(Nat)
        BY <1>1, AppendProperties DEF Adapters
    <2> QED
        BY <1>1, <2>1 DEF WithText, Adapters
<1>9. C \in Seq(Events)
    <2>1. PICK b \in Adapters : b = WithText(a, c)
        BY <1>8
    <2>2. ResponsesClosing(b) \in Seq(Events)
        BY WordsClosed
    <2>3. <<>> \in Seq(Events)
        OBVIOUS
    <2> QED
        BY <2>1, <2>2, <2>3
<1> HIDE DEF A, T, d, C, k
<1>10. F \o ((A \o T) \o C) = ((F \o A) \o T) \o C
    <2>1. PICK P \in Seq(Events) : P = A \o T
        BY <1>3, <1>4, ConcatProperties
    <2>2. Associates(F, P, C) /\ Associates(F, A, T)
        BY <1>3, <1>4, <1>9, <2>1, Associative
    <2> QED
        BY <2>1, <2>2 DEF Associates
<1>11. PICK G \in Seq(Events) : G = (F \o A) \o T /\ Written(G, k, a.done)
    BY <1>6
<1>12. ResponsesEvents(a, c) \in Seq(Events) /\ F \o ResponsesEvents(a, c) = G \o C
    <2>1. PICK P \in Seq(Events) : P = A \o T
        BY <1>3, <1>4, ConcatProperties
    <2>2. P \o C \in Seq(Events)
        BY <1>9, ConcatProperties
    <2> QED
        BY <1>2, <1>10, <1>11, <2>1, <2>2
<1>13. CASE Closes(a, c)
    <2>1. PICK Q : Q = ResponsesClosing(WithText(a, c))
        OBVIOUS
    <2>2. Q \in Seq(Events) /\ Written(Q, <<>>, TRUE) /\ Heard(Q, PieceOf(0)) = <<>>
        BY <1>8, <2>1, WordsClosed DEF Written
    <2>3. Written(G, k, FALSE)
        BY <1>1, <1>11, <1>13 DEF Closes
    <2>4. Written(G \o Q, k \o Heard(Q, PieceOf(0)), TRUE)
        BY <1>5, <2>2, <2>3, WrittenNext
    <2>5. k \o Heard(Q, PieceOf(0)) = k
        BY <1>5, <2>2, ConcatEmptySeq
    <2>6. C = Q
        BY <1>13, <2>1 DEF C
    <2>7. PICK b : b = Closed(d)
        OBVIOUS
    <2>8. AfterWords(a, c) = b
        BY <1>13, <2>7 DEF AfterWords, d
    <2>9. b \in Adapters /\ b.started /\ b.done /\ b.done \in BOOLEAN /\ b.blocks = <<>> /\ b.open = {}
        BY <1>7, <2>7, ClosedFacts DEF Adapters
    <2>10. WrittenBy(G \o C, k, b)
        BY <2>4, <2>5, <2>6, <2>9 DEF WrittenBy
    <2> QED
        BY <1>12, <2>8, <2>10 DEF k
<1>14. CASE ~Closes(a, c)
    <2>1. C = <<>>
        BY <1>14 DEF C
    <2>2. G \o C = G
        BY <2>1, ConcatEmptySeq
    <2>3. AfterWords(a, c) = d
        BY <1>14 DEF AfterWords, d
    <2>4. WrittenBy(G, k, d)
        BY <1>7, <1>11 DEF WrittenBy
    <2> QED
        BY <1>12, <2>2, <2>3, <2>4 DEF k
<1> QED
    BY <1>13, <1>14

LEMMA WordsEnd ==
    ASSUME NEW F, NEW h \in Seq(Values), NEW a, WrittenBy(F, h, a)
    PROVE  LET Q == IF a.started /\ ~a.done THEN ResponsesClosing(a) ELSE <<>>
           IN  Q \in Seq(Events) /\ WrittenBy(F \o Q, h, IF a.started THEN Closed(a) ELSE a)
<1>1. a \in Adapters /\ a.done \in BOOLEAN
    BY DEF WrittenBy, Adapters
<1>2. F \in Seq(Events)
    BY DEF WrittenBy, Written
<1>3. F \o <<>> = F
    BY <1>2, ConcatEmptySeq
<1>4. PICK d : d = Closed(a)
    OBVIOUS
<1>5. /\ d \in Adapters /\ d.started = a.started /\ d.done = TRUE
      /\ d.blocks = a.blocks /\ d.open = {}
    BY <1>1, <1>4, ClosedFacts DEF Adapters
<1>6. CASE ~a.started
    BY <1>3, <1>6
<1>7. CASE a.started /\ a.done
    <2>1. WrittenBy(F, h, d)
        BY <1>1, <1>5, <1>7 DEF WrittenBy
    <2> QED
        BY <1>3, <1>4, <1>7, <2>1
<1>8. CASE a.started /\ ~a.done
    <2>1. PICK Q : Q = ResponsesClosing(a)
        OBVIOUS
    <2>2. Q \in Seq(Events) /\ Written(Q, <<>>, TRUE) /\ Heard(Q, PieceOf(0)) = <<>>
        BY <1>1, <2>1, WordsClosed DEF Written
    <2>3. Written(F, h, FALSE)
        BY <1>1, <1>8 DEF WrittenBy
    <2>4. Written(F \o Q, h \o Heard(Q, PieceOf(0)), TRUE)
        BY <2>2, <2>3, WrittenNext
    <2>5. h \o Heard(Q, PieceOf(0)) = h
        BY <2>2, ConcatEmptySeq
    <2>6. WrittenBy(F \o Q, h, d)
        BY <1>5, <1>8, <2>4, <2>5 DEF WrittenBy
    <2> QED
        BY <1>4, <1>8, <2>1, <2>2, <2>6
<1> QED
    BY <1>6, <1>7, <1>8

-----------------------------------------------------------------------------
(* What the model said, as an account.                                     *)

Entries == [kind : {"text", "call", "args", "unread"}, call : Nat]

Sayings(s) ==
    [i \in Nat |-> IF i = 0 THEN Given(TextNumbers(s)) ELSE Given(ArgsNumbers(s, i))]

\* The places of the entries with the mark g.
Marks == [Entries -> BOOLEAN]

Marked(s, g) == [i \in DOMAIN s |-> IF g[s[i]] THEN i ELSE None]

IsText    == [e \in Entries |-> e.kind = "text"]
IsArgs(n) == [e \in Entries |-> e.kind = "args" /\ e.call = n]

LEMMA MarkedType ==
    ASSUME NEW s \in Seq(Entries), NEW g \in Marks
    PROVE  /\ Marked(s, g) \in Seq(Values) /\ Len(Marked(s, g)) = Len(s)
           /\ \A i \in 1..Len(s) : Marked(s, g)[i] = IF g[s[i]] THEN i ELSE None
<1>1. PICK n \in Nat : n = Len(s) /\ DOMAIN s = 1..n
    BY LenProperties
<1>2. PICK v : v = [i \in 1..n |-> IF g[s[i]] THEN i ELSE None]
    OBVIOUS
<1>3. v = Marked(s, g)
    BY <1>1, <1>2 DEF Marked
<1>4. v \in Seq(Values) /\ Len(v) = n /\ \A i \in 1..n : v[i] = IF g[s[i]] THEN i ELSE None
    <2>1. \A i \in 1..n : (IF g[s[i]] THEN i ELSE None) \in Nat
        BY DEF None
    <2> QED
        BY <1>2, <2>1 DEF Values
<1> QED
    BY <1>1, <1>3, <1>4

LEMMA MarkedNext ==
    ASSUME NEW s \in Seq(Entries), NEW g \in Marks, NEW e \in Entries
    PROVE  /\ Given(Marked(s, g)) \in Seq(Values)
           /\ Given(Marked(Append(s, e), g)) =
                  IF g[e] THEN Append(Given(Marked(s, g)), Len(s) + 1) ELSE Given(Marked(s, g))
<1>1. PICK n \in Nat : n = Len(s)
    BY LenProperties
<1>2. PICK v \in Seq(Values) :
          /\ v = Marked(s, g) /\ Len(v) = n
          /\ \A i \in 1..n : v[i] = IF g[s[i]] THEN i ELSE None
    BY <1>1, MarkedType
<1>3. PICK t \in Seq(Entries) :
          t = Append(s, e) /\ Len(t) = n + 1 /\ (\A i \in 1..n : t[i] = s[i]) /\ t[n + 1] = e
    <2>1. /\ Append(s, e) \in Seq(Entries) /\ Len(Append(s, e)) = Len(s) + 1
          /\ \A i \in 1..Len(s) : Append(s, e)[i] = s[i]
          /\ Append(s, e)[Len(s) + 1] = e
        BY AppendProperties
    <2> QED
        BY <1>1, <2>1
<1>4. PICK w \in Seq(Values) :
          /\ w = Marked(t, g) /\ Len(w) = n + 1
          /\ \A i \in 1..(n + 1) : w[i] = IF g[t[i]] THEN i ELSE None
    <2>1. /\ Marked(t, g) \in Seq(Values) /\ Len(Marked(t, g)) = Len(t)
          /\ \A i \in 1..Len(t) : Marked(t, g)[i] = IF g[t[i]] THEN i ELSE None
        BY MarkedType
    <2> QED
        BY <1>3, <2>1
<1>5. PICK x \in Values : x = IF g[e] THEN n + 1 ELSE None
    BY DEF Values, None
<1>6. w = v \o <<x>>
    <2>1. PICK u : u = Append(v, x)
        OBVIOUS
    <2>2. u \in Seq(Values) /\ Len(u) = n + 1 /\ (\A i \in 1..n : u[i] = v[i]) /\ u[n + 1] = x
        <3>1. /\ Append(v, x) \in Seq(Values) /\ Len(Append(v, x)) = Len(v) + 1
              /\ \A i \in 1..Len(v) : Append(v, x)[i] = v[i]
              /\ Append(v, x)[Len(v) + 1] = x
            BY AppendProperties
        <3> QED
            BY <1>2, <2>1, <3>1
    <2>3. \A i \in 1..(n + 1) : i \in 1..n \/ i = n + 1
        OBVIOUS
    <2>4. n + 1 \in 1..(n + 1) /\ \A i \in 1..n : i \in 1..(n + 1)
        OBVIOUS
    <2>5. \A i \in 1..(n + 1) : w[i] = u[i]
        BY <1>2, <1>3, <1>4, <1>5, <2>2, <2>3, <2>4
    <2>6. w = u
        BY <1>4, <2>2, <2>5, SeqEqual
    <2>7. Append(v, x) = v \o <<x>>
        BY AppendIsConcat
    <2> QED
        BY <2>1, <2>6, <2>7
<1>7. <<x>> \in Seq(Values) /\ Len(<<x>>) = 1 /\ <<x>>[1] = x
    OBVIOUS
<1>8. PICK q \in Seq(Values) : q = <<x>> /\ Len(q) = 1 /\ q[1] = x
    BY <1>7
<1>9. Given(w) = Given(v) \o Given(q)
    BY <1>6, <1>8, GivenConcat
<1>10. PICK h \in Seq(Values) : h = Given(v)
    BY GivenType
<1>11. CASE g[e]
    <2>1. x = n + 1 /\ x # None
        BY <1>5, <1>11 DEF None
    <2>2. 1 \in 1..Len(q) /\ q[1] # None /\ \A j \in 1..Len(q) : q[j] # None => j = 1
        BY <1>8, <2>1
    <2>3. Given(q) = <<q[1]>>
        BY <2>2, GivenOne
    <2>4. h \o <<x>> = Append(h, x)
        BY AppendIsConcat
    <2> QED
        BY <1>1, <1>2, <1>3, <1>4, <1>8, <1>9, <1>10, <1>11, <2>1, <2>3, <2>4
<1>12. CASE ~g[e]
    <2>1. DOMAIN q = 1..1 /\ \A j \in 1..1 : q[j] = None
        BY <1>5, <1>8, <1>12, LenProperties
    <2>2. Given(q) = <<>>
        BY <2>1, GivenNothing
    <2>3. h \o <<>> = h
        BY ConcatEmptySeq
    <2> QED
        BY <1>2, <1>3, <1>4, <1>9, <1>10, <1>12, <2>2, <2>3
<1> QED
    BY <1>11, <1>12

LEMMA SayingsFacts ==
    ASSUME NEW s \in Seq(Entries)
    PROVE  /\ Sayings(s) \in Accounts
           /\ Sayings(s)[0] = Given(TextNumbers(s))
           /\ \A i \in Nat \ {0} : Sayings(s)[i] = Given(ArgsNumbers(s, i))
<1>1. IsText \in Marks /\ \A i \in Nat : IsArgs(i) \in Marks
    BY DEF IsText, IsArgs, Marks
<1>2. \A g \in Marks : Given(Marked(s, g)) \in Seq(Values)
    <2> SUFFICES ASSUME NEW g \in Marks PROVE Given(Marked(s, g)) \in Seq(Values)
        OBVIOUS
    <2>1. PICK v \in Seq(Values) : v = Marked(s, g)
        BY MarkedType
    <2> QED
        BY <2>1, GivenType
<1>3. DOMAIN s = 1..Len(s) /\ \A i \in DOMAIN s : s[i] \in Entries
    BY LenProperties
<1>4. Marked(s, IsText) = TextNumbers(s)
    BY <1>3 DEF Marked, IsText, TextNumbers
<1>5. \A n \in Nat : Marked(s, IsArgs(n)) = ArgsNumbers(s, n)
    BY <1>3 DEF Marked, IsArgs, ArgsNumbers
<1> QED
    BY <1>1, <1>2, <1>4, <1>5 DEF Sayings, Accounts

LEMMA SayingsNext ==
    ASSUME NEW s \in Seq(Entries), NEW e \in Entries, NEW n \in Nat, n = Len(s) + 1
    PROVE  /\ e.kind = "text" => Sayings(Append(s, e)) = Add(Sayings(s), 0, n)
           /\ e.kind \in {"call", "unread"} => Sayings(Append(s, e)) = Sayings(s)
           /\ e.kind = "args" /\ e.call # 0 =>
                 Sayings(Append(s, e)) = Add(Sayings(s), e.call, n)
<1>1. IsText \in Marks /\ \A i \in Nat : IsArgs(i) \in Marks
    BY DEF IsText, IsArgs, Marks
<1>2. /\ IsText[e] <=> e.kind = "text"
      /\ \A i \in Nat : IsArgs(i)[e] <=> (e.kind = "args" /\ e.call = i)
    BY DEF IsText, IsArgs
<1>3. \A u \in Seq(Entries) : /\ Marked(u, IsText) = TextNumbers(u)
                              /\ \A i \in Nat : Marked(u, IsArgs(i)) = ArgsNumbers(u, i)
    <2> SUFFICES ASSUME NEW u \in Seq(Entries)
                 PROVE  /\ Marked(u, IsText) = TextNumbers(u)
                        /\ \A i \in Nat : Marked(u, IsArgs(i)) = ArgsNumbers(u, i)
        OBVIOUS
    <2>1. \A i \in DOMAIN u : u[i] \in Entries
        OBVIOUS
    <2> QED
        BY <2>1 DEF Marked, IsText, IsArgs, TextNumbers, ArgsNumbers
<1>4. PICK t \in Seq(Entries) : t = Append(s, e)
    BY AppendProperties
<1>5. PICK H \in Accounts, G \in Accounts : H = Sayings(s) /\ G = Sayings(t)
    BY SayingsFacts
<1>6. \A g \in Marks : Given(Marked(t, g)) = IF g[e] THEN Append(Given(Marked(s, g)), n)
                                              ELSE Given(Marked(s, g))
    BY <1>4, MarkedNext
<1>7. /\ H[0] = Given(Marked(s, IsText)) /\ G[0] = Given(Marked(t, IsText))
      /\ \A i \in Nat \ {0} : H[i] = Given(Marked(s, IsArgs(i))) /\ G[i] = Given(Marked(t, IsArgs(i)))
    BY <1>3, <1>5, SayingsFacts
<1>8. /\ G[0] = IF e.kind = "text" THEN Append(H[0], n) ELSE H[0]
      /\ \A i \in Nat \ {0} : G[i] = IF e.kind = "args" /\ e.call = i THEN Append(H[i], n) ELSE H[i]
    BY <1>1, <1>2, <1>6, <1>7
<1>9. \A A \in Accounts : (\A i \in Nat : A[i] = G[i]) => A = G
    BY DEF Accounts
<1>10. e.call \in Nat /\ 0 \in Nat
    BY DEF Entries
<1>11. CASE e.kind = "text"
    <2>1. Add(H, 0, n) \in Accounts
          /\ \A j \in Nat : Add(H, 0, n)[j] = IF j = 0 THEN Append(H[0], n) ELSE H[j]
        BY <1>10, AddFacts
    <2>2. \A j \in Nat : Add(H, 0, n)[j] = G[j]
        BY <1>8, <1>11, <2>1
    <2> QED
        BY <1>4, <1>5, <1>9, <1>11, <2>1, <2>2
<1>12. CASE e.kind \in {"call", "unread"}
    <2>1. \A j \in Nat : H[j] = G[j]
        BY <1>8, <1>12
    <2> QED
        BY <1>4, <1>5, <1>9, <1>12, <2>1
<1>13. CASE e.kind = "args" /\ e.call # 0
    <2>1. PICK b \in Nat \ {0} : b = e.call
        BY <1>10, <1>13
    <2>2. Add(H, b, n) \in Accounts
          /\ \A j \in Nat : Add(H, b, n)[j] = IF j = b THEN Append(H[b], n) ELSE H[j]
        BY AddFacts
    <2>3. \A j \in Nat : Add(H, b, n)[j] = G[j]
        BY <1>8, <1>13, <2>1, <2>2
    <2>4. Add(H, b, n) = G
        BY <1>9, <2>2, <2>3
    <2> QED
        BY <1>4, <1>5, <1>13, <2>1, <2>4
<1> QED
    BY <1>11, <1>12, <1>13

LEMMA CallsFacts ==
    ASSUME NEW s \in Seq(Entries), NEW e \in Entries
    PROVE  /\ Calls(s) \in Nat /\ Calls(s) =< Len(s)
           /\ Calls(Append(s, e)) = IF e.kind = "call" THEN Calls(s) + 1 ELSE Calls(s)
<1>1. PICK n \in Nat : n = Len(s) /\ DOMAIN s = 1..n
    BY LenProperties
<1> DEFINE K(u) == {i \in DOMAIN u : u[i].kind = "call"}
<1>2. PICK t \in Seq(Entries) :
          t = Append(s, e) /\ DOMAIN t = 1..(n + 1) /\ (\A i \in 1..n : t[i] = s[i]) /\ t[n + 1] = e
    <2>1. /\ Append(s, e) \in Seq(Entries) /\ Len(Append(s, e)) = Len(s) + 1
          /\ \A i \in 1..Len(s) : Append(s, e)[i] = s[i]
          /\ Append(s, e)[Len(s) + 1] = e
        BY AppendProperties
    <2>2. DOMAIN Append(s, e) = 1..(n + 1)
        BY <1>1, <2>1, LenProperties
    <2> QED
        BY <1>1, <2>1, <2>2
<1>3. K(s) \subseteq 1..n
    BY <1>1
<1>4. IsFiniteSet(1..n) /\ Cardinality(1..n) = n
    BY FS_Interval
<1>5. /\ IsFiniteSet(K(s)) /\ Cardinality(K(s)) \in Nat /\ Cardinality(K(s)) =< n
    BY <1>3, <1>4, FS_Subset, FS_CardinalityType
<1>6. \A i \in 1..(n + 1) : i \in 1..n \/ i = n + 1
    OBVIOUS
<1>7. CASE e.kind = "call"
    <2>1. K(t) = K(s) \cup {n + 1}
        BY <1>1, <1>2, <1>6, <1>7
    <2>2. n + 1 \notin K(s)
        BY <1>1
    <2>3. Cardinality(K(s) \cup {n + 1}) = Cardinality(K(s)) + 1
        BY <1>5, <2>2, FS_AddElement
    <2> QED
        BY <1>1, <1>2, <1>5, <1>7, <2>1, <2>3 DEF Calls
<1>8. CASE e.kind # "call"
    <2>1. K(t) = K(s)
        BY <1>1, <1>2, <1>6, <1>8
    <2> QED
        BY <1>1, <1>2, <1>5, <1>8, <2>1 DEF Calls
<1> QED
    BY <1>7, <1>8

-----------------------------------------------------------------------------
(* A chunk takes the account from H with n calls to G with k, at an adapter *)
(* that has not closed its message unless the chunk adds nothing.           *)

Speaks(c, H, n, G, k, a) ==
    \/ /\ \E p \in 1..MaxSaid : c = Text(p) /\ G = Add(H, 0, p)
       /\ k = n /\ ~a.done
    \/ c = Tool(n, n + 1, None) /\ n < MaxSaid /\ G = H /\ k = n + 1 /\ ~a.done
    \/ /\ \E b \in 1..n, p \in 1..MaxSaid : c = Tool(b - 1, None, p) /\ G = Add(H, b, p)
       /\ k = n /\ ~a.done
    \/ c \in Chunks /\ c.text = None /\ c.tool = NoTool /\ G = H /\ k = n

LEMMA SpeaksChunk ==
    ASSUME NEW c, NEW H \in Accounts, NEW n \in 0..MaxSaid, NEW G, NEW k, NEW a,
           Speaks(c, H, n, G, k, a)
    PROVE  /\ c \in Chunks /\ c.text \in Nat /\ (~a.done \/ c.text = None)
           /\ G[0] = IF c.text = None THEN H[0] ELSE Append(H[0], c.text)
<1>0. /\ n \in Nat /\ MaxSaid \in Nat /\ 0 \in Nat /\ None \in 0..MaxSaid
      /\ H \in Accounts
    BY StreamsAssumption DEF None
<1>1. ASSUME NEW p \in 1..MaxSaid, c = Text(p), G = Add(H, 0, p), ~a.done
      PROVE  /\ c \in Chunks /\ c.text \in Nat /\ (~a.done \/ c.text = None)
             /\ G[0] = IF c.text = None THEN H[0] ELSE Append(H[0], c.text)
    <2>1. c \in Chunks /\ c.text = p /\ p \in Nat /\ p # None
        BY <1>0, <1>1, TextChunkFacts DEF None
    <2>2. \A j \in Nat : Add(H, 0, p)[j] = IF j = 0 THEN Append(H[0], p) ELSE H[j]
        BY <1>0, <2>1, AddFacts
    <2> QED
        BY <1>0, <1>1, <2>1, <2>2
<1>2. ASSUME c = Tool(n, n + 1, None), n < MaxSaid, G = H, ~a.done
      PROVE  /\ c \in Chunks /\ c.text \in Nat /\ (~a.done \/ c.text = None)
             /\ G[0] = IF c.text = None THEN H[0] ELSE Append(H[0], c.text)
    <2>1. n \in 0..MaxSaid /\ n + 1 \in 0..MaxSaid
        BY <1>0, <1>2
    <2>2. c \in Chunks /\ c.text = None
        BY <1>0, <1>2, <2>1, ToolChunkFacts
    <2> QED
        BY <1>2, <2>2 DEF None
<1>3. ASSUME NEW b \in 1..n, NEW p \in 1..MaxSaid, c = Tool(b - 1, None, p),
             G = Add(H, b, p), ~a.done
      PROVE  /\ c \in Chunks /\ c.text \in Nat /\ (~a.done \/ c.text = None)
             /\ G[0] = IF c.text = None THEN H[0] ELSE Append(H[0], c.text)
    <2>1. b - 1 \in 0..MaxSaid /\ p \in 0..MaxSaid /\ b \in Nat /\ b # 0 /\ p \in Nat
        BY <1>0
    <2>2. c \in Chunks /\ c.text = None
        BY <1>0, <1>3, <2>1, ToolChunkFacts
    <2>3. \A j \in Nat : Add(H, b, p)[j] = IF j = b THEN Append(H[b], p) ELSE H[j]
        BY <1>0, <2>1, AddFacts
    <2>4. G[0] = H[0]
        BY <1>0, <1>3, <2>1, <2>3
    <2> QED
        BY <2>2, <2>4 DEF None
<1>4. ASSUME c \in Chunks, c.text = None, G = H
      PROVE  /\ c \in Chunks /\ c.text \in Nat /\ (~a.done \/ c.text = None)
             /\ G[0] = IF c.text = None THEN H[0] ELSE Append(H[0], c.text)
    BY <1>4 DEF None
<1> QED
    BY <1>1, <1>2, <1>3, <1>4 DEF Speaks

LEMMA SpeaksKept ==
    ASSUME NEW P, NEW c, NEW H \in Accounts, NEW n \in 0..MaxSaid, NEW G, NEW k, NEW a,
           Kept(P, H, n), Speaks(c, H, n, G, k, a)
    PROVE  Kept(Append(P, c), G, k)
<1>0. n \in Nat
    BY StreamsAssumption
<1>1. ASSUME NEW p \in 1..MaxSaid, c = Text(p), G = Add(H, 0, p), k = n
      PROVE  Kept(Append(P, c), G, k)
    BY <1>0, <1>1, KeptText
<1>2. ASSUME c = Tool(n, n + 1, None), n < MaxSaid, G = H, k = n + 1
      PROVE  Kept(Append(P, c), G, k)
    <2>1. n \in 0..(MaxSaid - 1)
        BY <1>2, StreamsAssumption
    <2> QED
        BY <1>2, <2>1, KeptCall
<1>3. ASSUME NEW b \in 1..n, NEW p \in 1..MaxSaid, c = Tool(b - 1, None, p),
             G = Add(H, b, p), k = n
      PROVE  Kept(Append(P, c), G, k)
    BY <1>3, KeptArgs
<1>4. ASSUME c \in Chunks, c.text = None, c.tool = NoTool, G = H, k = n
      PROVE  Kept(Append(P, c), G, k)
    BY <1>0, <1>4, KeptOther
<1> QED
    BY <1>1, <1>2, <1>3, <1>4 DEF Speaks

\* The chunk as the audit reads it.
Read(c) == IF Splits(c) THEN Empty ELSE c

LEMMA ExtractedNext ==
    ASSUME NEW P \in Seq(Chunks), NEW c \in Chunks
    PROVE  Extracted(Append(P, c)) = Append(Extracted(P), Read(c))
<1>1. PICK len \in Nat : len = Len(P) /\ DOMAIN P = 1..len
    BY LenProperties
<1>2. PICK Q \in Seq(Chunks) : /\ Q = Append(P, c) /\ DOMAIN Q = 1..(len + 1)
                               /\ (\A j \in 1..len : Q[j] = P[j]) /\ Q[len + 1] = c
    <2>1. /\ Append(P, c) \in Seq(Chunks) /\ Len(Append(P, c)) = Len(P) + 1
          /\ \A j \in 1..Len(P) : Append(P, c)[j] = P[j]
          /\ Append(P, c)[Len(P) + 1] = c
        BY AppendProperties
    <2>2. DOMAIN Append(P, c) = 1..(len + 1)
        BY <1>1, <2>1, LenProperties
    <2> QED
        BY <1>1, <2>1, <2>2
<1>3. \A d \in Chunks : Read(d) \in Chunks
    BY EmptyChunk DEF Read
<1>4. PICK X \in Seq(Chunks) : X = Extracted(P) /\ Len(X) = len /\ \A j \in 1..len : X[j] = Read(P[j])
    <2>1. Extracted(P) = [j \in 1..len |-> Read(P[j])]
        BY <1>1 DEF Extracted, Read
    <2>2. \A j \in 1..len : Read(P[j]) \in Chunks
        BY <1>1, <1>3
    <2>3. [j \in 1..len |-> Read(P[j])] \in Seq(Chunks)
        BY <2>2
    <2> QED
        BY <2>1, <2>3
<1>5. PICK Y \in Seq(Chunks) :
          Y = Extracted(Q) /\ Len(Y) = len + 1 /\ \A j \in 1..(len + 1) : Y[j] = Read(Q[j])
    <2>1. Extracted(Q) = [j \in 1..(len + 1) |-> Read(Q[j])]
        BY <1>2 DEF Extracted, Read
    <2>2. \A j \in 1..(len + 1) : Read(Q[j]) \in Chunks
        BY <1>2, <1>3
    <2>3. [j \in 1..(len + 1) |-> Read(Q[j])] \in Seq(Chunks)
        BY <2>2
    <2> QED
        BY <2>1, <2>3
<1>6. PICK Z \in Seq(Chunks) : /\ Z = Append(X, Read(c)) /\ Len(Z) = len + 1
                               /\ (\A j \in 1..len : Z[j] = X[j]) /\ Z[len + 1] = Read(c)
    <2>1. Read(c) \in Chunks
        BY <1>3
    <2>2. /\ Append(X, Read(c)) \in Seq(Chunks) /\ Len(Append(X, Read(c))) = Len(X) + 1
          /\ \A j \in 1..Len(X) : Append(X, Read(c))[j] = X[j]
          /\ Append(X, Read(c))[Len(X) + 1] = Read(c)
        BY <2>1, AppendProperties
    <2> QED
        BY <1>4, <2>2
<1>7. \A j \in 1..(len + 1) : j \in 1..len \/ j = len + 1
    OBVIOUS
<1>8. \A j \in 1..(len + 1) : Y[j] = Z[j]
    BY <1>2, <1>4, <1>5, <1>6, <1>7
<1>9. Y = Z
    BY <1>5, <1>6, <1>8, SeqEqual
<1> QED
    BY <1>2, <1>4, <1>5, <1>6, <1>9

\* The audit keeps the account without the pieces it cannot read.
LEMMA SpeaksExtracted ==
    ASSUME NEW P \in Seq(Chunks), NEW c, NEW H \in Accounts, NEW n \in 0..MaxSaid,
           NEW G, NEW k, NEW a,
           Kept(Extracted(P), Filtered(H), n), Speaks(c, H, n, G, k, a)
    PROVE  Kept(Extracted(Append(P, c)), Filtered(G), k)
<1>0. /\ n \in Nat /\ MaxSaid \in Nat /\ 0 \in Nat /\ None \in 0..MaxSaid
      /\ None \notin Separated
    BY StreamsAssumption DEF None
<1>1. PICK F \in Accounts : F = Filtered(H)
    BY FilteredFacts
<1>2. PICK d : d = Read(c)
    OBVIOUS
<1>3. ~NoAdapter.done
    BY DEF NoAdapter
<1>4. Empty \in Chunks /\ Empty.text = None /\ Empty.tool = NoTool
    BY EmptyChunk DEF Empty
<1>5. ASSUME NEW p \in 1..MaxSaid, c = Text(p), G = Add(H, 0, p), k = n
      PROVE  Speaks(d, F, n, Filtered(G), k, NoAdapter)
    <2>1. c.text = p /\ c.tool.args = None /\ p \in Nat /\ p # None
        BY <1>0, <1>5, TextChunkFacts DEF None, NoTool
    <2>2. Filtered(G) = IF p \in Separated THEN F ELSE Add(F, 0, p)
        BY <1>0, <1>1, <1>5, <2>1, FilteredNext
    <2>3. Splits(c) <=> p \in Separated
        BY <1>0, <2>1 DEF Splits
    <2>4. CASE p \in Separated
        BY <1>2, <1>4, <1>5, <2>2, <2>3, <2>4 DEF Read, Speaks
    <2>5. CASE p \notin Separated
        BY <1>2, <1>3, <1>5, <2>2, <2>3, <2>5 DEF Read, Speaks
    <2> QED
        BY <2>4, <2>5
<1>6. ASSUME c = Tool(n, n + 1, None), n < MaxSaid, G = H, k = n + 1
      PROVE  Speaks(d, F, n, Filtered(G), k, NoAdapter)
    <2>1. n \in 0..MaxSaid /\ n + 1 \in 0..MaxSaid
        BY <1>0, <1>6
    <2>2. c.text = None /\ c.tool.args = None
        BY <1>0, <1>6, <2>1, ToolChunkFacts
    <2>3. ~Splits(c)
        BY <1>0, <2>2 DEF Splits
    <2> QED
        BY <1>1, <1>2, <1>3, <1>6, <2>3 DEF Read, Speaks
<1>7. ASSUME NEW b \in 1..n, NEW p \in 1..MaxSaid, c = Tool(b - 1, None, p),
             G = Add(H, b, p), k = n
      PROVE  Speaks(d, F, n, Filtered(G), k, NoAdapter)
    <2>1. b - 1 \in 0..MaxSaid /\ p \in 0..MaxSaid /\ b \in Nat /\ p \in Nat /\ p # None
        BY <1>0 DEF None
    <2>2. c.text = None /\ c.tool.args = p
        BY <1>0, <1>7, <2>1, ToolChunkFacts
    <2>3. Filtered(G) = IF p \in Separated THEN F ELSE Add(F, b, p)
        BY <1>1, <1>7, <2>1, FilteredNext
    <2>4. Splits(c) <=> p \in Separated
        BY <1>0, <2>2 DEF Splits
    <2>5. CASE p \in Separated
        BY <1>2, <1>4, <1>7, <2>3, <2>4, <2>5 DEF Read, Speaks
    <2>6. CASE p \notin Separated
        BY <1>2, <1>3, <1>7, <2>3, <2>4, <2>6 DEF Read, Speaks
    <2> QED
        BY <2>5, <2>6
<1>8. ASSUME c \in Chunks, c.text = None, c.tool = NoTool, G = H, k = n
      PROVE  Speaks(d, F, n, Filtered(G), k, NoAdapter)
    <2>1. ~Splits(c)
        BY <1>0, <1>8 DEF Splits, NoTool
    <2> QED
        BY <1>1, <1>2, <1>8, <2>1 DEF Read, Speaks
<1>9. Speaks(d, F, n, Filtered(G), k, NoAdapter)
    BY <1>5, <1>6, <1>7, <1>8 DEF Speaks
<1>10. Kept(Append(Extracted(P), d), Filtered(G), k)
    BY <1>1, <1>9, SpeaksKept
<1>11. c \in Chunks
    BY SpeaksChunk
<1> QED
    BY <1>2, <1>10, <1>11, ExtractedNext

LEMMA SpeaksTold ==
    ASSUME NEW F, NEW c, NEW H \in Accounts, NEW n \in 0..MaxSaid, NEW G, NEW k, NEW a,
           ToldBy(F, H, n, a), Speaks(c, H, n, G, k, a)
    PROVE  /\ MessagesEvents(a, c) \in Seq(Events)
           /\ ToldBy(F \o MessagesEvents(a, c), G, k, AfterChunk(a, c))
<1>0. n \in Nat
    BY StreamsAssumption
<1>1. ASSUME NEW p \in 1..MaxSaid, c = Text(p), G = Add(H, 0, p), k = n, ~a.done
      PROVE  /\ MessagesEvents(a, c) \in Seq(Events)
             /\ ToldBy(F \o MessagesEvents(a, c), G, k, AfterChunk(a, c))
    BY <1>0, <1>1, MessagesText
<1>2. ASSUME c = Tool(n, n + 1, None), n < MaxSaid, G = H, k = n + 1, ~a.done
      PROVE  /\ MessagesEvents(a, c) \in Seq(Events)
             /\ ToldBy(F \o MessagesEvents(a, c), G, k, AfterChunk(a, c))
    <2>1. n \in 0..(MaxSaid - 1)
        BY <1>2, StreamsAssumption
    <2> QED
        BY <1>2, <2>1, MessagesCall
<1>3. ASSUME NEW b \in 1..n, NEW p \in 1..MaxSaid, c = Tool(b - 1, None, p),
             G = Add(H, b, p), k = n, ~a.done
      PROVE  /\ MessagesEvents(a, c) \in Seq(Events)
             /\ ToldBy(F \o MessagesEvents(a, c), G, k, AfterChunk(a, c))
    BY <1>3, MessagesArgs
<1>4. ASSUME c.text = None, c.tool = NoTool, G = H, k = n
      PROVE  /\ MessagesEvents(a, c) \in Seq(Events)
             /\ ToldBy(F \o MessagesEvents(a, c), G, k, AfterChunk(a, c))
    BY <1>0, <1>4, MessagesOther
<1> QED
    BY <1>1, <1>2, <1>3, <1>4 DEF Speaks

LEMMA SpeaksWritten ==
    ASSUME NEW F, NEW c, NEW H \in Accounts, NEW n \in 0..MaxSaid, NEW G, NEW k, NEW a,
           WrittenBy(F, H[0], a), Speaks(c, H, n, G, k, a)
    PROVE  /\ ResponsesEvents(a, c) \in Seq(Events)
           /\ WrittenBy(F \o ResponsesEvents(a, c), G[0], AfterWords(a, c))
<1>1. /\ c.text \in Nat /\ (~a.done \/ c.text = None)
      /\ G[0] = IF c.text = None THEN H[0] ELSE Append(H[0], c.text)
    BY SpeaksChunk
<1>2. PICK h \in Seq(Values) : h = H[0]
    BY DEF Accounts
<1>3. WrittenBy(F, h, a)
    BY <1>2
<1>4. /\ ResponsesEvents(a, c) \in Seq(Events)
      /\ WrittenBy(F \o ResponsesEvents(a, c),
                   IF c.text = None THEN h ELSE Append(h, c.text), AfterWords(a, c))
    BY <1>1, <1>3, WordsStep
<1> QED
    BY <1>1, <1>2, <1>4

-----------------------------------------------------------------------------
(* What the generator has written, in each protocol.                       *)

Wire == Chunks \cup Events \cup {Event("DONE")}

\* F is all that is written for the account H with n calls and the chunks P;
\* e: the closing as well.
Serves(cl, a, P, F, H, n, e) ==
    /\ cl = "chat" => a = NoAdapter /\ F = IF e THEN Append(P, Event("DONE")) ELSE P
    /\ cl = "messages" => ToldBy(F, H, n, a)
    /\ cl = "responses" => WrittenBy(F, H[0], a)
    /\ e => ~a.started \/ a.done

LEMMA EventsOnWire == \A s \in Seq(Events) : s \in Seq(Wire)
<1>1. Events \subseteq Wire
    BY DEF Wire
<1> QED
    BY <1>1

LEMMA ServesNothing ==
    ASSUME NEW cl PROVE Serves(cl, NoAdapter, <<>>, <<>>, Nothing, 0, FALSE)
<1>1. NoAdapter \in Adapters
    BY DEF NoAdapter, Adapters
<1>2. Indexed(0) = <<>> /\ 1..0 = {}
    BY DEF Indexed
<1>3. Writes(NoAdapter, 0)
    BY <1>1, <1>2 DEF Writes, OpenFor, NoAdapter
<1>4. ToldBy(<<>>, Nothing, 0, NoAdapter)
    BY <1>3 DEF ToldBy, NoAdapter
<1>5. Nothing[0] = <<>>
    BY DEF Nothing
<1>6. WrittenBy(<<>>, Nothing[0], NoAdapter)
    BY <1>1, <1>5 DEF WrittenBy, NoAdapter
<1> QED
    BY <1>4, <1>6 DEF Serves

\* The generator goes on with a chunk.
LEMMA ServesChunk ==
    ASSUME client \in Clients,
           NEW a, NEW P \in Seq(Chunks), NEW F, NEW H \in Accounts, NEW n \in 0..MaxSaid,
           Serves(client, a, P, F, H, n, FALSE),
           NEW c, NEW G, NEW k, Speaks(c, H, n, G, k, a)
    PROVE  /\ EventsFor(a, c) \in Seq(Wire)
           /\ Serves(client, AdapterAfter(a, c), Append(P, c), F \o EventsFor(a, c), G, k, FALSE)
<1>0. c \in Chunks
    BY SpeaksChunk
<1>1. CASE client = "chat"
    <2>1. EventsFor(a, c) = <<c>> /\ AdapterAfter(a, c) = a
        BY <1>1 DEF EventsFor, AdapterAfter
    <2>2. a = NoAdapter /\ F = P
        BY <1>1 DEF Serves
    <2>3. P \o <<c>> = Append(P, c)
        BY <1>0, AppendIsConcat
    <2>4. c \in Wire
        BY <1>0 DEF Wire
    <2>5. <<c>> \in Seq(Wire)
        BY <2>4
    <2> QED
        BY <1>1, <2>1, <2>2, <2>3, <2>5 DEF Serves
<1>2. CASE client = "messages"
    <2>1. EventsFor(a, c) = MessagesEvents(a, c)
        BY <1>2 DEF EventsFor
    <2>2. AdapterAfter(a, c) = AfterChunk(a, c)
        BY <1>2 DEF AdapterAfter, AfterChunk, Started
    <2>3. ToldBy(F, H, n, a)
        BY <1>2 DEF Serves
    <2>4. /\ MessagesEvents(a, c) \in Seq(Events)
          /\ ToldBy(F \o MessagesEvents(a, c), G, k, AfterChunk(a, c))
        BY <2>3, SpeaksTold
    <2> QED
        BY <1>2, <2>1, <2>2, <2>4, EventsOnWire DEF Serves
<1>3. CASE client = "responses"
    <2>1. EventsFor(a, c) = ResponsesEvents(a, c)
        BY <1>3 DEF EventsFor
    <2>2. AdapterAfter(a, c) = AfterWords(a, c)
        BY <1>3 DEF AdapterAfter, AfterWords, Started
    <2>3. WrittenBy(F, H[0], a)
        BY <1>3 DEF Serves
    <2>4. /\ ResponsesEvents(a, c) \in Seq(Events)
          /\ WrittenBy(F \o ResponsesEvents(a, c), G[0], AfterWords(a, c))
        BY <2>3, SpeaksWritten
    <2> QED
        BY <1>3, <2>1, <2>2, <2>4, EventsOnWire DEF Serves
<1> QED
    BY <1>1, <1>2, <1>3, StreamsAssumption

\* And it closes when the upstream ends.
LEMMA ServesEnd ==
    ASSUME client \in Clients,
           NEW a, NEW P \in Seq(Chunks), NEW F, NEW H \in Accounts, NEW n \in Nat,
           Serves(client, a, P, F, H, n, FALSE)
    PROVE  /\ Closing(a) \in Seq(Wire)
           /\ Serves(client, IF a.started THEN Closed(a) ELSE a, P, F \o Closing(a), H, n, TRUE)
<1> DEFINE b == IF a.started THEN Closed(a) ELSE a
<1>1. CASE client = "chat"
    <2>1. a = NoAdapter /\ F = P /\ b = a
        BY <1>1 DEF Serves, NoAdapter
    <2>2. Closing(a) = <<Event("DONE")>>
        BY <1>1 DEF Closing
    <2>3. P \in Seq(Wire) /\ Event("DONE") \in Wire
        <3>1. Chunks \subseteq Wire /\ Event("DONE") \in Wire
            BY DEF Wire
        <3> QED
            BY <3>1
    <2>4. <<Event("DONE")>> \in Seq(Wire)
        BY <2>3
    <2>5. P \o <<Event("DONE")>> = Append(P, Event("DONE"))
        BY <2>3, AppendIsConcat
    <2>6. ~b.started
        BY <2>1 DEF NoAdapter
    <2> QED
        BY <1>1, <2>1, <2>2, <2>4, <2>5, <2>6 DEF Serves
<1>2. CASE client = "messages"
    <2>1. ToldBy(F, H, n, a)
        BY <1>2 DEF Serves
    <2>2. Closing(a) \in Seq(Events) /\ ToldBy(F \o Closing(a), H, n, b)
        BY <1>2, <2>1, MessagesEnd DEF Closing
    <2>3. ~b.started \/ b.done
        <3>1. a \in Adapters
            BY <2>1 DEF ToldBy, Writes
        <3> QED
            BY <3>1, ClosedFacts
    <2> QED
        BY <1>2, <2>2, <2>3, EventsOnWire DEF Serves
<1>3. CASE client = "responses"
    <2>1. PICK h \in Seq(Values) : h = H[0] /\ WrittenBy(F, h, a)
        BY <1>3 DEF Serves, Accounts
    <2>2. Closing(a) \in Seq(Events) /\ WrittenBy(F \o Closing(a), h, b)
        BY <1>3, <2>1, WordsEnd DEF Closing
    <2>3. ~b.started \/ b.done
        <3>1. a \in Adapters
            BY <2>1 DEF WrittenBy
        <3> QED
            BY <3>1, ClosedFacts
    <2> QED
        BY <1>3, <2>1, <2>2, <2>3, EventsOnWire DEF Serves
<1> QED
    BY <1>1, <1>2, <1>3, StreamsAssumption

\* An adapter closes with the chunk that finishes or counts.
LEMMA DoneAfter ==
    ASSUME NEW a, NEW c, AdapterAfter(a, c).done, a \in Adapters, c.text \in Nat
    PROVE  a.done \/ c.finish \/ c.usage
<1> SUFFICES ASSUME ~Closes(a, c) PROVE a.done
    BY DEF Closes
<1>1. PICK b : b = Started(a)
    OBVIOUS
<1>2. b.done = a.done
    BY <1>1, StartedFacts
<1>3. AfterTool(b, c.tool).done = b.done
    BY DEF AfterTool, Opened
<1>4. WithText(b, c).done = b.done
    BY DEF WithText
<1> QED
    BY <1>1, <1>2, <1>3, <1>4 DEF AdapterAfter, Started

-----------------------------------------------------------------------------
(* The invariant.                                                          *)

Natives == [at : {"begin", "body", "counting", "finished", "between", "block"},
            block : -1..MaxBlocks, kind : {"none", "text", "tool"}]

Convs == [tools : [0..MaxBlocks -> Int], next : Nat]

StateInv ==
    /\ upstream \in Upstreams /\ client \in Clients
    /\ phase \in {"open", "closing", "complete", "failed", "gone"}
    /\ native \in Natives /\ conv \in Convs
    /\ said \in Seq(Entries) /\ Len(said) =< MaxSaid
    /\ got \in Seq(Wire) /\ queue \in Seq(Wire)
    /\ phase \in {"complete", "failed", "gone"} => queue = <<>>

\* The calls have dense indices, and the open block has that of the last call.
ConvInv ==
    /\ upstream = "anthropic" => conv.next = Calls(said)
    /\ upstream # "anthropic" => conv.next = 0
    /\ native.at = "block" =>
          /\ native.block \in 0..MaxBlocks
          /\ native.kind = "tool" =>
                Calls(said) # 0 /\ conv.tools[native.block] = Calls(said) - 1

\* The adapter does not close before the upstream has finished.
DoneInv == phase = "open" /\ adapter.done => native.at \in {"counting", "finished"}

AuditInv ==
    /\ Kept(parts, Sayings(said), Calls(said))
    /\ Kept(Extracted(parts), Filtered(Sayings(said)), Calls(said))

\* What was sent and what is left to send serve the account.
SentInv ==
    \E rest \in Seq(Wire), e \in BOOLEAN :
        /\ Serves(client, adapter, parts, got \o rest, Sayings(said), Calls(said), e)
        /\ phase # "gone" => queue = rest /\ (e <=> phase \in {"closing", "complete"})

Inv == StateInv /\ ConvInv /\ DoneInv /\ AuditInv /\ SentInv

LEMMA StateFacts ==
    ASSUME Inv
    PROVE  /\ said \in Seq(Entries) /\ Sayings(said) \in Accounts
           /\ Calls(said) \in 0..MaxSaid /\ Calls(said) =< Len(said)
           /\ Len(said) \in 0..MaxSaid /\ parts \in Seq(Chunks)
           /\ adapter \in Adapters
<1>1. said \in Seq(Entries) /\ Len(said) =< MaxSaid /\ MaxSaid \in Nat /\ client \in Clients
    BY StreamsAssumption DEF Inv, StateInv
<1>2. Sayings(said) \in Accounts
    BY <1>1, SayingsFacts
<1>3. Len(said) \in Nat
    BY <1>1, LenProperties
<1>4. Calls(said) \in Nat /\ Calls(said) =< Len(said)
    <2>1. PICK e : e \in Entries
        <3>1. [kind |-> "text", call |-> 0] \in Entries
            BY DEF Entries
        <3> QED
            BY <3>1
    <2> QED
        BY <1>1, <2>1, CallsFacts
<1>5. parts \in Seq(Chunks)
    BY DEF Inv, AuditInv, Kept
<1>6. adapter \in Adapters
    <2>1. \E F, e : Serves(client, adapter, parts, F, Sayings(said), Calls(said), e)
        BY DEF Inv, SentInv
    <2>2. NoAdapter \in Adapters
        BY DEF NoAdapter, Adapters
    <2> QED
        BY <1>1, <2>1, <2>2, StreamsAssumption DEF Serves, ToldBy, Writes, WrittenBy
<1> QED
    BY <1>1, <1>2, <1>3, <1>4, <1>5, <1>6

LEMMA SaysFacts ==
    ASSUME Inv, NEW kind \in {"text", "call", "args", "unread"}, NEW call \in Nat, Says(kind, call)
    PROVE  /\ said' \in Seq(Entries) /\ Len(said') =< MaxSaid
           /\ Piece \in 1..MaxSaid /\ Calls(said) < MaxSaid
           /\ Calls(said') = IF kind = "call" THEN Calls(said) + 1 ELSE Calls(said)
           /\ kind = "text" => Sayings(said') = Add(Sayings(said), 0, Piece)
           /\ kind \in {"call", "unread"} => Sayings(said') = Sayings(said)
           /\ kind = "args" /\ call # 0 => Sayings(said') = Add(Sayings(said), call, Piece)
<1>1. /\ said \in Seq(Entries) /\ Len(said) \in Nat /\ Calls(said) \in Nat
      /\ Calls(said) =< Len(said) /\ Len(said) < MaxSaid /\ MaxSaid \in Nat
    BY StateFacts, StreamsAssumption DEF Says
<1>2. PICK e : e = [kind |-> kind, call |-> call]
    OBVIOUS
<1>3. e \in Entries /\ e.kind = kind /\ e.call = call /\ said' = Append(said, e)
    BY <1>2 DEF Entries, Says
<1>4. said' \in Seq(Entries) /\ Len(said') = Len(said) + 1
    BY <1>1, <1>3, AppendProperties
<1>5. PICK n \in Nat : n = Len(said) + 1 /\ Piece = n
    BY <1>1 DEF Piece
<1>6. Calls(Append(said, e)) = IF e.kind = "call" THEN Calls(said) + 1 ELSE Calls(said)
    BY <1>1, <1>3, CallsFacts
<1>7. /\ e.kind = "text" => Sayings(Append(said, e)) = Add(Sayings(said), 0, n)
      /\ e.kind \in {"call", "unread"} => Sayings(Append(said, e)) = Sayings(said)
      /\ e.kind = "args" /\ e.call # 0 =>
            Sayings(Append(said, e)) = Add(Sayings(said), e.call, n)
    BY <1>1, <1>3, <1>5, SayingsNext
<1> QED
    BY <1>1, <1>3, <1>4, <1>5, <1>6, <1>7

\* The chunk of what is said.
LEMMA ChunkOfSaid ==
    ASSUME Inv, ~adapter.done
    PROVE  /\ Says("text", 0) =>
                 Speaks(Text(Piece), Sayings(said), Calls(said), Sayings(said'), Calls(said'), adapter)
           /\ Says("call", Calls(said) + 1) =>
                 Speaks(Tool(Calls(said), Calls(said) + 1, None), Sayings(said), Calls(said),
                        Sayings(said'), Calls(said'), adapter)
           /\ \A n \in 1..Calls(said) : Says("args", n) =>
                 Speaks(Tool(n - 1, None, Piece), Sayings(said), Calls(said),
                        Sayings(said'), Calls(said'), adapter)
<1>1. Calls(said) \in Nat
    BY StateFacts, StreamsAssumption
<1>2. ASSUME Says("text", 0)
      PROVE  Speaks(Text(Piece), Sayings(said), Calls(said), Sayings(said'), Calls(said'), adapter)
    <2>1. /\ Piece \in 1..MaxSaid /\ Calls(said') = Calls(said)
          /\ Sayings(said') = Add(Sayings(said), 0, Piece)
        BY <1>2, SaysFacts
    <2> QED
        BY <2>1 DEF Speaks
<1>3. ASSUME Says("call", Calls(said) + 1)
      PROVE  Speaks(Tool(Calls(said), Calls(said) + 1, None), Sayings(said), Calls(said),
                    Sayings(said'), Calls(said'), adapter)
    <2>1. /\ Calls(said) < MaxSaid /\ Calls(said') = Calls(said) + 1
          /\ Sayings(said') = Sayings(said)
        BY <1>1, <1>3, SaysFacts
    <2> QED
        BY <2>1 DEF Speaks
<1>4. ASSUME NEW n \in 1..Calls(said), Says("args", n)
      PROVE  Speaks(Tool(n - 1, None, Piece), Sayings(said), Calls(said),
                    Sayings(said'), Calls(said'), adapter)
    <2>1. n \in Nat /\ n # 0
        BY <1>1
    <2>2. /\ Piece \in 1..MaxSaid /\ Calls(said') = Calls(said)
          /\ Sayings(said') = Add(Sayings(said), n, Piece)
        BY <1>4, <2>1, SaysFacts
    <2> QED
        BY <2>2 DEF Speaks
<1> QED
    BY <1>2, <1>3, <1>4

\* What a chunk of the upstream leaves behind.
LEMMA Received ==
    ASSUME Inv, Asks, UNCHANGED <<ends, phase, got>>,
           NEW c, Receive(c),
           Speaks(c, Sayings(said), Calls(said), Sayings(said'), Calls(said'), adapter),
           adapter.done \/ c.finish \/ c.usage => native'.at \in {"counting", "finished"}
    PROVE  AuditInv' /\ SentInv' /\ DoneInv' /\ got' \in Seq(Wire) /\ queue' \in Seq(Wire)
<1>1. /\ got \in Seq(Wire) /\ client \in Clients /\ client' = client /\ got' = got
      /\ phase = "open" /\ phase' = "open" /\ queue = <<>>
    BY DEF Inv, StateInv, Asks, ends
<1>2. PICK H \in Accounts, n \in 0..MaxSaid, G \in {Sayings(said')}, k \in {Calls(said')} :
          H = Sayings(said) /\ n = Calls(said) /\ G = Sayings(said') /\ k = Calls(said')
    BY StateFacts
<1>3. Speaks(c, H, n, G, k, adapter) /\ Kept(parts, H, n)
    BY <1>2 DEF Inv, AuditInv
<1>4. AuditInv'
    <2>1. Kept(Append(parts, c), G, k)
        BY <1>3, SpeaksKept
    <2>2. Kept(Extracted(parts), Filtered(H), n) /\ parts \in Seq(Chunks)
        BY <1>2, StateFacts DEF Inv, AuditInv
    <2>3. Kept(Extracted(Append(parts, c)), Filtered(G), k)
        BY <1>3, <2>2, SpeaksExtracted
    <2> QED
        BY <1>2, <2>1, <2>3 DEF AuditInv, Receive, Extracted
<1>5. Serves(client, adapter, parts, got, H, n, FALSE)
    <2>1. PICK rest \in Seq(Wire), e \in BOOLEAN :
              /\ Serves(client, adapter, parts, got \o rest, H, n, e)
              /\ phase # "gone" => queue = rest /\ (e <=> phase \in {"closing", "complete"})
        BY <1>2 DEF Inv, SentInv
    <2>2. rest = <<>> /\ e = FALSE
        BY <1>1, <2>1
    <2>3. got \o <<>> = got
        BY <1>1, ConcatEmptySeq
    <2> QED
        BY <2>1, <2>2, <2>3
<1>6. PICK b, Q, P : b = adapter' /\ Q = queue' /\ P = parts'
    OBVIOUS
<1>7. Q \in Seq(Wire) /\ Serves(client, b, P, got \o Q, G, k, FALSE)
    <2>1. b = AdapterAfter(adapter, c) /\ Q = EventsFor(adapter, c) /\ P = Append(parts, c)
        BY <1>6 DEF Receive
    <2>2. parts \in Seq(Chunks)
        BY StateFacts
    <2>3. /\ EventsFor(adapter, c) \in Seq(Wire)
          /\ Serves(client, AdapterAfter(adapter, c), Append(parts, c),
                    got \o EventsFor(adapter, c), G, k, FALSE)
        BY <1>1, <1>3, <1>5, <2>2, ServesChunk
    <2> QED
        BY <2>1, <2>3
<1>8. SentInv'
    <2>1. PICK e \in BOOLEAN : e = FALSE
        OBVIOUS
    <2>2. /\ Serves(client', adapter', parts', got' \o Q, Sayings(said'), Calls(said'), e)
          /\ queue' = Q /\ (e <=> phase' \in {"closing", "complete"})
        BY <1>1, <1>2, <1>6, <1>7, <2>1
    <2> QED
        BY <1>7, <2>2 DEF SentInv
<1>9. DoneInv'
    <2>1. adapter' = AdapterAfter(adapter, c)
        BY DEF Receive
    <2>2. adapter \in Adapters /\ c.text \in Nat
        BY <1>3, StateFacts, SpeaksChunk
    <2>3. adapter'.done => adapter.done \/ c.finish \/ c.usage
        BY <2>1, <2>2, DoneAfter
    <2> QED
        BY <1>1, <2>3 DEF DoneInv
<1> QED
    BY <1>1, <1>4, <1>6, <1>7, <1>8, <1>9

\* Nothing comes of an event that is dropped.
LEMMA Ignored ==
    ASSUME Inv, Asks, UNCHANGED <<ends, phase, got, said>>, Ignore,
           adapter.done => native'.at \in {"counting", "finished"}
    PROVE  AuditInv' /\ SentInv' /\ DoneInv' /\ got' \in Seq(Wire) /\ queue' \in Seq(Wire)
<1>1. /\ upstream' = upstream /\ client' = client /\ phase' = phase /\ got' = got
      /\ said' = said /\ queue' = queue /\ adapter' = adapter /\ parts' = parts
    BY DEF ends, Ignore
<1>2. AuditInv'
    BY <1>1 DEF Inv, AuditInv
<1>3. SentInv'
    BY <1>1 DEF Inv, SentInv
<1> QED
    BY <1>1, <1>2, <1>3 DEF Inv, StateInv, DoneInv

LEMMA InvInit == Init => Inv
<1> SUFFICES ASSUME Init PROVE Inv
    OBVIOUS
<1>1. Calls(<<>>) = 0
    <2>1. {i \in DOMAIN <<>> : <<>>[i].kind = "call"} = {}
        OBVIOUS
    <2> QED
        BY <2>1, FS_EmptySet DEF Calls
<1>2. Sayings(<<>>) = Nothing
    <2>1. TextNumbers(<<>>) = <<>> /\ \A i \in Nat : ArgsNumbers(<<>>, i) = <<>>
        BY DEF TextNumbers, ArgsNumbers
    <2>2. Given(<<>>) = <<>>
        BY GivenNothing
    <2> QED
        BY <2>1, <2>2 DEF Sayings, Nothing
<1>3. StateInv
    <2>1. native \in Natives
        BY StreamsAssumption DEF Init, Natives
    <2>2. conv \in Convs
        BY DEF Init, NoConv, Convs
    <2>3. <<>> \in Seq(Entries) /\ <<>> \in Seq(Wire) /\ Len(<<>>) =< MaxSaid
        BY StreamsAssumption
    <2> QED
        BY <2>1, <2>2, <2>3 DEF Init, StateInv
<1>4. ConvInv
    BY <1>1 DEF Init, ConvInv, NoConv
<1>5. DoneInv
    BY DEF Init, DoneInv, NoAdapter
<1>6. AuditInv
    <2>1. Extracted(<<>>) = <<>>
        BY DEF Extracted
    <2> QED
        BY <1>1, <1>2, <2>1, KeptNothing, FilteredNothing DEF Init, AuditInv
<1>7. SentInv
    <2>1. Serves(client, NoAdapter, <<>>, <<>>, Nothing, 0, FALSE)
        BY ServesNothing
    <2>2. <<>> \in Seq(Wire)
        OBVIOUS
    <2>3. <<>> \o <<>> = <<>>
        BY <2>2, ConcatEmptySeq
    <2>4. PICK rest \in Seq(Wire), e \in BOOLEAN : rest = <<>> /\ e = FALSE
        BY <2>2
    <2>5. /\ Serves(client, adapter, parts, got \o rest, Sayings(said), Calls(said), e)
          /\ queue = rest /\ (e <=> phase \in {"closing", "complete"})
        BY <1>1, <1>2, <2>1, <2>3, <2>4 DEF Init
    <2> QED
        BY <2>5 DEF SentInv
<1> QED
    BY <1>3, <1>4, <1>5, <1>6, <1>7 DEF Inv

\* What an upstream's step has to be, besides what the generator makes of it.
LEMMA StepOf ==
    ASSUME Inv, UNCHANGED <<ends, phase>>, phase = "open",
           native' \in Natives, conv' \in Convs, ConvInv',
           said' \in Seq(Entries) /\ Len(said') =< MaxSaid,
           AuditInv' /\ SentInv' /\ DoneInv' /\ got' \in Seq(Wire) /\ queue' \in Seq(Wire)
    PROVE  Inv'
BY DEF Inv, StateInv, ends

LEMMA InvOpenAI ==
    ASSUME Inv, \/ OpenAIText \/ OpenAICall \/ (\E n \in 1..MaxSaid : OpenAIArgs(n))
                \/ (\E usage \in BOOLEAN : OpenAIFinish(usage)) \/ OpenAIUsage
    PROVE  Inv'
<1>1. /\ OpenAI /\ Asks /\ upstream = "openai" /\ UNCHANGED <<ends, phase, got>>
      /\ upstream' = upstream /\ conv' = conv /\ phase = "open"
    BY DEF OpenAIText, OpenAICall, OpenAIArgs, OpenAIFinish, OpenAIUsage, OpenAI, Asks, ends
<1>2. /\ native \in Natives /\ conv \in Convs
      /\ said \in Seq(Entries) /\ Len(said) =< MaxSaid
      /\ adapter.done => native.at \in {"counting", "finished"}
      /\ native.at \in {"begin", "body", "counting"} => native.at # "block"
      /\ conv.next = 0
    BY <1>1 DEF Inv, StateInv, DoneInv, ConvInv
<1>3. conv' \in Convs /\ (native'.at # "block" => ConvInv')
    BY <1>1, <1>2 DEF ConvInv
<1>4. CASE OpenAIText
    <2>1. /\ native.at \in {"begin", "body"} /\ Says("text", 0) /\ Receive(Text(Piece))
          /\ native' = [native EXCEPT !.at = "body"]
        BY <1>4 DEF OpenAIText
    <2>2. ~adapter.done /\ native' \in Natives /\ native'.at = "body"
        BY <1>2, <2>1 DEF Natives
    <2>3. Piece \in 1..MaxSaid /\ said' \in Seq(Entries) /\ Len(said') =< MaxSaid
        BY <2>1, SaysFacts
    <2>4. PICK c : c = Text(Piece)
        OBVIOUS
    <2>5. /\ Receive(c) /\ ~c.finish /\ ~c.usage
          /\ Speaks(c, Sayings(said), Calls(said), Sayings(said'), Calls(said'), adapter)
        BY <2>1, <2>2, <2>3, <2>4, ChunkOfSaid, TextChunkFacts
    <2>6. AuditInv' /\ SentInv' /\ DoneInv' /\ got' \in Seq(Wire) /\ queue' \in Seq(Wire)
        BY <1>1, <2>2, <2>5, Received
    <2> QED
        BY <1>1, <1>3, <2>2, <2>3, <2>6, StepOf
<1>5. CASE OpenAICall
    <2>1. /\ native.at \in {"begin", "body"} /\ Says("call", Calls(said) + 1)
          /\ Receive(Tool(Calls(said), Calls(said) + 1, None))
          /\ native' = [native EXCEPT !.at = "body"]
        BY <1>5 DEF OpenAICall
    <2>2. ~adapter.done /\ native' \in Natives /\ native'.at = "body"
        BY <1>2, <2>1 DEF Natives
    <2>3. /\ Calls(said) \in Nat /\ MaxSaid \in Nat
          /\ Calls(said) < MaxSaid /\ said' \in Seq(Entries) /\ Len(said') =< MaxSaid
        <3>1. Calls(said) \in Nat /\ MaxSaid \in Nat
            BY StateFacts, StreamsAssumption
        <3> QED
            BY <2>1, <3>1, SaysFacts
    <2>4. PICK c : c = Tool(Calls(said), Calls(said) + 1, None)
        OBVIOUS
    <2>5. ~c.finish /\ ~c.usage
        <3>1. Calls(said) \in 0..MaxSaid /\ Calls(said) + 1 \in 0..MaxSaid /\ None \in 0..MaxSaid
            BY <2>3 DEF None
        <3> QED
            BY <2>4, <3>1, ToolChunkFacts
    <2>6. /\ Receive(c)
          /\ Speaks(c, Sayings(said), Calls(said), Sayings(said'), Calls(said'), adapter)
        BY <2>1, <2>2, <2>4, ChunkOfSaid
    <2>7. AuditInv' /\ SentInv' /\ DoneInv' /\ got' \in Seq(Wire) /\ queue' \in Seq(Wire)
        BY <1>1, <2>2, <2>5, <2>6, Received
    <2> QED
        BY <1>1, <1>3, <2>2, <2>3, <2>7, StepOf
<1>6. ASSUME NEW n \in 1..MaxSaid, OpenAIArgs(n) PROVE Inv'
    <2>1. /\ native.at = "body" /\ n \in 1..Calls(said) /\ Says("args", n)
          /\ Receive(Tool(n - 1, None, Piece)) /\ native' = native
        BY <1>6 DEF OpenAIArgs
    <2>2. ~adapter.done /\ native'.at = "body"
        BY <1>2, <2>1
    <2>3. n \in Nat /\ Piece \in 1..MaxSaid /\ said' \in Seq(Entries) /\ Len(said') =< MaxSaid
        <3>1. n \in Nat
            BY StreamsAssumption
        <3> QED
            BY <2>1, <3>1, SaysFacts
    <2>4. PICK c : c = Tool(n - 1, None, Piece)
        OBVIOUS
    <2>5. ~c.finish /\ ~c.usage
        <3>1. n - 1 \in 0..MaxSaid /\ None \in 0..MaxSaid /\ Piece \in 0..MaxSaid
            BY <2>3, StreamsAssumption DEF None
        <3> QED
            BY <2>4, <3>1, ToolChunkFacts
    <2>6. /\ Receive(c)
          /\ Speaks(c, Sayings(said), Calls(said), Sayings(said'), Calls(said'), adapter)
        BY <2>1, <2>2, <2>4, ChunkOfSaid
    <2>7. AuditInv' /\ SentInv' /\ DoneInv' /\ got' \in Seq(Wire) /\ queue' \in Seq(Wire)
        BY <1>1, <2>2, <2>5, <2>6, Received
    <2> QED
        BY <1>1, <1>2, <1>3, <2>1, <2>2, <2>3, <2>7, StepOf
<1>7. ASSUME NEW usage \in BOOLEAN, OpenAIFinish(usage) PROVE Inv'
    <2>1. /\ native.at \in {"begin", "body"} /\ Receive(Finish(usage)) /\ said' = said
          /\ native' = [native EXCEPT !.at = IF usage THEN "finished" ELSE "counting"]
        BY <1>7 DEF OpenAIFinish
    <2>2. native' \in Natives /\ native'.at \in {"counting", "finished"}
        BY <1>2, <2>1 DEF Natives
    <2>3. PICK c : c = Finish(usage)
        OBVIOUS
    <2>4. c \in Chunks /\ c.text = None /\ c.tool = NoTool
        BY <2>3, EmptyFacts DEF Finish
    <2>5. Speaks(c, Sayings(said), Calls(said), Sayings(said'), Calls(said'), adapter)
        BY <2>1, <2>4 DEF Speaks
    <2>6. AuditInv' /\ SentInv' /\ DoneInv' /\ got' \in Seq(Wire) /\ queue' \in Seq(Wire)
        BY <1>1, <2>1, <2>2, <2>3, <2>5, Received
    <2> QED
        BY <1>1, <1>2, <1>3, <2>1, <2>2, <2>6, StepOf
<1>8. CASE OpenAIUsage
    <2>1. /\ native.at = "counting" /\ Receive([Empty EXCEPT !.usage = TRUE]) /\ said' = said
          /\ native' = [native EXCEPT !.at = "finished"]
        BY <1>8 DEF OpenAIUsage
    <2>2. native' \in Natives /\ native'.at = "finished"
        BY <1>2, <2>1 DEF Natives
    <2>3. PICK c : c = [Empty EXCEPT !.usage = TRUE]
        OBVIOUS
    <2>4. c \in Chunks /\ c.text = None /\ c.tool = NoTool
        <3>1. c \in Chunks
            BY <2>3, EmptyChunk DEF Chunks
        <3> QED
            BY <2>3, <3>1 DEF Empty
    <2>5. Speaks(c, Sayings(said), Calls(said), Sayings(said'), Calls(said'), adapter)
        BY <2>1, <2>4 DEF Speaks
    <2>6. AuditInv' /\ SentInv' /\ DoneInv' /\ got' \in Seq(Wire) /\ queue' \in Seq(Wire)
        BY <1>1, <2>1, <2>2, <2>3, <2>5, Received
    <2> QED
        BY <1>1, <1>2, <1>3, <2>1, <2>2, <2>6, StepOf
<1> QED
    BY <1>4, <1>5, <1>6, <1>7, <1>8

LEMMA InvAnthropic ==
    ASSUME Inv, \/ MessageStart \/ TextBlock \/ ToolBlock \/ TextDelta \/ ArgsDelta
                \/ BlockStop \/ MessageDelta
    PROVE  Inv'
<1>1. /\ Anthropic /\ Asks /\ upstream = "anthropic" /\ UNCHANGED <<ends, phase, got>>
      /\ upstream' = upstream /\ phase = "open"
    BY DEF MessageStart, TextBlock, ToolBlock, TextDelta, ArgsDelta, BlockStop, MessageDelta,
           Anthropic, Asks, ends
<1>2. /\ native \in Natives /\ conv \in Convs
      /\ said \in Seq(Entries) /\ Len(said) =< MaxSaid
      /\ adapter.done => native.at \in {"counting", "finished"}
      /\ conv.next = Calls(said)
      /\ native.at = "block" =>
            /\ native.block \in 0..MaxBlocks
            /\ native.kind = "tool" =>
                  Calls(said) # 0 /\ conv.tools[native.block] = Calls(said) - 1
    BY <1>1 DEF Inv, StateInv, DoneInv, ConvInv
<1>3. /\ Calls(said) \in Nat /\ native.block \in -1..MaxBlocks
      /\ conv.tools \in [0..MaxBlocks -> Int] /\ MaxBlocks \in Nat /\ MaxSaid \in Nat
    BY <1>2, StateFacts, StreamsAssumption DEF Natives, Convs
<1>4. CASE MessageStart
    <2>1. /\ native.at = "begin" /\ Receive(Empty) /\ said' = said /\ conv' = conv
          /\ native' = [native EXCEPT !.at = "between"]
        BY <1>4 DEF MessageStart
    <2>2. native' \in Natives /\ native'.at = "between" /\ ~adapter.done
        BY <1>2, <2>1 DEF Natives
    <2>3. PICK c : c = Empty
        OBVIOUS
    <2>4. c \in Chunks /\ c.text = None /\ c.tool = NoTool /\ ~c.finish /\ ~c.usage
        BY <2>3, EmptyChunk DEF Empty
    <2>5. Speaks(c, Sayings(said), Calls(said), Sayings(said'), Calls(said'), adapter)
        BY <2>1, <2>4 DEF Speaks
    <2>6. AuditInv' /\ SentInv' /\ DoneInv' /\ got' \in Seq(Wire) /\ queue' \in Seq(Wire)
        BY <1>1, <2>1, <2>2, <2>3, <2>4, <2>5, Received
    <2>7. ConvInv'
        BY <1>1, <1>2, <2>1, <2>2 DEF ConvInv
    <2> QED
        BY <1>1, <1>2, <2>1, <2>2, <2>6, <2>7, StepOf
<1>5. CASE TextBlock
    <2>1. /\ native.at = "between" /\ native.block < MaxBlocks /\ Ignore
          /\ said' = said /\ conv' = conv
          /\ native' = [at |-> "block", block |-> native.block + 1, kind |-> "text"]
        BY <1>5 DEF TextBlock
    <2>2. /\ native' \in Natives /\ native'.block \in 0..MaxBlocks /\ native'.kind = "text"
          /\ ~adapter.done
        BY <1>2, <1>3, <2>1 DEF Natives
    <2>3. AuditInv' /\ SentInv' /\ DoneInv' /\ got' \in Seq(Wire) /\ queue' \in Seq(Wire)
        BY <1>1, <2>1, <2>2, Ignored
    <2>4. ConvInv'
        BY <1>1, <1>2, <2>1, <2>2 DEF ConvInv
    <2> QED
        BY <1>1, <1>2, <2>1, <2>2, <2>3, <2>4, StepOf
<1>6. CASE ToolBlock
    <2>1. /\ native.at = "between" /\ native.block < MaxBlocks
          /\ Says("call", Calls(said) + 1)
          /\ native' = [at |-> "block", block |-> native.block + 1, kind |-> "tool"]
          /\ conv' = [tools |-> [conv.tools EXCEPT ![native.block + 1] = conv.next],
                      next |-> conv.next + 1]
          /\ Receive(Tool(conv.next, Calls(said) + 1, None))
        BY <1>6 DEF ToolBlock
    <2>2. /\ native' \in Natives /\ native'.at = "block" /\ native'.block = native.block + 1
          /\ native.block + 1 \in 0..MaxBlocks /\ ~adapter.done
        BY <1>2, <1>3, <2>1 DEF Natives
    <2>3. /\ Calls(said) < MaxSaid /\ Calls(said') = Calls(said) + 1
          /\ said' \in Seq(Entries) /\ Len(said') =< MaxSaid
        BY <1>3, <2>1, SaysFacts
    <2>4. /\ conv' \in Convs /\ conv'.next = Calls(said')
          /\ conv'.tools[native'.block] = Calls(said') - 1
        <3>1. [conv.tools EXCEPT ![native.block + 1] = conv.next] \in [0..MaxBlocks -> Int]
            BY <1>2, <1>3, <2>2
        <3>2. conv'.tools[native'.block] = conv.next
            BY <1>3, <2>1, <2>2
        <3>3. Calls(said') # 0 /\ Calls(said) = Calls(said') - 1
            BY <1>3, <2>3
        <3> QED
            BY <1>2, <1>3, <2>1, <2>3, <3>1, <3>2, <3>3 DEF Convs
    <2>5. PICK c : c = Tool(Calls(said), Calls(said) + 1, None)
        OBVIOUS
    <2>6. ~c.finish /\ ~c.usage
        <3>1. Calls(said) \in 0..MaxSaid /\ Calls(said) + 1 \in 0..MaxSaid /\ None \in 0..MaxSaid
            BY <1>3, <2>3 DEF None
        <3> QED
            BY <2>5, <3>1, ToolChunkFacts
    <2>7. /\ Receive(c)
          /\ Speaks(c, Sayings(said), Calls(said), Sayings(said'), Calls(said'), adapter)
        BY <1>2, <2>1, <2>2, <2>5, ChunkOfSaid
    <2>8. AuditInv' /\ SentInv' /\ DoneInv' /\ got' \in Seq(Wire) /\ queue' \in Seq(Wire)
        BY <1>1, <2>2, <2>6, <2>7, Received
    <2>9. ConvInv'
        BY <1>1, <1>3, <2>2, <2>3, <2>4 DEF ConvInv
    <2> QED
        BY <1>1, <2>2, <2>3, <2>4, <2>8, <2>9, StepOf
<1>7. CASE TextDelta
    <2>1. /\ native.at = "block" /\ native.kind = "text" /\ Says("text", 0)
          /\ Receive(Text(Piece)) /\ native' = native /\ conv' = conv
        BY <1>7 DEF TextDelta
    <2>2. /\ ~adapter.done /\ Piece \in 1..MaxSaid /\ Calls(said') = Calls(said)
          /\ said' \in Seq(Entries) /\ Len(said') =< MaxSaid
        BY <1>2, <2>1, SaysFacts
    <2>3. PICK c : c = Text(Piece)
        OBVIOUS
    <2>4. /\ Receive(c) /\ ~c.finish /\ ~c.usage
          /\ Speaks(c, Sayings(said), Calls(said), Sayings(said'), Calls(said'), adapter)
        BY <2>1, <2>2, <2>3, ChunkOfSaid, TextChunkFacts
    <2>5. AuditInv' /\ SentInv' /\ DoneInv' /\ got' \in Seq(Wire) /\ queue' \in Seq(Wire)
        BY <1>1, <2>2, <2>4, Received
    <2>6. ConvInv'
        BY <1>1, <1>2, <2>1, <2>2 DEF ConvInv
    <2> QED
        BY <1>1, <1>2, <2>1, <2>2, <2>5, <2>6, StepOf
<1>8. CASE ArgsDelta
    <2>1. /\ native.at = "block" /\ native.kind = "tool" /\ Says("args", Calls(said))
          /\ native' = native /\ conv' = conv
          /\ IF conv.tools[native.block] = -1 THEN Ignore
             ELSE Receive(Tool(conv.tools[native.block], None, Piece))
        BY <1>8 DEF ArgsDelta
    <2>2. Calls(said) # 0 /\ conv.tools[native.block] = Calls(said) - 1
        BY <1>2, <2>1
    <2>3. /\ ~adapter.done /\ Piece \in 1..MaxSaid /\ Calls(said') = Calls(said)
          /\ said' \in Seq(Entries) /\ Len(said') =< MaxSaid
        BY <1>2, <1>3, <2>1, SaysFacts
    <2>4. PICK c : c = Tool(Calls(said) - 1, None, Piece)
        OBVIOUS
    <2>5. Receive(c)
        <3>1. Calls(said) - 1 # -1
            BY <1>3, <2>2
        <3> QED
            BY <2>1, <2>2, <2>4, <3>1
    <2>6. ~c.finish /\ ~c.usage
        <3>1. Calls(said) - 1 \in 0..MaxSaid /\ None \in 0..MaxSaid /\ Piece \in 0..MaxSaid
            <4>1. Calls(said) \in 0..MaxSaid
                BY StateFacts
            <4> QED
                BY <1>3, <2>2, <2>3, <4>1 DEF None
        <3> QED
            BY <2>4, <3>1, ToolChunkFacts
    <2>7. Speaks(c, Sayings(said), Calls(said), Sayings(said'), Calls(said'), adapter)
        <3>1. Calls(said) \in 1..Calls(said)
            BY <1>3, <2>2
        <3> QED
            BY <2>1, <2>3, <2>4, <3>1, ChunkOfSaid
    <2>8. AuditInv' /\ SentInv' /\ DoneInv' /\ got' \in Seq(Wire) /\ queue' \in Seq(Wire)
        BY <1>1, <2>3, <2>5, <2>6, <2>7, Received
    <2>9. ConvInv'
        BY <1>1, <1>2, <2>1, <2>3 DEF ConvInv
    <2> QED
        BY <1>1, <1>2, <2>1, <2>3, <2>8, <2>9, StepOf
<1>9. CASE BlockStop
    <2>1. /\ native.at = "block" /\ Ignore /\ said' = said /\ conv' = conv
          /\ native' = [native EXCEPT !.at = "between", !.kind = "none"]
        BY <1>9 DEF BlockStop
    <2>2. native' \in Natives /\ native'.at = "between" /\ ~adapter.done
        BY <1>2, <2>1 DEF Natives
    <2>3. AuditInv' /\ SentInv' /\ DoneInv' /\ got' \in Seq(Wire) /\ queue' \in Seq(Wire)
        BY <1>1, <2>1, <2>2, Ignored
    <2>4. ConvInv'
        BY <1>1, <1>2, <2>1, <2>2 DEF ConvInv
    <2> QED
        BY <1>1, <1>2, <2>1, <2>2, <2>3, <2>4, StepOf
<1>10. CASE MessageDelta
    <2>1. /\ native.at = "between" /\ Receive(Finish(TRUE)) /\ said' = said /\ conv' = conv
          /\ native' = [native EXCEPT !.at = "finished"]
        BY <1>10 DEF MessageDelta
    <2>2. native' \in Natives /\ native'.at = "finished"
        BY <1>2, <2>1 DEF Natives
    <2>3. PICK c : c = Finish(TRUE)
        OBVIOUS
    <2>4. c \in Chunks /\ c.text = None /\ c.tool = NoTool
        BY <2>3, EmptyFacts DEF Finish
    <2>5. Speaks(c, Sayings(said), Calls(said), Sayings(said'), Calls(said'), adapter)
        BY <2>1, <2>4 DEF Speaks
    <2>6. AuditInv' /\ SentInv' /\ DoneInv' /\ got' \in Seq(Wire) /\ queue' \in Seq(Wire)
        BY <1>1, <2>1, <2>2, <2>3, <2>5, Received
    <2>7. ConvInv'
        BY <1>1, <1>2, <2>1, <2>2 DEF ConvInv
    <2> QED
        BY <1>1, <1>2, <2>1, <2>2, <2>6, <2>7, StepOf
<1> QED
    BY <1>4, <1>5, <1>6, <1>7, <1>8, <1>9, <1>10

\* An event goes over from the queue to the client.
LEMMA YieldedFacts ==
    ASSUME NEW S, NEW s \in Seq(S), NEW q \in Seq(S), q # <<>>
    PROVE  /\ Append(s, Head(q)) \in Seq(S) /\ Tail(q) \in Seq(S)
           /\ Append(s, Head(q)) \o Tail(q) = s \o q
<1>1. PICK h \in S, t \in Seq(S) : h = Head(q) /\ t = Tail(q)
    BY HeadTailProperties
<1>2. <<h>> \in Seq(S) /\ Append(s, h) = s \o <<h>> /\ Append(s, h) \in Seq(S)
    BY AppendProperties, AppendIsConcat
<1>3. q = <<h>> \o t
    <2>1. PICK n \in Nat : n = Len(q) /\ n # 0
        BY LenProperties, EmptySeq
    <2>2. Len(t) = n - 1 /\ \A i \in 1..(n - 1) : t[i] = q[i + 1]
        BY <1>1, <2>1, HeadTailProperties
    <2>3. h = q[1]
        BY <1>1
    <2>4. PICK p \in Seq(S) : p = <<h>> /\ Len(p) = 1 /\ p[1] = h
        <3>1. <<h>> \in Seq(S) /\ Len(<<h>>) = 1 /\ <<h>>[1] = h
            OBVIOUS
        <3> QED
            BY <3>1
    <2>5. PICK u \in Seq(S) : u = p \o t
        BY ConcatProperties
    <2>6. Len(u) = n /\ \A i \in 1..n : u[i] = IF i =< 1 THEN p[i] ELSE t[i - 1]
        <3>1. /\ Len(p \o t) = Len(p) + Len(t)
              /\ \A i \in 1..(Len(p) + Len(t)) :
                    (p \o t)[i] = IF i =< Len(p) THEN p[i] ELSE t[i - Len(p)]
            BY ConcatProperties
        <3>2. Len(p) + Len(t) = n
            BY <2>1, <2>2, <2>4
        <3> QED
            BY <2>4, <2>5, <3>1, <3>2
    <2>7. \A i \in 1..n : u[i] = q[i]
        <3> SUFFICES ASSUME NEW i \in 1..n PROVE u[i] = q[i]
            OBVIOUS
        <3>1. CASE i = 1
            BY <2>3, <2>4, <2>6, <3>1
        <3>2. CASE i # 1
            <4>1. i - 1 \in 1..(n - 1) /\ (i - 1) + 1 = i /\ ~(i =< 1)
                BY <3>2
            <4> QED
                BY <2>2, <2>6, <4>1
        <3> QED
            BY <3>1, <3>2
    <2>8. u = q
        BY <2>1, <2>6, <2>7, SeqEqual
    <2> QED
        BY <2>4, <2>5, <2>8
<1>4. (s \o <<h>>) \o t = s \o (<<h>> \o t)
    BY <1>2, ConcatAssociative
<1> QED
    BY <1>1, <1>2, <1>3, <1>4

\* What cannot be read is said and goes no further.
LEMMA InvLineBreaks == Inv /\ LineBreaks => Inv'
<1> SUFFICES ASSUME Inv, LineBreaks PROVE Inv'
    OBVIOUS
<1>1. /\ phase = "open" /\ Says("unread", 0) /\ Ignore
      /\ UNCHANGED <<ends, phase, native, conv, got>>
    BY DEF LineBreaks, Asks
<1>2. /\ upstream' = upstream /\ client' = client /\ phase' = phase /\ got' = got
      /\ native' = native /\ conv' = conv
      /\ queue' = queue /\ adapter' = adapter /\ parts' = parts
    BY <1>1 DEF ends, Ignore
<1>3. /\ said' \in Seq(Entries) /\ Len(said') =< MaxSaid
      /\ Calls(said') = Calls(said) /\ Sayings(said') = Sayings(said)
    <2>1. 0 \in Nat /\ "unread" \in {"text", "call", "args", "unread"}
        OBVIOUS
    <2> QED
        BY <1>1, <2>1, SaysFacts
<1>4. StateInv' /\ ConvInv' /\ DoneInv'
    BY <1>2, <1>3 DEF Inv, StateInv, ConvInv, DoneInv
<1>5. AuditInv'
    BY <1>2, <1>3 DEF Inv, AuditInv, Extracted
<1>6. SentInv'
    BY <1>2, <1>3 DEF Inv, SentInv
<1> QED
    BY <1>4, <1>5, <1>6 DEF Inv

LEMMA InvClient ==
    ASSUME Inv, \/ Yield \/ UpstreamEnds \/ Complete \/ UpstreamFails \/ ClientLeaves \/ Done
    PROVE  Inv'
<1>1. /\ upstream' = upstream /\ client' = client /\ native' = native /\ conv' = conv
      /\ parts' = parts /\ said' = said
    BY DEF Yield, UpstreamEnds, Complete, UpstreamFails, ClientLeaves, Leave, Done, ends, vars
<1>2. ConvInv' /\ AuditInv'
    BY <1>1 DEF Inv, ConvInv, AuditInv
<1>3. StateInv
    BY DEF Inv
<1>4. PICK rest \in Seq(Wire), e \in BOOLEAN :
          /\ Serves(client, adapter, parts, got \o rest, Sayings(said), Calls(said), e)
          /\ phase # "gone" => queue = rest /\ (e <=> phase \in {"closing", "complete"})
    BY DEF Inv, SentInv
<1>5. ASSUME adapter' = adapter, got' = got, queue' = <<>> /\ (queue = <<>> \/ phase' = "gone"),
             \/ phase = "closing" /\ phase' = "complete"
             \/ phase = "open" /\ phase' = "failed"
             \/ phase \in {"open", "closing"} /\ phase' = "gone"
             \/ phase \in {"complete", "failed", "gone"} /\ phase' = phase
      PROVE  Inv'
    <2>1. StateInv'
        <3>1. <<>> \in Seq(Wire)
            OBVIOUS
        <3> QED
            BY <1>1, <1>3, <1>5, <3>1 DEF StateInv
    <2>2. DoneInv'
        BY <1>1, <1>5 DEF Inv, DoneInv
    <2>3. SentInv'
        <3>1. /\ Serves(client', adapter', parts', got' \o rest, Sayings(said'), Calls(said'), e)
              /\ phase' # "gone" => queue' = rest /\ (e <=> phase' \in {"closing", "complete"})
            BY <1>1, <1>4, <1>5
        <3> QED
            BY <3>1 DEF SentInv
    <2> QED
        BY <1>2, <2>1, <2>2, <2>3 DEF Inv
<1>6. CASE Yield
    <2>1. /\ phase \in {"open", "closing"} /\ queue # <<>> /\ phase' = phase /\ adapter' = adapter
          /\ got' = Append(got, Head(queue)) /\ queue' = Tail(queue)
        BY <1>6 DEF Yield
    <2>2. /\ Append(got, Head(queue)) \in Seq(Wire) /\ Tail(queue) \in Seq(Wire)
          /\ Append(got, Head(queue)) \o Tail(queue) = got \o queue
        <3>1. got \in Seq(Wire) /\ queue \in Seq(Wire)
            BY <1>3 DEF StateInv
        <3> QED
            BY <2>1, <3>1, YieldedFacts
    <2>3. StateInv'
        BY <1>1, <1>3, <2>1, <2>2 DEF StateInv
    <2>4. DoneInv'
        BY <1>1, <2>1 DEF Inv, DoneInv
    <2>5. SentInv'
        <3>1. queue' \in Seq(Wire) /\ got' \o queue' = got \o rest
            BY <1>4, <2>1, <2>2
        <3>2. /\ Serves(client', adapter', parts', got' \o queue', Sayings(said'), Calls(said'), e)
              /\ (e <=> phase' \in {"closing", "complete"})
            BY <1>1, <1>4, <2>1, <3>1
        <3>3. PICK r \in Seq(Wire) : r = queue'
            BY <3>1
        <3> QED
            BY <3>2, <3>3 DEF SentInv
    <2> QED
        BY <1>2, <2>3, <2>4, <2>5 DEF Inv
<1>7. CASE UpstreamEnds
    <2>1. /\ phase = "open" /\ queue = <<>> /\ phase' = "closing" /\ queue' = Closing(adapter)
          /\ adapter' = (IF adapter.started THEN Closed(adapter) ELSE adapter) /\ got' = got
        BY <1>7 DEF UpstreamEnds, Asks
    <2>2. PICK H \in Accounts, n \in Nat : H = Sayings(said) /\ n = Calls(said)
        BY StateFacts, StreamsAssumption
    <2>3. Serves(client, adapter, parts, got, H, n, FALSE)
        <3>1. rest = <<>> /\ e = FALSE
            BY <1>4, <2>1
        <3>2. got \in Seq(Wire)
            BY <1>3 DEF StateInv
        <3>3. got \o rest = got
            BY <3>1, <3>2, ConcatEmptySeq
        <3> QED
            BY <1>4, <2>2, <3>1, <3>3
    <2>4. /\ Closing(adapter) \in Seq(Wire)
          /\ Serves(client, IF adapter.started THEN Closed(adapter) ELSE adapter, parts,
                    got \o Closing(adapter), H, n, TRUE)
        <3>1. client \in Clients /\ parts \in Seq(Chunks)
            BY <1>3, StateFacts DEF StateInv
        <3> QED
            BY <2>3, <3>1, ServesEnd
    <2>5. StateInv'
        BY <1>1, <1>3, <2>1, <2>4 DEF StateInv
    <2>6. DoneInv'
        BY <2>1 DEF DoneInv
    <2>7. SentInv'
        <3>1. PICK r \in Seq(Wire), d \in BOOLEAN : r = Closing(adapter) /\ d = TRUE
            BY <2>4
        <3>2. PICK a, g : a = adapter' /\ g = got'
            OBVIOUS
        <3>3. Serves(client, a, parts, g \o r, H, n, d)
            BY <2>1, <2>4, <3>1, <3>2
        <3>4. /\ Serves(client', adapter', parts', got' \o r, Sayings(said'), Calls(said'), d)
              /\ queue' = r /\ (d <=> phase' \in {"closing", "complete"})
            BY <1>1, <2>1, <2>2, <3>1, <3>2, <3>3
        <3> QED
            BY <3>4 DEF SentInv
    <2> QED
        BY <1>2, <2>5, <2>6, <2>7 DEF Inv
<1>8. CASE Complete
    BY <1>5, <1>8 DEF Complete, Leave
<1>9. CASE UpstreamFails
    BY <1>5, <1>9 DEF UpstreamFails, Asks, Leave
<1>10. CASE ClientLeaves
    BY <1>5, <1>10 DEF ClientLeaves, Leave
<1>11. CASE Done
    BY <1>3, <1>5, <1>11 DEF Done, vars, StateInv
<1> QED
    BY <1>6, <1>7, <1>8, <1>9, <1>10, <1>11

LEMMA InvStutter == Inv /\ UNCHANGED vars => Inv'
BY DEF vars, ends, Inv, StateInv, ConvInv, DoneInv, AuditInv, SentInv

LEMMA Invariant == Spec => []Inv
<1>1. Inv /\ [Next]_vars => Inv'
    <2> SUFFICES ASSUME Inv, [Next]_vars PROVE Inv'
        OBVIOUS
    <2> QED
        BY InvOpenAI, InvAnthropic, InvLineBreaks, InvClient, InvStutter DEF Next, Upstream
<1> QED
    BY InvInit, <1>1, PTL DEF Spec

-----------------------------------------------------------------------------
(* What the client understands of what it has got.                         *)

LEMMA PrefixOfConcat ==
    ASSUME NEW S, NEW s \in Seq(S), NEW t \in Seq(S)
    PROVE  Prefix(s, s \o t)
<1>1. PICK n \in Nat, m \in Nat : n = Len(s) /\ m = Len(t)
    BY LenProperties
<1>2. PICK u \in Seq(S) : u = s \o t
    BY ConcatProperties
<1>3. Len(u) = n + m /\ \A i \in 1..(n + m) : u[i] = IF i =< n THEN s[i] ELSE t[i - n]
    BY <1>1, <1>2, ConcatProperties
<1>4. \A i \in 1..n : u[i] = s[i] /\ u[i] \in S
    BY <1>1, <1>3, ElementOfSeq
<1>5. PICK v : v = SubSeq(u, 1, n)
    OBVIOUS
<1>6. v \in Seq(S) /\ Len(v) = n /\ \A i \in 1..n : v[i] = u[i]
    <2>1. /\ SubSeq(u, 1, n) \in Seq(S) /\ Len(SubSeq(u, 1, n)) = IF 1 =< n THEN n - 1 + 1 ELSE 0
          /\ \A i \in 1..(n - 1 + 1) : SubSeq(u, 1, n)[i] = u[1 + i - 1]
        BY <1>4, SubSeqProperties
    <2>2. \A i \in 1..n : 1 + i - 1 = i
        OBVIOUS
    <2> QED
        BY <1>5, <2>1, <2>2
<1>7. v = s
    BY <1>1, <1>4, <1>6, SeqEqual
<1> QED
    BY <1>1, <1>2, <1>3, <1>5, <1>7 DEF Prefix

LEMMA Parted ==
    ASSUME NEW S, NEW T, NEW s \in Seq(S), NEW t \in Seq(S), s \o t \in Seq(T)
    PROVE  s \in Seq(T) /\ t \in Seq(T)
<1>1. PICK n \in Nat, m \in Nat : n = Len(s) /\ m = Len(t)
    BY LenProperties
<1>2. PICK u \in Seq(T) : u = s \o t
    OBVIOUS
<1>3. Len(u) = n + m /\ \A i \in 1..(n + m) : u[i] = IF i =< n THEN s[i] ELSE t[i - n]
    BY <1>1, <1>2, ConcatProperties
<1>4. \A i \in 1..(n + m) : u[i] \in T
    BY <1>3, ElementOfSeq
<1>5. \A i \in 1..n : i \in 1..(n + m) /\ s[i] = u[i]
    BY <1>3
<1>6. \A i \in 1..m : n + i \in 1..(n + m) /\ t[i] = u[n + i]
    <2> SUFFICES ASSUME NEW i \in 1..m PROVE n + i \in 1..(n + m) /\ t[i] = u[n + i]
        OBVIOUS
    <2>1. n + i \in 1..(n + m) /\ ~(n + i =< n) /\ (n + i) - n = i
        OBVIOUS
    <2> QED
        BY <1>3, <2>1
<1>7. (\A i \in 1..n : s[i] \in T) /\ \A i \in 1..m : t[i] \in T
    BY <1>4, <1>5, <1>6
<1>8. s \in [1..n -> T] /\ t \in [1..m -> T]
    BY <1>1, <1>7, LenProperties
<1> QED
    BY <1>8

LEMMA HeardPrefix ==
    ASSUME NEW S, NEW g \in Headings(S), NEW s \in Seq(S), NEW t \in Seq(S)
    PROVE  Prefix(Heard(s, g), Heard(s \o t, g))
<1>1. PICK h \in Seq(Values), k \in Seq(Values) : h = Heard(s, g) /\ k = Heard(t, g)
    BY HeardType
<1>2. Prefix(h, h \o k)
    BY PrefixOfConcat
<1> QED
    BY <1>1, <1>2, HeardConcat

\* Calls 1 to m, with the arguments of an account.
Table(H, m) == [i \in 1..m |-> [name |-> i, args |-> H[i]]]

LEMMA TableFacts ==
    ASSUME NEW H, NEW m \in Nat
    PROVE  /\ Len(Table(H, m)) = m /\ DOMAIN Table(H, m) = 1..m
           /\ \A i \in 1..m : Table(H, m)[i].name = i /\ Table(H, m)[i].args = H[i]
<1>1. PICK t : t = Table(H, m)
    OBVIOUS
<1>2. DOMAIN t = 1..m /\ \A i \in 1..m : t[i].name = i /\ t[i].args = H[i]
    BY <1>1 DEF Table
<1>3. PICK S : S = {t[i] : i \in 1..m}
    OBVIOUS
<1>4. t \in [1..m -> S]
    BY <1>1, <1>2, <1>3 DEF Table
<1>5. t \in Seq(S) /\ Len(t) = m
    BY <1>4
<1> QED
    BY <1>1, <1>2, <1>5

\* The chunks that were kept hold the account, and a part of them a part.
LEMMA KeptFacts ==
    ASSUME NEW P, NEW H \in Accounts, NEW n \in 0..MaxSaid, Kept(P, H, n)
    PROVE  TextIn(P) = H[0] /\ ToolsIn(P) = Table(H, n)
<1>1. P \in Seq(Chunks) /\ Named(P, n) /\ (\A i \in Nat : Heard(P, SayOf(i)) = H[i])
      /\ \A m \in 0..(n - 1) : \E i \in 1..Len(P) : Names1(P[i], m)
    BY DEF Kept
<1>2. n \in Nat
    BY StreamsAssumption
<1>3. PICK K \in 0..n :
          /\ ToolsIn(P) = [i \in 1..K |-> [name |-> i, args |-> Heard(P, SayOf(i))]]
          /\ \A m \in 0..(n - 1) : (\E i \in 1..Len(P) : Names1(P[i], m)) => m + 1 \in 1..K
    BY <1>1, ToolsAreHeard
<1>4. K = n
    <2>1. CASE n = 0
        BY <1>3, <2>1
    <2>2. CASE n # 0
        <3>1. n - 1 \in 0..(n - 1)
            BY <1>2, <2>2
        <3>2. (n - 1) + 1 \in 1..K
            BY <1>1, <1>3, <3>1
        <3> QED
            BY <1>2, <3>2
    <2> QED
        BY <2>1, <2>2
<1>5. \A i \in 1..n : Heard(P, SayOf(i)) = H[i]
    BY <1>1, <1>2
<1>6. ToolsIn(P) = Table(H, n)
    BY <1>3, <1>4, <1>5 DEF Table
<1>7. TextIn(P) = H[0]
    BY <1>1, TextIsHeard
<1> QED
    BY <1>6, <1>7

LEMMA NamedPrefix ==
    ASSUME NEW P \in Seq(Chunks), NEW R \in Seq(Chunks), NEW n, Named(P \o R, n)
    PROVE  Named(P, n)
<1>1. PICK len \in Nat, m \in Nat : len = Len(P) /\ m = Len(R)
    BY LenProperties
<1>2. PICK u : u = P \o R
    OBVIOUS
<1>3. Len(u) = len + m /\ \A i \in 1..(len + m) : u[i] = IF i =< len THEN P[i] ELSE R[i - len]
    BY <1>1, <1>2, ConcatProperties
<1>4. \A i \in 1..len : i \in 1..(len + m) /\ u[i] = P[i]
    BY <1>3
<1>5. \A j \in 1..len : \A i \in 1..j : i \in 1..len
    OBVIOUS
<1>6. Named(u, n)
    BY <1>2
<1> QED
    BY <1>1, <1>3, <1>4, <1>5, <1>6 DEF Named

\* What the client has is the text T and the first m calls with arguments G, and
\* is all of the account H with n calls when the answer is complete.
Understands(T, G, m, H, n) ==
    /\ m \in 0..n
    /\ GotText = T /\ T \in Seq(Values) /\ Prefix(T, H[0])
    /\ client # "responses" => GotTools = Table(G, m)
    /\ client = "responses" => GotTools = <<>> /\ m = 0
    /\ \A i \in 1..m : G[i] \in Seq(Values) /\ Prefix(G[i], H[i])
    /\ phase = "complete" =>
          /\ T = H[0]
          /\ client # "responses" => m = n /\ \A i \in 1..n : G[i] = H[i]

\* Of the chunks: [DONE] is none of them.
LEMMA ChatGot ==
    ASSUME Inv, client = "chat"
    PROVE  \E R \in Seq(Chunks) : /\ GotChunks \in Seq(Chunks)
                                  /\ GotChunks \o R = parts
                                  /\ phase = "complete" => R = <<>>
<1>1. PICK rest \in Seq(Wire), e \in BOOLEAN :
          /\ got \o rest = IF e THEN Append(parts, Event("DONE")) ELSE parts
          /\ phase # "gone" => queue = rest /\ (e <=> phase \in {"closing", "complete"})
    BY DEF Inv, SentInv, Serves
<1>2. got \in Seq(Wire) /\ parts \in Seq(Chunks) /\ (phase = "complete" => queue = <<>>)
    BY StateFacts DEF Inv, StateInv
<1>3. \A c \in Chunks : c # Event("DONE")
    <2> SUFFICES ASSUME NEW c \in Chunks, c = Event("DONE") PROVE FALSE
        OBVIOUS
    <2>1. "text" \in DOMAIN c
        BY DEF Chunks
    <2>2. "text" \notin DOMAIN Event("DONE")
        BY DEF Event
    <2> QED
        BY <2>1, <2>2
<1>4. ASSUME NEW r \in Seq(Wire), got \o r = parts
      PROVE  GotChunks = got /\ got \in Seq(Chunks) /\ r \in Seq(Chunks)
    <2>1. got \in Seq(Chunks) /\ r \in Seq(Chunks)
        BY <1>2, <1>4, Parted
    <2>2. got = <<>> \/ got[Len(got)] \in Chunks
        BY <2>1
    <2> QED
        BY <1>3, <2>1, <2>2 DEF GotChunks
<1>5. CASE ~e
    <2>1. GotChunks = got /\ got \in Seq(Chunks) /\ rest \in Seq(Chunks) /\ got \o rest = parts
        BY <1>1, <1>4, <1>5
    <2>2. phase # "complete"
        BY <1>1, <1>5
    <2> QED
        BY <2>1, <2>2
<1>6. CASE e /\ rest = <<>>
    <2>1. got = Append(parts, Event("DONE"))
        <3>1. got \o <<>> = got
            BY <1>2, ConcatEmptySeq
        <3> QED
            BY <1>1, <1>6, <3>1
    <2>2. parts \in Seq(Wire) /\ Event("DONE") \in Wire
        <3>1. Chunks \subseteq Wire /\ Event("DONE") \in Wire
            BY DEF Wire
        <3> QED
            BY <1>2, <3>1
    <2>3. PICK n \in Nat : n = Len(parts)
        BY <1>2, LenProperties
    <2>4. /\ got # <<>> /\ Len(got) = n + 1 /\ got[n + 1] = Event("DONE")
          /\ \A i \in 1..n : got[i] = parts[i]
        BY <2>1, <2>2, <2>3, AppendProperties
    <2>5. SubSeq(got, 1, n) = parts
        <3>1. \A i \in 1..n : got[i] \in Wire
            BY <2>2, <2>3, <2>4, ElementOfSeq
        <3>2. PICK v : v = SubSeq(got, 1, n)
            OBVIOUS
        <3>3. v \in Seq(Wire) /\ Len(v) = n /\ \A i \in 1..n : v[i] = got[i]
            <4>1. /\ SubSeq(got, 1, n) \in Seq(Wire)
                  /\ Len(SubSeq(got, 1, n)) = IF 1 =< n THEN n - 1 + 1 ELSE 0
                  /\ \A i \in 1..(n - 1 + 1) : SubSeq(got, 1, n)[i] = got[1 + i - 1]
                BY <3>1, SubSeqProperties
            <4>2. \A i \in 1..n : 1 + i - 1 = i
                OBVIOUS
            <4> QED
                BY <3>2, <4>1, <4>2
        <3>4. v = parts
            BY <2>2, <2>3, <2>4, <3>3, SeqEqual
        <3> QED
            BY <3>2, <3>4
    <2>6. GotChunks = parts
        <3>1. (n + 1) - 1 = n
            OBVIOUS
        <3> QED
            BY <2>4, <2>5, <3>1 DEF GotChunks
    <2>7. <<>> \in Seq(Chunks) /\ parts \o <<>> = parts
        BY <1>2, ConcatEmptySeq
    <2> QED
        BY <1>2, <2>6, <2>7
<1>7. CASE e /\ rest # <<>>
    <2>1. PICK r \in Seq(Wire), x \in Wire : rest = Append(r, x)
        BY <1>7, SequenceEmptyOrAppend
    <2>2. got \o Append(r, x) = Append(got \o r, x) /\ got \o r \in Seq(Wire)
        <3>1. <<x>> \in Seq(Wire) /\ got \o r \in Seq(Wire)
            BY <1>2, ConcatProperties
        <3>2. Append(r, x) = r \o <<x>> /\ Append(got \o r, x) = (got \o r) \o <<x>>
            BY <3>1, AppendIsConcat
        <3>3. (got \o r) \o <<x>> = got \o (r \o <<x>>)
            BY <1>2, <3>1, ConcatAssociative
        <3> QED
            BY <3>1, <3>2, <3>3
    <2>3. parts \in Seq(Wire) /\ Event("DONE") \in Wire
        <3>1. Chunks \subseteq Wire /\ Event("DONE") \in Wire
            BY DEF Wire
        <3> QED
            BY <1>2, <3>1
    <2>4. got \o r = parts
        <3>1. Append(got \o r, x) = Append(parts, Event("DONE"))
            BY <1>1, <1>7, <2>1, <2>2
        <3>2. PICK u \in Seq(Wire), v \in Seq(Wire), y \in Wire :
                  u = got \o r /\ v = parts /\ y = Event("DONE")
            BY <2>2, <2>3
        <3>3. Append(u, x) = Append(v, y) <=> u = v /\ x = y
            BY AppendInjective
        <3> QED
            BY <3>1, <3>2, <3>3
    <2>5. GotChunks = got /\ got \in Seq(Chunks) /\ r \in Seq(Chunks)
        BY <1>4, <2>4
    <2>6. phase # "complete"
        BY <1>1, <1>2, <1>7
    <2> QED
        BY <2>4, <2>5, <2>6
<1> QED
    BY <1>5, <1>6, <1>7

LEMMA ChatUnderstands ==
    ASSUME Inv, client = "chat"
    PROVE  \E T, G, m : Understands(T, G, m, Sayings(said), Calls(said))
<1>1. PICK H \in Accounts, n \in 0..MaxSaid : H = Sayings(said) /\ n = Calls(said)
    BY StateFacts
<1>2. PICK R \in Seq(Chunks), C \in Seq(Chunks) :
          C = GotChunks /\ C \o R = parts /\ (phase = "complete" => R = <<>>)
    BY ChatGot
<1>3. Kept(parts, H, n) /\ (\A i \in Nat : Heard(parts, SayOf(i)) = H[i]) /\ Named(parts, n)
    BY <1>1 DEF Inv, AuditInv, Kept
<1>4. PICK G : G = [i \in Nat |-> Heard(C, SayOf(i))]
    OBVIOUS
<1>5. \A i \in Nat : /\ G[i] = Heard(C, SayOf(i))
                      /\ G[i] \in Seq(Values) /\ Prefix(G[i], H[i])
    <2> SUFFICES ASSUME NEW i \in Nat
                 PROVE  /\ Heard(C, SayOf(i)) \in Seq(Values)
                        /\ Prefix(Heard(C, SayOf(i)), H[i])
        BY <1>4
    <2>1. SayOf(i) \in Headings(Chunks)
        BY SayOfFacts
    <2>2. Prefix(Heard(C, SayOf(i)), Heard(C \o R, SayOf(i)))
        BY <2>1, HeardPrefix
    <2>3. Heard(C, SayOf(i)) \in Seq(Values)
        BY <2>1, HeardType
    <2> QED
        BY <1>2, <1>3, <2>2, <2>3
<1>6. n \in Nat /\ MaxSaid \in Nat
    BY StreamsAssumption
<1>7. PICK m \in 0..n : ToolsIn(C) = Table(G, m)
    <2>1. Named(C, n)
        <3>1. Named(C \o R, n)
            BY <1>2, <1>3
        <3> QED
            BY <3>1, NamedPrefix
    <2>2. PICK K \in 0..n : ToolsIn(C) = [i \in 1..K |-> [name |-> i, args |-> Heard(C, SayOf(i))]]
        BY <2>1, ToolsAreHeard
    <2>3. \A i \in 1..K : G[i] = Heard(C, SayOf(i))
        BY <1>5
    <2> QED
        BY <2>2, <2>3 DEF Table
<1>8. GotText = G[0] /\ GotTools = Table(G, m)
    <2>1. TextIn(C) = G[0]
        BY <1>5, TextIsHeard
    <2> QED
        BY <1>2, <1>7, <2>1 DEF GotText, GotTools
<1>9. ASSUME phase = "complete" PROVE m = n /\ G[0] = H[0] /\ \A i \in 1..n : G[i] = H[i]
    <2>1. C = parts
        BY <1>2, <1>9, ConcatEmptySeq
    <2>2. \A i \in Nat : G[i] = H[i]
        BY <1>3, <1>5, <2>1
    <2>3. Table(G, m) = Table(H, n)
        BY <1>3, <1>7, <2>1, KeptFacts
    <2>4. m = n
        BY <1>6, <2>3, TableFacts
    <2> QED
        BY <1>6, <2>2, <2>4
<1>10. Understands(G[0], G, m, H, n)
    BY <1>5, <1>6, <1>8, <1>9 DEF Understands
<1> QED
    BY <1>1, <1>10

NameOf(i) == [e \in Events |-> IF e.type = "start" /\ e.index = i THEN e.name ELSE None]

LEMMA NameOfFacts ==
    ASSUME NEW i \in Nat
    PROVE  /\ NameOf(i) \in Headings(Events)
           /\ \A e \in Events : NameOf(i)[e] = IF e.type = "start" /\ e.index = i THEN e.name
                                              ELSE None
           /\ \A s \in Seq(Events) : Given(StartNames(s, i)) = Heard(s, NameOf(i))
<1>1. \A e \in Events : (IF e.type = "start" /\ e.index = i THEN e.name ELSE None) \in Nat
    BY EventFacts DEF None
<1>2. NameOf(i) \in Headings(Events)
    BY <1>1 DEF NameOf, Headings, Values
<1>3. ASSUME NEW s \in Seq(Events) PROVE Given(StartNames(s, i)) = Heard(s, NameOf(i))
    <2>1. \A j \in DOMAIN s : s[j] \in Events
        OBVIOUS
    <2> QED
        BY <2>1 DEF Heard, Column, StartNames, NameOf
<1> QED
    BY <1>2, <1>3 DEF NameOf

\* The blocks that a part of the events shows.
LEMMA BlocksOf ==
    ASSUME NEW n \in Nat, NEW s \in Seq(Events), s \in Seq(NamedEvents(n)),
           NEW R \in Seq(Events), Heard(s, StartOf) \o Heard(R, StartOf) = Upto(n)
    PROVE  \E m \in 0..n :
              /\ Given(Starts(s)) = Upto(m)
              /\ \A i \in 1..m : LastOf(Given(StartNames(s, i))) = i
              /\ Heard(R, StartOf) = <<>> => m = n
<1>0. StartOf \in Headings(Events)
    BY StartOfFacts
<1>1. PICK h \in Seq(Values), k \in Seq(Values) :
          h = Heard(s, StartOf) /\ k = Heard(R, StartOf) /\ h \o k = Upto(n)
    BY <1>0, HeardType
<1>2. PICK m \in Nat, l \in Nat : m = Len(h) /\ l = Len(k)
    BY LenProperties
<1>3. PICK u : u = h \o k
    OBVIOUS
<1>4. Len(u) = m + l /\ \A i \in 1..(m + l) : u[i] = IF i =< m THEN h[i] ELSE k[i - m]
    BY <1>2, <1>3, ConcatProperties
<1>5. Len(u) = n /\ \A i \in 1..n : u[i] = i
    <2>1. PICK v : v = Upto(n)
        OBVIOUS
    <2>2. v \in Seq(Nat) /\ Len(v) = n /\ \A i \in 1..n : v[i] = i
        BY <2>1 DEF Upto
    <2> QED
        BY <1>1, <1>3, <2>1, <2>2
<1>6. m \in 0..n /\ n = m + l /\ \A i \in 1..m : h[i] = i
    <2>1. n = m + l
        BY <1>4, <1>5
    <2>2. \A i \in 1..m : i \in 1..n /\ i \in 1..(m + l) /\ i =< m
        BY <2>1
    <2>3. \A i \in 1..m : h[i] = i
        BY <1>4, <1>5, <2>2
    <2> QED
        BY <2>1, <2>3
<1>7. h = Upto(m)
    <2>1. PICK v : v = Upto(m)
        OBVIOUS
    <2>2. v \in Seq(Nat) /\ Len(v) = m /\ \A i \in 1..m : v[i] = i
        BY <2>1 DEF Upto
    <2>3. h = v
        BY <1>2, <1>6, <2>2, SeqEqual
    <2> QED
        BY <2>1, <2>3
<1>8. ASSUME NEW i \in 1..m PROVE LastOf(Given(StartNames(s, i))) = i
    <2>1. i \in Nat /\ i # None
        BY DEF None
    <2>2. \A j \in 1..Len(s) : s[j] \in NamedEvents(n) /\ s[j] \in Events
        BY ElementOfSeq
    <2>3. PICK j \in 1..Len(s) : StartOf[s[j]] # None /\ h[i] = StartOf[s[j]]
        <3>1. \A r \in 1..Len(Heard(s, StartOf)) :
                 \E j \in 1..Len(s) : StartOf[s[j]] # None /\ Heard(s, StartOf)[r] = StartOf[s[j]]
            BY <1>0, HeardType
        <3> QED
            BY <1>1, <1>2, <3>1
    <2>4. s[j].type = "start" /\ s[j].index = i
        BY <1>6, <2>2, <2>3, StartOfFacts
    <2>5. /\ NameOf(i) \in Headings(Events)
          /\ \A e \in Events : NameOf(i)[e] = IF e.type = "start" /\ e.index = i THEN e.name
                                              ELSE None
          /\ Given(StartNames(s, i)) = Heard(s, NameOf(i))
        BY <2>1, NameOfFacts
    <2>6. \A q \in 1..Len(s) : NameOf(i)[s[q]] = None \/ NameOf(i)[s[q]] = i
        BY <2>2, <2>5 DEF NamedEvents
    <2>7. NameOf(i)[s[j]] = i
        BY <2>2, <2>4, <2>5 DEF NamedEvents
    <2>8. LastOf(Heard(s, NameOf(i))) = i
        <3>1. PICK g \in Headings(Events) : g = NameOf(i)
            BY <2>5
        <3>2. (\A q \in 1..Len(s) : g[s[q]] = None \/ g[s[q]] = i) /\ \E q \in 1..Len(s) : g[s[q]] = i
            BY <2>6, <2>7, <3>1
        <3>3. LastOf(Heard(s, g)) = i
            BY <2>1, <3>2, HeardLast
        <3> QED
            BY <3>1, <3>3
    <2> QED
        BY <2>5, <2>8
<1>9. Given(Starts(s)) = h
    BY <1>1, StartsAreHeard
<1>10. k = <<>> => m = n
    BY <1>2, <1>6, EmptySeq
<1> QED
    BY <1>1, <1>6, <1>7, <1>8, <1>9, <1>10

LEMMA ToldFacts ==
    ASSUME NEW F, NEW H \in Accounts, NEW n \in Nat, NEW a, ToldBy(F, H, n, a)
    PROVE  /\ F \in Seq(Events) /\ F \in Seq(NamedEvents(n))
           /\ \A i \in Nat : Heard(F, PieceOf(i)) = H[i]
           /\ Heard(F, StartOf) = Upto(n)
           /\ \A m \in 1..Len(F) : FineAt(F, m)
<1>1. CASE a.started
    BY <1>1 DEF ToldBy, Told
<1>2. CASE ~a.started
    <2>1. F = <<>> /\ H = Nothing /\ n = 0
        BY <1>2 DEF ToldBy
    <2>2. <<>> \in Seq(Events) /\ <<>> \in Seq(NamedEvents(n)) /\ Len(<<>>) = 0
        OBVIOUS
    <2>3. \A i \in Nat : Nothing[i] = <<>>
        BY DEF Nothing
    <2>4. Upto(0) = <<>>
        BY DEF Upto
    <2>5. \A m \in 1..Len(F) : FineAt(F, m)
        BY <2>1, <2>2
    <2> QED
        BY <2>1, <2>2, <2>3, <2>4, <2>5, HeardEmpty
<1> QED
    BY <1>1, <1>2

LEMMA MessagesUnderstand ==
    ASSUME Inv, client = "messages"
    PROVE  \E T, G, m : Understands(T, G, m, Sayings(said), Calls(said))
<1>1. PICK H \in Accounts, n \in Nat : H = Sayings(said) /\ n = Calls(said)
    BY StateFacts, StreamsAssumption
<1>2. PICK rest \in Seq(Wire) :
          ToldBy(got \o rest, H, n, adapter) /\ (phase # "gone" => queue = rest)
    BY <1>1 DEF Inv, SentInv, Serves
<1>3. PICK F : F = got \o rest
    OBVIOUS
<1>4. /\ F \in Seq(Events) /\ F \in Seq(NamedEvents(n))
      /\ \A i \in Nat : Heard(F, PieceOf(i)) = H[i]
      /\ Heard(F, StartOf) = Upto(n)
    BY <1>2, <1>3, ToldFacts
<1>5. /\ got \in Seq(Events) /\ rest \in Seq(Events) /\ got \in Seq(NamedEvents(n))
    <2>1. got \in Seq(Wire)
        BY DEF Inv, StateInv
    <2>2. got \o rest \in Seq(Events) /\ got \o rest \in Seq(NamedEvents(n))
        BY <1>3, <1>4
    <2>3. got \in Seq(Events) /\ rest \in Seq(Events)
        BY <2>1, <2>2, Parted
    <2>4. got \in Seq(NamedEvents(n))
        BY <2>1, <2>2, Parted
    <2> QED
        BY <2>3, <2>4
<1>6. PICK G : G = [i \in Nat |-> Heard(got, PieceOf(i))]
    OBVIOUS
<1>7. \A i \in Nat : /\ G[i] = Heard(got, PieceOf(i)) /\ G[i] = Given(Deltas(got, i))
                     /\ G[i] \in Seq(Values) /\ Prefix(G[i], H[i])
    <2> SUFFICES ASSUME NEW i \in Nat
                 PROVE  /\ Heard(got, PieceOf(i)) = Given(Deltas(got, i))
                        /\ Heard(got, PieceOf(i)) \in Seq(Values)
                        /\ Prefix(Heard(got, PieceOf(i)), H[i])
        BY <1>6
    <2>1. PieceOf(i) \in Headings(Events)
        BY PieceOfFacts
    <2>2. Prefix(Heard(got, PieceOf(i)), Heard(got \o rest, PieceOf(i)))
        BY <1>5, <2>1, HeardPrefix
    <2>3. Heard(got, PieceOf(i)) \in Seq(Values)
        BY <1>5, <2>1, HeardType
    <2> QED
        BY <1>3, <1>4, <1>5, <2>2, <2>3, DeltasAreHeard
<1>8. Heard(got, StartOf) \o Heard(rest, StartOf) = Upto(n)
    <2>1. StartOf \in Headings(Events)
        BY StartOfFacts
    <2>2. Heard(got \o rest, StartOf) = Heard(got, StartOf) \o Heard(rest, StartOf)
        BY <1>5, <2>1, HeardConcat
    <2> QED
        BY <1>3, <1>4, <2>2
<1>9. PICK m \in 0..n : /\ Given(Starts(got)) = Upto(m)
                        /\ \A i \in 1..m : LastOf(Given(StartNames(got, i))) = i
                        /\ Heard(rest, StartOf) = <<>> => m = n
    BY <1>5, <1>8, BlocksOf
<1>10. GotBlocks = Table(G, m)
    <2>1. DOMAIN Upto(m) = 1..m /\ \A j \in 1..m : Upto(m)[j] = j
        BY DEF Upto
    <2>2. GotBlocks = [j \in 1..m |-> [name |-> LastOf(Given(StartNames(got, j))),
                                       args |-> Given(Deltas(got, j))]]
        BY <1>9, <2>1 DEF GotBlocks
    <2>3. \A j \in 1..m : LastOf(Given(StartNames(got, j))) = j /\ Given(Deltas(got, j)) = G[j]
        BY <1>7, <1>9
    <2> QED
        BY <2>2, <2>3 DEF Table
<1>11. GotText = G[0] /\ GotTools = Table(G, m)
    BY <1>7, <1>10 DEF GotText, GotTools
<1>12. ASSUME phase = "complete" PROVE m = n /\ G[0] = H[0] /\ \A i \in 1..n : G[i] = H[i]
    <2>1. rest = <<>>
        BY <1>2, <1>12 DEF Inv, StateInv
    <2>2. F = got
        BY <1>3, <1>5, <2>1, ConcatEmptySeq
    <2>3. \A i \in Nat : G[i] = H[i]
        BY <1>4, <1>7, <2>2
    <2> QED
        BY <1>9, <2>1, <2>3, HeardEmpty
<1>13. Understands(G[0], G, m, H, n)
    BY <1>7, <1>11, <1>12 DEF Understands
<1> QED
    BY <1>1, <1>13

LEMMA ResponsesUnderstand ==
    ASSUME Inv, client = "responses"
    PROVE  \E T, G, m : Understands(T, G, m, Sayings(said), Calls(said))
<1>1. PICK H \in Accounts, n \in Nat : H = Sayings(said) /\ n = Calls(said)
    BY StateFacts, StreamsAssumption
<1>2. PICK rest \in Seq(Wire) :
          WrittenBy(got \o rest, H[0], adapter) /\ (phase # "gone" => queue = rest)
    BY <1>1 DEF Inv, SentInv, Serves
<1>3. PICK F : F = got \o rest
    OBVIOUS
<1>4. F \in Seq(Events) /\ Heard(F, PieceOf(0)) = H[0]
    <2>1. <<>> \in Seq(Events) /\ Heard(<<>>, PieceOf(0)) = <<>>
        BY HeardEmpty
    <2> QED
        BY <1>2, <1>3, <2>1 DEF WrittenBy, Written
<1>5. got \in Seq(Events) /\ rest \in Seq(Events)
    <2>1. got \in Seq(Wire) /\ got \o rest \in Seq(Events)
        BY <1>3, <1>4 DEF Inv, StateInv
    <2> QED
        BY <2>1, Parted
<1>6. PICK T : T = Heard(got, PieceOf(0))
    OBVIOUS
<1>7. GotText = T /\ T \in Seq(Values) /\ Prefix(T, H[0])
    <2>1. PieceOf(0) \in Headings(Events)
        BY PieceOfFacts
    <2>2. Prefix(Heard(got, PieceOf(0)), Heard(got \o rest, PieceOf(0)))
        BY <1>5, <2>1, HeardPrefix
    <2>3. Given(Deltas(got, 0)) = Heard(got, PieceOf(0))
        BY <1>5, DeltasAreHeard
    <2>4. Heard(got, PieceOf(0)) \in Seq(Values)
        BY <1>5, <2>1, HeardType
    <2> QED
        BY <1>3, <1>4, <1>6, <2>2, <2>3, <2>4 DEF GotText
<1>8. phase = "complete" => T = H[0]
    <2>1. phase = "complete" => rest = <<>>
        BY <1>2 DEF Inv, StateInv
    <2>2. phase = "complete" => F = got
        BY <1>3, <1>5, <2>1, ConcatEmptySeq
    <2> QED
        BY <1>4, <1>6, <2>2
<1>9. GotTools = <<>> /\ 0 \in 0..n /\ \A i \in 1..0 : FALSE
    BY DEF GotTools
<1>10. Understands(T, H, 0, H, n)
    BY <1>7, <1>8, <1>9 DEF Understands
<1> QED
    BY <1>1, <1>10

LEMMA Understanding ==
    ASSUME Inv
    PROVE  \E T, G, m : Understands(T, G, m, Sayings(said), Calls(said))
BY ChatUnderstands, MessagesUnderstand, ResponsesUnderstand, StreamsAssumption DEF Inv, StateInv

LEMMA EndedFacts ==
    ASSUME NEW F, Ended(F)
    PROVE  /\ Len(F) \in Nat /\ Len(F) # 0 /\ DOMAIN F = 1..Len(F)
           /\ F[Len(F)].type \in Last
           /\ \A k \in 1..Len(F) : F[k].type \in Last => k = Len(F)
<1>1. PICK A \in Seq(NotLast), e \in Events : e.type \in Last /\ F = A \o <<e>>
    BY DEF Ended
<1>2. \A k \in 1..Len(A) : A[k].type \notin Last
    <2>1. \A k \in 1..Len(A) : A[k] \in NotLast
        BY ElementOfSeq
    <2> QED
        BY <2>1 DEF NotLast
<1>3. NotLast \subseteq Events
    BY DEF NotLast
<1>4. A \in Seq(Events)
    BY <1>3
<1>5. PICK n \in Nat : n = Len(A)
    BY LenProperties
<1>6. F = Append(A, e)
    BY <1>1, <1>4, AppendIsConcat
<1>7. /\ F \in Seq(Events) /\ Len(F) = n + 1 /\ F[n + 1] = e
      /\ \A k \in 1..n : F[k] = A[k]
    <2>1. /\ Append(A, e) \in Seq(Events) /\ Len(Append(A, e)) = Len(A) + 1
          /\ Append(A, e)[Len(A) + 1] = e
          /\ \A k \in 1..Len(A) : Append(A, e)[k] = A[k]
        BY <1>4, AppendProperties
    <2> QED
        BY <1>5, <1>6, <2>1
<1>8. \A k \in 1..(n + 1) : k \in 1..n \/ k = n + 1
    OBVIOUS
<1>9. DOMAIN F = 1..Len(F)
    BY <1>7, LenProperties
<1> QED
    BY <1>1, <1>2, <1>5, <1>7, <1>8, <1>9

LEMMA InvTypeOK == Inv => TypeOK
<1> SUFFICES ASSUME Inv PROVE TypeOK
    OBVIOUS
<1>1. PICK F, e : Serves(client, adapter, parts, F, Sayings(said), Calls(said), e)
    BY DEF Inv, SentInv
<1>2. parts \in Seq(Chunks) /\ Calls(said) \in Nat
    BY StateFacts, StreamsAssumption
<1>3. upstream \in Upstreams /\ client \in Clients /\ conv.next \in 0..Calls(said)
      /\ phase \in {"open", "closing", "complete", "failed", "gone"}
    BY <1>2 DEF Inv, StateInv, ConvInv
<1>4. adapter.open \subseteq DOMAIN adapter.blocks /\ (adapter.textOpen => adapter.open = {})
    <2>1. CASE client = "chat"
        BY <1>1, <2>1 DEF Serves, NoAdapter
    <2>2. CASE client = "messages"
        <3>1. PICK n \in Nat : n = Calls(said) /\ Writes(adapter, n)
            BY <1>1, <1>2, <2>2 DEF Serves, ToldBy
        <3>2. DOMAIN adapter.blocks = 1..n
            BY <3>1, IndexedFacts DEF Writes
        <3>3. \/ adapter.open = {}
              \/ adapter.open = 1..n /\ (adapter.textOpen <=> n = 0)
            BY <3>1 DEF Writes, OpenFor
        <3> QED
            BY <3>2, <3>3
    <2>3. CASE client = "responses"
        BY <1>1, <2>3 DEF Serves, WrittenBy
    <2> QED
        BY <1>3, <2>1, <2>2, <2>3, StreamsAssumption
<1> QED
    BY <1>2, <1>3, <1>4 DEF TypeOK

\* What the audit and the history hold.
LEMMA Audited ==
    ASSUME Inv
    PROVE  /\ AuditText = Filtered(Sayings(said))[0]
           /\ AuditTools = Table(Filtered(Sayings(said)), Calls(said))
           /\ SaidText = Sayings(said)[0]
           /\ SaidTools = Table(Sayings(said), Calls(said))
<1>1. PICK H \in Accounts, n \in 0..MaxSaid : H = Sayings(said) /\ n = Calls(said)
    BY StateFacts
<1>2. PICK F \in Accounts : F = Filtered(H)
    BY FilteredFacts
<1>3. Kept(Extracted(parts), F, n)
    BY <1>1, <1>2 DEF Inv, AuditInv
<1>4. AuditText = F[0] /\ AuditTools = Table(F, n)
    BY <1>3, KeptFacts DEF AuditText, AuditTools
<1>5. H[0] = Given(TextNumbers(said)) /\ \A i \in Nat \ {0} : H[i] = Given(ArgsNumbers(said, i))
    BY <1>1, StateFacts, SayingsFacts
<1>6. \A i \in 1..n : i \in Nat \ {0}
    BY StreamsAssumption
<1>7. SaidTools = Table(H, n)
    BY <1>1, <1>5, <1>6 DEF SaidTools, SaidArgs, Table
<1> QED
    BY <1>1, <1>2, <1>4, <1>5, <1>7 DEF SaidText

\* A part of an account, heard in part.
LEMMA AudiblePrefix ==
    ASSUME NEW t \in Seq(Values), NEW h \in Seq(Values), Prefix(t, h)
    PROVE  Prefix(Audible(t), Audible(h))
<1>1. PICK n \in Nat, m \in Nat : n = Len(t) /\ m = Len(h) /\ n =< m
    <2>1. Len(t) \in Nat /\ Len(h) \in Nat
        BY LenProperties
    <2> QED
        BY <2>1 DEF Prefix
<1>2. PICK r : r = SubSeq(h, n + 1, m)
    OBVIOUS
<1>3. \A i \in 1..m : h[i] \in Values
    BY <1>1, ElementOfSeq
<1>4. \A i \in 1..n : t[i] = h[i]
    <2>1. \A i \in 1..n : h[i] \in Values
        BY <1>1, <1>3
    <2>2. PICK v : v = SubSeq(h, 1, n)
        OBVIOUS
    <2>3. \A i \in 1..n : v[i] = h[i]
        <3>1. /\ SubSeq(h, 1, n) \in Seq(Values)
              /\ \A i \in 1..(n - 1 + 1) : SubSeq(h, 1, n)[i] = h[1 + i - 1]
            BY <2>1, SubSeqProperties
        <3>2. \A i \in 1..n : i \in 1..(n - 1 + 1) /\ 1 + i - 1 = i
            OBVIOUS
        <3> QED
            BY <2>2, <3>1, <3>2
    <2> QED
        BY <1>1, <2>2, <2>3 DEF Prefix
<1>5. r \in Seq(Values) /\ Len(r) = m - n /\ \A i \in 1..(m - n) : r[i] = h[n + i]
    <2>1. \A i \in (n + 1)..m : h[i] \in Values
        BY <1>1, <1>3
    <2>2. /\ SubSeq(h, n + 1, m) \in Seq(Values)
          /\ Len(SubSeq(h, n + 1, m)) = IF n + 1 =< m THEN m - (n + 1) + 1 ELSE 0
          /\ \A i \in 1..(m - (n + 1) + 1) : SubSeq(h, n + 1, m)[i] = h[(n + 1) + i - 1]
        BY <1>1, <2>1, SubSeqProperties
    <2>3. m - (n + 1) + 1 = m - n /\ \A i \in 1..(m - n) : (n + 1) + i - 1 = n + i
        BY <1>1
    <2> QED
        BY <1>1, <1>2, <2>2, <2>3
<1>6. PICK u \in Seq(Values) : u = t \o r
    BY <1>5, ConcatProperties
<1>7. Len(u) = m /\ \A i \in 1..m : u[i] = IF i =< n THEN t[i] ELSE r[i - n]
    <2>1. /\ Len(t \o r) = Len(t) + Len(r)
          /\ \A i \in 1..(Len(t) + Len(r)) :
                (t \o r)[i] = IF i =< Len(t) THEN t[i] ELSE r[i - Len(t)]
        BY <1>5, ConcatProperties
    <2>2. Len(t) + Len(r) = m
        BY <1>1, <1>5
    <2> QED
        BY <1>1, <1>6, <2>1, <2>2
<1>8. \A i \in 1..m : u[i] = h[i]
    <2> SUFFICES ASSUME NEW i \in 1..m PROVE u[i] = h[i]
        OBVIOUS
    <2>1. CASE i =< n
        BY <1>4, <1>7, <2>1
    <2>2. CASE ~(i =< n)
        <3>1. i - n \in 1..(m - n) /\ n + (i - n) = i
            BY <1>1, <2>2
        <3> QED
            BY <1>5, <1>7, <2>2, <3>1
    <2> QED
        BY <2>1, <2>2
<1>9. u = h
    BY <1>1, <1>7, <1>8, SeqEqual
<1>10. Whole \in Headings(Values)
    BY DEF Whole, Headings, Values, None
<1>11. Prefix(Heard(t, Whole), Heard(t \o r, Whole))
    BY <1>5, <1>10, HeardPrefix
<1> QED
    BY <1>6, <1>9, <1>11, AudibleIsHeard

LEMMA InvNothingUnaudited == Inv => NothingUnaudited
<1> SUFFICES ASSUME Inv PROVE NothingUnaudited
    OBVIOUS
<1>1. PICK H \in Accounts, n \in Nat : H = Sayings(said) /\ n = Calls(said)
    BY StateFacts, StreamsAssumption
<1>2. PICK T, G, m : Understands(T, G, m, H, n)
    BY <1>1, Understanding
<1>3. m \in 0..n /\ m \in Nat /\ \A i \in 1..m : i \in 1..n
    BY <1>2 DEF Understands
<1>4. PICK F \in Accounts : /\ F = Filtered(H) /\ \A i \in Nat : F[i] = Audible(H[i])
    BY FilteredFacts
<1>5. AuditText = F[0] /\ AuditTools = Table(F, n)
    BY <1>1, <1>4, Audited
<1>6. \A t \in Seq(Values) : \A i \in Nat : Prefix(t, H[i]) => Prefix(Audible(t), F[i])
    <2> SUFFICES ASSUME NEW t \in Seq(Values), NEW i \in Nat, Prefix(t, H[i]) PROVE Prefix(Audible(t), Audible(H[i]))
        BY <1>4
    <2>1. PICK h \in Seq(Values) : h = H[i]
        BY DEF Accounts
    <2> QED
        BY <2>1, AudiblePrefix
<1>7. Prefix(Audible(GotText), AuditText)
    BY <1>2, <1>5, <1>6 DEF Understands
<1>8. Len(AuditTools) = n
    BY <1>5, TableFacts
<1>9. CASE client = "responses"
    <2>1. GotTools = <<>>
        BY <1>2, <1>9 DEF Understands
    <2>2. Len(<<>>) = 0 /\ DOMAIN <<>> = {} /\ 0 =< n
        OBVIOUS
    <2> QED
        BY <1>7, <1>8, <2>1, <2>2 DEF NothingUnaudited
<1>10. CASE client # "responses"
    <2>1. GotTools = Table(G, m) /\ \A i \in 1..m : G[i] \in Seq(Values) /\ Prefix(G[i], H[i])
        BY <1>2, <1>10 DEF Understands
    <2>2. /\ Len(GotTools) = m /\ DOMAIN GotTools = 1..m
          /\ \A i \in 1..m : GotTools[i].name = i /\ GotTools[i].args = G[i]
        BY <1>3, <2>1, TableFacts
    <2>3. \A i \in 1..n : AuditTools[i].name = i /\ AuditTools[i].args = F[i]
        BY <1>5, TableFacts
    <2>4. \A i \in 1..m : i \in Nat /\ Prefix(Audible(G[i]), F[i])
        BY <1>6, <2>1
    <2>5. \A i \in 1..m : /\ GotTools[i].name = AuditTools[i].name
                          /\ Prefix(Audible(GotTools[i].args), AuditTools[i].args)
        BY <1>3, <2>2, <2>3, <2>4
    <2> QED
        BY <1>3, <1>7, <1>8, <2>2, <2>5 DEF NothingUnaudited
<1> QED
    BY <1>9, <1>10

LEMMA InvDeliveredAsSaid == Inv => DeliveredAsSaid
<1> SUFFICES ASSUME Inv, phase = "complete"
             PROVE  /\ GotText = SaidText /\ AuditText = Audible(SaidText)
                    /\ client # "responses" => GotTools = SaidTools
                    /\ AuditTools = AudibleTools(SaidTools)
    BY DEF DeliveredAsSaid
<1>1. PICK H \in Accounts, n \in Nat : H = Sayings(said) /\ n = Calls(said)
    BY StateFacts, StreamsAssumption
<1>2. PICK T, G, m : Understands(T, G, m, H, n)
    BY <1>1, Understanding
<1>3. GotText = H[0]
    BY <1>2 DEF Understands
<1>4. client # "responses" => GotTools = Table(H, n)
    BY <1>2 DEF Understands, Table
<1>5. AuditText = Audible(H[0]) /\ AuditTools = Table(Filtered(H), n)
    BY <1>1, Audited, FilteredFacts
<1>6. SaidText = H[0] /\ SaidTools = Table(H, n)
    BY <1>1, Audited
<1>7. AudibleTools(Table(H, n)) = Table(Filtered(H), n)
    <2>1. \A i \in 1..n : Filtered(H)[i] = Audible(H[i])
        BY FilteredFacts
    <2> QED
        BY <2>1, TableFacts DEF AudibleTools, Table
<1> QED
    BY <1>3, <1>4, <1>5, <1>6, <1>7

LEMMA InvDeltasHitOpenBlocks == Inv => DeltasHitOpenBlocks
<1> SUFFICES ASSUME Inv, client = "messages", NEW k \in DOMAIN got PROVE FineAt(got, k)
    BY DEF DeltasHitOpenBlocks, FineAt
<1>1. PICK H \in Accounts, n \in Nat : H = Sayings(said) /\ n = Calls(said)
    BY StateFacts, StreamsAssumption
<1>2. PICK rest \in Seq(Wire) : ToldBy(got \o rest, H, n, adapter)
    BY <1>1 DEF Inv, SentInv, Serves
<1>3. got \o rest \in Seq(Events) /\ \A m \in 1..Len(got \o rest) : FineAt(got \o rest, m)
    BY <1>2, ToldFacts
<1>4. got \in Seq(Events) /\ rest \in Seq(Events)
    <2>1. got \in Seq(Wire)
        BY DEF Inv, StateInv
    <2> QED
        BY <1>3, <2>1, Parted
<1>5. k \in 1..Len(got) /\ k \in 1..Len(got \o rest)
    BY <1>4, LenProperties, ConcatProperties
<1> QED
    BY <1>3, <1>4, <1>5, FineBefore

LEMMA InvClosedOnce == Inv => ClosedOnce
<1> SUFFICES ASSUME Inv, phase = "complete", client # "chat", got # <<>>
             PROVE  /\ got[Len(got)].type \in Last
                    /\ \A k \in DOMAIN got : got[k].type \in Last => k = Len(got)
                    /\ \A k \in DOMAIN got : got[k].type = "start" =>
                          \E j \in DOMAIN got : /\ got[j] = Stop(got[k].index)
                                                /\ \A x \in DOMAIN got : got[x] = got[j] => x = j
    BY DEF ClosedOnce
<1>1. PICK H \in Accounts, n \in Nat : H = Sayings(said) /\ n = Calls(said)
    BY StateFacts, StreamsAssumption
<1>2. Serves(client, adapter, parts, got, H, n, TRUE)
    <2>1. PICK rest \in Seq(Wire), e \in BOOLEAN :
              /\ Serves(client, adapter, parts, got \o rest, H, n, e)
              /\ phase # "gone" => queue = rest /\ (e <=> phase \in {"closing", "complete"})
        BY <1>1 DEF Inv, SentInv
    <2>2. rest = <<>> /\ e = TRUE /\ got \in Seq(Wire)
        BY <2>1 DEF Inv, StateInv
    <2>3. got \o <<>> = got
        BY <2>2, ConcatEmptySeq
    <2> QED
        BY <2>1, <2>2, <2>3
<1>3. CASE client = "messages"
    <2>1. Told(got, H, n, TRUE)
        <3>1. adapter.started
            BY <1>2, <1>3 DEF Serves, ToldBy
        <3>2. adapter.done /\ adapter \in Adapters
            BY <1>2, <3>1, StateFacts DEF Serves
        <3>3. adapter.done = TRUE
            BY <3>2 DEF Adapters
        <3> QED
            BY <1>2, <1>3, <3>1, <3>3 DEF Serves, ToldBy
    <2>2. /\ Ended(got) /\ got \in Seq(NamedEvents(n))
          /\ \A i \in Nat : ClosedBlock(i, n, TRUE) => StoppedOnce(got, i)
        BY <2>1 DEF Told
    <2>3. /\ DOMAIN got = 1..Len(got) /\ got[Len(got)].type \in Last
          /\ \A k \in 1..Len(got) : got[k].type \in Last => k = Len(got)
        BY <2>2, EndedFacts
    <2>4. ASSUME NEW k \in DOMAIN got, got[k].type = "start"
          PROVE  \E j \in DOMAIN got : /\ got[j] = Stop(got[k].index)
                                       /\ \A x \in DOMAIN got : got[x] = got[j] => x = j
        <3>1. got[k] \in NamedEvents(n)
            <4>1. k \in 1..Len(got)
                BY <2>3, <2>4
            <4> QED
                BY <2>2, <4>1, ElementOfSeq
        <3>2. PICK i \in 0..n : got[k].index = i
            BY <2>4, <3>1 DEF NamedEvents
        <3>3. StoppedOnce(got, i)
            BY <2>2, <3>2 DEF ClosedBlock
        <3> QED
            BY <2>3, <3>2, <3>3 DEF StoppedOnce
    <2> QED
        BY <2>3, <2>4
<1>4. CASE client = "responses"
    <2>1. PICK h : Written(got, h, TRUE)
        <3>1. adapter.started
            BY <1>2, <1>4 DEF Serves, WrittenBy
        <3>2. adapter.done /\ adapter \in Adapters
            BY <1>2, <3>1, StateFacts DEF Serves
        <3>3. adapter.done = TRUE
            BY <3>2 DEF Adapters
        <3> QED
            BY <1>2, <1>4, <3>1, <3>3 DEF Serves, WrittenBy
    <2>2. Ended(got) /\ got \in Seq(NotStart)
        BY <2>1 DEF Written
    <2>3. /\ DOMAIN got = 1..Len(got) /\ got[Len(got)].type \in Last
          /\ \A k \in 1..Len(got) : got[k].type \in Last => k = Len(got)
        BY <2>2, EndedFacts
    <2>4. \A k \in DOMAIN got : got[k].type # "start"
        <3>1. \A k \in 1..Len(got) : got[k] \in NotStart
            BY <2>2, ElementOfSeq
        <3> QED
            BY <2>3, <3>1 DEF NotStart
    <2> QED
        BY <2>3, <2>4
<1> QED
    BY <1>3, <1>4, StreamsAssumption DEF Inv, StateInv

-----------------------------------------------------------------------------
(* The theorems.                                                           *)

\* The chunks kept for the audit, the converter's next index and the adapter's
\* open blocks are well formed throughout (satori_gateway/adapters/anthropic.py
\* translate_sse, satori_gateway/pipelines/anthropic.py translate_sse_data).
THEOREM StreamsAreTyped == Spec => []TypeOK
BY Invariant, InvTypeOK, PTL

\* Whatever the client has understood, in its own protocol and at any moment, the
\* failure of the upstream and the client's leaving included, is the beginning of
\* what _finalize extracts for the audit.
THEOREM NothingIsUnaudited == Spec => []NothingUnaudited
BY Invariant, InvNothingUnaudited, PTL

\* An answer delivered to its end is the one the model gave, for the client and
\* for the audit, through AnthropicConverter and through both adapters, for any
\* number of blocks, calls and pieces.
THEOREM AnswersAreDelivered == Spec => []DeliveredAsSaid
BY Invariant, InvDeliveredAsSaid, PTL

\* The events of AnthropicAdapter add only to blocks that are open, but for the
\* text after a call.
THEOREM DeltasHaveTheirBlocks == Spec => []DeltasHitOpenBlocks
BY Invariant, InvDeltasHitOpenBlocks, PTL

\* Whether the upstream finishes, counts later or hangs up, the closing of
\* translate_sse or finish_sse comes once, with every block, and last.
THEOREM StreamsCloseOnce == Spec => []ClosedOnce
BY Invariant, InvClosedOnce, PTL
=============================================================================
