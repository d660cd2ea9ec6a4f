------------------------------- MODULE Picking -------------------------------
(***************************************************************************)
(* The comprehension [x for x in s if ...], which keeps the order: which   *)
(* entries it keeps is given by the set of their places.  SelectSeq takes  *)
(* an operator instead, about which nothing can be proved here.            *)
(***************************************************************************)
EXTENDS Integers, Sequences, FiniteSets

\* How many of the places are k or come before it.
Rank(places, k) == Cardinality({j \in places : j =< k})

\* The n-th of the places.
Place(places, n) == CHOOSE k \in places : Rank(places, k) = n

\* The places from the first to the last.
InOrder(places) == [n \in 1..Cardinality(places) |-> Place(places, n)]

\* The entries of s at these places, in the order of s.
Picked(s, places) == [n \in 1..Cardinality(places) |-> s[Place(places, n)]]
=============================================================================
