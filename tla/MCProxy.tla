------------------------------ MODULE MCProxy ------------------------------
(* Two handlers on one model, one drift watch, room for two of three sessions. *)
EXTENDS Proxy, TLC

CONSTANTS r1, r2, k1, s1, s2, s3

MCRequests == {r1, r2}
MCSessions == {s1, s2, s3}
MCDrifts   == <<"token">>

\* Baselines and samples in units where the tolerance is 1; alpha is a half.
MCBlend == [e \in 0..4 |-> [v \in 0..4 |-> (e + v) \div 2]]
MCFar   == {p \in (0..4) \X (0..4) : p[1] - p[2] > 1 \/ p[2] - p[1] > 1}

\* A rate of 0, 1 or 2 moves by one.
MCRateUp   == [e \in 0..2 |-> IF e = 2 THEN 2 ELSE e + 1]
MCRateDown == [e \in 0..2 |-> IF e = 0 THEN 0 ELSE e - 1]

Call(n, a) == [name |-> n, args |-> a, declared |-> TRUE]
MCChains   == {<<>>, <<Call("f", "x")>>, <<Call("f", "x"), Call("f", "x")>>}

Alike == Permutations(MCRequests) \cup Permutations(MCSessions)
=============================================================================
