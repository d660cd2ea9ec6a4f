------------------------------ MODULE MCLedger ------------------------------
(* A ledger small enough to enumerate: the line at 3, watch at 2, floor at 1. *)
EXTENDS Ledger

\* 0.5 ** dt with a tick of one half-life, rounded down.
HalfLife == [s \in Scores |-> [a \in Times |-> s \div (2 ^ a)]]

MCHits == {-1, 2, 3}
=============================================================================
