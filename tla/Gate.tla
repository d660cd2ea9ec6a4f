-------------------------------- MODULE Gate --------------------------------
(***************************************************************************)
(* What the suspicion ledger promises to the requests that pass the        *)
(* gateway, without pockets, scores, clocks or handlers: per upstream x    *)
(* model, is the total over the line, does some handler still owe a trip,  *)
(* and is the breaker open.  Module Ledger implements it, module Proxy     *)
(* uses it.                                                                *)
(***************************************************************************)

CONSTANT Keys

VARIABLES
    degraded,   \* is the effective total at or over suspicion_threshold
    owed,       \* a handler crossed the line and has not opened the breaker yet
    breaker     \* is the key in breakers

gate == <<degraded, owed, breaker>>

Init == /\ degraded = [k \in Keys |-> FALSE]
        /\ owed = [k \in Keys |-> FALSE]
        /\ breaker = [k \in Keys |-> FALSE]

\* Evidence about k: whoever takes the total over the line owes the trip, and a
\* trip is owed for no other reason.
Accuse(k) ==
    \E over, due \in BOOLEAN :
        /\ over /\ ~degraded[k] => due
        /\ owed[k] => due
        /\ due => owed[k] \/ over
        /\ degraded' = [degraded EXCEPT ![k] = over]
        /\ owed' = [owed EXCEPT ![k] = due]
        /\ UNCHANGED breaker

\* A trip that was owed is made; another handler may still owe one.
Open(k) ==
    \E due \in BOOLEAN :
        /\ owed[k]
        /\ owed' = [owed EXCEPT ![k] = due]
        /\ breaker' = [breaker EXCEPT ![k] = TRUE]
        /\ UNCHANGED degraded

\* Time, passing tests and rulings on a pocket only bring totals down.
Relieve(K) ==
    /\ degraded' = [k \in Keys |-> degraded[k] /\ k \notin K]
    /\ UNCHANGED <<owed, breaker>>

\* A human resets the breaker; a trip that is owed stays owed.
Reset(k) ==
    /\ degraded' = [degraded EXCEPT ![k] = FALSE]
    /\ breaker' = [breaker EXCEPT ![k] = FALSE]
    /\ UNCHANGED owed

Next == \/ \E k \in Keys : Accuse(k) \/ Open(k) \/ Reset(k)
        \/ \E K \in SUBSET Keys : Relieve(K)

\* No trip is owed forever: the handler that owes it waits for dashboards only.
TripsAreMade == \A k \in Keys : owed[k] ~> breaker[k]

Spec == Init /\ [][Next]_gate /\ TripsAreMade

-----------------------------------------------------------------------------
\* The gate is never left open to a degraded model for good: the breaker is
\* open or its trip is on the way.
NeverSilent == \A k \in Keys : degraded[k] => breaker[k] \/ owed[k]
=============================================================================
