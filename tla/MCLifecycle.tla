---------------------------- MODULE MCLifecycle ----------------------------
(* Two references, a reporter and an operator, a baseline good for three moments. *)
EXTENDS Lifecycle

CONSTANTS fingerprint, answers, u1, op, update

MCKinds     == {fingerprint, answers}
MCReporters == {u1}
MCOperators == {op}
MCBodies    == {update}
MCWeights   == {100, 50}
=============================================================================
