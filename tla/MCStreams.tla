----------------------------- MODULE MCStreams -----------------------------
(* Every pair of an upstream and a client, answers of up to six pieces. *)
EXTENDS Streams
=============================================================================
