----------------------------- MODULE MCReporting -----------------------------
(* A pytest session and a run of satori-test-report over one queue file that  *)
(* report on one test, which fails the same way every time.                   *)
EXTENDS Reporting

CONSTANTS plugin, cli, fails

MCKeyOf == [r \in {fails} |-> "the test, first attempt"]

\* A run in which every test was skipped reports nothing and still flushes.
MCRuns == [c \in {plugin, cli} |-> {<<>>, <<fails>>}]
=============================================================================
