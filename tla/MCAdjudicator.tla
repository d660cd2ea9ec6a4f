---------------------------- MODULE MCAdjudicator ----------------------------
(* Two models run a test of the same name at levels of their own.  Thresholds *)
(* stay under the three samples of a flaky verdict, as 3 and 5 do under 20.    *)
EXTENDS Adjudicator, TLC

CONSTANTS bot, dev, anon, t1, t2, x1, x2, x3, x4

MCTests  == {t1, t2}
MCTraces == {x1, x2, x3, x4}
MCNameOf == [t \in MCTests |-> "name"]

MCWiring == [reporter : {bot, dev}, test : {t1}, level : {"L0"}]
       \cup [reporter : {bot}, test : {t1, t2}, level : {"L1"}]
       \cup [reporter : {anon}, test : {t1}, level : {"L0"}]

MCTrustOf   == bot :> "trusted" @@ dev :> "normal" @@ anon :> "unverified"
MCThreshold == [L0 |-> 2, L1 |-> 1, L3 |-> 0]

TracesAlike == Permutations(MCTraces)
=============================================================================
