-------------------------- MODULE MCConfigDecision --------------------------
EXTENDS ConfigDecision, TLC

CONSTANTS a, b

MCRank == (a :> 1) @@ (b :> 2)
MCRoutesOf == [narrow |-> {"r1"}, wide |-> {"r1", "r2"}, mixed |-> {"r1", "r2"}, enterprise |-> {"r3"}]

\* mixed is invalid at r2 only, enterprise as CE, wide with a clashing policy;
\* enterprise and a policy of any content fail only together.  v2 accepts what
\* v1 says of mixed.
MCJudges(v, key) ==
  /\ key.root # "broken"
  /\ \A en \in key.entries :
       /\ en.policy # "bad"
       /\ ~(en.spec = "mixed" /\ en.route = "r2" /\ v = "v1")
       /\ ~(en.spec = "enterprise" /\ key.edition = "CE")
       /\ ~(en.spec = "wide" /\ en.policy = "clashing")
  /\ ~({"enterprise", "narrow"} \subseteq {en.spec : en \in key.entries})

Given(sa, sb) == [root |-> "sound", edition |-> "EE", spec |-> (a :> sa) @@ (b :> sb), policy |-> "good"]

MCInputs == {Given("narrow", "mixed"), Given("wide", "wide"), Given("enterprise", "narrow")}
=============================================================================
