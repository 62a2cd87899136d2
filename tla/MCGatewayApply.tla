--------------------------- MODULE MCGatewayApply ---------------------------
(* Small instances of GatewayApply for TLC.                                *)
EXTENDS GatewayApply

CONSTANTS c1, c2, c3

\* Three endpoint sets whose renders do not depend on the edition; the third is
\* rejected.
ThreeInputs   == {1, 2, 3}
ThreeConfigs  == {c1, c2, c3}
ThreeRenders  == << [CE |-> c1, EE |-> c1], [CE |-> c2, EE |-> c2], [CE |-> c3, EE |-> c3] >>
ThreeAccepted == {<<c1, "CE">>, <<c1, "EE">>, <<c2, "EE">>, <<c2, "CE">>}

\* Two endpoint sets.  The first renders differently for each edition; the
\* second renders the same document for both, which CE rejects.
TwoInputs       == {1, 2}
TwoConfigs      == {c1, c2}
EditionRenders  == << [CE |-> c1, EE |-> c2], [CE |-> c2, EE |-> c2] >>
EditionAccepted == {<<c1, "CE">>, <<c2, "EE">>}

\* The same and a third set, the same for both editions.
MixedRenders  == Append(EditionRenders, [CE |-> c3, EE |-> c3])
MixedAccepted == EditionAccepted \cup {<<c3, "CE">>, <<c3, "EE">>}
=============================================================================
