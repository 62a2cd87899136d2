-------------------------- MODULE MCAutoConfigSync --------------------------
(* Documents and endpoints for AutoConfigSync.  Route "z" clashes with "x". *)
EXTENDS AutoConfigSync, TLC

CONSTANTS a, b, c, v1, v2, v3

MCNames    == {a, b, c}
MCVersions == {v1, v2, v3}
FewVersions == {v1, v2}
MCRank     == a :> 1 @@ b :> 2 @@ c :> 3
MCRoutes   == {"w", "x", "y", "z"}
MCClash    == {<<"x", "z">>, <<"z", "x">>}
Table      == a :> (v1 :> "x" @@ v2 :> "y" @@ v3 :> "z")
           @@ b :> (v1 :> "x" @@ v2 :> "y" @@ v3 :> "w")
           @@ c :> (v1 :> "y" @@ v2 :> "z" @@ v3 :> "w")
MCRouteOf  == [n \in MCNames |-> [v \in Versions |-> Table[n][v]]]

Doc(want, failed) ==
  [want   |-> [n \in MCNames |-> IF n \in DOMAIN want THEN want[n] ELSE Absent],
   failed |-> failed, skips |-> FALSE]

\* The operation on route x is called a, then b.
ServeA    == Doc(a :> v1 @@ c :> v1, {})
RenameToB == Doc(b :> v1 @@ c :> v1, {})
\* Only the operation on route z is left, which clashes with x.
OnlyZ     == Doc(c :> v2, {})
\* The operation a cannot be evaluated.
FailedA   == Doc(c :> v1, {a})
\* Two operations on one route; two that clash, after a rename too, when a still
\* has the route of b.
Collision == Doc(a :> v1 @@ b :> v1, {})
Clashing  == Doc(a :> v3 @@ b :> v1, {})
\* b is unsound (see the configurations), c clashes with what a serves.
HeldB     == Doc(b :> v2 @@ c :> v2, {})
\* a needs Enterprise, c clashes with what a serves.
HeldA     == Doc(a :> v2 @@ c :> v2, {})
\* b is refused, without and with an operation that clashes with what a and an
\* earlier content of b serve.
RefusedB  == Doc(b :> v3, {})
RefusedBZ == Doc(b :> v3 @@ c :> v2, {})
\* No operation that is not skipped.
Skipped   == [Doc(<<>>, {}) EXCEPT !.skips = TRUE]
AllDocuments == {ServeA, RenameToB, OnlyZ, FailedA, Collision, Clashing, HeldA, HeldB,
                 RefusedB, RefusedBZ, Skipped}
FewDocuments == {ServeA, OnlyZ, HeldB}

OneUnsound  == {<<b, v2>>}
OneEE       == {<<a, v2>>}
OneRefused  == {<<b, v3>>}
HeldRefused == {<<b, v2>>}
None        == {}
=============================================================================
