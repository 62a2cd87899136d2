-------------------------- MODULE MCRouteAdmission --------------------------
(* A small gateway for RouteAdmission: endpoint s has three entries, t and  *)
(* u have one.  Routes: "w" is a wildcard over "x" and "y", "v" a wildcard *)
(* over "x" alone, "j" is refused only next to both "x" and "y", "m" is    *)
(* refused on its own.                                                     *)
EXTENDS RouteAdmission

MCRank    == [s1 |-> 1, s2 |-> 2, s3 |-> 3, t1 |-> 4, u1 |-> 5]
MCSource  == [s1 |-> "s", s2 |-> "s", s3 |-> "s", t1 |-> "t", u1 |-> "u"]
MCEntries == DOMAIN MCRank

Both(r, s) == {<<r, s>>, <<s, r>>}
MCClash    == Both("w", "x") \cup Both("w", "y") \cup Both("v", "x") \cup {<<"m", "m">>}
MCJoint    == {<<"j", {"x", "y"}>>}
MCRoutes   == {"w", "v", "x", "y", "j", "m"}

\* The third entry of s and the entry of t have fewer choices.
MCRoutesOf(e) ==
  CASE e = "s3" -> {"y"}
    [] e = "t1" -> {"w", "v", "x", "m"}
    [] OTHER    -> MCRoutes
=============================================================================
