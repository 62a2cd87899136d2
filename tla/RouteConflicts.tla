--------------------------- MODULE RouteConflicts ---------------------------
(***************************************************************************)
(* Which entries of a gateway's endpoints lose their route.  A view is what *)
(* one render sees: for each entry its route (method and shape), the       *)
(* KrakenDEndpoint it comes from and when that endpoint was created.       *)
(*                                                                         *)
(* These are definitions of the outcome, whatever the order in which the   *)
(* entries are looked at; RouteAdmission models the loop of the renderer   *)
(* and shows that it computes them.                                        *)
(***************************************************************************)
EXTENDS Naturals

CONSTANTS
  Rank,   \* Rank[e]: the place of an entry by endpoint name and spec position
  Clash   \* <<r, s>>: the router refuses to register route r next to route s

\* servedBefore: the older endpoint first, then by name and position.
ServedBefore(view, a, b) ==
  \/ view[a].at < view[b].at
  \/ view[a].at = view[b].at /\ Rank[a] < Rank[b]

\* flattenEndpoints: of the entries with one route the first is kept.
Shadowed(view) ==
  {e \in DOMAIN view : \E f \in DOMAIN view :
     view[f].route = view[e].route /\ ServedBefore(view, f, e)}

\* The EntryConflicts flattenEndpoints reports.
Shadows(view) ==
  {c \in [loser : Shadowed(view), winner : {view[e].source : e \in DOMAIN view},
          route : {view[e].route : e \in DOMAIN view}] :
     /\ c.route = view[c.loser].route
     /\ \E w \in DOMAIN view \ Shadowed(view) :
          view[w].route = c.route /\ view[w].source = c.winner}

\* The older entries of other endpoints that entry e clashes with.
Beaten(view, e) ==
  {f \in DOMAIN view :
     /\ view[f].source # view[e].source
     /\ ServedBefore(view, f, e)
     /\ <<view[e].route, view[f].route>> \in Clash}

\* The EntryConflicts routeLosers reports while it does not stop at its cap.
Clashes(view) ==
  UNION {{[loser |-> e, winner |-> view[f].source, route |-> view[e].route] : f \in Beaten(view, e)} :
           e \in DOMAIN view \ Shadowed(view)}

\* NewClashes: the router clashes of one render that another does not have.
NewClashes(before, after, involving) ==
  {c \in Clashes(after) \ (Clashes(before) \cup Shadows(before)) :
     c.loser \in involving \/ c.winner \in involving}
=============================================================================
