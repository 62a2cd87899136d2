--------------------------- MODULE RouteAdmission ---------------------------
(***************************************************************************)
(* How the renderer admits the entries of a gateway's endpoints to the     *)
(* router: flattenEndpoints and routeLosers, one entry at a time in the    *)
(* order in which entries are served.  After a render some endpoint is     *)
(* deleted and the gateway is rendered again.                              *)
(***************************************************************************)
EXTENDS RouteConflicts, FiniteSets

CONSTANTS
  Entries,           \* the entries of every endpoint
  SourceOf,          \* SourceOf[e]: the endpoint of entry e
  Routes,            \* methods and route shapes
  MaxAge,            \* endpoints are created at the times 0..MaxAge
  RoutesOf(_),       \* the routes an entry may have
  Joint,             \* <<r, S>>: the router refuses r once all of S are registered
  MaxRouteRefusals   \* the entries resolved before the loop stops

ASSUME AdmissionAssumption ==
  /\ IsFiniteSet(Entries) /\ Rank \in [Entries -> Nat]
  /\ \A e, f \in Entries : Rank[e] = Rank[f] => e = f
  /\ Clash \subseteq Routes \X Routes
  /\ Joint \subseteq Routes \X SUBSET Routes
  /\ MaxAge \in Nat /\ MaxRouteRefusals \in Nat
  /\ \A e \in Entries : RoutesOf(e) \subseteq Routes

VARIABLES
  view,      \* what is rendered
  todo,      \* the entries not looked at yet
  served,    \* the entries registered in the router
  dropped,   \* the entries recorded as left out
  losers,    \* the clashes reported
  refusals,  \* how many entries were refused
  lost,      \* what the last render left out; Entries if it did not find out
  capped     \* the loop stopped at MaxRouteRefusals

vars == <<view, todo, served, dropped, losers, refusals, lost, capped>>

Sources == {SourceOf[e] : e \in Entries}

View(routes, ages) ==
  [e \in Entries |-> [route |-> routes[e], at |-> ages[SourceOf[e]], source |-> SourceOf[e]]]

EntryView == [route : Routes, at : 0..MaxAge, source : Sources]

Conflict == [loser : Entries, winner : Sources, route : Routes]

TypeOK ==
  /\ \E present \in SUBSET Entries : view \in [present -> EntryView]
  /\ {todo, served, dropped} \subseteq SUBSET DOMAIN view
  /\ losers \subseteq Conflict
  /\ refusals \in 0..MaxRouteRefusals
  /\ lost \subseteq Entries /\ capped \in BOOLEAN

-----------------------------------------------------------------------------
(* One entry.                                                              *)

\* The entry the loop comes to next.
First(e) == e \in todo /\ \A f \in todo \ {e} : ServedBefore(view, e, f)

RoutesIn(es) == {view[f].route : f \in es}

\* Entries of the endpoint of e registered so far (own) and of others.
Own(e, es)    == {f \in es : view[f].source = view[e].source}
Others(e, es) == es \ Own(e, es)

\* Routes among es the router refuses to register e next to.
Refusing(e, es) == {f \in es : <<view[e].route, view[f].route>> \in Clash}

\* registerRoute in an empty engine fails: the route clashes with itself.
RefusedAlone(e) == <<view[e].route, view[e].route>> \in Clash

RefusedByOwn(e) == Refusing(e, Own(e, served)) # {}

\* registerAll: the engine holds the entries served so far.
RegisterAll(e) ==
  /\ Refusing(e, served) = {}
  /\ \A j \in Joint : j[1] = view[e].route => ~ (j[2] \subseteq RoutesIn(served))

\* An entry that shares its route with an older one is only recorded.
Shadow(e) ==
  /\ First(e) /\ ~ capped
  /\ e \in Shadowed(view)
  /\ dropped' = IF RefusedAlone(e) THEN dropped ELSE dropped \cup {e}
  /\ todo' = todo \ {e}
  /\ UNCHANGED <<view, served, losers, refusals, lost, capped>>

\* The loop ends at its cap; the entries left are rendered as they are.
Stop(e) ==
  /\ First(e) /\ ~ capped
  /\ e \notin Shadowed(view)
  /\ refusals = MaxRouteRefusals
  /\ capped' = TRUE
  /\ todo' = {}
  /\ UNCHANGED <<view, served, dropped, losers, refusals, lost>>

Resolving(e) ==
  /\ First(e) /\ ~ capped
  /\ e \notin Shadowed(view)
  /\ refusals < MaxRouteRefusals

\* The endpoint's own check will refuse this entry.
LeaveIn(e) ==
  /\ Resolving(e)
  /\ RefusedAlone(e) \/ RefusedByOwn(e)
  /\ todo' = todo \ {e}
  /\ UNCHANGED <<view, served, dropped, losers, refusals, lost, capped>>

\* A mutant: an entry loses only to entries that are served.
LosesToServed(e) == Refusing(e, Others(e, served))

\* The older entries of other endpoints that entry e loses to.
LosesTo(e) == Refusing(e, Others(e, dropped)) \cup Refusing(e, Others(e, served))

Serve(e) ==
  /\ Resolving(e)
  /\ ~ RefusedAlone(e) /\ ~ RefusedByOwn(e)
  /\ LosesTo(e) = {} /\ RegisterAll(e)
  /\ served' = served \cup {e}
  /\ todo' = todo \ {e}
  /\ UNCHANGED <<view, dropped, losers, refusals, lost, capped>>

\* One conflict for each endpoint e loses to; none when only several routes
\* together refuse it, which leaves the entry in.
Lose(e) ==
  /\ Resolving(e)
  /\ ~ RefusedAlone(e) /\ ~ RefusedByOwn(e)
  /\ LosesTo(e) # {} \/ ~ RegisterAll(e)
  /\ losers' = losers \cup {[loser |-> e, winner |-> view[f].source, route |-> view[e].route] :
                              f \in LosesTo(e)}
  /\ dropped' = dropped \cup {e}
  /\ refusals' = refusals + 1
  /\ todo' = todo \ {e}
  /\ UNCHANGED <<view, served, lost, capped>>

\* What the render leaves out.
Lost == Shadowed(view) \cup {c.loser : c \in losers}

\* An endpoint is deleted and the gateway is rendered again.
Remove(s) ==
  /\ todo = {}
  /\ \E e \in DOMAIN view : view[e].source = s
  /\ view' = [e \in {f \in DOMAIN view : view[f].source # s} |-> view[e]]
  /\ lost' = IF capped THEN Entries ELSE Lost
  /\ todo' = DOMAIN view'
  /\ served' = {} /\ dropped' = {} /\ losers' = {} /\ refusals' = 0 /\ capped' = FALSE

-----------------------------------------------------------------------------
Init ==
  /\ \E routes \in [Entries -> Routes], ages \in [Sources -> 0..MaxAge] :
       /\ \A e \in Entries : routes[e] \in RoutesOf(e)
       /\ view = View(routes, ages)
  /\ todo = DOMAIN view
  /\ served = {} /\ dropped = {} /\ losers = {} /\ refusals = 0
  /\ lost = Entries
  /\ capped = FALSE

Visit == \E e \in todo : Shadow(e) \/ Stop(e) \/ LeaveIn(e) \/ Serve(e) \/ Lose(e)

Next == Visit \/ \E s \in Sources : Remove(s)

Spec == Init /\ [][Next]_vars

Rendered == todo = {} /\ ~ capped

-----------------------------------------------------------------------------
(* Properties.                                                             *)

\* The endpoints are sound: no entry is refused on its own or by another of
\* its own endpoint, as the endpoint's own check demands.
Sound ==
  \A e, f \in DOMAIN view : view[e].source = view[f].source =>
    <<view[e].route, view[f].route>> \notin Clash

\* The loop of routeLosers, with its engine and its records of the entries it
\* left out, reports the clashes the definition names, each once.
LosersExact == Rendered /\ Sound => losers = Clashes(view)

\* What the router is given, gin registers: no two registered entries clash.
ServedTogether ==
  \A e, f \in served : ServedBefore(view, f, e) => <<view[e].route, view[f].route>> \notin Clash

\* routeLosers: deleting an endpoint can bring entries back but never leaves
\* another out.  (lost: what the render before the deletion left out.)
RemovalNeverDrops == Rendered /\ Sound => Lost \subseteq lost
=============================================================================
