------------------------ MODULE RouteAdmissionProofs ------------------------
(***************************************************************************)
(* Proofs about RouteAdmission, for every set of entries, every relation   *)
(* of clashing routes and every cap: the loop computes what RouteConflicts *)
(* defines, and a deletion never takes another endpoint's route.           *)
(***************************************************************************)
EXTENDS RouteAdmission, TLAPS

-----------------------------------------------------------------------------
(* The inductive invariant.                                                *)

Visited == DOMAIN view \ todo

\* The endpoint of entry e is sound: none of its entries refuses another.
SoundEntry(e) ==
  \A f, g \in DOMAIN view : view[f].source = view[e].source /\ view[g].source = view[e].source =>
    <<view[f].route, view[g].route>> \notin Clash

Report(e, f) == [loser |-> e, winner |-> view[f].source, route |-> view[e].route]

\* The loop follows the order in which entries are served.
OrderInv == \A e \in todo, f \in Visited : ServedBefore(view, f, e)

\* The records are about entries the loop has come to, and it has a record of
\* every such entry of a sound endpoint.
MarkInv ==
  /\ served \cup dropped \subseteq Visited
  /\ ~ capped => \A f \in Visited : SoundEntry(f) => f \in served \cup dropped

\* The reports are the clashes among the entries visited.
ReportInv ==
  /\ losers \subseteq Clashes(view)
  /\ ~ capped => \A e \in Visited \ Shadowed(view) : \A f \in Beaten(view, e) :
                   SoundEntry(e) /\ SoundEntry(f) => Report(e, f) \in losers

\* What this view must leave out, the render before it left out.
LostInv ==
  \A e \in DOMAIN view :
    e \in Shadowed(view) \/ (SoundEntry(e) /\ \E f \in Beaten(view, e) : SoundEntry(f))
      => e \in lost

AdmissionInv == TypeOK /\ OrderInv /\ MarkInv /\ ReportInv /\ LostInv /\ ServedTogether

-----------------------------------------------------------------------------
(* Facts about the order and the definitions.                              *)

\* What TypeOK says of the view, entry by entry.
LEMMA ViewTyped ==
  ASSUME TypeOK
  PROVE  /\ DOMAIN view \subseteq Entries
         /\ view \in [DOMAIN view -> EntryView]
         /\ \A e \in DOMAIN view :
              /\ view[e].at \in Nat /\ Rank[e] \in Nat
              /\ view[e].route \in Routes /\ view[e].source \in Sources
         /\ todo \subseteq DOMAIN view /\ served \subseteq DOMAIN view
         /\ dropped \subseteq DOMAIN view
  <1>1. PICK present \in SUBSET Entries : view \in [present -> EntryView]
    BY DEF TypeOK
  <1>2. DOMAIN view = present
    BY <1>1
  <1>3. \A e \in DOMAIN view : view[e] \in EntryView
    BY <1>1, <1>2
  <1>4. 0..MaxAge \subseteq Nat
    BY AdmissionAssumption
  <1>5. \A e \in DOMAIN view : view[e].at \in Nat /\ view[e].route \in Routes /\ view[e].source \in Sources
    BY <1>3, <1>4 DEF EntryView
  <1>6. \A e \in DOMAIN view : Rank[e] \in Nat
    BY <1>2, AdmissionAssumption
  <1> QED
    BY <1>1, <1>2, <1>5, <1>6 DEF TypeOK

\* Entries are served one after another.
LEMMA ServedBeforeStrict ==
  ASSUME TypeOK, NEW e \in DOMAIN view, NEW f \in DOMAIN view, ServedBefore(view, e, f)
  PROVE  ~ ServedBefore(view, f, e)
  BY ViewTyped DEF ServedBefore

\* With fewer entries, an entry is shadowed or beaten by fewer.
LEMMA FewerConflicts ==
  ASSUME NEW old, NEW new, DOMAIN new \subseteq DOMAIN old,
         \A e \in DOMAIN new : new[e] = old[e]
  PROVE  /\ Shadowed(new) \subseteq Shadowed(old)
         /\ \A e \in DOMAIN new : Beaten(new, e) \subseteq Beaten(old, e)
  BY DEF Shadowed, Beaten, ServedBefore

\* The clash of a pair is a report of Clashes.
LEMMA ReportIsClash ==
  ASSUME NEW e \in DOMAIN view \ Shadowed(view), NEW f \in Beaten(view, e)
  PROVE  Report(e, f) \in Clashes(view)
  BY DEF Clashes, Report

LEMMA ClashIsReport ==
  ASSUME NEW c \in Clashes(view)
  PROVE  \E e \in DOMAIN view \ Shadowed(view) : \E f \in Beaten(view, e) : c = Report(e, f)
  BY DEF Clashes, Report

LEMMA ReportTyped ==
  ASSUME TypeOK, NEW e \in DOMAIN view, NEW f \in DOMAIN view
  PROVE  Report(e, f) \in Conflict
  BY ViewTyped DEF Report, Conflict

-----------------------------------------------------------------------------
(* Every step keeps the invariant.                                         *)

LEMMA AdmissionInit == Init => AdmissionInv
  <1> SUFFICES ASSUME Init PROVE AdmissionInv
    OBVIOUS
  <1>1. PICK routes \in [Entries -> Routes], ages \in [Sources -> 0..MaxAge] :
          view = View(routes, ages)
    BY DEF Init
  <1>2. view \in [Entries -> EntryView] /\ DOMAIN view = Entries
    <2>1. \A e \in Entries : SourceOf[e] \in Sources
      BY DEF Sources
    <2> QED
      BY <1>1, <2>1 DEF View, EntryView
  <1>3. TypeOK
    <2>1. \E present \in SUBSET Entries : view \in [present -> EntryView]
      BY <1>2
    <2>2. {todo, served, dropped} \subseteq SUBSET DOMAIN view
      BY DEF Init
    <2>3. refusals \in 0..MaxRouteRefusals
      BY AdmissionAssumption DEF Init
    <2> QED
      BY <2>1, <2>2, <2>3 DEF Init, TypeOK
  <1>4. Visited = {}
    BY <1>2 DEF Init, Visited
  <1>5. OrderInv /\ MarkInv /\ ReportInv /\ ServedTogether
    BY <1>4 DEF Init, OrderInv, MarkInv, ReportInv, ServedTogether
  <1>6. LostInv
    BY <1>2 DEF Init, LostInv
  <1> QED
    BY <1>3, <1>5, <1>6 DEF AdmissionInv

\* What every way through the loop body has in common: the view stays, and the
\* entry visited comes before the ones left and after the ones visited.
LEMMA VisitOrder ==
  ASSUME AdmissionInv, NEW e \in todo, First(e), view' = view, todo' = todo \ {e}
  PROVE  /\ Visited' = Visited \cup {e} /\ e \notin Visited
         /\ OrderInv'
         /\ \A f \in Visited : ServedBefore(view, f, e) /\ ~ ServedBefore(view, e, f)
         /\ \A f \in DOMAIN view : ServedBefore(view, f, e) => f \in Visited
         /\ \A f \in DOMAIN view : SoundEntry(f)' = SoundEntry(f)
         /\ \A f, g \in DOMAIN view : Report(f, g)' = Report(f, g)
  <1> USE DEF AdmissionInv
  <1>1. e \in DOMAIN view /\ todo \subseteq DOMAIN view
    BY ViewTyped
  <1>2. Visited' = Visited \cup {e} /\ e \notin Visited
    BY <1>1 DEF Visited
  <1>3. \A f \in Visited : ServedBefore(view, f, e)
    BY DEF OrderInv
  <1>4. \A f \in Visited : ~ ServedBefore(view, e, f)
    BY <1>1, <1>3, ServedBeforeStrict DEF Visited
  <1>5. OrderInv'
    <2> SUFFICES ASSUME NEW g \in todo', NEW f \in Visited' PROVE ServedBefore(view, f, g)'
      BY DEF OrderInv
    <2>1. CASE f = e
      BY <2>1, <1>1 DEF First, ServedBefore
    <2>2. CASE f # e
      BY <2>2, <1>2 DEF OrderInv, ServedBefore
    <2> QED
      BY <2>1, <2>2
  <1>6. ASSUME NEW f \in DOMAIN view, ServedBefore(view, f, e) PROVE f \in Visited
    <2>1. ~ ServedBefore(view, e, f)
      BY <1>1, <1>6, ServedBeforeStrict
    <2>2. f # e
      BY <1>6, <2>1
    <2> QED
      BY <2>1, <2>2 DEF First, Visited
  <1>7. \A f \in DOMAIN view : SoundEntry(f)' = SoundEntry(f)
    BY DEF SoundEntry
  <1>8. \A f, g \in DOMAIN view : Report(f, g)' = Report(f, g)
    BY DEF Report
  <1> QED
    BY <1>2, <1>3, <1>4, <1>5, <1>6, <1>7, <1>8

\* An entry of a sound endpoint is refused neither alone nor by its own.
LEMMA SoundNotRefused ==
  ASSUME TypeOK, NEW e \in DOMAIN view, SoundEntry(e)
  PROVE  ~ RefusedAlone(e) /\ ~ RefusedByOwn(e)
  BY ViewTyped DEF SoundEntry, RefusedAlone, RefusedByOwn, Refusing, Own

\* The entries e loses to are older ones of other endpoints it clashes with.
LEMMA LosesToBeaten ==
  ASSUME AdmissionInv, NEW e \in todo, First(e)
  PROVE  LosesTo(e) \subseteq Beaten(view, e)
  <1>1. \A f \in served \cup dropped : f \in DOMAIN view /\ ServedBefore(view, f, e)
    BY DEF AdmissionInv, MarkInv, OrderInv, Visited
  <1> QED
    BY <1>1 DEF LosesTo, Refusing, Others, Own, Beaten

\* Removing an entry from todo keeps the types; the actions differ in the rest.
LEMMA VisitTyped ==
  ASSUME TypeOK, view' = view, todo' \subseteq todo, served' \subseteq DOMAIN view,
         dropped' \subseteq DOMAIN view, losers' \subseteq Conflict,
         refusals' \in 0..MaxRouteRefusals, lost' = lost, capped' \in BOOLEAN
  PROVE  TypeOK'
  <1>1. {todo', served', dropped'} \subseteq SUBSET DOMAIN view
    BY ViewTyped
  <1> QED
    BY <1>1 DEF TypeOK

LEMMA ShadowKeeps ==
  ASSUME AdmissionInv, NEW e \in todo, Shadow(e)
  PROVE  AdmissionInv'
  <1> USE DEF AdmissionInv
  <1>1. /\ e \in DOMAIN view /\ First(e) /\ view' = view /\ todo' = todo \ {e}
        /\ served' = served /\ losers' = losers /\ lost' = lost /\ capped' = capped /\ ~ capped
        /\ dropped \subseteq dropped' /\ dropped' \subseteq dropped \cup {e}
        /\ e \in Shadowed(view) /\ refusals' = refusals
        /\ ~ RefusedAlone(e) => e \in dropped'
    BY ViewTyped DEF Shadow
  <1>2. TypeOK'
    BY <1>1, ViewTyped, VisitTyped DEF TypeOK
  <1>3. MarkInv'
    BY <1>1, VisitOrder, SoundNotRefused DEF MarkInv, Visited
  <1>4. ReportInv'
    BY <1>1, VisitOrder DEF ReportInv, Visited, Beaten
  <1>5. LostInv' /\ ServedTogether'
    BY <1>1 DEF LostInv, ServedTogether, SoundEntry
  <1> QED
    BY <1>1, <1>2, <1>3, <1>4, <1>5, VisitOrder

LEMMA StopKeeps ==
  ASSUME AdmissionInv, NEW e \in todo, Stop(e)
  PROVE  AdmissionInv'
  <1> USE DEF AdmissionInv, Stop
  <1>1. TypeOK'
    BY ViewTyped, VisitTyped DEF TypeOK
  <1>2. OrderInv' /\ MarkInv' /\ ReportInv'
    BY DEF OrderInv, MarkInv, ReportInv, Visited
  <1>3. LostInv' /\ ServedTogether'
    BY DEF LostInv, ServedTogether, SoundEntry
  <1> QED
    BY <1>1, <1>2, <1>3

LEMMA LeaveInKeeps ==
  ASSUME AdmissionInv, NEW e \in todo, LeaveIn(e)
  PROVE  AdmissionInv'
  <1> USE DEF AdmissionInv
  <1>1. /\ e \in DOMAIN view /\ First(e) /\ view' = view /\ todo' = todo \ {e}
        /\ UNCHANGED <<served, dropped, losers, refusals, lost, capped>> /\ ~ capped
        /\ ~ SoundEntry(e)
    BY ViewTyped, SoundNotRefused DEF LeaveIn, Resolving
  <1>2. TypeOK'
    BY <1>1, ViewTyped, VisitTyped DEF TypeOK
  <1>3. MarkInv'
    BY <1>1, VisitOrder DEF MarkInv, Visited
  <1>4. ReportInv'
    BY <1>1, VisitOrder DEF ReportInv, Visited, Beaten
  <1>5. LostInv' /\ ServedTogether'
    BY <1>1 DEF LostInv, ServedTogether, SoundEntry
  <1> QED
    BY <1>1, <1>2, <1>3, <1>4, <1>5, VisitOrder

\* An older sound entry of another endpoint that e clashes with has a record.
LEMMA SoundRivalKnown ==
  ASSUME AdmissionInv, ~ capped, NEW e \in todo, First(e),
         NEW f \in Beaten(view, e), SoundEntry(f)
  PROVE  f \in LosesTo(e)
  <1>1. f \in DOMAIN view /\ ServedBefore(view, f, e) /\ e \in DOMAIN view
    BY ViewTyped DEF Beaten, AdmissionInv
  <1>2. ~ ServedBefore(view, e, f) /\ f # e
    BY <1>1, ServedBeforeStrict DEF AdmissionInv
  <1>3. f \in Visited
    BY <1>1, <1>2 DEF First, Visited
  <1>4. f \in served \cup dropped
    BY <1>3 DEF AdmissionInv, MarkInv
  <1> QED
    BY <1>4 DEF LosesTo, Refusing, Others, Own, Beaten

LEMMA ServeKeeps ==
  ASSUME AdmissionInv, NEW e \in todo, Serve(e)
  PROVE  AdmissionInv'
  <1> USE DEF AdmissionInv
  <1>1. /\ e \in DOMAIN view /\ First(e) /\ view' = view /\ todo' = todo \ {e}
        /\ served' = served \cup {e} /\ ~ capped /\ LosesTo(e) = {} /\ Refusing(e, served) = {}
        /\ UNCHANGED <<dropped, losers, refusals, lost, capped>>
    BY ViewTyped DEF Serve, Resolving, RegisterAll
  <1>2. TypeOK'
    BY <1>1, ViewTyped, VisitTyped DEF TypeOK
  <1>3. MarkInv'
    BY <1>1, VisitOrder DEF MarkInv, Visited
  <1>4. ReportInv'
    <2>1. \A f \in Beaten(view, e) : ~ SoundEntry(f)
      BY <1>1, SoundRivalKnown
    <2> QED
      BY <1>1, <2>1, VisitOrder DEF ReportInv, Visited, Beaten
  <1>5. LostInv'
    BY <1>1 DEF LostInv, SoundEntry
  <1>6. ServedTogether'
    <2> SUFFICES ASSUME NEW g \in served \cup {e}, NEW f \in served \cup {e}, ServedBefore(view, f, g)
                 PROVE  <<view[g].route, view[f].route>> \notin Clash
      BY <1>1 DEF ServedTogether
    <2>1. CASE f = e
      <3>1. g \notin served
        BY <1>1, <2>1, VisitOrder DEF MarkInv
      <3>2. ~ ServedBefore(view, e, e)
        BY <1>1, ServedBeforeStrict
      <3> QED
        BY <2>1, <3>1, <3>2
    <2>2. CASE f \in served /\ g = e
      BY <1>1, <2>2 DEF Refusing
    <2>3. CASE f \in served /\ g \in served
      BY <2>3 DEF ServedTogether
    <2> QED
      BY <2>1, <2>2, <2>3
  <1> QED
    BY <1>1, <1>2, <1>3, <1>4, <1>5, <1>6, VisitOrder

LEMMA LoseKeeps ==
  ASSUME AdmissionInv, NEW e \in todo, Lose(e)
  PROVE  AdmissionInv'
  <1> USE DEF AdmissionInv
  <1>1. /\ e \in DOMAIN view /\ First(e) /\ view' = view /\ todo' = todo \ {e}
        /\ dropped' = dropped \cup {e} /\ ~ capped /\ e \notin Shadowed(view)
        /\ refusals < MaxRouteRefusals /\ refusals' = refusals + 1
        /\ losers' = losers \cup {Report(e, f) : f \in LosesTo(e)}
        /\ UNCHANGED <<served, lost, capped>>
    BY ViewTyped DEF Lose, Resolving, Report
  <1>2. LosesTo(e) \subseteq Beaten(view, e)
    BY <1>1, LosesToBeaten
  <1>3. LosesTo(e) \subseteq DOMAIN view
    BY <1>2 DEF Beaten
  <1>4. TypeOK'
    <2>1. losers' \subseteq Conflict
      BY <1>1, <1>3, ReportTyped DEF TypeOK
    <2>2. refusals' \in 0..MaxRouteRefusals
      BY <1>1, AdmissionAssumption DEF TypeOK
    <2> QED
      BY <1>1, <2>1, <2>2, ViewTyped, VisitTyped DEF TypeOK
  <1>5. MarkInv'
    BY <1>1, VisitOrder DEF MarkInv, Visited
  <1>6. ReportInv'
    <2>1. losers' \subseteq Clashes(view)
      BY <1>1, <1>2, ReportIsClash DEF ReportInv
    <2>2. \A f \in Beaten(view, e) : SoundEntry(f) => Report(e, f) \in losers'
      BY <1>1, SoundRivalKnown
    <2>3. \A g \in (Visited \cup {e}) \ Shadowed(view) : \A f \in Beaten(view, g) :
            SoundEntry(g) /\ SoundEntry(f) => Report(g, f) \in losers'
      BY <1>1, <2>2 DEF ReportInv
    <2>4. Visited' = Visited \cup {e}
      BY <1>1, VisitOrder
    <2> QED
      BY <1>1, <2>1, <2>3, <2>4, VisitOrder DEF ReportInv, Visited, Beaten
  <1>7. LostInv' /\ ServedTogether'
    BY <1>1 DEF LostInv, ServedTogether, SoundEntry
  <1> QED
    BY <1>1, <1>4, <1>5, <1>6, <1>7, VisitOrder

\* The entries that remain after a deletion were as sound, shadowed and beaten
\* before it, and the finished render left them out.
LEMMA RemoveKeeps ==
  ASSUME AdmissionInv, NEW s \in Sources, Remove(s)
  PROVE  AdmissionInv'
  <1> USE DEF AdmissionInv
  <1>1. /\ todo = {} /\ todo' = DOMAIN view'
        /\ served' = {} /\ dropped' = {} /\ losers' = {} /\ refusals' = 0 /\ capped' = FALSE
        /\ lost' = IF capped THEN Entries ELSE Lost
    BY DEF Remove
  <1>2. /\ DOMAIN view' = {f \in DOMAIN view : view[f].source # s}
        /\ \A e \in DOMAIN view' : view'[e] = view[e]
    BY DEF Remove
  <1>3. /\ DOMAIN view' \subseteq Entries
        /\ view' \in [DOMAIN view' -> EntryView]
    <2>1. \A e \in DOMAIN view' : view[e] \in EntryView
      BY <1>2, ViewTyped
    <2> QED
      BY <1>2, <2>1, ViewTyped DEF Remove
  <1>4. Lost \subseteq Entries
    <2>1. Shadowed(view) \subseteq Entries
      BY ViewTyped DEF Shadowed
    <2>2. \A c \in losers : c.loser \in Entries
      BY DEF TypeOK, Conflict
    <2> QED
      BY <2>1, <2>2 DEF Lost
  <1>5. TypeOK'
    <2>1. {todo', served', dropped'} \subseteq SUBSET DOMAIN view'
      BY <1>1
    <2>2. refusals' \in 0..MaxRouteRefusals
      BY <1>1, AdmissionAssumption
    <2>3. lost' \subseteq Entries
      BY <1>1, <1>4
    <2>4. losers' \subseteq Conflict /\ capped' \in BOOLEAN
      BY <1>1
    <2> QED
      BY <1>3, <2>1, <2>2, <2>3, <2>4 DEF TypeOK
  <1>6. Visited' = {}
    BY <1>1 DEF Visited
  <1>7. OrderInv' /\ MarkInv' /\ ReportInv' /\ ServedTogether'
    BY <1>1, <1>6 DEF OrderInv, MarkInv, ReportInv, ServedTogether
  <1>8. \A e \in DOMAIN view' : SoundEntry(e)' => SoundEntry(e)
    BY <1>2 DEF SoundEntry
  <1>9. LostInv'
    <2> SUFFICES ASSUME NEW e \in DOMAIN view', ~ capped,
                        \/ e \in Shadowed(view)'
                        \/ SoundEntry(e)' /\ \E f \in Beaten(view, e)' : SoundEntry(f)'
                 PROVE  e \in Lost
      BY <1>1, <1>3 DEF LostInv
    <2>1. /\ Shadowed(view') \subseteq Shadowed(view)
          /\ Beaten(view', e) \subseteq Beaten(view, e)
          /\ Beaten(view', e) \subseteq DOMAIN view'
      <3>1. Beaten(view', e) \subseteq DOMAIN view'
        BY DEF Beaten
      <3> QED
        BY <1>2, <3>1, FewerConflicts
    <2>2. CASE e \in Shadowed(view)
      BY <2>2 DEF Lost
    <2>3. CASE e \notin Shadowed(view)
      <3>1. PICK f \in Beaten(view', e) : SoundEntry(e)' /\ SoundEntry(f)'
        BY <2>1, <2>3
      <3>2. SoundEntry(e) /\ SoundEntry(f) /\ f \in Beaten(view, e)
        BY <2>1, <3>1, <1>8
      <3>3. Report(e, f) \in losers
        BY <1>1, <1>2, <2>3, <3>2 DEF ReportInv, Visited
      <3>4. Report(e, f).loser = e
        BY DEF Report
      <3> QED
        BY <3>3, <3>4 DEF Lost
    <2> QED
      BY <2>2, <2>3
  <1> QED
    BY <1>5, <1>7, <1>9

LEMMA AdmissionNext == AdmissionInv /\ [Next]_vars => AdmissionInv'
  <1> SUFFICES ASSUME AdmissionInv, [Next]_vars PROVE AdmissionInv'
    OBVIOUS
  <1>1. ASSUME NEW e \in todo, Shadow(e) PROVE AdmissionInv'
    BY <1>1, ShadowKeeps
  <1>2. ASSUME NEW e \in todo, Stop(e) PROVE AdmissionInv'
    BY <1>2, StopKeeps
  <1>3. ASSUME NEW e \in todo, LeaveIn(e) PROVE AdmissionInv'
    BY <1>3, LeaveInKeeps
  <1>4. ASSUME NEW e \in todo, Serve(e) PROVE AdmissionInv'
    BY <1>4, ServeKeeps
  <1>5. ASSUME NEW e \in todo, Lose(e) PROVE AdmissionInv'
    BY <1>5, LoseKeeps
  <1>6. ASSUME NEW s \in Sources, Remove(s) PROVE AdmissionInv'
    BY <1>6, RemoveKeeps
  <1>7. CASE UNCHANGED vars
    BY <1>7 DEF vars, AdmissionInv, TypeOK, OrderInv, MarkInv, ReportInv, LostInv,
                ServedTogether, Visited, SoundEntry, Report
  <1> QED
    BY <1>1, <1>2, <1>3, <1>4, <1>5, <1>6, <1>7 DEF Next, Visit

-----------------------------------------------------------------------------
(* The theorems.                                                           *)

LEMMA AdmissionAlways == Spec => []AdmissionInv
  BY AdmissionInit, AdmissionNext, PTL DEF Spec

\* At the end of a render that did not stop at its cap the reports are those
\* the definition names.
LEMMA ReportsAreClashes == AdmissionInv => LosersExact
  <1> SUFFICES ASSUME AdmissionInv, Rendered, Sound PROVE losers = Clashes(view)
    BY DEF LosersExact
  <1>1. \A e \in DOMAIN view : SoundEntry(e)
    BY DEF Sound, SoundEntry
  <1>2. Clashes(view) \subseteq losers
    <2> SUFFICES ASSUME NEW c \in Clashes(view) PROVE c \in losers
      OBVIOUS
    <2>1. PICK e \in DOMAIN view \ Shadowed(view) : \E f \in Beaten(view, e) : c = Report(e, f)
      BY ClashIsReport
    <2>2. PICK f \in Beaten(view, e) : c = Report(e, f)
      BY <2>1
    <2>3. f \in DOMAIN view /\ e \in Visited
      BY DEF Beaten, Visited, Rendered
    <2> QED
      BY <1>1, <2>2, <2>3 DEF AdmissionInv, ReportInv, Rendered
  <1> QED
    BY <1>2 DEF AdmissionInv, ReportInv

LEMMA LossesWereLost == AdmissionInv => RemovalNeverDrops
  <1> SUFFICES ASSUME AdmissionInv, Rendered, Sound, NEW e \in Lost PROVE e \in lost
    BY DEF RemovalNeverDrops
  <1>1. \A f \in DOMAIN view : SoundEntry(f)
    BY DEF Sound, SoundEntry
  <1>2. CASE e \in Shadowed(view)
    BY <1>2 DEF AdmissionInv, LostInv, Shadowed
  <1>3. CASE e \notin Shadowed(view)
    <2>1. PICK c \in losers : e = c.loser
      BY <1>3 DEF Lost
    <2>2. c \in Clashes(view)
      BY DEF AdmissionInv, ReportInv
    <2>3. PICK g \in DOMAIN view \ Shadowed(view) : \E f \in Beaten(view, g) : c = Report(g, f)
      BY <2>2, ClashIsReport
    <2>4. PICK f \in Beaten(view, g) : c = Report(g, f)
      BY <2>3
    <2>5. g = e /\ f \in DOMAIN view
      BY <2>1, <2>4 DEF Report, Beaten
    <2> QED
      BY <1>1, <2>4, <2>5 DEF AdmissionInv, LostInv
  <1> QED
    BY <1>2, <1>3

\* The state of the renderer's loop keeps its types, for every gateway.
THEOREM AdmissionTypeCorrect == Spec => []TypeOK
  <1>1. AdmissionInv => TypeOK
    BY DEF AdmissionInv
  <1> QED
    BY <1>1, AdmissionAlways, PTL

\* routeLosers computes Clashes for every set of endpoints that pass their own
\* check, whatever gin's refusals are.
THEOREM LoopComputesClashes == Spec => []LosersExact
  BY ReportsAreClashes, AdmissionAlways, PTL

\* What routeLosers registers in the router, no older registered route refuses.
THEOREM RegisteredFitTogether == Spec => []ServedTogether
  <1>1. AdmissionInv => ServedTogether
    BY DEF AdmissionInv
  <1> QED
    BY <1>1, AdmissionAlways, PTL

\* Deleting an endpoint never takes the route of another, for every gateway
\* whose remaining endpoints are sound; the deleted one need not be.
THEOREM DeletionTakesNoRoute == Spec => []RemovalNeverDrops
  BY LossesWereLost, AdmissionAlways, PTL
=============================================================================
