--------------------------- MODULE AutoConfigSync ---------------------------
(***************************************************************************)
(* The endpoint sync of the AutoConfig controller: Reconcile of            *)
(* KrakenDAutoConfigReconciler with claimEndpoints, planEndpoints,         *)
(* routeCollisions, precheck, writeEndpoint, deleteEndpoint and recordSync, *)
(* against the API server, the endpoint webhook and the informer cache.    *)
(*                                                                         *)
(* A pass fetches the OpenAPI document and generates the endpoints it      *)
(* wants.  It adopts labelled orphans, holds what cannot be served, writes *)
(* the rest and, if nothing was held and nothing failed, deletes the       *)
(* endpoints it controls and no longer wants.  Each endpoint has one       *)
(* entry, as generated ones do.  Every outcome of a pass is requeued (by a *)
(* timer, a backoff or after conflictRequeueDelay), so a pass may start    *)
(* whenever none is under way.                                             *)
(***************************************************************************)
EXTENDS Sequences, FiniteSets, RouteConflicts

CONSTANTS
  Names,        \* names of KrakenDEndpoints
  Versions,     \* contents of an endpoint's spec
  Absent,       \* no content
  Routes,       \* methods and route shapes
  RouteOf,      \* RouteOf[n][v]: the route of endpoint n with content v
  Documents,    \* what the document may evaluate to
  NoDocument,   \* no document was synced yet
  Unsound,      \* <<name, content>> that fail krakend check on their own
  Enterprise,   \* <<name, content>> that use what the CE gateway ignores
  Refused,      \* <<name, content>> the API server rejects as invalid
  Events,       \* what the environment may do, see the actions below
  MaxChanges,   \* bound on changes of the document and the gateway
  MaxFaults,    \* bound on failed calls and crashes
  MaxMeddling,  \* bound on changes of endpoints by others
  MaxLag,       \* bound on the events the cache may be behind (0: none)
  MaxCreated    \* bound on the number of endpoints ever created

\* What a document evaluates to: the content wanted for each name, the names
\* of the operations that failed, and whether operations were skipped.
Document == [want   : [Names -> Versions \cup {Absent}],
             failed : SUBSET Names,
             skips  : BOOLEAN]

ASSUME SyncAssumption ==
  /\ Absent \notin Versions
  /\ IsFiniteSet(Names) /\ Rank \in [Names -> Nat]
  /\ \A n, m \in Names : Rank[n] = Rank[m] => n = m
  /\ RouteOf \in [Names -> [Versions -> Routes]]
  /\ Clash \subseteq Routes \X Routes
  /\ Documents \subseteq Document /\ Documents # {} /\ NoDocument \notin Documents
  /\ {Unsound, Enterprise, Refused} \subseteq SUBSET (Names \X Versions)
  /\ {MaxChanges, MaxFaults, MaxMeddling, MaxLag, MaxCreated} \subseteq Nat

VARIABLES
  doc,       \* what the document evaluates to now
  gateway,   \* the gateway the endpoints belong to
  eps,       \* the stored endpoint of each name
  cache,     \* the endpoints as the informer cache shows them
  epEvents,  \* stored versions of endpoints the cache has not seen yet
  created,   \* how many endpoints were created
  status,    \* the stored status of the AutoConfig
  seen,      \* the AutoConfig as the cache shows it
  pass,      \* the pass under way
  bounds     \* what is left of the bounds

store == <<eps, cache, epEvents, created>>
vars  == <<doc, gateway, store, status, seen, pass, bounds>>

-----------------------------------------------------------------------------
(* Types.                                                                  *)

\* uid identifies the object and orders endpoints by creation.
Endpoint == [ver      : Versions \cup {Absent},
             owner    : {"autoconfig", "other", "none"},
             labelled : BOOLEAN,
             uid      : 0..MaxCreated]

NoEndpoint == [ver |-> Absent, owner |-> "none", labelled |-> FALSE, uid |-> 0]

\* sum stands for status.specChecksum, refused for the endpoints that
\* status.failedOperations lists as EndpointRejected.
Status == [synced  : {"Unknown", "True", "OperationsFailed", "Failed"},
           sum     : Documents \cup {NoDocument},
           refused : SUBSET Names]

Seen == [status : Status, current : BOOLEAN]  \* current: the stored resourceVersion

Pass == [at         : {"idle", "claim", "adopt", "plan", "check", "write", "delete", "record", "fail"},
         doc        : Documents,
         read       : Seen,                 \* the AutoConfig as read
         snap       : [Names -> Endpoint],  \* the endpoints as listed
         controlled : SUBSET Names,         \* those it controls
         orphans    : SUBSET Names,         \* those left to adopt
         ages       : [Names -> 0..(MaxCreated + 1)],  \* creationOrder
         writes     : SUBSET Names,         \* what is left to write
         stale      : SUBSET Names,         \* what is left to delete
         held       : SUBSET Names,         \* left unwritten for a persistent reason
         refused    : SUBSET Names,         \* the part of held that is EndpointRejected
         changed    : BOOLEAN,              \* an endpoint was written or deleted
         raced      : BOOLEAN,              \* a write lost a race
         transient  : BOOLEAN]              \* a call failed

Bounds == [changes : 0..MaxChanges, faults : 0..MaxFaults, meddling : 0..MaxMeddling]

\* Every variable stays in its type.
TypeOK ==
  /\ doc \in Documents /\ gateway \in {"valid", "invalid", "missing"}
  /\ eps \in [Names -> Endpoint] /\ cache \in [Names -> Endpoint]
  /\ epEvents \in Seq([name : Names, ep : Endpoint]) /\ Len(epEvents) <= MaxLag
  /\ created \in 0..MaxCreated
  /\ status \in Status /\ seen \in Seen
  /\ pass \in Pass
  /\ pass.refused \subseteq pass.held /\ pass.writes \cap pass.held = {}
  /\ bounds \in Bounds

-----------------------------------------------------------------------------
(* The API server and the cache.                                           *)

Exists(e) == e.ver # Absent

\* Endpoint n becomes e, and later so in the cache.
Store(n, e) ==
  /\ eps' = [eps EXCEPT ![n] = e]
  /\ created' = IF e.uid > created THEN e.uid ELSE created
  /\ IF MaxLag = 0
       THEN cache' = eps' /\ UNCHANGED epEvents
       ELSE /\ Len(epEvents) < MaxLag
            /\ epEvents' = Append(epEvents, [name |-> n, ep |-> e])
            /\ UNCHANGED cache

MayFail == "faults" \in Events /\ bounds.faults > 0
Spend   == bounds' = [bounds EXCEPT !.faults = @ - 1]

RouteIn(e, n) == RouteOf[n][e[n].ver]

StoredEntry(e, n) == [route |-> RouteIn(e, n), at |-> e[n].uid, source |-> n]

\* What the gateway renders of the endpoints e.
View(e) == [n \in {m \in Names : Exists(e[m])} |-> StoredEntry(e, n)]

\* EndpointValidator, on the operator's own writes: besides what is invalid in
\* itself, a route new to n that an endpoint of another controller has.
Denied(n, v) ==
  \/ <<n, v>> \in Refused
  \/ /\ gateway # "missing"
     /\ ~ (Exists(eps[n]) /\ RouteIn(eps, n) = RouteOf[n][v])
     /\ \E m \in Names \ {n} :
          /\ Exists(cache[m]) /\ cache[m].owner # "autoconfig"
          /\ RouteIn(cache, m) = RouteOf[n][v]

-----------------------------------------------------------------------------
(* What a pass decides before it writes.                                   *)

Wanted(d) == {n \in Names : d.want[n] # Absent}

RouteWanted(d, n) == RouteOf[n][d.want[n]]

\* newCreationOrder, withUncontrolled: the age of each endpoint that exists
\* and that no other object controls; a new one sorts last.
CreationOrder ==
  [n \in Names |->
     IF n \in pass.controlled THEN pass.snap[n].uid
     ELSE IF Exists(cache[n]) /\ cache[n].owner = "none" THEN cache[n].uid
     ELSE MaxCreated + 1]

WantedEntry(ages, n) == [route |-> RouteWanted(pass.doc, n), at |-> ages[n], source |-> n]

\* routeCollisions: the wanted endpoints that lose their route to another one.
RouteCollisions == Shadowed([n \in Wanted(pass.doc) |-> WantedEntry(CreationOrder, n)])

\* planEndpoints.
Writes == {n \in Wanted(pass.doc) :
             \/ n \notin pass.controlled
             \/ ~ pass.snap[n].labelled
             \/ pass.snap[n].ver # pass.doc.want[n]}
Stale  == pass.controlled \ Wanted(pass.doc)

\* checkSet: the candidates ws as they would be written and, when the pass
\* will delete them, the endpoints in gone left out.
CheckedView(ws, gone) ==
  [n \in ws \cup {m \in Names \ gone : Exists(cache[m])} |->
     IF n \in ws THEN WantedEntry(pass.ages, n) ELSE StoredEntry(cache, n)]

\* routerClashes: for each new clash the loser is held, or the winner when the
\* loser is no candidate.
RouterClashes(ws, gone) ==
  UNION {{IF c.loser \in ws THEN c.loser ELSE c.winner : c \in NewClashes(before, after, ws)} :
           before \in {View(cache)}, after \in {CheckedView(ws, gone)}}

\* The last loop of precheck: with the stale and the held endpoints as they
\* are stored, until no new clash appears.
Cleared(ws) ==
  LET clear[w \in SUBSET ws] ==
        LET clashes == RouterClashes(w, {})
        IN IF clashes = {} THEN w ELSE clear[w \ clashes]
  IN clear[ws]

\* judgeCandidates: a gateway whose root fails the check blames no candidate.
Judged(ws) == {n \in ws : gateway = "valid" /\ <<n, pass.doc.want[n]>> \in Unsound}

CEHeld(ws) == {n \in ws : <<n, pass.doc.want[n]>> \in Enterprise}

\* The holds precheck reports as EndpointRejected.
CEReported(ws) == IF gateway = "missing" THEN {} ELSE CEHeld(ws)

\* A mutant: the clashes are not looked for again after a hold.
PrecheckOnce(ws, stale, keeps) ==
  LET rest    == ws \ CEHeld(ws)
      clashes == RouterClashes(rest, IF keeps \/ rest # ws THEN {} ELSE stale)
  IN IF gateway = "missing" THEN {} ELSE CEHeld(ws) \cup clashes \cup Judged(rest \ clashes)

\* precheck: the candidates that are held.  A missing gateway is not checked.
Precheck(ws, stale, keeps) ==
  LET rest    == ws \ CEHeld(ws)
      clashes == RouterClashes(rest, IF keeps \/ rest # ws THEN {} ELSE stale)
      judged  == Judged(rest \ clashes)
  IN IF gateway = "missing" THEN {}
     ELSE IF clashes = {} /\ judged = {} THEN CEHeld(ws)
     ELSE CEHeld(ws) \cup (rest \ Cleared((rest \ clashes) \ judged))

\* endpointOutcome.failed.
Failed == pass.held # {} \/ pass.raced \/ pass.transient

\* recursRejection: the API server will reject one of the writes again.
RecursRejection == pass.writes \cap pass.read.status.refused # {}

-----------------------------------------------------------------------------
(* A pass.                                                                 *)

NewStatus == [synced |-> "Unknown", sum |-> NoDocument, refused |-> {}]

\* No pass is under way; the rest of the record has no meaning.
IdlePass == [at |-> "idle", doc |-> CHOOSE d \in Documents : TRUE,
             read |-> [status |-> NewStatus, current |-> TRUE],
             snap |-> [n \in Names |-> NoEndpoint],
             controlled |-> {}, orphans |-> {}, ages |-> [n \in Names |-> 0],
             writes |-> {}, stale |-> {}, held |-> {}, refused |-> {},
             changed |-> FALSE, raced |-> FALSE, transient |-> FALSE]

\* The document is fetched and evaluated.  One without any operation fails.
Fetch ==
  /\ pass.at = "idle"
  /\ pass' = [IdlePass EXCEPT !.doc = doc, !.read = seen, !.at =
       IF Wanted(doc) = {} /\ doc.failed = {} /\ ~ doc.skips THEN "fail" ELSE "claim"]
  /\ UNCHANGED <<doc, gateway, store, status, seen, bounds>>

\* Fetching, the CUE evaluation, listing or the config check fails.
FetchFails ==
  /\ MayFail
  /\ \/ pass.at = "idle" /\ pass' = [IdlePass EXCEPT !.at = "fail", !.read = seen]
     \/ pass.at = "claim" /\ pass' = [pass EXCEPT !.at = "fail"]
     \/ /\ pass.at = "check" /\ gateway # "missing" /\ pass.writes # {}
        /\ pass' = [pass EXCEPT !.at = "fail"]
  /\ Spend
  /\ UNCHANGED <<doc, gateway, store, status, seen>>

\* claimEndpoints lists the endpoints, the wanted orphans left to Write.
Claim ==
  /\ pass.at = "claim"
  /\ pass' = [pass EXCEPT
       !.at = "adopt", !.snap = cache,
       !.controlled = {n \in Names : cache[n].owner = "autoconfig"},
       !.orphans = {n \in Names \ Wanted(pass.doc) : cache[n].labelled /\ cache[n].owner = "none"}]
  /\ UNCHANGED <<doc, gateway, store, status, seen, bounds>>

\* An update of the copy that makes n into e: it is stored, or it conflicts,
\* or it fails, perhaps only for the caller.  A write to the status of n, which
\* is not modelled, makes it conflict too.
Update(n, copy, e, before, after) ==
  \/ eps[n] = copy /\ Store(n, e) /\ pass' = after /\ UNCHANGED bounds
  \/ /\ Exists(eps[n]) /\ eps[n] # copy
     /\ pass' = [before EXCEPT !.raced = TRUE]
     /\ UNCHANGED <<store, bounds>>
  \/ /\ MayFail /\ Spend
     /\ \/ /\ pass' = [before EXCEPT !.transient = TRUE]
           /\ UNCHANGED store \/ (eps[n] = copy /\ Store(n, e))
        \/ /\ Exists(eps[n])
           /\ pass' = [before EXCEPT !.raced = TRUE]
           /\ UNCHANGED store

\* The orphan n gets the AutoConfig as its controller.
Adopt(n) ==
  /\ pass.at = "adopt" /\ n \in pass.orphans
  /\ LET left    == [pass EXCEPT !.orphans = @ \ {n}]
         adopted == [pass.snap[n] EXCEPT !.owner = "autoconfig"]
     IN \/ /\ ~ Exists(eps[n])
           /\ pass' = left
           /\ UNCHANGED <<store, bounds>>
        \/ Update(n, pass.snap[n], adopted, left,
                  [left EXCEPT !.controlled = @ \cup {n}, !.snap[n] = adopted])
  /\ UNCHANGED <<doc, gateway, status, seen>>

Adopted ==
  /\ pass.at = "adopt" /\ pass.orphans = {}
  /\ pass' = [pass EXCEPT !.at = "plan"]
  /\ UNCHANGED <<doc, gateway, store, status, seen, bounds>>

\* planEndpoints and routeCollisions; an endpoint that loses its route is held
\* whether or not it would be written.
Plan ==
  /\ pass.at = "plan"
  /\ pass' = [pass EXCEPT !.at = "check", !.ages = CreationOrder,
                          !.writes = Writes \ RouteCollisions, !.stale = Stale,
                          !.held = RouteCollisions]
  /\ UNCHANGED <<doc, gateway, store, status, seen, bounds>>

\* A mutant: stale endpoints are taken to stay while the last sync failed.
KeepsAfterFailure ==
  \/ pass.doc.failed # {} \/ Failed
  \/ pass.read.status.synced = "OperationsFailed"

\* Whether this pass will keep the stale endpoints, as far as it knows.
Keeps == pass.doc.failed # {} \/ Failed \/ RecursRejection

\* The candidates that precheck does not hold are written.
Check ==
  /\ pass.at = "check"
  /\ \E holds \in {Precheck(pass.writes, pass.stale, Keeps)} :
       pass' = [pass EXCEPT
         !.at = "write", !.ages = [n \in Names |-> 0],
         !.writes = @ \ holds, !.held = @ \cup holds,
         !.refused = CEReported(pass.writes)]
  /\ UNCHANGED <<doc, gateway, store, status, seen, bounds>>

\* A mutant: the endpoint is taken over.
AlreadyOwnedNever(e) == FALSE

\* SetControllerReference fails.
AlreadyOwned(e) == e.owner = "other"

\* writeEndpoint: CreateOrUpdate starts from the cache.  The writes run in the
\* order of the document, which may be any.
Write(n) ==
  /\ pass.at = "write" /\ n \in pass.writes
  /\ LET left == [pass EXCEPT !.writes = @ \ {n}]
         done == [left EXCEPT !.changed = TRUE]
         hold == [left EXCEPT !.held = @ \cup {n}, !.refused = @ \cup {n}]
         copy == cache[n]
         e    == [ver |-> pass.doc.want[n], owner |-> "autoconfig", labelled |-> TRUE,
                  uid |-> IF Exists(copy) THEN copy.uid ELSE created + 1]
     IN \/ /\ AlreadyOwned(copy)
           /\ pass' = hold /\ UNCHANGED <<store, bounds>>
        \/ /\ copy = e  \* nothing to update
           /\ pass' = left /\ UNCHANGED <<store, bounds>>
        \/ /\ ~ AlreadyOwned(copy) /\ copy # e /\ eps[n] = copy /\ Denied(n, e.ver)
           /\ pass' = hold /\ UNCHANGED <<store, bounds>>
        \/ /\ ~ AlreadyOwned(copy) /\ copy # e /\ Exists(copy) /\ ~ Exists(eps[n])
           /\ pass' = [left EXCEPT !.transient = TRUE]
           /\ UNCHANGED <<store, bounds>>
        \/ /\ ~ AlreadyOwned(copy) /\ copy # e
           /\ ~ (eps[n] = copy /\ Denied(n, e.ver))
           /\ e.uid <= MaxCreated
           /\ Update(n, copy, e, left, done)
  /\ UNCHANGED <<doc, gateway, status, seen>>

\* A mutant: a write that lost a race does not keep the stale endpoints.
DeletesRaced == pass.doc.failed = {} /\ pass.held = {} /\ ~ pass.transient

\* Whether the pass goes on to delete the stale endpoints.
Deletes == pass.doc.failed = {} /\ ~ Failed

Written ==
  /\ pass.at = "write" /\ pass.writes = {}
  /\ pass' = IF Deletes THEN [pass EXCEPT !.at = "delete"]
             ELSE [pass EXCEPT !.at = "record", !.stale = {}]
  /\ UNCHANGED <<doc, gateway, store, status, seen, bounds>>

\* deleteEndpoint: the only precondition is the UID.
Delete(n) ==
  /\ pass.at = "delete" /\ n \in pass.stale
  /\ LET left == [pass EXCEPT !.stale = @ \ {n}]
     IN \/ /\ ~ Exists(eps[n])
           /\ pass' = left /\ UNCHANGED <<store, bounds>>
        \/ /\ Exists(eps[n]) /\ eps[n].uid # pass.snap[n].uid
           /\ pass' = [left EXCEPT !.raced = TRUE] /\ UNCHANGED <<store, bounds>>
        \/ /\ Exists(eps[n]) /\ eps[n].uid = pass.snap[n].uid
           /\ Store(n, NoEndpoint)
           /\ pass' = [left EXCEPT !.changed = TRUE] /\ UNCHANGED bounds
        \/ /\ MayFail /\ Spend
           /\ pass' = [left EXCEPT !.transient = TRUE]
           /\ \/ UNCHANGED store
              \/ eps[n].uid = pass.snap[n].uid /\ Exists(eps[n]) /\ Store(n, NoEndpoint)
  /\ UNCHANGED <<doc, gateway, status, seen>>

Deleted ==
  /\ pass.at = "delete" /\ pass.stale = {}
  /\ pass' = [pass EXCEPT !.at = "record"]
  /\ UNCHANGED <<doc, gateway, store, status, seen, bounds>>

\* A status update: it conflicts when the copy read is not the stored one.
WriteStatus(s) ==
  IF pass.read.current
    THEN status' = s /\ seen' = [seen EXCEPT !.current = FALSE]
    ELSE UNCHANGED <<status, seen>>

\* recordSyncedFailure: always written, from the copy read; a conflict is
\* swallowed.
RecordFailure ==
  /\ pass.at = "fail" \/ (pass.at = "record" /\ pass.transient)
  /\ WriteStatus([pass.read.status EXCEPT !.synced = "Failed"])
  /\ pass' = IdlePass
  /\ UNCHANGED <<doc, gateway, store, bounds>>

\* A mutant: lost races end in recordSync.
LostWriteRaceNever == FALSE

\* lostWriteRace: the pass is requeued and the status is left alone.
LostWriteRace == pass.raced

SyncResult ==
  [synced  |-> IF pass.doc.failed = {} /\ pass.held = {} THEN "True" ELSE "OperationsFailed",
   sum     |-> pass.doc,
   refused |-> pass.refused]

\* autoConfigStatusChanged: a new lastSyncTime is a difference.
StatusChanged == pass.changed \/ SyncResult # pass.read.status

\* recordSync: the status is written only when it differs from the copy read.
RecordSync ==
  /\ pass.at = "record" /\ ~ pass.transient
  /\ IF ~ LostWriteRace /\ StatusChanged
       THEN WriteStatus(SyncResult)
       ELSE UNCHANGED <<status, seen>>
  /\ pass' = IdlePass
  /\ UNCHANGED <<doc, gateway, store, bounds>>

\* The operator stops, or the status write fails.  A restart lists anew.
Crash ==
  /\ MayFail /\ pass.at # "idle"
  /\ pass' = IdlePass
  /\ \/ UNCHANGED <<cache, epEvents, seen>>
     \/ cache' = eps /\ epEvents' = <<>> /\ seen' = [status |-> status, current |-> TRUE]
  /\ Spend
  /\ UNCHANGED <<doc, gateway, eps, created, status>>

-----------------------------------------------------------------------------
(* The environment.                                                        *)

DeliverEndpoint ==
  /\ epEvents # <<>>
  /\ cache' = [cache EXCEPT ![Head(epEvents).name] = Head(epEvents).ep]
  /\ epEvents' = Tail(epEvents)
  /\ UNCHANGED <<doc, gateway, eps, created, status, seen, pass, bounds>>

DeliverStatus ==
  /\ ~ seen.current
  /\ seen' = [status |-> status, current |-> TRUE]
  /\ UNCHANGED <<doc, gateway, store, status, pass, bounds>>

Change(event) ==
  /\ event \in Events /\ bounds.changes > 0
  /\ bounds' = [bounds EXCEPT !.changes = @ - 1]

ChangeDocument ==
  /\ Change("document")
  /\ doc' \in Documents \ {doc}
  /\ UNCHANGED <<gateway, store, status, seen, pass>>

ChangeGateway ==
  /\ Change("gateway")
  /\ gateway' \in {"valid", "invalid", "missing"} \ {gateway}
  /\ UNCHANGED <<doc, store, status, seen, pass>>

\* Someone edits the AutoConfig's metadata: the copy a pass holds is outdated.
Annotate ==
  /\ Change("annotate")
  /\ seen' = [seen EXCEPT !.current = FALSE]
  /\ pass' = IF pass.at = "idle" THEN pass ELSE [pass EXCEPT !.read.current = FALSE]
  /\ UNCHANGED <<doc, gateway, store, status>>

\* What someone else may make of the stored endpoint e.
Meddled(e) ==
  {x \in {[kind |-> "remove", ep |-> NoEndpoint],
          [kind |-> "orphan", ep |-> [e EXCEPT !.owner = "none"]],
          [kind |-> "handover", ep |-> [e EXCEPT !.owner = "other"]],
          [kind |-> "unlabel", ep |-> [e EXCEPT !.labelled = FALSE]]}
         \cup {[kind |-> "edit", ep |-> [e EXCEPT !.ver = v]] : v \in Versions} :
     x.kind \in Events /\ x.ep # e}

\* Someone else changes, deletes or creates an endpoint.
Meddle(n) ==
  /\ bounds.meddling > 0
  /\ \/ Exists(eps[n]) /\ \E x \in Meddled(eps[n]) : Store(n, x.ep)
     \/ /\ "occupy" \in Events /\ ~ Exists(eps[n]) /\ created < MaxCreated
        /\ \E v \in Versions, o \in {"other", "none"} :
             Store(n, [ver |-> v, owner |-> o, labelled |-> FALSE, uid |-> created + 1])
  /\ bounds' = [bounds EXCEPT !.meddling = @ - 1]
  /\ UNCHANGED <<doc, gateway, status, seen, pass>>

-----------------------------------------------------------------------------
Init ==
  /\ doc \in Documents
  /\ gateway = "valid"
  /\ eps = [n \in Names |-> NoEndpoint] /\ cache = eps
  /\ epEvents = <<>> /\ created = 0
  /\ status = NewStatus /\ seen = [status |-> NewStatus, current |-> TRUE]
  /\ pass = IdlePass
  /\ bounds = [changes |-> MaxChanges, faults |-> MaxFaults, meddling |-> MaxMeddling]

Step ==
  \/ Fetch \/ Claim \/ Adopted \/ Plan \/ Check \/ Written \/ Deleted
  \/ \E n \in Names : Adopt(n) \/ Write(n) \/ Delete(n)
  \/ RecordFailure \/ RecordSync

Environment ==
  \/ ChangeDocument \/ ChangeGateway \/ Annotate
  \/ \E n \in Names : Meddle(n)

Next ==
  \/ Step \/ FetchFails \/ Crash
  \/ DeliverEndpoint \/ DeliverStatus
  \/ Environment

Spec == Init /\ [][Next]_vars

\* A queued pass runs and its steps end; the informers deliver.
FairSpec == Spec /\ WF_vars(Step) /\ WF_vars(DeliverEndpoint) /\ WF_vars(DeliverStatus)

-----------------------------------------------------------------------------
(* Properties.                                                             *)

\* The endpoints are what document d asks for.
Matches(d) ==
  \A n \in Names :
    /\ n \in Wanted(d) =>
         /\ eps[n].ver = d.want[n]
         /\ eps[n].owner = "autoconfig"
         /\ eps[n].labelled
    /\ n \notin Wanted(d) => eps[n].owner # "autoconfig"

\* reconcileEndpoints, "make-before-break": when the pass deletes an endpoint
\* no operation is held, and every endpoint the document asks for is already
\* stored as it asks for it.
MakeBeforeBreak ==
  [][\A n \in Names :
       (pass.at = "delete" /\ pass' # pass /\ Exists(eps[n]) /\ ~ Exists(eps'[n])) =>
         /\ pass.doc.failed = {}
         /\ \A m \in Wanted(pass.doc) : eps[m].ver = pass.doc.want[m]]_vars

\* claimEndpoints, writeEndpoint: adoption and writes never change an endpoint
\* that another object controls at that moment, however old the cache is.
ForeignNeverOverwritten ==
  [][\A n \in Names :
       (pass.at \in {"adopt", "write"} /\ pass' # pass /\ eps[n].owner = "other") =>
         eps'[n] = eps[n]]_vars

\* The pass could tell which of its writes the API server would refuse: the
\* last status lists them, and no older content of theirs stays in place.
RefusalsForeseen ==
  \A n \in pass.refused :
    \/ <<n, pass.doc.want[n]>> \in Enterprise
    \/ n \in pass.read.status.refused /\ ~ Exists(pass.snap[n])

\* No endpoint that keeps another one of its route out of the render is moved
\* to a different route: NewClashes takes the clash of the two, if they have one
\* then, for the conflict they had before.
ShadowsStay ==
  \A c \in Shadows(View(pass.snap)) :
    c.winner \in Wanted(pass.doc) => RouteWanted(pass.doc, c.winner) = c.route

\* precheck, recursRejection: a pass that finds endpoints the router can serve
\* next to each other, moves none that another one waits for (ShadowsStay), and
\* whose calls go through but for refusals it could foresee, leaves such
\* endpoints, whatever it wrote, held, kept or deleted.
NoClashAdded ==
  /\ pass.at = "record" /\ ~ pass.raced /\ ~ pass.transient /\ RefusalsForeseen
  /\ Clashes(View(pass.snap)) = {} /\ ShadowsStay
  => Clashes(View(eps)) = {}

\* recordSync: Synced turns True only when the endpoints stored at that moment
\* are those of the document the status records.
SyncedMeansStored ==
  [][(status' # status /\ status'.synced = "True") => Matches(status'.sum)]_vars

\* Nothing in document d has to be held.
Clean(d) ==
  /\ d.failed = {} /\ Wanted(d) # {}
  /\ \A n \in Wanted(d) : <<n, d.want[n]>> \notin Unsound \cup Enterprise \cup Refused
  /\ \A n, m \in Wanted(d) : n # m =>
       /\ RouteWanted(d, n) # RouteWanted(d, m)
       /\ <<RouteWanted(d, n), RouteWanted(d, m)>> \notin Clash

\* No endpoint belongs to somebody else.
Free ==
  \A n \in Names : Exists(eps[n]) =>
    eps[n].owner = "autoconfig" \/ (eps[n].owner = "none" /\ eps[n].labelled)

\* If nothing in the document has to be held and nobody else holds an endpoint,
\* the endpoints are those it asks for, and the status says so.
Converged == Clean(doc) /\ Free => Matches(doc) /\ status.synced = "True" /\ status.sum = doc

\* Whatever has to be held, the outcome is recorded: the status has the checksum
\* of the document and is not Failed.
OutcomeRecorded ==
  Free /\ (Wanted(doc) # {} \/ doc.failed # {} \/ doc.skips) =>
    status.sum = doc /\ status.synced \in {"True", "OperationsFailed"}

\* The changes being bounded, the document settles.  Then endpoints and status
\* settle too: on what it asks for where nothing has to be held, and with the
\* outcome recorded where something has (Reconcile, requeueResult).
SyncSettles == <>[](Converged /\ OutcomeRecorded)
=============================================================================
