--------------------------- MODULE EndpointStatus ---------------------------
(***************************************************************************)
(* The status of one KrakenDEndpoint and of the policy it may reference,   *)
(* and the three controllers that keep them: the gateway controller writes *)
(* Accepted, the endpoint controller ResolvedRefs and Ready, the policy    *)
(* controller the policy's finalizer and status.  They share nothing but   *)
(* the stored objects, and read them from caches that may be behind.       *)
(***************************************************************************)
EXTENDS Naturals, FiniteSets

CONSTANTS
  Renders,      \* what a render may say about the endpoint, see Render
  FirstRender,  \* what it says at first
  Entries,      \* how many entries the endpoint has
  Events,       \* what the environment does
  MaxChanges,   \* how often: user changes, calls that fail and crashes
  MaxTries,     \* attempts of retry.DefaultBackoff
  OwnWritesSeen \* a pass starts from a cache that shows its controller's last write

\* How the config stage ends: the render is applied, the gateway root fails,
\* the endpoints fail only together, or krakend check cannot run.
Modes == {"serves", "rootInvalid", "combined", "unavailable"}

\* mode, and what the render says about the endpoint: it is excluded, it is
\* among the conflicted and lost so many entries, so many wildcard entries and
\* other Enterprise features were stripped, its name of a schema is taken.
Render == [mode : Modes, excluded : BOOLEAN, conflicted : BOOLEAN, lost : 0..Entries,
           wildcards : 0..Entries, stripped : BOOLEAN, schema : BOOLEAN]

ASSUME StatusAssumption ==
  /\ Entries \in Nat \ {0} /\ MaxChanges \in Nat /\ MaxTries \in Nat \ {0}
  /\ OwnWritesSeen \in BOOLEAN
  /\ FirstRender \in Renders /\ Renders \subseteq Render
  /\ \A r \in Renders : r.lost + r.wildcards <= Entries /\ (r.lost > 0 => r.conflicted)
                        /\ (r.wildcards > 0 => r.stripped)

VARIABLES
  ep, epCache,     \* the endpoint: stored, and as the caches show it
  gw, gwCache,     \* the gateway it names
  pol, polCache,   \* the policy
  queued,          \* controllers with a request in their queue
  gwPass,          \* the gateway controller's pass
  epPass,          \* the endpoint controller's
  polPass,         \* the policy controller's
  env,             \* what a render would say now; what may still happen
  included         \* generations of the endpoint a gateway accepted whole

vars == <<ep, epCache, gw, gwCache, pol, polCache, queued, gwPass, epPass, polPass, env, included>>

-----------------------------------------------------------------------------
(* Objects.                                                                *)

Controllers == {"gateway", "endpoint", "policy"}
Reasons == {"Accepted", "SchemaNameConflict", "PartiallyAccepted", "EndpointConflict",
            "EEFeaturesStripped", "EndpointInvalid"}
Times   == 0..MaxChanges + 1

\* Accepted: absent when there is no gen.
NoVerdict == [gen |-> 0, ok |-> FALSE, reason |-> "Accepted"]
Verdict   == [gen : Times, ok : BOOLEAN, reason : Reasons]

\* ResolvedRefs and Ready, for the generation they were derived from.
Refs  == [gen : Times, reason : {"RefsResolved", "GatewayNotFound", "PolicyNotFound"}]
Ready == [gen : Times, status : {"True", "False", "Unknown"},
          reason : Reasons \cup {"Ready", "Pending", "GatewayNotFound", "PolicyNotFound"}]

\* uid 0: there is none.
Endpoint == [uid : Times, gen : Times, pol : BOOLEAN, accepted : Verdict, conflicts : 0..Entries,
             refs : Refs, ready : Ready]
Gateway  == [uid : Times, applied : BOOLEAN, mode : Modes \cup {"none"}, excluded : BOOLEAN]
Policy   == [uid : Times, gen : Times, valid : BOOLEAN, deleting : BOOLEAN, protected : BOOLEAN,
             referencedBy : 0..1, ready : {"none", "True", "False", "Unknown"}]

NewEndpoint(uid, usesPolicy) ==
  [uid |-> uid, gen |-> IF uid = 0 THEN 0 ELSE 1, pol |-> usesPolicy, accepted |-> NoVerdict,
   conflicts |-> 0, refs |-> [gen |-> 0, reason |-> "RefsResolved"],
   ready |-> [gen |-> 0, status |-> "Unknown", reason |-> "Pending"]]
NewGateway(uid) == [uid |-> uid, applied |-> FALSE, mode |-> "none", excluded |-> FALSE]
NewPolicy(uid, valid) ==
  [uid |-> uid, gen |-> IF uid = 0 THEN 0 ELSE 1, valid |-> valid, deleting |-> FALSE,
   protected |-> FALSE, referencedBy |-> 0, ready |-> "none"]

NoEndpoint == NewEndpoint(0, FALSE)
NoPolicy   == NewPolicy(0, FALSE)

\* acceptance: set says the condition is set, not removed; keep leaves
\* status.conflicts; careful removes only what isExclusion accepts.
Acceptance == [set : BOOLEAN, verdict : Verdict, conflicts : 0..Entries, keep : BOOLEAN, careful : BOOLEAN]
Nothing    == [set |-> FALSE, verdict |-> NoVerdict, conflicts |-> 0, keep |-> FALSE, careful |-> FALSE]

GatewayPass == [at : {"idle", "record", "decide", "get", "patch", "finish"}, base : Endpoint, gw : Gateway,
                missing : BOOLEAN, render : Renders, a : Acceptance,
                tries : 0..MaxTries, failed : BOOLEAN, excluded : BOOLEAN]
EndpointPass == [at : {"idle", "patch"}, base : Endpoint, refs : Refs]
PolicyPass   == [at : {"idle", "protect", "confirm", "release", "status"}, pol : Policy, count : 0..1]

IdleGateway ==
  [at |-> "idle", base |-> NoEndpoint, gw |-> NewGateway(0), missing |-> FALSE,
   render |-> FirstRender, a |-> Nothing,
   tries |-> 0, failed |-> FALSE, excluded |-> FALSE]
IdleEndpoint == [at |-> "idle", base |-> NoEndpoint, refs |-> NoEndpoint.refs]
IdlePolicy   == [at |-> "idle", pol |-> NoPolicy, count |-> 0]

TypeOK ==
  /\ {ep, epCache} \subseteq Endpoint /\ {gw, gwCache} \subseteq Gateway /\ {pol, polCache} \subseteq Policy
  /\ queued \subseteq Controllers
  /\ gwPass \in GatewayPass /\ epPass \in EndpointPass /\ polPass \in PolicyPass
  /\ env \in [render : Renders, changes : 0..MaxChanges]
  /\ included \subseteq Times \X Times

Here(object) == object.uid # 0
UsesPolicy(e) == Here(e) /\ e.pol

\* A uid no object has had.
Fresh   == MaxChanges + 2 - env.changes
Change(e) == e \in Events /\ env.changes > 0
OneChange == env' = [env EXCEPT !.changes = @ - 1]

\* What only controller c writes, as the objects in the caches or the store say.
Written(c, e, p) ==
  CASE c = "gateway"  -> <<e.accepted, e.conflicts>>
    [] c = "endpoint" -> <<e.refs, e.ready>>
    [] c = "policy"   -> <<p.protected, p.referencedBy, p.ready>>

\* Controller c takes its request from the queue.
Starts(c) ==
  /\ c \in queued
  /\ OwnWritesSeen /\ ep.uid = epCache.uid /\ pol.uid = polCache.uid
       => Written(c, ep, pol) = Written(c, epCache, polCache)

-----------------------------------------------------------------------------
(* The gateway controller: the verdict on the endpoint.                    *)

AVerdict(e, ok, reason) == [gen |-> e.gen, ok |-> ok, reason |-> reason]

\* endpointAccepted, and the schema conflict reconcileEndpointAcceptance adds:
\* what the applied render r says about endpoint e.
EndpointAccepted(e, r, unresolved) ==
  LET served == Entries - r.lost - r.wildcards
      set(ok, reason, n) == [Nothing EXCEPT !.set = TRUE, !.verdict = AVerdict(e, ok, reason),
                                            !.conflicts = n]
  IN IF unresolved THEN Nothing
     ELSE IF r.excluded THEN set(FALSE, "EndpointInvalid", 0)
     ELSE IF r.conflicted THEN IF r.lost > 0 /\ served > 0 THEN set(TRUE, "PartiallyAccepted", r.lost)
                               ELSE set(FALSE, "EndpointConflict", r.lost)
     ELSE IF r.stripped THEN set(r.wildcards < Entries, "EEFeaturesStripped", 0)
     ELSE set(TRUE, IF r.schema THEN "SchemaNameConflict" ELSE "Accepted", 0)

IsExclusion(verdict) == verdict.gen # 0 /\ verdict.reason = "EndpointInvalid"

\* recordExclusions: the verdict of a pass that applies nothing.  decides: the
\* endpoint is not left alone.  One whose policy is missing is not judged.
RecordExclusions(e, r, missing, never) ==
  LET judged   == r.mode \in {"serves", "combined"}
      excluded == r.excluded /\ judged /\ ~missing
      removes  == e.accepted.gen # 0 /\ (never \/ (judged /\ IsExclusion(e.accepted)))
  IN [decides |-> excluded \/ removes,
      a |-> IF excluded
              THEN [Nothing EXCEPT !.set = TRUE, !.verdict = AVerdict(e, FALSE, "EndpointInvalid"),
                                   !.keep = ~never]
              ELSE [Nothing EXCEPT !.keep = ~never, !.careful = ~never]]

\* A pass begins: the gateway is rendered with the endpoint as listed.
GatewayRead ==
  /\ gwPass.at = "idle" /\ Starts("gateway")
  /\ queued' = queued \ {"gateway"}
  /\ gwPass' = IF Here(gwCache)
                 THEN [IdleGateway EXCEPT !.at = IF env.render.mode = "serves" THEN "record" ELSE "decide",
                         !.base = epCache, !.gw = gwCache,
                         !.missing = UsesPolicy(epCache) /\ ~Here(polCache),
                         !.render = env.render, !.failed = env.render.mode = "unavailable"]
                 ELSE IdleGateway
  /\ UNCHANGED <<ep, epCache, gw, gwCache, pol, polCache, epPass, polPass, env, included>>

\* The pass p decides on acceptance a, or (decides is FALSE) leaves the endpoint
\* alone; EndpointsExcluded follows what the endpoint then says.
Decided(p, decides, a) ==
  [p EXCEPT !.at = IF decides THEN "get" ELSE "finish", !.a = a, !.missing = FALSE,
            !.excluded = Here(p.base) /\ IsExclusion(IF decides THEN a.verdict ELSE p.base.accepted)]

\* recordApplied is an optimistic write of the gateway's status; the render is
\* then applied and its verdict is the endpoint's.
RecordApplied ==
  /\ gwPass.at = "record" /\ gw = gwPass.gw
  /\ gw' = [gw EXCEPT !.applied = TRUE]
  /\ LET e == gwPass.base
         a == EndpointAccepted(e, gwPass.render, gwPass.missing)
     IN /\ gwPass' = Decided([gwPass EXCEPT !.gw = gw'], Here(e), a)
        /\ included' = IF Here(e) /\ a.set /\ a.verdict.ok THEN included \cup {<<e.uid, e.gen>>} ELSE included
  /\ UNCHANGED <<ep, epCache, gwCache, pol, polCache, queued, epPass, polPass, env>>

\* A pass that cannot record its config applies nothing and is retried.
RecordFails ==
  /\ gwPass.at = "record" /\ gw # gwPass.gw
  /\ gwPass' = [gwPass EXCEPT !.at = "decide", !.failed = TRUE]
  /\ UNCHANGED <<ep, epCache, gw, gwCache, pol, polCache, queued, epPass, polPass, env, included>>

\* neverApplied: an empty cached checksum is confirmed with an uncached read.
NeverApplied == ~gwPass.gw.applied /\ Here(gw) /\ ~gw.applied

\* The pass applies nothing.
DecideUnserved ==
  /\ gwPass.at = "decide"
  /\ LET x == RecordExclusions(gwPass.base, gwPass.render, gwPass.missing, NeverApplied)
     IN gwPass' = Decided(gwPass, Here(gwPass.base) /\ x.decides, x.a)
  /\ UNCHANGED <<ep, epCache, gw, gwCache, pol, polCache, queued, epPass, polPass, env, included>>

\* The status of e with the verdict a.
WithVerdict(e, a) ==
  [e EXCEPT !.accepted = IF a.set THEN a.verdict ELSE NoVerdict,
            !.conflicts = IF a.keep THEN @ ELSE a.conflicts]

\* writeEndpointAccepted reads the endpoint again and stops when it is gone, is
\* another one, or says so already.
GetEndpoint ==
  /\ gwPass.at = "get"
  /\ LET e == epCache
         stop == \/ e.uid # gwPass.base.uid
                 \/ ~gwPass.a.set /\ gwPass.a.careful /\ ~IsExclusion(e.accepted)
                 \/ WithVerdict(e, gwPass.a) = e
     IN gwPass' = [gwPass EXCEPT !.at = IF stop THEN "finish" ELSE "patch", !.base = e, !.tries = @ + 1]
  /\ UNCHANGED <<ep, epCache, gw, gwCache, pol, polCache, queued, epPass, polPass, env, included>>

\* A mutant: the patch carries no resource version.
PatchUnlocked(base) == ep.uid = base.uid

\* MergeFromWithOptimisticLock: the stored object is the one the patch was
\* computed from.  (An object changed and changed back counts as unchanged.)
PatchApplies(base) == ep = base

PatchAccepted ==
  /\ gwPass.at = "patch" /\ PatchApplies(gwPass.base)
  /\ ep' = WithVerdict(gwPass.base, gwPass.a)
  /\ gwPass' = [gwPass EXCEPT !.at = "finish"]
  /\ UNCHANGED <<epCache, gw, gwCache, pol, polCache, queued, epPass, polPass, env, included>>

\* RetryOnConflict: a conflict is retried from a new read; a deleted endpoint
\* needs no verdict.
PatchAcceptedConflicts ==
  /\ gwPass.at = "patch" /\ ~PatchApplies(gwPass.base)
  /\ gwPass' = [gwPass EXCEPT !.at = IF Here(ep) /\ gwPass.tries < MaxTries THEN "get" ELSE "finish",
                              !.failed = @ \/ (Here(ep) /\ gwPass.tries = MaxTries)]
  /\ UNCHANGED <<ep, epCache, gw, gwCache, pol, polCache, queued, epPass, polPass, env, included>>

\* A read or write of the endpoint fails otherwise; the stage goes on.
AcceptanceFails ==
  /\ gwPass.at \in {"get", "patch"} /\ Change("faults") /\ OneChange
  /\ gwPass' = [gwPass EXCEPT !.at = "finish", !.failed = TRUE]
  /\ UNCHANGED <<ep, epCache, gw, gwCache, pol, polCache, queued, epPass, polPass, included>>

\* The pass's last status write; a pass that failed is queued again.
FinishGateway ==
  LET g == [gwPass.gw EXCEPT !.mode = gwPass.render.mode, !.excluded = gwPass.excluded]
      conflict == g # gwPass.gw /\ gw # gwPass.gw
  IN /\ gwPass.at = "finish"
     /\ gw' = IF conflict THEN gw ELSE IF g # gwPass.gw THEN g ELSE gw
     /\ queued' = IF gwPass.failed \/ conflict THEN queued \cup {"gateway"} ELSE queued
     /\ gwPass' = IdleGateway
     /\ UNCHANGED <<ep, epCache, gwCache, pol, polCache, epPass, polPass, env, included>>

-----------------------------------------------------------------------------
(* The endpoint controller.                                                *)

\* resolveRefs, from the caches.
ResolveRefs(e) ==
  [gen |-> e.gen,
   reason |-> IF ~Here(gwCache) THEN "GatewayNotFound"
              ELSE IF UsesPolicy(e) /\ ~Here(polCache) THEN "PolicyNotFound" ELSE "RefsResolved"]

\* A mutant: the generations of the two conditions are not compared.
EndpointReadyAnyGeneration(refs, accepted) ==
  LET ready(status, reason) == [gen |-> refs.gen, status |-> status, reason |-> reason]
  IN IF refs.gen = 0 \/ (refs.reason = "RefsResolved" /\ accepted.gen = 0)
       THEN ready("Unknown", "Pending")
     ELSE IF refs.reason # "RefsResolved" THEN ready("False", refs.reason)
     ELSE IF accepted.ok /\ accepted.reason \in {"Accepted", "SchemaNameConflict"}
       THEN ready("True", "Ready")
     ELSE ready("False", accepted.reason)

\* EndpointReady, and the phase it stands for.
EndpointReady(refs, accepted) ==
  LET ready(status, reason) == [gen |-> refs.gen, status |-> status, reason |-> reason]
  IN IF refs.gen = 0 \/ (refs.reason = "RefsResolved" /\ accepted.gen # refs.gen)
       THEN ready("Unknown", "Pending")
     ELSE IF refs.reason # "RefsResolved" THEN ready("False", refs.reason)
     ELSE IF accepted.ok /\ accepted.reason \in {"Accepted", "SchemaNameConflict"}
       THEN ready("True", IF accepted.reason = "Accepted" THEN "Ready" ELSE accepted.reason)
     ELSE ready("False", accepted.reason)

\* applyEndpointStatus.
ApplyEndpointStatus(e, refs) == [e EXCEPT !.refs = refs, !.ready = EndpointReady(refs, e.accepted)]

\* Reconcile up to the patch; an unchanged status ends the pass.
EndpointRead ==
  /\ epPass.at = "idle" /\ Starts("endpoint")
  /\ queued' = queued \ {"endpoint"}
  /\ epPass' = IF Here(epCache) /\ ApplyEndpointStatus(epCache, ResolveRefs(epCache)) # epCache
                 THEN [at |-> "patch", base |-> epCache, refs |-> ResolveRefs(epCache)]
                 ELSE IdleEndpoint
  /\ UNCHANGED <<ep, epCache, gw, gwCache, pol, polCache, gwPass, polPass, env, included>>

PatchReady ==
  /\ epPass.at = "patch" /\ PatchApplies(epPass.base)
  /\ ep' = ApplyEndpointStatus(epPass.base, epPass.refs)
  /\ epPass' = IdleEndpoint
  /\ UNCHANGED <<epCache, gw, gwCache, pol, polCache, queued, gwPass, polPass, env, included>>

\* A mutant: a conflict ends the pass and nothing asks for another.
PatchReadyGivesUp ==
  /\ epPass.at = "patch" /\ ~PatchApplies(epPass.base)
  /\ epPass' = IdleEndpoint
  /\ UNCHANGED <<ep, epCache, gw, gwCache, pol, polCache, queued, gwPass, polPass, env, included>>

\* lostWriteRace: the pass is queued again after a delay.
PatchReadyConflicts ==
  /\ epPass.at = "patch" /\ ~PatchApplies(epPass.base)
  /\ epPass' = IdleEndpoint
  /\ queued' = queued \cup {"endpoint"}
  /\ UNCHANGED <<ep, epCache, gw, gwCache, pol, polCache, gwPass, polPass, env, included>>

\* A patch that fails otherwise: the pass returns the error.
EndpointFails ==
  /\ epPass.at = "patch" /\ Change("faults") /\ OneChange
  /\ epPass' = IdleEndpoint
  /\ queued' = queued \cup {"endpoint"}
  /\ UNCHANGED <<ep, epCache, gw, gwCache, pol, polCache, gwPass, polPass, included>>

-----------------------------------------------------------------------------
(* The policy controller.                                                  *)

\* policyReady: typed fields and krakend check on the policy alone.
PolicyReady(p) ==
  IF env.render.mode = "unavailable" THEN "Unknown" ELSE IF p.valid THEN "True" ELSE "False"

PolicyStatus(p, count) == [p EXCEPT !.referencedBy = count, !.ready = PolicyReady(p)]

\* Reconcile: the references are counted in the cache, then the finalizer.
PolicyRead ==
  /\ polPass.at = "idle" /\ Starts("policy")
  /\ queued' = queued \ {"policy"}
  /\ LET count == IF UsesPolicy(epCache) THEN 1 ELSE 0
         next == IF ~polCache.deleting /\ ~polCache.protected THEN "protect"
                 ELSE IF polCache.deleting /\ count = 0 THEN "confirm" ELSE "status"
         idle == ~Here(polCache) \/ (next = "status" /\ PolicyStatus(polCache, count) = polCache
                                     /\ polCache.ready # "Unknown")
     IN polPass' = IF ~idle THEN [at |-> next, pol |-> polCache, count |-> count] ELSE IdlePolicy
  /\ UNCHANGED <<ep, epCache, gw, gwCache, pol, polCache, gwPass, epPass, env, included>>

Unchanged(p) == pol = p

\* reconcileProtection adds the finalizer.
Protect ==
  /\ polPass.at = "protect" /\ Unchanged(polPass.pol)
  /\ pol' = [pol EXCEPT !.protected = TRUE]
  /\ polPass' = [polPass EXCEPT !.at = "status", !.pol = pol']
  /\ UNCHANGED <<ep, epCache, gw, gwCache, polCache, queued, gwPass, epPass, env, included>>

\* A mutant: the cached count is trusted.
ReferencedInCache == UsesPolicy(epCache)

\* referencedOnServer: an uncached list of all endpoints.
ReferencedOnServer == UsesPolicy(ep)

Confirm ==
  /\ polPass.at = "confirm"
  /\ polPass' = [polPass EXCEPT !.at = IF ReferencedOnServer THEN "status" ELSE "release"]
  /\ UNCHANGED <<ep, epCache, gw, gwCache, pol, polCache, queued, gwPass, epPass, env, included>>

\* The finalizer goes, and the policy with it.
Release ==
  /\ polPass.at = "release" /\ Unchanged(polPass.pol)
  /\ pol' = NoPolicy
  /\ polPass' = IdlePolicy
  /\ UNCHANGED <<ep, epCache, gw, gwCache, polCache, queued, gwPass, epPass, env, included>>

\* The status, written when it changed; a check that could not run is retried.
UpdatePolicy ==
  LET p == PolicyStatus(polPass.pol, polPass.count)
  IN /\ polPass.at = "status" /\ (p = polPass.pol \/ Unchanged(polPass.pol))
     /\ pol' = IF p = polPass.pol THEN pol ELSE p
     /\ queued' = IF p.ready = "Unknown" THEN queued \cup {"policy"} ELSE queued
     /\ polPass' = IdlePolicy
     /\ UNCHANGED <<ep, epCache, gw, gwCache, polCache, gwPass, epPass, env, included>>

\* A write of an outdated policy is refused, or a call fails: the pass is
\* queued again, unless the policy is gone.
PolicyFails ==
  /\ \/ polPass.at \in {"protect", "release"} /\ ~Unchanged(polPass.pol) /\ UNCHANGED env
     \/ polPass.at = "status" /\ ~Unchanged(polPass.pol) /\ UNCHANGED env
     \/ polPass.at # "idle" /\ Change("faults") /\ OneChange
  /\ polPass' = IdlePolicy
  /\ queued' = queued \cup {"policy"}
  /\ UNCHANGED <<ep, epCache, gw, gwCache, pol, polCache, gwPass, epPass, included>>

-----------------------------------------------------------------------------
(* Caches, watches and crashes.                                            *)

SpecChanged(old, new) == old.uid # new.uid \/ old.gen # new.gen
Renewed(old, new)     == old.uid # new.uid

\* endpointPredicate: spec changes and changes of Accepted.
EndpointPredicate(old, new) == SpecChanged(old, new) \/ old.accepted # new.accepted

\* The endpoint watches of the three controllers.
DeliverEndpoint ==
  /\ epCache # ep
  /\ epCache' = ep
  /\ queued' = queued
       \cup (IF EndpointPredicate(epCache, ep) THEN {"endpoint"} ELSE {})
       \cup (IF SpecChanged(epCache, ep) THEN {"gateway"} ELSE {})
       \cup (IF SpecChanged(epCache, ep) /\ (UsesPolicy(epCache) \/ UsesPolicy(ep)) THEN {"policy"} ELSE {})
  /\ UNCHANGED <<ep, gw, gwCache, pol, polCache, gwPass, epPass, polPass, env, included>>

\* The gateway watches: every change for its own controller, existence for
\* the endpoints the cache shows (gatewayToEndpoints).
DeliverGateway ==
  /\ gwCache # gw
  /\ gwCache' = gw
  /\ queued' = queued \cup {"gateway"}
       \cup (IF Renewed(gwCache, gw) /\ Here(epCache) THEN {"endpoint"} ELSE {})
  /\ UNCHANGED <<ep, epCache, gw, pol, polCache, gwPass, epPass, polPass, env, included>>

\* The policy watches (policyToGateways, policyToEndpoints).
DeliverPolicy ==
  /\ polCache # pol
  /\ polCache' = pol
  /\ queued' = queued
       \cup (IF SpecChanged(polCache, pol) THEN {"policy"} ELSE {})
       \cup (IF SpecChanged(polCache, pol) /\ UsesPolicy(epCache) THEN {"gateway"} ELSE {})
       \cup (IF Renewed(polCache, pol) /\ UsesPolicy(epCache) THEN {"endpoint"} ELSE {})
  /\ UNCHANGED <<ep, epCache, gw, gwCache, pol, gwPass, epPass, polPass, env, included>>

\* The operator restarts: passes are lost, caches are listed anew, and every
\* object is queued.
Crash ==
  /\ Change("crash") /\ OneChange
  /\ epCache' = ep /\ gwCache' = gw /\ polCache' = pol
  /\ queued' = Controllers
  /\ gwPass' = IdleGateway /\ epPass' = IdleEndpoint /\ polPass' = IdlePolicy
  /\ UNCHANGED <<ep, gw, pol, included>>

-----------------------------------------------------------------------------
(* Users.                                                                  *)

\* Admission of a reference: the policy exists and is not being deleted, in an
\* uncached read just before the endpoint is stored.
AdmitReference == Here(pol) /\ ~pol.deleting

CreateEndpoint(usesPolicy) ==
  /\ Change("endpoint") /\ OneChange /\ ~Here(ep)
  /\ Here(gwCache) /\ (usesPolicy => AdmitReference)
  /\ ep' = NewEndpoint(Fresh, usesPolicy)
  /\ UNCHANGED <<epCache, gw, gwCache, pol, polCache, queued, gwPass, epPass, polPass, included>>

\* The spec is edited; a reference that is kept is not checked again.
EditEndpoint(usesPolicy) ==
  /\ Change("edit") /\ OneChange /\ Here(ep)
  /\ usesPolicy /\ ~ep.pol => AdmitReference
  /\ ep' = [ep EXCEPT !.gen = @ + 1, !.pol = usesPolicy]
  /\ UNCHANGED <<epCache, gw, gwCache, pol, polCache, queued, gwPass, epPass, polPass, included>>

DeleteEndpoint ==
  /\ Change("endpoint") /\ OneChange /\ Here(ep)
  /\ ep' = NoEndpoint
  /\ UNCHANGED <<epCache, gw, gwCache, pol, polCache, queued, gwPass, epPass, polPass, included>>

\* The gateway is deleted, or one is created under its name.
ReplaceGateway ==
  /\ Change("gateway") /\ OneChange
  /\ gw' = NewGateway(IF Here(gw) THEN 0 ELSE Fresh)
  /\ UNCHANGED <<ep, epCache, gwCache, pol, polCache, queued, gwPass, epPass, polPass, included>>

\* The policy is deleted: at once without the finalizer, else it waits for it.
DeletePolicy ==
  /\ Change("policy") /\ OneChange /\ Here(pol) /\ ~pol.deleting
  /\ pol' = IF pol.protected THEN [pol EXCEPT !.deleting = TRUE, !.gen = @ + 1] ELSE NoPolicy
  /\ UNCHANGED <<ep, epCache, gw, gwCache, polCache, queued, gwPass, epPass, polPass, included>>

CreatePolicy ==
  /\ Change("policy") /\ OneChange /\ ~Here(pol)
  /\ \E valid \in BOOLEAN : pol' = NewPolicy(Fresh, valid)
  /\ UNCHANGED <<ep, epCache, gw, gwCache, polCache, queued, gwPass, epPass, polPass, included>>

\* Other endpoints, the license or the validator change what the next render
\* says.
ChangeRender(r) ==
  /\ Change("render")
  /\ env' = [env EXCEPT !.render = r, !.changes = @ - 1]
  /\ queued' = queued \cup {"gateway"}
  /\ UNCHANGED <<ep, epCache, gw, gwCache, pol, polCache, gwPass, epPass, polPass, included>>

-----------------------------------------------------------------------------
\* The operator starts with an endpoint and a policy it may reference.
Init ==
  /\ \E usesPolicy \in BOOLEAN :
       /\ ep = NewEndpoint(1, usesPolicy)
       /\ pol = [NewPolicy(1, TRUE) EXCEPT !.protected = TRUE, !.ready = "True",
                                           !.referencedBy = IF usesPolicy THEN 1 ELSE 0]
  /\ gw = NewGateway(1)
  /\ env = [render |-> FirstRender, changes |-> MaxChanges]
  /\ epCache = ep /\ gwCache = gw /\ polCache = pol
  /\ queued = Controllers
  /\ gwPass = IdleGateway /\ epPass = IdleEndpoint /\ polPass = IdlePolicy
  /\ included = {}

GatewayStep ==
  \/ GatewayRead \/ RecordApplied \/ RecordFails \/ DecideUnserved \/ GetEndpoint \/ PatchAccepted
  \/ PatchAcceptedConflicts \/ AcceptanceFails \/ FinishGateway

EndpointStep == EndpointRead \/ PatchReady \/ PatchReadyConflicts \/ EndpointFails

PolicyStep == PolicyRead \/ Protect \/ Confirm \/ Release \/ UpdatePolicy \/ PolicyFails

Deliver == DeliverEndpoint \/ DeliverGateway \/ DeliverPolicy

User ==
  \/ \E u \in BOOLEAN : CreateEndpoint(u) \/ EditEndpoint(u)
  \/ DeleteEndpoint \/ ReplaceGateway \/ DeletePolicy \/ CreatePolicy
  \/ \E r \in Renders : ChangeRender(r)

Next == GatewayStep \/ EndpointStep \/ PolicyStep \/ Deliver \/ Crash \/ User

Spec == Init /\ [][Next]_vars

\* Queues are worked off, a pass ends, and caches catch up.
FairSpec ==
  /\ Spec
  /\ WF_vars(GatewayStep) /\ WF_vars(EndpointStep) /\ WF_vars(PolicyStep)
  /\ WF_vars(DeliverEndpoint) /\ WF_vars(DeliverGateway) /\ WF_vars(DeliverPolicy)

-----------------------------------------------------------------------------
(* Properties.                                                             *)

\* The two writers of an endpoint's status: no stored write changes the
\* gateway's verdict and the endpoint controller's conditions at once, so
\* neither takes back what the other wrote after it read.
OneWriterPerCondition ==
  [][ep'.uid = ep.uid /\ (ep'.accepted # ep.accepted \/ ep'.conflicts # ep.conflicts)
       => ep'.refs = ep.refs /\ ep'.ready = ep.ready]_vars

\* Ready=True is about the object and generation it names: some gateway pass
\* applied a render that includes all of just that.
ReadyWasIncluded ==
  Here(ep) /\ ep.ready.status = "True" => <<ep.uid, ep.ready.gen>> \in included

\* reconcileProtection: a policy with the finalizer does not go while a stored
\* endpoint references it, whatever the caches show.
PolicyOutlivesReferences ==
  [][Here(pol) /\ pol.protected /\ pol'.uid # pol.uid => ~UsesPolicy(ep)]_vars

EndpointSettled ==
  Here(ep) =>
    LET refs == [gen |-> ep.gen,
                 reason |-> IF ~Here(gw) THEN "GatewayNotFound"
                            ELSE IF ep.pol /\ ~Here(pol) THEN "PolicyNotFound" ELSE "RefsResolved"]
    IN ep.refs = refs /\ ep.ready = EndpointReady(refs, ep.accepted)

VerdictSettled ==
  Here(ep) /\ Here(gw) =>
    LET missing == ep.pol /\ ~Here(pol)
        a == EndpointAccepted(ep, env.render, missing)
    IN /\ env.render.mode = "serves"
            => ep = WithVerdict(ep, a) /\ gw.applied /\ gw.excluded = IsExclusion(ep.accepted)
       /\ env.render.mode = "combined" /\ env.render.excluded /\ ~missing => IsExclusion(ep.accepted)

PolicySettled ==
  Here(pol) =>
    /\ pol.deleting => UsesPolicy(ep)
    /\ pol.protected /\ pol.referencedBy = IF UsesPolicy(ep) THEN 1 ELSE 0
    /\ pol.ready = PolicyReady(pol)

\* Once nothing changes any more, the statuses say what is: the references
\* that resolve, the verdict of the last render, Ready as derived from both,
\* the number of references, and a deleted policy goes with the last of them.
StatusSettles == <>[](EndpointSettled /\ VerdictSettled /\ PolicySettled)
=============================================================================
