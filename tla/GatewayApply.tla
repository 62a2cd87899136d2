---------------------------- MODULE GatewayApply ----------------------------
(***************************************************************************)
(* How a KrakenDGateway's rendered config reaches its pods: the config     *)
(* stage and the Deployment part of the infrastructure stage of            *)
(* KrakenDGatewayReconciler.Reconcile.                                     *)
(*                                                                         *)
(* One reconcile (a "pass") reads the gateway and its Deployment from the  *)
(* informer caches, renders, decides, publishes the render as an immutable *)
(* content-addressed ConfigMap, records it in the gateway's status, points *)
(* the Deployment at it, and collects old ConfigMaps.  Every call to the   *)
(* API server is a step of its own, so whatever other actors do can happen *)
(* between two of them: users edit the CRs, the license lapses, caches     *)
(* catch up, the Deployment controller rolls pods, somebody deletes a      *)
(* ConfigMap, the operator crashes, and any call may fail or take effect   *)
(* although its answer is lost.                                            *)
(*                                                                         *)
(* A checksum stands for the rendered document and for the name of its     *)
(* ConfigMap; an image is named by the KrakenD edition it contains.        *)
(***************************************************************************)
EXTENDS Naturals, Sequences, FiniteSets

CONSTANTS
  Inputs,       \* contents of the endpoint and policy caches a render reads
  Checksums,    \* checksums of rendered configs
  NoConfig,     \* the empty checksum and the empty ConfigMap name
  LegacyName,   \* the ConfigMap an earlier version kept under the gateway's name
  Render,       \* Render[i][e]: the config decided for input i and edition e
  Accepted,     \* the <<checksum, edition>> pairs krakend check accepts
  HistoryLimit, \* configMapHistoryLimit
  Upgraded,     \* whether the gateway comes from an earlier operator version
  Events,       \* what the environment may do, see the actions below
  MaxChanges,   \* bound on changes of the inputs
  MaxFaults,    \* bound on failed calls, unavailable validators and crashes
  MaxMeddling   \* bound on out-of-band edits of the gateway's children

Editions == {"CE", "EE"}
None     == "none"
Names    == Checksums \cup {LegacyName}

ASSUME ConfigAssumption ==
  /\ NoConfig \notin Names
  /\ LegacyName \notin Checksums
  /\ Inputs # {}
  /\ Render \in [Inputs -> [Editions -> Checksums]]
  /\ Accepted \subseteq Checksums \X Editions

ASSUME BoundAssumption ==
  /\ HistoryLimit \in Nat \ {0}
  /\ Upgraded \in BOOLEAN
  /\ MaxChanges \in Nat /\ MaxFaults \in Nat /\ MaxMeddling \in Nat

VARIABLES
  gw,        \* the stored gateway: spec.edition and the status fields
  gwCache,   \* the gateway as the informer cache shows it
  gwEvents,  \* stored versions of the gateway the cache has not seen yet
  dep,       \* the stored Deployment's pod template
  depCache,  \* the Deployment as the informer cache shows it
  depSynced, \* whether the cache holds the Deployment's stored version
  cm,        \* the config ConfigMap of each checksum
  newer,     \* newer[c]: the checksums whose ConfigMap was created after c's
  legacy,    \* the config in the legacy ConfigMap, NoConfig when there is none
  rs,        \* the ConfigMaps that ReplicaSets with pods mount
  env,       \* the other inputs of a pass and what is left of the bounds
  queued,    \* whether the gateway is in the work queue
  pass,      \* the pass under way
  recorded   \* history: the <<checksum, edition>> pairs status ever named

children == <<dep, depCache, depSynced, cm, newer, legacy, rs>>
vars == <<gw, gwCache, gwEvents, children, env, queued, pass, recorded>>

-----------------------------------------------------------------------------
(* Types.                                                                  *)

Gateway == [spec     : Editions,
            checksum : Checksums \cup {NoConfig},
            edition  : Editions \cup {None},
            active   : Editions \cup {None},
            valid    : {"True", "False", "Unknown", None}]

NoDeployment == [config |-> NoConfig, mount |-> NoConfig, image |-> None]

\* A pod template: its config checksum annotation, the ConfigMap it mounts
\* and its image.  A Deployment that exists has all three.
Template == [config : Checksums, mount : Names, image : Editions] \cup {NoDeployment}

\* "ours": controlled by the gateway and holding the config its name
\* addresses; "foreign": holding it but not the gateway's copy; "tampered":
\* holding something else.
ConfigMapStates == {"absent", "ours", "foreign", "tampered"}

Labels == {"idle", "decide", "record", "keep", "confirm", "deploy",
           "collect", "delete", "finish"}

Pass == [at       : Labels,
         gw       : Gateway,    \* the copy the pass works on
         before   : Gateway,    \* the copy as read
         current  : BOOLEAN,    \* the copy carries the stored resourceVersion
         deployed : Template,   \* deployedChecksums
         edition  : Editions,   \* the edition rendered
         want     : Checksums,  \* the config decided for this pass
         held     : BOOLEAN,    \* a plugin ConfigMap is missing, or the like
         served   : BOOLEAN,    \* configResult.served
         name     : Checksums \cup {NoConfig}, \* configResult.appliedConfigMap
         victims  : SUBSET Names,     \* what collection is about to delete
         replaced : SUBSET Checksums, \* replaced since by another object
         failed   : BOOLEAN]    \* the pass returns an error

Environment == [input    : Inputs,
                fallback : BOOLEAN,   \* the license asks for the CE fallback
                hold     : BOOLEAN,   \* the Deployment is held
                changes  : 0..MaxChanges,
                faults   : 0..MaxFaults,
                meddling : 0..MaxMeddling]

TypeOK ==
  /\ gw \in Gateway /\ gwCache \in Gateway /\ gwEvents \in Seq(Gateway)
  /\ dep \in Template /\ depCache \in Template /\ depSynced \in BOOLEAN
  /\ cm \in [Checksums -> ConfigMapStates]
  /\ newer \in [Checksums -> SUBSET Checksums]
  /\ legacy \in Checksums \cup {NoConfig}
  /\ rs \in SUBSET Names
  /\ env \in Environment
  /\ queued \in BOOLEAN
  /\ pass \in Pass
  /\ recorded \in SUBSET (Checksums \X Editions)

-----------------------------------------------------------------------------
(* Editions, images and keys.                                              *)

\* renderer.EditionFor.
EditionFor(spec, ceFallback) ==
  IF spec = "EE" /\ ~ceFallback THEN "EE" ELSE "CE"

\* renderer.ResolveImage, for a gateway whose images name one edition each.
ResolveImage(spec, ceFallback) == IF ceFallback THEN "CE" ELSE spec

\* adoptedEdition: the edition of a status written before configEdition
\* existed.
AdoptedEdition(g, current) ==
  IF g.spec = "EE" /\ g.active # None THEN g.active ELSE current

\* appliedKey, as the pair <<checksum, edition>>.
AppliedKey(g, current) ==
  << g.checksum,
     IF g.edition = None THEN AdoptedEdition(g, current) ELSE g.edition >>

\* A mutant: the edition a config was validated for is not compared.
IsAppliedByChecksum(g, checksum, edition) == g.checksum = checksum

\* isApplied.
IsApplied(g, checksum, edition) == AppliedKey(g, edition) = <<checksum, edition>>

\* appliedFallback.
AppliedFallback(g, current) == g.spec = "EE" /\ AppliedKey(g, current)[2] = "CE"

\* A mutant: the image follows spec.edition, whatever the applied config is.
AppliedImageFromSpec(g, current) == g.spec

\* appliedImage.
AppliedImage(g, current) ==
  IF g.active # None /\ AppliedKey(g, current)[2] # current
    THEN g.active
    ELSE ResolveImage(g.spec, AppliedFallback(g, current))

-----------------------------------------------------------------------------
(* ConfigMaps.  Calls on them are live: the client's cache is disabled for *)
(* ConfigMaps.                                                             *)

Present(c) == cm[c] # "absent"

\* Creation and deletion of the ConfigMap of c, as they change `newer`.
Created(c) ==
  [d \in Checksums |-> IF d = c THEN {}
                       ELSE IF Present(d) THEN newer[d] \cup {c} ELSE newer[d]]
Deleted(c) == [d \in Checksums |-> IF d = c THEN {} ELSE newer[d] \ {c}]

\* The store after the ConfigMap of c went to state s.
StoreConfigMap(c, s) ==
  /\ cm' = [cm EXCEPT ![c] = s]
  /\ newer' = CASE s = "absent" -> Deleted(c)
                [] s = cm[c]    -> newer
                [] OTHER        -> Created(c)

\* publishConfig with verifyExistingConfigMap and verifyPayload, when it
\* succeeds: an existing copy is verified, a wrong payload is deleted and the
\* ConfigMap created again.  One that holds the config but is not the gateway's
\* copy is an error.
PublishConfig(c) == cm[c] # "foreign" /\ StoreConfigMap(c, "ours")

\* The states a failed publishConfig may leave a ConfigMap of state s in: any
\* of its calls may fail, and a create may take effect although its answer is
\* lost.
PublishLeaves(s) ==
  CASE s = "tampered" -> {"ours", "absent", "tampered"}
    [] s = "absent"   -> {"ours", "absent"}
    [] OTHER          -> {s}

\* The gateway's revisions: controlled by it and carrying the revision label.
Revisions == {c \in Checksums : cm[c] \in {"ours", "tampered"}}

\* A mutant: collection forgets the template of a held Deployment.
ConfigMapGCCandidatesIgnoringMounted(inUse, mounted) ==
  LET others == Revisions \ {inUse}
  IN {c \in others : Cardinality(newer[c] \cap others) >= HistoryLimit - 1}
     \cup (IF legacy # NoConfig THEN {LegacyName} ELSE {})

\* configMapGCCandidates: the revisions other than inUse and mounted that have
\* HistoryLimit - 1 newer ones, and the legacy ConfigMap unless mounted.
ConfigMapGCCandidates(inUse, mounted) ==
  LET others == Revisions \ {inUse, mounted}
  IN {c \in others : Cardinality(newer[c] \cap others) >= HistoryLimit - 1}
     \cup (IF legacy # NoConfig /\ mounted # LegacyName THEN {LegacyName} ELSE {})

-----------------------------------------------------------------------------
(* The pass.                                                               *)

IdlePass ==
  LET g == [spec |-> "CE", checksum |-> NoConfig, edition |-> None,
            active |-> None, valid |-> None]
  IN [at |-> "idle", gw |-> g, before |-> g, current |-> FALSE,
      deployed |-> NoDeployment, edition |-> "CE",
      want |-> CHOOSE c \in Checksums : TRUE, held |-> FALSE, served |-> FALSE,
      name |-> NoConfig, victims |-> {}, replaced |-> {}, failed |-> FALSE]

\* A call fails, or does not: a failure uses up the bound.
MayFail == "faults" \in Events /\ env.faults > 0
Spend   == env' = [env EXCEPT !.faults = @ - 1]

\* The API server stores a new version of the gateway.
StoreGateway(g) ==
  /\ gw' = g
  /\ gwEvents' = Append(gwEvents, g)

PublishConfigFailed(c) ==
  /\ \E s \in PublishLeaves(cm[c]) : StoreConfigMap(c, s)
  /\ IF cm[c] = "foreign" THEN UNCHANGED env ELSE MayFail /\ Spend

\* A mutant: a failed pass is not retried.
EndPassQuietly(failed) == pass' = IdlePass /\ UNCHANGED queued

\* The pass ends; an error puts the gateway back in the queue.
EndPass(failed) ==
  /\ pass' = IdlePass
  /\ queued' = (queued \/ failed)

\* Reconcile up to the render: the gateway, the endpoints, the deployed
\* checksums, the license and the plugins are read; a status without an edition
\* is adopted.
Read ==
  LET e    == EditionFor(gwCache.spec, env.fallback)
      copy == IF gwCache.checksum # NoConfig
                THEN [gwCache EXCEPT !.edition = AppliedKey(gwCache, e)[2]]
                ELSE gwCache
  IN /\ pass.at = "idle" /\ queued
     /\ queued' = FALSE
     /\ pass' = [IdlePass EXCEPT
                   !.at = "decide", !.gw = copy, !.before = gwCache,
                   !.current = (gwEvents = <<>>), !.deployed = depCache,
                   !.edition = e, !.want = Render[env.input][e],
                   !.held = env.hold]
     /\ UNCHANGED <<gw, gwCache, gwEvents, children, env, recorded>>

\* One of the reads up to the render fails: the pass returns its error and has
\* changed nothing.
ReadFailed ==
  /\ pass.at = "idle" /\ queued /\ MayFail
  /\ Spend
  /\ UNCHANGED <<gw, gwCache, gwEvents, children, queued, pass, recorded>>

\* reconcileConfig when decide returns an error: handleValidatorUnavailable.
ValidatorUnavailable ==
  /\ pass.at = "decide" /\ MayFail
  /\ pass' = [pass EXCEPT !.at = "keep", !.gw.valid = "Unknown", !.failed = TRUE]
  /\ Spend
  /\ UNCHANGED <<gw, gwCache, gwEvents, children, queued, recorded>>

\* reconcileConfig when decide rejects the render: handleValidationError.  A
\* render that is the applied config is not judged again.
Reject ==
  /\ pass.at = "decide"
  /\ ~IsApplied(pass.gw, pass.want, pass.edition)
  /\ <<pass.want, pass.edition>> \notin Accepted
  /\ pass' = [pass EXCEPT !.at = "keep", !.gw.valid = "False"]
  /\ UNCHANGED <<gw, gwCache, gwEvents, children, env, queued, recorded>>

\* serveApplied: the render is the applied config; publishApplied makes sure
\* its ConfigMap exists.  When it cannot the pass still counts as served, with
\* no ConfigMap to deploy.
ServeApplied ==
  /\ pass.at = "decide"
  /\ IsApplied(pass.gw, pass.want, pass.edition)
  /\ \/ /\ PublishConfig(pass.want) /\ UNCHANGED env
        /\ pass' = [pass EXCEPT !.at = "confirm", !.served = TRUE, !.name = pass.want,
                                !.gw.edition = pass.edition, !.gw.valid = "True"]
     \/ /\ PublishConfigFailed(pass.want)
        /\ pass' = [pass EXCEPT !.at = "confirm", !.served = TRUE, !.failed = TRUE,
                                !.gw.edition = pass.edition, !.gw.valid = "Unknown"]
  /\ UNCHANGED <<gw, gwCache, gwEvents, dep, depCache, depSynced, legacy, rs, queued, recorded>>

\* reconcileConfig publishes an accepted render before it is recorded;
\* handleConfigPublishFailed when it cannot.
Publish ==
  /\ pass.at = "decide"
  /\ ~IsApplied(pass.gw, pass.want, pass.edition)
  /\ <<pass.want, pass.edition>> \in Accepted
  /\ \/ /\ PublishConfig(pass.want) /\ UNCHANGED env
        /\ pass' = [pass EXCEPT !.at = "record"]
     \/ /\ PublishConfigFailed(pass.want)
        /\ pass' = [pass EXCEPT !.at = "keep", !.gw.valid = "Unknown", !.failed = TRUE]
  /\ UNCHANGED <<gw, gwCache, gwEvents, dep, depCache, depSynced, legacy, rs, queued, recorded>>

\* markConfigApplied on the pass's copy.
Applied == [pass.gw EXCEPT !.checksum = pass.want, !.edition = pass.edition, !.valid = "True"]

\* recordApplied, when the status update is accepted: the copy must carry the
\* stored resourceVersion.
RecordApplied ==
  /\ pass.at = "record" /\ pass.current
  /\ StoreGateway(Applied)
  /\ recorded' = recorded \cup {<<pass.want, pass.edition>>}
  /\ pass' = [pass EXCEPT !.at = "confirm", !.gw = Applied, !.served = TRUE, !.name = pass.want]
  /\ UNCHANGED <<gwCache, children, env, queued>>

\* A mutant: a failed record does not undo the apply in the pass's copy.
RecordFailedKept ==
  /\ pass.at = "record"
  /\ ~pass.current \/ MayFail
  /\ IF pass.current THEN Spend ELSE UNCHANGED env
  /\ pass' = [pass EXCEPT !.at = "confirm", !.gw = Applied, !.served = TRUE,
                          !.name = pass.want, !.failed = TRUE]
  /\ UNCHANGED <<gw, gwEvents, recorded, gwCache, children, queued>>

\* recordApplied, when the update returns an error: a conflict, a failed call,
\* or one that was stored although its answer was lost (the copy then no longer
\* carries the stored resourceVersion).  The copy is restored.
RecordFailed ==
  /\ pass.at = "record"
  /\ \/ /\ ~pass.current \/ MayFail
        /\ IF pass.current THEN Spend ELSE UNCHANGED env
        /\ pass' = [pass EXCEPT !.at = "keep", !.failed = TRUE]
        /\ UNCHANGED <<gw, gwEvents, recorded>>
     \/ /\ pass.current /\ MayFail /\ Spend
        /\ StoreGateway(Applied)
        /\ recorded' = recorded \cup {<<pass.want, pass.edition>>}
        /\ pass' = [pass EXCEPT !.at = "keep", !.failed = TRUE, !.current = FALSE]
  /\ UNCHANGED <<gwCache, children, queued>>

\* A mutant: the legacy ConfigMap is taken for the applied config's own.
KeepAppliedUnpublished ==
  LET c == pass.gw.checksum
  IN /\ pass.at = "keep"
     /\ pass' = [pass EXCEPT !.at = "confirm",
                   !.name = IF c # NoConfig /\ (cm[c] = "ours" \/ legacy = c) THEN c ELSE NoConfig]
     /\ UNCHANGED <<gw, gwCache, gwEvents, children, env, queued, recorded>>

\* keepApplied and appliedConfigMapName: the pass applies nothing and keeps
\* the config its copy of the status names, from the ConfigMap that holds it.
\* A wrong payload is deleted; the legacy ConfigMap may restore it.
KeepApplied ==
  LET c == pass.gw.checksum
      Done(name, failed) ==
        pass' = [pass EXCEPT !.at = "confirm", !.name = name, !.failed = @ \/ failed]
  IN /\ pass.at = "keep"
     /\ \/ /\ c = NoConfig
           /\ Done(NoConfig, FALSE) /\ UNCHANGED <<cm, newer, env>>
        \/ /\ c # NoConfig /\ cm[c] = "ours"
           /\ Done(c, FALSE) /\ UNCHANGED <<cm, newer, env>>
        \/ /\ c # NoConfig /\ cm[c] = "foreign"
           /\ Done(NoConfig, TRUE) /\ UNCHANGED <<cm, newer, env>>
        \/ /\ c # NoConfig /\ cm[c] \in {"absent", "tampered"} /\ legacy = c
           /\ StoreConfigMap(c, "ours") /\ Done(c, FALSE) /\ UNCHANGED env
        \/ /\ c # NoConfig /\ cm[c] \in {"absent", "tampered"} /\ legacy # c
           /\ StoreConfigMap(c, "absent") /\ Done(NoConfig, FALSE) /\ UNCHANGED env
        \/ /\ c # NoConfig /\ cm[c] # "foreign" /\ MayFail /\ Spend
           /\ \E s \in PublishLeaves(cm[c]) :
                /\ s # "ours" \/ cm[c] = "ours" \/ legacy = c
                /\ StoreConfigMap(c, s)
           /\ Done(NoConfig, TRUE)
     /\ UNCHANGED <<gw, gwCache, gwEvents, dep, depCache, depSynced, legacy, rs, queued, recorded>>

\* A mutant: no pass confirms.
ConfirmNever(p) == FALSE

\* confirmStoredConfig's early returns: a pass that would not move the
\* Deployment, as it read it, confirms nothing.
ConfirmNeeded(p) ==
  /\ ~p.served
  /\ p.name # NoConfig
  /\ p.deployed.config \notin {NoConfig, p.gw.checksum}

\* The stored status names another config than the pass's copy.
CacheBehind(p) == gw.checksum # p.gw.checksum

\* confirmStoredConfig: an uncached read of the stored checksum.  When it
\* differs, or the read fails, the pass ends with an error.
ConfirmStoredConfig ==
  /\ pass.at = "confirm"
  /\ IF ConfirmNeeded(pass) /\ CacheBehind(pass)
       THEN EndPass(TRUE) /\ UNCHANGED env
       ELSE \/ pass' = [pass EXCEPT !.at = "deploy"] /\ UNCHANGED <<queued, env>>
            \/ ConfirmNeeded(pass) /\ MayFail /\ EndPass(TRUE) /\ Spend
  /\ UNCHANGED <<gw, gwCache, gwEvents, children, recorded>>

\* What BuildDeployment writes into the template.
WantedTemplate ==
  [config |-> pass.gw.checksum, mount |-> pass.name,
   image  |-> AppliedImage(pass.gw, pass.edition)]

\* reconcileDeploymentUnlessHeld while no ConfigMap holds the applied config:
\* the Deployment stays as it is and nothing is collected.
HoldForConfigMap ==
  /\ pass.at = "deploy" /\ pass.name = NoConfig
  /\ pass' = [pass EXCEPT !.at = "finish"]
  /\ UNCHANGED <<gw, gwCache, gwEvents, children, env, queued, recorded>>

\* The Deployment is held for a missing plugin ConfigMap, an uncontrolled
\* ServiceAccount or because it is another controller's: collection keeps the
\* ConfigMap the template mounted when the pass read it.  All but the first
\* are errors of the pass.
HoldForOthers ==
  /\ pass.at = "deploy" /\ pass.name # NoConfig /\ pass.held
  /\ \E error \in BOOLEAN : pass' = [pass EXCEPT !.at = "collect", !.failed = @ \/ error]
  /\ UNCHANGED <<gw, gwCache, gwEvents, children, env, queued, recorded>>

\* A mutant: a Deployment is written although no ConfigMap holds its config.
DeployUnheld == pass.at = "deploy" /\ pass.gw.checksum # NoConfig /\ ~pass.held

DeployReady == pass.at = "deploy" /\ pass.name # NoConfig /\ ~pass.held

\* reconcileDeployment: CreateOrUpdate compares the cached Deployment with
\* the wanted one and writes only a difference.  It then mounts nothing else.
Deploy ==
  /\ DeployReady
  /\ \/ depCache = WantedTemplate /\ UNCHANGED <<dep, depCache, depSynced>>
     \/ /\ depCache # WantedTemplate /\ depSynced
        /\ dep' = WantedTemplate
        /\ IF "deploymentLag" \in Events
             THEN depSynced' = FALSE /\ UNCHANGED depCache
             ELSE depCache' = dep' /\ UNCHANGED depSynced
  /\ pass' = [pass EXCEPT !.at = "collect", !.gw.active = WantedTemplate.image,
                          !.deployed = NoDeployment]
  /\ UNCHANGED <<gw, gwCache, gwEvents, cm, newer, legacy, rs, env, queued, recorded>>

\* reconcileDeployment, when the write returns an error: a conflict because
\* the cached Deployment is old, a failed call, or one whose answer is lost.
DeployFailed ==
  /\ DeployReady /\ depCache # WantedTemplate
  /\ \/ ~depSynced /\ UNCHANGED <<dep, depCache, depSynced, env>>
     \/ depSynced /\ MayFail /\ Spend /\ UNCHANGED <<dep, depCache, depSynced>>
     \/ /\ depSynced /\ MayFail /\ Spend
        /\ dep' = WantedTemplate
        /\ IF "deploymentLag" \in Events
             THEN depSynced' = FALSE /\ UNCHANGED depCache
             ELSE depCache' = dep' /\ UNCHANGED depSynced
  /\ pass' = [pass EXCEPT !.at = "finish", !.failed = TRUE]
  /\ UNCHANGED <<gw, gwCache, gwEvents, cm, newer, legacy, rs, queued, recorded>>

\* collectConfigMaps up to its deletes: the candidates no live ReplicaSet
\* mounts, both lists read live.
CollectConfigMaps ==
  /\ pass.at = "collect"
  /\ \/ /\ pass' = [pass EXCEPT !.at = "delete",
                      !.victims = ConfigMapGCCandidates(pass.name, pass.deployed.mount) \ rs]
        /\ UNCHANGED env
     \/ MayFail /\ Spend /\ pass' = [pass EXCEPT !.at = "finish", !.failed = TRUE]
  /\ UNCHANGED <<gw, gwCache, gwEvents, children, queued, recorded>>

\* collectConfigMaps deletes one candidate, if it is still the object that was
\* listed (the UID precondition); a failed delete ends the collection.
DeleteConfigMap(n) ==
  /\ pass.at = "delete" /\ n \in pass.victims
  /\ \/ /\ n \notin pass.replaced
        /\ IF n = LegacyName
             THEN legacy' = NoConfig /\ UNCHANGED <<cm, newer>>
             ELSE StoreConfigMap(n, "absent") /\ UNCHANGED legacy
        /\ pass' = [pass EXCEPT !.victims = @ \ {n}]
        /\ UNCHANGED env
     \/ /\ IF n \in pass.replaced THEN UNCHANGED env ELSE MayFail /\ Spend
        /\ pass' = [pass EXCEPT !.at = "finish", !.failed = TRUE]
        /\ UNCHANGED <<cm, newer, legacy>>
  /\ UNCHANGED <<gw, gwCache, gwEvents, dep, depCache, depSynced, rs, queued, recorded>>

Collected ==
  /\ pass.at = "delete" /\ pass.victims = {}
  /\ pass' = [pass EXCEPT !.at = "finish"]
  /\ UNCHANGED <<gw, gwCache, gwEvents, children, env, queued, recorded>>

\* updateStatusIfChanged and the end of Reconcile.  The write is refused when
\* the copy is old, may fail, and may be stored although its answer is lost.
Finish ==
  /\ pass.at = "finish"
  /\ IF pass.gw = pass.before
       THEN EndPass(pass.failed) /\ UNCHANGED <<gw, gwEvents, env>>
       ELSE \/ /\ pass.current /\ StoreGateway(pass.gw)
               /\ EndPass(pass.failed) /\ UNCHANGED env
            \/ /\ ~pass.current /\ EndPass(TRUE) /\ UNCHANGED <<gw, gwEvents, env>>
            \/ /\ pass.current /\ MayFail /\ Spend /\ EndPass(TRUE)
               /\ UNCHANGED <<gw, gwEvents>>
            \/ /\ pass.current /\ MayFail /\ Spend /\ EndPass(TRUE)
               /\ StoreGateway(pass.gw)
  /\ UNCHANGED <<gwCache, children, recorded>>

PassStep ==
  \/ Read \/ ReadFailed \/ ValidatorUnavailable \/ Reject \/ ServeApplied \/ Publish
  \/ RecordApplied \/ RecordFailed \/ KeepApplied \/ ConfirmStoredConfig
  \/ HoldForConfigMap \/ HoldForOthers \/ Deploy \/ DeployFailed
  \/ CollectConfigMaps \/ Collected \/ Finish
  \/ \E n \in Names : DeleteConfigMap(n)

-----------------------------------------------------------------------------
(* The environment.                                                        *)

\* The operator stops in the middle of a pass.  Its caches and work queue are
\* rebuilt at the next start, which enqueues every gateway.
Crash ==
  /\ "crash" \in Events /\ MayFail /\ pass.at # "idle"
  /\ Spend
  /\ pass' = IdlePass /\ queued' = TRUE
  /\ UNCHANGED <<gw, gwCache, gwEvents, children, recorded>>

\* The gateway's informer delivers the next stored version and enqueues it.
DeliverGateway ==
  /\ gwEvents # <<>>
  /\ gwCache' = Head(gwEvents) /\ gwEvents' = Tail(gwEvents)
  /\ queued' = TRUE
  /\ UNCHANGED <<gw, children, env, pass, recorded>>

\* The Deployment's informer catches up; the gateway owns it, so it is
\* enqueued.
DeliverDeployment ==
  /\ ~depSynced
  /\ depCache' = dep /\ depSynced' = TRUE
  /\ queued' = TRUE
  /\ UNCHANGED <<gw, gwCache, gwEvents, dep, cm, newer, legacy, rs, env, pass, recorded>>

Change(e) == env.changes > 0 /\ env' = [e EXCEPT !.changes = @ - 1]

\* An endpoint, policy or root setting changes in the caches.
ChangeInput(i) ==
  /\ "input" \in Events /\ i # env.input
  /\ Change([env EXCEPT !.input = i])
  /\ queued' = TRUE
  /\ UNCHANGED <<gw, gwCache, gwEvents, children, pass, recorded>>

\* The license lapses, or a valid one returns.
ChangeLicense ==
  /\ "license" \in Events
  /\ Change([env EXCEPT !.fallback = ~@])
  /\ queued' = TRUE
  /\ UNCHANGED <<gw, gwCache, gwEvents, children, pass, recorded>>

\* A plugin ConfigMap (or the ServiceAccount, or the control of the
\* Deployment) goes missing or returns.
ChangeHold ==
  /\ "hold" \in Events
  /\ Change([env EXCEPT !.hold = ~@])
  /\ queued' = TRUE
  /\ UNCHANGED <<gw, gwCache, gwEvents, children, pass, recorded>>

\* A user edits spec.edition: a new version of the gateway, so the pass's copy
\* is no longer current.
ChangeSpec ==
  /\ "spec" \in Events
  /\ Change(env)
  /\ StoreGateway([gw EXCEPT !.spec = IF @ = "CE" THEN "EE" ELSE "CE"])
  /\ pass' = [pass EXCEPT !.current = FALSE]
  /\ UNCHANGED <<gwCache, children, queued, recorded>>

\* The Deployment controller (external) gives the template a ReplicaSet, and
\* scales down the ReplicaSets of older templates.
StartReplicaSet ==
  /\ "pods" \in Events /\ dep.mount # NoConfig /\ dep.mount \notin rs
  /\ rs' = rs \cup {dep.mount}
  /\ UNCHANGED <<gw, gwCache, gwEvents, dep, depCache, depSynced, cm, newer, legacy, env, queued, pass, recorded>>

RetireReplicaSet(n) ==
  /\ "pods" \in Events /\ n \in rs /\ n # dep.mount
  /\ rs' = rs \ {n}
  /\ UNCHANGED <<gw, gwCache, gwEvents, dep, depCache, depSynced, cm, newer, legacy, env, queued, pass, recorded>>

Meddle == env.meddling > 0 /\ env' = [env EXCEPT !.meddling = @ - 1]

\* Somebody deletes a config ConfigMap or puts another object in its place.
\* The gateway is enqueued for the ones it owns.
MeddleConfigMap(c, s) ==
  /\ "configMaps" \in Events /\ s # "ours" /\ s # cm[c]
  /\ Meddle /\ StoreConfigMap(c, s)
  /\ queued' = (queued \/ cm[c] \in {"ours", "tampered"} \/ s = "tampered")
  /\ pass' = [pass EXCEPT !.replaced = IF s # "absent" /\ c \in pass.victims THEN @ \cup {c} ELSE @]
  /\ UNCHANGED <<gw, gwCache, gwEvents, dep, depCache, depSynced, legacy, rs, recorded>>

\* Somebody deletes the Deployment, or undoes a rollout.
MeddleDeployment ==
  /\ "deployment" \in Events /\ Meddle
  /\ dep' \in {NoDeployment} \cup
              {[config |-> k[1], mount |-> k[1], image |-> k[2]] : k \in recorded}
  /\ dep' # dep
  /\ IF "deploymentLag" \in Events
       THEN depSynced' = FALSE /\ UNCHANGED <<depCache, queued>>
       ELSE depCache' = dep' /\ queued' = TRUE /\ UNCHANGED depSynced
  /\ UNCHANGED <<gw, gwCache, gwEvents, cm, newer, legacy, rs, pass, recorded>>

EnvStep ==
  \/ Crash \/ DeliverGateway \/ DeliverDeployment
  \/ \E i \in Inputs : ChangeInput(i)
  \/ ChangeLicense \/ ChangeHold \/ ChangeSpec
  \/ StartReplicaSet \/ \E n \in Names : RetireReplicaSet(n)
  \/ \E c \in Checksums, s \in ConfigMapStates : MeddleConfigMap(c, s)
  \/ MeddleDeployment

-----------------------------------------------------------------------------
(* The specification.                                                      *)

\* A new gateway, or one an earlier operator version left behind: its status
\* has no edition, its Deployment mounts the legacy ConfigMap.
Init ==
  \E spec \in Editions, i \in Inputs :
    LET c == Render[i][spec]
        g == IF Upgraded
               THEN [spec |-> spec, checksum |-> c, edition |-> None,
                     active |-> spec, valid |-> "True"]
               ELSE [spec |-> spec, checksum |-> NoConfig, edition |-> None,
                     active |-> None, valid |-> None]
    IN /\ Upgraded => <<c, spec>> \in Accepted
       /\ gw = g /\ gwCache = g /\ gwEvents = <<>>
       /\ dep = IF Upgraded THEN [config |-> c, mount |-> LegacyName, image |-> spec]
                ELSE NoDeployment
       /\ depCache = dep /\ depSynced = TRUE
       /\ cm = [d \in Checksums |-> "absent"]
       /\ newer = [d \in Checksums |-> {}]
       /\ legacy = IF Upgraded THEN c ELSE NoConfig
       /\ rs = IF Upgraded THEN {LegacyName} ELSE {}
       /\ env = [input |-> i, fallback |-> FALSE, hold |-> FALSE, changes |-> MaxChanges,
                 faults |-> MaxFaults, meddling |-> MaxMeddling]
       /\ queued = TRUE
       /\ pass = IdlePass
       /\ recorded = IF Upgraded THEN {<<c, spec>>} ELSE {}

Next == PassStep \/ EnvStep

Spec == Init /\ [][Next]_vars

\* controller-runtime runs a queued pass to its end, and informers deliver.
Fairness == WF_vars(PassStep) /\ WF_vars(DeliverGateway) /\ WF_vars(DeliverDeployment)

FairSpec == Spec /\ Fairness

-----------------------------------------------------------------------------
(* Safety.                                                                 *)

\* Whether the ConfigMap n exists and holds the config pods mount it for.
Holds(n) == IF n = LegacyName THEN legacy # NoConfig ELSE cm[n] = "ours"

\* The config the stored status names passed krakend check for the edition
\* recorded beside it, whatever stale copies, lost answers and upgrades the
\* passes since worked from.
AppliedIsAccepted ==
  gw.checksum # NoConfig /\ gw.edition # None => <<gw.checksum, gw.edition>> \in Accepted

\* Pods are never ahead of the record: the Deployment only carries a config
\* that a stored status named before (recordApplied runs before the
\* Deployment step, and a failed record undoes the apply).
DeployedWasRecorded ==
  dep.config # NoConfig => \E e \in Editions : <<dep.config, e>> \in recorded

\* Collection never takes the ConfigMap that the Deployment's template or a
\* ReplicaSet with pods mounts, held Deployment or not.
MountedConfigKept ==
  \A n \in (rs \cup {dep.mount}) \ {NoConfig} : Holds(n)

\* A pass that applies nothing moves an existing Deployment only to the config
\* the stored status names: a stale cached gateway never rolls the pods back
\* (confirmStoredConfig).
NoRollback ==
  [][ pass.at = "deploy" /\ pass' # pass /\ ~pass.served /\ dep.config \notin {NoConfig, dep'.config}
        => dep'.config = gw.checksum ]_vars

\* A pass that serves its render deploys it with the image of an edition the
\* render passed krakend check for (appliedImage).
ServedPairAccepted ==
  [][ pass.at = "deploy" /\ pass' # pass /\ pass.served /\ dep' # dep
        => <<dep'.config, dep'.image>> \in Accepted ]_vars

\* An upgrade strands nothing: until the applied config has its own ConfigMap
\* the legacy one holds it, so a first render that is rejected cannot lose it
\* (appliedConfigMapName, collectConfigMaps).
AppliedConfigRetrievable ==
  gw.checksum # NoConfig => Holds(gw.checksum) \/ legacy = gw.checksum

-----------------------------------------------------------------------------
(* Liveness, once the environment settles.                                 *)

WantEdition == EditionFor(gw.spec, env.fallback)
Want        == Render[env.input][WantEdition]

\* The newest render passes validation and nothing stands in its way.
Deployable ==
  <<Want, WantEdition>> \in Accepted /\ ~env.hold /\ cm[Want] # "foreign"

RolledOut ==
  /\ gw.checksum = Want /\ gw.edition = WantEdition /\ gw.valid = "True"
  /\ cm[Want] = "ours"
  /\ dep = [config |-> Want, mount |-> Want, image |-> WantEdition]

\* An acceptable render is eventually stored, recorded and deployed with the
\* image of its edition, for good: no lost answer, stale read, crash or
\* deleted ConfigMap strands it, and no wake-up is lost.
AcceptedRenderRollsOut == <>[]Deployable => <>[]RolledOut

\* A rejected render is eventually reported by ConfigValid=False.
RejectionIsReported == <>[](<<Want, WantEdition>> \notin Accepted) => <>[](gw.valid = "False")

\* Whatever becomes of the newest render, the Deployment eventually runs the
\* applied config while its ConfigMap exists: a rolled back, edited or deleted
\* Deployment is repaired.
DeploymentFollowsStatus ==
  <>[](gw.checksum # NoConfig /\ ~env.hold /\ Holds(gw.checksum))
    => <>[](dep.config = gw.checksum)

\* Once changes stop, the newest render is served or its rejection reported,
\* and the Deployment runs what the status names, whatever pass failed, crashed
\* or read an old copy on the way (Reconcile, EndPass).
NewestRenderSettles == AcceptedRenderRollsOut /\ RejectionIsReported /\ DeploymentFollowsStatus
=============================================================================
