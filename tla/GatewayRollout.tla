--------------------------- MODULE GatewayRollout ---------------------------
(***************************************************************************)
(* What a gateway's status says of its rollout: how a pass judges the      *)
(* Deployment it wrote, or could not write, and derives Available,         *)
(* Progressing, ResourcesControlled, Ready and the phase                   *)
(* (inspectDeploymentStatus, gateway_rollout.go, gatewayReadinessFor).     *)
(*                                                                         *)
(* The Deployment is read through an informer cache that may be behind,    *)
(* its status describes the previous ReplicaSet until the Deployment       *)
(* controller has observed the new template, and the status is written     *)
(* twice in a pass that applies a config.  Any step may fail and any write *)
(* of the status may be lost.  Passes see the status they last wrote.      *)
(***************************************************************************)
EXTENDS Naturals

CONSTANTS
  Configs,         \* rendered configs; one is named like its ConfigMap
  Rejected,        \* those krakend check rejects
  Images,          \* images (or plugins, or licenses) of a template
  MaxUpsets        \* bound on changes of the inputs, failed steps, lost writes,
                   \* crashes, lost pods, scalings and missed deadlines

ASSUME RolloutAssumption ==
  /\ Configs \subseteq Nat \ {0} /\ Configs # {} /\ Rejected \subseteq Configs
  /\ Images # {} /\ MaxUpsets \in Nat

VARIABLES
  wanted,   \* what the caches ask for: the newest render, image and obstacles
  dep,      \* the Deployment: template, ReplicaSet and status
  depCache, \* the Deployment as the informer cache shows it
  stored,   \* the gateway's status
  awake,    \* the gateway is in the work queue
  pass,     \* the pass under way
  history,  \* history: see History
  upsets    \* what is left of the bound

rollout == <<wanted, dep, depCache, stored, awake, pass, history, upsets>>

None         == 0
Templates    == Configs \X Images
NoTemplate   == <<None, None>>
NoDeployment == [tmpl |-> NoTemplate, rs |-> NoTemplate, observed |-> TRUE, pods |-> "few",
                 available |-> FALSE, cond |-> "none", deadline |-> FALSE]

\* pods: "all" replicas run the template, old ones remain beside updated ones
\* ("mixed"), or there are "few"er than desired; available: all replicas are;
\* cond: the Available condition; deadline: ProgressDeadlineExceeded.
Deployment ==
  [tmpl : Templates \cup {NoTemplate}, rs : Templates \cup {NoTemplate}, observed : BOOLEAN,
   pods : {"few", "mixed", "all"}, available : BOOLEAN,
   cond : {"none", "True", "False"}, deadline : BOOLEAN]

\* failedOf is a history field: the template RolloutFailed was reported for.
Status ==
  [config : Configs \cup {None}, valid : {"none", "True", "False", "Unknown"},
   license : {"fine", "expired", "fallback"}, plugins : {"none", "True", "False"},
   controlled : {"none", "True", "False"}, progressing : {"none", "True", "False"},
   available : {"none", "True", "Lost", "RolloutFailed"}, failedOf : Templates \cup {NoTemplate},
   ready : {"True", "False", "Unknown"},
   phase : {"Pending", "Deploying", "Running", "Degraded", "Error"}]

RolloutTypeOK ==
  /\ wanted \in [config : Configs, image : Images, license : {"fine", "expired", "fallback"},
                 plugins : BOOLEAN, refused : {"none", "sa", "dep"}]
  /\ dep \in Deployment /\ depCache \in Deployment
  /\ stored \in Status
  /\ awake \in BOOLEAN
  /\ pass \in [at : {"idle", "deploy", "finish"}, copy : Status, image : Images,
               mounted : Configs \cup {None}, name : Configs \cup {None},
               failed : BOOLEAN, behind : BOOLEAN]
  /\ history \in [done : BOOLEAN, missed : SUBSET Templates, behind : BOOLEAN]
  /\ upsets \in 0..MaxUpsets

-----------------------------------------------------------------------------
(* Readiness.                                                              *)

\* servingPhase.
ServingPhase(s) ==
  IF s.progressing = "none" /\ s.available = "none" THEN "Pending"
  ELSE IF s.progressing = "True" \/ s.available # "True" THEN "Deploying"
  ELSE "Running"

\* The first rules of gatewayReadinessFor, which agree on Ready and phase.
Broken(s) ==
  \/ s.valid = "False"
  \/ s.license = "expired"
  \/ "False" \in {s.plugins, s.controlled}
  \/ s.available \in {"Lost", "RolloutFailed"}

\* gatewayReadinessFor: Ready and the phase.  The first rule that applies wins.
Readiness(s) ==
  IF Broken(s) THEN <<"False", "Error">>
  ELSE IF s.license = "fallback" THEN <<"False", "Degraded">>
  ELSE IF s.valid = "none" THEN <<"Unknown", "Pending">>
  ELSE IF s.valid = "Unknown" THEN <<"Unknown", ServingPhase(s)>>
  ELSE IF s.progressing = "True" \/ s.available # "True" THEN <<"False", "Deploying">>
  ELSE <<"True", "Running">>

\* setGatewayReadiness.
WithReadiness(s) == [s EXCEPT !.ready = Readiness(s)[1], !.phase = Readiness(s)[2]]

-----------------------------------------------------------------------------
(* How a pass judges the Deployment.                                       *)

\* deploymentConverged, with templateRunsWant.
DeploymentConverged(d, want) ==
  d.tmpl = want /\ d.observed /\ d.pods = "all" /\ d.available

\* failedRolloutApplies.
FailedRolloutApplies(d) == d.deadline /\ d.observed

\* deploymentObservation.
Unseen == [dep |-> NoDeployment, seen |-> FALSE, failed |-> FALSE, refused |-> FALSE,
           unreconciled |-> FALSE, started |-> FALSE]

\* rolloutInFlight; started: the pass created the Deployment or changed its
\* template.
RolloutInFlight(obs, want) ==
  obs.seen /\ (obs.started \/ obs.dep.tmpl # want \/ obs.dep.pods = "mixed")

\* resetRolloutFailedAvailability.
ResetRolloutFailed(s, d) ==
  IF s.available # "RolloutFailed" THEN s
  ELSE [s EXCEPT !.available = IF d.cond = "True" THEN "True" ELSE "none",
                 !.failedOf = NoTemplate]

\* The rollout a pass owes and could not start (inspectDeploymentStatus).
Owed(obs) ==
  /\ (obs.failed /\ ~obs.refused) \/ obs.unreconciled
  /\ pass.copy.plugins # "False"
  /\ pass.name \notin {None, pass.mounted}

\* A mutant: a rollout that could not be started is not reported.
RaiseOwedNever(s, obs) == s

\* raiseOwed.
RaiseOwed(s, obs) == IF Owed(obs) THEN [s EXCEPT !.progressing = "True"] ELSE s

\* inspectDeploymentStatus: the Deployment as the pass left it, the cached one
\* when the pass did not reconcile it.
InspectDeploymentStatus(s, obs, want) ==
  LET d      == IF obs.seen THEN obs.dep ELSE depCache
      reset  == ResetRolloutFailed(s, d)
      done   == pass.name # None /\ DeploymentConverged(d, want)
      moving == IF done THEN "False"
                ELSE IF RolloutInFlight(obs, want) THEN "True" ELSE s.progressing
      judged == [reset EXCEPT !.progressing = moving]
  IN IF d.tmpl = NoTemplate \/ obs.failed THEN RaiseOwed(s, obs)
     ELSE IF FailedRolloutApplies(d) /\ (obs.seen => d.tmpl = want)
       THEN [s EXCEPT !.progressing = "False", !.available = "RolloutFailed", !.failedOf = d.tmpl]
     ELSE IF d.cond = "False" /\ (done \/ moving # "True")
       THEN [judged EXCEPT !.available = "Lost"]
     ELSE IF done THEN [RaiseOwed(judged, obs) EXCEPT !.available = "True"]
     ELSE RaiseOwed(judged, obs)

\* A mutant: a refusal is not taken back.
ResourcesControlledOnce(s, obs, refused) ==
  [s EXCEPT !.controlled = IF refused THEN "False" ELSE IF obs.seen /\ @ = "none" THEN "True" ELSE @]

\* setResourcesControlled, for the ServiceAccount and the Deployment: a failure
\* may hide a refusal, and a pass that wrote no Deployment vouches for none.
ResourcesControlled(s, obs, refused) ==
  [s EXCEPT !.controlled = IF refused THEN "False" ELSE IF obs.seen THEN "True" ELSE @]

-----------------------------------------------------------------------------
(* The pass.                                                               *)

Upset == upsets > 0 /\ upsets' = upsets - 1

IdleRollout ==
  [at |-> "idle", copy |-> stored, image |-> CHOOSE i \in Images : TRUE, mounted |-> None, name |-> None,
   failed |-> FALSE, behind |-> FALSE]

\* What the pass reads before the config stage: deployedChecksums, the license,
\* setPluginsResolved.
Reading ==
  [IdleRollout EXCEPT !.at = "deploy", !.mounted = depCache.tmpl[1], !.image = wanted.image,
                      !.copy.license = wanted.license,
                      !.copy.plugins = IF wanted.plugins THEN "True" ELSE "False"]

\* The pass keeps the stored config, with the verdict v on the newest render.
Keep(v, failed) ==
  /\ pass' = [Reading EXCEPT !.copy.valid = v, !.name = stored.config, !.failed = failed]
  /\ UNCHANGED stored

\* The config stage of a pass: reconcileConfig.
BeginRollout ==
  /\ pass.at = "idle" /\ awake
  /\ awake' = FALSE
  /\ \/ /\ wanted.config \in Rejected
        /\ Keep("False", FALSE) /\ UNCHANGED upsets
     \/ /\ wanted.config \notin Rejected /\ wanted.config = stored.config
        /\ Keep("True", FALSE) /\ UNCHANGED upsets
     \* handleValidatorUnavailable; recordApplied fails and is undone
     \/ Keep("Unknown", TRUE) /\ Upset
     \/ wanted.config \notin Rejected /\ Keep(stored.valid, TRUE) /\ Upset
     \* publishApplied fails: no ConfigMap holds the applied config
     \/ /\ wanted.config = stored.config /\ Upset /\ UNCHANGED stored
        /\ pass' = [Reading EXCEPT !.copy.valid = "Unknown", !.failed = TRUE]
     \* recordApplied: the stored status says a rollout is starting, the
     \* pass's copy does not yet
     \/ /\ wanted.config \notin Rejected \cup {stored.config}
        /\ LET applied == [Reading.copy EXCEPT !.config = wanted.config, !.valid = "True"]
           IN /\ pass' = [Reading EXCEPT !.copy = applied, !.name = wanted.config]
              /\ stored' = WithReadiness([applied EXCEPT !.progressing = "True"])
        /\ UNCHANGED upsets
  /\ UNCHANGED <<wanted, dep, depCache>>

\* The infrastructure stage ends with the observation obs: the status it leads
\* to is computed from the copy.
Observed(obs, refused) ==
  LET want == <<pass.copy.config, pass.image>>
      s    == InspectDeploymentStatus(ResourcesControlled(pass.copy, obs, refused), obs, want)
  IN pass' = [pass EXCEPT !.at = "finish", !.copy = WithReadiness(s),
                          !.behind = ~obs.started /\ (\/ depCache.tmpl # dep.tmpl
                                                      \/ ~depCache.observed
                                                      \/ history.behind /\ ~DeploymentConverged(depCache, want)),
                          !.failed = @ \/ obs.failed \/ obs.unreconciled \/ refused]

\* reconcileCoreResources: the ServiceAccount is refused, or its step fails, and
\* the Deployment is held.
HoldForServiceAccount ==
  /\ pass.at = "deploy"
  /\ \/ wanted.refused = "sa" /\ Observed(Unseen, TRUE) /\ UNCHANGED upsets
     \/ Observed([Unseen EXCEPT !.unreconciled = TRUE], FALSE) /\ Upset
  /\ UNCHANGED <<wanted, dep, depCache, stored, awake>>

\* reconcileDeploymentUnlessHeld holds the Deployment.
HoldDeployment ==
  /\ pass.at = "deploy" /\ wanted.refused # "sa"
  /\ pass.name = None \/ pass.copy.plugins = "False"
  /\ Observed(Unseen, FALSE)
  /\ UNCHANGED <<wanted, dep, depCache, stored, awake, upsets>>

\* reconcileDeployment: the cached Deployment is compared with the wanted one
\* and only a difference is written; the observation is what that leaves
\* behind, whose status is still the previous one's.
ReconcileDeployment ==
  LET want  == <<pass.copy.config, pass.image>>
      fresh == [dep EXCEPT !.tmpl = want, !.observed = FALSE]
      Seen(d, started) == [Unseen EXCEPT !.dep = d, !.seen = TRUE, !.started = started]
      failed == [Unseen EXCEPT !.failed = TRUE]
  IN /\ pass.at = "deploy" /\ wanted.refused # "sa"
     /\ pass.name # None /\ pass.copy.plugins # "False"
     /\ \/ /\ wanted.refused = "dep"
           /\ Observed([failed EXCEPT !.refused = TRUE], TRUE)
           /\ UNCHANGED <<dep, upsets>>
        \/ /\ wanted.refused # "dep" /\ depCache.tmpl = want
           /\ Observed(Seen(depCache, FALSE), FALSE)
           /\ UNCHANGED <<dep, upsets>>
        \/ /\ wanted.refused # "dep" /\ depCache.tmpl # want /\ depCache = dep
           /\ dep' = fresh
           /\ Observed(Seen(fresh, TRUE), FALSE)
           /\ UNCHANGED upsets
        \* a Conflict, or any other failure of the write
        \/ /\ wanted.refused # "dep" /\ depCache.tmpl # want
           /\ IF depCache = dep THEN Upset ELSE UNCHANGED upsets
           /\ Observed(failed, FALSE)
           /\ UNCHANGED dep
     /\ UNCHANGED <<wanted, depCache, stored, awake>>

\* updateStatusIfChanged and the end of Reconcile; a status write is an event.
FinishRollout ==
  /\ pass.at = "finish"
  /\ \/ /\ stored' = pass.copy /\ UNCHANGED upsets
        /\ awake' = (awake \/ pass.failed \/ stored' # stored)
     \/ stored # pass.copy /\ Upset /\ awake' = TRUE /\ UNCHANGED stored
  /\ pass' = [IdleRollout EXCEPT !.copy = stored']
  /\ UNCHANGED <<wanted, dep, depCache>>

\* The operator stops inside a pass; the next start enqueues the gateway.
CrashRollout ==
  /\ pass.at # "idle" /\ Upset
  /\ pass' = IdleRollout /\ awake' = TRUE
  /\ UNCHANGED <<wanted, dep, depCache, stored>>

-----------------------------------------------------------------------------
(* The environment.                                                        *)

\* Owns(Deployment): the informer catches up.
DeliverDeployment ==
  /\ depCache # dep
  /\ depCache' = dep /\ awake' = TRUE
  /\ UNCHANGED <<wanted, dep, stored, pass, upsets>>

\* A render, an image, the license, a plugin ConfigMap or the control of an
\* object changes.  Nothing watches an object of somebody else's: the pass it
\* made fail is retried.
ChangeWanted ==
  /\ Upset
  /\ \/ \E c \in Configs : wanted' = [wanted EXCEPT !.config = c]
     \/ \E i \in Images : wanted' = [wanted EXCEPT !.image = i]
     \/ \E l \in {"fine", "expired", "fallback"} : wanted' = [wanted EXCEPT !.license = l]
     \/ wanted' = [wanted EXCEPT !.plugins = ~@]
     \/ \E o \in {"none", "sa", "dep"} : wanted' = [wanted EXCEPT !.refused = o]
  /\ wanted' # wanted
  /\ awake' = (awake \/ wanted'.refused # "none" \/ wanted'.refused = wanted.refused)
  /\ UNCHANGED <<dep, depCache, stored, pass>>

Deploying(d) == dep' = d /\ UNCHANGED <<wanted, depCache, stored, awake, pass>>

\* The Deployment controller (external) observes the stored spec; a new
\* template starts a rollout, which ends the verdict on the last one.
ObserveSpec ==
  /\ ~dep.observed
  /\ \E c \in {"True", "False"} :
       Deploying(IF dep.rs = dep.tmpl THEN [dep EXCEPT !.observed = TRUE, !.pods = "few"]
                 ELSE [dep EXCEPT !.observed = TRUE, !.rs = dep.tmpl, !.available = FALSE,
                         !.pods = IF dep.rs = NoTemplate THEN "few" ELSE "mixed",
                         !.cond = c, !.deadline = FALSE])
  /\ UNCHANGED upsets

\* It completes a rollout.
CompleteRollout ==
  /\ dep.tmpl # NoTemplate /\ dep.observed
  /\ ~(dep.pods = "all" /\ dep.available)
  /\ Deploying([dep EXCEPT !.pods = "all", !.available = TRUE, !.cond = "True", !.deadline = FALSE])
  /\ UNCHANGED upsets

\* A rollout makes no progress in time.
MissDeadline ==
  /\ dep.tmpl # NoTemplate /\ dep.observed /\ ~dep.deadline
  /\ ~(dep.pods = "all" /\ dep.available)
  /\ Upset /\ Deploying([dep EXCEPT !.deadline = TRUE])

\* Pods of a complete rollout fail.
LosePods ==
  /\ dep.observed /\ dep.available
  /\ Upset /\ Deploying([dep EXCEPT !.available = FALSE, !.cond = "False"])

\* An HPA or a user changes the replica count: a generation nobody rolls out.
Scale ==
  /\ dep.tmpl # NoTemplate /\ dep.observed
  /\ Upset /\ Deploying([dep EXCEPT !.observed = FALSE])

-----------------------------------------------------------------------------
(* The specification.                                                      *)

\* The pass that ends saw a rollout under way, its status write is lost, and
\* the stored status tells of none.
Forgotten ==
  /\ pass.at = "finish" /\ pass'.at = "idle"
  /\ pass.copy.progressing = "True" /\ stored'.progressing # "True"

\* done: the pods of the Deployment's config were all there once since it was
\* put into the template; missed: the templates whose deadline passed; behind:
\* a rollout was Forgotten, or the pass that last judged the Deployment was
\* shown a template no longer stored, or one the Deployment controller had not
\* observed yet, and no pass since has started a rollout or seen it complete.
History ==
  history' =
    [done   |-> \/ history.done /\ dep'.tmpl[1] = dep.tmpl[1]
                \/ dep'.observed /\ dep'.pods = "all" /\ dep'.available,
     missed |-> history.missed \cup IF dep'.deadline /\ dep'.observed THEN {dep'.tmpl} ELSE {},
     behind |-> IF Forgotten THEN TRUE
                ELSE IF pass.at = "finish" /\ stored' # stored THEN pass.behind ELSE history.behind]

RolloutInit ==
  /\ wanted \in [config : {CHOOSE c \in Configs : TRUE}, image : {CHOOSE i \in Images : TRUE}, license : {"fine"},
                 plugins : {TRUE}, refused : {"none"}]
  /\ dep = NoDeployment /\ depCache = NoDeployment
  /\ stored = [config |-> None, valid |-> "none", license |-> "fine", plugins |-> "none",
               controlled |-> "none", progressing |-> "none", available |-> "none",
               failedOf |-> NoTemplate, ready |-> "Unknown", phase |-> "Pending"]
  /\ awake = TRUE
  /\ pass = IdleRollout
  /\ history = [done |-> FALSE, missed |-> {}, behind |-> FALSE]
  /\ upsets = MaxUpsets

RolloutPass ==
  \/ BeginRollout \/ HoldForServiceAccount \/ HoldDeployment \/ ReconcileDeployment \/ FinishRollout

RolloutNext ==
  /\ \/ RolloutPass \/ CrashRollout \/ DeliverDeployment \/ ChangeWanted
     \/ ObserveSpec \/ CompleteRollout \/ MissDeadline \/ LosePods \/ Scale
  /\ History

\* A queued pass runs to its end, informers deliver and the Deployment
\* controller looks at every spec.  That a rollout completes is not assumed.
RolloutFairness ==
  /\ WF_rollout(RolloutPass /\ History)
  /\ WF_rollout(DeliverDeployment /\ History)
  /\ WF_rollout(ObserveSpec /\ History)

RolloutSpec == RolloutInit /\ [][RolloutNext]_rollout /\ RolloutFairness

-----------------------------------------------------------------------------
(* Properties.                                                             *)

\* Ready is never True beside an applied config that the Deployment does not
\* run, or whose pods were never all there: not between the two status writes
\* of a pass, not after a Deployment step that failed, not on replica counts of
\* the previous ReplicaSet.  Left out are a config reverted before the cache
\* showed the Deployment of the one in between, the window rolloutInFlight
\* accepts, before a write is observed, and a rollout whose report was lost
\* beside a status that tells of none.
ReadyMeansRolledOut ==
  stored.ready = "True" /\ ~history.behind => history.done /\ dep.tmpl[1] = stored.config

\* A missed progress deadline is only reported of the template that missed it,
\* although the condition outlives its rollout (failedRolloutApplies).
FailureIsOfItsTemplate ==
  stored.available = "RolloutFailed" => stored.failedOf \in history.missed

Complete == dep.observed /\ dep.pods = "all" /\ dep.available

\* Nothing is wrong: an acceptable config and image, rolled out, nothing in
\* the way.
Healthy ==
  /\ wanted.config \notin Rejected /\ wanted.license = "fine" /\ wanted.plugins
  /\ wanted.refused = "none"
  /\ dep.tmpl = <<wanted.config, wanted.image>> /\ Complete

\* Whatever was reported on the way (a failed rollout, lost pods, a refusal, an
\* owed rollout), a gateway that is healthy for good is Ready for good: no
\* condition sticks and no wake-up is lost.
HealthyBecomesReady == <>[]Healthy => <>[](stored.ready = "True")

\* Something is wrong that the status has a rule for.
Troubled ==
  \/ wanted.license # "fine" \/ ~wanted.plugins \/ wanted.refused # "none"
  \/ wanted.config \in Rejected
  \/ dep.tmpl = <<wanted.config, wanted.image>> /\ dep.observed /\ dep.deadline

\* A gateway in lasting trouble is not Ready for good.
TroubleShows == <>[]Troubled => <>[](stored.ready # "True")

\* What the status reports of a rollout is about that rollout: Ready of the
\* applied config's pods, RolloutFailed of a template that failed.
RolloutReported == ReadyMeansRolledOut /\ FailureIsOfItsTemplate

\* Ready ends up telling a gateway that is well from one that is not.
ReadyTellsHealth == HealthyBecomesReady /\ TroubleShows
=============================================================================
