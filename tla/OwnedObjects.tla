---------------------------- MODULE OwnedObjects ----------------------------
(***************************************************************************)
(* The objects named like a gateway: how a pass creates, takes over,       *)
(* leaves alone and deletes them (applyOwned, deleteIfControlled,          *)
(* reconcileInfrastructure), and what it reports of those it left alone.   *)
(*                                                                         *)
(* Other people create, claim, orphan and delete such objects at any time. *)
(* The pass reads them through informer caches that may be behind, an      *)
(* optional kind through the API server unless it is watched.  Nobody is   *)
(* told of a change to an object the gateway does not control: a pass that *)
(* refused one fails, and is retried.  A cache catches up in one step with *)
(* the events of every state in between.                                   *)
(*                                                                         *)
(* The VirtualService stands for the three optional kinds, the Service for *)
(* the PodDisruptionBudget as well.                                        *)
(***************************************************************************)
EXTENDS Naturals

CONSTANTS              \* bounds on what others do, on edits, failures, restarts
  MaxMeddles,          \* of a gateway that has settled
  MaxEarlyMeddles      \* of one just created

VARIABLES
  obj,      \* what the API server holds under each name
  cache,    \* what the informer of each kind holds
  lag,      \* what the events to come tell: see Lags
  once,     \* history: the gateway controlled this incarnation
  ask,      \* the gateway's spec, and whether its Deployment is held
  kind,     \* the VirtualService CRD: installed, watched, remembered absent
  queued,   \* the gateway is in the work queue
  work,     \* the pass under way
  told,     \* ResourcesControlled and IstioConfigured
  meddles   \* what is left of the bound

owned == <<obj, cache, lag, once, ask, kind, queued, work, told, meddles>>

Kinds == {"sa", "svc", "dep", "hpa", "vs"}

\* The gateway's, as built or changed since; without a controller, with the
\* consent labels or without them; another controller's.
Holdings == {"absent", "ours", "drifted", "handed", "loose", "other"}

Own(x)     == x \in {"ours", "drifted"}     \* IsControlledBy
Foreign(x) == x \in {"loose", "other"}      \* refuseUncontrolled

\* A version the cache does not hold; another incarnation; a state in which the
\* gateway controlled the object.
Lags == {"version", "incarnation", "own"}

Conditions == [controlled : {"none", "True", "False"},
               istio : {"none", "True", "NoCRD", "NotControlled"}]

OwnedTypeOK ==
  /\ obj \in [Kinds -> Holdings] /\ cache \in [Kinds -> Holdings]
  /\ lag \in [Kinds -> SUBSET Lags]
  /\ once \in [Kinds -> BOOLEAN]
  /\ ask \in [autoscaling : BOOLEAN, istio : BOOLEAN, held : BOOLEAN]
  /\ kind \in [installed : BOOLEAN, watched : BOOLEAN, absent : BOOLEAN]
  /\ queued \in BOOLEAN
  /\ work \in [at : {"idle", "sa", "svc", "dep", "hpa", "vs", "end"}, refused : SUBSET Kinds,
               hidden : BOOLEAN, failed : BOOLEAN, foreign : BOOLEAN,
               sa : BOOLEAN, dep : {"held", "failed", "done"}, istio : {"none", "True", "NoCRD", "NotControlled"}]
  /\ told \in Conditions
  /\ meddles \in 0..MaxMeddles

Meddle == meddles > 0 /\ meddles' = meddles - 1

\* The object k becomes x in the API server; made: as a new incarnation.
Becomes(k, x, made) ==
  /\ obj' = [obj EXCEPT ![k] = x]
  /\ lag' = [lag EXCEPT ![k] =
               LET new == made \/ (obj[k] = "absent" /\ x # "absent")
               IN @ \cup (IF new \/ x # obj[k] THEN {"version"} ELSE {})
                    \cup (IF new THEN {"incarnation"} ELSE {})
                    \cup (IF Own(x) /\ x # obj[k] THEN {"own"} ELSE {})]
  /\ once' = [once EXCEPT ![k] = Own(x) \/ (@ /\ ~made /\ x # "absent")]

-----------------------------------------------------------------------------
(* The two operations on an object.  A verdict is done, refused, judged (a *)
(* failure that cannot hide a refusal) or hidden (one that may).           *)

\* applyOwned, on the copy x, which is behind or not: CreateOrUpdate writes
\* what differs.  A Conflict and AlreadyExists may hide a refusal.
ApplyOwned(k, x, behind) ==
  LET Left(v) == [to |-> obj[k], verdict |-> v]
  IN IF Foreign(x) THEN Left("refused")
     ELSE IF x = "ours" THEN Left("done")
     ELSE IF x = "absent" /\ obj[k] # "absent" THEN Left("hidden")
     ELSE IF x \in {"drifted", "handed"} /\ behind
       THEN Left(IF obj[k] = "absent" THEN "judged" ELSE "hidden")
     ELSE [to |-> "ours", verdict |-> "done"]

\* A mutant: the object that now has the name is deleted.
DeleteByName(k, x, made) ==
  [to |-> IF Own(x) THEN "absent" ELSE obj[k], verdict |-> "done"]

\* deleteIfControlled, on the copy x; made: of an earlier incarnation, which
\* the UID precondition tells apart.
DeleteIfControlled(k, x, made) ==
  IF ~Own(x) \/ obj[k] = "absent" THEN [to |-> obj[k], verdict |-> "done"]
  ELSE IF made THEN [to |-> obj[k], verdict |-> "hidden"]
  ELSE [to |-> "absent", verdict |-> "done"]

\* cannotHideRefusal: an API call for k fails.  A failed read may hide a
\* refusal, and so may a failed Create of what is there.
Failures(k, x) ==
  {[to |-> obj[k], verdict |-> v] :
     v \in {"hidden"} \cup IF Foreign(x) \/ (x = "absent" /\ obj[k] # "absent") THEN {} ELSE {"judged"}}

\* A step of the pass on k ended with res, and the pass goes on at next.
Ends(k, res, next) ==
  /\ Becomes(k, res.to, FALSE)
  /\ work' = [work EXCEPT !.at = next,
                !.refused = IF res.verdict = "refused" THEN @ \cup {k} ELSE @,
                !.hidden  = @ \/ res.verdict = "hidden" \/ (k = "dep" /\ res.verdict = "judged")
                              \/ (k = "sa" /\ res.verdict # "done"),
                !.failed  = @ \/ res.verdict # "done",
                !.sa      = IF k = "sa" THEN res.verdict = "done" ELSE @,
                !.dep     = IF k # "dep" THEN @ ELSE IF res.verdict = "done" THEN "done" ELSE "failed"]

\* As it should, or as a failed call leaves it.
EndsOrFails(k, x, res, next) ==
  \/ Ends(k, res, next) /\ UNCHANGED meddles
  \/ \E f \in Failures(k, x) : Ends(k, f, next) /\ Meddle

Skips(next) == work' = [work EXCEPT !.at = next] /\ UNCHANGED <<obj, lag, once, meddles>>

Around == UNCHANGED <<cache, ask, queued, told>>

-----------------------------------------------------------------------------
(* The pass.                                                               *)

IdleWork == [at |-> "idle", refused |-> {}, hidden |-> FALSE, failed |-> FALSE,
             foreign |-> FALSE, sa |-> FALSE, dep |-> "held", istio |-> "none"]

\* The pass reads the Deployment (deployedChecksums).
BeginPass ==
  /\ work.at = "idle" /\ queued
  /\ queued' = FALSE
  /\ work' = [IdleWork EXCEPT !.at = "sa", !.foreign = Foreign(cache["dep"]), !.istio = told.istio]
  /\ UNCHANGED <<obj, cache, lag, once, ask, kind, told, meddles>>

\* reconcileCoreResources.
CoreResource ==
  /\ work.at \in {"sa", "svc"} /\ Around /\ UNCHANGED kind
  /\ LET k == work.at
     IN EndsOrFails(k, cache[k], ApplyOwned(k, cache[k], lag[k] # {}),
                    IF k = "sa" THEN "svc" ELSE "dep")

\* reconcileDeploymentUnlessHeld; without the ServiceAccount it is held too.
DeploymentStep ==
  /\ work.at = "dep" /\ Around /\ UNCHANGED kind
  /\ \/ (ask.held \/ ~work.sa) /\ Skips("hpa")
     \/ /\ ~ask.held /\ work.sa
        /\ EndsOrFails("dep", cache["dep"], ApplyOwned("dep", cache["dep"], lag["dep"] # {}), "hpa")

\* The Deployment is one the gateway may not take over.
DeploymentForeign == "dep" \in work.refused \/ work.foreign

\* reconcileHPA, which without the ServiceAccount runs only to delete.
HPAStep ==
  /\ work.at = "hpa" /\ Around /\ UNCHANGED kind
  /\ LET x == cache["hpa"]
     IN \/ /\ DeploymentForeign \/ (work.sa /\ ~ask.autoscaling /\ work.dep # "failed")
           /\ EndsOrFails("hpa", x, DeleteIfControlled("hpa", x, "incarnation" \in lag["hpa"]), "vs")
        \/ /\ ~DeploymentForeign /\ work.sa /\ ask.autoscaling
           /\ EndsOrFails("hpa", x, ApplyOwned("hpa", x, lag["hpa"] # {}), "vs")
        \/ /\ ~DeploymentForeign /\ (~work.sa \/ (~ask.autoscaling /\ work.dep = "failed"))
           /\ Skips("vs")

\* The pass goes on to the end, with this IstioConfigured.
Istio(c, res) ==
  /\ Becomes("vs", res.to, FALSE)
  /\ work' = [work EXCEPT !.at = "end", !.istio = c,
                !.refused = IF res.verdict = "refused" THEN @ \cup {"vs"} ELSE @,
                !.hidden = @ \/ res.verdict = "hidden", !.failed = @ \/ res.verdict # "done"]

\* deleteOptionalIfControlled: not while the CRD is known to be absent; through
\* the informer where there is one.
DeleteOptional(c) ==
  LET x    == IF kind.watched THEN cache["vs"] ELSE obj["vs"]
      made == kind.watched /\ "incarnation" \in lag["vs"]
      res  == DeleteIfControlled("vs", x, made)
  IN IF kind.absent \/ ~kind.installed
       THEN /\ Istio(c, [to |-> obj["vs"], verdict |-> "done"])
            /\ kind' = [kind EXCEPT !.absent = TRUE] /\ UNCHANGED meddles
       ELSE /\ kind' = [kind EXCEPT !.absent = FALSE]
            /\ \/ Istio(IF res.verdict = "done" THEN c ELSE work.istio, res) /\ UNCHANGED meddles
               \/ Istio(work.istio, [res EXCEPT !.to = obj["vs"], !.verdict = "hidden"]) /\ Meddle

\* absentKinds.forget.
ForgetAbsent == [kind EXCEPT !.absent = FALSE]

\* applyOptional: the copy is read from the API server.
ApplyOptional ==
  LET res == ApplyOwned("vs", obj["vs"], FALSE)
  IN IF ~kind.installed
       THEN Istio("NoCRD", [to |-> obj["vs"], verdict |-> "done"]) /\ UNCHANGED <<kind, meddles>>
       ELSE /\ kind' = ForgetAbsent
            /\ \/ Istio(IF res.verdict = "done" THEN "True" ELSE work.istio, res) /\ UNCHANGED meddles
               \/ \E f \in Failures("vs", obj["vs"]) : Istio(work.istio, f) /\ Meddle

\* reconcileVirtualService.
VirtualServiceStep ==
  /\ work.at = "vs" /\ Around
  /\ \/ ask.istio /\ "svc" \in work.refused /\ DeleteOptional("NotControlled")
     \/ ask.istio /\ "svc" \notin work.refused /\ ApplyOptional
     \/ ~ask.istio /\ DeleteOptional("none")

\* A mutant: a refusal is not taken back.
ControlledOnce ==
  IF work.refused # {} THEN "False"
  ELSE IF ~work.hidden /\ work.dep = "done" /\ told.controlled = "none" THEN "True" ELSE told.controlled

\* setResourcesControlled: a hidden failure, or a Deployment not written, vouches
\* for nothing.
Controlled ==
  IF work.refused # {} THEN "False"
  ELSE IF ~work.hidden /\ work.dep = "done" THEN "True" ELSE told.controlled

\* The status write and the end of the pass; a failed one is retried.
EndPass ==
  /\ work.at = "end"
  /\ LET to == [controlled |-> Controlled, istio |-> work.istio]
     IN \/ told' = to /\ queued' = (queued \/ work.failed \/ to # told) /\ UNCHANGED meddles
        \/ to # told /\ UNCHANGED told /\ queued' = TRUE /\ Meddle
  /\ work' = IdleWork
  /\ UNCHANGED <<obj, cache, lag, once, ask, kind>>

-----------------------------------------------------------------------------
(* The environment.                                                        *)

\* The cache of k catches up; an event of an object the gateway controls, or
\* did, enqueues it.
DeliverObject ==
  \E k \in Kinds :
    /\ lag[k] # {} /\ (k = "vs" => kind.watched)
    /\ cache' = [cache EXCEPT ![k] = obj[k]]
    /\ lag' = [lag EXCEPT ![k] = {}]
    /\ queued' = (queued \/ Own(cache[k]) \/ "own" \in lag[k])
    /\ UNCHANGED <<obj, once, ask, kind, work, told, meddles>>

\* Somebody creates, deletes or replaces an object, or claims, orphans, hands
\* over or edits one.
Interfere ==
  \E k \in Kinds :
    /\ k = "vs" => kind.installed
    /\ Meddle
    /\ \/ \E x \in {"handed", "loose", "other"} : Becomes(k, x, TRUE)
       \/ obj[k] # "absent" /\ Becomes(k, "absent", TRUE)
       \/ /\ obj[k] # "absent"
          /\ \E x \in {"handed", "loose", "other"} \ {obj[k]} : Becomes(k, x, FALSE)
       \/ obj[k] = "ours" /\ Becomes(k, "drifted", FALSE)
    /\ UNCHANGED <<cache, ask, kind, queued, work, told>>

\* The spec changes, or a hold begins or ends (a plugin ConfigMap): both are
\* watched.
ChangeAsk ==
  /\ Meddle
  /\ \E f \in DOMAIN ask : ask' = [ask EXCEPT ![f] = ~@]
  /\ queued' = TRUE
  /\ UNCHANGED <<obj, cache, lag, once, kind, work, told>>

\* The CRD is installed: nobody is told.
InstallKind ==
  /\ ~kind.installed /\ Meddle
  /\ kind' = [kind EXCEPT !.installed = TRUE]
  /\ UNCHANGED <<obj, cache, lag, once, ask, queued, work, told>>

\* absentKindWindow ends.
ExpireAbsent ==
  /\ kind.absent
  /\ kind' = [kind EXCEPT !.absent = FALSE]
  /\ UNCHANGED <<obj, cache, lag, once, ask, queued, work, told, meddles>>

\* The operator restarts, perhaps inside a pass: its caches are filled, the
\* optional kinds looked up again (installedOptionalKinds), all enqueued.
RestartOperator ==
  /\ Meddle
  /\ cache' = obj /\ lag' = [k \in Kinds |-> {}]
  /\ kind' = [kind EXCEPT !.watched = kind.installed, !.absent = FALSE]
  /\ queued' = TRUE /\ work' = IdleWork
  /\ UNCHANGED <<obj, once, ask, told>>

-----------------------------------------------------------------------------
(* The specification.                                                      *)

\* A gateway just created, perhaps beside an object that has its name.
NewGateway ==
  /\ obj \in {[k \in Kinds |-> "absent"]} \cup
             {[j \in Kinds |-> IF j = k THEN "other" ELSE "absent"] : k \in Kinds \ {"vs"}}
  /\ once = [k \in Kinds |-> FALSE]
  /\ queued = TRUE
  /\ told = [controlled |-> "none", istio |-> "none"]
  /\ meddles = MaxEarlyMeddles

\* One whose passes found nothing to do any more.
SettledGateway ==
  /\ obj = [k \in Kinds |->
              CASE k = "hpa" /\ ~ask.autoscaling                 -> "absent"
                [] k = "vs" /\ ~(ask.istio /\ kind.installed)    -> "absent"
                [] OTHER                                         -> "ours"]
  /\ once = [k \in Kinds |-> obj[k] = "ours"]
  /\ queued = FALSE
  /\ told = [controlled |-> "True", istio |-> IF ~ask.istio THEN "none"
                                            ELSE IF kind.installed THEN "True" ELSE "NoCRD"]
  /\ meddles = MaxMeddles

OwnedInit ==
  /\ ask \in {[autoscaling |-> b, istio |-> b, held |-> FALSE] : b \in BOOLEAN}
  /\ kind \in {[installed |-> b, watched |-> b, absent |-> ~b /\ ~ask.istio] : b \in BOOLEAN}
  /\ NewGateway \/ SettledGateway
  /\ cache = obj /\ lag = [k \in Kinds |-> {}]
  /\ work = IdleWork

ObjectsPass ==
  BeginPass \/ CoreResource \/ DeploymentStep \/ HPAStep \/ VirtualServiceStep \/ EndPass

OwnedNext ==
  \/ ObjectsPass \/ DeliverObject
  \/ Interfere \/ ChangeAsk \/ InstallKind \/ ExpireAbsent \/ RestartOperator

\* A queued pass runs to its end and informers deliver.
OwnedFairness == WF_owned(ObjectsPass) /\ WF_owned(DeliverObject)

OwnedSpec == OwnedInit /\ [][OwnedNext]_owned /\ OwnedFairness

-----------------------------------------------------------------------------
(* Properties.                                                             *)

\* Whatever the caches show, a pass overwrites only what it may take over, and
\* deletes only an incarnation it controlled: never one that took the name
\* since (the UID precondition, AlreadyExists and Conflict).
OthersUntouched ==
  [][work' # work =>
       \A k \in Kinds :
         /\ Foreign(obj[k]) => ~Own(obj'[k])
         /\ obj[k] # "absent" /\ obj'[k] = "absent" => once[k]]_owned

\* The objects a pass would write and may not.
Refused ==
  {k \in Kinds :
     /\ Foreign(obj[k])
     /\ k \in {"dep", "hpa"} => ~Foreign(obj["sa"])
     /\ k = "hpa" => ask.autoscaling /\ ~Foreign(obj["dep"])
     /\ k = "vs" => ask.istio /\ ~Foreign(obj["svc"])}

\* ResourcesControlled ends up telling what is the case, although nothing
\* watches the objects of others: not stuck after they went away or were handed
\* over, and not True beside one the gateway leaves alone.  Left out: a hold of
\* the Deployment, and an optional kind installed since the operator started.
ControlledTold ==
  /\ <>[](Refused \ {"vs"} # {} /\ ~ask.held) => <>[](told.controlled = "False")
  /\ <>[](Refused = {} /\ ~ask.held) => <>[](told.controlled = "True")
  /\ <>[]("vs" \in Refused /\ kind.watched) => <>[](told.controlled = "False")

\* The HPA would scale, the VirtualService route to, somebody else's object, or
\* the feature is off: the gateway's is removed for good, and IstioConfigured
\* does not claim it.
StraysGone ==
  /\ <>[](Foreign(obj["dep"]) /\ ~ask.held) => <>[]~Own(obj["hpa"])
  /\ <>[](~ask.autoscaling /\ ~Foreign(obj["sa"])) => <>[]~Own(obj["hpa"])
  /\ <>[](Foreign(obj["svc"]) \/ ~ask.istio) => <>[](~Own(obj["vs"]) /\ told.istio # "True")

\* However objects change hands without anybody being told, the conditions end up
\* true and nothing of the gateway's serves an object of somebody else.
OwnershipSettles == ControlledTold /\ StraysGone
=============================================================================
