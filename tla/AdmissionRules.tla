---------------------------- MODULE AdmissionRules ----------------------------
(***************************************************************************)
(* The validating webhooks' rules that need no krakend run, over a history *)
(* of writes by users who hold different rights.  An update is refused     *)
(* only for what it introduces: what an older operator stored stays.  Each *)
(* write is admitted against current caches; what concurrent writes can do *)
(* to each other is not modelled.                                          *)
(*                                                                         *)
(* One gateway g is written; h is an Enterprise gateway that exists        *)
(* throughout.  A spec keeps what the rules tell apart.                    *)
(***************************************************************************)
EXTENDS Naturals, FiniteSets

CONSTANTS
  None,       \* an object that does not exist
  Worlds      \* Worlds[i]: the specs, the stored gateways and the writers of one behaviour

Settings == {"unset", "x", "y"}
Names    == {"none", "s1", "s2"}

\* runAsUser and runAsNonRoot of the container and of the pod.
RunAs == [cUser : {"unset", "root", "other"}, cNonRoot : {"unset", "true", "false"},
          pUser : {"unset", "root", "other"}, pNonRoot : {"unset", "true", "false"}]

\* A secretRef may name no Secret; "none" is no secretRef at all.
License   == [ref : Names \cup {"unnamed"}, external : Settings]
Dragonfly == [enabled : BOOLEAN, password : Names, run : RunAs]
Job       == [enabled : BOOLEAN, borrows : BOOLEAN, variant : {1, 2}, run : RunAs]

\* A probe with a host is bad on every image, a grpc probe on the default one.
OpenAPI == [enabled : BOOLEAN, probe : {"none", "fine", "host1", "host2", "grpc"},
            image : {"default", "custom"}]

Gateway == [edition : {"CE", "EE"}, extraConfig : Settings, redis : Settings,
            documentation : Settings, openapi : OpenAPI, license : License,
            dragonfly : Dragonfly, job : Job]

\* ee: its entries use what only Enterprise serves.
EndpointSpec == [on : {"g", "h"}, ee : BOOLEAN, variant : {1, 2}, policy : BOOLEAN]
Policy   == [ee : BOOLEAN, variant : {1, 2}, other : {1, 2}]
Source   == [on : {"g", "h"}, url : {"none", "u1", "u2"}, secret : Names]

Get(s)      == <<"get", s>>
CreatePods  == <<"create", "pods">>
CreateES    == <<"create", "externalsecrets">>
Rights      == {Get("s1"), Get("s2"), CreatePods, CreateES}
NoSecret    == <<"none", "none">>

\* The rights to read the Secret s.
Reads(s)    == {Get(x) : x \in {s} \ {"none"}}

ASSUME WorldsAssumption ==
  \A i \in DOMAIN Worlds :
   LET world == Worlds[i] IN
    /\ world.gateways \subseteq Gateway /\ world.stored \subseteq Gateway
    /\ world.endpoints \subseteq EndpointSpec /\ world.policies \subseteq Policy
    /\ world.sources \subseteq Source
    /\ world.writers \subseteq SUBSET Rights

VARIABLES
  here,     \* the world it is
  gw,       \* the stored gateway g
  ep,       \* a stored endpoint
  pol,      \* the stored policy
  ac,       \* a stored AutoConfig
  usedBy,   \* usedBy[u]: the rights of the writer who put u in use as it is
  kept      \* what was stored before these rules and has not been touched

rules == <<here, gw, ep, pol, ac, usedBy, kept>>

-----------------------------------------------------------------------------
\* The error e where c holds.
When(e, c) == IF c THEN {e} ELSE {}

(* What only Enterprise serves.                                            *)

EEFields == {"extraConfig", "redis", "documentation", "openapi", "dragonfly"}

Sets(g, f) == IF f \in {"openapi", "dragonfly"} THEN g[f].enabled ELSE g[f] # "unset"

\* openapi and dragonfly are keyed on enabled, the others on what is set.
KeptOnCE(old, new, f) ==
  IF f \in {"openapi", "dragonfly"} THEN Sets(old, f) ELSE old[f] = new[f]

\* eeNamespacesInUse: a policy that does not exist uses nothing.
EEInUse == ep # None /\ ep.on = "g" /\ (ep.ee \/ (ep.policy /\ pol # None /\ pol.ee))

\* A mutant: a gateway that is created has no endpoints to look at.
EEOnCEUpdatesOnly(old, new) ==
  IF new.edition # "CE" THEN {} ELSE
    {f \in EEFields : Sets(new, f) /\ ~ (old # None /\ old.edition = "CE" /\ KeptOnCE(old, new, f))}
    \cup When("edition", old # None /\ old.edition = "EE" /\ EEInUse)

\* eeNamespacesOnCE and eeFieldsOnCE.
EEOnCE(old, new) ==
  IF new.edition # "CE" THEN {} ELSE
    {f \in EEFields : Sets(new, f) /\ ~ (old # None /\ old.edition = "CE" /\ KeptOnCE(old, new, f))}
    \cup When("edition", (old = None \/ old.edition = "EE") /\ EEInUse)

-----------------------------------------------------------------------------
(* The writer's rights.                                                    *)

\* LicenseSecret: a secretRef wins, even one that names no Secret.
LicenseSecret(g) ==
  IF g.license.ref \in {"s1", "s2"} THEN Get(g.license.ref)
  ELSE IF g.license.ref = "none" /\ g.license.external # "unset" THEN CreateES
  ELSE NoSecret

\* A mutant: an ExternalSecret that takes over unchanged is not reviewed.
LicenseSourceStays(old, new) == FALSE

LicenseSourceMoved(old, new) == LicenseSecret(old) # LicenseSecret(new)

\* authorizeLicense: the rights the edit is reviewed for.
LicenseReview(old, new) ==
  {r \in {Get("s1"), Get("s2")} :
     r = Get(new.license.ref) /\ (old = None \/ old.license.ref # new.license.ref)}
  \cup
  {r \in {CreateES} :
     /\ new.license.external # "unset"
     /\ \/ old = None
        \/ new.license.ref = "none" /\ LicenseSourceMoved(old, new)
        \/ old.license.external # new.license.external}

\* authorizeDragonflyPassword.
PasswordReview(old, new) ==
  IF /\ new.dragonfly.enabled
     /\ ~ /\ old # None /\ old.dragonfly.enabled
          /\ old.dragonfly.password = new.dragonfly.password
  THEN Reads(new.dragonfly.password) ELSE {}

\* authorizePostRestartJob.
JobReview(old, new) ==
  IF new.job.enabled /\ new.job.borrows /\ (old = None \/ old.job # new.job)
  THEN {CreatePods} ELSE {}

\* authorizeSourceAuth: any change of where the Secrets go is reviewed.
SourceReview(old, new) ==
  IF new.url # "none" /\ (old = None \/ <<old.url, old.secret>> # <<new.url, new.secret>>)
  THEN Reads(new.secret) ELSE {}

-----------------------------------------------------------------------------
(* Who a container runs as.                                                *)

Lanes == {"job", "dragonfly"}

EffectiveRunAsRoot(run) ==
  run.cUser = "root" \/ (run.cUser = "unset" /\ run.pUser = "root")

\* validateRunAsRootConflict: a request for root that nobody acknowledges.  A
\* container's acknowledgement is good for its own request only.  The Job's
\* builder heals a pod's request where runAsNonRoot is unset; Dragonfly refuses
\* a pod's request whatever the container runs as.
RunAsRootConflict(lane, run) ==
  LET podRoot == lane = "dragonfly" /\ run.pUser = "root" /\ run.pNonRoot # "false"
                 /\ run.cUser # "root"
      acknowledged == (run.cUser = "root" /\ run.cNonRoot = "false") \/ run.pNonRoot = "false"
      healed == lane = "job" /\ run.cUser = "unset" /\ run.cNonRoot # "true" /\ run.pNonRoot # "true"
  IN  podRoot \/ (EffectiveRunAsRoot(run) /\ ~ acknowledged /\ ~ healed)

NoRunAs == [cUser |-> "unset", cNonRoot |-> "unset", pUser |-> "unset", pNonRoot |-> "unset"]

\* A mutant: the ratchet also holds for a spec that was stored disabled.
RunAsErrorsOnChange(old, new) ==
  {lane \in Lanes :
     /\ new[lane].enabled
     /\ new[lane].run # (IF old # None THEN old[lane].run ELSE NoRunAs)
     /\ RunAsRootConflict(lane, new[lane].run)}

\* Only a spec that was stored enabled can have been accepted before.
RunAsErrors(old, new) ==
  {lane \in Lanes :
     /\ new[lane].enabled
     /\ new[lane].run # (IF old # None /\ old[lane].enabled THEN old[lane].run ELSE NoRunAs)
     /\ RunAsRootConflict(lane, new[lane].run)}

\* The builders: the operator's defaults, what the spec sets, and what is dropped
\* of the defaults where it contradicts a request for root.
PodNonRoot(lane, run) ==
  LET podRoot == run.pUser = "root"
      ctrRoot == run.cUser = "root" /\ run.cNonRoot = "unset"
  IN  IF run.pNonRoot # "unset" THEN run.pNonRoot
      ELSE IF podRoot \/ (lane = "dragonfly" /\ run.pUser # "unset" /\ ctrRoot) THEN "unset"
      ELSE "true"

ContainerNonRoot(lane, run) ==
  IF run.cNonRoot = "unset" /\ lane = "dragonfly" /\ run.cUser # "root" THEN "true" ELSE run.cNonRoot

RunsAsRoot(lane, run) ==
  run.cUser = "root" \/ (run.cUser = "unset" /\ lane = "job" /\ run.pUser = "root")

\* The kubelet refuses to start a container that is root and must not be.
KubeletStarts(lane, run) ==
  LET nonRoot == IF ContainerNonRoot(lane, run) # "unset"
                 THEN ContainerNonRoot(lane, run) ELSE PodNonRoot(lane, run)
  IN  ~ (RunsAsRoot(lane, run) /\ nonRoot = "true")

-----------------------------------------------------------------------------
(* The sidecar's probe.                                                    *)

ProbeErrors(o) ==
  IF ~ o.enabled THEN {}
  ELSE IF o.probe \in {"host1", "host2"} THEN {"host"}
  ELSE IF o.probe = "grpc" /\ o.image = "default" THEN {"grpc"} ELSE {}

\* storedErrors, newErrors: errors carry no value, so those of a probe the edit
\* changed do not count as stored.
NewProbeErrors(old, new) ==
  IF old = None \/ old.openapi.probe # new.openapi.probe THEN ProbeErrors(new.openapi)
  ELSE ProbeErrors(new.openapi) \ ProbeErrors(old.openapi)

-----------------------------------------------------------------------------
(* Admission.                                                              *)

GatewayErrors(old, new, w) ==
  EEOnCE(old, new) \cup RunAsErrors(old, new) \cup NewProbeErrors(old, new)
  \cup {"rights" : r \in (LicenseReview(old, new) \cup PasswordReview(old, new) \cup JobReview(old, new)) \ w}

OnCE(on) == on = "g" /\ gw # None /\ gw.edition = "CE"

\* structural: what is stored counts only on the same gateway; a gateway that
\* is missing is an error only to a request that sets the reference.
EndpointErrors(old, new) ==
  LET stored == IF old # None /\ old.on = new.on THEN old ELSE None IN
  When("gatewayRef", new.on = "g" /\ gw = None /\ stored = None)
  \cup When("policyRef", new.policy /\ ~ (old # None /\ old.policy) /\ pol = None)
  \cup When("entries", OnCE(new.on) /\ new.ee
                           /\ (stored = None \/ <<stored.ee, stored.variant>> # <<new.ee, new.variant>>))
  \cup When("policy", OnCE(new.on) /\ new.policy /\ pol # None /\ pol.ee
                          /\ ~ (stored # None /\ stored.policy))

\* checkPolicyRender: only a raw that is new or changed is judged.
PolicyErrors(old, new) ==
  When("raw", /\ new.ee /\ (old = None \/ <<old.ee, old.variant>> # <<new.ee, new.variant>>)
     /\ ep # None /\ ep.policy /\ OnCE(ep.on))

SourceErrors(old, new, w) ==
  When("gatewayRef", new.on = "g" /\ gw = None /\ (old = None \/ old.on # new.on))
  \cup {"rights" : r \in SourceReview(old, new) \ w}

-----------------------------------------------------------------------------
(* What the operator uses on a writer's behalf, and the rights it takes.   *)

Uses == {"mounted", "external", "password", "job", "source"}

Used(what, needs) == [what |-> what, needs |-> needs]

InUseBySource(a) ==
  IF a = None THEN Used(None, {}) ELSE Used(<<a.url, a.secret>>, IF a.url # "none" THEN Reads(a.secret) ELSE {})

InUseByGateway(g, u) ==
  IF u = "mounted" THEN Used(LicenseSecret(g), {LicenseSecret(g)} \ {NoSecret})
  ELSE IF u = "external" THEN Used(g.license.external, IF g.license.external # "unset" THEN {CreateES} ELSE {})
  ELSE IF u = "password" THEN Used(<<g.dragonfly.enabled, g.dragonfly.password>>,
                                  IF g.dragonfly.enabled THEN Reads(g.dragonfly.password) ELSE {})
  ELSE Used(g.job, IF g.job.enabled /\ g.job.borrows THEN {CreatePods} ELSE {})

InUse(g, a) ==
  [u \in Uses |-> IF u = "source" THEN InUseBySource(a)
                  ELSE IF g = None THEN Used(None, {}) ELSE InUseByGateway(g, u)]

\* Whoever changes what is in use put it in use.
Record(g, a, w) ==
  usedBy' = [u \in Uses |-> IF InUse(g, a)[u] # InUse(gw, ac)[u] THEN w ELSE usedBy[u]]

\* What an edit leaves as it was: an Enterprise field of a Community gateway, who a
\* container runs as, the sidecar's probe.
Untouched(old, new) ==
  {<<"ee", f>> : f \in {x \in EEFields : /\ old.edition = "CE" /\ new.edition = "CE" /\ Sets(old, x)
                                         /\ old[x] = new[x] \/ x \in {"openapi", "dragonfly"}}}
  \cup {<<"run", lane>> : lane \in {x \in Lanes : old[x].enabled /\ new[x].enabled /\ old[x].run = new[x].run}}
  \cup When(<<"probe", "openapi">>,
            old.openapi.enabled /\ new.openapi.enabled /\ old.openapi.probe = new.openapi.probe)

-----------------------------------------------------------------------------
InitRules ==
  /\ here \in DOMAIN Worlds
  /\ gw \in Worlds[here].stored \cup {None}
  /\ ep = None /\ pol = None /\ ac = None
  /\ usedBy = [u \in Uses |-> InUse(gw, ac)[u].needs]
  /\ kept = ({"ee"} \X EEFields) \cup ({"run"} \X Lanes) \cup {<<"probe", "openapi">>}

\* ValidateCreate, ValidateUpdate, admit: a spec that does not change is not judged.
WriteGateway(new, w) ==
  /\ new # gw /\ GatewayErrors(gw, new, w) = {}
  /\ gw' = new
  /\ Record(new, ac, w)
  /\ kept' = IF gw = None THEN {} ELSE kept \cap Untouched(gw, new)
  /\ UNCHANGED <<here, ep, pol, ac>>

DeleteGateway ==
  /\ gw # None /\ gw' = None
  /\ Record(None, ac, {})
  /\ kept' = {}
  /\ UNCHANGED <<here, ep, pol, ac>>

WriteEndpoint(new) ==
  /\ new # ep /\ EndpointErrors(ep, new) = {}
  /\ ep' = new
  /\ UNCHANGED <<here, gw, pol, ac, usedBy, kept>>

DeleteEndpoint ==
  /\ ep # None /\ ep' = None
  /\ UNCHANGED <<here, gw, pol, ac, usedBy, kept>>

WritePolicy(new) ==
  /\ new # pol /\ PolicyErrors(pol, new) = {}
  /\ pol' = new
  /\ UNCHANGED <<here, gw, ep, ac, usedBy, kept>>

\* The protection finalizer holds a policy that is referenced.
DeletePolicy ==
  /\ pol # None /\ ~ (ep # None /\ ep.policy)
  /\ pol' = None
  /\ UNCHANGED <<here, gw, ep, ac, usedBy, kept>>

WriteSource(new, w) ==
  /\ new # ac /\ SourceErrors(ac, new, w) = {}
  /\ ac' = new
  /\ Record(gw, new, w)
  /\ UNCHANGED <<here, gw, ep, pol, kept>>

DeleteSource ==
  /\ ac # None /\ ac' = None
  /\ Record(gw, None, {})
  /\ UNCHANGED <<here, gw, ep, pol, kept>>

NextRules ==
  \/ \E new \in Worlds[here].gateways, w \in Worlds[here].writers : WriteGateway(new, w)
  \/ \E new \in Worlds[here].endpoints : WriteEndpoint(new)
  \/ \E new \in Worlds[here].policies : WritePolicy(new)
  \/ \E new \in Worlds[here].sources, w \in Worlds[here].writers : WriteSource(new, w)
  \/ DeleteGateway \/ DeleteEndpoint \/ DeletePolicy \/ DeleteSource

SpecRules == InitRules /\ [][NextRules]_rules

-----------------------------------------------------------------------------
\* eeNamespacesOnCE, eeFieldsOnCE, validateEntries, validatePolicyNamespaces,
\* checkPolicyRender: in whatever order gateways, endpoints and policies are
\* created, edited, moved and deleted, nothing Enterprise ends up on a Community
\* gateway, save what an older operator stored there and nobody has touched.
NothingEnterpriseOnCE ==
  gw # None /\ gw.edition = "CE" =>
    /\ \A f \in EEFields : Sets(gw, f) => <<"ee", f>> \in kept
    /\ ~ EEInUse

\* authorizeLicense, authorizeDragonflyPassword, authorizePostRestartJob,
\* authorizeSourceAuth: whatever the operator reads or runs for an object, the
\* writer who put it in use as it is could have read or run.
RightsHeld == \A u \in Uses : InUse(gw, ac)[u].needs \subseteq usedBy[u]

\* validateRunAsRootConflict and validateSidecarProbe against the builders' merges:
\* through edits, enabling and disabling, an enabled Job or Dragonfly that was not
\* stored as it is starts, unless its container insists on runAsNonRoot against
\* the pod's acknowledgement, and only a stored probe is one no Deployment may have.
AdmittedPodsStart ==
  gw # None =>
    /\ \A lane \in Lanes : gw[lane].enabled /\ <<"run", lane>> \notin kept =>
         \/ KubeletStarts(lane, gw[lane].run)
         \/ gw[lane].run.cNonRoot = "true" /\ gw[lane].run.pNonRoot = "false"
    /\ ProbeErrors(gw.openapi) # {} => <<"probe", "openapi">> \in kept
=============================================================================
