------------------------ MODULE EndpointStatusProofs ------------------------
(***************************************************************************)
(* Proofs about EndpointStatus: the types, that Ready=True was earned, that *)
(* the two writers of an endpoint's status never write over each other, and *)
(* that a protected policy stays while it is referenced.                   *)
(***************************************************************************)
EXTENDS EndpointStatus, TLAPS

\* Generations and uids are older than the next one that is given out, and a
\* read of the endpoint is one of the attempts that are left.
Bounded ==
  /\ ep.gen < Fresh /\ pol.gen < Fresh
  /\ pol.uid < Fresh /\ polCache.uid < Fresh /\ polPass.pol.uid < Fresh
  /\ gwPass.at \in {"record", "decide"} => gwPass.tries = 0
  /\ gwPass.at = "get" => gwPass.tries < MaxTries

StatusTypes == TypeOK /\ Bounded

Whole(verdict) == verdict.ok /\ verdict.reason \in {"Accepted", "SchemaNameConflict"}

\* What is stored, and what a pass is about to store, speaks of generations
\* that a render included.
Earned ==
  /\ Here(ep) /\ ep.accepted.gen # 0 /\ Whole(ep.accepted) => <<ep.uid, ep.accepted.gen>> \in included
  /\ Here(ep) /\ ep.ready.status = "True" => <<ep.uid, ep.ready.gen>> \in included
  /\ gwPass.at \in {"get", "patch"} /\ Here(gwPass.base) /\ gwPass.a.set /\ Whole(gwPass.a.verdict)
       => <<gwPass.base.uid, gwPass.a.verdict.gen>> \in included

\* A deletion is never taken back, and a pass past the count of references is
\* about a policy that is being deleted; past the confirmation nothing stored
\* references it.
Deletion ==
  /\ \A q \in {polCache, polPass.pol} : q.deleting /\ q.uid = pol.uid => pol.deleting
  /\ \A q \in {pol, polCache, polPass.pol} : q.deleting => Here(q)
  /\ polPass.at \in {"confirm", "release"} => polPass.pol.deleting
  /\ polPass.at = "release" /\ polPass.pol.uid = pol.uid => ~UsesPolicy(ep)

-----------------------------------------------------------------------------
(* The values the operators return.                                        *)

LEMMA NewObjects ==
  ASSUME NEW uid \in Times, NEW u \in BOOLEAN
  PROVE  /\ NewEndpoint(uid, u) \in Endpoint
         /\ NewEndpoint(uid, u).uid = uid /\ NewEndpoint(uid, u).gen \in 0..1
         /\ NewEndpoint(uid, u).accepted.gen = 0 /\ NewEndpoint(uid, u).ready.status = "Unknown"
         /\ NewEndpoint(uid, u).pol = u
         /\ NewGateway(uid) \in Gateway /\ NewGateway(uid).uid = uid
         /\ NewPolicy(uid, u) \in Policy
         /\ NewPolicy(uid, u).uid = uid /\ NewPolicy(uid, u).gen \in 0..1
         /\ NewPolicy(uid, u).deleting = FALSE
  BY StatusAssumption
     DEF NewEndpoint, NewGateway, NewPolicy, Endpoint, Gateway, Policy, Times, Verdict, NoVerdict, Refs,
         Ready, Reasons, Modes

LEMMA NothingType == Nothing \in Acceptance /\ Nothing.set = FALSE /\ NoVerdict \in Verdict /\ NoVerdict.gen = 0
  BY StatusAssumption DEF Nothing, Acceptance, NoVerdict, Verdict, Times, Reasons

LEMMA IdleTypes ==
  /\ NoEndpoint \in Endpoint /\ NoEndpoint.uid = 0 /\ NoEndpoint.gen \in 0..1
  /\ NoPolicy \in Policy /\ NoPolicy.uid = 0 /\ NoPolicy.gen \in 0..1 /\ NoPolicy.deleting = FALSE
  /\ IdleGateway \in GatewayPass /\ IdleGateway.at = "idle"
  /\ IdleEndpoint \in EndpointPass /\ IdleEndpoint.at = "idle"
  /\ IdlePolicy \in PolicyPass /\ IdlePolicy.at = "idle" /\ IdlePolicy.pol = NoPolicy
<1>1. 0 \in Times
  BY StatusAssumption DEF Times
<1>2. /\ NoEndpoint \in Endpoint /\ NoEndpoint.uid = 0 /\ NoEndpoint.gen \in 0..1
      /\ NoPolicy \in Policy /\ NoPolicy.uid = 0 /\ NoPolicy.gen \in 0..1 /\ NoPolicy.deleting = FALSE
      /\ NewGateway(0) \in Gateway
  BY <1>1, NewObjects DEF NoEndpoint, NoPolicy
<1>3. IdleGateway \in GatewayPass /\ IdleGateway.at = "idle"
  BY <1>2, NothingType, StatusAssumption DEF IdleGateway, GatewayPass
<1>4. NoEndpoint.refs \in Refs
  BY <1>2 DEF Endpoint
<1>5. IdleEndpoint \in EndpointPass /\ IdleEndpoint.at = "idle"
  BY <1>2, <1>4 DEF IdleEndpoint, EndpointPass
<1>6. IdlePolicy \in PolicyPass /\ IdlePolicy.at = "idle" /\ IdlePolicy.pol = NoPolicy
  BY <1>2 DEF IdlePolicy, PolicyPass
<1>7. QED
  BY <1>2, <1>3, <1>5, <1>6

\* endpointAccepted speaks of the generation it was given.
LEMMA AcceptedType ==
  ASSUME NEW e \in Endpoint, NEW r \in Renders, NEW missing \in BOOLEAN
  PROVE  LET a == EndpointAccepted(e, r, missing)
         IN a \in Acceptance /\ (a.set => a.verdict.gen = e.gen)
<1>1. r \in Render /\ r.excluded \in BOOLEAN /\ r.lost \in 0..Entries
  BY StatusAssumption DEF Render
<1>2. e.gen \in Times
  BY DEF Endpoint
<1> DEFINE S(ok, reason, n) == [Nothing EXCEPT !.set = TRUE, !.verdict = AVerdict(e, ok, reason), !.conflicts = n]
<1>3. ASSUME NEW ok \in BOOLEAN, NEW reason \in Reasons, NEW n \in 0..Entries
      PROVE  S(ok, reason, n) \in Acceptance /\ S(ok, reason, n).verdict.gen = e.gen
  BY <1>2, NothingType DEF AVerdict, Acceptance, Verdict
<1>4. 0 \in 0..Entries
  BY StatusAssumption
<1>5. S(FALSE, "EndpointInvalid", 0) \in Acceptance /\ S(FALSE, "EndpointInvalid", 0).verdict.gen = e.gen
  BY <1>3, <1>4 DEF Reasons
<1>6. S(TRUE, "PartiallyAccepted", r.lost) \in Acceptance /\ S(TRUE, "PartiallyAccepted", r.lost).verdict.gen = e.gen
  BY <1>3, <1>1 DEF Reasons
<1>7. S(FALSE, "EndpointConflict", r.lost) \in Acceptance /\ S(FALSE, "EndpointConflict", r.lost).verdict.gen = e.gen
  BY <1>3, <1>1 DEF Reasons
<1>8. /\ S(r.wildcards < Entries, "EEFeaturesStripped", 0) \in Acceptance
      /\ S(r.wildcards < Entries, "EEFeaturesStripped", 0).verdict.gen = e.gen
  <2>1. (r.wildcards < Entries) \in BOOLEAN
    BY <1>1, StatusAssumption DEF Render
  <2>2. "EEFeaturesStripped" \in Reasons
    BY DEF Reasons
  <2>3. QED
    BY <1>3, <1>4, <2>1, <2>2
<1>9. /\ S(TRUE, IF r.schema THEN "SchemaNameConflict" ELSE "Accepted", 0) \in Acceptance
      /\ S(TRUE, IF r.schema THEN "SchemaNameConflict" ELSE "Accepted", 0).verdict.gen = e.gen
  BY <1>3, <1>4 DEF Reasons
<1> HIDE DEF S
<1>10. EndpointAccepted(e, r, missing) \in
         {Nothing, S(FALSE, "EndpointInvalid", 0), S(TRUE, "PartiallyAccepted", r.lost),
          S(FALSE, "EndpointConflict", r.lost), S(r.wildcards < Entries, "EEFeaturesStripped", 0),
          S(TRUE, IF r.schema THEN "SchemaNameConflict" ELSE "Accepted", 0)}
  BY DEF EndpointAccepted, S
<1>11. QED
  BY <1>5, <1>6, <1>7, <1>8, <1>9, <1>10, NothingType

\* recordExclusions never accepts.
LEMMA ExclusionsType ==
  ASSUME NEW e \in Endpoint, NEW r \in Renders, NEW missing \in BOOLEAN, NEW never \in BOOLEAN
  PROVE  LET x == RecordExclusions(e, r, missing, never)
         IN x.decides \in BOOLEAN /\ x.a \in Acceptance /\ (x.a.set => ~x.a.verdict.ok)
<1>1. e.gen \in Times
  BY DEF Endpoint
<1>2. AVerdict(e, FALSE, "EndpointInvalid") \in Verdict /\ AVerdict(e, FALSE, "EndpointInvalid").ok = FALSE
  BY <1>1 DEF AVerdict, Verdict, Reasons
<1> DEFINE A == [Nothing EXCEPT !.set = TRUE, !.verdict = AVerdict(e, FALSE, "EndpointInvalid"), !.keep = ~never]
           B == [Nothing EXCEPT !.keep = ~never, !.careful = ~never]
<1>3. A \in Acceptance /\ A.verdict = AVerdict(e, FALSE, "EndpointInvalid")
  BY <1>2, NothingType DEF Acceptance
<1>4. B \in Acceptance /\ B.set = FALSE
  BY NothingType DEF Acceptance
<1> HIDE DEF A, B
<1>5. RecordExclusions(e, r, missing, never).a \in {A, B}
  BY DEF RecordExclusions, A, B
<1>6. RecordExclusions(e, r, missing, never).decides \in BOOLEAN
  BY DEF RecordExclusions
<1>7. QED
  BY <1>2, <1>3, <1>4, <1>5, <1>6

LEMMA DecidedType ==
  ASSUME NEW p \in GatewayPass, NEW decides, NEW a \in Acceptance
  PROVE  LET q == Decided(p, decides, a)
         IN /\ q \in GatewayPass
            /\ q.at \in {"get", "finish"}
            /\ q.base = p.base /\ q.a = a /\ q.tries = p.tries
<1>1. (Here(p.base) /\ IsExclusion(IF decides THEN a.verdict ELSE p.base.accepted)) \in BOOLEAN
  OBVIOUS
<1>2. QED
  BY <1>1 DEF Decided, GatewayPass

LEMMA WithVerdictType ==
  ASSUME NEW e \in Endpoint, NEW a \in Acceptance
  PROVE  LET f == WithVerdict(e, a)
         IN /\ f \in Endpoint /\ f.uid = e.uid /\ f.gen = e.gen /\ f.pol = e.pol
            /\ f.refs = e.refs /\ f.ready = e.ready
            /\ f.accepted = (IF a.set THEN a.verdict ELSE NoVerdict)
<1> DEFINE v == IF a.set THEN a.verdict ELSE NoVerdict
           n == IF a.keep THEN e.conflicts ELSE a.conflicts
<1>1. v \in Verdict /\ n \in 0..Entries
  BY NothingType DEF Acceptance, Endpoint
<1>2. WithVerdict(e, a) = [e EXCEPT !.accepted = v, !.conflicts = n]
  BY DEF WithVerdict, Endpoint
<1> HIDE DEF v, n
<1>3. WithVerdict(e, a) \in Endpoint /\ WithVerdict(e, a).accepted = v
  BY <1>1, <1>2 DEF Endpoint
<1>4. /\ WithVerdict(e, a).uid = e.uid /\ WithVerdict(e, a).gen = e.gen /\ WithVerdict(e, a).pol = e.pol
      /\ WithVerdict(e, a).refs = e.refs /\ WithVerdict(e, a).ready = e.ready
  BY <1>2 DEF Endpoint
<1>5. QED
  BY <1>3, <1>4 DEF v

\* EndpointReady says True of the generation that was accepted whole, and of
\* no other.
LEMMA ReadyType ==
  ASSUME NEW refs \in Refs, NEW v \in Verdict
  PROVE  LET r == EndpointReady(refs, v)
         IN /\ r \in Ready
            /\ r.status = "True" => r.gen = v.gen /\ v.gen # 0 /\ Whole(v)
<1> DEFINE R(status, reason) == [gen |-> refs.gen, status |-> status, reason |-> reason]
<1>0. /\ refs.gen \in Times /\ refs.reason \in {"RefsResolved", "GatewayNotFound", "PolicyNotFound"}
      /\ v.reason \in Reasons
  BY DEF Refs, Verdict
<1>1. /\ R("Unknown", "Pending") \in Ready
      /\ refs.reason # "RefsResolved" => R("False", refs.reason) \in Ready
      /\ R("False", v.reason) \in Ready
      /\ v.reason \in {"Accepted", "SchemaNameConflict"}
           => R("True", IF v.reason = "Accepted" THEN "Ready" ELSE v.reason) \in Ready
  BY <1>0 DEF Ready, Reasons
<1>2. /\ R("Unknown", "Pending").status # "True" /\ R("False", refs.reason).status # "True"
      /\ R("False", v.reason).status # "True"
      /\ R("True", IF v.reason = "Accepted" THEN "Ready" ELSE v.reason).gen = refs.gen
  OBVIOUS
<1> HIDE DEF R
<1>3. EndpointReady(refs, v) =
        IF refs.gen = 0 \/ (refs.reason = "RefsResolved" /\ v.gen # refs.gen) THEN R("Unknown", "Pending")
        ELSE IF refs.reason # "RefsResolved" THEN R("False", refs.reason)
        ELSE IF v.ok /\ v.reason \in {"Accepted", "SchemaNameConflict"}
          THEN R("True", IF v.reason = "Accepted" THEN "Ready" ELSE v.reason)
        ELSE R("False", v.reason)
  BY DEF EndpointReady, R
<1>4. QED
  BY <1>1, <1>2, <1>3 DEF Whole

LEMMA ApplyStatusType ==
  ASSUME NEW e \in Endpoint, NEW refs \in Refs
  PROVE  LET f == ApplyEndpointStatus(e, refs)
         IN /\ f \in Endpoint /\ f.uid = e.uid /\ f.gen = e.gen /\ f.pol = e.pol
            /\ f.accepted = e.accepted /\ f.conflicts = e.conflicts
            /\ f.ready = EndpointReady(refs, e.accepted)
<1>1. e.accepted \in Verdict
  BY DEF Endpoint
<1>2. EndpointReady(refs, e.accepted) \in Ready
  BY <1>1, ReadyType
<1>3. QED
  BY <1>2 DEF ApplyEndpointStatus, Endpoint

-----------------------------------------------------------------------------
(* Types.                                                                  *)

LEMMA TypesInit == Init => StatusTypes
<1> SUFFICES ASSUME Init PROVE StatusTypes
  OBVIOUS
<1>1. 1 \in Times /\ Fresh = 2
  BY StatusAssumption DEF Init, Fresh, Times
<1>p. PICK u \in BOOLEAN :
       /\ ep = NewEndpoint(1, u)
       /\ pol = [NewPolicy(1, TRUE) EXCEPT !.protected = TRUE, !.ready = "True",
                                           !.referencedBy = IF u THEN 1 ELSE 0]
  BY DEF Init
<1>2. ep \in Endpoint /\ ep.gen < 2 /\ gw \in Gateway
  <2>1. \A b \in BOOLEAN : NewEndpoint(1, b) \in Endpoint /\ NewEndpoint(1, b).gen \in 0..1
    BY <1>1, NewObjects
  <2>2. NewGateway(1) \in Gateway
    BY <1>1, NewObjects
  <2>3. QED
    BY <1>p, <2>1, <2>2 DEF Init
<1>3. pol \in Policy /\ pol.gen < 2 /\ pol.uid < 2
  <2>1. NewPolicy(1, TRUE) \in Policy /\ NewPolicy(1, TRUE).uid = 1 /\ NewPolicy(1, TRUE).gen \in 0..1
    BY <1>1, NewObjects
  <2> DEFINE n == IF u THEN 1 ELSE 0
             new == NewPolicy(1, TRUE)
  <2>2. n \in 0..1
    OBVIOUS
  <2>3. pol = [new EXCEPT !.protected = TRUE, !.ready = "True", !.referencedBy = n]
    BY <1>p
  <2> HIDE DEF n, new
  <2>4. new \in Policy /\ new.uid = 1 /\ new.gen \in 0..1
    BY <2>1 DEF new
  <2>5. pol \in Policy
    BY <2>2, <2>3, <2>4 DEF Policy
  <2>6. pol.uid = new.uid /\ pol.gen = new.gen
    BY <2>3, <2>4 DEF Policy
  <2>7. QED
    BY <2>4, <2>5, <2>6
<1>4. env \in [render : Renders, changes : 0..MaxChanges]
  BY StatusAssumption DEF Init
<1>5. /\ epCache = ep /\ gwCache = gw /\ polCache = pol /\ queued = Controllers /\ included = {}
      /\ gwPass = IdleGateway /\ epPass = IdleEndpoint /\ polPass = IdlePolicy
  BY DEF Init
<1>6. QED
  BY <1>1, <1>2, <1>3, <1>4, <1>5, IdleTypes DEF StatusTypes, TypeOK, Bounded

\* The next uid is a time, and it is a new one.
LEMMA FreshTypes ==
  ASSUME TypeOK
  PROVE  /\ Fresh \in Nat /\ Fresh > 1
         /\ env.changes > 0 => Fresh \in Times /\ Fresh \in Nat \ {0}
         /\ env.changes > 0 /\ OneChange
              => Fresh' = Fresh + 1 /\ env' \in [render : Renders, changes : 0..MaxChanges]
  BY StatusAssumption DEF TypeOK, Fresh, Times, OneChange

LEMMA GatewayTypes == StatusTypes /\ GatewayStep => StatusTypes'
<1> SUFFICES ASSUME StatusTypes, GatewayStep PROVE StatusTypes'
  OBVIOUS
<1> USE DEF StatusTypes
<1>t. /\ ep \in Endpoint /\ epCache \in Endpoint /\ gw \in Gateway /\ gwCache \in Gateway
      /\ gwPass \in GatewayPass /\ gwPass.base \in Endpoint /\ gwPass.gw \in Gateway
      /\ gwPass.a \in Acceptance /\ gwPass.missing \in BOOLEAN /\ gwPass.render \in Renders
      /\ gwPass.tries \in 0..MaxTries /\ gwPass.failed \in BOOLEAN /\ gwPass.excluded \in BOOLEAN
      /\ env.render \in Renders /\ queued \subseteq Controllers
  BY DEF TypeOK, GatewayPass
<1>1. CASE GatewayRead
  <2> DEFINE m == UsesPolicy(epCache) /\ ~Here(polCache)
             f == env.render.mode = "unavailable"
             at == IF env.render.mode = "serves" THEN "record" ELSE "decide"
  <2>1. m \in BOOLEAN /\ f \in BOOLEAN /\ at \in {"record", "decide"}
    OBVIOUS
  <2>2. gwPass' = IF Here(gwCache)
                    THEN [IdleGateway EXCEPT !.at = at, !.base = epCache, !.gw = gwCache, !.missing = m,
                                             !.render = env.render, !.failed = f]
                    ELSE IdleGateway
    BY <1>1 DEF GatewayRead
  <2> HIDE DEF m, f, at
  <2>3. IdleGateway.tries = 0
    BY DEF IdleGateway
  <2>4. gwPass' \in GatewayPass /\ gwPass'.tries = 0 /\ gwPass'.at # "get"
    BY <2>1, <2>2, <2>3, <1>t, IdleTypes DEF GatewayPass
  <2>5. QED
    BY <2>4, <1>1, StatusAssumption DEF GatewayRead, TypeOK, Bounded, Fresh
<1>2. CASE RecordApplied
  <2> DEFINE a == EndpointAccepted(gwPass.base, gwPass.render, gwPass.missing)
             p == [gwPass EXCEPT !.gw = gw']
  <2>1. gw' \in Gateway
    BY <1>2, <1>t DEF RecordApplied, Gateway
  <2>2. p \in GatewayPass /\ p.tries = gwPass.tries
    BY <2>1, <1>t DEF GatewayPass
  <2>3. a \in Acceptance
    BY <1>t, AcceptedType
  <2>4. gwPass' = Decided(p, Here(gwPass.base), a)
    BY <1>2 DEF RecordApplied
  <2>5. Here(gwPass.base) \in BOOLEAN
    BY DEF Here
  <2> HIDE DEF a, p
  <2>6. gwPass' \in GatewayPass /\ gwPass'.tries = gwPass.tries /\ gwPass'.at \in {"get", "finish"}
    BY <2>2, <2>3, <2>4, <2>5, DecidedType
  <2>7. gwPass.base.uid \in Times /\ gwPass.base.gen \in Times
    BY <1>t DEF Endpoint
  <2>8. included' \subseteq Times \X Times
    BY <2>7, <1>2 DEF RecordApplied, TypeOK
  <2>9. QED
    BY <2>1, <2>6, <2>8, <1>2, StatusAssumption DEF RecordApplied, TypeOK, Bounded, Fresh
<1>3. CASE RecordFails
  <2>1. gwPass' \in GatewayPass /\ gwPass'.tries = gwPass.tries /\ gwPass'.at = "decide"
    BY <1>3, <1>t DEF RecordFails, GatewayPass
  <2>2. QED
    BY <2>1, <1>3 DEF RecordFails, TypeOK, Bounded, Fresh
<1>4. CASE DecideUnserved
  <2> DEFINE x == RecordExclusions(gwPass.base, gwPass.render, gwPass.missing, NeverApplied)
             d == Here(gwPass.base) /\ x.decides
  <2>1. NeverApplied \in BOOLEAN
    BY DEF NeverApplied
  <2>2. x.a \in Acceptance
    BY <2>1, <1>t, ExclusionsType
  <2>3. gwPass' = Decided(gwPass, d, x.a)
    BY <1>4 DEF DecideUnserved
  <2> HIDE DEF x, d
  <2>4. gwPass' \in GatewayPass /\ gwPass'.tries = gwPass.tries /\ gwPass'.at \in {"get", "finish"}
    BY <1>t, <2>2, <2>3, DecidedType
  <2>5. QED
    BY <2>4, <1>4, StatusAssumption DEF DecideUnserved, TypeOK, Bounded, Fresh
<1>5. CASE GetEndpoint
  <2>1. gwPass.tries + 1 \in 0..MaxTries
    BY <1>5, <1>t, StatusAssumption DEF GetEndpoint, Bounded
  <2>2. PICK at \in {"finish", "patch"} : gwPass' = [gwPass EXCEPT !.at = at, !.base = epCache, !.tries = @ + 1]
    BY <1>5 DEF GetEndpoint
  <2>3. gwPass' \in GatewayPass /\ gwPass'.at = at
    BY <2>1, <2>2, <1>t DEF GatewayPass
  <2>4. QED
    BY <2>3, <1>5 DEF GetEndpoint, TypeOK, Bounded, Fresh
<1>6. CASE PatchAccepted
  <2>1. ep' \in Endpoint /\ ep'.gen = ep.gen
    BY <1>6, <1>t, WithVerdictType DEF PatchAccepted, PatchApplies
  <2>2. gwPass' \in GatewayPass /\ gwPass'.at = "finish"
    BY <1>6, <1>t DEF PatchAccepted, GatewayPass
  <2>3. QED
    BY <2>1, <2>2, <1>6 DEF PatchAccepted, TypeOK, Bounded, Fresh
<1>7. CASE PatchAcceptedConflicts
  <2>1. (gwPass.failed \/ (Here(ep) /\ gwPass.tries = MaxTries)) \in BOOLEAN
    OBVIOUS
  <2>2. PICK at \in {"get", "finish"} :
          /\ gwPass' = [gwPass EXCEPT !.at = at, !.failed = @ \/ (Here(ep) /\ gwPass.tries = MaxTries)]
          /\ at = "get" => gwPass.tries < MaxTries
    BY <1>7 DEF PatchAcceptedConflicts
  <2>3. gwPass' \in GatewayPass /\ gwPass'.at = at /\ gwPass'.tries = gwPass.tries
    BY <2>1, <2>2, <1>t DEF GatewayPass
  <2>4. QED
    BY <2>2, <2>3, <1>7 DEF PatchAcceptedConflicts, TypeOK, Bounded, Fresh
<1>8. CASE AcceptanceFails
  <2>1. gwPass' \in GatewayPass /\ gwPass'.at = "finish"
    BY <1>8, <1>t DEF AcceptanceFails, GatewayPass
  <2>2. Fresh' = Fresh + 1 /\ env' \in [render : Renders, changes : 0..MaxChanges] /\ Fresh \in Nat
    BY <1>8, FreshTypes DEF AcceptanceFails, Change, TypeOK
  <2>3. QED
    BY <2>1, <2>2, <1>8, StatusAssumption DEF AcceptanceFails, TypeOK, Bounded, Endpoint, Policy, PolicyPass, Times
<1>9. CASE FinishGateway
  <2> DEFINE g == [gwPass.gw EXCEPT !.mode = gwPass.render.mode, !.excluded = gwPass.excluded]
  <2>1. gwPass.render.mode \in Modes
    BY <1>t, StatusAssumption DEF Render
  <2>2. g \in Gateway
    BY <2>1, <1>t DEF Gateway
  <2>3. gw' \in {gw, g}
    BY <1>9 DEF FinishGateway
  <2> HIDE DEF g
  <2>4. queued' \subseteq Controllers /\ gwPass' = IdleGateway
    BY <1>9, <1>t DEF FinishGateway, Controllers
  <2>5. QED
    BY <2>2, <2>3, <2>4, <1>9, <1>t, IdleTypes DEF FinishGateway, TypeOK, Bounded, Fresh
<1>10. QED
  BY <1>1, <1>2, <1>3, <1>4, <1>5, <1>6, <1>7, <1>8, <1>9 DEF GatewayStep

LEMMA EndpointTypes == StatusTypes /\ EndpointStep => StatusTypes'
<1> SUFFICES ASSUME StatusTypes, EndpointStep PROVE StatusTypes'
  OBVIOUS
<1> USE DEF StatusTypes
<1>t. /\ ep \in Endpoint /\ epCache \in Endpoint /\ epCache.gen \in Times
      /\ epPass \in EndpointPass /\ epPass.base \in Endpoint /\ epPass.refs \in Refs
      /\ queued \subseteq Controllers /\ queued \cup {"endpoint"} \subseteq Controllers
  BY DEF TypeOK, EndpointPass, Controllers, Endpoint
<1>1. CASE EndpointRead
  <2>1. ResolveRefs(epCache) \in Refs
    BY <1>t DEF ResolveRefs, Refs
  <2>2. epPass' \in {[at |-> "patch", base |-> epCache, refs |-> ResolveRefs(epCache)], IdleEndpoint}
    BY <1>1 DEF EndpointRead
  <2>3. epPass' \in EndpointPass
    BY <2>1, <2>2, <1>t, IdleTypes DEF EndpointPass
  <2>4. QED
    BY <2>3, <1>1 DEF EndpointRead, TypeOK, Bounded, Fresh
<1>2. CASE PatchReady
  <2>1. ep' \in Endpoint /\ ep'.gen = ep.gen
    BY <1>2, <1>t, ApplyStatusType DEF PatchReady, PatchApplies
  <2>2. QED
    BY <2>1, <1>2, IdleTypes DEF PatchReady, TypeOK, Bounded, Fresh
<1>3. CASE PatchReadyConflicts
  BY <1>3, <1>t, IdleTypes DEF PatchReadyConflicts, TypeOK, Bounded, Fresh
<1>4. CASE EndpointFails
  <2>1. Fresh' = Fresh + 1 /\ env' \in [render : Renders, changes : 0..MaxChanges] /\ Fresh \in Nat
    BY <1>4, FreshTypes DEF EndpointFails, Change, TypeOK
  <2>2. QED
    BY <2>1, <1>4, <1>t, IdleTypes, StatusAssumption
       DEF EndpointFails, TypeOK, Bounded, Endpoint, Policy, PolicyPass, Times
<1>5. QED
  BY <1>1, <1>2, <1>3, <1>4 DEF EndpointStep

LEMMA PolicyStatusType ==
  ASSUME NEW p \in Policy, NEW n \in 0..1
  PROVE  LET q == PolicyStatus(p, n)
         IN q \in Policy /\ q.uid = p.uid /\ q.gen = p.gen /\ q.deleting = p.deleting
  BY DEF PolicyStatus, PolicyReady, Policy

\* What a pass of the policy controller starts with.
LEMMA PolicyReads ==
  ASSUME TypeOK, PolicyRead
  PROVE  /\ polPass' \in PolicyPass
         /\ \/ polPass' = IdlePolicy
            \/ polPass'.pol = polCache /\ polPass'.at # "release" /\ (polPass'.at = "confirm" => polCache.deleting)
<1> DEFINE count == IF UsesPolicy(epCache) THEN 1 ELSE 0
           next == IF ~polCache.deleting /\ ~polCache.protected THEN "protect"
                   ELSE IF polCache.deleting /\ count = 0 THEN "confirm" ELSE "status"
<1>1. polPass' \in {[at |-> next, pol |-> polCache, count |-> count], IdlePolicy}
  BY DEF PolicyRead
<1>2. count \in 0..1 /\ next \in {"protect", "confirm", "status"} /\ (next = "confirm" => polCache.deleting)
  OBVIOUS
<1>3. polCache \in Policy
  BY DEF TypeOK
<1> HIDE DEF count, next
<1>4. QED
  BY <1>1, <1>2, <1>3, IdleTypes DEF PolicyPass

LEMMA PolicyTypes == StatusTypes /\ PolicyStep => StatusTypes'
<1> SUFFICES ASSUME StatusTypes, PolicyStep PROVE StatusTypes'
  OBVIOUS
<1> USE DEF StatusTypes
<1>t. /\ pol \in Policy /\ polCache \in Policy /\ queued \subseteq Controllers
      /\ polPass \in PolicyPass /\ polPass.pol \in Policy /\ polPass.count \in 0..1
      /\ queued \cup {"policy"} \subseteq Controllers
      /\ Fresh \in Nat /\ Fresh > 1
  BY FreshTypes DEF TypeOK, PolicyPass, Controllers
<1>1. CASE PolicyRead
  <2>1. polPass' \in PolicyPass /\ (polPass' = IdlePolicy \/ polPass'.pol = polCache)
    BY <1>1, PolicyReads
  <2>2. QED
    BY <2>1, <1>1, <1>t, IdleTypes DEF PolicyRead, TypeOK, Bounded, Fresh
<1>2. CASE Protect
  <2>1. pol' \in Policy /\ pol'.uid = pol.uid /\ pol'.gen = pol.gen
    BY <1>2, <1>t DEF Protect, Policy
  <2>2. polPass' \in PolicyPass /\ polPass'.pol = pol'
    BY <2>1, <1>2, <1>t DEF Protect, PolicyPass
  <2>3. QED
    BY <2>1, <2>2, <1>2 DEF Protect, TypeOK, Bounded, Fresh
<1>3. CASE Confirm
  <2>1. polPass' \in PolicyPass /\ polPass'.pol = polPass.pol
    BY <1>3, <1>t DEF Confirm, PolicyPass
  <2>2. QED
    BY <2>1, <1>3 DEF Confirm, TypeOK, Bounded, Fresh
<1>4. CASE Release
  BY <1>4, <1>t, IdleTypes DEF Release, TypeOK, Bounded, Fresh
<1>5. CASE UpdatePolicy
  <2>1. pol' \in Policy /\ pol'.uid = pol.uid /\ pol'.gen = pol.gen
    BY <1>5, <1>t, PolicyStatusType DEF UpdatePolicy, Unchanged
  <2>2. queued' \subseteq Controllers
    BY <1>5, <1>t DEF UpdatePolicy
  <2>3. QED
    BY <2>1, <2>2, <1>5, <1>t, IdleTypes DEF UpdatePolicy, TypeOK, Bounded, Fresh
<1>6. CASE PolicyFails
  <2>1. /\ env' \in [render : Renders, changes : 0..MaxChanges]
        /\ Fresh' = Fresh \/ Fresh' = Fresh + 1
    BY <1>6, FreshTypes DEF PolicyFails, Change, TypeOK, Fresh
  <2>2. QED
    BY <2>1, <1>6, <1>t, IdleTypes, StatusAssumption DEF PolicyFails, TypeOK, Bounded, Endpoint, Policy, Times
<1>7. QED
  BY <1>1, <1>2, <1>3, <1>4, <1>5, <1>6 DEF PolicyStep

LEMMA DeliverTypes == StatusTypes /\ Deliver => StatusTypes'
<1> SUFFICES ASSUME StatusTypes, Deliver PROVE StatusTypes'
  OBVIOUS
<1>1. queued' \subseteq Controllers
  <2>1. queued' \subseteq queued \cup {"endpoint", "gateway", "policy"}
    BY DEF Deliver, DeliverEndpoint, DeliverGateway, DeliverPolicy
  <2>2. QED
    BY <2>1 DEF StatusTypes, TypeOK, Controllers
<1>2. QED
  BY <1>1 DEF StatusTypes, TypeOK, Bounded, Fresh, Deliver, DeliverEndpoint, DeliverGateway, DeliverPolicy

LEMMA CrashTypes == StatusTypes /\ Crash => StatusTypes'
<1> SUFFICES ASSUME StatusTypes, Crash PROVE StatusTypes'
  OBVIOUS
<1>1. Fresh' = Fresh + 1 /\ env' \in [render : Renders, changes : 0..MaxChanges] /\ Fresh \in Nat /\ Fresh > 1
  BY FreshTypes DEF Crash, Change, TypeOK, StatusTypes
<1>2. QED
  BY <1>1, IdleTypes, StatusAssumption DEF StatusTypes, TypeOK, Bounded, Crash, Endpoint, Policy, Times

LEMMA UserTypes == StatusTypes /\ User => StatusTypes'
<1> SUFFICES ASSUME StatusTypes, User PROVE StatusTypes'
  OBVIOUS
<1>t. ep \in Endpoint /\ gw \in Gateway /\ pol \in Policy /\ TypeOK
  BY DEF StatusTypes, TypeOK
<1>n. /\ ep.gen \in Nat /\ pol.gen \in Nat /\ pol.uid \in Nat /\ polCache.uid \in Nat
      /\ polPass.pol.uid \in Nat
  BY StatusAssumption DEF StatusTypes, TypeOK, Endpoint, Policy, PolicyPass, Times
<1>f. /\ Fresh \in Nat /\ Fresh > 1
      /\ env.changes > 0 => Fresh \in Times
      /\ env.changes > 0 /\ OneChange
           => Fresh' = Fresh + 1 /\ env' \in [render : Renders, changes : 0..MaxChanges]
  BY FreshTypes DEF StatusTypes
<1>1. ASSUME NEW u \in BOOLEAN, CreateEndpoint(u) PROVE StatusTypes'
  <2>1. ep' \in Endpoint /\ ep'.gen \in 0..1
    <3>1. \A b \in BOOLEAN : NewEndpoint(Fresh, b) \in Endpoint /\ NewEndpoint(Fresh, b).gen \in 0..1
      BY <1>1, <1>f, NewObjects DEF CreateEndpoint, Change
    <3>2. QED
      BY <1>1, <3>1 DEF CreateEndpoint
  <2>2. QED
    BY <2>1, <1>1, <1>f, <1>n DEF CreateEndpoint, Change, StatusTypes, TypeOK, Bounded
<1>2. ASSUME NEW u \in BOOLEAN, EditEndpoint(u) PROVE StatusTypes'
  <2>1. ep.gen + 1 \in Times
    BY <1>2, <1>f, <1>n, StatusAssumption DEF EditEndpoint, Change, StatusTypes, Bounded, Times
  <2>2. ep' \in Endpoint /\ ep'.gen = ep.gen + 1
    BY <2>1, <1>2, <1>t DEF EditEndpoint, Endpoint
  <2>3. QED
    BY <2>2, <1>2, <1>f, <1>n DEF EditEndpoint, Change, StatusTypes, TypeOK, Bounded
<1>3. CASE DeleteEndpoint
  BY <1>3, <1>f, <1>n, IdleTypes DEF DeleteEndpoint, Change, StatusTypes, TypeOK, Bounded
<1>4. CASE ReplaceGateway
  <2>1. NewGateway(0) \in Gateway /\ NewGateway(Fresh) \in Gateway
    <3>1. 0 \in Times /\ Fresh \in Times
      BY <1>4, <1>f, StatusAssumption DEF ReplaceGateway, Change, Times
    <3>2. QED
      BY <3>1, NewObjects
  <2>2. QED
    BY <2>1, <1>4, <1>f, <1>n DEF ReplaceGateway, Change, StatusTypes, TypeOK, Bounded
<1>5. CASE DeletePolicy
  <2>1. pol.gen + 1 \in Times
    BY <1>5, <1>f, <1>n, StatusAssumption DEF DeletePolicy, Change, StatusTypes, Bounded, Times
  <2>2. CASE pol.protected
    <3>1. pol' \in Policy /\ pol'.gen = pol.gen + 1 /\ pol'.uid = pol.uid
      BY <2>1, <2>2, <1>5, <1>t DEF DeletePolicy, Policy
    <3>2. QED
      BY <3>1, <1>5, <1>f, <1>n DEF DeletePolicy, Change, StatusTypes, TypeOK, Bounded
  <2>3. CASE ~pol.protected
    <3>1. pol' = NoPolicy
      BY <2>3, <1>5 DEF DeletePolicy
    <3>2. QED
      BY <3>1, <1>5, <1>f, <1>n, IdleTypes DEF DeletePolicy, Change, StatusTypes, TypeOK, Bounded
  <2>4. QED
    BY <2>2, <2>3
<1>6. CASE CreatePolicy
  <2>1. \A b \in BOOLEAN : /\ NewPolicy(Fresh, b) \in Policy /\ NewPolicy(Fresh, b).gen \in 0..1
                           /\ NewPolicy(Fresh, b).uid = Fresh
    BY <1>6, <1>f, NewObjects DEF CreatePolicy, Change
  <2>2. pol' \in Policy /\ pol'.gen \in 0..1 /\ pol'.uid = Fresh
    BY <2>1, <1>6 DEF CreatePolicy
  <2>3. QED
    BY <2>2, <1>6, <1>f, <1>n DEF CreatePolicy, Change, StatusTypes, TypeOK, Bounded
<1>7. ASSUME NEW r \in Renders, ChangeRender(r) PROVE StatusTypes'
  <2>1. env' \in [render : Renders, changes : 0..MaxChanges] /\ Fresh' = Fresh + 1
    <3>1. env \in [render : Renders, changes : 0..MaxChanges] /\ env.changes > 0 /\ env.changes \in 0..MaxChanges
      BY <1>7 DEF ChangeRender, Change, StatusTypes, TypeOK
    <3>2. env.changes - 1 \in 0..MaxChanges
      BY <3>1, StatusAssumption
    <3>3. env' = [env EXCEPT !.render = r, !.changes = env.changes - 1]
      BY <1>7, <3>1 DEF ChangeRender
    <3>4. env' \in [render : Renders, changes : 0..MaxChanges] /\ env'.changes = env.changes - 1
      BY <3>1, <3>2, <3>3
    <3>5. QED
      BY <3>1, <3>4, StatusAssumption DEF Fresh
  <2>2. queued' \subseteq Controllers
    BY <1>7 DEF ChangeRender, StatusTypes, TypeOK, Controllers
  <2>3. QED
    BY <2>1, <2>2, <1>7, <1>f, <1>n DEF ChangeRender, StatusTypes, TypeOK, Bounded
<1>8. QED
  BY <1>1, <1>2, <1>3, <1>4, <1>5, <1>6, <1>7 DEF User

\* Every variable keeps its type: no generation, uid or attempt passes its
\* bound, whatever the three controllers and the users do.
THEOREM StatusTypesHold == Spec => []StatusTypes
<1>1. StatusTypes /\ [Next]_vars => StatusTypes'
  <2> SUFFICES ASSUME StatusTypes, [Next]_vars PROVE StatusTypes'
    OBVIOUS
  <2>1. CASE Next
    BY <2>1, GatewayTypes, EndpointTypes, PolicyTypes, DeliverTypes, CrashTypes, UserTypes DEF Next
  <2>2. CASE UNCHANGED vars
    BY <2>2 DEF vars, StatusTypes, TypeOK, Bounded, Fresh
  <2>3. QED
    BY <2>1, <2>2
<1>2. QED
  BY <1>1, TypesInit, PTL DEF Spec

-----------------------------------------------------------------------------
(* Ready=True is earned.                                                   *)

LEMMA EarnedInit == Init => Earned
<1> SUFFICES ASSUME Init PROVE Earned
  OBVIOUS
<1>1. 1 \in Times
  BY StatusAssumption DEF Times
<1>2. \A b \in BOOLEAN : NewEndpoint(1, b).accepted.gen = 0 /\ NewEndpoint(1, b).ready.status = "Unknown"
  BY <1>1, NewObjects
<1>3. ep.accepted.gen = 0 /\ ep.ready.status = "Unknown" /\ gwPass.at = "idle"
  BY <1>2, IdleTypes DEF Init
<1>4. QED
  BY <1>3 DEF Earned

\* Steps that leave the endpoint alone, forget nothing that was included, and
\* decide on no verdict.
LEMMA EarnedKept ==
  ASSUME Earned, ep' = ep, included \subseteq included',
         gwPass' = gwPass \/ gwPass'.at \notin {"get", "patch"}
  PROVE  Earned'
  BY DEF Earned, Here, Whole

LEMMA EarnedGateway == StatusTypes /\ Earned /\ GatewayStep => Earned'
<1> SUFFICES ASSUME StatusTypes, Earned, GatewayStep PROVE Earned'
  OBVIOUS
<1>t. /\ ep \in Endpoint /\ epCache \in Endpoint
      /\ gwPass \in GatewayPass /\ gwPass.base \in Endpoint
      /\ gwPass.a \in Acceptance /\ gwPass.missing \in BOOLEAN /\ gwPass.render \in Renders
      /\ gw \in Gateway
  BY DEF StatusTypes, TypeOK, GatewayPass
<1>1. CASE GatewayRead
  <2>1. IdleGateway \in GatewayPass /\ IdleGateway.at = "idle"
    BY IdleTypes
  <2>2. gwPass'.at \notin {"get", "patch"}
    BY <2>1, <1>1 DEF GatewayRead, GatewayPass
  <2>3. QED
    BY <2>2, <1>1, EarnedKept DEF GatewayRead
<1>2. CASE RecordApplied
  <2> DEFINE a == EndpointAccepted(gwPass.base, gwPass.render, gwPass.missing)
             p == [gwPass EXCEPT !.gw = gw']
  <2>1. gw' \in Gateway
    BY <1>2, <1>t DEF RecordApplied, Gateway
  <2>2. p \in GatewayPass /\ p.base = gwPass.base
    BY <2>1, <1>t DEF GatewayPass
  <2>3. a \in Acceptance /\ (a.set => a.verdict.gen = gwPass.base.gen)
    BY <1>t, AcceptedType
  <2>4. /\ gwPass' = Decided(p, Here(gwPass.base), a)
        /\ included' = IF Here(gwPass.base) /\ a.set /\ a.verdict.ok
                         THEN included \cup {<<gwPass.base.uid, gwPass.base.gen>>} ELSE included
        /\ ep' = ep
    BY <1>2 DEF RecordApplied
  <2> HIDE DEF a, p
  <2>5. gwPass'.base = gwPass.base /\ gwPass'.a = a
    BY <2>2, <2>3, <2>4, DecidedType
  <2>6. QED
    BY <2>3, <2>4, <2>5 DEF Earned, Here, Whole
<1>3. CASE RecordFails
  <2>1. gwPass'.at = "decide"
    BY <1>3, <1>t DEF RecordFails, GatewayPass
  <2>2. QED
    BY <2>1, <1>3, EarnedKept DEF RecordFails
<1>4. CASE DecideUnserved
  <2> DEFINE x == RecordExclusions(gwPass.base, gwPass.render, gwPass.missing, NeverApplied)
             d == Here(gwPass.base) /\ x.decides
  <2>1. NeverApplied \in BOOLEAN
    BY DEF NeverApplied
  <2>2. x.a \in Acceptance /\ (x.a.set => ~x.a.verdict.ok)
    BY <2>1, <1>t, ExclusionsType
  <2>3. gwPass' = Decided(gwPass, d, x.a)
    BY <1>4 DEF DecideUnserved
  <2> HIDE DEF x, d
  <2>4. gwPass'.a = x.a
    BY <1>t, <2>2, <2>3, DecidedType
  <2>5. QED
    BY <2>2, <2>4, <1>4 DEF DecideUnserved, Earned, Here, Whole
<1>5. CASE GetEndpoint
  <2>1. PICK at \in {"finish", "patch"} :
          /\ gwPass' = [gwPass EXCEPT !.at = at, !.base = epCache, !.tries = @ + 1]
          /\ at = "patch" => epCache.uid = gwPass.base.uid
    BY <1>5 DEF GetEndpoint
  <2>2. gwPass'.at = at /\ gwPass'.base = epCache /\ gwPass'.a = gwPass.a
    BY <2>1, <1>t DEF GatewayPass
  <2>3. QED
    BY <2>1, <2>2, <1>5 DEF GetEndpoint, Earned, Here, Whole
<1>6. CASE PatchAccepted
  <2>1. /\ ep'.uid = ep.uid /\ ep'.ready = ep.ready
        /\ ep'.accepted = (IF gwPass.a.set THEN gwPass.a.verdict ELSE NoVerdict)
    BY <1>6, <1>t, WithVerdictType DEF PatchAccepted, PatchApplies
  <2>2. gwPass'.at = "finish" /\ gwPass.base = ep /\ gwPass.at = "patch" /\ included' = included
    BY <1>6, <1>t DEF PatchAccepted, PatchApplies, GatewayPass
  <2>3. QED
    BY <2>1, <2>2, NothingType DEF Earned, Here, Whole
<1>7. CASE PatchAcceptedConflicts
  <2>1. PICK at, f : gwPass' = [gwPass EXCEPT !.at = at, !.failed = f]
    BY <1>7 DEF PatchAcceptedConflicts
  <2>2. gwPass'.base = gwPass.base /\ gwPass'.a = gwPass.a
    BY <2>1, <1>t DEF GatewayPass
  <2>3. QED
    BY <2>2, <1>7 DEF PatchAcceptedConflicts, Earned, Here, Whole
<1>8. CASE AcceptanceFails
  <2>1. gwPass'.at = "finish"
    BY <1>8, <1>t DEF AcceptanceFails, GatewayPass
  <2>2. QED
    BY <2>1, <1>8, EarnedKept DEF AcceptanceFails
<1>9. CASE FinishGateway
  BY <1>9, IdleTypes, EarnedKept DEF FinishGateway
<1>10. QED
  BY <1>1, <1>2, <1>3, <1>4, <1>5, <1>6, <1>7, <1>8, <1>9 DEF GatewayStep

LEMMA EarnedEndpoint == StatusTypes /\ Earned /\ EndpointStep => Earned'
<1> SUFFICES ASSUME StatusTypes, Earned, EndpointStep PROVE Earned'
  OBVIOUS
<1>1. CASE PatchReady
  <2>1. /\ ep \in Endpoint /\ epPass.refs \in Refs /\ epPass.base = ep
        /\ ep' = ApplyEndpointStatus(ep, epPass.refs) /\ ep.accepted \in Verdict
    BY <1>1 DEF PatchReady, PatchApplies, StatusTypes, TypeOK, EndpointPass, Endpoint
  <2>2. ep'.uid = ep.uid /\ ep'.accepted = ep.accepted /\ ep'.ready = EndpointReady(epPass.refs, ep.accepted)
    BY <2>1, ApplyStatusType
  <2>3. ep'.ready.status = "True" => ep'.ready.gen = ep.accepted.gen /\ ep.accepted.gen # 0 /\ Whole(ep.accepted)
    BY <2>1, <2>2, ReadyType
  <2>4. gwPass' = gwPass /\ included' = included
    BY <1>1 DEF PatchReady
  <2>5. QED
    BY <2>2, <2>3, <2>4 DEF Earned, Here, Whole
<1>2. CASE EndpointRead \/ PatchReadyConflicts \/ EndpointFails
  BY <1>2, EarnedKept DEF EndpointRead, PatchReadyConflicts, EndpointFails
<1>3. QED
  BY <1>1, <1>2 DEF EndpointStep

LEMMA EarnedUser == StatusTypes /\ Earned /\ User => Earned'
<1> SUFFICES ASSUME StatusTypes, Earned, User PROVE Earned'
  OBVIOUS
<1>1. ASSUME NEW u \in BOOLEAN, CreateEndpoint(u) PROVE Earned'
  <2>1. Fresh \in Times
    BY <1>1, FreshTypes DEF CreateEndpoint, Change, StatusTypes
  <2>2. \A b \in BOOLEAN : NewEndpoint(Fresh, b).accepted.gen = 0 /\ NewEndpoint(Fresh, b).ready.status = "Unknown"
    BY <2>1, NewObjects
  <2>3. ep'.accepted.gen = 0 /\ ep'.ready.status = "Unknown" /\ gwPass' = gwPass /\ included' = included
    BY <2>2, <1>1 DEF CreateEndpoint
  <2>4. QED
    BY <2>3 DEF Earned, Here, Whole
<1>2. ASSUME NEW u \in BOOLEAN, EditEndpoint(u) PROVE Earned'
  <2>1. ep'.accepted = ep.accepted /\ ep'.ready = ep.ready /\ ep'.uid = ep.uid
    BY <1>2 DEF EditEndpoint, StatusTypes, TypeOK, Endpoint
  <2>2. QED
    BY <2>1, <1>2 DEF EditEndpoint, Earned, Here, Whole
<1>3. CASE DeleteEndpoint
  BY <1>3, IdleTypes DEF DeleteEndpoint, Earned, Here, Whole
<1>4. CASE ReplaceGateway \/ DeletePolicy \/ CreatePolicy \/ \E r \in Renders : ChangeRender(r)
  BY <1>4, EarnedKept DEF ReplaceGateway, DeletePolicy, CreatePolicy, ChangeRender
<1>5. QED
  BY <1>1, <1>2, <1>3, <1>4 DEF User

\* Ready=True on a stored endpoint names a generation that some gateway pass
\* rendered whole and applied (EndpointReady, writeEndpointAccepted): the
\* verdict a pass carries was earned by the object it was computed from, it is
\* written to no other object, and Ready is derived only from a verdict on the
\* same generation.
THEOREM ReadyWasIncludedHolds == Spec => []ReadyWasIncluded
<1>1. StatusTypes /\ Earned /\ [Next]_vars => Earned'
  <2> SUFFICES ASSUME StatusTypes, Earned, [Next]_vars PROVE Earned'
    OBVIOUS
  <2>1. CASE PolicyStep
    BY <2>1, EarnedKept DEF PolicyStep, PolicyRead, Protect, Confirm, Release, UpdatePolicy, PolicyFails
  <2>2. CASE Deliver
    BY <2>2, EarnedKept DEF Deliver, DeliverEndpoint, DeliverGateway, DeliverPolicy
  <2>3. CASE Crash
    BY <2>3, EarnedKept, IdleTypes DEF Crash
  <2>4. CASE UNCHANGED vars
    BY <2>4, EarnedKept DEF vars
  <2>5. QED
    BY <2>1, <2>2, <2>3, <2>4, EarnedGateway, EarnedEndpoint, EarnedUser DEF Next
<1>2. Earned => ReadyWasIncluded
  BY DEF Earned, ReadyWasIncluded
<1>3. QED
  BY <1>1, <1>2, EarnedInit, StatusTypesHold, PTL DEF Spec

-----------------------------------------------------------------------------
(* Two writers.                                                            *)

\* No stored write changes the gateway's verdict together with the endpoint
\* controller's conditions: each patch is computed from the object it replaces
\* (MergeFromWithOptimisticLock) and touches its own part of the status.
THEOREM OneWriterPerConditionHolds == Spec => OneWriterPerCondition
<1> DEFINE Apart == ep'.uid = ep.uid /\ (ep'.accepted # ep.accepted \/ ep'.conflicts # ep.conflicts)
                      => ep'.refs = ep.refs /\ ep'.ready = ep.ready
<1>1. StatusTypes /\ [Next]_vars => [Apart]_vars
  <2> SUFFICES ASSUME StatusTypes, Next PROVE Apart
    OBVIOUS
  <2>t. ep \in Endpoint
    BY DEF StatusTypes, TypeOK
  <2>1. CASE ep' = ep
    BY <2>1
  <2>2. CASE PatchAccepted
    <3>1. gwPass.base = ep /\ gwPass.a \in Acceptance /\ ep' = WithVerdict(ep, gwPass.a)
      BY <2>2 DEF PatchAccepted, PatchApplies, StatusTypes, TypeOK, GatewayPass
    <3>2. QED
      BY <2>t, <3>1, WithVerdictType
  <2>3. CASE PatchReady
    <3>1. epPass.base = ep /\ epPass.refs \in Refs /\ ep' = ApplyEndpointStatus(ep, epPass.refs)
      BY <2>3 DEF PatchReady, PatchApplies, StatusTypes, TypeOK, EndpointPass
    <3>2. QED
      BY <2>t, <3>1, ApplyStatusType
  <2>4. ASSUME NEW u \in BOOLEAN, CreateEndpoint(u) PROVE Apart
    <3>1. Fresh \in Times /\ Fresh # 0
      BY <2>4, FreshTypes DEF CreateEndpoint, Change, StatusTypes
    <3>2. \A b \in BOOLEAN : NewEndpoint(Fresh, b).uid = Fresh
      BY <3>1, NewObjects
    <3>3. ep'.uid # ep.uid
      BY <2>4, <3>1, <3>2 DEF CreateEndpoint, Here
    <3>4. QED
      BY <3>3
  <2>5. ASSUME NEW u \in BOOLEAN, EditEndpoint(u) PROVE Apart
    <3>1. ep'.accepted = ep.accepted /\ ep'.conflicts = ep.conflicts
      BY <2>t, <2>5 DEF EditEndpoint, Endpoint
    <3>2. QED
      BY <3>1
  <2>6. CASE DeleteEndpoint
    <3>1. ep'.uid # ep.uid
      BY <2>6, IdleTypes DEF DeleteEndpoint, Here
    <3>2. QED
      BY <3>1
  <2>7. QED
    <3> HIDE DEF Apart
    <3>1. \/ ep' = ep \/ PatchAccepted \/ PatchReady \/ DeleteEndpoint
          \/ \E u \in BOOLEAN : CreateEndpoint(u) \/ EditEndpoint(u)
      BY DEF Next, GatewayStep, GatewayRead, RecordApplied, RecordFails, DecideUnserved, GetEndpoint,
             PatchAcceptedConflicts, AcceptanceFails, FinishGateway, EndpointStep, EndpointRead,
             PatchReadyConflicts, EndpointFails, PolicyStep, PolicyRead, Protect, Confirm, Release,
             UpdatePolicy, PolicyFails, Deliver, DeliverEndpoint, DeliverGateway, DeliverPolicy, Crash,
             User, ReplaceGateway, DeletePolicy, CreatePolicy, ChangeRender
    <3>2. QED
      BY <3>1, <2>1, <2>2, <2>3, <2>4, <2>5, <2>6
<1>2. QED
  BY <1>1, StatusTypesHold, PTL DEF Spec, OneWriterPerCondition

-----------------------------------------------------------------------------
(* A protected policy outlives its references.                             *)

LEMMA DeletionInit == Init => Deletion
<1> SUFFICES ASSUME Init PROVE Deletion
  OBVIOUS
<1>1. 1 \in Times
  BY StatusAssumption DEF Times
<1>2. NewPolicy(1, TRUE) \in Policy /\ NewPolicy(1, TRUE).deleting = FALSE
  BY <1>1, NewObjects
<1>3. PICK n : pol = [NewPolicy(1, TRUE) EXCEPT !.protected = TRUE, !.ready = "True", !.referencedBy = n]
  BY DEF Init
<1>4. pol.deleting = FALSE
  BY <1>2, <1>3 DEF Policy
<1>5. polCache = pol /\ polPass = IdlePolicy
  BY DEF Init
<1>6. QED
  BY <1>4, <1>5, IdleTypes DEF Deletion

\* A step that leaves the policy, its copies and the references alone.
LEMMA DeletionKept ==
  ASSUME Deletion, pol' = pol, polCache' = polCache, polPass' = polPass, ep'.uid = ep.uid, ep'.pol = ep.pol
  PROVE  Deletion'
  BY DEF Deletion, UsesPolicy, Here

LEMMA DeletionPolicy == StatusTypes /\ Deletion /\ PolicyStep => Deletion'
<1> SUFFICES ASSUME StatusTypes, Deletion, PolicyStep PROVE Deletion'
  OBVIOUS
<1>t. /\ pol \in Policy /\ polCache \in Policy /\ TypeOK
      /\ polPass \in PolicyPass /\ polPass.pol \in Policy /\ polPass.count \in 0..1
  BY DEF StatusTypes, TypeOK, PolicyPass
<1>1. CASE PolicyRead
  <2>1. /\ \/ polPass' = IdlePolicy
           \/ polPass'.pol = polCache /\ polPass'.at # "release" /\ (polPass'.at = "confirm" => polCache.deleting)
        /\ pol' = pol /\ polCache' = polCache /\ ep' = ep
    BY <1>1, <1>t, PolicyReads DEF PolicyRead
  <2>2. QED
    BY <2>1, IdleTypes DEF Deletion, Here
<1>2. CASE Protect
  <2>1. pol' \in Policy /\ pol'.uid = pol.uid /\ pol'.deleting = pol.deleting
    BY <1>2, <1>t DEF Protect, Policy
  <2>2. polPass'.pol = pol' /\ polPass'.at = "status" /\ polCache' = polCache
    BY <1>2, <1>t DEF Protect, PolicyPass
  <2>3. QED
    BY <2>1, <2>2 DEF Deletion, Here
<1>3. CASE Confirm
  <2>1. polPass'.pol = polPass.pol /\ polPass'.at = IF UsesPolicy(ep) THEN "status" ELSE "release"
    BY <1>3, <1>t DEF Confirm, PolicyPass, ReferencedOnServer
  <2>2. pol' = pol /\ polCache' = polCache /\ ep' = ep /\ polPass.at = "confirm"
    BY <1>3 DEF Confirm
  <2>3. QED
    BY <2>1, <2>2 DEF Deletion, Here, UsesPolicy
<1>4. CASE Release
  <2>1. pol' = NoPolicy /\ polPass' = IdlePolicy /\ polCache' = polCache
    BY <1>4 DEF Release
  <2>2. QED
    BY <2>1, IdleTypes DEF Deletion, Here
<1>5. CASE UpdatePolicy
  <2>1. pol'.uid = pol.uid /\ pol'.deleting = pol.deleting /\ polPass' = IdlePolicy /\ polCache' = polCache
    BY <1>5, <1>t, PolicyStatusType DEF UpdatePolicy, Unchanged
  <2>2. QED
    BY <2>1, IdleTypes DEF Deletion, Here
<1>6. CASE PolicyFails
  <2>1. pol' = pol /\ polPass' = IdlePolicy /\ polCache' = polCache
    BY <1>6 DEF PolicyFails
  <2>2. QED
    BY <2>1, IdleTypes DEF Deletion, Here
<1>7. QED
  BY <1>1, <1>2, <1>3, <1>4, <1>5, <1>6 DEF PolicyStep

LEMMA DeletionUser == StatusTypes /\ Deletion /\ User => Deletion'
<1> SUFFICES ASSUME StatusTypes, Deletion, User PROVE Deletion'
  OBVIOUS
<1>t. /\ pol \in Policy /\ ep \in Endpoint /\ TypeOK
      /\ pol.uid \in Nat /\ polCache.uid \in Nat /\ polPass.pol.uid \in Nat
  BY StatusAssumption DEF StatusTypes, TypeOK, Policy, PolicyPass, Times
<1>1. ASSUME NEW u \in BOOLEAN, CreateEndpoint(u) PROVE Deletion'
  <2>1. Fresh \in Times
    BY <1>1, FreshTypes, <1>t DEF CreateEndpoint, Change
  <2>2. \A b \in BOOLEAN : NewEndpoint(Fresh, b).pol = b
    BY <2>1, NewObjects
  <2>3. ep'.pol = u /\ (u => ~pol.deleting)
    BY <2>2, <1>1 DEF CreateEndpoint, AdmitReference
  <2>4. pol' = pol /\ polCache' = polCache /\ polPass' = polPass
    BY <1>1 DEF CreateEndpoint
  <2>5. QED
    BY <2>3, <2>4 DEF Deletion, UsesPolicy, Here
<1>2. ASSUME NEW u \in BOOLEAN, EditEndpoint(u) PROVE Deletion'
  <2>1. ep'.pol = u /\ ep'.uid = ep.uid /\ Here(ep) /\ (u /\ ~ep.pol => ~pol.deleting)
    BY <1>2, <1>t DEF EditEndpoint, AdmitReference, Endpoint
  <2>2. pol' = pol /\ polCache' = polCache /\ polPass' = polPass
    BY <1>2 DEF EditEndpoint
  <2>3. QED
    BY <2>1, <2>2 DEF Deletion, UsesPolicy, Here
<1>3. CASE DeleteEndpoint
  <2>1. ep'.uid = 0 /\ pol' = pol /\ polCache' = polCache /\ polPass' = polPass
    BY <1>3, IdleTypes DEF DeleteEndpoint
  <2>2. QED
    BY <2>1 DEF Deletion, UsesPolicy, Here
<1>4. CASE DeletePolicy
  <2>1. ep' = ep /\ polCache' = polCache /\ polPass' = polPass /\ Here(pol)
    BY <1>4 DEF DeletePolicy
  <2>2. \/ pol'.uid = pol.uid /\ pol'.deleting = TRUE
        \/ pol'.uid = 0 /\ pol'.deleting = FALSE
    BY <1>4, <1>t, IdleTypes DEF DeletePolicy, Policy
  <2>3. QED
    BY <2>1, <2>2 DEF Deletion, UsesPolicy, Here
<1>5. CASE CreatePolicy
  <2>1. Fresh \in Times
    BY <1>5, FreshTypes, <1>t DEF CreatePolicy, Change
  <2>2. \A b \in BOOLEAN : NewPolicy(Fresh, b).uid = Fresh /\ NewPolicy(Fresh, b).deleting = FALSE
    BY <2>1, NewObjects
  <2>3. pol'.uid = Fresh /\ pol'.deleting = FALSE /\ polCache' = polCache /\ polPass' = polPass
    BY <2>2, <1>5 DEF CreatePolicy
  <2>4. polCache.uid # Fresh /\ polPass.pol.uid # Fresh
    BY <1>t DEF StatusTypes, Bounded
  <2>5. QED
    BY <2>3, <2>4 DEF Deletion, Here
<1>6. CASE ReplaceGateway \/ \E r \in Renders : ChangeRender(r)
  BY <1>6, DeletionKept DEF ReplaceGateway, ChangeRender
<1>7. QED
  BY <1>1, <1>2, <1>3, <1>4, <1>5, <1>6 DEF User

\* The endpoint's reference changes by a user's edit only.
LEMMA DeletionControllers == StatusTypes /\ Deletion /\ (GatewayStep \/ EndpointStep) => Deletion'
<1> SUFFICES ASSUME StatusTypes, Deletion, GatewayStep \/ EndpointStep PROVE Deletion'
  OBVIOUS
<1>t. ep \in Endpoint
  BY DEF StatusTypes, TypeOK
<1>1. CASE PatchAccepted
  <2>1. gwPass.base = ep /\ gwPass.a \in Acceptance /\ ep' = WithVerdict(ep, gwPass.a)
    BY <1>1 DEF PatchAccepted, PatchApplies, StatusTypes, TypeOK, GatewayPass
  <2>2. ep'.uid = ep.uid /\ ep'.pol = ep.pol
    BY <1>t, <2>1, WithVerdictType
  <2>3. QED
    BY <2>2, <1>1, DeletionKept DEF PatchAccepted
<1>2. CASE PatchReady
  <2>1. epPass.base = ep /\ epPass.refs \in Refs /\ ep' = ApplyEndpointStatus(ep, epPass.refs)
    BY <1>2 DEF PatchReady, PatchApplies, StatusTypes, TypeOK, EndpointPass
  <2>2. ep'.uid = ep.uid /\ ep'.pol = ep.pol
    BY <1>t, <2>1, ApplyStatusType
  <2>3. QED
    BY <2>2, <1>2, DeletionKept DEF PatchReady
<1>3. CASE ~PatchAccepted /\ ~PatchReady
  <2>1. ep' = ep /\ pol' = pol /\ polCache' = polCache /\ polPass' = polPass
    BY <1>3 DEF GatewayStep, GatewayRead, RecordApplied, RecordFails, DecideUnserved, GetEndpoint,
            PatchAcceptedConflicts, AcceptanceFails, FinishGateway, EndpointStep, EndpointRead,
            PatchReadyConflicts, EndpointFails
  <2>2. QED
    BY <2>1, DeletionKept
<1>4. QED
  BY <1>1, <1>2, <1>3

LEMMA DeletionHolds == Spec => []Deletion
<1>1. StatusTypes /\ Deletion /\ [Next]_vars => Deletion'
  <2> SUFFICES ASSUME StatusTypes, Deletion, [Next]_vars PROVE Deletion'
    OBVIOUS
  <2>1. CASE Deliver
    <3>1. ep' = ep /\ pol' = pol /\ polPass' = polPass /\ polCache' \in {pol, polCache}
      BY <2>1 DEF Deliver, DeliverEndpoint, DeliverGateway, DeliverPolicy
    <3>2. QED
      BY <3>1 DEF Deletion, Here, UsesPolicy
  <2>2. CASE Crash
    <3>1. pol' = pol /\ polPass' = IdlePolicy /\ polCache' = pol
      BY <2>2 DEF Crash
    <3>2. QED
      BY <3>1, IdleTypes DEF Deletion, Here
  <2>3. CASE UNCHANGED vars
    BY <2>3, DeletionKept DEF vars
  <2>4. QED
    BY <2>1, <2>2, <2>3, DeletionControllers, DeletionPolicy, DeletionUser DEF Next
<1>2. QED
  BY <1>1, DeletionInit, StatusTypesHold, PTL DEF Spec

\* A policy that carries the finalizer goes only when no stored endpoint
\* references it (reconcileProtection): the uncached list is made after the
\* deletion was seen, a deletion is never taken back, and admission refuses a
\* new reference to a policy that is being deleted.
THEOREM PolicyOutlivesReferencesHolds == Spec => PolicyOutlivesReferences
<1> DEFINE Outlives == Here(pol) /\ pol.protected /\ pol'.uid # pol.uid => ~UsesPolicy(ep)
<1>1. StatusTypes /\ Deletion /\ [Next]_vars => [Outlives]_vars
  <2> SUFFICES ASSUME StatusTypes, Deletion, Next PROVE Outlives
    OBVIOUS
  <2>t. pol \in Policy /\ polPass.pol \in Policy /\ polPass.count \in 0..1
    BY DEF StatusTypes, TypeOK, PolicyPass
  <2>1. CASE pol' = pol
    BY <2>1
  <2>2. CASE Protect
    BY <2>2, <2>t DEF Protect, Policy
  <2>3. CASE Release
    BY <2>3 DEF Release, Unchanged, Deletion
  <2>4. CASE UpdatePolicy
    BY <2>4, <2>t, PolicyStatusType DEF UpdatePolicy, Unchanged
  <2>5. CASE DeletePolicy
    BY <2>5, <2>t DEF DeletePolicy, Policy
  <2>6. CASE CreatePolicy
    BY <2>6 DEF CreatePolicy
  <2>7. QED
    <3> HIDE DEF Outlives
    <3>1. pol' = pol \/ Protect \/ Release \/ UpdatePolicy \/ DeletePolicy \/ CreatePolicy
      BY DEF Next, GatewayStep, GatewayRead, RecordApplied, RecordFails, DecideUnserved, GetEndpoint,
             PatchAccepted, PatchAcceptedConflicts, AcceptanceFails, FinishGateway, EndpointStep,
             EndpointRead, PatchReady, PatchReadyConflicts, EndpointFails, PolicyStep, PolicyRead,
             Confirm, PolicyFails, Deliver, DeliverEndpoint, DeliverGateway, DeliverPolicy, Crash,
             User, CreateEndpoint, EditEndpoint, DeleteEndpoint, ReplaceGateway, ChangeRender
    <3>2. QED
      BY <3>1, <2>1, <2>2, <2>3, <2>4, <2>5, <2>6
<1>2. QED
  BY <1>1, StatusTypesHold, DeletionHolds, PTL DEF Spec, PolicyOutlivesReferences
=============================================================================
