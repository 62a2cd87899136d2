--------------------------- MODULE AdmissionProofs ---------------------------
(***************************************************************************)
(* What the validating webhooks answer, proved for any requests and any    *)
(* history of writes.                                                      *)
(*                                                                         *)
(* I.  AdmissionRender.  RenderInv says, for each check a request has come *)
(* to, what the checks before it have established (GatewayWay, PolicyWay,  *)
(* EndpointWay), and of a scan of suspects which of them it still has to   *)
(* judge (ScanOK): a suspect that fails anew, or that failed before and    *)
(* fails still, is either counted or not yet judged.  A scan that is over, *)
(* or cut off, then decides as the whole of it would (FindingIsRight).     *)
(*                                                                         *)
(* II.  AdmissionRules.  Each property is inductive over types: what is    *)
(* stored on a gateway, or in use for an object, is either as it was       *)
(* before the write or was judged by it.                                   *)
(***************************************************************************)
EXTENDS AdmissionRender, AdmissionRules, TLAPS

\* What is true of the request, on the gateway that is judged.
RootNow      == Root("now")
RootWas      == Root("was")
GroupNow     == Group(target, "now")
GroupWas     == Group(target, "was")
Suspected    == Suspects(target, "now")
NewlyFailing == {e \in Served(target) : Unit(target, e, "was") /\ ~ Unit(target, e, "now")}
StillFailing == {e \in Served(target) : ~ Unit(target, e, "was") /\ ~ Unit(target, e, "now")}
ServedNow    == Served(target)
Applied      == {e \in Served(target) : Facts(target, e).status = "accepted"}

\* What is true of it on every gateway of a policy write.
Dropped      == {g \in DOMAIN req.uses : req.uses[g].ce /\ req.drops}
RootPasses   == {g \in DOMAIN req.uses : req.uses[g].root.now}
GroupPasses  == {g \in DOMAIN req.uses : Group(g, "now")}
Breaking     == {g \in DOMAIN req.uses : PolicyBreaks(g)}

\* A policy that fails on its own failed before, too.
Linted == req.kind = "policy" => req.alone.now \/ (~ req.create /\ ~ req.alone.was)

\* The way to each check of a gateway write.
GatewayWay ==
  req.kind = "gateway" =>
    /\ pc \in {"same", "clash", "root", "rootWas", "group", "storedRoot", "before", "users", "judge", "end"}
    /\ pc \notin {"root", "group", "end"} => ~ req.create
    /\ pc \notin {"same", "end"} /\ ~ req.create => ~ req.same /\ (pc # "clash" => req.clash = "none")
    /\ pc = "rootWas" => ~ RootNow
    /\ pc \in {"group", "storedRoot", "before", "users", "judge"} => RootNow
    /\ pc \in {"before", "users"} => RootWas /\ ~ GroupNow
    /\ pc = "users" => GroupWas

\* What the screening of g found is so.
Screened(g) ==
  /\ screen[g] \in {"refused", "rootFails", "error", "passed", "failed"}
  /\ screen[g] = "refused" => g \in causes
  /\ screen[g] # "refused" => g \notin Dropped
  /\ screen[g] = "rootFails" => g \notin RootPasses
  /\ screen[g] \in {"passed", "failed"} => g \in RootPasses
  /\ screen[g] = "passed" => g \in GroupPasses
  /\ screen[g] = "failed" => g \notin GroupPasses

\* The way to each check of a policy write: what is behind it breaks nothing, or
\* is a cause, or was not checked.
PolicyWay ==
  req.kind = "policy" =>
    /\ pc \in {"alone", "aloneWas", "uses", "screen", "next", "before", "users", "judge", "end"}
    /\ pc = "aloneWas" => ~ req.alone.now /\ ~ req.create
    /\ pc \notin {"alone", "aloneWas", "end"} => Linted
    /\ causes \subseteq Breaking
    /\ pc \in {"alone", "aloneWas", "uses", "screen"} => ~ stopped /\ DOMAIN screen = DOMAIN req.uses
    /\ pc = "screen" => todo \subseteq DOMAIN req.uses /\ \A g \in DOMAIN req.uses \ todo : Screened(g)
    /\ pc \in {"next", "before", "users", "judge"} =>
         /\ todo \subseteq DOMAIN req.uses \ Dropped
         /\ \A g \in DOMAIN req.uses : Screened(g)
         /\ stopped \/ Breaking \ (IF pc = "next" THEN {} ELSE {target}) \subseteq todo \cup causes
    /\ pc \in {"before", "users", "judge"} => target \in RootPasses \ Dropped
    /\ pc \in {"before", "users"} => ~ GroupNow
    /\ pc = "users" => GroupWas

\* The way to each check of an endpoint write.
EndpointWay ==
  req.kind = "endpoint" =>
    /\ pc \in {"clash", "root", "unit", "unitWas", "refs", "end"}
    /\ pc = "clash" => ~ req.trusted
    /\ pc \in {"root", "unit", "unitWas"} => ~ req.trusted /\ req.clash = "none"
    /\ pc \in {"unit", "unitWas"} => RootNow
    /\ pc = "unitWas" => ~ Own("now") /\ ~ req.create
    /\ pc = "refs" /\ EndpointBreaks => req.gone

\* What a scan has found, of the suspects it has judged.
ScanOK ==
  pc = "judge" =>
    /\ first \cup rest \subseteq Suspected /\ first \cap rest = {}
    /\ scan \in Scan
    /\ scan.compare =>
         /\ req.kind = "gateway" => RootWas
         /\ scan.broken > 0 => NewlyFailing # {}
         /\ scan.broken = 0 => Suspected \cap NewlyFailing \subseteq first \cup rest
         /\ IF scan.already THEN StillFailing # {}
            ELSE Suspected \cap StillFailing \subseteq first \cup rest
         /\ scan.decides => GroupWas /\ ~ GroupNow /\ rest \cap StillFailing = {}
    /\ ~ scan.compare =>
         /\ req.kind = "gateway" /\ ~ RootWas /\ ~ scan.decides
         /\ first \subseteq Applied /\ rest \cap Applied = {}
         /\ scan.broken > 0 => Suspected \cap Applied \cap (NewlyFailing \cup StillFailing) # {}
         /\ scan.broken = 0 => Suspected \cap Applied \cap (NewlyFailing \cup StillFailing) \subseteq first
         /\ IF scan.already THEN StillFailing # {}
            ELSE scan.broken = 0 => Suspected \cap (NewlyFailing \cup StillFailing) \subseteq first \cup rest

RenderInv ==
  /\ req \in Requests
  /\ req.kind # "policy" => DOMAIN req.uses = {target}
  /\ pc # "end" => answer = "none"
  /\ GatewayWay /\ PolicyWay /\ EndpointWay
  /\ ScanOK
  /\ AnswerIsRight

-----------------------------------------------------------------------------
(* What is true of a request.                                              *)

LEMMA RequestTyped ==
  ASSUME req \in Requests
  PROVE  /\ req.kind \in {"gateway", "policy", "endpoint"}
         /\ req.create \in BOOLEAN /\ req.alone.now \in BOOLEAN /\ req.alone.was \in BOOLEAN
         /\ req.create => ~ req.same
         /\ \A g \in DOMAIN req.uses :
              /\ req.uses[g].root.now \in BOOLEAN /\ req.uses[g].root.was \in BOOLEAN
              /\ req.kind = "policy" => (req.uses[g].root.was <=> req.uses[g].root.now)
              /\ req.uses[g].together.now =>
                   \E e \in EndpointsOf[g] : req.uses[g].ep[e].status # "invalid" /\ req.uses[g].ep[e].policy # "missing"
              /\ \A e \in EndpointsOf[g] :
                   /\ req.uses[g].ep[e].now \in Parts /\ req.uses[g].ep[e].was \in Parts
                   /\ req.uses[g].ep[e].policy \in {"sound", "failing", "missing"}
<1>1. \A g \in DOMAIN req.uses : req.uses[g] \in Use(g)
  BY RenderAssumption
<1>2. \A g \in DOMAIN req.uses :
        /\ req.uses[g].root.now \in BOOLEAN /\ req.uses[g].root.was \in BOOLEAN
        /\ \A e \in EndpointsOf[g] : req.uses[g].ep[e] \in Endpoint
  BY <1>1 DEF Use, Both
<1>3. \A g \in DOMAIN req.uses : \A e \in EndpointsOf[g] :
        /\ req.uses[g].ep[e].now \in Parts /\ req.uses[g].ep[e].was \in Parts
        /\ req.uses[g].ep[e].policy \in {"sound", "failing", "missing"}
  BY <1>2 DEF Endpoint
<1>4. req.alone \in Both /\ {req.create, req.same, req.drops, req.trusted, req.gone} \subseteq BOOLEAN
  BY RenderAssumption
<1>5. \A g \in DOMAIN req.uses : req.uses[g].together.now =>
        \E e \in EndpointsOf[g] : req.uses[g].ep[e].status # "invalid" /\ req.uses[g].ep[e].policy # "missing"
  BY RenderAssumption
<1>6. \A g \in DOMAIN req.uses : req.kind = "policy" => (req.uses[g].root.was <=> req.uses[g].root.now)
  BY RenderAssumption
<1> QED BY <1>2, <1>3, <1>4, <1>5, <1>6, RenderAssumption DEF Both

\* A request does not change while it is judged.
LEMMA FrozenPolicy ==
  ASSUME UNCHANGED req
  PROVE  /\ Dropped' = Dropped /\ RootPasses' = RootPasses /\ GroupPasses' = GroupPasses
         /\ Breaking' = Breaking /\ (Linted' <=> Linted)
BY DEF Dropped, RootPasses, GroupPasses, Breaking, Linted, Group, Rendered, Served, Facts, PolicyBreaks,
   NewlyFails, GroupNewlyFails, FailsBothWays, Unit, PoliciesPass

LEMMA Frozen ==
  ASSUME UNCHANGED <<req, target>>
  PROVE  /\ (RootNow' <=> RootNow) /\ (RootWas' <=> RootWas) /\ (GroupNow' <=> GroupNow) /\ (GroupWas' <=> GroupWas)
         /\ Suspected' = Suspected /\ NewlyFailing' = NewlyFailing /\ StillFailing' = StillFailing
         /\ ServedNow' = ServedNow /\ Applied' = Applied
         /\ (Own("now")' <=> Own("now")) /\ (EndpointBreaks' <=> EndpointBreaks) /\ (Breaks' <=> Breaks)
<1>1. /\ (RootNow' <=> RootNow) /\ (RootWas' <=> RootWas) /\ (GroupNow' <=> GroupNow) /\ (GroupWas' <=> GroupWas)
      /\ Suspected' = Suspected
  BY DEF RootNow, RootWas, Root, GroupNow, GroupWas, Group, Rendered, Served, Facts, Suspected, Suspects, Masked
<1>2. NewlyFailing' = NewlyFailing /\ StillFailing' = StillFailing /\ ServedNow' = ServedNow /\ Applied' = Applied
  BY DEF NewlyFailing, StillFailing, ServedNow, Applied, Served, Facts, Unit, PoliciesPass
<1>3. (Own("now")' <=> Own("now")) /\ (EndpointBreaks' <=> EndpointBreaks)
  BY DEF EndpointBreaks, Own, Unit, PoliciesPass, Facts, Root
<1>4. (Breaks' <=> Breaks)
  BY <1>3 DEF Breaks, GatewayBreaks, PolicyBreaks, NewlyFails, GroupNewlyFails, FailsBothWays, FailsLastConfig,
     Group, Rendered, Served, Facts, Unit, PoliciesPass, Suspects, Masked
<1> QED BY <1>1, <1>2, <1>3, <1>4

\* Only suspects can fail anew, and no group without suspects fails.
LEMMA SuspectsSuffice ==
  ASSUME req \in Requests, target \in DOMAIN req.uses, RootNow, Linted
  PROVE  /\ Suspected \subseteq ServedNow /\ NewlyFailing \subseteq Suspected
         /\ ~ GroupNow => Suspected = ServedNow
         /\ ServedNow = {} => GroupNow
<1>1. ~ GroupNow => Suspected = ServedNow
  BY DEF GroupNow, Suspected, ServedNow, Suspects
<1>2. Suspected \subseteq ServedNow
  BY DEF Suspected, ServedNow, Suspects, Masked, Rendered
<1>3. ASSUME GroupNow, NEW e \in ServedNow, e \notin Suspected, Unit(target, e, "was"), ~ Unit(target, e, "now")
      PROVE  FALSE
  <2>1. Facts(target, e).policy # "missing"
    BY <1>3 DEF Unit
  <2>2. e \in Rendered(target) /\ e \in EndpointsOf[target]
    BY <2>1, <1>3 DEF ServedNow, Rendered, Served
  <2>3. Facts(target, e).now \in Parts \ {"bad", "masked", "hidden"}
    BY <1>3, <2>2, RequestTyped DEF GroupNow, Group, Suspected, Suspects, Masked, Facts
  <2>4. PoliciesPass(target, e, "now")
    BY <1>3, <2>1, RequestTyped DEF Unit, PoliciesPass, Linted
  <2> QED BY <1>3, <2>3, <2>4 DEF Unit, Parts, RootNow, Root
<1>4. NewlyFailing \subseteq Suspected
  BY <1>1, <1>3 DEF NewlyFailing, ServedNow
<1>5. ServedNow = {} => GroupNow
  <2>1. ServedNow = {} => Rendered(target) = {} /\ ~ req.uses[target].together.now
    BY RequestTyped DEF ServedNow, Rendered, Served, Facts
  <2> QED BY <2>1, RequestTyped DEF GroupNow, Group, RootNow, Root
<1> QED BY <1>1, <1>2, <1>4, <1>5

\* Nothing passes over a root that fails, unless it is not rendered.
LEMMA FailingRoot ==
  ASSUME ~ RootWas
  PROVE  NewlyFailing = {}
BY DEF NewlyFailing, Unit, RootWas, Root

\* What the group of the stored config judged passed before.
LEMMA JudgedBefore ==
  ASSUME req \in Requests, target \in DOMAIN req.uses, GroupWas, NEW e \in StillFailing,
         e \notin Suspects(target, "was"), PoliciesPass(target, e, "was")
  PROVE  FALSE
<1>1. e \in Served(target) /\ ~ Unit(target, e, "was") /\ e \in EndpointsOf[target]
  BY DEF StillFailing, Served
<1>2. Facts(target, e).policy # "missing" /\ e \in Rendered(target)
  BY <1>1 DEF Unit, Rendered
<1>3. Facts(target, e).was \in Parts \ {"bad", "masked", "hidden"}
  BY <1>1, <1>2, RequestTyped DEF GroupWas, Group, Suspects, Masked, Facts
<1> QED BY <1>1, <1>3 DEF Unit, Parts, GroupWas, Group

\* What a gateway write breaks, in these terms.
LEMMA GatewayBreaksWhat ==
  ASSUME req \in Requests, req.kind = "gateway", target \in DOMAIN req.uses, ~ req.create, ~ req.same,
         req.clash = "none"
  PROVE  /\ RootNow /\ RootWas =>
              (Breaks <=> NewlyFailing # {} \/ (GroupWas /\ ~ GroupNow /\ StillFailing = {}))
         /\ RootNow /\ ~ RootWas =>
              (Breaks <=> \/ Suspected \cap Applied \cap (NewlyFailing \cup StillFailing) # {}
                          \/ ~ GroupNow /\ NewlyFailing \cup StillFailing = {})
         /\ ~ RootNow => (Breaks <=> RootWas)
<1>1. Breaks <=> GatewayBreaks(target)
  BY DEF Breaks
<1>2. /\ NewlyFails(target) <=> NewlyFailing # {}
      /\ FailsBothWays(target) <=> StillFailing # {}
  BY DEF NewlyFails, NewlyFailing, FailsBothWays, StillFailing
<1>3. FailsLastConfig(target) <=> \/ Suspected \cap Applied \cap (NewlyFailing \cup StillFailing) # {}
                                  \/ ~ GroupNow /\ NewlyFailing \cup StillFailing = {}
  <2>1. \A e \in Served(target) : ~ Unit(target, e, "now") <=> e \in NewlyFailing \cup StillFailing
    BY DEF NewlyFailing, StillFailing
  <2>2. Suspected \subseteq Served(target) /\ NewlyFailing \cup StillFailing \subseteq Served(target)
    BY DEF Suspected, Suspects, Masked, Rendered, NewlyFailing, StillFailing
  <2>3. (\E e \in Suspects(target, "now") : Facts(target, e).status = "accepted" /\ ~ Unit(target, e, "now"))
          <=> Suspected \cap Applied \cap (NewlyFailing \cup StillFailing) # {}
    BY <2>1, <2>2 DEF Suspected, Applied
  <2> QED BY <2>1, <2>2, <2>3 DEF FailsLastConfig, GroupNow
<1>4. req.uses[target].root.now = RootNow /\ req.uses[target].root.was = RootWas
  BY DEF RootNow, RootWas, Root
<1> QED BY <1>1, <1>2, <1>3, <1>4, RequestTyped DEF GatewayBreaks, GroupNewlyFails, GroupNow, GroupWas

\* What a policy write breaks.
LEMMA PolicyBreaksWhat ==
  ASSUME req \in Requests, req.kind = "policy"
  PROVE  /\ Dropped \subseteq Breaking /\ Breaking \subseteq Dropped \cup RootPasses
         /\ Breaking \subseteq DOMAIN req.uses
         /\ target \in RootPasses \ Dropped =>
              (target \in Breaking <=>
                 NewlyFailing # {} \/ ((req.create \/ GroupWas) /\ ~ GroupNow /\ StillFailing = {}))
         /\ Linted => (Breaks <=> Breaking # {})
<1>1. /\ Dropped \subseteq Breaking /\ Breaking \subseteq Dropped \cup RootPasses
      /\ Breaking \subseteq DOMAIN req.uses
  BY DEF Dropped, Breaking, RootPasses, PolicyBreaks
<1>2. /\ NewlyFails(target) <=> NewlyFailing # {}
      /\ FailsBothWays(target) <=> StillFailing # {}
  BY DEF NewlyFails, NewlyFailing, FailsBothWays, StillFailing
<1>3. ASSUME target \in RootPasses \ Dropped
      PROVE  target \in Breaking <=>
               NewlyFailing # {} \/ ((req.create \/ GroupWas) /\ ~ GroupNow /\ StillFailing = {})
  BY <1>2, <1>3 DEF Breaking, PolicyBreaks, RootPasses, Dropped, GroupNewlyFails, GroupNow, GroupWas
<1>4. Linted => (Breaks <=> Breaking # {})
  BY RequestTyped DEF Breaks, Linted, Breaking
<1> QED BY <1>1, <1>3, <1>4

-----------------------------------------------------------------------------
(* Steps.                                                                  *)

\* An answer that is right.
LEMMA Answering ==
  ASSUME RenderInv, NEW a \in {"admit", "deny", "error"}, Answer(a),
         a = "admit" => ~ Breaks, a = "deny" => Breaks
  PROVE  RenderInv'
<1> USE DEF RenderInv
<1>1. answer' = a /\ pc' = "end" /\ UNCHANGED <<req, target, causes>>
  BY DEF Answer, work
<1>2. (Breaks' <=> Breaks) /\ Breaking' = Breaking
  BY <1>1, Frozen, FrozenPolicy
<1>3. AnswerIsRight'
  BY <1>1, <1>2 DEF AnswerIsRight, AdmittedBreaksNothing, DeniedForItsOwnDoing
<1>4. GatewayWay' /\ EndpointWay' /\ ScanOK'
  BY <1>1 DEF GatewayWay, EndpointWay, ScanOK
<1>5. PolicyWay'
  BY <1>1, <1>2 DEF PolicyWay
<1> QED BY <1>1, <1>3, <1>4, <1>5

\* A check that leads to another one.
LEMMA Going ==
  ASSUME RenderInv, NEW step, pc # "end", step \notin {"judge", "end"}, Go(step),
         GatewayWay', PolicyWay', EndpointWay'
  PROVE  RenderInv'
<1> USE DEF RenderInv
<1>1. pc' = step /\ UNCHANGED <<req, target, answer>>
  BY DEF Go
<1>2. AnswerIsRight'
  BY <1>1 DEF AnswerIsRight, AdmittedBreaksNothing, DeniedForItsOwnDoing
<1> QED BY <1>1, <1>2 DEF ScanOK

LEMMA Unavailable_Inv ==
  ASSUME RenderInv, Unavailable PROVE RenderInv'
BY Answering DEF Unavailable

LEMMA SameConfig_Inv ==
  ASSUME RenderInv, SameConfig PROVE RenderInv'
<1>1. pc = "same" /\ req.kind = "gateway"
  BY RequestTyped DEF RenderInv, SameConfig, PolicyWay, EndpointWay
<1>2. CASE req.same
  <2>1. ~ Breaks
    BY <1>1, <1>2 DEF Breaks
  <2> QED BY <1>2, <2>1, Answering DEF SameConfig
<1>3. CASE ~ req.same
  <2>1. Go("clash")
    BY <1>3 DEF SameConfig
  <2>2. GatewayWay' /\ PolicyWay' /\ EndpointWay'
    BY <1>1, <1>3, <2>1 DEF Go, GatewayWay, PolicyWay, EndpointWay, RenderInv
  <2> QED BY <1>1, <2>1, <2>2, Going
<1> QED BY <1>2, <1>3

LEMMA RefuseNewClashes_Inv ==
  ASSUME RenderInv, RefuseNewClashes PROVE RenderInv'
<1>1. pc = "clash" /\ req.kind \in {"gateway", "endpoint"}
  BY RequestTyped DEF RenderInv, RefuseNewClashes, PolicyWay
<1>2. CASE req.clash # "none"
  <2>1. Breaks
    BY <1>1, <1>2 DEF Breaks, GatewayBreaks, EndpointBreaks, RenderInv, GatewayWay, EndpointWay
  <2> QED BY <1>2, <2>1, Answering DEF RefuseNewClashes
<1>3. CASE req.clash = "none"
  <2>1. Go("root")
    BY <1>3 DEF RefuseNewClashes
  <2>2. GatewayWay' /\ PolicyWay' /\ EndpointWay'
    BY <1>1, <1>3, <2>1 DEF Go, GatewayWay, PolicyWay, EndpointWay, RenderInv
  <2> QED BY <1>1, <2>1, <2>2, Going
<1> QED BY <1>2, <1>3

\* The gateway of a write that is judged on one.
LEMMA OneGateway ==
  ASSUME RenderInv
  PROVE  /\ req.kind = "gateway" => target \in DOMAIN req.uses /\ Linted
         /\ req.kind = "policy" /\ pc \in {"before", "users", "judge"} =>
              target \in DOMAIN req.uses /\ Linted /\ RootNow /\ ~ (req.uses[target].ce /\ req.drops)
BY DEF RenderInv, Linted, PolicyWay, RootPasses, Dropped, RootNow, Root

LEMMA CheckRoot_Inv ==
  ASSUME RenderInv, CheckRoot PROVE RenderInv'
<1>1. pc = "root" /\ req.kind = "gateway" /\ target \in DOMAIN req.uses /\ Linted /\ req \in Requests
  BY OneGateway DEF CheckRoot, RenderInv
<1>2. ~ req.create => ~ req.same /\ req.clash = "none"
  BY <1>1 DEF RenderInv, GatewayWay
<1>3. req.create => ~ req.same
  BY <1>1, RequestTyped
<1>4. CASE ~ RootNow /\ req.create
  <2>1. Breaks
    BY <1>1, <1>3, <1>4 DEF Breaks, GatewayBreaks, RootNow, Root
  <2> QED BY <1>4, <2>1, Answering DEF CheckRoot, RootNow
<1>5. CASE ~ RootNow /\ ~ req.create
  <2>1. Go("rootWas")
    BY <1>5 DEF CheckRoot, RootNow
  <2>2. ~ RootNow'
    BY <1>5, <2>1, Frozen DEF Go
  <2>3. GatewayWay' /\ PolicyWay' /\ EndpointWay'
    BY <1>1, <1>2, <1>5, <2>1, <2>2 DEF Go, GatewayWay, PolicyWay, EndpointWay
  <2> QED BY <1>1, <2>1, <2>3, Going
<1>6. CASE RootNow /\ ServedNow = {}
  <2>1. ~ Breaks
    <3>1. GroupNow /\ NewlyFailing = {} /\ StillFailing = {} /\ Suspected = {}
      BY <1>1, <1>6, SuspectsSuffice DEF NewlyFailing, StillFailing, ServedNow
    <3>2. CASE req.create
      BY <1>1, <1>6, <3>2 DEF Breaks, GatewayBreaks, RootNow, Root
    <3>3. CASE ~ req.create
      BY <1>1, <1>2, <1>6, <3>1, <3>3, GatewayBreaksWhat
    <3> QED BY <3>2, <3>3
  <2> QED BY <1>6, <2>1, Answering DEF CheckRoot, RootNow, ServedNow
<1>7. CASE RootNow /\ ServedNow # {}
  <2>1. Go("group")
    BY <1>7 DEF CheckRoot, RootNow, ServedNow
  <2>2. RootNow'
    BY <1>7, <2>1, Frozen DEF Go
  <2>3. GatewayWay' /\ PolicyWay' /\ EndpointWay'
    BY <1>1, <1>2, <1>7, <2>1, <2>2 DEF Go, GatewayWay, PolicyWay, EndpointWay
  <2> QED BY <1>1, <2>1, <2>3, Going
<1> QED BY <1>4, <1>5, <1>6, <1>7

LEMMA RootVerdict_Inv ==
  ASSUME RenderInv, RootVerdict PROVE RenderInv'
<1>1. /\ pc = "rootWas" /\ req.kind = "gateway" /\ target \in DOMAIN req.uses /\ req \in Requests
      /\ ~ req.create /\ ~ req.same /\ req.clash = "none" /\ ~ RootNow
  BY OneGateway, RequestTyped DEF RootVerdict, RenderInv, PolicyWay, EndpointWay, GatewayWay
<1>2. Breaks <=> RootWas
  BY <1>1, GatewayBreaksWhat
<1>3. CASE RootWas
  BY <1>2, <1>3, Answering DEF RootVerdict, RootWas
<1>4. CASE ~ RootWas
  BY <1>2, <1>4, Answering DEF RootVerdict, RootWas
<1> QED BY <1>3, <1>4

LEMMA WarnWaiting_Inv ==
  ASSUME RenderInv, WarnWaiting PROVE RenderInv'
<1>1. pc = "group" /\ req.kind = "gateway" /\ req.create /\ RootNow
  BY RequestTyped DEF WarnWaiting, RenderInv, PolicyWay, EndpointWay, GatewayWay
<1>2. ~ Breaks
  BY <1>1 DEF Breaks, GatewayBreaks, RootNow, Root
<1> QED BY <1>2, Answering DEF WarnWaiting

LEMMA CheckGroup_Inv ==
  ASSUME RenderInv, CheckGroup PROVE RenderInv'
<1>1. /\ pc = "group" /\ req.kind = "gateway" /\ ~ req.create /\ RootNow /\ ~ req.same /\ req.clash = "none"
      /\ req \in Requests /\ target \in DOMAIN req.uses /\ Linted
  BY OneGateway, RequestTyped DEF CheckGroup, RenderInv, PolicyWay, EndpointWay, GatewayWay
<1>2. CASE Answer("error")
  BY <1>2, Answering
<1>3. CASE Suspected = {} /\ Answer("admit")
  <2>1. NewlyFailing = {} /\ (~ GroupNow => ServedNow = {}) /\ (ServedNow = {} => GroupNow)
    BY <1>1, <1>3, SuspectsSuffice
  <2>2. ~ Breaks
    BY <1>1, <1>3, <2>1, GatewayBreaksWhat
  <2> QED BY <1>3, <2>2, Answering
<1>4. CASE Go("storedRoot")
  <2>1. RootNow'
    BY <1>1, <1>4, Frozen DEF Go
  <2>2. GatewayWay' /\ PolicyWay' /\ EndpointWay'
    BY <1>1, <1>4, <2>1 DEF Go, GatewayWay, PolicyWay, EndpointWay
  <2> QED BY <1>1, <1>4, <2>2, Going
<1> QED BY <1>2, <1>3, <1>4 DEF CheckGroup, Suspected

\* A scan begins.
LEMMA Queuing ==
  ASSUME RenderInv, NEW fs, NEW rs, NEW compare \in BOOLEAN, NEW decides \in BOOLEAN,
         Queue(fs, rs, compare, decides),
         pc \in {"storedRoot", "before", "users"},
         fs \cup rs = Suspected, fs \cap rs = {},
         compare /\ req.kind = "gateway" => RootWas,
         decides => compare /\ GroupWas /\ ~ GroupNow /\ rs \cap StillFailing = {},
         ~ compare => req.kind = "gateway" /\ ~ RootWas /\ fs \subseteq Applied /\ rs \cap Applied = {}
  PROVE  RenderInv'
<1> USE DEF RenderInv
<1>1. /\ first' = fs /\ rest' = rs /\ pc' = "judge"
      /\ scan' = [NoScan EXCEPT !.compare = compare, !.decides = decides]
      /\ UNCHANGED <<req, target, todo, screen, causes, stopped, answer>>
  BY DEF Queue
<1>2. NoScan \in Scan /\ NoScan.broken = 0 /\ ~ NoScan.already
  BY DEF NoScan, Scan
<1>3. scan' \in Scan /\ scan'.broken = 0 /\ ~ scan'.already /\ scan'.compare = compare /\ scan'.decides = decides
  BY <1>1, <1>2 DEF Scan
<1>4. /\ (RootNow' <=> RootNow) /\ (RootWas' <=> RootWas) /\ (GroupNow' <=> GroupNow) /\ (GroupWas' <=> GroupWas)
      /\ Suspected' = Suspected /\ NewlyFailing' = NewlyFailing /\ StillFailing' = StillFailing /\ Applied' = Applied
  BY <1>1, Frozen
<1>5. /\ Dropped' = Dropped /\ RootPasses' = RootPasses /\ GroupPasses' = GroupPasses
      /\ Breaking' = Breaking /\ (Linted' <=> Linted)
  BY <1>1, FrozenPolicy
<1>6. ScanOK'
  <2> SUFFICES ASSUME pc' = "judge" PROVE ScanOK'
    BY DEF ScanOK
  <2>1. first' \cup rest' \subseteq Suspected' /\ first' \cap rest' = {}
    BY <1>1, <1>4
  <2>2. CASE compare
    BY <2>1, <2>2, <1>1, <1>3, <1>4 DEF ScanOK
  <2>3. CASE ~ compare
    BY <2>1, <2>3, <1>1, <1>3, <1>4 DEF ScanOK
  <2> QED BY <2>2, <2>3
<1>7. GatewayWay' /\ EndpointWay'
  BY <1>1, <1>4 DEF GatewayWay, EndpointWay
<1>8. PolicyWay'
  BY <1>1, <1>5 DEF PolicyWay, Screened
<1>9. AnswerIsRight'
  BY <1>1 DEF AnswerIsRight, AdmittedBreaksNothing, DeniedForItsOwnDoing
<1> QED BY <1>1, <1>6, <1>7, <1>8, <1>9

LEMMA StoredRoot_Inv ==
  ASSUME RenderInv, StoredRoot PROVE RenderInv'
<1>1. /\ pc = "storedRoot" /\ req.kind = "gateway" /\ RootNow /\ ~ req.create /\ ~ req.same /\ req.clash = "none"
  BY RequestTyped DEF StoredRoot, RenderInv, PolicyWay, EndpointWay, GatewayWay
<1>2. CASE ~ RootWas
  <2> DEFINE acc == {e \in Suspected : Facts(target, e).status = "accepted"}
  <2>1. Queue(acc, Suspected \ acc, FALSE, FALSE)
    BY <1>2 DEF StoredRoot, RootWas, Suspected
  <2>2. Suspected \subseteq Served(target)
    BY DEF Suspected, Suspects, Masked, Rendered
  <2>3. acc \subseteq Applied /\ (Suspected \ acc) \cap Applied = {} /\ acc \subseteq Suspected
    BY <2>2 DEF Applied
  <2> HIDE DEF acc
  <2> QED BY <1>1, <1>2, <2>1, <2>3, Queuing
<1>3. CASE RootWas /\ GroupNow
  <2>1. Queue(Suspected, {}, TRUE, FALSE)
    BY <1>3 DEF StoredRoot, RootWas, GroupNow, Suspected
  <2>2. Suspected \cup {} = Suspected /\ Suspected \cap {} = {}
    OBVIOUS
  <2> QED BY <1>1, <1>3, <2>1, <2>2, Queuing
<1>4. CASE RootWas /\ ~ GroupNow
  <2>1. Go("before")
    BY <1>4 DEF StoredRoot, RootWas, GroupNow
  <2>2. RootNow' /\ RootWas' /\ ~ GroupNow'
    BY <1>1, <1>4, <2>1, Frozen DEF Go
  <2>3. GatewayWay' /\ PolicyWay' /\ EndpointWay'
    BY <1>1, <2>1, <2>2 DEF Go, GatewayWay, PolicyWay, EndpointWay
  <2> QED BY <1>1, <2>1, <2>3, Going
<1> QED BY <1>2, <1>3, <1>4

LEMMA CheckBefore_Inv ==
  ASSUME RenderInv, CheckBefore PROVE RenderInv'
<1>1. /\ pc = "before" /\ req.kind \in {"gateway", "policy"} /\ ~ GroupNow
      /\ req.kind = "gateway" => RootWas
  BY RequestTyped DEF CheckBefore, RenderInv, PolicyWay, EndpointWay, GatewayWay
<1>2. CASE ~ GroupWas
  <2>1. Queue(Suspected, {}, TRUE, FALSE)
    BY <1>2 DEF CheckBefore, GroupWas, Suspected
  <2>2. Suspected \cup {} = Suspected /\ Suspected \cap {} = {}
    OBVIOUS
  <2> QED BY <1>1, <2>1, <2>2, Queuing
<1>3. CASE GroupWas
  <2>1. Go("users")
    BY <1>3 DEF CheckBefore, GroupWas
  <2>2. UNCHANGED <<req, target, todo, screen, causes, stopped>> /\ pc' = "users"
    BY <2>1 DEF Go, work
  <2>3. (RootNow' <=> RootNow) /\ (RootWas' <=> RootWas) /\ ~ GroupNow' /\ GroupWas'
    BY <1>1, <1>3, <2>2, Frozen
  <2>4. /\ Dropped' = Dropped /\ RootPasses' = RootPasses /\ GroupPasses' = GroupPasses
        /\ Breaking' = Breaking /\ (Linted' <=> Linted)
    BY <2>2, FrozenPolicy
  <2>5. GatewayWay' /\ EndpointWay'
    BY <1>1, <2>2, <2>3 DEF GatewayWay, EndpointWay, RenderInv
  <2>6. PolicyWay'
    BY <1>1, <2>2, <2>3, <2>4 DEF PolicyWay, Screened, RenderInv
  <2> QED BY <1>1, <2>1, <2>5, <2>6, Going
<1> QED BY <1>2, <1>3

LEMMA DecidingFirst_Inv ==
  ASSUME RenderInv, DecidingFirst PROVE RenderInv'
<1>1. /\ pc = "users" /\ req.kind \in {"gateway", "policy"} /\ ~ GroupNow /\ GroupWas
      /\ req.kind = "gateway" => RootWas
  BY RequestTyped DEF DecidingFirst, RenderInv, PolicyWay, EndpointWay, GatewayWay
<1> DEFINE was == Suspects(target, "was") \cup {e \in Served(target) : ~ PoliciesPass(target, e, "was")}
<1>2. Queue(Suspected \cap was, Suspected \ was, TRUE, TRUE)
  BY <1>1 DEF DecidingFirst, Suspected
<1>3. req \in Requests /\ target \in DOMAIN req.uses
  BY <1>1, OneGateway DEF RenderInv
<1>4. (Suspected \ was) \cap StillFailing = {}
  <2> SUFFICES ASSUME NEW e \in StillFailing, e \notin was PROVE FALSE
    OBVIOUS
  <2>1. e \notin Suspects(target, "was") /\ PoliciesPass(target, e, "was")
    BY DEF StillFailing
  <2> QED BY <1>1, <1>3, <2>1, JudgedBefore
<1>5. (Suspected \cap was) \cup (Suspected \ was) = Suspected /\ (Suspected \cap was) \cap (Suspected \ was) = {}
  OBVIOUS
<1> HIDE DEF was
<1> QED BY <1>1, <1>2, <1>4, <1>5, Queuing

LEMMA GiveUp_Inv ==
  ASSUME RenderInv, GiveUp PROVE RenderInv'
<1> USE DEF RenderInv
<1>1. CASE Answer("error")
  BY <1>1, Answering
<1>2. CASE /\ pc \in {"before", "users"} /\ req.kind = "policy" /\ stopped' = TRUE /\ pc' = "next"
           /\ UNCHANGED <<req, target, todo, screen, first, rest, scan, causes, answer>>
  <2>1. /\ Dropped' = Dropped /\ RootPasses' = RootPasses /\ GroupPasses' = GroupPasses
        /\ Breaking' = Breaking /\ (Linted' <=> Linted)
    BY <1>2, FrozenPolicy
  <2>2. PolicyWay'
    BY <1>2, <2>1 DEF PolicyWay, Screened
  <2>3. GatewayWay' /\ EndpointWay' /\ ScanOK' /\ AnswerIsRight'
    BY <1>2 DEF GatewayWay, EndpointWay, ScanOK, AnswerIsRight, AdmittedBreaksNothing, DeniedForItsOwnDoing
  <2> QED BY <1>2, <2>2, <2>3
<1> QED BY <1>1, <1>2 DEF GiveUp

\* A step of a scan.
LEMMA Scanning ==
  ASSUME RenderInv, pc = "judge", UNCHANGED <<req, pc, target, todo, screen, causes, stopped, answer>>, ScanOK'
  PROVE  RenderInv'
<1> USE DEF RenderInv
<1>1. /\ (RootNow' <=> RootNow) /\ (RootWas' <=> RootWas) /\ (GroupNow' <=> GroupNow) /\ (GroupWas' <=> GroupWas)
  BY Frozen
<1>2. /\ Dropped' = Dropped /\ RootPasses' = RootPasses /\ GroupPasses' = GroupPasses
      /\ Breaking' = Breaking /\ (Linted' <=> Linted)
  BY FrozenPolicy
<1>3. GatewayWay' /\ EndpointWay'
  BY <1>1 DEF GatewayWay, EndpointWay
<1>4. PolicyWay'
  BY <1>2 DEF PolicyWay, Screened
<1>5. AnswerIsRight'
  BY DEF AnswerIsRight, AdmittedBreaksNothing, DeniedForItsOwnDoing
<1> QED BY <1>3, <1>4, <1>5

LEMMA CutOff_Inv ==
  ASSUME RenderInv, CutOff PROVE RenderInv'
<1>1. /\ pc = "judge" /\ scan' = [scan EXCEPT !.cut = TRUE]
      /\ UNCHANGED <<req, pc, target, todo, screen, first, rest, causes, stopped, answer>>
  BY DEF CutOff
<1>2. scan \in Scan
  BY <1>1 DEF RenderInv, ScanOK
<1>3. /\ scan' \in Scan /\ scan'.broken = scan.broken /\ scan'.already = scan.already
      /\ scan'.compare = scan.compare /\ scan'.decides = scan.decides
  BY <1>1, <1>2 DEF Scan
<1>4. /\ (RootNow' <=> RootNow) /\ (RootWas' <=> RootWas) /\ (GroupNow' <=> GroupNow) /\ (GroupWas' <=> GroupWas)
      /\ Suspected' = Suspected /\ NewlyFailing' = NewlyFailing /\ StillFailing' = StillFailing /\ Applied' = Applied
  BY <1>1, Frozen
<1>5. ScanOK'
  BY <1>1, <1>3, <1>4 DEF RenderInv, ScanOK
<1> QED BY <1>1, <1>5, Scanning

LEMMA Judge_Inv ==
  ASSUME RenderInv, NEW e, Judge(e) PROVE RenderInv'
<1> USE DEF RenderInv
<1> DEFINE alone   == e \in first /\ ~ scan.compare
           already == ~ alone /\ ~ Unit(target, e, "was")
<1>1. /\ pc = "judge" /\ e \in Judging
      /\ scan' = IF Unit(target, e, "now") THEN scan
                 ELSE IF already THEN [scan EXCEPT !.already = TRUE]
                 ELSE [scan EXCEPT !.broken = @ + 1]
      /\ first' = first \ {e} /\ rest' = rest \ {e}
      /\ UNCHANGED <<req, pc, target, todo, screen, causes, stopped, answer>>
  BY DEF Judge, JudgeOne
<1>2. scan \in Scan /\ first \cup rest \subseteq Suspected /\ first \cap rest = {}
  BY <1>1 DEF ScanOK
<1>3. e \in first \cup rest
  BY <1>1 DEF Judging
<1>4. /\ (RootNow' <=> RootNow) /\ (RootWas' <=> RootWas) /\ (GroupNow' <=> GroupNow) /\ (GroupWas' <=> GroupWas)
      /\ Suspected' = Suspected /\ NewlyFailing' = NewlyFailing /\ StillFailing' = StillFailing /\ Applied' = Applied
  BY <1>1, Frozen
<1>5. e \in Served(target)
  BY <1>2, <1>3 DEF Suspected, Suspects, Masked, Rendered
<1>6. /\ Unit(target, e, "now") => e \notin NewlyFailing \cup StillFailing
      /\ ~ Unit(target, e, "now") /\ Unit(target, e, "was") => e \in NewlyFailing \ StillFailing
      /\ ~ Unit(target, e, "now") /\ ~ Unit(target, e, "was") => e \in StillFailing \ NewlyFailing
  BY <1>5 DEF NewlyFailing, StillFailing
<1>7. ScanOK'
  <2>1. CASE Unit(target, e, "now")
    <3>1. scan' = scan
      BY <1>1, <2>1
    <3> QED BY <1>1, <1>2, <1>4, <1>6, <2>1, <3>1 DEF ScanOK
  <2>2. CASE ~ Unit(target, e, "now") /\ already
    <3>1. scan' = [scan EXCEPT !.already = TRUE]
      BY <1>1, <2>2
    <3>2. /\ scan' \in Scan /\ scan'.broken = scan.broken /\ scan'.already
          /\ scan'.compare = scan.compare /\ scan'.decides = scan.decides
      BY <1>2, <3>1 DEF Scan
    <3>3. e \in StillFailing \ NewlyFailing
      BY <1>6, <2>2
    <3>4. CASE scan.compare
      BY <1>1, <1>2, <1>4, <3>2, <3>3, <3>4 DEF ScanOK
    <3>5. CASE ~ scan.compare
      <4>1. e \notin first /\ e \notin Applied
        BY <1>1, <1>3, <2>2, <3>5 DEF ScanOK
      <4> QED BY <1>1, <1>2, <1>4, <3>2, <3>3, <3>5, <4>1 DEF ScanOK
    <3> QED BY <3>4, <3>5
  <2>3. CASE ~ Unit(target, e, "now") /\ ~ already
    <3>1. scan' = [scan EXCEPT !.broken = @ + 1]
      BY <1>1, <2>3
    <3>2. /\ scan' \in Scan /\ scan'.broken > 0 /\ ~ (scan'.broken = 0) /\ (scan'.already <=> scan.already)
          /\ (scan'.compare <=> scan.compare) /\ (scan'.decides <=> scan.decides)
      BY <1>2, <3>1 DEF Scan
    <3>3. CASE scan.compare
      <4>1. e \in NewlyFailing \ StillFailing
        BY <1>6, <2>3, <3>3
      <4> QED BY <1>1, <1>2, <1>4, <3>2, <3>3, <4>1 DEF ScanOK
    <3>4. CASE ~ scan.compare
      <4>1. NewlyFailing = {}
        BY <1>1, <3>4, FailingRoot DEF ScanOK
      <4>2. e \in first /\ e \in StillFailing
        BY <1>6, <2>3, <3>4, <4>1
      <4>3. e \in Applied /\ e \in Suspected
        BY <1>1, <1>2, <3>4, <4>2 DEF ScanOK
      <4> QED BY <1>1, <1>2, <1>4, <3>2, <3>4, <4>2, <4>3 DEF ScanOK
    <3> QED BY <3>3, <3>4
  <2> QED BY <2>1, <2>2, <2>3
<1> QED BY <1>1, <1>7, Scanning

\* What a scan that is over says of its gateway.
ScanSays == NewlyFailing # {} \/ ((GroupWas \/ (req.kind = "policy" /\ req.create)) /\ ~ GroupNow /\ StillFailing = {})

LastConfigSays ==
  \/ Suspected \cap Applied \cap (NewlyFailing \cup StillFailing) # {}
  \/ ~ GroupNow /\ NewlyFailing \cup StillFailing = {}

LEMMA FindingIsRight ==
  ASSUME RenderInv, Scanned, req.kind \in {"gateway", "policy"}
  PROVE  /\ Finding \in {"refused", "unknown", "accepted"}
         /\ scan.compare /\ Finding = "refused" => ScanSays
         /\ scan.compare /\ Finding = "accepted" => ~ ScanSays
         /\ ~ scan.compare /\ Finding = "refused" => LastConfigSays
         /\ ~ scan.compare /\ Finding = "accepted" => ~ LastConfigSays
<1>1. pc = "judge" /\ scan \in Scan /\ first \cup rest \subseteq Suspected
      /\ (scan.cut \/ scan.broken = MaxEntryCauses \/ Judging = {})
  BY DEF Scanned, RenderInv, ScanOK
<1>2. scan.broken \in Nat /\ MaxEntryCauses \in Nat \ {0} /\ scan.cut \in BOOLEAN /\ scan.already \in BOOLEAN
      /\ scan.compare \in BOOLEAN /\ scan.decides \in BOOLEAN
  BY <1>1, RenderAssumption DEF Scan
<1>3. req \in Requests /\ target \in DOMAIN req.uses /\ RootNow /\ Linted
  BY <1>1, OneGateway DEF RenderInv, GatewayWay
<1>4. /\ NewlyFailing \subseteq Suspected
      /\ ~ GroupNow => Suspected = ServedNow
      /\ StillFailing \subseteq ServedNow
  BY <1>3, SuspectsSuffice DEF StillFailing, ServedNow
<1>5. req.kind = "policy" => RootWas
  BY <1>3, RequestTyped DEF RootNow, RootWas, Root
<1>6. Finding = IF scan.broken > 0 \/ (scan.cut /\ Decided) THEN "refused"
                ELSE IF scan.cut THEN "unknown"
                ELSE IF scan.already \/ GroupNow THEN "accepted"
                ELSE IF RootWas /\ ~ GroupWas /\ ~ (req.kind = "policy" /\ req.create) THEN "accepted"
                ELSE "refused"
  BY DEF Finding, GroupNow, GroupWas, RootWas
<1>7. scan.broken = 0 /\ ~ scan.cut => first = {} /\ rest = {}
  BY <1>1, <1>2 DEF Judging
<1>8. Finding \in {"refused", "unknown", "accepted"}
  BY <1>6
<1>9. CASE scan.compare
  <2>1. /\ req.kind = "gateway" => RootWas
        /\ scan.broken > 0 => NewlyFailing # {}
        /\ scan.broken = 0 => Suspected \cap NewlyFailing \subseteq first \cup rest
        /\ scan.already => StillFailing # {}
        /\ ~ scan.already => Suspected \cap StillFailing \subseteq first \cup rest
        /\ scan.decides => GroupWas /\ ~ GroupNow /\ rest \cap StillFailing = {}
    BY <1>1, <1>9 DEF RenderInv, ScanOK
  <2>2. CASE scan.broken > 0
    BY <1>6, <1>8, <1>9, <2>1, <2>2 DEF ScanSays
  <2>3. CASE scan.broken = 0 /\ scan.cut
    <3>1. Decided => ScanSays
      BY <1>4, <2>1, <2>3 DEF Decided, ScanSays
    <3> QED BY <1>2, <1>6, <1>9, <2>3, <3>1
  <2>4. CASE scan.broken = 0 /\ ~ scan.cut
    <3>1. NewlyFailing = {} /\ (~ scan.already => Suspected \cap StillFailing = {})
      BY <1>4, <1>7, <2>1, <2>4
    <3>2. CASE scan.already \/ GroupNow
      BY <1>2, <1>6, <1>9, <2>1, <2>4, <3>1, <3>2 DEF ScanSays
    <3>3. CASE ~ scan.already /\ ~ GroupNow
      <4>1. StillFailing = {}
        BY <1>4, <3>1, <3>3
      <4>2. RootWas
        BY <1>5, <2>1
      <4> QED BY <1>2, <1>6, <1>9, <2>4, <3>1, <3>3, <4>1, <4>2 DEF ScanSays
    <3> QED BY <3>2, <3>3
  <2> QED BY <1>2, <2>2, <2>3, <2>4
<1>10. CASE ~ scan.compare
  <2>1. /\ req.kind = "gateway" /\ ~ RootWas /\ ~ scan.decides
        /\ scan.broken > 0 => Suspected \cap Applied \cap (NewlyFailing \cup StillFailing) # {}
        /\ scan.broken = 0 => Suspected \cap Applied \cap (NewlyFailing \cup StillFailing) \subseteq first
        /\ scan.already => StillFailing # {}
        /\ ~ scan.already /\ scan.broken = 0 => Suspected \cap (NewlyFailing \cup StillFailing) \subseteq first \cup rest
    BY <1>1, <1>10 DEF RenderInv, ScanOK
  <2>2. CASE scan.broken > 0
    BY <1>6, <1>8, <1>10, <2>1, <2>2 DEF LastConfigSays
  <2>3. CASE scan.broken = 0 /\ scan.cut
    BY <1>2, <1>6, <1>10, <2>1, <2>3 DEF Decided
  <2>4. CASE scan.broken = 0 /\ ~ scan.cut
    <3>1. Suspected \cap Applied \cap (NewlyFailing \cup StillFailing) = {}
      BY <1>7, <2>1, <2>4
    <3>2. CASE scan.already \/ GroupNow
      BY <1>2, <1>6, <1>10, <2>1, <2>4, <3>1, <3>2 DEF LastConfigSays
    <3>3. CASE ~ scan.already /\ ~ GroupNow
      <4>1. NewlyFailing \cup StillFailing = {}
        BY <1>4, <1>7, <2>1, <2>4, <3>3
      <4> QED BY <1>2, <1>6, <1>10, <2>1, <2>4, <3>3, <4>1 DEF LastConfigSays
    <3> QED BY <3>2, <3>3
  <2> QED BY <1>2, <2>2, <2>3, <2>4
<1> QED BY <1>2, <1>8, <1>9, <1>10

LEMMA JudgeServed_Inv ==
  ASSUME RenderInv, JudgeServed PROVE RenderInv'
<1>1. req.kind = "gateway" /\ Scanned /\ pc = "judge"
  BY DEF JudgeServed, Scanned
<1>2. /\ ~ req.create /\ ~ req.same /\ req.clash = "none" /\ RootNow /\ req \in Requests /\ target \in DOMAIN req.uses
      /\ scan.compare \in BOOLEAN /\ (scan.compare <=> RootWas)
  BY <1>1, OneGateway DEF RenderInv, GatewayWay, ScanOK, Scan
<1>3. /\ Finding \in {"refused", "unknown", "accepted"}
      /\ scan.compare /\ Finding = "refused" => ScanSays
      /\ scan.compare /\ Finding = "accepted" => ~ ScanSays
      /\ ~ scan.compare /\ Finding = "refused" => LastConfigSays
      /\ ~ scan.compare /\ Finding = "accepted" => ~ LastConfigSays
  BY <1>1, FindingIsRight
<1>4. Breaks <=> IF RootWas THEN ScanSays ELSE LastConfigSays
  BY <1>1, <1>2, GatewayBreaksWhat DEF ScanSays, LastConfigSays
<1>5. (Finding = "refused" => Breaks) /\ (Finding = "accepted" => ~ Breaks)
  BY <1>2, <1>3, <1>4
<1>6. CASE Finding = "refused"
  BY <1>5, <1>6, Answering DEF JudgeServed
<1>7. CASE Finding = "unknown"
  BY <1>7, Answering DEF JudgeServed
<1>8. CASE Finding = "accepted"
  BY <1>5, <1>8, Answering DEF JudgeServed
<1> QED BY <1>3, <1>6, <1>7, <1>8

LEMMA PolicyUseJudged_Inv ==
  ASSUME RenderInv, PolicyUseJudged PROVE RenderInv'
<1> USE DEF RenderInv
<1>1. /\ req.kind = "policy" /\ Scanned /\ pc = "judge" /\ pc' = "next"
      /\ causes' = IF Finding = "refused" THEN causes \cup {target} ELSE causes
      /\ stopped' = (stopped \/ Finding = "unknown")
      /\ UNCHANGED <<req, target, todo, screen, first, rest, scan, answer>>
  BY DEF PolicyUseJudged, Scanned
<1>2. target \in RootPasses \ Dropped /\ scan.compare /\ req.create \in BOOLEAN
  BY <1>1, RequestTyped DEF PolicyWay, ScanOK
<1>3. /\ Finding \in {"refused", "unknown", "accepted"}
      /\ Finding = "refused" => ScanSays
      /\ Finding = "accepted" => ~ ScanSays
  BY <1>1, <1>2, FindingIsRight
<1>4. target \in Breaking <=> ScanSays
  BY <1>1, <1>2, PolicyBreaksWhat DEF ScanSays
<1>5. /\ Dropped' = Dropped /\ RootPasses' = RootPasses /\ GroupPasses' = GroupPasses
      /\ Breaking' = Breaking /\ (Linted' <=> Linted)
  BY <1>1, FrozenPolicy
<1>6. causes' \subseteq Breaking /\ causes \subseteq causes'
  BY <1>1, <1>3, <1>4 DEF PolicyWay
<1>7. stopped' \/ Breaking \subseteq todo \cup causes'
  <2>1. stopped \/ Breaking \ {target} \subseteq todo \cup causes
    BY <1>1 DEF PolicyWay
  <2>2. stopped' \/ (target \in Breaking => target \in causes')
    BY <1>1, <1>3, <1>4
  <2> QED BY <1>1, <1>6, <2>1, <2>2
<1>8. \A g \in DOMAIN req.uses : Screened(g)'
  BY <1>1, <1>5, <1>6 DEF PolicyWay, Screened
<1>9. PolicyWay'
  BY <1>1, <1>5, <1>6, <1>7, <1>8 DEF PolicyWay
<1>10. GatewayWay' /\ EndpointWay' /\ ScanOK' /\ AnswerIsRight'
  BY <1>1 DEF GatewayWay, EndpointWay, ScanOK, AnswerIsRight, AdmittedBreaksNothing, DeniedForItsOwnDoing
<1> QED BY <1>1, <1>9, <1>10

LEMMA LintPolicyAlone_Inv ==
  ASSUME RenderInv, LintPolicyAlone PROVE RenderInv'
<1>1. pc \in {"alone", "aloneWas"} /\ req.kind = "policy" /\ req \in Requests
  BY RequestTyped DEF LintPolicyAlone, RenderInv, GatewayWay, EndpointWay
<1>2. CASE Answer("deny")
  <2>1. Breaks
    BY <1>1, <1>2, RequestTyped DEF LintPolicyAlone, Breaks, RenderInv, PolicyWay, Go, Answer
  <2> QED BY <1>2, <2>1, Answering
<1>3. CASE Go("aloneWas")
  <2>1. /\ pc' = "aloneWas" /\ ~ req.alone.now /\ ~ req.create /\ UNCHANGED <<req, screen, causes, stopped>>
    BY <1>1, <1>3 DEF LintPolicyAlone, Go, Answer, work
  <2>2. GatewayWay' /\ EndpointWay' /\ PolicyWay'
    BY <1>1, <2>1, FrozenPolicy DEF GatewayWay, EndpointWay, PolicyWay, RenderInv
  <2> QED BY <1>1, <1>3, <2>2, Going
<1>4. CASE Go("uses")
  <2>1. /\ pc' = "uses" /\ Linted /\ UNCHANGED <<req, screen, causes, stopped>>
    BY <1>1, <1>4 DEF LintPolicyAlone, Go, Answer, work, Linted, RenderInv, PolicyWay
  <2>2. GatewayWay' /\ EndpointWay' /\ PolicyWay'
    BY <1>1, <2>1, FrozenPolicy DEF GatewayWay, EndpointWay, PolicyWay, RenderInv
  <2> QED BY <1>1, <1>4, <2>2, Going
<1> QED BY <1>2, <1>3, <1>4 DEF LintPolicyAlone

LEMMA GatewaysUsing_Inv ==
  ASSUME RenderInv, GatewaysUsing PROVE RenderInv'
<1> USE DEF RenderInv
<1>1. /\ pc = "uses" /\ pc' = "screen" /\ todo' = DOMAIN req.uses
      /\ UNCHANGED <<req, target, screen, causes, stopped, answer>>
  BY DEF GatewaysUsing
<1>2. req.kind = "policy"
  BY <1>1, RequestTyped DEF GatewayWay, EndpointWay
<1>3. Breaking' = Breaking /\ (Linted' <=> Linted)
  BY <1>1, FrozenPolicy
<1>4. PolicyWay'
  BY <1>1, <1>2, <1>3 DEF PolicyWay
<1>5. GatewayWay' /\ EndpointWay' /\ ScanOK' /\ AnswerIsRight'
  BY <1>1, <1>2 DEF GatewayWay, EndpointWay, ScanOK, AnswerIsRight, AdmittedBreaksNothing, DeniedForItsOwnDoing
<1> QED BY <1>1, <1>2, <1>4, <1>5

\* A gateway that serves no endpoint passes with its root.
LEMMA EmptyGroup ==
  ASSUME req \in Requests, NEW g \in DOMAIN req.uses, req.uses[g].root.now, Served(g) = {}
  PROVE  Group(g, "now")
<1>1. Rendered(g) = {} /\ ~ req.uses[g].together.now
  BY RequestTyped DEF Rendered, Served, Facts
<1> QED BY <1>1 DEF Group

LEMMA ScreenPolicyUse_Inv ==
  ASSUME RenderInv, NEW g \in DOMAIN req.uses, ScreenPolicyUse(g) PROVE RenderInv'
<1> USE DEF RenderInv
<1>1. /\ pc = "screen" /\ g \in todo /\ todo' = todo \ {g}
      /\ UNCHANGED <<req, pc, target, first, rest, scan, stopped, answer>>
  BY DEF ScreenPolicyUse
<1>2. req.kind = "policy"
  BY <1>1, RequestTyped DEF GatewayWay, EndpointWay
<1>3. /\ Dropped' = Dropped /\ RootPasses' = RootPasses /\ GroupPasses' = GroupPasses
      /\ Breaking' = Breaking /\ (Linted' <=> Linted)
  BY <1>1, FrozenPolicy
<1>4. Dropped \subseteq Breaking
  BY <1>2, PolicyBreaksWhat
<1>5. /\ DOMAIN screen = DOMAIN req.uses /\ ~ stopped /\ Linted /\ causes \subseteq Breaking
      /\ todo \subseteq DOMAIN req.uses /\ \A h \in DOMAIN req.uses \ todo : Screened(h)
  BY <1>1, <1>2 DEF PolicyWay
<1>6. PICK found : /\ screen' = [screen EXCEPT ![g] = found]
                   /\ \/ g \in Dropped /\ found = "refused" /\ causes' = causes \cup {g}
                      \/ g \notin Dropped /\ found \in Found(g) /\ causes' = causes
  BY DEF ScreenPolicyUse, Dropped
<1>7. causes \subseteq causes' /\ causes' \subseteq Breaking
  BY <1>4, <1>5, <1>6
<1>8. /\ DOMAIN screen' = DOMAIN req.uses /\ screen'[g] = found
      /\ \A h \in DOMAIN req.uses \ {g} : screen'[h] = screen[h]
  BY <1>5, <1>6
<1>9. Screened(g)'
  <2>1. CASE g \in Dropped
    BY <1>3, <1>6, <1>8, <2>1 DEF Screened
  <2>2. CASE g \notin Dropped
    <3>1. /\ g \in RootPasses <=> req.uses[g].root.now
          /\ g \in GroupPasses <=> Group(g, "now")
          /\ Group(g, "now") => req.uses[g].root.now
      BY DEF RootPasses, GroupPasses, Group
    <3>2. /\ found \in {"rootFails", "error", "passed", "failed"}
          /\ found = "rootFails" => g \notin RootPasses
          /\ found \in {"passed", "failed"} => g \in RootPasses
          /\ found = "passed" => g \in GroupPasses
          /\ found = "failed" => g \notin GroupPasses
      BY <1>6, <2>2, <3>1, EmptyGroup DEF Found
    <3> QED BY <1>3, <1>8, <2>2, <3>2 DEF Screened
  <2> QED BY <2>1, <2>2
<1>10. \A h \in DOMAIN req.uses \ todo' : Screened(h)'
  <2> SUFFICES ASSUME NEW h \in DOMAIN req.uses, h \notin todo, h # g PROVE Screened(h)'
    BY <1>1, <1>9
  <2> QED BY <1>3, <1>5, <1>7, <1>8 DEF Screened
<1>11. PolicyWay'
  BY <1>1, <1>2, <1>3, <1>5, <1>7, <1>8, <1>10 DEF PolicyWay
<1>12. GatewayWay' /\ EndpointWay' /\ ScanOK' /\ AnswerIsRight'
  BY <1>1, <1>2 DEF GatewayWay, EndpointWay, ScanOK, AnswerIsRight, AdmittedBreaksNothing, DeniedForItsOwnDoing
<1> QED BY <1>1, <1>2, <1>11, <1>12

LEMMA EndScreening_Inv ==
  ASSUME RenderInv, EndScreening PROVE RenderInv'
<1> USE DEF RenderInv
<1>1. /\ pc = "screen" /\ todo = {} /\ pc' = "next"
      /\ todo' = {g \in DOMAIN req.uses : screen[g] # "refused"}
      /\ UNCHANGED <<req, target, screen, causes, stopped, answer>>
  BY DEF EndScreening
<1>2. req.kind = "policy"
  BY <1>1, RequestTyped DEF GatewayWay, EndpointWay
<1>3. /\ Dropped' = Dropped /\ RootPasses' = RootPasses /\ GroupPasses' = GroupPasses
      /\ Breaking' = Breaking /\ (Linted' <=> Linted)
  BY <1>1, FrozenPolicy
<1>4. Breaking \subseteq DOMAIN req.uses
  BY <1>2, PolicyBreaksWhat
<1>5. \A g \in DOMAIN req.uses : Screened(g)
  BY <1>1, <1>2 DEF PolicyWay
<1>6. \A g \in DOMAIN req.uses : Screened(g)'
  BY <1>1, <1>3, <1>5 DEF Screened
<1>7. todo' \subseteq DOMAIN req.uses \ Dropped /\ Breaking \subseteq todo' \cup causes
  BY <1>1, <1>4, <1>5 DEF Screened
<1>8. PolicyWay'
  BY <1>1, <1>2, <1>3, <1>6, <1>7 DEF PolicyWay
<1>9. GatewayWay' /\ EndpointWay' /\ ScanOK' /\ AnswerIsRight'
  BY <1>1, <1>2 DEF GatewayWay, EndpointWay, ScanOK, AnswerIsRight, AdmittedBreaksNothing, DeniedForItsOwnDoing
<1> QED BY <1>1, <1>2, <1>8, <1>9

LEMMA JudgePolicyUse_Inv ==
  ASSUME RenderInv, NEW g \in DOMAIN req.uses, JudgePolicyUse(g) PROVE RenderInv'
<1> USE DEF RenderInv
<1>1. /\ pc = "next" /\ g \in todo /\ target' = g /\ todo' = todo \ {g}
      /\ stopped' = (stopped \/ screen[g] = "error")
      /\ pc' = IF screen[g] = "failed" THEN "before" ELSE IF screen[g] = "passed" THEN "judge" ELSE "next"
      /\ first' = IF screen[g] = "passed" THEN Suspects(g, "now") ELSE {}
      /\ rest' = {} /\ scan' = NoScan
      /\ UNCHANGED <<req, screen, causes, answer>>
  BY DEF JudgePolicyUse
<1>2. req.kind = "policy"
  BY <1>1, RequestTyped DEF GatewayWay, EndpointWay
<1>3. /\ Dropped' = Dropped /\ RootPasses' = RootPasses /\ GroupPasses' = GroupPasses
      /\ Breaking' = Breaking /\ (Linted' <=> Linted)
  BY <1>1, FrozenPolicy
<1>4. /\ Breaking \subseteq Dropped \cup RootPasses
  BY <1>2, PolicyBreaksWhat
<1>5. /\ todo \subseteq DOMAIN req.uses \ Dropped /\ \A h \in DOMAIN req.uses : Screened(h)
      /\ stopped \/ Breaking \subseteq todo \cup causes
      /\ causes \subseteq Breaking /\ Linted
  BY <1>1, <1>2 DEF PolicyWay
<1>6. /\ screen[g] = "rootFails" => g \notin Breaking
      /\ screen[g] \in {"rootFails", "error", "passed", "failed"} \/ g \in causes
      /\ g \notin Dropped
  BY <1>1, <1>4, <1>5 DEF Screened
<1>7. \A h \in DOMAIN req.uses : Screened(h)'
  BY <1>1, <1>3, <1>5 DEF Screened
<1>8. /\ (GroupNow' <=> g \in GroupPasses) /\ Suspected' = Suspects(g, "now")
  BY <1>1 DEF GroupNow, Group, Rendered, Served, Facts, GroupPasses, Suspected, Suspects, Masked
<1>9. /\ todo' \subseteq DOMAIN req.uses \ Dropped
      /\ stopped' \/ Breaking \ (IF pc' = "next" THEN {} ELSE {g}) \subseteq todo' \cup causes
  <2>1. stopped' \/ Breaking \ {g} \subseteq todo' \cup causes
    BY <1>1, <1>5
  <2>2. pc' = "next" => stopped' \/ g \notin Breaking \/ g \in causes
    BY <1>1, <1>5, <1>6 DEF Screened
  <2> QED BY <1>1, <1>5, <2>1, <2>2
<1>10. /\ pc' \in {"next", "before", "judge"}
       /\ pc' \in {"before", "judge"} => g \in RootPasses \ Dropped
       /\ pc' = "before" => g \notin GroupPasses
  BY <1>1, <1>5, <1>6 DEF Screened
<1>11. PolicyWay'
  BY <1>1, <1>2, <1>3, <1>5, <1>7, <1>8, <1>9, <1>10 DEF PolicyWay
<1>12. ScanOK'
  <2>1. scan' \in Scan /\ scan'.compare /\ scan'.broken = 0 /\ ~ scan'.already /\ ~ scan'.decides
    BY <1>1 DEF NoScan, Scan
  <2>2. pc' = "judge" => first' = Suspected' /\ rest' = {}
    BY <1>1, <1>8
  <2> QED BY <1>1, <1>2, <2>1, <2>2 DEF ScanOK
<1>13. GatewayWay' /\ EndpointWay' /\ AnswerIsRight'
  BY <1>1, <1>2 DEF GatewayWay, EndpointWay, AnswerIsRight, AdmittedBreaksNothing, DeniedForItsOwnDoing
<1> QED BY <1>1, <1>2, <1>10, <1>11, <1>12, <1>13

LEMMA PolicyAnswer_Inv ==
  ASSUME RenderInv, PolicyAnswer PROVE RenderInv'
<1>1. /\ pc = "next" /\ todo = {} /\ req \in Requests
      /\ Answer(IF causes # {} THEN "deny" ELSE IF stopped THEN "error" ELSE "admit")
  BY DEF PolicyAnswer, RenderInv
<1>2. req.kind = "policy"
  BY <1>1, RequestTyped DEF RenderInv, GatewayWay, EndpointWay
<1>3. Linted /\ causes \subseteq Breaking /\ (stopped \/ Breaking \subseteq causes)
  BY <1>1, <1>2 DEF RenderInv, PolicyWay
<1>4. Breaks <=> Breaking # {}
  BY <1>1, <1>2, <1>3, PolicyBreaksWhat
<1>5. CASE causes # {}
  BY <1>1, <1>3, <1>4, <1>5, Answering
<1>6. CASE causes = {} /\ stopped
  BY <1>1, <1>6, Answering
<1>7. CASE causes = {} /\ ~ stopped
  BY <1>1, <1>3, <1>4, <1>7, Answering
<1> QED BY <1>5, <1>6, <1>7

-----------------------------------------------------------------------------
(* An endpoint write.                                                      *)

LEMMA EndpointGoing ==
  ASSUME RenderInv, req.kind = "endpoint", NEW step, pc # "end", Go(step), step \in {"unit", "unitWas", "refs"},
         ~ req.trusted /\ req.clash = "none",
         step \in {"unit", "unitWas"} => RootNow,
         step = "unitWas" => ~ Own("now") /\ ~ req.create,
         step = "refs" /\ EndpointBreaks => req.gone
  PROVE  RenderInv'
<1>1. pc' = step /\ UNCHANGED <<req, target>>
  BY DEF Go
<1>2. (RootNow' <=> RootNow) /\ (Own("now")' <=> Own("now")) /\ (EndpointBreaks' <=> EndpointBreaks)
  BY <1>1, Frozen
<1>3. GatewayWay' /\ PolicyWay' /\ EndpointWay'
  BY <1>1, <1>2 DEF GatewayWay, PolicyWay, EndpointWay
<1> QED BY <1>1, <1>3, Going

LEMMA CheckEndpointRoot_Inv ==
  ASSUME RenderInv, CheckEndpointRoot PROVE RenderInv'
<1>1. /\ pc = "root" /\ req.kind = "endpoint" /\ ~ req.trusted /\ req.clash = "none"
  BY DEF CheckEndpointRoot, RenderInv, EndpointWay
<1>2. CASE RootNow
  <2>1. Go("unit")
    BY <1>2 DEF CheckEndpointRoot, RootNow
  <2> QED BY <1>1, <1>2, <2>1, EndpointGoing
<1>3. CASE ~ RootNow
  <2>1. Go("refs")
    BY <1>3 DEF CheckEndpointRoot, RootNow
  <2>2. EndpointBreaks => req.gone
    BY <1>1, <1>3 DEF EndpointBreaks, RootNow
  <2> QED BY <1>1, <1>3, <2>1, <2>2, EndpointGoing
<1> QED BY <1>2, <1>3

LEMMA CheckRender_Inv ==
  ASSUME RenderInv, CheckRender PROVE RenderInv'
<1>1. pc \in {"unit", "unitWas"} /\ req.kind = "endpoint" /\ req \in Requests
  BY RequestTyped DEF CheckRender, RenderInv, GatewayWay, PolicyWay
<1>2. /\ ~ req.trusted /\ req.clash = "none" /\ RootNow
      /\ pc = "unitWas" => ~ Own("now") /\ ~ req.create
  BY <1>1 DEF RenderInv, EndpointWay
<1>3. EndpointBreaks <=> req.gone \/ (~ Own("now") /\ (req.create \/ Own("was")))
  BY <1>1, <1>2 DEF EndpointBreaks, RootNow
<1>4. CASE Answer("deny")
  <2>1. Breaks
    BY <1>1, <1>2, <1>3, <1>4 DEF CheckRender, Breaks, Go, Answer
  <2> QED BY <1>4, <2>1, Answering
<1>5. CASE Go("unitWas")
  <2>1. ~ Own("now") /\ ~ req.create
    BY <1>1, <1>2, <1>5 DEF CheckRender, Go, Answer
  <2> QED BY <1>1, <1>2, <1>5, <2>1, EndpointGoing
<1>6. CASE Go("refs")
  <2>1. EndpointBreaks => req.gone
    BY <1>1, <1>2, <1>3, <1>6 DEF CheckRender, Go, Answer
  <2> QED BY <1>1, <1>2, <1>6, <2>1, EndpointGoing
<1> QED BY <1>4, <1>5, <1>6 DEF CheckRender

LEMMA ReadPolicies_Inv ==
  ASSUME RenderInv, ReadPolicies PROVE RenderInv'
<1>1. pc = "refs" /\ req.kind = "endpoint"
  BY RequestTyped DEF ReadPolicies, RenderInv, GatewayWay, PolicyWay
<1>2. Breaks <=> req.gone
  BY <1>1 DEF Breaks, EndpointBreaks, RenderInv, EndpointWay
<1>3. CASE req.gone
  BY <1>2, <1>3, Answering DEF ReadPolicies
<1>4. CASE ~ req.gone
  BY <1>2, <1>4, Answering DEF ReadPolicies
<1> QED BY <1>3, <1>4

-----------------------------------------------------------------------------
(* The answers.                                                            *)

LEMMA Render_Init ==
  ASSUME Init PROVE RenderInv
<1>1. /\ req \in Requests /\ pc = FirstCheck(req) /\ answer = "none" /\ causes = {} /\ ~ stopped
      /\ screen = [g \in DOMAIN req.uses |-> "unseen"] /\ target = CHOOSE g \in DOMAIN req.uses : TRUE
  BY DEF Init
<1>2. req.kind \in {"gateway", "policy", "endpoint"} /\ req.create \in BOOLEAN
  BY <1>1, RequestTyped
<1>3. req.kind # "policy" => DOMAIN req.uses = {target}
  <2>1. req.kind # "policy" => \E g \in Gateways : DOMAIN req.uses = {g}
    BY <1>1, RenderAssumption
  <2> QED BY <1>1, <2>1
<1>4. GatewayWay
  BY <1>1, <1>2 DEF GatewayWay, FirstCheck
<1>5. PolicyWay
  BY <1>1, <1>2 DEF PolicyWay, FirstCheck
<1>6. EndpointWay
  BY <1>1, <1>2 DEF EndpointWay, EndpointBreaks, FirstCheck
<1>7. ScanOK /\ AnswerIsRight
  BY <1>1, <1>2 DEF ScanOK, FirstCheck, AnswerIsRight, AdmittedBreaksNothing, DeniedForItsOwnDoing
<1> QED BY <1>1, <1>3, <1>4, <1>5, <1>6, <1>7 DEF RenderInv

LEMMA Render_Stutter ==
  ASSUME RenderInv, UNCHANGED vars PROVE RenderInv'
<1>1. UNCHANGED <<req, pc, target, todo, screen, first, rest, scan, causes, stopped, answer>>
  BY DEF vars, work
<1>2. /\ (RootNow' <=> RootNow) /\ (RootWas' <=> RootWas) /\ (GroupNow' <=> GroupNow) /\ (GroupWas' <=> GroupWas)
      /\ Suspected' = Suspected /\ NewlyFailing' = NewlyFailing /\ StillFailing' = StillFailing /\ Applied' = Applied
      /\ (Own("now")' <=> Own("now")) /\ (EndpointBreaks' <=> EndpointBreaks) /\ (Breaks' <=> Breaks)
  BY <1>1, Frozen
<1>3. /\ Dropped' = Dropped /\ RootPasses' = RootPasses /\ GroupPasses' = GroupPasses
      /\ Breaking' = Breaking /\ (Linted' <=> Linted)
  BY <1>1, FrozenPolicy
<1>4. GatewayWay' /\ EndpointWay'
  BY <1>1, <1>2 DEF RenderInv, GatewayWay, EndpointWay
<1>5. PolicyWay'
  BY <1>1, <1>2, <1>3 DEF RenderInv, PolicyWay, Screened
<1>6. ScanOK'
  BY <1>1, <1>2 DEF RenderInv, ScanOK
<1>7. AnswerIsRight'
  BY <1>1, <1>2 DEF RenderInv, AnswerIsRight, AdmittedBreaksNothing, DeniedForItsOwnDoing
<1> QED BY <1>1, <1>4, <1>5, <1>6, <1>7 DEF RenderInv

LEMMA Render_Step ==
  ASSUME RenderInv, [Next]_vars PROVE RenderInv'
<1>1. CASE Unavailable
  BY <1>1, Unavailable_Inv
<1>2. CASE SameConfig
  BY <1>2, SameConfig_Inv
<1>3. CASE RefuseNewClashes
  BY <1>3, RefuseNewClashes_Inv
<1>4. CASE CheckRoot
  BY <1>4, CheckRoot_Inv
<1>5. CASE RootVerdict
  BY <1>5, RootVerdict_Inv
<1>6. CASE WarnWaiting
  BY <1>6, WarnWaiting_Inv
<1>7. CASE CheckGroup
  BY <1>7, CheckGroup_Inv
<1>8. CASE StoredRoot
  BY <1>8, StoredRoot_Inv
<1>9. CASE CheckBefore
  BY <1>9, CheckBefore_Inv
<1>10. CASE DecidingFirst
  BY <1>10, DecidingFirst_Inv
<1>11. CASE GiveUp
  BY <1>11, GiveUp_Inv
<1>12. CASE \E e \in EndpointsOf[target] : Judge(e)
  BY <1>12, Judge_Inv
<1>13. CASE CutOff
  BY <1>13, CutOff_Inv
<1>14. CASE JudgeServed
  BY <1>14, JudgeServed_Inv
<1>15. CASE LintPolicyAlone
  BY <1>15, LintPolicyAlone_Inv
<1>16. CASE GatewaysUsing
  BY <1>16, GatewaysUsing_Inv
<1>17. CASE EndScreening
  BY <1>17, EndScreening_Inv
<1>18. CASE PolicyUseJudged
  BY <1>18, PolicyUseJudged_Inv
<1>19. CASE PolicyAnswer
  BY <1>19, PolicyAnswer_Inv
<1>20. CASE \E g \in DOMAIN req.uses : ScreenPolicyUse(g)
  BY <1>20, ScreenPolicyUse_Inv
<1>21. CASE \E g \in DOMAIN req.uses : JudgePolicyUse(g)
  BY <1>21, JudgePolicyUse_Inv
<1>22. CASE CheckEndpointRoot
  BY <1>22, CheckEndpointRoot_Inv
<1>23. CASE CheckRender
  BY <1>23, CheckRender_Inv
<1>24. CASE ReadPolicies
  BY <1>24, ReadPolicies_Inv
<1>25. CASE UNCHANGED vars
  BY <1>25, Render_Stutter
<1> QED
  BY <1>1, <1>2, <1>3, <1>4, <1>5, <1>6, <1>7, <1>8, <1>9, <1>10, <1>11, <1>12, <1>13, <1>14, <1>15,
     <1>16, <1>17, <1>18, <1>19, <1>20, <1>21, <1>22, <1>23, <1>24, <1>25 DEF Next

\* checkGatewayRender, checkPolicyRender, checkRender: for any endpoints, any
\* facts of their documents and any check that is cut off or fails, a write is
\* admitted only if it breaks nothing that is served, and refused only for what
\* it breaks itself.
THEOREM AnswersAreRight == Spec => []AnswerIsRight
<1>1. Init => RenderInv
  BY Render_Init
<1>2. RenderInv /\ [Next]_vars => RenderInv'
  BY Render_Step
<1>3. RenderInv => AnswerIsRight
  BY DEF RenderInv
<1> QED BY <1>1, <1>2, <1>3, PTL DEF Spec

-----------------------------------------------------------------------------
(* The rules over a history of writes.                                     *)

RulesTyped ==
  /\ here \in DOMAIN Worlds
  /\ gw \in Gateway \cup {None} /\ ep \in EndpointSpec \cup {None}
  /\ pol \in Policy \cup {None} /\ ac \in Source \cup {None}

\* What a step writes is of the world it is in.
LEMMA WritesTyped ==
  ASSUME RulesTyped
  PROVE  /\ Worlds[here].gateways \subseteq Gateway /\ Worlds[here].stored \subseteq Gateway
         /\ Worlds[here].endpoints \subseteq EndpointSpec /\ Worlds[here].policies \subseteq Policy
         /\ Worlds[here].sources \subseteq Source
BY WorldsAssumption DEF RulesTyped

\* What is written is typed.
LEMMA RulesTyped_Step ==
  ASSUME RulesTyped, [NextRules]_rules PROVE RulesTyped'
<1>1. /\ here' = here
      /\ gw' \in {gw, None} \cup Worlds[here].gateways /\ ep' \in {ep, None} \cup Worlds[here].endpoints
      /\ pol' \in {pol, None} \cup Worlds[here].policies /\ ac' \in {ac, None} \cup Worlds[here].sources
  BY DEF NextRules, rules, WriteGateway, DeleteGateway, WriteEndpoint, DeleteEndpoint, WritePolicy, DeletePolicy,
     WriteSource, DeleteSource
<1> QED BY <1>1, WritesTyped DEF RulesTyped

LEMMA RulesTyped_Init ==
  ASSUME InitRules PROVE RulesTyped
<1>1. Worlds[here].stored \subseteq Gateway
  BY WorldsAssumption DEF InitRules
<1> QED BY <1>1 DEF InitRules, RulesTyped

-----------------------------------------------------------------------------
\* Nothing Enterprise is set on a gateway that an edit leaves on CE, save what
\* was there before.
LEMMA FieldsOnCE ==
  ASSUME NEW old \in Gateway \cup {None}, NEW new \in Gateway, new.edition = "CE", EEOnCE(old, new) = {},
         NEW f \in EEFields, Sets(new, f)
  PROVE  old # None /\ old.edition = "CE" /\ Sets(old, f) /\ <<"ee", f>> \in Untouched(old, new)
<1>1. old # None /\ old.edition = "CE" /\ KeptOnCE(old, new, f)
  BY DEF EEOnCE
<1>2. Sets(old, f) /\ (old[f] = new[f] \/ f \in {"openapi", "dragonfly"})
  BY <1>1 DEF KeptOnCE, Sets
<1> QED BY <1>1, <1>2 DEF Untouched

\* eeNamespacesOnCE, eeFieldsOnCE, validateEntries, validatePolicyNamespaces,
\* checkPolicyRender: through any history of writes, by whatever specs, nothing
\* Enterprise ends up on a Community gateway that was not stored there before.
THEOREM EnterpriseStaysOffCE == SpecRules => []NothingEnterpriseOnCE
<1> DEFINE Inv == RulesTyped /\ NothingEnterpriseOnCE
<1>1. InitRules => Inv
  <2> SUFFICES ASSUME InitRules PROVE Inv
    OBVIOUS
  <2>1. ~ EEInUse /\ \A f \in EEFields : <<"ee", f>> \in kept
    BY DEF InitRules, EEInUse
  <2> QED BY <2>1, RulesTyped_Init DEF NothingEnterpriseOnCE
<1>2. Inv /\ [NextRules]_rules => Inv'
  <2> SUFFICES ASSUME Inv, [NextRules]_rules PROVE NothingEnterpriseOnCE'
    BY RulesTyped_Step
  <2>1. ASSUME NEW new \in Worlds[here].gateways, NEW w, WriteGateway(new, w) PROVE NothingEnterpriseOnCE'
    <3>1. /\ new \in Gateway /\ gw \in Gateway \cup {None} /\ gw' = new /\ UNCHANGED <<ep, pol>>
          /\ EEOnCE(gw, new) = {} /\ (gw # None => kept' = kept \cap Untouched(gw, new))
      BY <2>1, WritesTyped DEF WriteGateway, GatewayErrors, RulesTyped
    <3>2. EEInUse' <=> EEInUse
      BY <3>1 DEF EEInUse
    <3>3. CASE new.edition = "CE"
      <4>1. \A f \in EEFields : Sets(new, f) => <<"ee", f>> \in kept'
        BY <3>1, <3>3, FieldsOnCE DEF NothingEnterpriseOnCE
      <4>2. gw = None \/ gw.edition = "EE" => ~ EEInUse
        BY <3>1, <3>3 DEF EEOnCE, When
      <4>3. gw # None /\ gw.edition # "EE" => ~ EEInUse
        BY <3>1 DEF NothingEnterpriseOnCE, Gateway
      <4> QED BY <3>1, <3>2, <4>1, <4>2, <4>3 DEF NothingEnterpriseOnCE
    <3>4. CASE new.edition # "CE"
      BY <3>1, <3>4 DEF NothingEnterpriseOnCE
    <3> QED BY <3>3, <3>4
  <2>2. ASSUME NEW new \in Worlds[here].endpoints, WriteEndpoint(new) PROVE NothingEnterpriseOnCE'
    <3>1. /\ new \in EndpointSpec /\ ep' = new /\ UNCHANGED <<gw, pol, kept>> /\ EndpointErrors(ep, new) = {}
          /\ ep \in EndpointSpec \cup {None}
      BY <2>2, WritesTyped DEF WriteEndpoint, RulesTyped
    <3>2. ASSUME gw # None, gw.edition = "CE", EEInUse' PROVE EEInUse
      <4>1. new.on = "g" /\ OnCE(new.on) /\ (new.ee \/ (new.policy /\ pol # None /\ pol.ee))
        BY <3>1, <3>2 DEF EEInUse, OnCE
      <4>2. CASE new.ee
        <5>1. ep # None /\ ep.on = new.on /\ <<ep.ee, ep.variant>> = <<new.ee, new.variant>>
          BY <3>1, <4>1, <4>2 DEF EndpointErrors, When
        <5> QED BY <4>1, <4>2, <5>1 DEF EEInUse
      <4>3. CASE new.policy /\ pol # None /\ pol.ee
        <5>1. ep # None /\ ep.on = new.on /\ ep.policy
          BY <3>1, <4>1, <4>3 DEF EndpointErrors, When
        <5> QED BY <4>1, <4>3, <5>1 DEF EEInUse
      <4> QED BY <4>1, <4>2, <4>3
    <3> QED BY <3>1, <3>2 DEF NothingEnterpriseOnCE, Sets
  <2>3. ASSUME NEW new \in Worlds[here].policies, WritePolicy(new) PROVE NothingEnterpriseOnCE'
    <3>1. /\ pol' = new /\ UNCHANGED <<gw, ep, kept>> /\ PolicyErrors(pol, new) = {}
      BY <2>3 DEF WritePolicy
    <3>2. ASSUME gw # None, gw.edition = "CE", EEInUse' PROVE EEInUse
      <4>1. CASE ep.policy /\ new.ee /\ ep.on = "g" /\ ep # None
        <5>1. pol # None /\ <<pol.ee, pol.variant>> = <<new.ee, new.variant>>
          BY <3>1, <3>2, <4>1 DEF PolicyErrors, When, OnCE
        <5> QED BY <4>1, <5>1 DEF EEInUse
      <4>2. CASE ep # None /\ ep.on = "g" /\ ep.ee
        BY <4>2 DEF EEInUse
      <4> QED BY <3>1, <3>2, <4>1, <4>2 DEF EEInUse
    <3> QED BY <3>1, <3>2 DEF NothingEnterpriseOnCE, Sets
  <2>4. CASE DeleteGateway
    BY <2>4 DEF DeleteGateway, NothingEnterpriseOnCE
  <2>5. CASE DeleteEndpoint \/ DeletePolicy
    BY <2>5 DEF DeleteEndpoint, DeletePolicy, NothingEnterpriseOnCE, EEInUse, Sets
  <2>6. CASE UNCHANGED <<gw, ep, pol, kept>>
    BY <2>6 DEF NothingEnterpriseOnCE, EEInUse, Sets
  <2>7. DeleteSource \/ (\E new \in Worlds[here].sources, w \in Worlds[here].writers : WriteSource(new, w))
          \/ UNCHANGED rules => UNCHANGED <<gw, ep, pol, kept>>
    BY DEF DeleteSource, WriteSource, rules
  <2> QED BY <2>1, <2>2, <2>3, <2>4, <2>5, <2>6, <2>7 DEF NextRules
<1> QED BY <1>1, <1>2, PTL DEF SpecRules

-----------------------------------------------------------------------------
\* What the operator is made to use anew is reviewed.
LEMMA GatewayUseReviewed ==
  ASSUME NEW old \in Gateway \cup {None}, NEW new \in Gateway, NEW a, NEW u \in Uses \ {"source"},
         InUse(new, a)[u] # InUse(old, a)[u]
  PROVE  InUse(new, a)[u].needs \subseteq
           LicenseReview(old, new) \cup PasswordReview(old, new) \cup JobReview(old, new)
<1>1. /\ InUse(new, a)[u] = IF new = None THEN Used(None, {}) ELSE InUseByGateway(new, u)
      /\ InUse(old, a)[u] = IF old = None THEN Used(None, {}) ELSE InUseByGateway(old, u)
  BY DEF InUse
<1>2. CASE new = None
  BY <1>1, <1>2 DEF Used
<1>3. CASE new # None /\ u = "mounted"
  <2>1. /\ InUse(new, a)[u].needs = {LicenseSecret(new)} \ {NoSecret}
        /\ old = None \/ LicenseSecret(old) # LicenseSecret(new)
    BY <1>1, <1>3 DEF InUseByGateway, Used
  <2>2. CASE new.license.ref \in {"s1", "s2"}
    <3>1. LicenseSecret(new) = Get(new.license.ref) /\ (old = None \/ old.license.ref # new.license.ref)
      BY <2>1, <2>2 DEF LicenseSecret
    <3> QED BY <2>1, <2>2, <3>1 DEF LicenseReview
  <2>3. CASE new.license.ref = "none" /\ new.license.external # "unset"
    <3>1. LicenseSecret(new) = CreateES
      BY <2>3 DEF LicenseSecret
    <3> QED BY <2>1, <2>3, <3>1 DEF LicenseReview, LicenseSourceMoved
  <2>4. CASE new.license.ref \notin {"s1", "s2"} /\ ~ (new.license.ref = "none" /\ new.license.external # "unset")
    BY <2>1, <2>4 DEF LicenseSecret
  <2> QED BY <2>2, <2>3, <2>4
<1>4. CASE new # None /\ u = "external"
  <2>1. /\ InUse(new, a)[u].needs = IF new.license.external # "unset" THEN {CreateES} ELSE {}
        /\ old = None \/ old.license.external # new.license.external
    BY <1>1, <1>4 DEF InUseByGateway, Used
  <2> QED BY <2>1 DEF LicenseReview
<1>5. CASE new # None /\ u = "password"
  <2>1. /\ InUse(new, a)[u].needs = IF new.dragonfly.enabled THEN Reads(new.dragonfly.password) ELSE {}
        /\ \/ old = None
           \/ <<old.dragonfly.enabled, old.dragonfly.password>> # <<new.dragonfly.enabled, new.dragonfly.password>>
    BY <1>1, <1>5 DEF InUseByGateway, Used
  <2>2. new.dragonfly.enabled \in BOOLEAN /\ (old # None => old.dragonfly.enabled \in BOOLEAN)
    BY DEF Gateway, Dragonfly
  <2> QED BY <2>1, <2>2 DEF PasswordReview
<1>6. CASE new # None /\ u = "job"
  <2>1. /\ InUse(new, a)[u].needs = IF new.job.enabled /\ new.job.borrows THEN {CreatePods} ELSE {}
        /\ old = None \/ old.job # new.job
    BY <1>1, <1>6 DEF InUseByGateway, Used
  <2> QED BY <2>1 DEF JobReview
<1> QED BY <1>2, <1>3, <1>4, <1>5, <1>6 DEF Uses

LEMMA SourceUseReviewed ==
  ASSUME NEW g, NEW old \in Source \cup {None}, NEW new \in Source,
         InUse(g, new)["source"] # InUse(g, old)["source"]
  PROVE  InUse(g, new)["source"].needs \subseteq SourceReview(old, new)
<1>1. InUse(g, new)["source"] = InUseBySource(new) /\ InUse(g, old)["source"] = InUseBySource(old)
  BY DEF InUse, Uses
<1>2. CASE new = None
  BY <1>1, <1>2 DEF InUseBySource, Used
<1>3. CASE new # None
  <2>1. /\ InUseBySource(new).needs = IF new.url # "none" THEN Reads(new.secret) ELSE {}
        /\ old = None \/ <<old.url, old.secret>> # <<new.url, new.secret>>
    BY <1>1, <1>3 DEF InUseBySource, Used
  <2> QED BY <1>1, <2>1 DEF SourceReview
<1> QED BY <1>2, <1>3

\* Whoever changes what is in use holds the rights to all of it.
LEMMA Recording ==
  ASSUME RightsHeld, NEW w, Record(gw', ac', w),
         \A u \in Uses : InUse(gw', ac')[u] # InUse(gw, ac)[u] => InUse(gw', ac')[u].needs \subseteq w
  PROVE  RightsHeld'
<1>1. \A u \in Uses : usedBy'[u] = IF InUse(gw', ac')[u] # InUse(gw, ac)[u] THEN w ELSE usedBy[u]
  BY DEF Record
<1>2. \A u \in Uses : InUse(gw', ac')[u].needs \subseteq usedBy'[u]
  BY <1>1 DEF RightsHeld
<1> QED BY <1>2 DEF RightsHeld

\* authorizeLicense, authorizeDragonflyPassword, authorizePostRestartJob,
\* authorizeSourceAuth: through any history of writes, whatever the operator
\* reads or runs for an object its last writer could have read or run.
THEOREM WritersHoldTheRights == SpecRules => []RightsHeld
<1> DEFINE Inv == RulesTyped /\ RightsHeld
<1>1. InitRules => Inv
  BY RulesTyped_Init DEF InitRules, RightsHeld
<1>2. Inv /\ [NextRules]_rules => Inv'
  <2> SUFFICES ASSUME Inv, [NextRules]_rules PROVE RightsHeld'
    BY RulesTyped_Step
  <2>1. ASSUME NEW new \in Worlds[here].gateways, NEW w, WriteGateway(new, w) PROVE RightsHeld'
    <3>1. /\ new \in Gateway /\ gw \in Gateway \cup {None} /\ gw' = new /\ ac' = ac /\ Record(gw', ac', w)
      BY <2>1, WritesTyped DEF WriteGateway, RulesTyped
    <3>2. LicenseReview(gw, new) \cup PasswordReview(gw, new) \cup JobReview(gw, new) \subseteq w
      BY <2>1 DEF WriteGateway, GatewayErrors
    <3>3. InUse(gw', ac')["source"] = InUse(gw, ac)["source"]
      BY <3>1 DEF InUse, Uses
    <3>4. \A u \in Uses : InUse(gw', ac')[u] # InUse(gw, ac)[u] => InUse(gw', ac')[u].needs \subseteq w
      BY <3>1, <3>2, <3>3, GatewayUseReviewed
    <3> QED BY <3>1, <3>4, Recording
  <2>2. ASSUME NEW new \in Worlds[here].sources, NEW w, WriteSource(new, w) PROVE RightsHeld'
    <3>1. /\ new \in Source /\ ac \in Source \cup {None} /\ ac' = new /\ gw' = gw /\ Record(gw', ac', w)
      BY <2>2, WritesTyped DEF WriteSource, RulesTyped
    <3>2. SourceReview(ac, new) \subseteq w
      BY <2>2 DEF WriteSource, SourceErrors
    <3>3. \A u \in Uses \ {"source"} : InUse(gw', ac')[u] = InUse(gw, ac)[u]
      BY <3>1 DEF InUse, Uses
    <3>4. \A u \in Uses : InUse(gw', ac')[u] # InUse(gw, ac)[u] => InUse(gw', ac')[u].needs \subseteq w
      BY <3>1, <3>2, <3>3, SourceUseReviewed
    <3> QED BY <3>1, <3>4, Recording
  <2>3. CASE DeleteGateway
    <3>1. gw' = None /\ ac' = ac /\ Record(gw', ac', {})
      BY <2>3 DEF DeleteGateway
    <3>2. \A u \in Uses : InUse(gw', ac')[u] # InUse(gw, ac)[u] => InUse(gw', ac')[u].needs \subseteq {}
      BY <3>1 DEF InUse, Uses, Used
    <3> QED BY <3>1, <3>2, Recording
  <2>4. CASE DeleteSource
    <3>1. ac' = None /\ gw' = gw /\ Record(gw', ac', {})
      BY <2>4 DEF DeleteSource
    <3>2. \A u \in Uses : InUse(gw', ac')[u] # InUse(gw, ac)[u] => InUse(gw', ac')[u].needs \subseteq {}
      BY <3>1 DEF InUse, Uses, Used, InUseBySource
    <3> QED BY <3>1, <3>2, Recording
  <2>5. CASE UNCHANGED <<gw, ac, usedBy>>
    BY <2>5 DEF RightsHeld
  <2>6. \/ DeleteEndpoint \/ DeletePolicy \/ UNCHANGED rules
        \/ \E new \in Worlds[here].endpoints : WriteEndpoint(new)
        \/ \E new \in Worlds[here].policies : WritePolicy(new)
        => UNCHANGED <<gw, ac, usedBy>>
    BY DEF DeleteEndpoint, DeletePolicy, WriteEndpoint, WritePolicy, rules
  <2> QED BY <2>1, <2>2, <2>3, <2>4, <2>5, <2>6 DEF NextRules
<1> QED BY <1>1, <1>2, PTL DEF SpecRules

-----------------------------------------------------------------------------
\* A spec without a conflict starts, or its container insists on what the pod
\* has acknowledged.
LEMMA NoConflictStarts ==
  ASSUME NEW lane \in Lanes, NEW run \in RunAs, ~ RunAsRootConflict(lane, run) \/ run = NoRunAs
  PROVE  KubeletStarts(lane, run) \/ (run.cNonRoot = "true" /\ run.pNonRoot = "false")
BY DEF Lanes, RunAs, NoRunAs, RunAsRootConflict, EffectiveRunAsRoot, KubeletStarts, RunsAsRoot, ContainerNonRoot, PodNonRoot

\* validateRunAsRootConflict and validateSidecarProbe against the builders'
\* merges: through any history of writes, an enabled Job or Dragonfly and a
\* sidecar's probe work, unless they were stored as they are before these rules.
THEOREM PodsThatAreAdmittedStart == SpecRules => []AdmittedPodsStart
<1> DEFINE Inv == RulesTyped /\ AdmittedPodsStart
<1>1. InitRules => Inv
  <2>1. InitRules => (\A lane \in Lanes : <<"run", lane>> \in kept) /\ <<"probe", "openapi">> \in kept
    BY DEF InitRules
  <2> QED BY <2>1, RulesTyped_Init DEF AdmittedPodsStart
<1>2. Inv /\ [NextRules]_rules => Inv'
  <2> SUFFICES ASSUME Inv, [NextRules]_rules PROVE AdmittedPodsStart'
    BY RulesTyped_Step
  <2>1. ASSUME NEW new \in Worlds[here].gateways, NEW w, WriteGateway(new, w) PROVE AdmittedPodsStart'
    <3>1. /\ new \in Gateway /\ gw \in Gateway \cup {None} /\ gw' = new
          /\ RunAsErrors(gw, new) = {} /\ NewProbeErrors(gw, new) = {}
          /\ gw # None => kept' = kept \cap Untouched(gw, new)
      BY <2>1, WritesTyped DEF WriteGateway, GatewayErrors, RulesTyped
    <3>2. ASSUME NEW lane \in Lanes, new[lane].enabled, <<"run", lane>> \notin kept'
          PROVE  KubeletStarts(lane, new[lane].run) \/ (new[lane].run.cNonRoot = "true" /\ new[lane].run.pNonRoot = "false")
      <4>1. new[lane].run \in RunAs
        BY <3>1, <3>2 DEF Lanes, Gateway, Job, Dragonfly
      <4>2. CASE gw # None /\ gw[lane].enabled /\ gw[lane].run = new[lane].run
        <5>1. <<"run", lane>> \in Untouched(gw, new)
          BY <3>2, <4>2 DEF Untouched
        <5> QED BY <3>1, <3>2, <4>2, <5>1 DEF AdmittedPodsStart
      <4>3. CASE ~ (gw # None /\ gw[lane].enabled /\ gw[lane].run = new[lane].run)
        <5>1. ~ RunAsRootConflict(lane, new[lane].run) \/ new[lane].run = NoRunAs
          BY <3>1, <3>2, <4>3 DEF RunAsErrors
        <5> QED BY <4>1, <5>1, NoConflictStarts
      <4> QED BY <4>2, <4>3
    <3>3. ASSUME ProbeErrors(new.openapi) # {} PROVE <<"probe", "openapi">> \in kept'
      <4>1. gw # None /\ gw.openapi.probe = new.openapi.probe /\ ProbeErrors(gw.openapi) # {}
        BY <3>1, <3>3 DEF NewProbeErrors
      <4>2. gw.openapi.enabled /\ new.openapi.enabled
        BY <3>3, <4>1 DEF ProbeErrors
      <4>3. <<"probe", "openapi">> \in Untouched(gw, new)
        BY <4>1, <4>2 DEF Untouched, When
      <4> QED BY <3>1, <4>1, <4>3 DEF AdmittedPodsStart
    <3> QED BY <3>1, <3>2, <3>3 DEF AdmittedPodsStart
  <2>2. CASE DeleteGateway
    BY <2>2 DEF DeleteGateway, AdmittedPodsStart
  <2>3. CASE UNCHANGED <<gw, kept>>
    BY <2>3 DEF AdmittedPodsStart
  <2>4. \/ DeleteEndpoint \/ DeletePolicy \/ DeleteSource \/ UNCHANGED rules
        \/ \E new \in Worlds[here].endpoints : WriteEndpoint(new)
        \/ \E new \in Worlds[here].policies : WritePolicy(new)
        \/ \E new \in Worlds[here].sources, w \in Worlds[here].writers : WriteSource(new, w)
        => UNCHANGED <<gw, kept>>
    BY DEF DeleteEndpoint, DeletePolicy, DeleteSource, WriteEndpoint, WritePolicy, WriteSource, rules
  <2> QED BY <2>1, <2>2, <2>3, <2>4 DEF NextRules
<1> QED BY <1>1, <1>2, PTL DEF SpecRules
=============================================================================
