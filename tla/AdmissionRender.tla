--------------------------- MODULE AdmissionRender ---------------------------
(***************************************************************************)
(* How the validating webhooks judge the config a write leads to.  A write *)
(* of a gateway, a policy or an endpoint is judged against what it changes *)
(* for the endpoints that are served: with the write ("now") and with what *)
(* is stored ("was").  Checks run one by one within the admission budget,  *)
(* and any of them may fail to run: the deadline cuts it off, or the       *)
(* validator is unavailable.  A check that a memo answers still runs after *)
(* the deadline, so a failed check says nothing of the next one.           *)
(*                                                                         *)
(* What krakend would say of every document involved is the request's      *)
(* facts.  The informer lists endpoints in no order, so what the code      *)
(* judges in the order of a list is judged here in any order.              *)
(***************************************************************************)
EXTENDS Naturals, FiniteSets

CONSTANTS
  Gateways,         \* the gateways a write is judged on
  EndpointsOf,      \* EndpointsOf[g]: the endpoints that reference g (and the policy)
  Requests,         \* the requests, with what is true of their documents
  MaxEntryCauses    \* the endpoints a denial names

\* What one endpoint's entries are in the render of its group: all there and
\* sound ("good") or not ("bad"); or some left out for a conflict, the rest
\* sound, those left out sound ("masked") or not ("hidden").
Parts == {"good", "bad", "masked", "hidden"}

Endpoint == [status : {"unjudged", "accepted", "invalid"},
             policy : {"sound", "failing", "missing"},
             was : Parts, now : Parts]

Both == [was : BOOLEAN, now : BOOLEAN]

Use(g) == [ce : BOOLEAN, root : Both, together : Both,
           ep : [EndpointsOf[g] -> Endpoint]]

ASSUME RenderAssumption ==
  /\ MaxEntryCauses \in Nat \ {0}
  /\ \A g \in Gateways : IsFiniteSet(EndpointsOf[g])
  /\ \A r \in Requests :
       /\ r.kind \in {"gateway", "policy", "endpoint"}
       /\ {r.create, r.same, r.drops, r.trusted, r.gone} \subseteq BOOLEAN
       /\ r.alone \in Both
       /\ r.clash \in {"none", "new", "capped"}
       /\ DOMAIN r.uses \subseteq Gateways
       /\ \A g \in DOMAIN r.uses : r.uses[g] \in Use(g)
       /\ r.kind # "policy" => \E g \in Gateways : DOMAIN r.uses = {g}
       /\ r.create => ~ r.same
       \* a policy is not in the root; entries fail together only if some are rendered
       /\ \A g \in DOMAIN r.uses :
            /\ r.kind = "policy" => (r.uses[g].root.was <=> r.uses[g].root.now)
            /\ \A v \in {"was", "now"} : r.uses[g].together[v] =>
                 \E e \in EndpointsOf[g] : r.uses[g].ep[e].status # "invalid" /\ r.uses[g].ep[e].policy # "missing"

VARIABLES
  req,      \* the request
  pc,       \* the check that runs next
  target,       \* the gateway it is about
  todo,     \* the gateways of a policy write still to be screened or judged
  screen,   \* screen[g]: what the screening of a policy write found on g
  first,    \* the suspects judged first
  rest,     \* the suspects judged after them
  scan,     \* what judging them found on this gateway
  causes,   \* the gateways that refuse a policy write
  stopped,  \* a gateway of a policy write could not be checked
  answer

work == <<todo, screen, first, rest, scan, causes, stopped>>
vars == <<req, pc, target, work, answer>>

Scan == [broken : Nat, already : BOOLEAN, cut : BOOLEAN,
         compare : BOOLEAN,    \* the first are judged with what is stored, too
         decides : BOOLEAN]    \* the group passed before the write

NoScan == [broken |-> 0, already |-> FALSE, cut |-> FALSE, compare |-> TRUE, decides |-> FALSE]

TypeOK ==
  /\ pc \in {"same", "clash", "root", "rootWas", "group", "storedRoot", "alone", "aloneWas",
             "uses", "screen", "next", "before", "users", "judge", "unit", "unitWas", "refs", "end"}
  /\ target \in DOMAIN req.uses
  /\ todo \subseteq DOMAIN req.uses
  /\ screen \in [DOMAIN req.uses -> {"unseen", "refused", "rootFails", "error", "passed", "failed"}]
  /\ {first, rest} \subseteq SUBSET EndpointsOf[target]
  /\ scan \in Scan /\ scan.broken <= MaxEntryCauses
  /\ causes \subseteq DOMAIN req.uses
  /\ stopped \in BOOLEAN
  /\ answer \in {"none", "admit", "deny", "error"}
  /\ pc = "end" <=> answer # "none"

-----------------------------------------------------------------------------
(* What the checks say.                                                    *)

Facts(g, e) == req.uses[g].ep[e]

\* servedEndpoints: not those already left out for their own failure.
Served(g) == {e \in EndpointsOf[g] : Facts(g, e).status # "invalid"}

\* A render leaves out the endpoints one of whose policies is missing.
Rendered(g) == {e \in Served(g) : Facts(g, e).policy # "missing"}

\* CheckPolicy of the policies e references; a policy write stands for its own.
PoliciesPass(g, e, v) ==
  Facts(g, e).policy # "failing" /\ (req.kind = "policy" => req.alone[v])

\* CheckEndpoint: each policy alone, then the root with the endpoint.
Unit(g, e, v) ==
  \/ Facts(g, e).policy = "missing"
  \/ /\ PoliciesPass(g, e, v)
     /\ req.uses[g].root[v]
     /\ Facts(g, e)[v] \in {"good", "masked"}

\* CheckGroup: the root with every served endpoint.
Group(g, v) ==
  /\ req.uses[g].root[v]
  /\ ~ req.uses[g].together[v]
  /\ \A e \in Rendered(g) : Facts(g, e)[v] # "bad"

Masked(g, v) == {e \in Rendered(g) : Facts(g, e)[v] \in {"masked", "hidden"}}

\* A mutant: a group that passes clears every endpoint of it.
SuspectsOfFailed(g, v) == IF Group(g, v) THEN {} ELSE Served(g)

\* Verdict.Suspect: the endpoints a group check did not judge.
Suspects(g, v) == IF Group(g, v) THEN Masked(g, v) ELSE Served(g)

-----------------------------------------------------------------------------
(* Before anything is judged.                                              *)

Root(v) == req.uses[target].root[v]

Go(step) == pc' = step /\ UNCHANGED <<req, target, work, answer>>

Answer(a) == answer' = a /\ pc' = "end" /\ UNCHANGED <<req, target, work>>

\* A check that cannot run before anything is decided: a 500.
Unavailable ==
  /\ pc \in {"same", "clash", "root", "rootWas", "storedRoot", "alone", "aloneWas", "uses",
             "unit", "unitWas", "refs"}
  /\ Answer("error")

SameConfig ==
  /\ pc = "same"
  /\ IF req.same THEN Answer("admit") ELSE Go("clash")

\* refuseNewGatewayClashes and refuseNewClashes; a capped render cannot tell.
RefuseNewClashes ==
  /\ pc = "clash"
  /\ IF req.clash = "none" THEN Go("root") ELSE Answer("deny")

CheckRoot ==
  /\ pc = "root" /\ req.kind = "gateway"
  /\ IF ~ Root("now") THEN IF req.create THEN Answer("deny") ELSE Go("rootWas")
     ELSE IF Served(target) = {} THEN Answer("admit") ELSE Go("group")

\* rootVerdict: a root that failed before the write too is not its doing.
RootVerdict ==
  /\ pc = "rootWas"
  /\ Answer(IF Root("was") THEN "deny" ELSE "admit")

\* warnWaiting: a create stands, whatever is found of the endpoints that wait.
WarnWaiting == pc = "group" /\ req.create /\ Answer("admit")

CheckGroup ==
  /\ pc = "group" /\ ~ req.create
  /\ \/ Answer("error")
     \/ IF Suspects(target, "now") = {} THEN Answer("admit") ELSE Go("storedRoot")

-----------------------------------------------------------------------------
(* The scan of the suspects of one gateway.                                *)

\* Judge fs, then rs.
Queue(fs, rs, compare, decides) ==
  /\ first' = fs /\ rest' = rs
  /\ scan' = [NoScan EXCEPT !.compare = compare, !.decides = decides]
  /\ pc' = "judge"
  /\ UNCHANGED <<req, target, todo, screen, causes, stopped, answer>>

\* judgeServed and judgeUnderFailingRoot: with a stored root that fails, only
\* what the last applied config serves is held against the write.
StoredRoot ==
  /\ pc = "storedRoot"
  /\ LET suspects == Suspects(target, "now")
         accepted == {e \in suspects : Facts(target, e).status = "accepted"}
     IN  IF ~ Root("was") THEN Queue(accepted, suspects \ accepted, FALSE, FALSE)
         ELSE IF Group(target, "now") THEN Queue(suspects, {}, TRUE, FALSE)
         ELSE Go("before")

CheckBefore ==
  /\ pc = "before"
  /\ IF Group(target, "was") THEN Go("users") ELSE Queue(Suspects(target, "now"), {}, TRUE, FALSE)

\* failingEndpointsDecidingFirst, usersOfFailingPolicies: those the stored
\* group did not judge come first.
DecidingFirst ==
  /\ pc = "users"
  /\ LET was == Suspects(target, "was") \cup {e \in Served(target) : ~ PoliciesPass(target, e, "was")}
     IN  Queue(Suspects(target, "now") \cap was, Suspects(target, "now") \ was, TRUE, TRUE)

\* The check that cannot run ends the judging of this gateway.
GiveUp ==
  /\ pc \in {"before", "users"}
  /\ \/ req.kind = "gateway" /\ Answer("error")
     \/ /\ req.kind = "policy"
        /\ stopped' = TRUE /\ pc' = "next"
        /\ UNCHANGED <<req, target, todo, screen, first, rest, scan, causes, answer>>

\* Under a failing root a broken endpoint ends the scan before the rest.
Judging == IF first # {} THEN first
           ELSE IF ~ scan.compare /\ scan.broken > 0 THEN {} ELSE rest

\* scan.judge of one suspect.  Without what is stored to compare with, every
\* failure is the write's.
JudgeOne(e) ==
  /\ pc = "judge" /\ ~ scan.cut /\ e \in Judging
  /\ LET alone   == e \in first /\ ~ scan.compare
         already == ~ alone /\ ~ Unit(target, e, "was")
     IN  scan' = IF Unit(target, e, "now") THEN scan
                 ELSE IF already THEN [scan EXCEPT !.already = TRUE]
                 ELSE [scan EXCEPT !.broken = @ + 1]
  /\ first' = first \ {e}
  /\ rest' = rest \ {e}
  /\ UNCHANGED <<req, pc, target, todo, screen, causes, stopped, answer>>

Judge(e) == scan.broken < MaxEntryCauses /\ JudgeOne(e)

\* The deadline cuts the scan off; what it has not judged stays unjudged.
CutOff ==
  /\ pc = "judge" /\ ~ scan.cut /\ scan.broken < MaxEntryCauses
  /\ Judging # {}
  /\ scan' = [scan EXCEPT !.cut = TRUE]
  /\ UNCHANGED <<req, pc, target, todo, screen, first, rest, causes, stopped, answer>>

Scanned ==
  /\ pc = "judge"
  /\ scan.cut \/ scan.broken = MaxEntryCauses \/ Judging = {}

\* Whatever the rest of the scan would find, the write broke the group.
Decided == scan.decides /\ first = {} /\ ~ scan.already

\* How judgeServed and judgePolicyUse end.
Finding ==
  IF scan.broken > 0 \/ (scan.cut /\ Decided) THEN "refused"
  ELSE IF scan.cut THEN "unknown"
  ELSE IF scan.already \/ Group(target, "now") THEN "accepted"
  ELSE IF Root("was") /\ ~ Group(target, "was") /\ ~ (req.kind = "policy" /\ req.create) THEN "accepted"
  ELSE "refused"

JudgeServed ==
  /\ Scanned /\ req.kind = "gateway"
  /\ Answer(IF Finding = "refused" THEN "deny" ELSE IF Finding = "unknown" THEN "error" ELSE "admit")

-----------------------------------------------------------------------------
(* A policy write: every gateway is screened, then each is judged.         *)

\* lintPolicyAlone: a policy that failed on its own before is let through.
LintPolicyAlone ==
  \/ pc = "alone" /\ IF req.alone.now THEN Go("uses")
                     ELSE IF req.create THEN Answer("deny") ELSE Go("aloneWas")
  \/ pc = "aloneWas" /\ IF req.alone.was THEN Answer("deny") ELSE Go("uses")

GatewaysUsing ==
  /\ pc = "uses"
  /\ todo' = DOMAIN req.uses /\ pc' = "screen"
  /\ UNCHANGED <<req, target, screen, first, rest, scan, causes, stopped, answer>>

\* screenPolicyUse: the root alone, then with the endpoints that are served.
Found(g) ==
  IF ~ req.uses[g].root.now THEN {"rootFails", "error"}
  ELSE IF Served(g) = {} THEN {"passed", "error"}
  ELSE {"error", IF Group(g, "now") THEN "passed" ELSE "failed"}

ScreenPolicyUse(g) ==
  /\ pc = "screen" /\ g \in todo
  /\ todo' = todo \ {g}
  /\ \/ /\ req.uses[g].ce /\ req.drops
        /\ screen' = [screen EXCEPT ![g] = "refused"]
        /\ causes' = causes \cup {g}
     \/ /\ ~ (req.uses[g].ce /\ req.drops)
        /\ \E found \in Found(g) : screen' = [screen EXCEPT ![g] = found]
        /\ UNCHANGED causes
  /\ UNCHANGED <<req, pc, target, first, rest, scan, stopped, answer>>

EndScreening ==
  /\ pc = "screen" /\ todo = {}
  /\ todo' = {g \in DOMAIN req.uses : screen[g] # "refused"}
  /\ pc' = "next"
  /\ UNCHANGED <<req, target, screen, first, rest, scan, causes, stopped, answer>>

JudgePolicyUse(g) ==
  /\ pc = "next" /\ g \in todo
  /\ target' = g /\ todo' = todo \ {g}
  /\ stopped' = (stopped \/ screen[g] = "error")
  /\ pc' = IF screen[g] = "failed" THEN "before" ELSE IF screen[g] = "passed" THEN "judge" ELSE "next"
  /\ first' = IF screen[g] = "passed" THEN Suspects(g, "now") ELSE {}
  /\ rest' = {} /\ scan' = NoScan
  /\ UNCHANGED <<req, screen, causes, answer>>

PolicyUseJudged ==
  /\ Scanned /\ req.kind = "policy"
  /\ causes' = IF Finding = "refused" THEN causes \cup {target} ELSE causes
  /\ stopped' = (stopped \/ Finding = "unknown")
  /\ pc' = "next"
  /\ UNCHANGED <<req, target, todo, screen, first, rest, scan, answer>>

\* A gateway that could not be checked makes the request a 500 unless another
\* one refuses it.
PolicyAnswer ==
  /\ pc = "next" /\ todo = {}
  /\ Answer(IF causes # {} THEN "deny" ELSE IF stopped THEN "error" ELSE "admit")

-----------------------------------------------------------------------------
(* An endpoint write.                                                      *)

\* Only the endpoint itself is judged: its unit, with the entries it has.
Own(v) == \E e \in EndpointsOf[target] : Unit(target, e, v)

\* A gateway that fails on its own can judge nothing: the write is admitted.
CheckEndpointRoot ==
  /\ pc = "root" /\ req.kind = "endpoint"
  /\ Go(IF Root("now") THEN "unit" ELSE "refs")

CheckRender ==
  \/ pc = "unit" /\ IF Own("now") THEN Go("refs")
                    ELSE IF req.create THEN Answer("deny") ELSE Go("unitWas")
  \/ pc = "unitWas" /\ IF Own("was") THEN Answer("deny") ELSE Go("refs")

\* validatePolicyRefs, uncached: a policy may be gone since it was read.
ReadPolicies == pc = "refs" /\ Answer(IF req.gone THEN "deny" ELSE "admit")

-----------------------------------------------------------------------------
\* The operator's writes of AutoConfig endpoints skip the render check.
FirstCheck(r) ==
  IF r.kind = "gateway" THEN IF r.create THEN "root" ELSE "same"
  ELSE IF r.kind = "policy" THEN "alone"
  ELSE IF r.trusted THEN "refs" ELSE "clash"

Init ==
  /\ req \in Requests
  /\ pc = FirstCheck(req)
  /\ target = CHOOSE g \in DOMAIN req.uses : TRUE
  /\ todo = {} /\ screen = [g \in DOMAIN req.uses |-> "unseen"]
  /\ first = {} /\ rest = {} /\ scan = NoScan
  /\ causes = {} /\ stopped = FALSE
  /\ answer = "none"

Next ==
  \/ Unavailable \/ SameConfig \/ RefuseNewClashes \/ CheckRoot \/ RootVerdict \/ WarnWaiting
  \/ CheckGroup \/ StoredRoot \/ CheckBefore \/ DecidingFirst \/ GiveUp
  \/ (\E e \in EndpointsOf[target] : Judge(e)) \/ CutOff \/ JudgeServed
  \/ LintPolicyAlone \/ GatewaysUsing \/ EndScreening \/ PolicyUseJudged \/ PolicyAnswer
  \/ \E g \in DOMAIN req.uses : ScreenPolicyUse(g) \/ JudgePolicyUse(g)
  \/ CheckEndpointRoot \/ CheckRender \/ ReadPolicies

Spec == Init /\ [][Next]_vars

-----------------------------------------------------------------------------
(* What a write does, whatever order it is found out in.                   *)

FailsBothWays(g) == \E e \in Served(g) : ~ Unit(g, e, "was") /\ ~ Unit(g, e, "now")
NewlyFails(g)    == \E e \in Served(g) : Unit(g, e, "was") /\ ~ Unit(g, e, "now")

\* The served endpoints fail together only with the write.
GroupNewlyFails(g, was) == was /\ ~ Group(g, "now") /\ ~ FailsBothWays(g)

\* Over a stored root that fails: an endpoint the last applied config serves
\* fails, or every endpoint passes but not together.
FailsLastConfig(g) ==
  \/ \E e \in Suspects(g, "now") : Facts(g, e).status = "accepted" /\ ~ Unit(g, e, "now")
  \/ ~ Group(g, "now") /\ \A e \in Served(g) : Unit(g, e, "now")

GatewayBreaks(g) ==
  LET u == req.uses[g] IN
  \/ ~ u.root.now /\ (req.create \/ u.root.was)
  \/ /\ ~ req.create
     /\ \/ req.clash # "none"
        \/ u.root.now /\ u.root.was /\ (NewlyFails(g) \/ GroupNewlyFails(g, Group(g, "was")))
        \/ u.root.now /\ ~ u.root.was /\ FailsLastConfig(g)

PolicyBreaks(g) ==
  \/ req.uses[g].ce /\ req.drops
  \/ req.uses[g].root.now /\ (NewlyFails(g) \/ GroupNewlyFails(g, req.create \/ Group(g, "was")))

EndpointBreaks ==
  \/ req.gone
  \/ /\ ~ req.trusted
     /\ \/ req.clash # "none"
        \/ Root("now") /\ ~ Own("now") /\ (req.create \/ Own("was"))

Breaks ==
  IF req.kind = "gateway" THEN ~ req.same /\ GatewayBreaks(target)
  ELSE IF req.kind = "policy"
    THEN \/ ~ req.alone.now /\ (req.create \/ req.alone.was)
         \/ \E g \in DOMAIN req.uses : PolicyBreaks(g)
  ELSE EndpointBreaks

\* checkGatewayRender, checkPolicyRender, checkRender: a write is admitted only
\* if no endpoint that is served starts to fail with it, alone or in the group,
\* whatever checks the deadline cut off and whatever a group render masked.
AdmittedBreaksNothing == answer = "admit" => ~ Breaks

\* failingEndpointsDecidingFirst, judge: a write is refused only for what it
\* breaks itself; a scan cut off by the deadline refuses nothing that the whole
\* scan would have admitted.
DeniedForItsOwnDoing == answer = "deny" => Breaks

\* The webhooks admit exactly the writes that break nothing which is served,
\* although checks are cut off, fail and mask each other.
AnswerIsRight == AdmittedBreaksNothing /\ DeniedForItsOwnDoing
=============================================================================
