--------------------------- MODULE ConfigDecision ---------------------------
(***************************************************************************)
(* decide: which render of one gateway becomes its applied config, and     *)
(* which endpoints are left out of it, and why.  Each check of a rendered  *)
(* content is answered by the verdicts the last pass kept or by a run of   *)
(* krakend check, which may fail to judge; the pass then ends and is       *)
(* retried.  The inputs change between passes.                             *)
(***************************************************************************)
EXTENDS Naturals, FiniteSets

CONSTANTS
  Endpoints, Rank,   \* the endpoints, and their age: a lower rank is older
  Foreign,           \* the endpoints outside the policy's namespace
  Specs, RoutesOf,   \* what an endpoint may say, and the entries it then has
  UsesPolicy,        \* the specs that reference the policy
  Policies, Roots,   \* what the policy and the gateway root may say
  Validators,        \* the krakend binaries
  Judges(_, _),      \* Judges(v, key): binary v accepts the content of key
  Absent, Empty,     \* no endpoint, no policy; a policy without content
  FirstInputs,       \* the inputs of the first pass
  Events, MaxChanges

Editions == {"CE", "EE"}
Input    == [root : Roots, edition : Editions, spec : [Endpoints -> Specs \cup {Absent}],
             policy : Policies \cup {Absent}]

ASSUME DecisionAssumption ==
  /\ IsFiniteSet(Endpoints) /\ Rank \in [Endpoints -> Nat]
  /\ \A d, e \in Endpoints : Rank[d] = Rank[e] => d = e
  /\ Foreign \subseteq Endpoints /\ UsesPolicy \subseteq Specs
  /\ Absent \notin Specs \cup Policies /\ Empty \notin Policies \cup {Absent}
  /\ FirstInputs # {} /\ FirstInputs \subseteq Input /\ Validators # {} /\ Roots # {} /\ MaxChanges \in Nat

VARIABLES
  input,      \* what a pass would gather now
  applied,    \* the applied config: content, or Nothing
  pass,       \* the pass
  kept,       \* verdictMemo: what the last pass kept
  validator,  \* the binary that runs
  last,       \* the last pass that decided
  changes     \* what may still happen

vars == <<input, applied, pass, kept, validator, last, changes>>

-----------------------------------------------------------------------------
(* Renders and what is checked of them.                                    *)

\* The policy is missing: no render includes the endpoint.
Unresolved(in, e) == in.spec[e] \in UsesPolicy /\ in.policy = Absent

Rendered(in, S) == {e \in S : in.spec[e] # Absent /\ ~Unresolved(in, e)}

\* The entries e keeps among S: those no older endpoint has.
Keeps(in, S, e) ==
  RoutesOf[in.spec[e]] \ UNION {RoutesOf[in.spec[d]] : d \in {d \in Rendered(in, S) : Rank[d] < Rank[e]}}

\* MaskedEndpoints.
Masked(in, S) == {e \in Rendered(in, S) : Keeps(in, S, e) # RoutesOf[in.spec[e]]}

\* The entries of a render of S, with pol for the policy.
Entries(in, S, pol) ==
  UNION {{[route |-> r, spec |-> in.spec[e], policy |-> IF in.spec[e] \in UsesPolicy THEN pol ELSE Absent] :
            r \in Keeps(in, S, e)} : e \in Rendered(in, S)}

\* contentKey: the rendered content, the edition and the check.
ContentKey(in, mode, entries) ==
  [root |-> in.root, edition |-> in.edition, mode |-> mode, entries |-> entries]

Full(in)     == Entries(in, Endpoints, in.policy)
Rest(in, ex) == Entries(in, Endpoints \ ex, in.policy)

\* EndpointUnit: the endpoint alone, with pol for the policy.
Unit(in, e, pol) == ContentKey(in, "lint", Entries(in, {e}, pol))

\* What Verdict.Suspect relies on: a check that accepts a render has judged the
\* endpoints all of whose entries are in it.
ASSUME PartsPass ==
  \A v \in Validators, in \in Input, e \in Endpoints :
    Entries(in, {e}, in.policy) \subseteq Full(in) /\ Judges(v, ContentKey(in, "validate", Full(in)))
      => Judges(v, Unit(in, e, in.policy))

\* policyAlone: one synthetic endpoint on a default gateway.
PolicyAlone(p) == [root |-> Absent, edition |-> "CE", mode |-> "lint",
                   entries |-> {[route |-> Absent, spec |-> Absent, policy |-> p]}]

\* The applied config as content; none at first.
Nothing == [root |-> Absent, edition |-> "none", entries |-> {}, by |-> Absent]

\* isApplied compares checksum and edition; by is the binary that accepted it.
IsApplied(in, entries) ==
  <<applied.root, applied.edition, applied.entries>> = <<in.root, in.edition, entries>>

-----------------------------------------------------------------------------
(* Passes.                                                                 *)

Reasons == {"EndpointInvalid", "PolicyInvalid"}
Stages  == {"idle", "masked", "root", "whole", "suspects", "safety"}

\* todo: the endpoints to judge; sub: the check CheckEndpoint is at; excluded:
\* reasons of those that failed; used: the verdicts of this pass, as pairs.
IdlePass == [at |-> "idle", in |-> CHOOSE i \in FirstInputs : TRUE, todo |-> {}, sub |-> "policy", excluded |-> <<>>,
             wholeOK |-> TRUE, used |-> {}, fresh |-> 0]

\* What a pass decided: for which inputs, what it applied, whom it left out,
\* and the binaries that judged (now) and that accepted what is applied (by).
NoDecision == [in |-> Absent, excluded |-> <<>>, judged |-> FALSE, failure |-> "none", now |-> Absent, by |-> Absent]

\* The endpoint judgeEndpoints is at: the suspects are in the order of the list.
Oldest(S)  == CHOOSE e \in S : \A d \in S : Rank[e] <= Rank[d]
Current(p) == Oldest(p.todo)

\* The check the pass runs next.
KeyOf(p) ==
  IF p.at = "root" THEN ContentKey(p.in, "lint", {})
  ELSE IF p.at = "whole" THEN ContentKey(p.in, "validate", Full(p.in))
  ELSE IF p.at = "safety" THEN ContentKey(p.in, "validate", Rest(p.in, DOMAIN p.excluded))
  ELSE IF p.sub = "policy" THEN PolicyAlone(p.in.policy)
  ELSE ContentKey(p.in, "lint", Entries(p.in, {Current(p)}, IF p.sub = "unit" THEN p.in.policy ELSE Empty))

\* Where CheckEndpoint starts with the endpoint that is next.
Enter(p) ==
  [p EXCEPT !.sub = IF p.todo # {} /\ p.in.spec[Current(p)] \in UsesPolicy THEN "policy" ELSE "unit"]

\* Endpoints to judge; one whose policy is missing is not judged.
Judge(p, stage, suspects) == Enter([p EXCEPT !.at = stage, !.todo = suspects])

Exclude(p, e, reason) ==
  [p EXCEPT !.excluded = [d \in DOMAIN p.excluded \cup {e} |-> IF d = e THEN reason ELSE p.excluded[d]]]

\* CheckEndpoint goes on to another check of e, or e is done.
Recheck(p, sub) == [p EXCEPT !.sub = sub]
Done(p, e)      == Enter([p EXCEPT !.todo = @ \ {e}])

\* A mutant: a policy of another namespace is not told apart.
AfterEndpointNoOwn(p, ok) ==
  LET e == Current(p)
  IN IF p.sub = "policy" THEN IF ok THEN Recheck(p, "unit") ELSE Done(Exclude(p, e, "PolicyInvalid"), e)
     ELSE IF ok THEN Done(p, e) ELSE Done(Exclude(p, e, "EndpointInvalid"), e)

\* CheckEndpoint, after verdict ok on the check it is at.
AfterEndpoint(p, ok) ==
  LET e == Current(p)
  IN IF p.sub = "policy" THEN IF ok THEN Recheck(p, "unit") ELSE Done(Exclude(p, e, "PolicyInvalid"), e)
     ELSE IF p.sub = "unit" THEN IF ok THEN Done(p, e)
                                 ELSE IF e \in Foreign /\ p.in.spec[e] \in UsesPolicy THEN Recheck(p, "own")
                                 ELSE Done(Exclude(p, e, "EndpointInvalid"), e)
     ELSE Done(Exclude(p, e, IF ok THEN "PolicyInvalid" ELSE "EndpointInvalid"), e)

\* Verdict.Suspect: every endpoint when the check failed, otherwise those that
\* lost an entry in the render.
Suspects(p, ok) == IF ok THEN Masked(p.in, Endpoints) ELSE Rendered(p.in, Endpoints)

After(p, ok) ==
  IF p.at = "root" THEN [p EXCEPT !.at = IF ok THEN "whole" ELSE "rootInvalid"]
  ELSE IF p.at = "whole" THEN Judge([p EXCEPT !.wholeOK = ok], "suspects", Suspects(p, ok))
  ELSE IF p.at = "safety" THEN [p EXCEPT !.at = IF ok THEN "rest" ELSE "combined"]
  ELSE AfterEndpoint(p, ok)

\* What follows once the endpoints of a stage are judged.
Settle(p) ==
  IF p.at \notin {"masked", "suspects"} \/ p.todo # {} THEN p
  ELSE IF p.at = "masked"
    THEN IF DOMAIN p.excluded = {} THEN [p EXCEPT !.at = "full"] ELSE [p EXCEPT !.at = "root", !.excluded = <<>>]
  ELSE IF DOMAIN p.excluded = {} THEN [p EXCEPT !.at = IF p.wholeOK THEN "full" ELSE "combined"]
  ELSE [p EXCEPT !.at = IF IsApplied(p.in, Rest(p.in, DOMAIN p.excluded)) THEN "rest" ELSE "safety"]

-----------------------------------------------------------------------------
(* The pass and its memo.                                                  *)

\* begin, and the check decide starts with.
Begin ==
  /\ pass.at = "idle"
  /\ LET p == [IdlePass EXCEPT !.in = input]
     IN pass' = Settle(IF IsApplied(input, Full(input))
                         THEN Judge(p, "masked", Masked(input, Endpoints)) ELSE [p EXCEPT !.at = "root"])
  /\ UNCHANGED <<input, applied, kept, validator, last, changes>>

\* Lookup: a verdict of the last pass that is used again is kept again.
Lookup(p, key) == p.used \cup {v \in kept : v.key = key}

Remembered(p, key) == {v \in p.used \cup kept : v.key = key}

\* The pass p goes on after verdict ok.
GoOn(p, ok) == \E q \in {After(p, ok)} : pass' = Settle(q)

\* A check the memo answers.
Hit ==
  /\ pass.at \in Stages \ {"idle"}
  /\ \E key \in {KeyOf(pass)} : \E v \in Remembered(pass, key) :
       GoOn([pass EXCEPT !.used = Lookup(pass, key)], v.ok)
  /\ UNCHANGED <<input, applied, kept, validator, last, changes>>

\* A check krakend judges; its verdict is stored.
Run ==
  /\ pass.at \in Stages \ {"idle"}
  /\ \E key \in {KeyOf(pass)} : \E ok \in {Judges(validator, key)} :
       /\ Remembered(pass, key) = {}
       /\ GoOn([pass EXCEPT !.used = @ \cup {[key |-> key, ok |-> ok]}, !.fresh = @ + 1], ok)
  /\ UNCHANGED <<input, applied, kept, validator, last, changes>>

\* A mutant: a pass that fails keeps what it used only.
EndUsed(p, failed) == IF failed THEN {} ELSE p.used

\* end: what the next pass may answer from.
End(p, failed) == IF failed THEN p.used \cup kept ELSE p.used

\* A check that cannot judge ends the pass: the applied config is kept and the
\* pass is retried.  A validator that fails after every verdict is the worst
\* case considered: without a verdict in between, the failure is one of the
\* changes.
CheckFails ==
  /\ "unavailable" \in Events
  /\ pass.at \in Stages \ {"idle"}
  /\ \E key \in {KeyOf(pass)} : Remembered(pass, key) = {}
  /\ \/ pass.fresh > 0 /\ UNCHANGED changes
     \/ pass.fresh = 0 /\ changes > 0 /\ changes' = changes - 1
  /\ kept' = End(pass, TRUE)
  /\ pass' = IdlePass
  /\ UNCHANGED <<input, applied, validator, last>>

\* The decision; a render that is decided on is applied.
Conclude ==
  LET ex == IF pass.at \in {"rest", "combined"} THEN pass.excluded ELSE <<>>
      en == IF pass.at = "full" THEN Full(pass.in) ELSE IF pass.at = "rest" THEN Rest(pass.in, DOMAIN ex) ELSE {}
  IN /\ pass.at \in {"full", "rest", "rootInvalid", "combined"}
     /\ LET by == IF IsApplied(pass.in, en) THEN applied.by ELSE validator
        IN /\ last' = [in |-> pass.in, excluded |-> ex, judged |-> pass.at # "rootInvalid",
                       failure |-> IF pass.at \in {"full", "rest"} THEN "none" ELSE pass.at,
                       now |-> validator, by |-> by]
           /\ applied' = IF pass.at \in {"full", "rest"}
                           THEN [root |-> pass.in.root, edition |-> pass.in.edition, entries |-> en, by |-> by]
                           ELSE applied
     /\ kept' = End(pass, FALSE)
     /\ pass' = IdlePass
     /\ UNCHANGED <<input, validator, changes>>

-----------------------------------------------------------------------------
(* The environment.                                                        *)

Change(e) == e \in Events /\ changes > 0 /\ changes' = changes - 1

EditEndpoint(e, s) ==
  /\ Change("endpoint") /\ input' = [input EXCEPT !.spec[e] = s]
  /\ UNCHANGED <<applied, pass, kept, validator, last>>

EditPolicy(p) ==
  /\ Change("policy") /\ input' = [input EXCEPT !.policy = p]
  /\ UNCHANGED <<applied, pass, kept, validator, last>>

EditGateway(r, ed) ==
  /\ Change("gateway") /\ input' = [input EXCEPT !.root = r, !.edition = ed]
  /\ UNCHANGED <<applied, pass, kept, validator, last>>

\* A mutant: the verdicts outlive the process.
RestartRemembers(v) ==
  /\ Change("restart") /\ validator' = v
  /\ pass' = IdlePass /\ last' = NoDecision
  /\ UNCHANGED <<input, applied, kept>>

\* The operator restarts, possibly with another krakend binary in its image:
\* the memo lives in memory.
Restart(v) ==
  /\ Change("restart") /\ validator' = v
  /\ kept' = {} /\ pass' = IdlePass /\ last' = NoDecision
  /\ UNCHANGED <<input, applied>>

Init ==
  /\ input \in FirstInputs
  /\ applied = Nothing /\ validator \in Validators
  /\ kept = {} /\ pass = IdlePass /\ last = NoDecision
  /\ changes = MaxChanges

PassStep == Begin \/ Hit \/ Run \/ Conclude

Environment ==
  \/ \E e \in Endpoints, s \in Specs \cup {Absent} : EditEndpoint(e, s)
  \/ \E p \in Policies \cup {Absent} : EditPolicy(p)
  \/ \E r \in Roots, ed \in Editions : EditGateway(r, ed)
  \/ \E v \in Validators : Restart(v)

Next == PassStep \/ CheckFails \/ Environment

Spec == Init /\ [][Next]_vars

\* Passes are retried and go on.
FairSpec == Spec /\ WF_vars(PassStep)
-----------------------------------------------------------------------------
(* Properties.                                                             *)

TypeOK ==
  /\ input \in Input /\ validator \in Validators /\ changes \in 0..MaxChanges
  /\ pass.at \in Stages \cup {"full", "rest", "rootInvalid", "combined"}
  /\ pass.todo \subseteq Endpoints /\ DOMAIN pass.excluded \subseteq Endpoints
  /\ \A e \in DOMAIN pass.excluded : pass.excluded[e] \in Reasons
  /\ \A v, w \in pass.used \cup kept : v.key = w.key => v = w

\* verdictMemo: what a pass may answer from is what the binary that runs now
\* would say, whatever edits, failures and restarts came before.
MemoIsCurrent == \A v \in pass.used \cup kept : v.ok = Judges(validator, v.key)

\* The applied config passed the full check as the edition it is applied for.
AppliedWasAccepted ==
  applied # Nothing =>
    Judges(applied.by, [root |-> applied.root, edition |-> applied.edition, mode |-> "validate",
                        entries |-> applied.entries])

\* reason is why binary v fails e: with EndpointInvalid it fails whatever a
\* policy of another namespace says, with PolicyInvalid because of a policy.
Blames(v, in, e, reason) ==
  LET own == Unit(in, e, IF e \in Foreign THEN Empty ELSE in.policy)
      policyFails == in.spec[e] \in UsesPolicy /\ ~Judges(v, PolicyAlone(in.policy))
  IN \/ reason = "EndpointInvalid" /\ ~policyFails /\ ~Judges(v, own)
     \/ reason = "PolicyInvalid" /\ (policyFails \/ (~Judges(v, Unit(in, e, in.policy)) /\ Judges(v, own)))

\* An endpoint is left out for what its owner can see and change.
BlamesTheOwner ==
  \A e \in DOMAIN last.excluded : Blames(last.now, last.in, e, last.excluded[e])

\* decision.judged: an endpoint that is not left out passes on its own, the
\* entries it lost to an older one included.
JudgedMeansPasses ==
  last.judged =>
    \A e \in Rendered(last.in, Endpoints) \ DOMAIN last.excluded :
      \E v \in {last.now, last.by} : Judges(v, Unit(last.in, e, last.in.policy))

\* A decision is sound: what is applied passed as a whole, what is left out is
\* left out for the right reason, and the rest passes one by one (decide).
DecisionSound == AppliedWasAccepted /\ BlamesTheOwner /\ JudgedMeansPasses

\* The inputs are decided on, even by a validator that fails after every
\* verdict it gives: a pass that fails keeps what it judged.
DecisionReached == <>[](last.in = input)
=============================================================================
