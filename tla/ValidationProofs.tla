-------------------------- MODULE ValidationProofs --------------------------
(***************************************************************************)
(* Proofs about validation, for any set of endpoints, verdicts, callers    *)
(* and slots.  Two parts, one for each module.                             *)
(***************************************************************************)
EXTENDS ConfigDecision, CheckSlots, FiniteSetTheorems, TLAPS

(***************************************************************************)
(* I.  THE VERDICTS.  What a pass may answer from is what the running      *)
(* binary would say, and a decision is sound.                              *)
(***************************************************************************)

\* The fields of a pass.
PassOf(at, in, todo, sub, excluded, wholeOK, used, fresh) ==
  [at |-> at, in |-> in, todo |-> todo, sub |-> sub, excluded |-> excluded, wholeOK |-> wholeOK,
   used |-> used, fresh |-> fresh]
IsPass(p) == p = PassOf(p.at, p.in, p.todo, p.sub, p.excluded, p.wholeOK, p.used, p.fresh)

\* Everything a decision depends on but the verdicts of this pass.
SamePass(p, q) ==
  p.at = q.at /\ p.in = q.in /\ p.todo = q.todo /\ p.sub = q.sub /\ p.excluded = q.excluded /\ p.wholeOK = q.wholeOK

Passes(p, e) == Judges(validator, Unit(p.in, e, p.in.policy))

\* The endpoints of S that the pass is done with and has not left out pass.
Judged(p, S) == \A e \in S \ (p.todo \cup DOMAIN p.excluded) : Passes(p, e)

\* Where CheckEndpoint is with the endpoint at hand.
AtCheck(p) ==
  LET e == Current(p)
      policyPasses == Judges(validator, PolicyAlone(p.in.policy))
  IN \/ p.sub = "policy" /\ p.in.spec[e] \in UsesPolicy
     \/ p.sub = "unit" /\ (p.in.spec[e] \in UsesPolicy => policyPasses)
     \/ /\ p.sub = "own" /\ e \in Foreign /\ p.in.spec[e] \in UsesPolicy
        /\ policyPasses /\ ~Passes(p, e)

WholeKey(p)  == ContentKey(p.in, "validate", Full(p.in))
RestKey(p)   == ContentKey(p.in, "validate", Rest(p.in, DOMAIN p.excluded))
FullApplied(p) == IsApplied(p.in, Full(p.in))
RestApplied(p) == IsApplied(p.in, Rest(p.in, DOMAIN p.excluded))

\* What holds of a pass p whose endpoints are being judged, ahead of Settle.
Judging(p) ==
  /\ p.at = "masked" => FullApplied(p) /\ Judged(p, Masked(p.in, Endpoints))
  /\ p.at = "suspects" => /\ p.wholeOK = Judges(validator, WholeKey(p))
                          /\ Judged(p, Suspects(p, p.wholeOK))
  /\ p.at \in {"masked", "suspects"} /\ p.todo # {} => AtCheck(p)

\* What the stages after it rest on.
Backed(p) ==
  /\ p.at \in {"safety", "rest", "combined"} =>
       \A e \in Rendered(p.in, Endpoints) \ DOMAIN p.excluded : Passes(p, e)
  /\ p.at = "rest" => RestApplied(p) \/ Judges(validator, RestKey(p))
  /\ p.at = "full" =>
       /\ FullApplied(p) \/ Judges(validator, WholeKey(p))
       /\ \A e \in Rendered(p.in, Endpoints) :
            Passes(p, e) \/ (FullApplied(p) /\ e \notin Masked(p.in, Endpoints))

PassOK(p) ==
  /\ IsPass(p) /\ p.in \in Input
  /\ \A e \in DOMAIN p.excluded : Blames(validator, p.in, e, p.excluded[e])
  /\ Judging(p) /\ Backed(p)

\* A stage that judges endpoints has one to judge.
Busy(p) == p.at \in {"masked", "suspects"} => p.todo # {}

Typed ==
  /\ input \in Input /\ validator \in Validators
  /\ applied # Nothing => applied.by \in Validators

DecisionInv == Typed /\ MemoIsCurrent /\ PassOK(pass) /\ Busy(pass) /\ DecisionSound

-----------------------------------------------------------------------------
(* Passes as records.                                                      *)

LEMMA PassFields ==
  ASSUME NEW at, NEW in, NEW todo, NEW sub, NEW excluded, NEW wholeOK, NEW used, NEW fresh
  PROVE  LET p == PassOf(at, in, todo, sub, excluded, wholeOK, used, fresh)
         IN /\ IsPass(p)
            /\ p.at = at /\ p.in = in /\ p.todo = todo /\ p.sub = sub /\ p.excluded = excluded
            /\ p.wholeOK = wholeOK /\ p.used = used /\ p.fresh = fresh
  BY DEF PassOf, IsPass

LEMMA PassExcept ==
  ASSUME NEW p, IsPass(p), NEW x
  PROVE  /\ [p EXCEPT !.at = x] = PassOf(x, p.in, p.todo, p.sub, p.excluded, p.wholeOK, p.used, p.fresh)
         /\ [p EXCEPT !.in = x] = PassOf(p.at, x, p.todo, p.sub, p.excluded, p.wholeOK, p.used, p.fresh)
         /\ [p EXCEPT !.todo = x] = PassOf(p.at, p.in, x, p.sub, p.excluded, p.wholeOK, p.used, p.fresh)
         /\ [p EXCEPT !.sub = x] = PassOf(p.at, p.in, p.todo, x, p.excluded, p.wholeOK, p.used, p.fresh)
         /\ [p EXCEPT !.excluded = x] = PassOf(p.at, p.in, p.todo, p.sub, x, p.wholeOK, p.used, p.fresh)
         /\ [p EXCEPT !.wholeOK = x] = PassOf(p.at, p.in, p.todo, p.sub, p.excluded, x, p.used, p.fresh)
         /\ [p EXCEPT !.used = x] = PassOf(p.at, p.in, p.todo, p.sub, p.excluded, p.wholeOK, x, p.fresh)
         /\ [p EXCEPT !.fresh = x] = PassOf(p.at, p.in, p.todo, p.sub, p.excluded, p.wholeOK, p.used, x)
<1>1. [p EXCEPT !.at = x] = PassOf(x, p.in, p.todo, p.sub, p.excluded, p.wholeOK, p.used, p.fresh)
  BY DEF IsPass, PassOf
<1>2. [p EXCEPT !.in = x] = PassOf(p.at, x, p.todo, p.sub, p.excluded, p.wholeOK, p.used, p.fresh)
  BY DEF IsPass, PassOf
<1>3. [p EXCEPT !.todo = x] = PassOf(p.at, p.in, x, p.sub, p.excluded, p.wholeOK, p.used, p.fresh)
  BY DEF IsPass, PassOf
<1>4. [p EXCEPT !.sub = x] = PassOf(p.at, p.in, p.todo, x, p.excluded, p.wholeOK, p.used, p.fresh)
  BY DEF IsPass, PassOf
<1>5. [p EXCEPT !.excluded = x] = PassOf(p.at, p.in, p.todo, p.sub, x, p.wholeOK, p.used, p.fresh)
  BY DEF IsPass, PassOf
<1>6. [p EXCEPT !.wholeOK = x] = PassOf(p.at, p.in, p.todo, p.sub, p.excluded, x, p.used, p.fresh)
  BY DEF IsPass, PassOf
<1>7. [p EXCEPT !.used = x] = PassOf(p.at, p.in, p.todo, p.sub, p.excluded, p.wholeOK, x, p.fresh)
  BY DEF IsPass, PassOf
<1>8. [p EXCEPT !.fresh = x] = PassOf(p.at, p.in, p.todo, p.sub, p.excluded, p.wholeOK, p.used, x)
  BY DEF IsPass, PassOf
<1>9. QED
  BY <1>1, <1>2, <1>3, <1>4, <1>5, <1>6, <1>7, <1>8

LEMMA PassExceptTwo ==
  ASSUME NEW p, IsPass(p), NEW x, NEW y
  PROVE  /\ [p EXCEPT !.used = x, !.fresh = y] = PassOf(p.at, p.in, p.todo, p.sub, p.excluded, p.wholeOK, x, y)
         /\ [p EXCEPT !.at = x, !.todo = y] = PassOf(x, p.in, y, p.sub, p.excluded, p.wholeOK, p.used, p.fresh)
         /\ [p EXCEPT !.at = x, !.excluded = y] = PassOf(x, p.in, p.todo, p.sub, y, p.wholeOK, p.used, p.fresh)
<1>1. [p EXCEPT !.used = x, !.fresh = y] = PassOf(p.at, p.in, p.todo, p.sub, p.excluded, p.wholeOK, x, y)
  <2> DEFINE q == [p EXCEPT !.used = x]
  <2>1. q = PassOf(p.at, p.in, p.todo, p.sub, p.excluded, p.wholeOK, x, p.fresh)
    BY PassExcept
  <2> HIDE DEF q
  <2>2. IsPass(q) /\ q.at = p.at /\ q.in = p.in /\ q.todo = p.todo /\ q.sub = p.sub /\ q.excluded = p.excluded /\ q.wholeOK = p.wholeOK /\ q.used = x /\ q.fresh = p.fresh
    BY <2>1, PassFields
  <2>3. [q EXCEPT !.fresh = y] = PassOf(q.at, q.in, q.todo, q.sub, q.excluded, q.wholeOK, q.used, y)
    BY <2>2 DEF IsPass, PassOf
  <2>4. QED
    BY <2>2, <2>3 DEF q
<1>2. [p EXCEPT !.at = x, !.todo = y] = PassOf(x, p.in, y, p.sub, p.excluded, p.wholeOK, p.used, p.fresh)
  <2> DEFINE q == [p EXCEPT !.at = x]
  <2>1. q = PassOf(x, p.in, p.todo, p.sub, p.excluded, p.wholeOK, p.used, p.fresh)
    BY PassExcept
  <2> HIDE DEF q
  <2>2. IsPass(q) /\ q.at = x /\ q.in = p.in /\ q.todo = p.todo /\ q.sub = p.sub /\ q.excluded = p.excluded /\ q.wholeOK = p.wholeOK /\ q.used = p.used /\ q.fresh = p.fresh
    BY <2>1, PassFields
  <2>3. [q EXCEPT !.todo = y] = PassOf(q.at, q.in, y, q.sub, q.excluded, q.wholeOK, q.used, q.fresh)
    BY <2>2 DEF IsPass, PassOf
  <2>4. QED
    BY <2>2, <2>3 DEF q
<1>3. [p EXCEPT !.at = x, !.excluded = y] = PassOf(x, p.in, p.todo, p.sub, y, p.wholeOK, p.used, p.fresh)
  <2> DEFINE q == [p EXCEPT !.at = x]
  <2>1. q = PassOf(x, p.in, p.todo, p.sub, p.excluded, p.wholeOK, p.used, p.fresh)
    BY PassExcept
  <2> HIDE DEF q
  <2>2. IsPass(q) /\ q.at = x /\ q.in = p.in /\ q.todo = p.todo /\ q.sub = p.sub /\ q.excluded = p.excluded /\ q.wholeOK = p.wholeOK /\ q.used = p.used /\ q.fresh = p.fresh
    BY <2>1, PassFields
  <2>3. [q EXCEPT !.excluded = y] = PassOf(q.at, q.in, q.todo, q.sub, y, q.wholeOK, q.used, q.fresh)
    BY <2>2 DEF IsPass, PassOf
  <2>4. QED
    BY <2>2, <2>3 DEF q
<1>4. QED
  BY <1>1, <1>2, <1>3

-----------------------------------------------------------------------------
(* What the steps of a pass return.                                        *)

FirstCheck(in, S) == IF S # {} /\ in.spec[Oldest(S)] \in UsesPolicy THEN "policy" ELSE "unit"

LEMMA EnterIs ==
  ASSUME NEW p, IsPass(p)
  PROVE  Enter(p) = PassOf(p.at, p.in, p.todo, FirstCheck(p.in, p.todo), p.excluded, p.wholeOK, p.used, p.fresh)
<1>1. Enter(p) = [p EXCEPT !.sub = FirstCheck(p.in, p.todo)]
  BY DEF Enter, FirstCheck, Current
<1>2. QED
  BY <1>1, PassExcept

LEMMA JudgeIs ==
  ASSUME NEW p, IsPass(p), NEW stage, NEW S
  PROVE  Judge(p, stage, S) = PassOf(stage, p.in, S, FirstCheck(p.in, S), p.excluded, p.wholeOK, p.used, p.fresh)
<1> DEFINE q == [p EXCEPT !.at = stage, !.todo = S]
<1>1. q = PassOf(stage, p.in, S, p.sub, p.excluded, p.wholeOK, p.used, p.fresh)
  BY PassExceptTwo
<1>2. Judge(p, stage, S) = Enter(q)
  BY DEF Judge
<1> HIDE DEF q
<1>3. /\ IsPass(q) /\ q.at = stage /\ q.in = p.in /\ q.todo = S /\ q.excluded = p.excluded
      /\ q.wholeOK = p.wholeOK /\ q.used = p.used /\ q.fresh = p.fresh
  BY <1>1, PassFields
<1>4. QED
  BY <1>2, <1>3, EnterIs

LEMMA DoneIs ==
  ASSUME NEW p, IsPass(p), NEW e
  PROVE  Done(p, e) = PassOf(p.at, p.in, p.todo \ {e}, FirstCheck(p.in, p.todo \ {e}), p.excluded, p.wholeOK,
                             p.used, p.fresh)
<1> DEFINE q == [p EXCEPT !.todo = p.todo \ {e}]
<1>1. q = PassOf(p.at, p.in, p.todo \ {e}, p.sub, p.excluded, p.wholeOK, p.used, p.fresh)
  BY PassExcept
<1>2. Done(p, e) = Enter(q)
  BY DEF Done, IsPass, PassOf
<1> HIDE DEF q
<1>3. /\ IsPass(q) /\ q.at = p.at /\ q.in = p.in /\ q.todo = p.todo \ {e} /\ q.excluded = p.excluded
      /\ q.wholeOK = p.wholeOK /\ q.used = p.used /\ q.fresh = p.fresh
  BY <1>1, PassFields
<1>4. QED
  BY <1>2, <1>3, EnterIs

\* The reasons after e is left out.
WithReason(ex, e, reason) == [d \in DOMAIN ex \cup {e} |-> IF d = e THEN reason ELSE ex[d]]

LEMMA ExcludeDoneIs ==
  ASSUME NEW p, IsPass(p), NEW e, NEW reason
  PROVE  Done(Exclude(p, e, reason), e) =
           PassOf(p.at, p.in, p.todo \ {e}, FirstCheck(p.in, p.todo \ {e}), WithReason(p.excluded, e, reason),
                  p.wholeOK, p.used, p.fresh)
<1> DEFINE q == Exclude(p, e, reason)
<1>1. q = PassOf(p.at, p.in, p.todo, p.sub, WithReason(p.excluded, e, reason), p.wholeOK, p.used, p.fresh)
  <2>1. q = [p EXCEPT !.excluded = WithReason(p.excluded, e, reason)]
    BY DEF Exclude, WithReason
  <2>2. QED
    BY <2>1, PassExcept
<1> HIDE DEF q
<1>2. /\ IsPass(q) /\ q.at = p.at /\ q.in = p.in /\ q.todo = p.todo
      /\ q.excluded = WithReason(p.excluded, e, reason)
      /\ q.wholeOK = p.wholeOK /\ q.used = p.used /\ q.fresh = p.fresh
  BY <1>1, PassFields
<1>3. QED
  BY <1>2, DoneIs DEF q

\* q is about the same inputs as p and used the same verdicts.
KeptBy(p, q) == IsPass(q) /\ q.in = p.in /\ q.used = p.used

LEMMA KeptByFields ==
  ASSUME NEW p, NEW q, NEW at, NEW todo, NEW sub, NEW excluded, NEW wholeOK,
         q = PassOf(at, p.in, todo, sub, excluded, wholeOK, p.used, p.fresh)
  PROVE  KeptBy(p, q)
  BY PassFields DEF KeptBy

LEMMA ExceptKeeps ==
  ASSUME NEW p, IsPass(p), NEW x
  PROVE  KeptBy(p, [p EXCEPT !.at = x]) /\ KeptBy(p, [p EXCEPT !.sub = x]) /\ KeptBy(p, [p EXCEPT !.wholeOK = x])
<1> DEFINE a == [p EXCEPT !.at = x]
           b == [p EXCEPT !.sub = x]
           c == [p EXCEPT !.wholeOK = x]
<1>1. /\ a = PassOf(x, p.in, p.todo, p.sub, p.excluded, p.wholeOK, p.used, p.fresh)
      /\ b = PassOf(p.at, p.in, p.todo, x, p.excluded, p.wholeOK, p.used, p.fresh)
      /\ c = PassOf(p.at, p.in, p.todo, p.sub, p.excluded, x, p.used, p.fresh)
  BY PassExcept
<1> HIDE DEF a, b, c
<1>2. KeptBy(p, a) /\ KeptBy(p, b) /\ KeptBy(p, c)
  BY <1>1, KeptByFields
<1>3. QED
  BY <1>2 DEF a, b, c

\* After and Settle keep what the pass is about and the verdicts it used.
LEMMA AfterKeeps ==
  ASSUME NEW p, IsPass(p), NEW ok
  PROVE  KeptBy(p, After(p, ok))
<1>1. CASE p.at = "whole"
  <2> DEFINE w == [p EXCEPT !.wholeOK = ok]
             S == Suspects(p, ok)
  <2>1. After(p, ok) = Judge(w, "suspects", S)
    BY <1>1 DEF After
  <2>2. IsPass(w) /\ w.in = p.in /\ w.used = p.used
    BY ExceptKeeps DEF KeptBy
  <2> HIDE DEF w, S
  <2>3. KeptBy(w, After(p, ok))
    BY <2>1, <2>2, JudgeIs, KeptByFields
  <2>4. QED
    BY <2>2, <2>3 DEF KeptBy
<1>2. CASE p.at \in {"root", "safety"}
  <2>1. PICK x : After(p, ok) = [p EXCEPT !.at = x]
    BY <1>2 DEF After
  <2>2. QED
    BY <2>1, ExceptKeeps
<1>3. CASE p.at \notin {"root", "whole", "safety"}
  <2> DEFINE e == Current(p)
  <2>1. \/ \E x : After(p, ok) = [p EXCEPT !.sub = x]
        \/ After(p, ok) = Done(p, e)
        \/ \E r : After(p, ok) = Done(Exclude(p, e, r), e)
    BY <1>3 DEF After, AfterEndpoint, Recheck
  <2> HIDE DEF e
  <2>2. CASE \E x : After(p, ok) = [p EXCEPT !.sub = x]
    BY <2>2, ExceptKeeps
  <2>3. CASE After(p, ok) = Done(p, e)
    BY <2>3, DoneIs, KeptByFields
  <2>4. CASE \E r : After(p, ok) = Done(Exclude(p, e, r), e)
    BY <2>4, ExcludeDoneIs, KeptByFields
  <2>5. QED
    BY <2>1, <2>2, <2>3, <2>4
<1>4. QED
  BY <1>1, <1>2, <1>3

LEMMA SettleKeeps ==
  ASSUME NEW p, IsPass(p)
  PROVE  KeptBy(p, Settle(p))
<1> DEFINE r == [p EXCEPT !.at = "root", !.excluded = <<>>]
<1>1. r = PassOf("root", p.in, p.todo, p.sub, <<>>, p.wholeOK, p.used, p.fresh)
  BY PassExceptTwo
<1>2. Settle(p) = p \/ Settle(p) = r \/ \E x : Settle(p) = [p EXCEPT !.at = x]
  BY DEF Settle
<1> HIDE DEF r
<1>3. CASE Settle(p) = r
  BY <1>1, <1>3, KeptByFields
<1>4. CASE \E x : Settle(p) = [p EXCEPT !.at = x]
  BY <1>4, ExceptKeeps
<1>5. CASE Settle(p) = p
  BY <1>5 DEF KeptBy
<1>6. QED
  BY <1>2, <1>3, <1>4, <1>5

LEMMA IdlePassIs ==
  /\ IsPass(IdlePass) /\ IdlePass.at = "idle" /\ IdlePass.used = {} /\ IdlePass.in \in Input
  /\ DOMAIN IdlePass.excluded = {}
<1> DEFINE first == CHOOSE i \in FirstInputs : TRUE
<1>1. first \in Input
  BY DecisionAssumption
<1>2. IdlePass = [at |-> "idle", in |-> first, todo |-> {}, sub |-> "policy", excluded |-> <<>>, wholeOK |-> TRUE,
                  used |-> {}, fresh |-> 0]
  BY DEF IdlePass
<1> HIDE DEF first
<1>3. QED
  BY <1>1, <1>2 DEF IsPass, PassOf

-----------------------------------------------------------------------------
(* The memo.                                                               *)

\* A step of the pass: it goes on from one that only used another verdict.
LEMMA StepOfPass ==
  ASSUME IsPass(pass), Hit \/ Run, MemoIsCurrent
  PROVE  \E p, ok : /\ IsPass(p) /\ SamePass(p, pass) /\ pass' = Settle(After(p, ok))
                    /\ ok = Judges(validator, KeyOf(pass)) /\ pass.at \in Stages \ {"idle"}
                    /\ \A v \in p.used : v.ok = Judges(validator, v.key)
<1>1. CASE Hit
  <2>1. PICK v \in Remembered(pass, KeyOf(pass)) :
          pass' = Settle(After([pass EXCEPT !.used = Lookup(pass, KeyOf(pass))], v.ok))
    BY <1>1 DEF Hit, GoOn
  <2> DEFINE u == Lookup(pass, KeyOf(pass))
             p == [pass EXCEPT !.used = u]
  <2>2. p = PassOf(pass.at, pass.in, pass.todo, pass.sub, pass.excluded, pass.wholeOK, u, pass.fresh)
    BY PassExcept
  <2>3. v.ok = Judges(validator, KeyOf(pass))
    BY <2>1 DEF Remembered, MemoIsCurrent
  <2>4. \A w \in u : w.ok = Judges(validator, w.key)
    BY DEF Lookup, MemoIsCurrent
  <2>5. pass' = Settle(After(p, v.ok)) /\ pass.at \in Stages \ {"idle"}
    BY <2>1, <1>1 DEF Hit
  <2> HIDE DEF u, p
  <2>6. IsPass(p) /\ SamePass(p, pass) /\ p.used = u
    BY <2>2, PassFields DEF SamePass
  <2>7. QED
    BY <2>3, <2>4, <2>5, <2>6
<1>2. CASE Run
  <2> DEFINE key == KeyOf(pass)
             ok == Judges(validator, key)
             u == pass.used \cup {[key |-> key, ok |-> ok]}
             f == pass.fresh + 1
             p == [pass EXCEPT !.used = u, !.fresh = f]
  <2>1. pass' = Settle(After(p, ok)) /\ pass.at \in Stages \ {"idle"}
    BY <1>2 DEF Run, GoOn, IsPass, PassOf
  <2>3. \A w \in u : w.ok = Judges(validator, w.key)
    BY DEF MemoIsCurrent
  <2> HIDE DEF u, f
  <2>2. p = PassOf(pass.at, pass.in, pass.todo, pass.sub, pass.excluded, pass.wholeOK, u, f)
    <3> DEFINE q == [pass EXCEPT !.used = u]
    <3>1. q = PassOf(pass.at, pass.in, pass.todo, pass.sub, pass.excluded, pass.wholeOK, u, pass.fresh)
      BY PassExcept
    <3>2. p = [q EXCEPT !.fresh = f]
      BY DEF IsPass, PassOf
    <3> HIDE DEF q
    <3>3. /\ IsPass(q) /\ q.at = pass.at /\ q.in = pass.in /\ q.todo = pass.todo /\ q.sub = pass.sub
          /\ q.excluded = pass.excluded /\ q.wholeOK = pass.wholeOK /\ q.used = u
      BY <3>1, PassFields
    <3>4. [q EXCEPT !.fresh = f] = PassOf(q.at, q.in, q.todo, q.sub, q.excluded, q.wholeOK, q.used, f)
      BY <3>3, PassExcept
    <3>5. QED
      BY <3>2, <3>3, <3>4
  <2> HIDE DEF p
  <2>4. IsPass(p) /\ SamePass(p, pass) /\ p.used = u
    BY <2>2, PassFields DEF SamePass
  <2>5. QED
    BY <2>1, <2>3, <2>4
<1>3. QED
  BY <1>1, <1>2

LEMMA StepKeeps ==
  ASSUME NEW p, IsPass(p), NEW ok
  PROVE  LET q == Settle(After(p, ok)) IN IsPass(q) /\ q.in = p.in /\ q.used = p.used
<1>1. KeptBy(p, After(p, ok))
  BY AfterKeeps
<1>2. KeptBy(After(p, ok), Settle(After(p, ok)))
  BY <1>1, SettleKeeps DEF KeptBy
<1>3. QED
  BY <1>1, <1>2 DEF KeptBy

LEMMA BeginKeeps ==
  ASSUME Begin
  PROVE  IsPass(pass') /\ pass'.used = {} /\ pass'.in = input
<1> DEFINE p == [IdlePass EXCEPT !.in = input]
           q == IF IsApplied(input, Full(input)) THEN Judge(p, "masked", Masked(input, Endpoints))
                ELSE [p EXCEPT !.at = "root"]
<1>1. p = PassOf(IdlePass.at, input, IdlePass.todo, IdlePass.sub, IdlePass.excluded, IdlePass.wholeOK,
                 IdlePass.used, IdlePass.fresh)
  BY PassExcept, IdlePassIs
<1>2. pass' = Settle(q)
  BY DEF Begin
<1> HIDE DEF p
<1>3. IsPass(p) /\ p.used = {} /\ p.in = input
  BY <1>1, PassFields, IdlePassIs
<1>4. KeptBy(p, q)
  <2> DEFINE S == Masked(input, Endpoints)
             j == Judge(p, "masked", S)
  <2>1. j = PassOf("masked", p.in, S, FirstCheck(p.in, S), p.excluded, p.wholeOK, p.used, p.fresh)
    BY <1>3, JudgeIs
  <2>2. q = j \/ q = [p EXCEPT !.at = "root"]
    OBVIOUS
  <2> HIDE DEF S, j, q
  <2>3. KeptBy(p, j)
    BY <2>1, KeptByFields
  <2>4. QED
    <3> DEFINE r == [p EXCEPT !.at = "root"]
    <3>1. KeptBy(p, r)
      BY <1>3, ExceptKeeps
    <3>2. q = j \/ q = r
      BY <2>2
    <3> HIDE DEF r
    <3>3. QED
      BY <2>3, <3>1, <3>2
<1> HIDE DEF q
<1>5. KeptBy(q, pass')
  BY <1>2, <1>4, SettleKeeps DEF KeptBy
<1>6. QED
  BY <1>3, <1>4, <1>5 DEF KeptBy

\* What a pass may answer from is what the binary that runs now would say of
\* the same content (verdictMemo): a verdict is stored under the content it
\* was given for, and no verdict outlives the process that gave it.
THEOREM MemoIsCurrentHolds == Spec => []MemoIsCurrent
<1> DEFINE Inv == MemoIsCurrent /\ IsPass(pass)
<1>1. Init => Inv
  BY IdlePassIs DEF Init, MemoIsCurrent
<1>2. Inv /\ [Next]_vars => Inv'
  <2> SUFFICES ASSUME MemoIsCurrent, IsPass(pass), [Next]_vars PROVE MemoIsCurrent' /\ IsPass(pass')
    OBVIOUS
  <2>1. CASE Begin
    BY <2>1, BeginKeeps DEF Begin, MemoIsCurrent
  <2>2. CASE Hit \/ Run
    <3>1. PICK p, ok : /\ IsPass(p) /\ pass' = Settle(After(p, ok))
                       /\ \A v \in p.used : v.ok = Judges(validator, v.key)
      BY <2>2, StepOfPass
    <3>2. IsPass(pass') /\ pass'.used = p.used
      BY <3>1, StepKeeps
    <3>3. kept' = kept /\ validator' = validator
      BY <2>2 DEF Hit, Run
    <3>4. QED
      BY <3>1, <3>2, <3>3 DEF MemoIsCurrent
  <2>3. CASE Conclude
    BY <2>3, IdlePassIs DEF Conclude, MemoIsCurrent, End
  <2>4. CASE CheckFails
    BY <2>4, IdlePassIs DEF CheckFails, MemoIsCurrent, End
  <2>5. CASE Environment
    BY <2>5, IdlePassIs DEF Environment, EditEndpoint, EditPolicy, EditGateway, Restart, MemoIsCurrent
  <2>6. CASE UNCHANGED vars
    BY <2>6 DEF vars, MemoIsCurrent
  <2>7. QED
    BY <2>1, <2>2, <2>3, <2>4, <2>5, <2>6 DEF Next, PassStep
<1>3. QED
  BY <1>1, <1>2, PTL DEF Spec

-----------------------------------------------------------------------------
(* Renders.                                                                *)

\* An endpoint that lost no entry is in the full render with all it has.
LEMMA UnmaskedInFull ==
  ASSUME NEW in \in Input, NEW e \in Rendered(in, Endpoints), e \notin Masked(in, Endpoints)
  PROVE  Entries(in, {e}, in.policy) \subseteq Full(in)
<1> SUFFICES ASSUME NEW en \in Entries(in, {e}, in.policy) PROVE en \in Full(in)
  OBVIOUS
<1> DEFINE entry(d, r) == [route |-> r, spec |-> in.spec[d],
                           policy |-> IF in.spec[d] \in UsesPolicy THEN in.policy ELSE Absent]
<1>1. PICK d \in Rendered(in, {e}) : en \in {entry(d, r) : r \in Keeps(in, {e}, d)}
  BY DEF Entries
<1>2. d = e
  BY DEF Rendered
<1>3. PICK r \in Keeps(in, {e}, e) : en = entry(e, r)
  BY <1>1, <1>2
<1>4. r \in Keeps(in, Endpoints, e)
  BY <1>3 DEF Keeps, Masked
<1>5. en \in {entry(e, x) : x \in Keeps(in, Endpoints, e)}
  BY <1>3, <1>4
<1>6. QED
  BY <1>5 DEF Full, Entries

\* What a policy says is nothing to an endpoint that does not reference it.
LEMMA PolicyUnused ==
  ASSUME NEW in, NEW e, in.spec[e] \notin UsesPolicy, NEW x, NEW y
  PROVE  Unit(in, e, x) = Unit(in, e, y)
<1>1. \A a, b, en : en \in Entries(in, {e}, a) => en \in Entries(in, {e}, b)
  <2> SUFFICES ASSUME NEW a, NEW b, NEW en \in Entries(in, {e}, a) PROVE en \in Entries(in, {e}, b)
    OBVIOUS
  <2> DEFINE entry(d, r, p) == [route |-> r, spec |-> in.spec[d],
                                policy |-> IF in.spec[d] \in UsesPolicy THEN p ELSE Absent]
  <2>1. PICK d \in Rendered(in, {e}) : en \in {entry(d, r, a) : r \in Keeps(in, {e}, d)}
    BY DEF Entries
  <2>2. d = e
    BY DEF Rendered
  <2>3. \A r : entry(d, r, a) = entry(d, r, b)
    BY <2>2
  <2>4. en \in {entry(d, r, b) : r \in Keeps(in, {e}, d)}
    BY <2>1, <2>3
  <2>5. QED
    BY <2>1, <2>4 DEF Entries
<1>2. Entries(in, {e}, x) = Entries(in, {e}, y)
  BY <1>1
<1>3. QED
  BY <1>2 DEF Unit

\* An accepted full render has judged the endpoints it did not mask.
LEMMA UnmaskedPasses ==
  ASSUME NEW v \in Validators, NEW in \in Input, Judges(v, ContentKey(in, "validate", Full(in))),
         NEW e \in Rendered(in, Endpoints), e \notin Masked(in, Endpoints)
  PROVE  Judges(v, Unit(in, e, in.policy))
<1>1. e \in Endpoints
  BY DEF Rendered
<1>2. QED
  BY <1>1, UnmaskedInFull, PartsPass

-----------------------------------------------------------------------------
(* A pass is sound.                                                        *)

LEMMA SamePassOK ==
  ASSUME NEW p, NEW q, IsPass(p), SamePass(p, q), PassOK(q)
  PROVE  PassOK(p) /\ KeyOf(p) = KeyOf(q) /\ (Busy(q) => Busy(p))
<1> USE DEF SamePass
<1>1. Judging(p)
  BY DEF PassOK, Judging, FullApplied, Judged, Passes, WholeKey, Suspects, AtCheck, Current
<1>2. Backed(p)
  BY DEF PassOK, Backed, FullApplied, RestApplied, Passes, WholeKey, RestKey
<1>3. KeyOf(p) = KeyOf(q) /\ (Busy(q) => Busy(p))
  BY DEF KeyOf, Busy, Current
<1>4. QED
  BY <1>1, <1>2, <1>3 DEF PassOK

\* Entering the check of an endpoint.
LEMMA FirstCheckOK ==
  ASSUME NEW p, p.sub = FirstCheck(p.in, p.todo), p.todo # {}
  PROVE  AtCheck(p)
  BY DEF FirstCheck, AtCheck, Current

\* The endpoint e of a stage is done: it passes, or is left out for a reason.
LEMMA DoneOK ==
  ASSUME NEW p, PassOK(p), p.at \in {"masked", "suspects"}, NEW e, Passes(p, e)
  PROVE  PassOK(Done(p, e))
<1> DEFINE q == Done(p, e)
<1>1. q = PassOf(p.at, p.in, p.todo \ {e}, FirstCheck(p.in, p.todo \ {e}), p.excluded, p.wholeOK, p.used, p.fresh)
  BY DoneIs DEF PassOK
<1> HIDE DEF q
<1>2. /\ IsPass(q) /\ q.at = p.at /\ q.in = p.in /\ q.todo = p.todo \ {e}
      /\ q.sub = FirstCheck(p.in, p.todo \ {e}) /\ q.excluded = p.excluded /\ q.wholeOK = p.wholeOK
  BY <1>1, PassFields
<1>3. \A S : Judged(p, S) => Judged(q, S)
  BY <1>2 DEF Judged, Passes
<1>4. q.todo # {} => AtCheck(q)
  BY <1>2, FirstCheckOK
<1>5. Judging(q)
  BY <1>2, <1>3, <1>4 DEF PassOK, Judging, FullApplied, WholeKey, Suspects
<1>6. Backed(q)
  BY <1>2 DEF Backed
<1>7. PassOK(q)
  BY <1>2, <1>5, <1>6 DEF PassOK
<1>8. QED
  BY <1>7 DEF q

LEMMA ExcludeOK ==
  ASSUME NEW p, PassOK(p), p.at \in {"masked", "suspects"}, NEW e, NEW reason,
         Blames(validator, p.in, e, reason)
  PROVE  PassOK(Done(Exclude(p, e, reason), e))
<1> DEFINE q == Done(Exclude(p, e, reason), e)
<1>1. q = PassOf(p.at, p.in, p.todo \ {e}, FirstCheck(p.in, p.todo \ {e}), WithReason(p.excluded, e, reason),
                 p.wholeOK, p.used, p.fresh)
  BY ExcludeDoneIs DEF PassOK
<1> HIDE DEF q
<1>2. /\ IsPass(q) /\ q.at = p.at /\ q.in = p.in /\ q.todo = p.todo \ {e}
      /\ q.sub = FirstCheck(p.in, p.todo \ {e}) /\ q.excluded = WithReason(p.excluded, e, reason)
      /\ q.wholeOK = p.wholeOK
  BY <1>1, PassFields
<1>e. /\ DOMAIN q.excluded = DOMAIN p.excluded \cup {e}
      /\ \A d \in DOMAIN q.excluded : q.excluded[d] = IF d = e THEN reason ELSE p.excluded[d]
  BY <1>2 DEF WithReason
<1>3. \A S : Judged(p, S) => Judged(q, S)
  BY <1>2, <1>e DEF Judged, Passes
<1>4. q.todo # {} => AtCheck(q)
  BY <1>2, FirstCheckOK
<1>5. Judging(q)
  BY <1>2, <1>3, <1>4 DEF PassOK, Judging, FullApplied, WholeKey, Suspects
<1>6. Backed(q)
  BY <1>2 DEF Backed
<1>b. \A d \in DOMAIN q.excluded : Blames(validator, q.in, d, q.excluded[d])
  BY <1>2, <1>e DEF PassOK
<1>7. PassOK(q)
  BY <1>2, <1>5, <1>6, <1>b DEF PassOK
<1>8. QED
  BY <1>7 DEF q

LEMMA RecheckOK ==
  ASSUME NEW p, PassOK(p), p.at \in {"masked", "suspects"}, NEW sub,
         NEW q, q = PassOf(p.at, p.in, p.todo, sub, p.excluded, p.wholeOK, p.used, p.fresh), AtCheck(q)
  PROVE  PassOK(q)
<1>2. /\ IsPass(q) /\ q.at = p.at /\ q.in = p.in /\ q.todo = p.todo
      /\ q.excluded = p.excluded /\ q.wholeOK = p.wholeOK
  BY PassFields
<1>3. \A S : Judged(p, S) => Judged(q, S)
  BY <1>2 DEF Judged, Passes
<1>5. Judging(q)
  BY <1>2, <1>3 DEF PassOK, Judging, FullApplied, WholeKey, Suspects
<1>6. Backed(q)
  BY <1>2 DEF Backed
<1>7. QED
  BY <1>2, <1>5, <1>6 DEF PassOK

\* CheckEndpoint: whatever the verdict on the check it is at, the endpoint at
\* hand is judged on, done, or left out for the right reason.
LEMMA AfterEndpointOK ==
  ASSUME NEW p, PassOK(p), p.at \in {"masked", "suspects"}, p.todo # {}, NEW ok, ok = Judges(validator, KeyOf(p))
  PROVE  PassOK(AfterEndpoint(p, ok))
<1> DEFINE e == Current(p)
<1>c. AtCheck(p)
  BY DEF PassOK, Judging
<1>p. IsPass(p)
  BY DEF PassOK
<1>r. \A sub : Recheck(p, sub) = PassOf(p.at, p.in, p.todo, sub, p.excluded, p.wholeOK, p.used, p.fresh)
  BY <1>p, PassExcept DEF Recheck
<1>1. CASE p.sub = "policy"
  <2>1. KeyOf(p) = PolicyAlone(p.in.policy) /\ p.in.spec[e] \in UsesPolicy
    BY <1>1, <1>c DEF KeyOf, AtCheck
  <2>2. CASE ok
    <3> DEFINE q == Recheck(p, "unit")
    <3>1. q = PassOf(p.at, p.in, p.todo, "unit", p.excluded, p.wholeOK, p.used, p.fresh)
      BY <1>r
    <3>2. AfterEndpoint(p, ok) = q
      BY <1>1, <2>2 DEF AfterEndpoint
    <3> HIDE DEF q
    <3>3. q.in = p.in /\ q.todo = p.todo /\ q.sub = "unit"
      BY <3>1, PassFields
    <3>4. AtCheck(q)
      BY <2>1, <2>2, <3>3 DEF AtCheck
    <3>5. QED
      BY <3>1, <3>2, <3>4, RecheckOK
  <2>3. CASE ~ok
    <3>1. AfterEndpoint(p, ok) = Done(Exclude(p, e, "PolicyInvalid"), e)
      BY <1>1, <2>3 DEF AfterEndpoint
    <3>2. Blames(validator, p.in, e, "PolicyInvalid")
      BY <2>1, <2>3 DEF Blames
    <3> HIDE DEF e
    <3>3. QED
      BY <3>1, <3>2, ExcludeOK
  <2>4. QED
    BY <2>2, <2>3
<1>2. CASE p.sub = "unit"
  <2>1. KeyOf(p) = Unit(p.in, e, p.in.policy)
    BY <1>2 DEF KeyOf, Unit
  <2>c. p.in.spec[e] \in UsesPolicy => Judges(validator, PolicyAlone(p.in.policy))
    BY <1>2, <1>c DEF AtCheck
  <2>2. CASE ok
    <3>1. AfterEndpoint(p, ok) = Done(p, e) /\ Passes(p, e)
      BY <1>2, <2>1, <2>2 DEF AfterEndpoint, Passes
    <3> HIDE DEF e
    <3>2. QED
      BY <3>1, DoneOK
  <2>3. CASE ~ok /\ e \in Foreign /\ p.in.spec[e] \in UsesPolicy
    <3> DEFINE q == Recheck(p, "own")
    <3>1. q = PassOf(p.at, p.in, p.todo, "own", p.excluded, p.wholeOK, p.used, p.fresh)
      BY <1>r
    <3>2. AfterEndpoint(p, ok) = q
      BY <1>2, <2>3 DEF AfterEndpoint
    <3> HIDE DEF q
    <3>3. q.in = p.in /\ q.todo = p.todo /\ q.sub = "own"
      BY <3>1, PassFields
    <3>4. AtCheck(q)
      BY <2>1, <2>3, <2>c, <3>3 DEF AtCheck, Current, Passes
    <3>5. QED
      BY <3>1, <3>2, <3>4, RecheckOK
  <2>4. CASE ~ok /\ ~(e \in Foreign /\ p.in.spec[e] \in UsesPolicy)
    <3>1. AfterEndpoint(p, ok) = Done(Exclude(p, e, "EndpointInvalid"), e)
      BY <1>2, <2>4 DEF AfterEndpoint
    <3> DEFINE own == Unit(p.in, e, IF e \in Foreign THEN Empty ELSE p.in.policy)
    <3>2. own = Unit(p.in, e, p.in.policy)
      BY <2>4, PolicyUnused
    <3>3. ~Judges(validator, own)
      BY <2>1, <2>4, <3>2
    <3>4. Blames(validator, p.in, e, "EndpointInvalid")
      BY <2>c, <3>3 DEF Blames
    <3> HIDE DEF e
    <3>5. QED
      BY <3>1, <3>4, ExcludeOK
  <2>5. QED
    BY <2>2, <2>3, <2>4
<1>3. CASE p.sub \notin {"policy", "unit"}
  <2>1. /\ e \in Foreign /\ p.in.spec[e] \in UsesPolicy /\ ~Passes(p, e)
        /\ Judges(validator, PolicyAlone(p.in.policy))
    BY <1>3, <1>c DEF AtCheck
  <2>2. KeyOf(p) = Unit(p.in, e, Empty)
    BY <1>3 DEF KeyOf, Unit
  <2> DEFINE reason == IF ok THEN "PolicyInvalid" ELSE "EndpointInvalid"
  <2>3. AfterEndpoint(p, ok) = Done(Exclude(p, e, reason), e)
    BY <1>3 DEF AfterEndpoint
  <2>4. Blames(validator, p.in, e, reason)
    BY <2>1, <2>2 DEF Blames, Passes
  <2> HIDE DEF e, reason
  <2>5. QED
    BY <2>3, <2>4, ExcludeOK
<1>4. QED
  BY <1>1, <1>2, <1>3

LEMMA AfterOK ==
  ASSUME NEW p, PassOK(p), Busy(p), p.at \in Stages \ {"idle"}, NEW ok, ok = Judges(validator, KeyOf(p))
  PROVE  PassOK(After(p, ok))
<1>p. IsPass(p)
  BY DEF PassOK
<1>1. CASE p.at = "root"
  <2> DEFINE at == IF ok THEN "whole" ELSE "rootInvalid"
             q == [p EXCEPT !.at = at]
  <2>1. q = PassOf(at, p.in, p.todo, p.sub, p.excluded, p.wholeOK, p.used, p.fresh)
    BY <1>p, PassExcept
  <2>2. After(p, ok) = q /\ at \in {"whole", "rootInvalid"}
    BY <1>1 DEF After
  <2> HIDE DEF at, q
  <2>3. IsPass(q) /\ q.at = at /\ q.in = p.in /\ q.excluded = p.excluded
    BY <2>1, PassFields
  <2>4. QED
    BY <2>2, <2>3 DEF PassOK, Judging, Backed
<1>2. CASE p.at = "whole"
  <2> DEFINE w == [p EXCEPT !.wholeOK = ok]
             S == Suspects(p, ok)
             q == Judge(w, "suspects", S)
  <2>1. w = PassOf(p.at, p.in, p.todo, p.sub, p.excluded, ok, p.used, p.fresh)
    BY <1>p, PassExcept
  <2>2. After(p, ok) = q
    BY <1>2 DEF After
  <2>k. ok = Judges(validator, WholeKey(p))
    BY <1>2 DEF KeyOf, WholeKey
  <2> HIDE DEF w
  <2>3. IsPass(w) /\ w.in = p.in /\ w.excluded = p.excluded /\ w.wholeOK = ok
    BY <2>1, PassFields
  <2>4. q = PassOf("suspects", w.in, S, FirstCheck(w.in, S), w.excluded, w.wholeOK, w.used, w.fresh)
    BY <2>3, JudgeIs
  <2> HIDE DEF S, q
  <2>5. /\ IsPass(q) /\ q.at = "suspects" /\ q.in = p.in /\ q.todo = S /\ q.sub = FirstCheck(p.in, S)
        /\ q.excluded = p.excluded /\ q.wholeOK = ok
    BY <2>3, <2>4, PassFields
  <2>6. Suspects(q, q.wholeOK) = S /\ WholeKey(q) = WholeKey(p)
    BY <2>5 DEF S, Suspects, WholeKey
  <2>7. q.todo # {} => AtCheck(q)
    BY <2>5, FirstCheckOK
  <2>8. Judging(q)
    BY <2>5, <2>6, <2>7, <2>k DEF Judging, Judged
  <2>9. QED
    BY <2>2, <2>5, <2>8 DEF PassOK, Backed
<1>3. CASE p.at = "safety"
  <2> DEFINE at == IF ok THEN "rest" ELSE "combined"
             q == [p EXCEPT !.at = at]
  <2>1. q = PassOf(at, p.in, p.todo, p.sub, p.excluded, p.wholeOK, p.used, p.fresh)
    BY <1>p, PassExcept
  <2>2. After(p, ok) = q /\ at \in {"rest", "combined"} /\ (at = "rest" => ok)
    BY <1>3 DEF After
  <2>k. ok = Judges(validator, RestKey(p))
    BY <1>3 DEF KeyOf, RestKey
  <2> HIDE DEF at, q
  <2>3. IsPass(q) /\ q.at = at /\ q.in = p.in /\ q.excluded = p.excluded
    BY <2>1, PassFields
  <2>4. Backed(q)
    BY <1>3, <2>2, <2>3, <2>k DEF PassOK, Backed, Passes, RestKey
  <2>5. QED
    BY <2>2, <2>3, <2>4 DEF PassOK, Judging
<1>4. CASE p.at \in {"masked", "suspects"}
  <2>1. After(p, ok) = AfterEndpoint(p, ok)
    BY <1>4 DEF After
  <2>2. QED
    BY <1>4, <2>1, AfterEndpointOK DEF Busy
<1>5. QED
  BY <1>1, <1>2, <1>3, <1>4 DEF Stages

LEMMA SettleOK ==
  ASSUME NEW p, PassOK(p), Typed
  PROVE  PassOK(Settle(p)) /\ Busy(Settle(p))
<1>p. IsPass(p) /\ p.in \in Input
  BY DEF PassOK
<1>1. CASE p.at \notin {"masked", "suspects"} \/ p.todo # {}
  BY <1>1 DEF Settle, Busy
<1>2. CASE p.at = "masked" /\ p.todo = {} /\ DOMAIN p.excluded = {}
  <2> DEFINE q == [p EXCEPT !.at = "full"]
  <2>1. q = PassOf("full", p.in, p.todo, p.sub, p.excluded, p.wholeOK, p.used, p.fresh) /\ Settle(p) = q
    BY <1>2, <1>p, PassExcept DEF Settle
  <2> HIDE DEF q
  <2>2. IsPass(q) /\ q.at = "full" /\ q.in = p.in /\ q.excluded = p.excluded
    BY <2>1, PassFields
  <2>3. FullApplied(q) /\ \A e \in Masked(p.in, Endpoints) : Passes(q, e)
    BY <1>2, <2>2 DEF PassOK, Judging, FullApplied, Judged, Passes
  <2>4. Backed(q)
    BY <2>2, <2>3 DEF Backed
  <2>5. QED
    BY <2>1, <2>2, <2>4 DEF PassOK, Judging, Busy
<1>3. CASE p.at = "masked" /\ p.todo = {} /\ DOMAIN p.excluded # {}
  <2> DEFINE none == <<>>
             q == [p EXCEPT !.at = "root", !.excluded = none]
  <2>1. q = PassOf("root", p.in, p.todo, p.sub, none, p.wholeOK, p.used, p.fresh) /\ Settle(p) = q
    BY <1>3, <1>p, PassExceptTwo DEF Settle
  <2>2. DOMAIN none = {}
    OBVIOUS
  <2> HIDE DEF q, none
  <2>3. IsPass(q) /\ q.at = "root" /\ q.in = p.in /\ q.excluded = none
    BY <2>1, PassFields
  <2>4. QED
    BY <1>p, <2>1, <2>2, <2>3 DEF PassOK, Judging, Backed, Busy
<1>4. CASE p.at = "suspects" /\ p.todo = {}
  <2>1. PICK at : /\ Settle(p) = [p EXCEPT !.at = at]
                  /\ \/ at = "full" /\ p.wholeOK /\ DOMAIN p.excluded = {}
                     \/ at = "combined"
                     \/ at = "rest" /\ RestApplied(p)
                     \/ at = "safety"
    BY <1>4 DEF Settle, RestApplied
  <2> DEFINE q == [p EXCEPT !.at = at]
  <2>2. q = PassOf(at, p.in, p.todo, p.sub, p.excluded, p.wholeOK, p.used, p.fresh)
    BY <1>p, PassExcept
  <2> HIDE DEF q
  <2>3. IsPass(q) /\ q.at = at /\ q.in = p.in /\ q.excluded = p.excluded
    BY <2>2, PassFields
  <2>4. \A e \in Rendered(p.in, Endpoints) \ DOMAIN p.excluded : Passes(p, e)
    <3>1. p.wholeOK = Judges(validator, WholeKey(p)) /\ Judged(p, Suspects(p, p.wholeOK))
      BY <1>4 DEF PassOK, Judging
    <3>2. CASE p.wholeOK
      <4>1. Judges(validator, ContentKey(p.in, "validate", Full(p.in)))
        BY <3>1, <3>2 DEF WholeKey
      <4>2. \A e \in Rendered(p.in, Endpoints) \ Masked(p.in, Endpoints) : Passes(p, e)
        BY <4>1, <1>p, UnmaskedPasses DEF Typed, Passes
      <4>3. Suspects(p, p.wholeOK) = Masked(p.in, Endpoints)
        BY <3>2 DEF Suspects
      <4>4. QED
        BY <1>4, <3>1, <4>2, <4>3 DEF Judged
    <3>3. CASE ~p.wholeOK
      BY <1>4, <3>1, <3>3 DEF Judged, Suspects
    <3>4. QED
      BY <3>2, <3>3
  <2>5. p.wholeOK = Judges(validator, WholeKey(p))
    BY <1>4 DEF PassOK, Judging
  <2>6. Backed(q)
    BY <2>1, <2>3, <2>4, <2>5 DEF Backed, Passes, FullApplied, RestApplied, WholeKey
  <2>7. PassOK(q) /\ Busy(q)
    BY <2>1, <2>3, <2>6 DEF PassOK, Judging, Busy
  <2>8. QED
    BY <2>1, <2>7 DEF q
<1>5. QED
  BY <1>1, <1>2, <1>3, <1>4

\* What a pass rests on stays while the binary and the applied config do.
LEMMA PassFrame ==
  ASSUME validator' = validator, applied' = applied, NEW q, pass' = q, PassOK(q), Busy(q)
  PROVE  PassOK(pass)' /\ Busy(pass)'
<1>1. /\ PassOK(pass)' <=> PassOK(q)
      /\ Busy(pass)' <=> Busy(q)
  BY DEF PassOK, Judging, Backed, FullApplied, RestApplied, IsApplied, Judged, Passes, AtCheck, Current, KeyOf,
         WholeKey, RestKey, Suspects, Busy, IsPass
<1>2. QED
  BY <1>1

LEMMA IdleOK == PassOK(IdlePass) /\ Busy(IdlePass)
  BY IdlePassIs DEF PassOK, Judging, Backed, Busy

LEMMA IdleAfter ==
  ASSUME pass' = IdlePass
  PROVE  PassOK(pass)' /\ Busy(pass)'
  BY IdlePassIs DEF PassOK, Judging, Backed, Busy, IsPass

LEMMA BeginOK ==
  ASSUME Typed, Begin
  PROVE  PassOK(pass)' /\ Busy(pass)'
<1> DEFINE p == [IdlePass EXCEPT !.in = input]
           S == Masked(input, Endpoints)
           j == Judge(p, "masked", S)
           r == [p EXCEPT !.at = "root"]
<1>1. p = PassOf(IdlePass.at, input, IdlePass.todo, IdlePass.sub, IdlePass.excluded, IdlePass.wholeOK,
                 IdlePass.used, IdlePass.fresh)
  BY PassExcept, IdlePassIs
<1>2. pass' = Settle(IF IsApplied(input, Full(input)) THEN j ELSE r)
  BY DEF Begin
<1> HIDE DEF p
<1>3. IsPass(p) /\ p.in = input /\ DOMAIN p.excluded = {} /\ input \in Input
  BY <1>1, PassFields, IdlePassIs DEF Typed
<1>4. j = PassOf("masked", p.in, S, FirstCheck(p.in, S), p.excluded, p.wholeOK, p.used, p.fresh)
  BY <1>3, JudgeIs
<1>r. r = PassOf("root", p.in, p.todo, p.sub, p.excluded, p.wholeOK, p.used, p.fresh)
  BY <1>3, PassExcept
<1> HIDE DEF S, j, r
<1>5. /\ IsPass(j) /\ j.at = "masked" /\ j.in = input /\ j.todo = S /\ j.sub = FirstCheck(input, S)
      /\ DOMAIN j.excluded = {}
  BY <1>3, <1>4, PassFields
<1>6. IsPass(r) /\ r.at = "root" /\ r.in = input /\ DOMAIN r.excluded = {}
  BY <1>3, <1>r, PassFields
<1>7. ASSUME IsApplied(input, Full(input)) PROVE PassOK(j)
  <2>1. FullApplied(j) /\ Judged(j, Masked(j.in, Endpoints))
    BY <1>5, <1>7 DEF FullApplied, Judged, S
  <2>2. j.todo # {} => AtCheck(j)
    BY <1>5, FirstCheckOK
  <2>3. QED
    BY <1>3, <1>5, <2>1, <2>2 DEF PassOK, Judging, Backed
<1>8. PassOK(r)
  BY <1>3, <1>6 DEF PassOK, Judging, Backed
<1>9. PICK q : PassOK(q) /\ pass' = Settle(q)
  BY <1>2, <1>7, <1>8
<1>10. validator' = validator /\ applied' = applied
  BY DEF Begin
<1>11. QED
  BY <1>9, <1>10, SettleOK, PassFrame

\* An applied config that is compared equal is one that was accepted.
LEMMA AppliedAccepted ==
  ASSUME Typed, AppliedWasAccepted, NEW in \in Input, NEW entries, IsApplied(in, entries)
  PROVE  applied.by \in Validators /\ Judges(applied.by, ContentKey(in, "validate", entries))
<1>1. applied.root = in.root /\ applied.edition = in.edition /\ applied.entries = entries
  BY DEF IsApplied
<1>2. in.edition \in {"CE", "EE"}
  BY DEF Input, Editions
<1>3. applied # Nothing
  BY <1>1, <1>2 DEF Nothing
<1>4. QED
  BY <1>1, <1>3 DEF Typed, AppliedWasAccepted, ContentKey

\* The decision a sound pass comes to is sound.
LEMMA ConcludeOK ==
  ASSUME DecisionInv, Conclude
  PROVE  Typed' /\ DecisionSound'
<1> DEFINE none == <<>>
           ex == IF pass.at \in {"rest", "combined"} THEN pass.excluded ELSE none
           en == IF pass.at = "full" THEN Full(pass.in) ELSE IF pass.at = "rest" THEN Rest(pass.in, DOMAIN ex) ELSE {}
           by == IF IsApplied(pass.in, en) THEN applied.by ELSE validator
           kind == IF pass.at \in {"full", "rest"} THEN "none" ELSE pass.at
           judged == pass.at # "rootInvalid"
<1>i. /\ Typed /\ PassOK(pass) /\ AppliedWasAccepted /\ pass.in \in Input /\ validator \in Validators
      /\ pass.at \in {"full", "rest", "rootInvalid", "combined"}
  BY DEF DecisionInv, DecisionSound, PassOK, Typed, Conclude
<1>n. DOMAIN none = {}
  OBVIOUS
<1>1. /\ last' = [in |-> pass.in, excluded |-> ex, judged |-> judged, failure |-> kind, now |-> validator, by |-> by]
      /\ applied' = IF pass.at \in {"full", "rest"}
                       THEN [root |-> pass.in.root, edition |-> pass.in.edition, entries |-> en, by |-> by]
                       ELSE applied
      /\ validator' = validator /\ input' = input
  BY DEF Conclude
<1>2. DOMAIN ex # {} => pass.at \in {"rest", "combined"} /\ ex = pass.excluded
  BY <1>n
<1>3. pass.at \in {"full", "rest"} => by \in Validators /\ Judges(by, ContentKey(pass.in, "validate", en))
  <2>1. CASE IsApplied(pass.in, en)
    BY <2>1, <1>i, AppliedAccepted
  <2>2. CASE ~IsApplied(pass.in, en)
    <3>1. pass.at = "full" => Judges(validator, ContentKey(pass.in, "validate", en))
      BY <2>2, <1>i DEF PassOK, Backed, FullApplied, WholeKey
    <3>2. pass.at = "rest" => Judges(validator, ContentKey(pass.in, "validate", en))
      BY <2>2, <1>i DEF PassOK, Backed, RestApplied, RestKey
    <3>3. QED
      BY <3>1, <3>2, <2>2, <1>i
  <2>3. QED
    BY <2>1, <2>2
<1>4. AppliedWasAccepted' /\ Typed'
  <2>1. CASE pass.at \in {"full", "rest"}
    <3>1. /\ applied'.root = pass.in.root /\ applied'.edition = pass.in.edition
          /\ applied'.entries = en /\ applied'.by = by
      BY <2>1, <1>1
    <3> HIDE DEF en, by
    <3>2. QED
      BY <2>1, <3>1, <1>1, <1>3, <1>i DEF AppliedWasAccepted, ContentKey, Typed
  <2>2. CASE pass.at \notin {"full", "rest"}
    BY <2>2, <1>1, <1>i DEF AppliedWasAccepted, Typed
  <2>3. QED
    BY <2>1, <2>2
<1>5. BlamesTheOwner'
  <2>1. last'.excluded = ex /\ last'.in = pass.in /\ last'.now = validator
    BY <1>1
  <2>2. \A e \in DOMAIN ex : Blames(validator, pass.in, e, ex[e])
    BY <1>2, <1>i DEF PassOK
  <2> HIDE DEF ex
  <2>3. QED
    BY <2>1, <2>2 DEF BlamesTheOwner
<1>6. JudgedMeansPasses'
  <2>1. last'.excluded = ex /\ last'.in = pass.in /\ last'.now = validator /\ last'.by = by /\ last'.judged = judged
    BY <1>1
  <2>2. ASSUME judged, NEW e \in Rendered(pass.in, Endpoints) \ DOMAIN ex
        PROVE  Judges(validator, Unit(pass.in, e, pass.in.policy)) \/ Judges(by, Unit(pass.in, e, pass.in.policy))
    <3>1. CASE pass.at \in {"rest", "combined"}
      BY <3>1, <2>2, <1>i DEF PassOK, Backed, Passes
    <3>2. CASE pass.at = "full"
      <4>1. Passes(pass, e) \/ (FullApplied(pass) /\ e \notin Masked(pass.in, Endpoints))
        BY <3>2, <2>2, <1>i DEF PassOK, Backed
      <4>2. en = Full(pass.in)
        BY <3>2
      <4>3. by \in Validators /\ Judges(by, ContentKey(pass.in, "validate", Full(pass.in)))
        BY <3>2, <4>2, <1>3
      <4> HIDE DEF by, en, ex
      <4>4. e \notin Masked(pass.in, Endpoints) => Judges(by, Unit(pass.in, e, pass.in.policy))
        BY <4>3, <2>2, <1>i, UnmaskedPasses
      <4>5. QED
        BY <4>1, <4>4 DEF Passes
    <3>3. QED
      BY <3>1, <3>2, <2>2, <1>i
  <2> HIDE DEF ex, by, judged
  <2>3. QED
    BY <2>1, <2>2 DEF JudgedMeansPasses
<1>7. QED
  BY <1>4, <1>5, <1>6 DEF DecisionSound

LEMMA DecisionInvInit == Init => DecisionInv
<1> SUFFICES ASSUME Init PROVE DecisionInv
  OBVIOUS
<1>1. Typed /\ MemoIsCurrent /\ PassOK(pass) /\ Busy(pass)
  BY IdleOK, IdlePassIs, DecisionAssumption DEF Init, Typed, MemoIsCurrent
<1>2. DOMAIN last.excluded = {} /\ last.judged = FALSE
  BY DEF Init, NoDecision
<1>3. DecisionSound
  BY <1>2 DEF Init, DecisionSound, AppliedWasAccepted, BlamesTheOwner, JudgedMeansPasses
<1>4. QED
  BY <1>1, <1>3 DEF DecisionInv

\* A decision is sound (decide): the applied config passed krakend check as a
\* whole and as the edition it is applied for; an endpoint that is left out is
\* blamed for what it owns, and for a policy only when the policy is the cause;
\* every endpoint that stays in passes on its own, with the entries it lost.
THEOREM DecisionSoundHolds == Spec => []DecisionSound
<1> DEFINE Rest0 == Typed /\ PassOK(pass) /\ Busy(pass) /\ DecisionSound
<1>1. Init => Rest0
  BY DecisionInvInit DEF DecisionInv
<1>2. MemoIsCurrent /\ Rest0 /\ [Next]_vars => Rest0'
  <2> SUFFICES ASSUME DecisionInv, [Next]_vars PROVE Typed' /\ PassOK(pass)' /\ Busy(pass)' /\ DecisionSound'
    BY DEF DecisionInv
  <2>i. Typed /\ MemoIsCurrent /\ PassOK(pass) /\ Busy(pass) /\ DecisionSound
    BY DEF DecisionInv
  <2>s. ASSUME last' = last, applied' = applied PROVE DecisionSound'
    BY <2>i, <2>s DEF DecisionSound, AppliedWasAccepted, BlamesTheOwner, JudgedMeansPasses
  <2>1. CASE Begin
    <3>1. last' = last /\ applied' = applied /\ validator' = validator /\ input' = input
      BY <2>1 DEF Begin
    <3>2. QED
      BY <2>1, <2>i, <2>s, <3>1, BeginOK DEF Typed
  <2>2. CASE Hit \/ Run
    <3>1. last' = last /\ applied' = applied /\ validator' = validator /\ input' = input
      BY <2>2 DEF Hit, Run
    <3>2. PICK p, ok : /\ IsPass(p) /\ SamePass(p, pass) /\ pass' = Settle(After(p, ok))
                       /\ ok = Judges(validator, KeyOf(pass)) /\ pass.at \in Stages \ {"idle"}
      BY <2>2, <2>i, StepOfPass DEF PassOK
    <3>3. PassOK(p) /\ KeyOf(p) = KeyOf(pass) /\ Busy(p)
      BY <3>2, <2>i, SamePassOK
    <3>4. PassOK(After(p, ok))
      BY <3>2, <3>3, AfterOK DEF SamePass
    <3>5. PassOK(Settle(After(p, ok))) /\ Busy(Settle(After(p, ok)))
      BY <3>4, <2>i, SettleOK
    <3>6. PassOK(pass)' /\ Busy(pass)'
      BY <3>1, <3>2, <3>5, PassFrame
    <3>7. QED
      BY <2>i, <2>s, <3>1, <3>6 DEF Typed
  <2>3. CASE Conclude
    <3>1. pass' = IdlePass
      BY <2>3 DEF Conclude
    <3>2. QED
      BY <2>3, <3>1, ConcludeOK, IdleAfter
  <2>4. CASE CheckFails
    <3>1. pass' = IdlePass /\ last' = last /\ applied' = applied /\ validator' = validator /\ input' = input
      BY <2>4 DEF CheckFails
    <3>2. QED
      BY <2>i, <2>s, <3>1, IdleAfter DEF Typed
  <2>5. ASSUME NEW v \in Validators, Restart(v)
        PROVE  Typed' /\ PassOK(pass)' /\ Busy(pass)' /\ DecisionSound'
    <3>1. pass' = IdlePass /\ last' = NoDecision /\ applied' = applied /\ validator' = v /\ input' = input
      BY <2>5 DEF Restart
    <3>2. DOMAIN last'.excluded = {} /\ last'.judged = FALSE
      BY <3>1 DEF NoDecision
    <3>3. DecisionSound'
      BY <2>i, <3>1, <3>2 DEF DecisionSound, AppliedWasAccepted, BlamesTheOwner, JudgedMeansPasses
    <3>4. QED
      BY <2>i, <3>1, <3>3, IdleAfter DEF Typed
  <2>6. ASSUME input' \in Input, UNCHANGED <<applied, pass, kept, validator, last>>
        PROVE  Typed' /\ PassOK(pass)' /\ Busy(pass)' /\ DecisionSound'
    <3>1. PassOK(pass)' /\ Busy(pass)'
      BY <2>6, <2>i, PassFrame
    <3>2. QED
      BY <2>6, <2>i, <2>s, <3>1 DEF Typed
  <2>7. ASSUME NEW e \in Endpoints, NEW x \in Specs \cup {Absent}, EditEndpoint(e, x)
        PROVE  input' \in Input /\ UNCHANGED <<applied, pass, kept, validator, last>>
    BY <2>7, <2>i DEF EditEndpoint, Typed, Input
  <2>8. ASSUME NEW x \in Policies \cup {Absent}, EditPolicy(x)
        PROVE  input' \in Input /\ UNCHANGED <<applied, pass, kept, validator, last>>
    BY <2>8, <2>i DEF EditPolicy, Typed, Input
  <2>9. ASSUME NEW r \in Roots, NEW ed \in Editions, EditGateway(r, ed)
        PROVE  input' \in Input /\ UNCHANGED <<applied, pass, kept, validator, last>>
    BY <2>9, <2>i DEF EditGateway, Typed, Input
  <2>10. CASE UNCHANGED vars
    BY <2>10, <2>i, <2>6 DEF vars, Typed
  <2>11. CASE Environment
    BY <2>11, <2>5, <2>6, <2>7, <2>8, <2>9 DEF Environment
  <2>12. QED
    BY <2>1, <2>2, <2>3, <2>4, <2>10, <2>11 DEF Next, PassStep
<1>3. QED
  BY <1>1, <1>2, MemoIsCurrentHolds, PTL DEF Spec

(***************************************************************************)
(* II.  THE SLOTS.  The controllers leave a slot to admission, and the two *)
(* channels together implement the pool of SlotPool.                       *)
(***************************************************************************)

\* Only those that share wait for a shared slot, and they are in a check only
\* while they hold one.
Held ==
  /\ \A c \in Clients : doing[c] = "share" => c \in Sharers
  /\ \A c \in Sharers : doing[c] \in {"work", "slot", "run"} => c \in shares

\* No more shared slots are held than there are.
SharesBounded == Cardinality(shares) <= Share

SlotInv == SlotTypes /\ Held /\ SharesBounded

-----------------------------------------------------------------------------
(* Cardinalities.                                                          *)

LEMMA ShareType == Share \in Nat /\ Cardinality(Workers) \in Nat
<1>1. Cardinality(Workers) \in Nat
  BY SlotsAssumption, FS_CardinalityType
<1> QED BY <1>1, SlotsAssumption DEF Share

\* Every set of callers is finite.
LEMMA CallersFinite ==
  ASSUME NEW S \in SUBSET Clients
  PROVE  IsFiniteSet(S) /\ Cardinality(S) \in Nat
<1>1. IsFiniteSet(Workers \cup Sharers)
  BY SlotsAssumption, FS_Union
<1>2. IsFiniteSet(Clients)
  BY <1>1, SlotsAssumption, FS_Union DEF Clients
<1>3. IsFiniteSet(S)
  BY <1>2, FS_Subset
<1> QED BY <1>3, FS_CardinalityType

\* Callers that are the gateway's workers or hold a shared slot take at most
\* all slots but one.
LEMMA OneSlotLeft ==
  ASSUME SlotInv, NEW S \in SUBSET (Workers \cup shares)
  PROVE  Cardinality(S) <= Slots - 1
<1>1. shares \in SUBSET Clients /\ Workers \in SUBSET Clients
  BY DEF SlotInv, SlotTypes, Clients
<1>2. /\ IsFiniteSet(shares) /\ Cardinality(shares) \in Nat
      /\ IsFiniteSet(Workers) /\ Cardinality(Workers) \in Nat
  BY <1>1, CallersFinite
<1>3. Workers \cap shares = {}
  BY SlotsAssumption DEF SlotInv, SlotTypes
<1>4. /\ IsFiniteSet(Workers \cup shares)
      /\ Cardinality(Workers \cup shares) = Cardinality(Workers) + Cardinality(shares) - Cardinality({})
  BY <1>2, <1>3, FS_Union
<1>5. Cardinality(Workers \cup shares) = Cardinality(Workers) + Cardinality(shares)
  BY <1>2, <1>4, FS_EmptySet
<1>6. Cardinality(S) <= Cardinality(Workers \cup shares) /\ IsFiniteSet(S)
  BY <1>4, FS_Subset
<1>7. Cardinality(S) \in Nat
  BY <1>6, FS_CardinalityType
<1>8. Cardinality(shares) <= Slots - 1 - Cardinality(Workers)
  BY DEF SlotInv, SharesBounded, Share
<1> QED BY <1>2, <1>5, <1>6, <1>7, <1>8, SlotsAssumption

-----------------------------------------------------------------------------
(* The invariant.                                                          *)

LEMMA InitInv == InitSlots => SlotInv
<1> SUFFICES ASSUME InitSlots PROVE SlotInv
  OBVIOUS
<1>1. SlotTypes
  <2>1. 0 \in 0..MaxChecks
    BY SlotsAssumption
  <2>2. stopping \in BOOLEAN
    BY Zenon DEF InitSlots
  <2> QED BY <2>1, <2>2 DEF InitSlots, SlotTypes, Places
<1>2. Held
  BY DEF InitSlots, Held, Clients
<1>3. SharesBounded
  BY FS_EmptySet, ShareType DEF InitSlots, SharesBounded
<1> QED BY <1>1, <1>2, <1>3 DEF SlotInv

\* A caller that leaves its check frees its shared slot.
LEMMA ReturnInv ==
  ASSUME SlotInv, NEW c \in Clients, Return(c)
  PROVE  SlotInv'
<1>1. SlotTypes'
  BY SlotsAssumption DEF SlotInv, SlotTypes, Return, Leave, Go, Places
<1>2. Held'
  BY DEF SlotInv, SlotTypes, Held, Return, Leave, Go, Clients
<1>3. SharesBounded'
  <2>1. shares \in SUBSET Clients
    BY DEF SlotInv, SlotTypes, Clients
  <2>2. IsFiniteSet(shares) /\ Cardinality(shares) \in Nat
    BY <2>1, CallersFinite
  <2>3. shares' \in SUBSET shares
    BY DEF Return
  <2>4. IsFiniteSet(shares') /\ Cardinality(shares') <= Cardinality(shares)
    BY <2>2, <2>3, FS_Subset
  <2>5. Cardinality(shares') \in Nat
    BY <2>4, FS_CardinalityType
  <2> QED BY <2>2, <2>4, <2>5, ShareType DEF SlotInv, SharesBounded, Share
<1> QED BY <1>1, <1>2, <1>3 DEF SlotInv

LEMMA StepInv == SlotInv /\ [NextSlots]_slotVars => SlotInv'
<1> SUFFICES ASSUME SlotInv, [NextSlots]_slotVars PROVE SlotInv'
  OBVIOUS
<1>1. ASSUME NEW c \in Clients, Start(c) PROVE SlotInv'
  <2>1. SlotTypes'
    BY <1>1, SlotsAssumption DEF SlotInv, SlotTypes, Start, Join, At, Go, Places
  <2>2. Held'
    BY <1>1, SlotsAssumption DEF SlotInv, SlotTypes, Held, Start, Join, Go, Clients
  <2>3. SharesBounded'
    BY <1>1 DEF SlotInv, SharesBounded, Start, Share
  <2> QED BY <2>1, <2>2, <2>3 DEF SlotInv
<1>2. ASSUME NEW c \in Clients, TakeShare(c) PROVE SlotInv'
  <2>1. c \in Sharers
    BY <1>2 DEF SlotInv, Held, TakeShare
  <2>2. SlotTypes'
    BY <1>2, <2>1 DEF SlotInv, SlotTypes, TakeShare, Leave, Go, Places
  <2>3. Held'
    BY <1>2, <2>1 DEF SlotInv, SlotTypes, Held, TakeShare, Leave, Go, Clients
  <2>4. SharesBounded'
    <3>1. shares \in SUBSET Clients
      BY DEF SlotInv, SlotTypes, Clients
    <3>2. IsFiniteSet(shares) /\ Cardinality(shares) \in Nat
      BY <3>1, CallersFinite
    <3>3. Cardinality(shares \cup {c}) = IF c \in shares THEN Cardinality(shares) ELSE Cardinality(shares) + 1
      BY <3>2, FS_AddElement
    <3>4. Cardinality(shares) < Share /\ shares' = shares \cup {c} /\ Share' = Share
      BY <1>2 DEF TakeShare, Share
    <3> QED BY <3>2, <3>3, <3>4, ShareType DEF SharesBounded
  <2> QED BY <2>2, <2>3, <2>4 DEF SlotInv
<1>3. ASSUME NEW c \in Clients, Ask(c) PROVE SlotInv'
  <2>1. SlotTypes'
    BY <1>3, SlotsAssumption DEF SlotInv, SlotTypes, Ask, Join, At, Go, Places
  <2>2. Held'
    BY <1>3 DEF SlotInv, SlotTypes, Held, Ask, Join, Go, Clients
  <2>3. SharesBounded'
    BY <1>3 DEF SlotInv, SharesBounded, Ask, Share
  <2> QED BY <2>1, <2>2, <2>3 DEF SlotInv
<1>4. ASSUME NEW c \in Clients, TakeSlot(c) PROVE SlotInv'
  <2>1. SlotTypes'
    BY <1>4 DEF SlotInv, SlotTypes, TakeSlot, Leave, Go, Places
  <2>2. Held'
    BY <1>4 DEF SlotInv, SlotTypes, Held, TakeSlot, Leave, Go, Clients
  <2>3. SharesBounded'
    BY <1>4 DEF SlotInv, SharesBounded, TakeSlot, Share
  <2> QED BY <2>1, <2>2, <2>3 DEF SlotInv
<1>5. ASSUME NEW c \in Clients, Validated(c) PROVE SlotInv'
  <2>1. SlotTypes'
    BY <1>5 DEF SlotInv, SlotTypes, Validated, Go, Places
  <2>2. Held'
    BY <1>5 DEF SlotInv, SlotTypes, Held, Validated, Go, Clients
  <2>3. SharesBounded'
    BY <1>5 DEF SlotInv, SharesBounded, Validated, Share
  <2> QED BY <2>1, <2>2, <2>3 DEF SlotInv
<1>6. ASSUME NEW c \in Clients, Panic(c) \/ Finish(c) \/ GiveUp(c) PROVE SlotInv'
  BY <1>6, ReturnInv DEF Panic, Finish, GiveUp
<1>7. ASSUME Stop \/ UNCHANGED slotVars PROVE SlotInv'
  <2>1. stopping' \in BOOLEAN /\ UNCHANGED <<doing, shares, ahead, left>>
    BY <1>7, Zenon DEF Stop, slotVars, SlotInv, SlotTypes
  <2> QED BY <2>1 DEF SlotInv, SlotTypes, Held, SharesBounded, Share
<1> QED
  BY <1>1, <1>2, <1>3, <1>4, <1>5, <1>6, <1>7 DEF NextSlots, Progress

LEMMA AlwaysInv == SpecSlots => []SlotInv
  BY InitInv, StepInv, PTL DEF SpecSlots

-----------------------------------------------------------------------------
(* The theorems.                                                           *)

\* Every reachable state is well typed.
THEOREM SlotsTypeCorrect == SpecSlots => []SlotTypes
<1>1. SlotInv => SlotTypes
  BY DEF SlotInv
<1> QED BY <1>1, AlwaysInv, PTL

\* Callers other than requests that run, or are about to, are workers or hold a
\* shared slot.
LEMMA RunnersAccounted ==
  ASSUME SlotInv, NEW c \in Clients, c \notin Requests, doing[c] \in {"slot", "run"}
  PROVE  c \in Workers \cup shares
  BY DEF SlotInv, Held, Clients

\* For any number of workers, sharing controllers and requests, and any number
\* of slots that leaves the sharing controllers one, the controllers never hold
\* every slot of the Checker (autoConfigCheckSlots, withCheckSlot).
THEOREM AdmissionAlwaysHasASlot == SpecSlots => []AdmissionSlotLeft
<1>1. ASSUME SlotInv PROVE AdmissionSlotLeft
  <2>1. At("run") \ Requests \in SUBSET (Workers \cup shares)
    BY <1>1, RunnersAccounted DEF At
  <2> QED BY <1>1, <2>1, OneSlotLeft DEF AdmissionSlotLeft
<1> QED BY <1>1, AlwaysInv, PTL

\* A step that takes a slot finds the room the pool asks for.
LEMMA RoomToRun ==
  ASSUME SlotInv, NEW c \in Clients, TakeSlot(c)
  PROVE  Pool!Room(c)
<1>1. Cardinality(At("run")) < Slots
  BY DEF TakeSlot
<1>2. ASSUME c \notin Requests PROVE Cardinality(At("run") \ Requests) < Slots - 1
  <2> DEFINE R == At("run") \ Requests
  <2>1. R \cup {c} \in SUBSET (Workers \cup shares)
    BY <1>2, RunnersAccounted DEF At, TakeSlot
  <2>2. Cardinality(R \cup {c}) <= Slots - 1
    BY <2>1, OneSlotLeft
  <2>3. R \in SUBSET Clients /\ c \notin R
    BY DEF At, TakeSlot
  <2>4. IsFiniteSet(R) /\ Cardinality(R) \in Nat
    BY <2>3, CallersFinite
  <2>5. Cardinality(R \cup {c}) = Cardinality(R) + 1
    BY <2>3, <2>4, FS_AddElement
  <2> QED BY <2>2, <2>4, <2>5, SlotsAssumption
<1>3. \A S : Pool!Cardinality(S) = Cardinality(S)
  BY DEF Pool!Cardinality, Cardinality, Pool!IsFiniteSet, IsFiniteSet
<1> QED BY <1>1, <1>2, <1>3 DEF Pool!Room

\* The safety part of ImplementsPool: under the mapping that takes the callers
\* waiting in acquire for those that ask and those in validate for those that
\* run, every step of the channels is a step of the pool or none.
THEOREM ChannelsImplementPool == SpecSlots => Pool!Spec
<1>1. InitSlots => Pool!Init
  BY DEF InitSlots, Pool!Init, At
<1>2. ASSUME SlotInv, [NextSlots]_slotVars PROVE [Pool!Next]_(Pool!vars)
  <2>1. ASSUME NEW c \in Clients, Start(c) \/ TakeShare(c) \/ Finish(c) PROVE UNCHANGED <<At("slot"), At("run")>>
    BY <1>2, <2>1 DEF SlotInv, SlotTypes, Start, TakeShare, Finish, Return, Join, Leave, Go, At
  <2>2. ASSUME NEW c \in Clients, Ask(c) PROVE Pool!Ask(c)
    BY <1>2, <2>2 DEF SlotInv, SlotTypes, Ask, Join, Go, At, Pool!Ask
  <2>3. ASSUME NEW c \in Clients, TakeSlot(c) PROVE Pool!Take(c)
    <3>1. Pool!Room(c)
      BY <1>2, <2>3, RoomToRun
    <3>2. c \in At("slot") /\ At("slot")' = At("slot") \ {c} /\ At("run")' = At("run") \cup {c}
      BY <1>2, <2>3 DEF SlotInv, SlotTypes, TakeSlot, Leave, Go, At
    <3> QED BY <3>1, <3>2 DEF Pool!Take
  <2>4. ASSUME NEW c \in Clients, Validated(c) \/ Panic(c) PROVE Pool!Free(c)
    BY <1>2, <2>4 DEF SlotInv, SlotTypes, Validated, Panic, Return, Leave, Go, At, Pool!Free
  <2>5. ASSUME NEW c \in Clients, GiveUp(c) PROVE Pool!GiveUp(c) \/ UNCHANGED <<At("slot"), At("run")>>
    BY <1>2, <2>5 DEF SlotInv, SlotTypes, GiveUp, Return, Leave, Go, At, Pool!GiveUp
  <2>6. ASSUME Stop \/ UNCHANGED slotVars PROVE UNCHANGED <<At("slot"), At("run")>>
    BY <2>6 DEF Stop, slotVars, At
  <2> QED BY <1>2, <2>1, <2>2, <2>3, <2>4, <2>5, <2>6 DEF NextSlots, Progress, Pool!Next, Pool!vars
<1> QED BY <1>1, <1>2, AlwaysInv, PTL DEF SpecSlots, Pool!Spec
=============================================================================
