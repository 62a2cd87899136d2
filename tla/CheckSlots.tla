----------------------------- MODULE CheckSlots -----------------------------
(***************************************************************************)
(* Who may run krakend, and when.  Every validation holds one of the       *)
(* Checker's slots (Checker.run).  The gateway controller's workers and    *)
(* the admission requests take a slot directly; the AutoConfig and policy  *)
(* controllers first take one of the slots they share (withCheckSlot) and  *)
(* hold it for the whole check, which may validate several documents, or   *)
(* none when the memo answers.  A request gives up when its budget ends,   *)
(* everybody when the operator stops.  Both sets of slots are Go channels, *)
(* whose waiters are served in order.                                      *)
(***************************************************************************)
EXTENDS Naturals, FiniteSets

CONSTANTS
  Workers,   \* workers of the gateway controller (gatewayCheckWorkers)
  Sharers,   \* workers of the AutoConfig and policy controllers
  Requests,  \* admission requests
  Slots,     \* configCheckSlots
  MaxChecks  \* bound on the documents one check validates

Clients == Workers \cup Sharers \cup Requests

ASSUME SlotsAssumption ==
  /\ IsFiniteSet(Workers) /\ IsFiniteSet(Sharers) /\ IsFiniteSet(Requests)
  /\ Workers \cap Sharers = {} /\ Requests \cap (Workers \cup Sharers) = {}
  /\ Slots \in Nat /\ Slots > Cardinality(Workers) + 1
  /\ MaxChecks \in Nat

VARIABLES
  doing,     \* what each caller is doing
  shares,    \* callers that hold one of the shared slots
  ahead,     \* for each caller that waits, the callers that are served first
  left,      \* documents each caller may still have to validate
  stopping   \* whether the manager stops, which ends every context

slotVars == <<doing, shares, ahead, left, stopping>>

\* "share", "slot": waiting for one; "work": in a check, between validations.
Places == {"idle", "share", "work", "slot", "run"}

SlotTypes ==
  /\ doing \in [Clients -> Places]
  /\ shares \in SUBSET Sharers
  /\ ahead \in [Clients -> SUBSET Clients]
  /\ left \in [Clients -> 0..MaxChecks]
  /\ stopping \in BOOLEAN

At(p) == {c \in Clients : doing[c] = p}

\* A mutant: the slot that is left to admission is forgotten.
ShareOfAll == Slots - Cardinality(Workers)

\* autoConfigCheckSlots.
Share == Slots - 1 - Cardinality(Workers)

-----------------------------------------------------------------------------

Go(c, p) == doing' = [doing EXCEPT ![c] = p]

\* c joins those that wait at p, in the order of arrival; c waits no more.
Join(c, p) == Go(c, p) /\ ahead' = [ahead EXCEPT ![c] = At(p)]
Leave(c, p) == Go(c, p) /\ ahead' = [d \in Clients |-> IF d = c THEN {} ELSE ahead[d] \ {c}]

\* A check starts; those that share queue in withCheckSlot.
Start(c) ==
  /\ doing[c] = "idle" /\ ~ stopping
  /\ left' = [left EXCEPT ![c] = MaxChecks]
  /\ IF c \in Sharers THEN Join(c, "share") ELSE Go(c, "work") /\ UNCHANGED ahead
  /\ UNCHANGED <<shares, stopping>>

TakeShare(c) ==
  /\ doing[c] = "share" /\ ahead[c] = {} /\ Cardinality(shares) < Share
  /\ shares' = shares \cup {c}
  /\ Leave(c, "work")
  /\ UNCHANGED <<left, stopping>>

\* The memo has no verdict for the next document: acquire.
Ask(c) ==
  /\ doing[c] = "work" /\ left[c] > 0
  /\ left' = [left EXCEPT ![c] = @ - 1]
  /\ Join(c, "slot")
  /\ UNCHANGED <<shares, stopping>>

\* A mutant: nothing bounds the validations.
TakeAnySlot(c) ==
  /\ doing[c] = "slot" /\ ahead[c] = {}
  /\ Leave(c, "run")
  /\ UNCHANGED <<shares, left, stopping>>

TakeSlot(c) ==
  /\ doing[c] = "slot" /\ ahead[c] = {} /\ Cardinality(At("run")) < Slots
  /\ Leave(c, "run")
  /\ UNCHANGED <<shares, left, stopping>>

\* The validator answers, fails or is cut off by its timeout.
Validated(c) ==
  /\ doing[c] = "run"
  /\ Go(c, "work")
  /\ UNCHANGED <<shares, ahead, left, stopping>>

\* A mutant: the shared slot is kept.
ReturnSlotOnly(c) ==
  /\ Leave(c, "idle")
  /\ left' = [left EXCEPT ![c] = 0]
  /\ UNCHANGED <<shares, stopping>>

\* The caller stops waiting, and the deferred functions of run and
\* withCheckSlot free what it holds.
Return(c) ==
  /\ Leave(c, "idle")
  /\ shares' = shares \ {c}
  /\ left' = [left EXCEPT ![c] = 0]
  /\ UNCHANGED stopping

\* The check has its verdict.
Finish(c) == doing[c] = "work" /\ Return(c)

\* The validator panics; the manager recovers.
Panic(c) == doing[c] = "run" /\ Return(c)

\* The context ends while the caller waits.
GiveUp(c) ==
  /\ doing[c] \in {"share", "slot"}
  /\ c \in Requests \/ stopping
  /\ Return(c)

\* The operator is told to stop.
Stop ==
  /\ ~ stopping /\ stopping' = TRUE
  /\ UNCHANGED <<doing, shares, ahead, left>>

-----------------------------------------------------------------------------

InitSlots ==
  /\ doing = [c \in Clients |-> "idle"]
  /\ shares = {} /\ ahead = [c \in Clients |-> {}]
  /\ left = [c \in Clients |-> 0]
  /\ stopping = FALSE

Progress(c) ==
  TakeShare(c) \/ Ask(c) \/ TakeSlot(c) \/ Validated(c) \/ Panic(c) \/ Finish(c)

NextSlots == Stop \/ \E c \in Clients : Start(c) \/ Progress(c) \/ GiveUp(c)

SpecSlots == InitSlots /\ [][NextSlots]_slotVars

\* Goroutines run, and a krakend run is cut off by its timeout.  That a budget
\* ends is not needed.
FairSlots == SpecSlots /\ \A c \in Clients : WF_slotVars(Progress(c))

-----------------------------------------------------------------------------
(* Properties.                                                             *)

\* "All but one slot" (autoConfigCheckSlots): the controllers, however their
\* checks interleave, never hold every slot, so a request waits only behind
\* requests.
AdmissionSlotLeft == Cardinality(At("run") \ Requests) <= Slots - 1

\* Nobody waits for a shared slot for ever, although those that hold one wait
\* for the Checker's while they do.
SharesGoRound == \A c \in Sharers : doing[c] = "share" ~> doing[c] # "share"

Pool == INSTANCE SlotPool WITH asking <- At("slot"), running <- At("run")

\* The Checker's channels implement the pool that its callers rely on, its
\* promise to serve everybody included.
ImplementsPool == Pool!LiveSpec
=============================================================================
