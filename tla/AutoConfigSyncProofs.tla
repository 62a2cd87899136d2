------------------------ MODULE AutoConfigSyncProofs ------------------------
(***************************************************************************)
(* Proofs about AutoConfigSync, for every set of endpoints, contents and   *)
(* documents, and every number of changes, faults and crashes.             *)
(***************************************************************************)
EXTENDS AutoConfigSync, FiniteSetTheorems, TLAPS

-----------------------------------------------------------------------------
(* Types.                                                                  *)

\* What a pass may hold.
SoundPass(p) ==
  /\ p \in Pass /\ p.refused \subseteq p.held /\ p.writes \cap p.held = {}
  /\ p.at \in {"claim", "adopt", "plan"} => p.refused = {}

StoreTyped ==
  /\ eps \in [Names -> Endpoint] /\ cache \in [Names -> Endpoint]
  /\ epEvents \in Seq([name : Names, ep : Endpoint]) /\ Len(epEvents) <= MaxLag
  /\ created \in 0..MaxCreated

Types ==
  /\ doc \in Documents /\ gateway \in {"valid", "invalid", "missing"}
  /\ StoreTyped /\ status \in Status /\ seen \in Seen
  /\ SoundPass(pass) /\ bounds \in Bounds

LEMMA BoundsAreNumbers ==
  /\ MaxChanges \in Nat /\ MaxFaults \in Nat /\ MaxMeddling \in Nat
  /\ MaxLag \in Nat /\ MaxCreated \in Nat
  BY SyncAssumption

LEMMA NoEndpointTyped == NoEndpoint \in Endpoint /\ ~ Exists(NoEndpoint)
  BY BoundsAreNumbers DEF NoEndpoint, Endpoint, Exists

LEMMA NewStatusTyped == NewStatus \in Status
  BY DEF NewStatus, Status

LEMMA IdleTyped == SoundPass(IdlePass) /\ IdlePass.refused = {} /\ IdlePass.at = "idle"
  <1>1. (CHOOSE d \in Documents : TRUE) \in Documents
    BY SyncAssumption
  <1>2. /\ [n \in Names |-> NoEndpoint] \in [Names -> Endpoint]
        /\ [n \in Names |-> 0] \in [Names -> 0..(MaxCreated + 1)]
    BY NoEndpointTyped, BoundsAreNumbers
  <1>3. [status |-> NewStatus, current |-> TRUE] \in Seen
    BY NewStatusTyped DEF Seen
  <1>4. IdlePass \in Pass
    BY <1>1, <1>2, <1>3 DEF IdlePass, Pass
  <1> QED
    BY <1>4 DEF SoundPass, IdlePass

LEMMA StoreKeepsTypes ==
  ASSUME Types, NEW n \in Names, NEW e \in Endpoint, Store(n, e)
  PROVE  StoreTyped'
  <1>1. eps' \in [Names -> Endpoint]
    BY DEF Types, SoundPass, StoreTyped, Store
  <1>2. created' \in 0..MaxCreated
    BY DEF Types, SoundPass, StoreTyped, Store, Endpoint
  <1>3. [name |-> n, ep |-> e] \in [name : Names, ep : Endpoint]
    OBVIOUS
  <1>4. CASE MaxLag = 0
    <2>1. cache' = eps' /\ epEvents' = epEvents
      BY <1>4 DEF Store
    <2> QED
      BY <1>1, <1>2, <2>1 DEF Types, SoundPass, StoreTyped
  <1>5. CASE MaxLag # 0
    <2>1. /\ cache' = cache /\ Len(epEvents) < MaxLag
          /\ epEvents' = Append(epEvents, [name |-> n, ep |-> e])
      BY <1>5 DEF Store
    <2>2. epEvents' \in Seq([name : Names, ep : Endpoint]) /\ Len(epEvents') = Len(epEvents) + 1
      BY <1>3, <2>1 DEF Types, SoundPass, StoreTyped
    <2>3. Len(epEvents') <= MaxLag
      BY <2>1, <2>2, BoundsAreNumbers DEF Types, SoundPass, StoreTyped
    <2> QED
      BY <1>1, <1>2, <2>1, <2>2, <2>3 DEF Types, SoundPass, StoreTyped
  <1> QED
    BY <1>4, <1>5

LEMMA SpendKeepsTypes ==
  ASSUME Types, MayFail, Spend
  PROVE  bounds' \in Bounds
  <1>1. bounds \in Bounds /\ bounds.faults \in 1..MaxFaults
    BY BoundsAreNumbers DEF Types, SoundPass, StoreTyped, MayFail, Bounds
  <1>2. bounds.faults - 1 \in 0..MaxFaults
    BY <1>1, BoundsAreNumbers
  <1> QED
    BY <1>1, <1>2 DEF Spend, Bounds

\* An unchanged store stays typed.
LEMMA StoreUnchanged ==
  ASSUME StoreTyped, UNCHANGED store
  PROVE  StoreTyped'
  BY DEF StoreTyped, store

LEMMA UpdateKeepsTypes ==
  ASSUME Types, NEW n \in Names, NEW copy, NEW e \in Endpoint, NEW before, NEW after,
         SoundPass(before), SoundPass(after), Update(n, copy, e, before, after)
  PROVE  StoreTyped' /\ SoundPass(pass') /\ bounds' \in Bounds
  <1>1. /\ SoundPass([before EXCEPT !.raced = TRUE])
        /\ SoundPass([before EXCEPT !.transient = TRUE])
    BY DEF SoundPass, Pass
  <1>2. SoundPass(pass')
    BY <1>1 DEF Update
  <1>3. StoreTyped'
    BY StoreKeepsTypes, StoreUnchanged DEF Update, Types
  <1>4. bounds' \in Bounds
    BY SpendKeepsTypes DEF Update, Types, SoundPass, StoreTyped
  <1> QED
    BY <1>2, <1>3, <1>4

LEMMA TypeInit == Init => Types
  <1> SUFFICES ASSUME Init PROVE Types
    OBVIOUS
  <1>1. StoreTyped
    BY NoEndpointTyped, BoundsAreNumbers DEF Init, StoreTyped
  <1>2. status \in Status /\ seen \in Seen
    BY NewStatusTyped DEF Init, Seen
  <1>3. bounds \in Bounds
    BY BoundsAreNumbers DEF Init, Bounds
  <1> QED
    BY <1>1, <1>2, <1>3, IdleTyped DEF Init, Types

\* A step that leaves the store and the bounds alone.
LEMMA PassKeepsTypes ==
  ASSUME Types, SoundPass(pass'), UNCHANGED <<doc, gateway, store, bounds>>,
         status' \in Status, seen' \in Seen
  PROVE  Types'
  <1>1. StoreTyped'
    BY StoreUnchanged DEF Types
  <1> QED
    BY <1>1 DEF Types, StoreTyped, SoundPass

LEMMA WriteStatusTyped ==
  ASSUME Types, NEW s \in Status, WriteStatus(s)
  PROVE  status' \in Status /\ seen' \in Seen
  BY DEF Types, SoundPass, StoreTyped, WriteStatus, Seen

\* What precheck holds is part of the candidates, those that need EE among it.
LEMMA PrecheckHolds ==
  ASSUME NEW ws, NEW gone, NEW keeps
  PROVE  /\ Precheck(ws, gone, keeps) \subseteq ws
         /\ CEReported(ws) \subseteq Precheck(ws, gone, keeps)
  <1>1. CEHeld(ws) \subseteq ws
    BY DEF CEHeld
  <1> DEFINE rest    == ws \ CEHeld(ws)
             clashes == RouterClashes(rest, IF keeps \/ rest # ws THEN {} ELSE gone)
             kept    == Cleared((rest \ clashes) \ Judged(rest \ clashes))
  <1> HIDE DEF clashes, kept
  <1>2. Precheck(ws, gone, keeps) =
          IF gateway = "missing" THEN {}
          ELSE IF clashes = {} /\ Judged(rest \ clashes) = {} THEN CEHeld(ws)
          ELSE CEHeld(ws) \cup (rest \ kept)
    BY DEF Precheck, clashes, kept
  <1> QED
    BY <1>1, <1>2 DEF CEReported

\* The record of the pass as it is after each of its own steps.
LEMMA FetchTyped ==
  ASSUME Types, Fetch \/ FetchFails
  PROVE  SoundPass(pass')
  <1>1. seen \in Seen /\ doc \in Documents /\ SoundPass(pass) /\ IdlePass \in Pass
    BY IdleTyped DEF Types, SoundPass
  <1>2. CASE Fetch
    <2>1. \A where \in {"fail", "claim"} :
            SoundPass([IdlePass EXCEPT !.doc = doc, !.read = seen, !.at = where])
      BY <1>1, IdleTyped DEF SoundPass, Pass
    <2> QED
      BY <1>2, <2>1 DEF Fetch
  <1>3. CASE FetchFails
    <2>1. /\ SoundPass([IdlePass EXCEPT !.at = "fail", !.read = seen])
          /\ SoundPass([pass EXCEPT !.at = "fail"])
      BY <1>1, IdleTyped DEF SoundPass, Pass
    <2> QED
      BY <1>3, <2>1 DEF FetchFails
  <1> QED
    BY <1>2, <1>3

LEMMA ClaimTyped ==
  ASSUME Types, Claim \/ Adopted
  PROVE  SoundPass(pass')
  <1>1. pass \in Pass /\ SoundPass(pass) /\ cache \in [Names -> Endpoint]
    BY DEF Types, StoreTyped, SoundPass
  <1>2. CASE Claim
    <2> DEFINE own  == {n \in Names : cache[n].owner = "autoconfig"}
               lost == {n \in Names \ Wanted(pass.doc) : cache[n].labelled /\ cache[n].owner = "none"}
    <2>1. own \in SUBSET Names /\ lost \in SUBSET Names
      OBVIOUS
    <2>2. /\ pass.refused = {}
          /\ pass' = [pass EXCEPT !.at = "adopt", !.snap = cache, !.controlled = own, !.orphans = lost]
      BY <1>1, <1>2 DEF Claim, SoundPass
    <2> HIDE DEF own, lost
    <2> QED
      BY <1>1, <2>1, <2>2 DEF SoundPass, Pass
  <1>3. CASE Adopted
    BY <1>1, <1>3 DEF Adopted, SoundPass, Pass
  <1> QED
    BY <1>2, <1>3

LEMMA CreationOrderTyped ==
  ASSUME Types
  PROVE  CreationOrder \in [Names -> 0..(MaxCreated + 1)]
  <1>1. \A n \in Names : /\ pass.snap[n].uid \in 0..(MaxCreated + 1)
                         /\ cache[n].uid \in 0..(MaxCreated + 1)
    BY BoundsAreNumbers DEF Types, SoundPass, StoreTyped, Pass, Endpoint
  <1>2. MaxCreated + 1 \in 0..(MaxCreated + 1)
    BY BoundsAreNumbers
  <1> QED
    BY <1>1, <1>2 DEF CreationOrder

LEMMA PlanTyped ==
  ASSUME Types, Plan
  PROVE  SoundPass(pass')
  <1>1. RouteCollisions \subseteq Names /\ Writes \subseteq Names /\ Stale \subseteq Names
    <2>1. Wanted(pass.doc) \subseteq Names /\ pass.controlled \subseteq Names
      BY DEF Types, SoundPass, StoreTyped, Pass, Wanted
    <2>2. RouteCollisions \subseteq Wanted(pass.doc)
      BY DEF RouteCollisions, Shadowed
    <2> QED
      BY <2>1, <2>2 DEF Writes, Stale
  <1>2. pass.refused = {}
    BY DEF Plan, Types, SoundPass
  <1> QED
    BY <1>1, <1>2, CreationOrderTyped DEF Plan, Types, StoreTyped, SoundPass, Pass

LEMMA CheckTyped ==
  ASSUME Types, Check
  PROVE  SoundPass(pass')
  <1>1. PICK holds \in {Precheck(pass.writes, pass.stale, Keeps)} :
          pass' = [pass EXCEPT !.at = "write", !.ages = [n \in Names |-> 0],
                               !.writes = @ \ holds, !.held = @ \cup holds,
                               !.refused = CEReported(pass.writes)]
    BY DEF Check
  <1>2. holds \subseteq pass.writes /\ CEReported(pass.writes) \subseteq holds
    BY <1>1, PrecheckHolds
  <1>3. [n \in Names |-> 0] \in [Names -> 0..(MaxCreated + 1)]
    BY BoundsAreNumbers
  <1> QED
    BY <1>1, <1>2, <1>3 DEF Types, SoundPass, Pass

LEMMA WrittenTyped ==
  ASSUME Types, Written \/ Deleted
  PROVE  SoundPass(pass')
  <1>1. /\ SoundPass([pass EXCEPT !.at = "delete"]) /\ SoundPass([pass EXCEPT !.at = "record"])
        /\ SoundPass([pass EXCEPT !.at = "record", !.stale = {}])
    BY DEF Types, SoundPass, Pass
  <1> QED
    BY <1>1 DEF Written, Deleted

LEMMA AdoptTyped ==
  ASSUME Types, NEW n \in Names, Adopt(n)
  PROVE  StoreTyped' /\ SoundPass(pass') /\ bounds' \in Bounds
  <1> DEFINE left    == [pass EXCEPT !.orphans = @ \ {n}]
             adopted == [pass.snap[n] EXCEPT !.owner = "autoconfig"]
             done    == [left EXCEPT !.controlled = @ \cup {n}, !.snap[n] = adopted]
  <1>1. pass \in Pass /\ SoundPass(pass) /\ pass.at = "adopt" /\ pass.snap \in [Names -> Endpoint]
    BY DEF Types, SoundPass, Pass, Adopt
  <1>2. adopted \in Endpoint
    BY <1>1 DEF Endpoint
  <1>3. SoundPass(left)
    BY <1>1 DEF SoundPass, Pass
  <1>4. \/ pass' = left /\ UNCHANGED <<store, bounds>>
        \/ Update(n, pass.snap[n], adopted, left, done)
    BY DEF Adopt
  <1> HIDE DEF adopted
  <1>5. SoundPass(done)
    <2>1. left \in Pass /\ left.snap = pass.snap /\ left.at = "adopt" /\ left.refused = {}
          /\ left.writes \cap left.held = {} /\ left.controlled \in SUBSET Names
      BY <1>1, <1>3 DEF SoundPass, Pass
    <2>2. [left.snap EXCEPT ![n] = adopted] \in [Names -> Endpoint]
      BY <1>1, <1>2, <2>1
    <2>3. left.controlled \cup {n} \in SUBSET Names
      BY <2>1
    <2> HIDE DEF left
    <2> QED
      BY <2>1, <2>2, <2>3 DEF SoundPass, Pass
  <1> HIDE DEF left, done
  <1> QED
    BY <1>2, <1>3, <1>4, <1>5, UpdateKeepsTypes, StoreUnchanged DEF Types

LEMMA WriteTyped ==
  ASSUME Types, NEW n \in Names, Write(n)
  PROVE  StoreTyped' /\ SoundPass(pass') /\ bounds' \in Bounds
  <1> DEFINE left == [pass EXCEPT !.writes = @ \ {n}]
             done == [left EXCEPT !.changed = TRUE]
             hold == [left EXCEPT !.held = @ \cup {n}, !.refused = @ \cup {n}]
             late == [left EXCEPT !.transient = TRUE]
             copy == cache[n]
             e    == [ver |-> pass.doc.want[n], owner |-> "autoconfig", labelled |-> TRUE,
                      uid |-> IF Exists(copy) THEN copy.uid ELSE created + 1]
  <1>1. pass \in Pass /\ SoundPass(pass) /\ pass.at = "write" /\ copy \in Endpoint
    BY DEF Types, StoreTyped, SoundPass, Write
  <1>2. SoundPass(left)
    BY <1>1 DEF SoundPass, Pass
  <1>3. n \notin left.writes /\ left.at = "write"
    BY <1>1 DEF Pass
  <1>4. \/ pass' \in {left, hold, late} /\ UNCHANGED <<store, bounds>>
        \/ e.uid <= MaxCreated /\ Update(n, copy, e, left, done)
    BY DEF Write
  <1>5. e.uid <= MaxCreated => e \in Endpoint
    <2>1. pass.doc.want[n] \in Versions \cup {Absent}
      BY <1>1, SyncAssumption DEF Pass, Document
    <2>2. copy.uid \in Nat /\ created + 1 \in Nat /\ MaxCreated \in Nat
      BY <1>1, BoundsAreNumbers DEF Types, StoreTyped, Endpoint
    <2> HIDE DEF copy
    <2> QED
      BY <2>1, <2>2 DEF Endpoint
  <1> HIDE DEF left, e, copy
  <1>6. SoundPass(done) /\ SoundPass(hold) /\ SoundPass(late)
    BY <1>2, <1>3 DEF SoundPass, Pass
  <1> HIDE DEF done, hold, late
  <1> QED
    BY <1>2, <1>4, <1>5, <1>6, UpdateKeepsTypes, StoreUnchanged DEF Types

LEMMA DeleteTyped ==
  ASSUME Types, NEW n \in Names, Delete(n)
  PROVE  StoreTyped' /\ SoundPass(pass') /\ bounds' \in Bounds
  <1>1. pass \in Pass /\ SoundPass(pass) /\ pass.at = "delete"
    BY DEF Types, SoundPass, Delete
  <1>2. SoundPass(pass')
    BY <1>1 DEF Delete, SoundPass, Pass
  <1>3. UNCHANGED store \/ Store(n, NoEndpoint)
    BY DEF Delete
  <1>4. StoreTyped'
    BY <1>3, StoreKeepsTypes, StoreUnchanged, NoEndpointTyped DEF Types
  <1>5. bounds' \in Bounds
    BY SpendKeepsTypes DEF Delete, Types
  <1> QED
    BY <1>2, <1>4, <1>5

\* Whatever somebody else makes of an endpoint is one.
LEMMA MeddleTyped ==
  ASSUME Types, NEW n \in Names, Meddle(n)
  PROVE  StoreTyped' /\ bounds' \in Bounds
  <1>1. eps[n] \in Endpoint /\ created \in 0..MaxCreated /\ MaxCreated \in Nat /\ bounds \in Bounds
    BY BoundsAreNumbers DEF Types, StoreTyped
  <1>2. ASSUME NEW x \in Meddled(eps[n])
        PROVE  x.ep \in Endpoint
    <2>1. PICK old \in Endpoint : old = eps[n]
      BY <1>1
    <2>2. /\ [old EXCEPT !.owner = "none"] \in Endpoint
          /\ [old EXCEPT !.owner = "other"] \in Endpoint
          /\ [old EXCEPT !.labelled = FALSE] \in Endpoint
          /\ \A v \in Versions : [old EXCEPT !.ver = v] \in Endpoint
      BY DEF Endpoint
    <2>3. PICK k, e : /\ x = [kind |-> k, ep |-> e]
                      /\ \/ e = NoEndpoint
                         \/ e = [old EXCEPT !.owner = "none"]
                         \/ e = [old EXCEPT !.owner = "other"]
                         \/ e = [old EXCEPT !.labelled = FALSE]
                         \/ \E v \in Versions : e = [old EXCEPT !.ver = v]
      BY <2>1, Zenon DEF Meddled
    <2>4. e \in Endpoint
      BY <2>2, <2>3, NoEndpointTyped
    <2>5. x.ep = e
      BY <2>3, Zenon
    <2> QED
      BY <2>4, <2>5
  <1>3. \A v \in Versions, o \in {"other", "none"} : created < MaxCreated =>
          [ver |-> v, owner |-> o, labelled |-> FALSE, uid |-> created + 1] \in Endpoint
    BY <1>1 DEF Endpoint
  <1>4. PICK e \in Endpoint : Store(n, e)
    BY <1>2, <1>3 DEF Meddle
  <1>5. StoreTyped'
    BY <1>4, StoreKeepsTypes
  <1>6. bounds.meddling - 1 \in 0..MaxMeddling
    BY <1>1, BoundsAreNumbers DEF Meddle, Bounds
  <1> QED
    BY <1>1, <1>5, <1>6 DEF Meddle, Bounds

LEMMA ChangeTyped ==
  ASSUME Types, NEW event, Change(event)
  PROVE  bounds' \in Bounds
  <1>1. bounds \in Bounds /\ bounds.changes \in 1..MaxChanges
    BY BoundsAreNumbers DEF Types, Change, Bounds
  <1>2. bounds.changes - 1 \in 0..MaxChanges
    BY <1>1, BoundsAreNumbers
  <1> QED
    BY <1>1, <1>2 DEF Change, Bounds

LEMMA RecordTyped ==
  ASSUME Types, RecordFailure \/ RecordSync
  PROVE  Types'
  <1>1. pass \in Pass /\ pass.read.status \in Status /\ pass.doc \in Documents
    BY DEF Types, SoundPass, Pass, Seen
  <1>2. [pass.read.status EXCEPT !.synced = "Failed"] \in Status
    BY <1>1 DEF Status
  <1>3. SyncResult \in Status
    <2>1. pass.refused \in SUBSET Names
      BY <1>1 DEF Pass
    <2> QED
      BY <1>1, <2>1 DEF SyncResult, Status
  <1>4. status' \in Status /\ seen' \in Seen
    <2>1. status \in Status /\ seen \in Seen
      BY DEF Types
    <2>2. CASE RecordFailure
      BY <1>2, <2>2, WriteStatusTyped DEF RecordFailure
    <2>3. CASE RecordSync
      BY <1>3, <2>1, <2>3, WriteStatusTyped DEF RecordSync
    <2> QED
      BY <2>2, <2>3
  <1>5. pass' = IdlePass /\ UNCHANGED <<doc, gateway, store, bounds>>
    BY DEF RecordFailure, RecordSync
  <1> QED
    BY <1>4, <1>5, IdleTyped, PassKeepsTypes

LEMMA DeliverTyped ==
  ASSUME Types, DeliverEndpoint
  PROVE  StoreTyped'
  <1>0. PICK event : event = [name : Names, ep : Endpoint]
    OBVIOUS
  <1>1. epEvents \in Seq(event) /\ epEvents # <<>> /\ Len(epEvents) <= MaxLag /\ MaxLag \in Nat
    BY <1>0, BoundsAreNumbers DEF Types, StoreTyped, DeliverEndpoint
  <1>2. /\ Head(epEvents) \in event /\ Tail(epEvents) \in Seq(event)
        /\ Len(Tail(epEvents)) = Len(epEvents) - 1
    BY <1>1
  <1>3. cache' \in [Names -> Endpoint]
    BY <1>0, <1>2 DEF Types, StoreTyped, DeliverEndpoint
  <1>4. Len(epEvents') <= MaxLag
    BY <1>1, <1>2 DEF DeliverEndpoint
  <1> QED
    BY <1>0, <1>2, <1>3, <1>4 DEF Types, StoreTyped, DeliverEndpoint

LEMMA CrashTyped ==
  ASSUME Types, Crash
  PROVE  Types'
  <1>1. status \in Status /\ seen' \in Seen
    <2>1. status \in Status /\ seen \in Seen /\ [status |-> status, current |-> TRUE] \in Seen
      BY DEF Types, Seen
    <2> QED
      BY <2>1 DEF Crash
  <1>2. StoreTyped'
    <2>1. <<>> \in Seq([name : Names, ep : Endpoint]) /\ Len(<<>>) <= MaxLag
      BY BoundsAreNumbers
    <2>2. CASE UNCHANGED <<cache, epEvents, seen>>
      BY <2>2 DEF Types, StoreTyped, Crash
    <2>3. CASE cache' = eps /\ epEvents' = <<>>
      BY <2>1, <2>3 DEF Types, StoreTyped, Crash
    <2> QED
      BY <2>2, <2>3 DEF Crash
  <1>3. bounds' \in Bounds
    BY SpendKeepsTypes DEF Crash
  <1>4. SoundPass(pass')
    BY IdleTyped DEF Crash
  <1> QED
    BY <1>1, <1>2, <1>3, <1>4 DEF Types, Crash

LEMMA TypesNext == Types /\ [Next]_vars => Types'
  <1> SUFFICES ASSUME Types, [Next]_vars PROVE Types'
    OBVIOUS
  <1>1. CASE Fetch
    BY <1>1, FetchTyped, PassKeepsTypes DEF Fetch, Types
  <1>2. CASE FetchFails
    BY <1>2, FetchTyped, SpendKeepsTypes, StoreUnchanged DEF FetchFails, Types
  <1>3. CASE Claim \/ Adopted
    BY <1>3, ClaimTyped, PassKeepsTypes DEF Claim, Adopted, Types
  <1>4. CASE Plan
    BY <1>4, PlanTyped, PassKeepsTypes DEF Plan, Types
  <1>5. CASE Check
    BY <1>5, CheckTyped, PassKeepsTypes DEF Check, Types
  <1>6. CASE Written \/ Deleted
    BY <1>6, WrittenTyped, PassKeepsTypes DEF Written, Deleted, Types
  <1>7. ASSUME NEW n \in Names, Adopt(n) \/ Write(n) \/ Delete(n)
        PROVE  Types'
    <2>1. StoreTyped' /\ SoundPass(pass') /\ bounds' \in Bounds
      BY <1>7, AdoptTyped, WriteTyped, DeleteTyped
    <2>2. UNCHANGED <<doc, gateway, status, seen>>
      BY <1>7 DEF Adopt, Write, Delete
    <2> QED
      BY <2>1, <2>2 DEF Types
  <1>8. CASE RecordFailure \/ RecordSync
    BY <1>8, RecordTyped
  <1>9. CASE Crash
    BY <1>9, CrashTyped
  <1>10. CASE DeliverEndpoint
    BY <1>10, DeliverTyped DEF DeliverEndpoint, Types, SoundPass
  <1>11. CASE DeliverStatus
    <2>1. seen' \in Seen
      BY <1>11 DEF DeliverStatus, Types, Seen
    <2> QED
      BY <1>11, <2>1, PassKeepsTypes DEF DeliverStatus, Types
  <1>12. CASE ChangeDocument
    BY <1>12, ChangeTyped, StoreUnchanged DEF ChangeDocument, Types, SoundPass
  <1>13. CASE ChangeGateway
    BY <1>13, ChangeTyped, StoreUnchanged DEF ChangeGateway, Types, SoundPass
  <1>14. CASE Annotate
    <2>1. seen' \in Seen
      BY <1>14 DEF Annotate, Types, Seen
    <2>2. SoundPass(pass')
      <3>1. SoundPass(pass) /\ pass \in Pass /\ pass.read \in Seen
        BY DEF Types, SoundPass, Pass
      <3>2. [pass.read EXCEPT !.current = FALSE] \in Seen
        BY <3>1 DEF Seen
      <3> QED
        BY <1>14, <3>1, <3>2 DEF Annotate, SoundPass, Pass
    <2> QED
      BY <1>14, <2>1, <2>2, ChangeTyped, StoreUnchanged DEF Annotate, Types
  <1>15. ASSUME NEW n \in Names, Meddle(n)
         PROVE  Types'
    BY <1>15, MeddleTyped DEF Meddle, Types, SoundPass
  <1>16. CASE UNCHANGED vars
    BY <1>16, StoreUnchanged DEF vars, store, Types, SoundPass, StoreTyped
  <1> QED
    BY <1>1, <1>2, <1>3, <1>4, <1>5, <1>6, <1>7, <1>8, <1>9, <1>10, <1>11, <1>12, <1>13,
       <1>14, <1>15, <1>16 DEF Next, Step, Environment

LEMMA TypesAlways == Spec => []Types
  <1> QED
    BY TypeInit, TypesNext, PTL DEF Spec

\* Every variable of the sync keeps its type, refused endpoints are held ones
\* and nothing that is held is written.
THEOREM SyncTypes == Spec => []TypeOK
  <1>1. Types => TypeOK
    BY DEF Types, StoreTyped, SoundPass, TypeOK
  <1> QED
    BY <1>1, TypesAlways, PTL

-----------------------------------------------------------------------------
(* Endpoints of others.                                                    *)

\* The orphans a pass has still to adopt had no controller when it listed them.
OrphansAreFree == pass.at = "adopt" => \A n \in pass.orphans : pass.snap[n].owner = "none"

\* An update stores its result only over the copy it was made from.
LEMMA UpdateStores ==
  ASSUME NEW n, NEW copy, NEW e, NEW before, NEW after, Update(n, copy, e, before, after)
  PROVE  UNCHANGED store \/ (eps[n] = copy /\ Store(n, e))
  BY DEF Update

\* The record of the pass after an update: done, or short of it for a reason.
LEMMA UpdateEnds ==
  ASSUME NEW n, NEW copy, NEW e, NEW before, NEW after, Update(n, copy, e, before, after)
  PROVE  \/ pass' = after
         \/ pass' = [before EXCEPT !.raced = TRUE]
         \/ pass' = [before EXCEPT !.transient = TRUE]
  BY DEF Update

LEMMA AdoptKeepsOrphans ==
  ASSUME Types, OrphansAreFree, NEW n \in Names, Adopt(n)
  PROVE  OrphansAreFree'
  <1> DEFINE left    == [pass EXCEPT !.orphans = @ \ {n}]
             adopted == [pass.snap[n] EXCEPT !.owner = "autoconfig"]
             done    == [left EXCEPT !.controlled = @ \cup {n}, !.snap[n] = adopted]
  <1>1. pass \in Pass /\ pass.at = "adopt" /\ pass.snap \in [Names -> Endpoint]
    BY DEF Types, SoundPass, Pass, Adopt
  <1>2. \/ pass' = left
        \/ Update(n, pass.snap[n], adopted, left, done)
    BY DEF Adopt
  <1>3. /\ left \in Pass /\ left.snap = pass.snap /\ left.orphans = pass.orphans \ {n}
        /\ left.controlled = pass.controlled
    BY <1>1 DEF Pass
  <1> HIDE DEF left, adopted
  <1>4. /\ done.snap = [pass.snap EXCEPT ![n] = adopted] /\ done.orphans = pass.orphans \ {n}
    BY <1>3 DEF Pass
  <1> HIDE DEF done
  <1>5. \/ pass' = left \/ pass' = done
        \/ pass' = [left EXCEPT !.raced = TRUE]
        \/ pass' = [left EXCEPT !.transient = TRUE]
    BY <1>2, UpdateEnds
  <1>6. /\ pass'.orphans = pass.orphans \ {n}
        /\ pass'.snap = pass.snap \/ pass'.snap = [pass.snap EXCEPT ![n] = adopted]
    BY <1>3, <1>4, <1>5 DEF Pass
  <1>7. \A m \in pass'.orphans : pass'.snap[m] = pass.snap[m]
    BY <1>1, <1>6 DEF Pass
  <1> QED
    BY <1>1, <1>6, <1>7 DEF OrphansAreFree

LEMMA OrphansNext == Types /\ OrphansAreFree /\ [Next]_vars => OrphansAreFree'
  <1> SUFFICES ASSUME Types, OrphansAreFree, [Next]_vars PROVE OrphansAreFree'
    OBVIOUS
  <1>1. pass \in Pass /\ IdlePass \in Pass /\ IdlePass.at = "idle"
    BY IdleTyped DEF Types, SoundPass
  <1>2. CASE Fetch \/ FetchFails
    BY <1>1, <1>2 DEF Fetch, FetchFails, Pass, OrphansAreFree
  <1>3. CASE Claim
    <2> DEFINE own  == {n \in Names : cache[n].owner = "autoconfig"}
               lost == {n \in Names \ Wanted(pass.doc) : cache[n].labelled /\ cache[n].owner = "none"}
    <2>1. \A n \in lost : cache[n].owner = "none"
      OBVIOUS
    <2>2. pass' = [pass EXCEPT !.at = "adopt", !.snap = cache, !.controlled = own, !.orphans = lost]
      BY <1>3 DEF Claim
    <2> HIDE DEF own, lost
    <2>3. pass'.snap = cache /\ pass'.orphans = lost
      BY <1>1, <2>2 DEF Pass
    <2> QED
      BY <2>1, <2>3 DEF OrphansAreFree
  <1>4. CASE Adopted \/ Plan \/ Written \/ Deleted
    BY <1>1, <1>4 DEF Adopted, Plan, Written, Deleted, Pass, OrphansAreFree
  <1>5. CASE Check
    <2>1. PICK holds : pass' = [pass EXCEPT !.at = "write", !.ages = [n \in Names |-> 0],
                               !.writes = @ \ holds, !.held = @ \cup holds,
                               !.refused = CEReported(pass.writes)]
      BY <1>5, Zenon DEF Check
    <2>2. pass'.at = "write"
      BY <1>1, <2>1 DEF Pass
    <2> QED
      BY <2>2 DEF OrphansAreFree
  <1>6. ASSUME NEW n \in Names, Adopt(n)
        PROVE  OrphansAreFree'
    BY <1>6, AdoptKeepsOrphans
  <1>7. ASSUME NEW n \in Names, Write(n)
        PROVE  OrphansAreFree'
    <2>1. pass'.at = "write"
      <3> DEFINE left == [pass EXCEPT !.writes = @ \ {n}]
                 done == [left EXCEPT !.changed = TRUE]
                 hold == [left EXCEPT !.held = @ \cup {n}, !.refused = @ \cup {n}]
                 late == [left EXCEPT !.transient = TRUE]
      <3>1. \/ pass' \in {left, hold, late}
            \/ \E copy, e : Update(n, copy, e, left, done)
        BY <1>7 DEF Write
      <3>2. left \in Pass /\ left.at = "write"
        BY <1>1, <1>7 DEF Write, Pass
      <3> HIDE DEF left
      <3>3. done.at = "write" /\ hold.at = "write" /\ late.at = "write"
        BY <3>2 DEF Pass
      <3> HIDE DEF done, hold, late
      <3> QED
        BY <3>1, <3>2, <3>3, UpdateEnds DEF Pass
    <2> QED
      BY <2>1 DEF OrphansAreFree
  <1>8. ASSUME NEW n \in Names, Delete(n)
        PROVE  OrphansAreFree'
    BY <1>1, <1>8 DEF Delete, Pass, OrphansAreFree
  <1>9. CASE RecordFailure \/ RecordSync \/ Crash
    BY <1>1, <1>9 DEF RecordFailure, RecordSync, Crash, OrphansAreFree
  <1>10. CASE Annotate
    <2>1. pass'.at = pass.at /\ pass'.orphans = pass.orphans /\ pass'.snap = pass.snap
      BY <1>1, <1>10 DEF Annotate, Pass
    <2> QED
      BY <2>1 DEF OrphansAreFree
  <1>11. ASSUME NEW n \in Names, Meddle(n)
         PROVE  OrphansAreFree'
    BY <1>11 DEF Meddle, OrphansAreFree
  <1>12. CASE DeliverEndpoint \/ DeliverStatus \/ ChangeDocument \/ ChangeGateway \/ UNCHANGED vars
    BY <1>12 DEF DeliverEndpoint, DeliverStatus, ChangeDocument, ChangeGateway, vars, OrphansAreFree
  <1> QED
    BY <1>2, <1>3, <1>4, <1>5, <1>6, <1>7, <1>8, <1>9, <1>10, <1>11, <1>12
    DEF Next, Step, Environment

\* What a pass's own updates change is not in somebody else's hands.
LEMMA OthersAreSpared ==
  ASSUME Types, OrphansAreFree, NEW n \in Names, Adopt(n) \/ Write(n),
         NEW m \in Names, eps[m].owner = "other"
  PROVE  eps'[m] = eps[m]
  <1>1. eps \in [Names -> Endpoint]
    BY DEF Types, StoreTyped
  <1>2. UNCHANGED store \/ \E e : Store(n, e) /\ eps[n].owner # "other"
    <2>1. CASE Adopt(n)
      <3>1. pass.snap[n].owner = "none"
        BY <2>1 DEF Adopt, OrphansAreFree
      <3> QED
        BY <2>1, <3>1, UpdateStores DEF Adopt
    <2>2. CASE Write(n)
      <3>1. \/ UNCHANGED store
            \/ /\ ~ AlreadyOwned(cache[n])
               /\ \E e, before, after : Update(n, cache[n], e, before, after)
        BY <2>2, Zenon DEF Write
      <3> QED
        BY <3>1, UpdateStores DEF AlreadyOwned
    <2> QED
      BY <2>1, <2>2
  <1> QED
    BY <1>1, <1>2 DEF Store, store

\* Adoption and writes never change an endpoint that another object controls,
\* however far the cache is behind and whatever others do in the meantime:
\* claimEndpoints and writeEndpoint update with the resourceVersion they read.
THEOREM ForeignEndpointsAreSpared == Spec => ForeignNeverOverwritten
  <1> DEFINE Spared == \A n \in Names :
               (pass.at \in {"adopt", "write"} /\ pass' # pass /\ eps[n].owner = "other") =>
                 eps'[n] = eps[n]
  <1>1. Init => OrphansAreFree
    BY IdleTyped DEF Init, OrphansAreFree
  <1>2. Spec => []OrphansAreFree
    BY <1>1, OrphansNext, TypesAlways, PTL DEF Spec
  <1>3. Types /\ OrphansAreFree /\ [Next]_vars => [Spared]_vars
    <2> SUFFICES ASSUME Types, OrphansAreFree, Next, NEW n \in Names,
                        pass.at \in {"adopt", "write"}, pass' # pass, eps[n].owner = "other"
                 PROVE  eps'[n] = eps[n]
      OBVIOUS
    <2>1. ASSUME NEW m \in Names, Adopt(m) \/ Write(m)
          PROVE  eps'[n] = eps[n]
      BY <2>1, OthersAreSpared
    <2>2. CASE \/ Fetch \/ Claim \/ Adopted \/ Plan \/ Check \/ Written \/ Deleted
               \/ RecordFailure \/ RecordSync \/ FetchFails \/ Crash
               \/ DeliverEndpoint \/ DeliverStatus \/ ChangeDocument \/ ChangeGateway \/ Annotate
      BY <2>2 DEF Fetch, Claim, Adopted, Plan, Check, Written, Deleted, RecordFailure, RecordSync,
                  FetchFails, Crash, DeliverEndpoint, DeliverStatus, ChangeDocument, ChangeGateway,
                  Annotate, store
    <2>3. ASSUME NEW m \in Names, Delete(m) \/ Meddle(m)
          PROVE  FALSE
      BY <2>3 DEF Delete, Meddle
    <2> QED
      BY <2>1, <2>2, <2>3 DEF Next, Step, Environment
  <1> QED
    BY <1>2, <1>3, TypesAlways, PTL DEF Spec, ForeignNeverOverwritten

-----------------------------------------------------------------------------
(* Passes that nobody disturbs, with a cache that keeps up.                *)

\* Others change endpoints only between passes.
Quiet       == pass.at # "idle" => bounds'.meddling = bounds.meddling
QuietPasses == [][Quiet]_vars

\* Every call of the pass went through so far.
Undisturbed == ~ pass.raced /\ ~ pass.transient

\* Endpoint n is stored as the pass wants it.
StoredAsWanted(n) ==
  eps[n].ver = pass.doc.want[n] /\ eps[n].owner = "autoconfig" /\ eps[n].labelled

\* The snapshot is what is stored, and says which endpoints are the pass's.
Listed ==
  /\ pass.controlled = {n \in Names : pass.snap[n].owner = "autoconfig"}
  /\ Undisturbed => eps = pass.snap

\* No endpoint beyond those asked for and those about to go is the pass's.
NoneBesides(gone) ==
  \A n \in Names \ (Wanted(pass.doc) \cup gone) : eps[n].owner # "autoconfig"

AtAdopt == pass.at = "adopt" => Listed /\ \A n \in pass.orphans : pass.snap[n].labelled
AtPlan  == pass.at = "plan" => Listed
AtCheck == pass.at = "check" =>
  /\ Listed
  /\ pass.writes \subseteq Wanted(pass.doc) /\ pass.stale = pass.controlled \ Wanted(pass.doc)
  /\ \A n \in Wanted(pass.doc) \ (pass.writes \cup pass.held) :
       n \in pass.controlled /\ pass.snap[n].labelled /\ pass.snap[n].ver = pass.doc.want[n]
AtWrite == pass.at = "write" =>
  /\ pass.writes \subseteq Wanted(pass.doc) /\ pass.stale \cap Wanted(pass.doc) = {}
  /\ Undisturbed =>
       /\ \A n \in Wanted(pass.doc) \ (pass.writes \cup pass.held) : StoredAsWanted(n)
       /\ NoneBesides(pass.stale)
AtDelete == pass.at = "delete" =>
  /\ pass.doc.failed = {} /\ pass.held = {} /\ pass.stale \cap Wanted(pass.doc) = {}
  /\ \A n \in Wanted(pass.doc) : StoredAsWanted(n)
  /\ Undisturbed => NoneBesides(pass.stale)
AtRecord == pass.at = "record" /\ Undisturbed /\ pass.doc.failed = {} /\ pass.held = {} =>
  (\A n \in Wanted(pass.doc) : StoredAsWanted(n)) /\ NoneBesides({})

\* What a pass relies on at each of its stages.
Stages == AtAdopt /\ AtPlan /\ AtCheck /\ AtWrite /\ AtDelete /\ AtRecord

\* The cache is current, and what does not exist has no owner and no label.
Current == cache = eps /\ \A n \in Names : Exists(eps[n]) \/ eps[n] = NoEndpoint

QuietInv == Current /\ Stages

\* The stages depend on the endpoints and on these fields of the pass.
LEMMA SameStage ==
  ASSUME Stages, eps' = eps,
         pass'.at = pass.at, pass'.doc = pass.doc, pass'.snap = pass.snap,
         pass'.controlled = pass.controlled, pass'.orphans = pass.orphans,
         pass'.writes = pass.writes, pass'.stale = pass.stale, pass'.held = pass.held,
         pass'.raced = pass.raced, pass'.transient = pass.transient
  PROVE  Stages'
  BY DEF Stages, AtAdopt, AtPlan, AtCheck, AtWrite, AtDelete, AtRecord, Listed, Undisturbed,
         StoredAsWanted, NoneBesides

\* A pass that has not listed the endpoints yet, or has failed, relies on nothing.
LEMMA NoStage ==
  ASSUME pass'.at \in {"idle", "claim", "fail"}
  PROVE  Stages'
  BY DEF Stages, AtAdopt, AtPlan, AtCheck, AtWrite, AtDelete, AtRecord

LEMMA StoreCurrent ==
  ASSUME MaxLag = 0, Types, Current, NEW n \in Names, NEW e, Store(n, e),
         Exists(e) \/ e = NoEndpoint
  PROVE  Current' /\ eps' = [eps EXCEPT ![n] = e]
  <1>1. eps \in [Names -> Endpoint]
    BY DEF Types, StoreTyped
  <1>2. eps' = [eps EXCEPT ![n] = e] /\ cache' = eps'
    BY DEF Store
  <1>3. \A m \in Names : Exists(eps'[m]) \/ eps'[m] = NoEndpoint
    BY <1>1, <1>2 DEF Current
  <1> QED
    BY <1>2, <1>3 DEF Current

LEMMA StoreSame ==
  ASSUME Current, UNCHANGED store
  PROVE  Current' /\ eps' = eps
  BY DEF Current, store

LEMMA ClaimStage ==
  ASSUME Types, Current, Claim
  PROVE  Stages'
  <1> DEFINE own  == {n \in Names : cache[n].owner = "autoconfig"}
             lost == {n \in Names \ Wanted(pass.doc) : cache[n].labelled /\ cache[n].owner = "none"}
  <1>1. \A n \in lost : cache[n].labelled
    OBVIOUS
  <1>2. pass' = [pass EXCEPT !.at = "adopt", !.snap = cache, !.controlled = own, !.orphans = lost]
    BY DEF Claim
  <1>3. eps' = eps /\ cache = eps
    BY DEF Claim, store, Current
  <1> HIDE DEF lost, own
  <1>4. /\ pass'.at = "adopt" /\ pass'.snap = eps
        /\ pass'.controlled = own /\ pass'.orphans = lost
    BY <1>2, <1>3 DEF Types, SoundPass, Pass
  <1>5. own = {n \in Names : eps[n].owner = "autoconfig"}
    BY <1>3 DEF own
  <1>6. Listed'
    BY <1>3, <1>4, <1>5 DEF Listed
  <1> QED
    BY <1>1, <1>3, <1>4, <1>6
    DEF Stages, AtAdopt, AtPlan, AtCheck, AtWrite, AtDelete, AtRecord

LEMMA AdoptStage ==
  ASSUME MaxLag = 0, Types, QuietInv, NEW n \in Names, Adopt(n)
  PROVE  QuietInv'
  <1> DEFINE left    == [pass EXCEPT !.orphans = @ \ {n}]
             adopted == [pass.snap[n] EXCEPT !.owner = "autoconfig"]
             done    == [left EXCEPT !.controlled = @ \cup {n}, !.snap[n] = adopted]
  <1>1. /\ pass \in Pass /\ pass.at = "adopt" /\ n \in pass.orphans
        /\ pass.snap \in [Names -> Endpoint] /\ pass.controlled \subseteq Names
        /\ eps \in [Names -> Endpoint]
    BY DEF Types, SoundPass, StoreTyped, Pass, Adopt
  <1>2. /\ Listed /\ \A m \in pass.orphans : pass.snap[m].labelled
        /\ Current
    BY <1>1 DEF QuietInv, Stages, AtAdopt
  <1>3. /\ left \in Pass /\ left.at = "adopt" /\ left.snap = pass.snap
        /\ left.orphans = pass.orphans \ {n} /\ left.controlled = pass.controlled
        /\ left.raced = pass.raced /\ left.transient = pass.transient
    BY <1>1 DEF Pass
  <1>4. \/ pass' = left /\ UNCHANGED store
        \/ Update(n, pass.snap[n], adopted, left, done)
    BY DEF Adopt
  <1>5. adopted \in Endpoint /\ adopted.owner = "autoconfig" /\ adopted.ver = pass.snap[n].ver
    BY <1>1 DEF Endpoint
  <1> HIDE DEF left, adopted
  <1>6. /\ done.at = "adopt" /\ done.snap = [pass.snap EXCEPT ![n] = adopted]
        /\ done.orphans = pass.orphans \ {n} /\ done.controlled = pass.controlled \cup {n}
        /\ done.raced = pass.raced /\ done.transient = pass.transient
    BY <1>3 DEF Pass
  <1> HIDE DEF done
  <1>7. eps[n] = pass.snap[n] => Exists(adopted)
    BY <1>1, <1>2, <1>5 DEF Current, NoEndpoint, Exists
  <1>8. CASE pass' = left /\ UNCHANGED store
    <2>1. Current' /\ eps' = eps
      BY <1>2, <1>8, StoreSame
    <2>2. Listed'
      BY <1>2, <1>3, <1>8, <2>1 DEF Listed, Undisturbed
    <2> QED
      BY <1>2, <1>3, <1>8, <2>1, <2>2
      DEF QuietInv, Stages, AtAdopt, AtPlan, AtCheck, AtWrite, AtDelete, AtRecord
  <1>9. CASE eps[n] = pass.snap[n] /\ Store(n, adopted) /\ pass' = done
    <2>1. Current' /\ eps' = [eps EXCEPT ![n] = adopted]
      BY <1>2, <1>7, <1>9, StoreCurrent
    <2>2. Undisturbed' => eps' = pass'.snap
      BY <1>2, <1>6, <1>9, <2>1 DEF Listed, Undisturbed
    <2>3. pass'.controlled = {m \in Names : pass'.snap[m].owner = "autoconfig"}
      BY <1>1, <1>2, <1>5, <1>6, <1>9 DEF Listed
    <2>4. \A m \in pass'.orphans : pass'.snap[m].labelled
      BY <1>1, <1>2, <1>6, <1>9 DEF Pass
    <2> QED
      BY <1>6, <1>9, <2>1, <2>2, <2>3, <2>4
      DEF QuietInv, Stages, AtAdopt, AtPlan, AtCheck, AtWrite, AtDelete, AtRecord, Listed
  <1>10. CASE /\ pass' = [left EXCEPT !.raced = TRUE] \/ pass' = [left EXCEPT !.transient = TRUE]
              /\ UNCHANGED store \/ (eps[n] = pass.snap[n] /\ Store(n, adopted))
    <2>1. Current'
      BY <1>2, <1>7, <1>10, StoreCurrent, StoreSame
    <2>2. /\ pass'.at = "adopt" /\ pass'.snap = pass.snap /\ pass'.controlled = pass.controlled
          /\ pass'.orphans = pass.orphans \ {n} /\ (pass'.raced \/ pass'.transient)
      BY <1>3, <1>10 DEF Pass
    <2> QED
      BY <1>2, <2>1, <2>2
      DEF QuietInv, Stages, AtAdopt, AtPlan, AtCheck, AtWrite, AtDelete, AtRecord, Listed, Undisturbed
  <1> QED
    BY <1>4, <1>8, <1>9, <1>10 DEF Update

LEMMA AdoptedStage ==
  ASSUME Types, QuietInv, Adopted
  PROVE  QuietInv'
  <1>1. /\ pass'.at = "plan" /\ pass'.snap = pass.snap /\ pass'.controlled = pass.controlled
        /\ pass'.raced = pass.raced /\ pass'.transient = pass.transient
    BY DEF Types, SoundPass, Pass, Adopted
  <1>2. Current' /\ eps' = eps
    BY StoreSame DEF Adopted, QuietInv
  <1>3. Listed'
    BY <1>1, <1>2 DEF Adopted, QuietInv, Stages, AtAdopt, Listed, Undisturbed
  <1> QED
    BY <1>1, <1>2, <1>3
    DEF QuietInv, Stages, AtAdopt, AtPlan, AtCheck, AtWrite, AtDelete, AtRecord

\* What the plan leaves alone is stored as the document asks for it.
LEMMA PlanStage ==
  ASSUME Types, QuietInv, Plan
  PROVE  QuietInv'
  <1>1. PICK lost, ws, gone, ages :
          /\ lost = RouteCollisions /\ ws = Writes /\ gone = Stale /\ ages = CreationOrder
    OBVIOUS
  <1>2. pass' = [pass EXCEPT !.at = "check", !.ages = ages, !.writes = ws \ lost,
                             !.stale = gone, !.held = lost]
    BY <1>1 DEF Plan
  <1>3. /\ pass'.at = "check" /\ pass'.snap = pass.snap /\ pass'.controlled = pass.controlled
        /\ pass'.doc = pass.doc /\ pass'.raced = pass.raced /\ pass'.transient = pass.transient
        /\ pass'.writes = ws \ lost /\ pass'.stale = gone /\ pass'.held = lost
    BY <1>2 DEF Types, SoundPass, Pass
  <1>4. Current' /\ eps' = eps
    BY StoreSame DEF Plan, QuietInv
  <1>5. Listed'
    BY <1>3, <1>4 DEF Plan, QuietInv, Stages, AtPlan, Listed, Undisturbed
  <1>6. /\ ws \subseteq Wanted(pass.doc) /\ gone = pass.controlled \ Wanted(pass.doc)
        /\ \A n \in Wanted(pass.doc) \ ws :
             n \in pass.controlled /\ pass.snap[n].labelled /\ pass.snap[n].ver = pass.doc.want[n]
    BY <1>1 DEF Writes, Stale
  <1>7. AtCheck'
    BY <1>3, <1>5, <1>6 DEF AtCheck
  <1> QED
    BY <1>3, <1>4, <1>7
    DEF QuietInv, Stages, AtAdopt, AtPlan, AtCheck, AtWrite, AtDelete, AtRecord

LEMMA CheckStage ==
  ASSUME Types, QuietInv, Check
  PROVE  QuietInv'
  <1>1. PICK holds, ages, refused :
          pass' = [pass EXCEPT !.at = "write", !.ages = ages, !.writes = @ \ holds,
                               !.held = @ \cup holds, !.refused = refused]
    BY Zenon DEF Check
  <1>2. /\ pass'.at = "write" /\ pass'.doc = pass.doc /\ pass'.stale = pass.stale
        /\ pass'.raced = pass.raced /\ pass'.transient = pass.transient
        /\ pass'.writes = pass.writes \ holds /\ pass'.held = pass.held \cup holds
    BY <1>1 DEF Types, SoundPass, Pass
  <1>3. Current' /\ eps' = eps
    BY StoreSame DEF Check, QuietInv
  <1>4. pass.at = "check" /\ AtCheck /\ Listed
    BY DEF Check, QuietInv, Stages, AtCheck
  <1>5. pass'.writes \subseteq Wanted(pass.doc) /\ pass'.stale \cap Wanted(pass.doc) = {}
    BY <1>2, <1>4 DEF AtCheck
  <1>6. ASSUME Undisturbed'
        PROVE  /\ \A n \in Wanted(pass.doc) \ (pass'.writes \cup pass'.held) : StoredAsWanted(n)'
               /\ NoneBesides(pass.stale)'
    <2>1. eps = pass.snap
      BY <1>2, <1>4, <1>6 DEF Listed, Undisturbed
    <2>2. Wanted(pass.doc) \subseteq Names
      BY DEF Wanted
    <2>3. ASSUME NEW n \in Wanted(pass.doc) \ (pass'.writes \cup pass'.held)
          PROVE  StoredAsWanted(n)'
      <3>1. n \in Wanted(pass.doc) \ (pass.writes \cup pass.held)
        BY <1>2
      <3>2. n \in pass.controlled /\ pass.snap[n].labelled /\ pass.snap[n].ver = pass.doc.want[n]
        BY <1>4, <3>1 DEF AtCheck
      <3> QED
        BY <1>2, <1>3, <1>4, <2>1, <2>2, <3>2 DEF Listed, StoredAsWanted
    <2>4. ASSUME NEW n \in Names \ (Wanted(pass.doc) \cup pass.stale)
          PROVE  eps[n].owner # "autoconfig"
      BY <1>4, <2>1 DEF Listed, AtCheck
    <2> QED
      BY <1>2, <1>3, <2>3, <2>4 DEF NoneBesides
  <1>7. AtWrite'
    BY <1>2, <1>5, <1>6 DEF AtWrite
  <1> QED
    BY <1>2, <1>3, <1>7
    DEF QuietInv, Stages, AtAdopt, AtPlan, AtCheck, AtWrite, AtDelete, AtRecord

\* What one write does to the pass and to what is stored.
LEMMA WriteOutcome ==
  ASSUME MaxLag = 0, Types, QuietInv, NEW n \in Names, Write(n)
  PROVE  /\ Current'
         /\ eps' = eps \/ \E e : /\ eps' = [eps EXCEPT ![n] = e]
                                 /\ e.ver = pass.doc.want[n] /\ e.owner = "autoconfig" /\ e.labelled
         /\ pass'.at = "write" /\ pass'.doc = pass.doc /\ pass'.stale = pass.stale
         /\ pass'.snap = pass.snap /\ pass'.read = pass.read
         /\ pass'.writes = pass.writes \ {n} /\ pass.held \subseteq pass'.held
         /\ pass.refused \subseteq pass'.refused
         /\ Undisturbed' =>
              /\ Undisturbed
              /\ \/ n \in pass'.held /\ n \in pass'.refused /\ eps' = eps
                 \/ /\ pass'.held = pass.held
                    /\ eps'[n].ver = pass.doc.want[n] /\ eps'[n].owner = "autoconfig"
                    /\ eps'[n].labelled
  <1> DEFINE left == [pass EXCEPT !.writes = @ \ {n}]
             done == [left EXCEPT !.changed = TRUE]
             hold == [left EXCEPT !.held = @ \cup {n}, !.refused = @ \cup {n}]
             late == [left EXCEPT !.transient = TRUE]
             lost == [left EXCEPT !.raced = TRUE]
  <1>1. PICK e : e = [ver |-> pass.doc.want[n], owner |-> "autoconfig", labelled |-> TRUE,
                      uid |-> IF Exists(cache[n]) THEN cache[n].uid ELSE created + 1]
    OBVIOUS
  <1>2. e.ver = pass.doc.want[n] /\ e.owner = "autoconfig" /\ e.labelled
    BY <1>1
  <1>3. /\ pass \in Pass /\ pass.at = "write" /\ eps \in [Names -> Endpoint] /\ n \in pass.writes
        /\ Current /\ cache[n] = eps[n]
    BY DEF Types, SoundPass, StoreTyped, Write, QuietInv, Current
  <1>4. Exists(e)
    <2>1. n \in Wanted(pass.doc)
      BY <1>3 DEF QuietInv, Stages, AtWrite
    <2> QED
      BY <1>2, <2>1 DEF Wanted, Exists
  <1>5. /\ left \in Pass /\ left.at = "write" /\ left.doc = pass.doc /\ left.stale = pass.stale
        /\ left.snap = pass.snap /\ left.read = pass.read
        /\ left.writes = pass.writes \ {n} /\ left.held = pass.held /\ left.refused = pass.refused
        /\ left.raced = pass.raced /\ left.transient = pass.transient
    BY <1>3 DEF Pass
  <1>6. \/ pass' = hold /\ UNCHANGED store
        \/ pass' = left /\ cache[n] = e /\ UNCHANGED store
        \/ pass' = late /\ UNCHANGED store
        \/ Update(n, cache[n], e, left, done)
    BY <1>1, Zenon DEF Write
  <1> HIDE DEF left
  <1> DEFINE Carries(p) ==
               /\ p.at = "write" /\ p.doc = pass.doc /\ p.stale = pass.stale
               /\ p.snap = pass.snap /\ p.read = pass.read
               /\ p.writes = pass.writes \ {n} /\ pass.held \subseteq p.held
               /\ pass.refused \subseteq p.refused
  <1>7. Carries(hold) /\ Carries(done) /\ Carries(late) /\ Carries(lost)
    BY <1>5 DEF Pass
  <1>8. /\ hold.raced = pass.raced /\ hold.transient = pass.transient /\ n \in hold.held
        /\ n \in hold.refused /\ done.held = pass.held
        /\ done.raced = pass.raced /\ done.transient = pass.transient
        /\ late.transient /\ lost.raced
    BY <1>5 DEF Pass
  <1> HIDE DEF hold, done, late, lost
  <1>9. \/ pass' = hold /\ UNCHANGED store
        \/ pass' = left /\ eps[n] = e /\ UNCHANGED store
        \/ pass' = done /\ Store(n, e)
        \/ pass' \in {late, lost} /\ (UNCHANGED store \/ Store(n, e))
    BY <1>3, <1>6 DEF Update, late, lost
  <1>10. /\ UNCHANGED store => Current' /\ eps' = eps
         /\ Store(n, e) => Current' /\ eps' = [eps EXCEPT ![n] = e] /\ eps'[n] = e
    BY <1>3, <1>4, StoreCurrent, StoreSame
  <1>11. Current' /\ (eps' = eps \/ eps' = [eps EXCEPT ![n] = e])
    BY <1>9, <1>10
  <1>12. /\ pass'.at = "write" /\ pass'.doc = pass.doc /\ pass'.stale = pass.stale
         /\ pass'.snap = pass.snap /\ pass'.read = pass.read
         /\ pass'.writes = pass.writes \ {n} /\ pass.held \subseteq pass'.held
         /\ pass.refused \subseteq pass'.refused
    BY <1>5, <1>7, <1>9
  <1>13. Undisturbed' =>
           /\ Undisturbed
           /\ \/ n \in pass'.held /\ n \in pass'.refused /\ eps' = eps
              \/ pass'.held = pass.held /\ eps'[n] = e
    BY <1>5, <1>8, <1>9, <1>10 DEF Undisturbed
  <1> QED
    BY <1>2, <1>11, <1>12, <1>13

LEMMA WriteStage ==
  ASSUME MaxLag = 0, Types, QuietInv, NEW n \in Names, Write(n)
  PROVE  QuietInv'
  <1>1. eps \in [Names -> Endpoint] /\ Wanted(pass.doc) \subseteq Names
    BY DEF Types, StoreTyped, Wanted
  <1>2. pass.at = "write" /\ n \in pass.writes /\ AtWrite /\ n \in Wanted(pass.doc)
    BY DEF Write, QuietInv, Stages, AtWrite
  <1>3. /\ Current'
        /\ \A m \in Names \ {n} : eps'[m] = eps[m]
        /\ pass'.at = "write" /\ pass'.doc = pass.doc /\ pass'.stale = pass.stale
        /\ pass'.writes = pass.writes \ {n} /\ pass.held \subseteq pass'.held
        /\ Undisturbed' => Undisturbed /\ (n \in pass'.held \/ StoredAsWanted(n)')
    BY <1>1, WriteOutcome DEF StoredAsWanted
  <1>4. ASSUME Undisturbed'
        PROVE  /\ \A m \in Wanted(pass.doc) \ (pass'.writes \cup pass'.held) : StoredAsWanted(m)'
               /\ NoneBesides(pass.stale)'
    <2>1. /\ \A m \in Wanted(pass.doc) \ (pass.writes \cup pass.held) : StoredAsWanted(m)
          /\ NoneBesides(pass.stale)
      BY <1>2, <1>3, <1>4 DEF AtWrite
    <2>2. ASSUME NEW m \in Wanted(pass.doc) \ (pass'.writes \cup pass'.held)
          PROVE  StoredAsWanted(m)'
      <3>1. CASE m = n
        BY <1>3, <1>4, <3>1
      <3>2. CASE m # n
        <4>1. StoredAsWanted(m) /\ m \in Names \ {n}
          BY <1>1, <1>3, <2>1, <3>2
        <4> QED
          BY <1>3, <4>1 DEF StoredAsWanted
      <3> QED
        BY <3>1, <3>2
    <2>3. NoneBesides(pass.stale)'
      BY <1>2, <1>3, <2>1 DEF NoneBesides
    <2> QED
      BY <2>2, <2>3
  <1>5. AtWrite'
    BY <1>2, <1>3, <1>4 DEF AtWrite
  <1> QED
    BY <1>3, <1>5
    DEF QuietInv, Stages, AtAdopt, AtPlan, AtCheck, AtWrite, AtDelete, AtRecord

LEMMA WrittenStage ==
  ASSUME Types, QuietInv, Written
  PROVE  QuietInv'
  <1>1. pass \in Pass /\ pass.at = "write" /\ pass.writes = {} /\ AtWrite
    BY DEF Types, SoundPass, Written, QuietInv, Stages
  <1>2. Current' /\ eps' = eps
    BY StoreSame DEF Written, QuietInv
  <1>3. CASE Deletes
    <2>1. /\ pass'.at = "delete" /\ pass'.doc = pass.doc /\ pass'.stale = pass.stale
          /\ pass'.held = pass.held
      BY <1>1, <1>3 DEF Written, Pass
    <2>2. pass.doc.failed = {} /\ pass.held = {} /\ Undisturbed
      BY <1>3 DEF Deletes, Failed, Undisturbed
    <2>3. /\ \A n \in Wanted(pass.doc) : StoredAsWanted(n)
          /\ NoneBesides(pass.stale) /\ pass.stale \cap Wanted(pass.doc) = {}
      BY <1>1, <2>2 DEF AtWrite
    <2>4. AtDelete'
      BY <1>2, <2>1, <2>2, <2>3 DEF AtDelete, StoredAsWanted, NoneBesides
    <2> QED
      BY <1>2, <2>1, <2>4
      DEF QuietInv, Stages, AtAdopt, AtPlan, AtCheck, AtWrite, AtDelete, AtRecord
  <1>4. CASE ~ Deletes
    <2>1. /\ pass'.at = "record" /\ pass'.doc = pass.doc /\ pass'.held = pass.held
          /\ pass'.raced = pass.raced /\ pass'.transient = pass.transient
      BY <1>1, <1>4 DEF Written, Pass
    <2>2. ~ (Undisturbed' /\ pass'.doc.failed = {} /\ pass'.held = {})
      BY <1>4, <2>1 DEF Deletes, Failed, Undisturbed
    <2> QED
      BY <1>2, <2>1, <2>2
      DEF QuietInv, Stages, AtAdopt, AtPlan, AtCheck, AtWrite, AtDelete, AtRecord
  <1> QED
    BY <1>3, <1>4

LEMMA DeleteStage ==
  ASSUME MaxLag = 0, Types, QuietInv, NEW n \in Names, Delete(n)
  PROVE  QuietInv'
  <1>1. /\ pass \in Pass /\ pass.at = "delete" /\ n \in pass.stale /\ AtDelete /\ Current
        /\ eps \in [Names -> Endpoint] /\ Wanted(pass.doc) \subseteq Names
    BY DEF Types, SoundPass, StoreTyped, Delete, QuietInv, Stages, Wanted
  <1>2. /\ pass'.at = "delete" /\ pass'.doc = pass.doc /\ pass'.held = pass.held
        /\ pass'.stale = pass.stale \ {n}
        /\ Undisturbed' => Undisturbed
    BY <1>1 DEF Delete, Pass, Undisturbed
  <1>3. /\ UNCHANGED store => Current' /\ eps' = eps
        /\ Store(n, NoEndpoint) => Current' /\ eps' = [eps EXCEPT ![n] = NoEndpoint]
    BY <1>1, StoreCurrent, StoreSame
  <1>4. UNCHANGED store \/ Store(n, NoEndpoint)
    BY DEF Delete
  <1>5. Current' /\ \A m \in Names \ {n} : eps'[m] = eps[m]
    BY <1>1, <1>3, <1>4
  <1>6. Undisturbed' => eps'[n].owner # "autoconfig"
    <2>1. Undisturbed' => Store(n, NoEndpoint) \/ (~ Exists(eps[n]) /\ UNCHANGED store)
      BY <1>1 DEF Delete, Undisturbed, Pass
    <2>2. ~ Exists(eps[n]) => eps[n] = NoEndpoint
      BY <1>1 DEF Current
    <2> QED
      BY <1>1, <1>3, <2>1, <2>2 DEF NoEndpoint
  <1>7. \A m \in Wanted(pass.doc) : StoredAsWanted(m)'
    <2>1. \A m \in Wanted(pass.doc) : m # n /\ StoredAsWanted(m)
      BY <1>1 DEF AtDelete
    <2> QED
      BY <1>1, <1>2, <1>5, <2>1 DEF StoredAsWanted
  <1>8. Undisturbed' => NoneBesides(pass.stale)'
    BY <1>1, <1>2, <1>5, <1>6 DEF AtDelete, NoneBesides
  <1>9. AtDelete'
    BY <1>1, <1>2, <1>7, <1>8 DEF AtDelete, NoneBesides
  <1> QED
    BY <1>2, <1>5, <1>9
    DEF QuietInv, Stages, AtAdopt, AtPlan, AtCheck, AtWrite, AtDelete, AtRecord

LEMMA DeletedStage ==
  ASSUME Types, QuietInv, Deleted
  PROVE  QuietInv'
  <1>1. pass \in Pass /\ pass.at = "delete" /\ pass.stale = {} /\ AtDelete
    BY DEF Types, SoundPass, Deleted, QuietInv, Stages
  <1>2. Current' /\ eps' = eps
    BY StoreSame DEF Deleted, QuietInv
  <1>3. /\ pass'.at = "record" /\ pass'.doc = pass.doc
        /\ pass'.raced = pass.raced /\ pass'.transient = pass.transient
    BY <1>1 DEF Deleted, Pass
  <1>4. AtRecord'
    BY <1>1, <1>2, <1>3 DEF AtDelete, AtRecord, StoredAsWanted, NoneBesides, Undisturbed
  <1> QED
    BY <1>2, <1>3, <1>4
    DEF QuietInv, Stages, AtAdopt, AtPlan, AtCheck, AtWrite, AtDelete, AtRecord

\* What others do between passes leaves no endpoint without content that has
\* an owner or a label.
LEMMA MeddleStage ==
  ASSUME MaxLag = 0, Types, QuietInv, Quiet, NEW n \in Names, Meddle(n)
  PROVE  QuietInv'
  <1>1. /\ bounds.meddling \in Nat /\ bounds' = [bounds EXCEPT !.meddling = @ - 1]
        /\ bounds \in Bounds /\ pass' = pass
    BY BoundsAreNumbers DEF Meddle, Types, Bounds
  <1>2. pass.at = "idle"
    BY <1>1 DEF Quiet, Bounds
  <1>3. eps[n] \in Endpoint /\ Current
    BY DEF Types, StoreTyped, QuietInv
  <1>4. PICK e : Store(n, e) /\ (Exists(e) \/ e = NoEndpoint)
    <2>1. CASE Exists(eps[n]) /\ \E x \in Meddled(eps[n]) : Store(n, x.ep)
      <3>1. PICK x \in Meddled(eps[n]) : Store(n, x.ep)
        BY <2>1
      <3>2. PICK old \in Endpoint : old = eps[n] /\ Exists(old)
        BY <1>3, <2>1
      <3>3. /\ [old EXCEPT !.owner = "none"].ver = old.ver
            /\ [old EXCEPT !.owner = "other"].ver = old.ver
            /\ [old EXCEPT !.labelled = FALSE].ver = old.ver
            /\ \A v \in Versions : [old EXCEPT !.ver = v].ver = v
        BY DEF Endpoint
      <3>4. PICK k, e : /\ x = [kind |-> k, ep |-> e]
                        /\ \/ e = NoEndpoint
                           \/ e = [old EXCEPT !.owner = "none"]
                           \/ e = [old EXCEPT !.owner = "other"]
                           \/ e = [old EXCEPT !.labelled = FALSE]
                           \/ \E v \in Versions : e = [old EXCEPT !.ver = v]
        BY <3>2, Zenon DEF Meddled
      <3>5. e = NoEndpoint \/ e.ver = old.ver \/ e.ver \in Versions
        BY <3>3, <3>4, Zenon
      <3>6. x.ep = e
        BY <3>4, Zenon
      <3> QED
        BY <3>1, <3>2, <3>5, <3>6, SyncAssumption DEF Exists
    <2>2. CASE \E v \in Versions, o \in {"other", "none"} :
                 Store(n, [ver |-> v, owner |-> o, labelled |-> FALSE, uid |-> created + 1])
      BY <2>2, SyncAssumption DEF Exists
    <2> QED
      BY <2>1, <2>2 DEF Meddle
  <1>5. Current'
    BY <1>3, <1>4, StoreCurrent
  <1>6. Stages'
    BY <1>1, <1>2, NoStage
  <1> QED
    BY <1>5, <1>6 DEF QuietInv

LEMMA QuietNext ==
  MaxLag = 0 => (Types /\ QuietInv /\ [Next]_vars /\ [Quiet]_vars => QuietInv')
  <1> SUFFICES ASSUME MaxLag = 0, Types, QuietInv, [Next]_vars, [Quiet]_vars
               PROVE  QuietInv'
    OBVIOUS
  <1>1. pass \in Pass /\ IdlePass \in Pass /\ IdlePass.at = "idle" /\ Current /\ Stages
    BY IdleTyped DEF Types, SoundPass, QuietInv
  <1>2. CASE Fetch \/ FetchFails
    <2>1. pass'.at \in {"claim", "fail"}
      BY <1>1, <1>2 DEF Fetch, FetchFails, Pass
    <2>2. Current'
      BY <1>1, <1>2, StoreSame DEF Fetch, FetchFails
    <2> QED
      BY <2>1, <2>2, NoStage DEF QuietInv
  <1>3. CASE Claim
    BY <1>1, <1>3, ClaimStage, StoreSame DEF Claim, QuietInv
  <1>4. CASE Adopted
    BY <1>4, AdoptedStage
  <1>5. CASE Plan
    BY <1>5, PlanStage
  <1>6. CASE Check
    BY <1>6, CheckStage
  <1>7. CASE Written
    BY <1>7, WrittenStage
  <1>8. CASE Deleted
    BY <1>8, DeletedStage
  <1>9. ASSUME NEW n \in Names, Adopt(n) \/ Write(n) \/ Delete(n)
        PROVE  QuietInv'
    BY <1>9, AdoptStage, WriteStage, DeleteStage
  <1>10. CASE RecordFailure \/ RecordSync
    <2>1. pass' = IdlePass /\ UNCHANGED store
      BY <1>10 DEF RecordFailure, RecordSync
    <2> QED
      BY <1>1, <2>1, NoStage, StoreSame DEF QuietInv
  <1>11. CASE Crash
    <2>1. pass' = IdlePass /\ Current'
      BY <1>1, <1>11 DEF Crash, Current
    <2> QED
      BY <1>1, <2>1, NoStage DEF QuietInv
  <1>12. CASE DeliverEndpoint
    <2>1. epEvents \in Seq([name : Names, ep : Endpoint]) /\ Len(epEvents) = 0
      BY DEF Types, StoreTyped
    <2>2. epEvents = <<>>
      BY <2>1
    <2> QED
      BY <1>12, <2>2 DEF DeliverEndpoint
  <1>13. CASE DeliverStatus \/ ChangeDocument \/ ChangeGateway
    <2>1. pass' = pass /\ UNCHANGED store
      BY <1>13 DEF DeliverStatus, ChangeDocument, ChangeGateway
    <2> QED
      BY <1>1, <2>1, SameStage, StoreSame DEF QuietInv
  <1>14. CASE Annotate
    <2>1. /\ pass'.at = pass.at /\ pass'.doc = pass.doc /\ pass'.snap = pass.snap
          /\ pass'.controlled = pass.controlled /\ pass'.orphans = pass.orphans
          /\ pass'.writes = pass.writes /\ pass'.stale = pass.stale /\ pass'.held = pass.held
          /\ pass'.raced = pass.raced /\ pass'.transient = pass.transient
      BY <1>1, <1>14 DEF Annotate, Pass
    <2>2. Current' /\ eps' = eps
      BY <1>1, <1>14, StoreSame DEF Annotate
    <2> QED
      BY <1>1, <2>1, <2>2, SameStage DEF QuietInv
  <1>15. ASSUME NEW n \in Names, Meddle(n)
         PROVE  QuietInv'
    <2>1. Quiet
      BY <1>1, <1>15 DEF Quiet, vars, Meddle, Types, Bounds
    <2> QED
      BY <1>15, <2>1, MeddleStage
  <1>16. CASE UNCHANGED vars
    <2>1. pass' = pass /\ UNCHANGED store
      BY <1>16 DEF vars, store
    <2> QED
      BY <1>1, <2>1, SameStage, StoreSame DEF QuietInv
  <1> QED
    BY <1>2, <1>3, <1>4, <1>5, <1>6, <1>7, <1>8, <1>9, <1>10, <1>11, <1>12, <1>13, <1>14, <1>15,
       <1>16 DEF Next, Step, Environment

LEMMA QuietAlways == MaxLag = 0 => (Spec /\ QuietPasses => []QuietInv)
  <1> SUFFICES ASSUME MaxLag = 0 PROVE Spec /\ QuietPasses => []QuietInv
    OBVIOUS
  <1>1. Init => QuietInv
    BY IdleTyped
    DEF Init, QuietInv, Current, Stages, AtAdopt, AtPlan, AtCheck, AtWrite, AtDelete, AtRecord
  <1>2. Types /\ QuietInv /\ [Next]_vars /\ [Quiet]_vars => QuietInv'
    BY QuietNext
  <1> QED
    BY <1>1, <1>2, TypesAlways, PTL DEF Spec, QuietPasses

\* Make before break: where the cache keeps up and others leave the endpoints
\* alone while a pass is under way, a pass deletes only when every endpoint the
\* document asks for is stored as it asks for it, whatever calls fail and
\* whenever the operator stops (reconcileEndpoints).
THEOREM DeletesComeLast == MaxLag = 0 => (Spec /\ QuietPasses => MakeBeforeBreak)
  <1> SUFFICES ASSUME MaxLag = 0 PROVE Spec /\ QuietPasses => MakeBeforeBreak
    OBVIOUS
  <1> DEFINE Last == \A n \in Names :
               (pass.at = "delete" /\ pass' # pass /\ Exists(eps[n]) /\ ~ Exists(eps'[n])) =>
                 /\ pass.doc.failed = {}
                 /\ \A m \in Wanted(pass.doc) : eps[m].ver = pass.doc.want[m]
  <1>1. QuietInv => [Last]_vars
    BY DEF QuietInv, Stages, AtDelete, StoredAsWanted
  <1> HIDE DEF Last
  <1>2. Spec /\ QuietPasses => []QuietInv
    BY QuietAlways
  <1>3. Spec /\ QuietPasses => [][Last]_vars
    BY <1>1, <1>2, PTL
  <1> QED
    BY <1>3 DEF Last, MakeBeforeBreak

\* Under the same hypotheses Synced turns True only while the stored endpoints
\* are exactly those of the document the status records (recordSync).
THEOREM SyncedIsTrue == MaxLag = 0 => (Spec /\ QuietPasses => SyncedMeansStored)
  <1> SUFFICES ASSUME MaxLag = 0 PROVE Spec /\ QuietPasses => SyncedMeansStored
    OBVIOUS
  <1> DEFINE Right == (status' # status /\ status'.synced = "True") => Matches(status'.sum)
  <1>1. Types /\ QuietInv /\ [Next]_vars => [Right]_vars
    <2> SUFFICES ASSUME Types, QuietInv, Next, status' # status, status'.synced = "True"
                 PROVE  Matches(status'.sum)
      OBVIOUS
    <2>1. CASE RecordSync
      <3>1. /\ pass.at = "record" /\ ~ pass.transient /\ ~ pass.raced
            /\ status' = SyncResult
        BY <2>1 DEF RecordSync, WriteStatus, LostWriteRace
      <3>2. pass.doc.failed = {} /\ pass.held = {} /\ status'.sum = pass.doc
        BY <3>1 DEF SyncResult
      <3>3. (\A n \in Wanted(pass.doc) : StoredAsWanted(n)) /\ NoneBesides({})
        BY <3>1, <3>2 DEF QuietInv, Stages, AtRecord, Undisturbed
      <3> QED
        BY <3>2, <3>3 DEF Matches, StoredAsWanted, NoneBesides
    <2>2. CASE RecordFailure
      <3>1. pass.read.status \in Status
        BY DEF Types, SoundPass, Pass, Seen
      <3>2. status' = [pass.read.status EXCEPT !.synced = "Failed"]
        BY <2>2 DEF RecordFailure, WriteStatus
      <3> QED
        BY <3>1, <3>2 DEF Status
    <2>3. ASSUME NEW n \in Names, Adopt(n) \/ Write(n) \/ Delete(n) \/ Meddle(n)
          PROVE  FALSE
      BY <2>3 DEF Adopt, Write, Delete, Meddle
    <2>4. CASE \/ Fetch \/ Claim \/ Adopted \/ Plan \/ Check \/ Written \/ Deleted
               \/ FetchFails \/ Crash \/ DeliverEndpoint \/ DeliverStatus
               \/ ChangeDocument \/ ChangeGateway \/ Annotate
      BY <2>4 DEF Fetch, Claim, Adopted, Plan, Check, Written, Deleted, FetchFails, Crash,
                  DeliverEndpoint, DeliverStatus, ChangeDocument, ChangeGateway, Annotate
    <2> QED
      BY <2>1, <2>2, <2>3, <2>4 DEF Next, Step, Environment
  <1> HIDE DEF Right
  <1>2. Spec /\ QuietPasses => []QuietInv
    BY QuietAlways
  <1>3. Spec /\ QuietPasses => [][Right]_vars
    BY <1>1, <1>2, TypesAlways, PTL DEF Spec
  <1> QED
    BY <1>3 DEF Right, SyncedMeansStored

-----------------------------------------------------------------------------
(* The last loop of precheck ends, with nothing left that clashes.         *)

\* f[w] is what is left of w when what g finds in it is taken off, until g finds
\* nothing: Cleared, with g for RouterClashes.
Descends(f, g, S) ==
  /\ f \in [SUBSET S -> SUBSET S]
  /\ \A w \in SUBSET S : f[w] = IF g[w] = {} THEN w ELSE f[w \ g[w]]

\* There is such a function.  The sets that w passes through can be given without
\* recursion (Orbit), and as each is part of the one before, the last of them is
\* what all of them share.
LEMMA DescentExists ==
  ASSUME NEW S, NEW g \in [SUBSET S -> SUBSET S]
  PROVE  \E f : Descends(f, g, S)
  <1> DEFINE Closed(A) == \A u \in A : u \ g[u] \in A
             Orbit(w)  == {u \in SUBSET S : \A A \in SUBSET SUBSET S : w \in A /\ Closed(A) => u \in A}
             end       == [w \in SUBSET S |-> {x \in S : \A u \in Orbit(w) : x \in u}]
  <1>1. ASSUME NEW w \in SUBSET S
        PROVE  /\ w \in Orbit(w) /\ Orbit(w) \in SUBSET SUBSET S
               /\ Closed(Orbit(w)) /\ w \ g[w] \in SUBSET S
    OBVIOUS
  <1>2. ASSUME NEW w \in SUBSET S, NEW A \in SUBSET SUBSET S, w \in A, Closed(A), NEW u \in Orbit(w)
        PROVE  u \in A
    BY <1>2
  <1> HIDE DEF Orbit
  <1>3. ASSUME NEW w \in SUBSET S, g[w] = {}
        PROVE  end[w] = w
    <2>1. w \ g[w] = w /\ {w} \in SUBSET SUBSET S
      BY <1>3
    <2>2. Closed({w})
      BY <2>1
    <2>3. \A u \in Orbit(w) : u \in {w}
      BY <1>2, <2>1, <2>2
    <2> QED
      BY <1>1, <2>3
  <1>4. ASSUME NEW w \in SUBSET S
        PROVE  end[w] = end[w \ g[w]]
    <2> DEFINE h == w \ g[w]
    <2>1. h \in SUBSET S /\ h \subseteq w /\ h \in Orbit(h) /\ Orbit(h) \in SUBSET SUBSET S
          /\ Closed(Orbit(h))
      BY <1>1
    <2>2. Orbit(h) \subseteq Orbit(w)
      <3>1. h \in Orbit(w)
        BY <1>1
      <3> QED
        BY <1>1, <1>2, <2>1, <3>1
    <2>3. Orbit(w) \subseteq {w} \cup Orbit(h)
      <3>1. Closed({w} \cup Orbit(h)) /\ {w} \cup Orbit(h) \in SUBSET SUBSET S
        BY <2>1
      <3> QED
        BY <1>2, <3>1
    <2>4. ASSUME NEW x \in S
          PROVE  (\A u \in Orbit(w) : x \in u) <=> (\A u \in Orbit(h) : x \in u)
      BY <2>1, <2>2, <2>3
    <2> HIDE DEF h
    <2>5. end[w] = end[h]
      BY <2>1, <2>4
    <2> QED
      BY <2>5 DEF h
  <1>5. end \in [SUBSET S -> SUBSET S]
    OBVIOUS
  <1>6. \A w \in SUBSET S : end[w] = IF g[w] = {} THEN w ELSE end[w \ g[w]]
    BY <1>3, <1>4
  <1> HIDE DEF end
  <1>7. Descends(end, g, S)
    BY <1>5, <1>6 DEF Descends
  <1> QED
    BY <1>7

LEMMA SubsetsWellFounded ==
  ASSUME NEW S, IsFiniteSet(S)
  PROVE  IsWellFoundedOn(StrictSubsetOrdering(S), SUBSET S)
  <1>1. FiniteSubsetsOf(S) = SUBSET S
    BY FS_FiniteSubsetsOfFinite, Zenon
  <1>2. IsWellFoundedOn(StrictSubsetOrdering(S), FiniteSubsetsOf(S))
    BY FS_StrictSubsetOrderingWellFounded, Zenon
  <1> QED
    BY <1>1, <1>2, Zenon

\* What is left is part of w, and g finds nothing in it: a smallest w for which
\* this is wrong is not one where g finds nothing, nor one that gets smaller.
LEMMA DescentEnds ==
  ASSUME NEW S, IsFiniteSet(S), NEW g \in [SUBSET S -> SUBSET S],
         \A w \in SUBSET S : g[w] \subseteq w,
         NEW f, \A w \in SUBSET S : f[w] = IF g[w] = {} THEN w ELSE f[w \ g[w]]
  PROVE  \A w \in SUBSET S : f[w] \subseteq w /\ g[f[w]] = {}
  <1> DEFINE Wrong == {w \in SUBSET S : ~ (f[w] \subseteq w /\ g[f[w]] = {})}
  <1> SUFFICES ASSUME Wrong # {} PROVE FALSE
    OBVIOUS
  <1>1. IsWellFoundedOn(StrictSubsetOrdering(S), SUBSET S)
    BY SubsetsWellFounded, Zenon
  <1>2. PICK w \in Wrong : \A v \in Wrong : <<v, w>> \notin StrictSubsetOrdering(S)
    <2>1. Wrong \subseteq SUBSET S
      OBVIOUS
    <2> HIDE DEF Wrong
    <2> QED
      BY <1>1, <2>1, WFMin
  <1>3. f[w] = IF g[w] = {} THEN w ELSE f[w \ g[w]]
    OBVIOUS
  <1>4. g[w] # {}
    BY <1>3
  <1>5. w \ g[w] \in SUBSET S /\ <<w \ g[w], w>> \in StrictSubsetOrdering(S)
    BY <1>4 DEF StrictSubsetOrdering
  <1>6. w \ g[w] \notin Wrong
    BY <1>2, <1>5
  <1> QED
    BY <1>3, <1>4, <1>5, <1>6

\* Only candidates are held.
LEMMA ClashesFound ==
  ASSUME NEW ws, NEW gone
  PROVE  RouterClashes(ws, gone) \subseteq ws
  BY DEF RouterClashes, NewClashes

\* The last loop of precheck leaves a set of candidates in which the next look
\* finds no new clash, for every finite set of candidates and every relation of
\* routes that clash.
THEOREM ClearedEnds ==
  ASSUME NEW ws, IsFiniteSet(ws)
  PROVE  Cleared(ws) \subseteq ws /\ RouterClashes(Cleared(ws), {}) = {}
  <1>1. PICK g \in [SUBSET ws -> SUBSET ws] :
          \A w \in SUBSET ws : g[w] \subseteq w /\ g[w] = RouterClashes(w, {})
    <2> DEFINE r == [w \in SUBSET ws |-> RouterClashes(w, {})]
    <2>1. r \in [SUBSET ws -> SUBSET ws] /\ \A w \in SUBSET ws : r[w] \subseteq w
      BY ClashesFound
    <2> QED
      BY <2>1
  <1> DEFINE B(f) == [w \in SUBSET ws |-> IF RouterClashes(w, {}) = {} THEN w
                                         ELSE f[w \ RouterClashes(w, {})]]
             D(f) == [w \in SUBSET ws |-> IF g[w] = {} THEN w ELSE f[w \ g[w]]]
             F    == CHOOSE f : f = B(f)
  <1>2. \A f : B(f) = D(f)
    BY <1>1
  <1>3. \E f : f = D(f)
    <2>1. PICK f : Descends(f, g, ws)
      BY DescentExists
    <2>2. f = [w \in SUBSET ws |-> f[w]] /\ \A w \in SUBSET ws : f[w] = D(f)[w]
      BY <2>1 DEF Descends
    <2>3. f = D(f)
      BY <2>2
    <2> QED
      BY <2>3
  <1>4. Cleared(ws) = F[ws]
    BY DEF Cleared
  <1>5. F = D(F)
    <2> HIDE DEF B, D
    <2>1. \E f : f = B(f)
      BY <1>2, <1>3
    <2>2. F = B(F)
      BY <2>1
    <2> HIDE DEF F
    <2> QED
      BY <1>2, <2>2
  <1> HIDE DEF F
  <1>6. \A w \in SUBSET ws : F[w] \subseteq w /\ g[F[w]] = {}
    <2>1. \A w \in SUBSET ws : g[w] \subseteq w
      BY <1>1
    <2>2. \A w \in SUBSET ws : F[w] = IF g[w] = {} THEN w ELSE F[w \ g[w]]
      BY <1>5, Zenon
    <2> QED
      BY <2>1, <2>2, DescentEnds
  <1>7. F[ws] \subseteq ws /\ g[F[ws]] = {}
    BY <1>6
  <1> QED
    BY <1>1, <1>4, <1>7

-----------------------------------------------------------------------------
(* Routes the router can serve next to each other.                         *)

\* The routers refuse two routes in whatever order they are registered.
RouterSymmetric == \A r, s : <<r, s>> \in Clash => <<s, r>> \in Clash

\* The router can serve all the routes in R next to each other.
Compatible(R) == \A r, s \in R : <<r, s>> \in Clash => r = s

\* A view of endpoints with one entry each.
SingleEntries(v) ==
  /\ DOMAIN v \subseteq Names
  /\ \A n \in DOMAIN v : v[n].at \in Nat /\ v[n].source = n

RoutesOf(v) == {v[n].route : n \in DOMAIN v}

LEMMA RanksAreNumbers == \A n \in Names : Rank[n] \in Nat
  BY SyncAssumption

\* servedBefore is a strict linear order.
LEMMA ServedInOrder ==
  ASSUME NEW v, SingleEntries(v), NEW a \in DOMAIN v, NEW b \in DOMAIN v, NEW c \in DOMAIN v
  PROVE  /\ ~ ServedBefore(v, a, a)
         /\ ServedBefore(v, a, b) /\ ServedBefore(v, b, c) => ServedBefore(v, a, c)
         /\ a # b => ServedBefore(v, a, b) \/ ServedBefore(v, b, a)
  <1>1. /\ v[a].at \in Nat /\ v[b].at \in Nat /\ v[c].at \in Nat
        /\ Rank[a] \in Nat /\ Rank[b] \in Nat /\ Rank[c] \in Nat
    BY RanksAreNumbers DEF SingleEntries
  <1>2. a # b => Rank[a] # Rank[b]
    BY SyncAssumption DEF SingleEntries
  <1> QED
    BY <1>1, <1>2 DEF ServedBefore

\* Every route of a view has an entry that keeps it.
LEMMA RouteHasFirst ==
  ASSUME NEW v, SingleEntries(v), NEW n \in DOMAIN v
  PROVE  \E f \in DOMAIN v \ Shadowed(v) : v[f].route = v[n].route
  <1> DEFINE Same      == {m \in DOMAIN v : v[m].route = v[n].route}
             Before(m) == {k \in DOMAIN v : ServedBefore(v, k, m)}
             Befores   == {Before(m) : m \in Same}
  <1>1. IsWellFoundedOn(StrictSubsetOrdering(Names), SUBSET Names)
    BY SyncAssumption, SubsetsWellFounded
  <1>2. Befores \subseteq SUBSET Names /\ Befores # {}
    BY DEF SingleEntries
  <1>3. PICK least \in Befores : \A s \in Befores : <<s, least>> \notin StrictSubsetOrdering(Names)
    <2> HIDE DEF Befores
    <2> QED
      BY <1>1, <1>2, WFMin
  <1>4. PICK f \in Same : least = Before(f)
    OBVIOUS
  <1>5. ASSUME f \in Shadowed(v)
        PROVE  FALSE
    <2>1. PICK k \in DOMAIN v : v[k].route = v[f].route /\ ServedBefore(v, k, f)
      BY <1>5 DEF Shadowed
    <2>2. k \in Same /\ Before(k) \in Befores /\ k \in Before(f)
      BY <2>1
    <2>3. k \notin Before(k) /\ Before(k) \subseteq Before(f)
      BY <2>1, ServedInOrder
    <2>4. <<Before(k), Before(f)>> \in StrictSubsetOrdering(Names)
      <3>1. Before(k) \in SUBSET Names /\ Before(f) \in SUBSET Names
        BY DEF SingleEntries
      <3> HIDE DEF Before
      <3> QED
        BY <2>2, <2>3, <3>1 DEF StrictSubsetOrdering
    <2> HIDE DEF Before, Befores
    <2> QED
      BY <1>3, <1>4, <2>2, <2>4
  <1> QED
    BY <1>4, <1>5

\* Two routes of a view that do not go together are reported as a clash.
LEMMA ClashIsSeen ==
  ASSUME RouterSymmetric, NEW v, SingleEntries(v),
         NEW r \in RoutesOf(v), NEW s \in RoutesOf(v), r # s, <<r, s>> \in Clash
  PROVE  \E c \in Clashes(v) :
           /\ c.loser \in DOMAIN v /\ c.winner \in DOMAIN v /\ c.route = v[c.loser].route
           /\ v[c.loser].route # v[c.winner].route
           /\ <<v[c.loser].route, v[c.winner].route>> \in Clash
  <1>1. PICK a \in DOMAIN v \ Shadowed(v), b \in DOMAIN v \ Shadowed(v) :
          v[a].route = r /\ v[b].route = s
    BY RouteHasFirst DEF RoutesOf
  <1>2. a # b /\ v[a].source = a /\ v[b].source = b
    BY <1>1 DEF SingleEntries
  <1>3. <<s, r>> \in Clash
    BY DEF RouterSymmetric
  <1>4. CASE ServedBefore(v, b, a)
    <2>1. b \in Beaten(v, a)
      BY <1>1, <1>2, <1>4 DEF Beaten
    <2>2. [loser |-> a, winner |-> b, route |-> v[a].route] \in Clashes(v)
      BY <1>2, <2>1 DEF Clashes
    <2> QED
      BY <1>1, <2>2
  <1>5. CASE ServedBefore(v, a, b)
    <2>1. a \in Beaten(v, b)
      BY <1>1, <1>2, <1>3, <1>5 DEF Beaten
    <2>2. [loser |-> b, winner |-> a, route |-> v[b].route] \in Clashes(v)
      BY <1>2, <2>1 DEF Clashes
    <2> QED
      BY <1>1, <1>3, <2>2
  <1> QED
    BY <1>2, <1>4, <1>5, ServedInOrder

\* A view has no clash exactly when its routes go together.
LEMMA ClashFree ==
  ASSUME RouterSymmetric, NEW v, SingleEntries(v)
  PROVE  Clashes(v) = {} <=> Compatible(RoutesOf(v))
  <1>1. ASSUME Clashes(v) = {}
        PROVE  Compatible(RoutesOf(v))
    BY <1>1, ClashIsSeen DEF Compatible
  <1>2. ASSUME Compatible(RoutesOf(v)), NEW c \in Clashes(v)
        PROVE  FALSE
    <2>1. PICK e \in DOMAIN v \ Shadowed(v) : \E f \in Beaten(v, e) : TRUE
      BY <1>2 DEF Clashes
    <2>2. PICK f \in DOMAIN v : ServedBefore(v, f, e) /\ <<v[e].route, v[f].route>> \in Clash
      BY <2>1 DEF Beaten
    <2>3. v[e].route = v[f].route
      BY <1>2, <2>1, <2>2 DEF Compatible, RoutesOf
    <2> QED
      BY <2>1, <2>2, <2>3 DEF Shadowed
  <1> QED
    BY <1>1, <1>2

\* The routes of the endpoints e with a name in S.
RoutesIn(e, S) == {RouteIn(e, n) : n \in {m \in S : Exists(e[m])}}

\* The routes there are once ws is written, and what is in gone is deleted.
Ahead(ws, gone) == {RouteWanted(pass.doc, n) : n \in ws} \cup RoutesIn(eps, Names \ (gone \cup ws))

\* The two views that precheck compares.
LEMMA StoredView ==
  ASSUME NEW e \in [Names -> Endpoint]
  PROVE  /\ SingleEntries(View(e)) /\ RoutesOf(View(e)) = RoutesIn(e, Names)
         /\ DOMAIN View(e) = {n \in Names : Exists(e[n])}
         /\ \A n \in DOMAIN View(e) : View(e)[n].route = RouteIn(e, n)
  <1>1. \A n \in Names : e[n].uid \in Nat
    BY BoundsAreNumbers DEF Endpoint
  <1>2. /\ DOMAIN View(e) = {n \in Names : Exists(e[n])}
        /\ \A n \in DOMAIN View(e) :
             /\ View(e)[n].route = RouteIn(e, n) /\ View(e)[n].at = e[n].uid
             /\ View(e)[n].source = n
    BY DEF View, StoredEntry
  <1>3. SingleEntries(View(e))
    BY <1>1, <1>2 DEF SingleEntries
  <1>4. RoutesOf(View(e)) = RoutesIn(e, Names)
    BY <1>2 DEF RoutesOf, RoutesIn
  <1> QED
    BY <1>2, <1>3, <1>4

LEMMA PlannedView ==
  ASSUME Types, cache = eps, NEW ws \in SUBSET Names, NEW gone
  PROVE  LET v == CheckedView(ws, gone)
         IN /\ SingleEntries(v) /\ RoutesOf(v) = Ahead(ws, gone)
            /\ DOMAIN v = ws \cup {n \in Names \ gone : Exists(eps[n])}
            /\ \A n \in ws : v[n].route = RouteWanted(pass.doc, n)
            /\ \A n \in DOMAIN v \ ws : v[n].route = RouteIn(eps, n)
  <1> DEFINE v == CheckedView(ws, gone)
  <1>1. \A n \in Names : eps[n].uid \in Nat /\ pass.ages[n] \in Nat
    BY BoundsAreNumbers DEF Types, StoreTyped, SoundPass, Pass, Endpoint
  <1>2. /\ DOMAIN v = ws \cup {n \in Names \ gone : Exists(eps[n])}
        /\ \A n \in ws : v[n].route = RouteWanted(pass.doc, n) /\ v[n].at = pass.ages[n]
                         /\ v[n].source = n
        /\ \A n \in DOMAIN v \ ws : v[n].route = RouteIn(eps, n) /\ v[n].at = eps[n].uid
                                    /\ v[n].source = n
    BY DEF CheckedView, WantedEntry, StoredEntry
  <1> HIDE DEF v
  <1>3. SingleEntries(v)
    <2>1. DOMAIN v \subseteq Names
      BY <1>2
    <2> QED
      BY <1>1, <1>2, <2>1 DEF SingleEntries
  <1>4. RoutesOf(v) = Ahead(ws, gone)
    BY <1>2 DEF RoutesOf, Ahead, RoutesIn
  <1>5. QED
    BY <1>2, <1>3, <1>4 DEF v

\* What precheck lets through: where the router can serve the stored endpoints
\* next to each other and ShadowsStay holds, it can serve them with the
\* candidates in which no new clash is found.
LEMMA NoNewClash ==
  ASSUME RouterSymmetric, Types, cache = eps, eps = pass.snap, ShadowsStay,
         Compatible(RoutesIn(eps, Names)),
         NEW ws \in SUBSET Wanted(pass.doc), NEW gone, RouterClashes(ws, gone) = {}
  PROVE  Compatible(Ahead(ws, gone))
  <1> DEFINE before == View(eps)
             after  == CheckedView(ws, gone)
  <1>1. /\ SingleEntries(before) /\ RoutesOf(before) = RoutesIn(eps, Names)
        /\ DOMAIN before = {n \in Names : Exists(eps[n])}
        /\ \A n \in DOMAIN before : before[n].route = RouteIn(eps, n)
    BY StoredView DEF Types, StoreTyped
  <1>2. ws \in SUBSET Names
    BY DEF Wanted
  <1>3. /\ SingleEntries(after) /\ RoutesOf(after) = Ahead(ws, gone)
        /\ DOMAIN after = ws \cup {n \in Names \ gone : Exists(eps[n])}
        /\ \A n \in ws : after[n].route = RouteWanted(pass.doc, n)
        /\ \A n \in DOMAIN after \ ws : after[n].route = RouteIn(eps, n)
    BY <1>2, PlannedView
  <1>4. NewClashes(before, after, ws) = {}
    <2>1. PICK b, a : b = View(cache) /\ a = CheckedView(ws, gone)
      OBVIOUS
    <2> DEFINE Hold(x, y) == {IF c.loser \in ws THEN c.loser ELSE c.winner :
                                c \in NewClashes(x, y, ws)}
    <2>2. RouterClashes(ws, gone) = UNION {Hold(x, y) : x \in {b}, y \in {a}}
      BY <2>1 DEF RouterClashes
    <2>3. Hold(b, a) # {} => NewClashes(b, a, ws) = {}
      <3> HIDE DEF Hold
      <3>1. Hold(b, a) \in {Hold(x, y) : x \in {b}, y \in {a}}
        OBVIOUS
      <3> QED
        BY <2>2, <3>1
    <2>4. Hold(b, a) = {} => NewClashes(b, a, ws) = {}
      OBVIOUS
    <2> QED
      BY <2>1, <2>3, <2>4 DEF before, after
  <1>5. \A c \in Shadows(before) : c.winner \in ws => RouteWanted(pass.doc, c.winner) = c.route
    BY DEF ShadowsStay
  <1> HIDE DEF before, after
  <1>6. Clashes(before) = {}
    BY <1>1, ClashFree
  <1>7. \A c \in Clashes(after) : c.loser \in ws \/ c.winner \in ws => c \in Shadows(before)
    BY <1>4, <1>6 DEF NewClashes
  <1> SUFFICES ASSUME NEW r \in RoutesOf(after), NEW s \in RoutesOf(after), r # s, <<r, s>> \in Clash
               PROVE  FALSE
    BY <1>3 DEF Compatible
  <1>8. PICK c \in Clashes(after) :
          /\ c.loser \in DOMAIN after /\ c.winner \in DOMAIN after
          /\ c.route = after[c.loser].route /\ after[c.loser].route # after[c.winner].route
          /\ <<after[c.loser].route, after[c.winner].route>> \in Clash
    BY <1>3, ClashIsSeen
  <1>9. CASE c.loser \notin ws /\ c.winner \notin ws
    <2>1. /\ c.loser \in DOMAIN before /\ after[c.loser].route = before[c.loser].route
          /\ c.winner \in DOMAIN before /\ after[c.winner].route = before[c.winner].route
      BY <1>1, <1>3, <1>8, <1>9
    <2> QED
      BY <1>1, <1>8, <2>1 DEF Compatible, RoutesOf
  <1>10. CASE c.loser \in ws \/ c.winner \in ws
    <2>1. c \in Shadows(before)
      BY <1>7, <1>10
    <2>2. PICK w \in DOMAIN before : before[w].route = c.route /\ before[w].source = c.winner
      BY <2>1 DEF Shadows
    <2>3. w = c.winner
      BY <1>1, <2>2 DEF SingleEntries
    <2>4. CASE c.winner \in ws
      BY <1>3, <1>5, <1>8, <2>1, <2>4
    <2>5. CASE c.winner \notin ws
      BY <1>1, <1>3, <1>8, <2>2, <2>3, <2>5
    <2> QED
      BY <2>4, <2>5
  <1> QED
    BY <1>9, <1>10

\* The pass meets the conditions of NoClashAdded so far.
Asked ==
  Undisturbed /\ RefusalsForeseen /\ ShadowsStay /\ Compatible(RoutesIn(pass.snap, Names))

ClashAtWrite == pass.at = "write" /\ Asked =>
  /\ \A n \in pass.writes : eps[n] = pass.snap[n] /\ <<n, pass.doc.want[n]>> \notin Enterprise
  /\ \/ Compatible(Ahead(pass.writes, {}))
     \/ /\ Deletes /\ pass.writes \cap pass.read.status.refused = {}
        /\ Compatible(Ahead(pass.writes, pass.stale))
ClashAtDelete == pass.at = "delete" /\ Asked => Compatible(RoutesIn(eps, Names \ pass.stale))
ClashAtRecord == pass.at = "record" /\ Asked => Compatible(RoutesIn(eps, Names))

\* What is stored goes together once what is left to do is done: with the stale
\* endpoints, or without them if this pass is sure to come to delete them.
ClashInv == ClashAtWrite /\ ClashAtDelete /\ ClashAtRecord

LEMMA FewerGoTogether ==
  ASSUME NEW R, Compatible(R), NEW Q \in SUBSET R
  PROVE  Compatible(Q)
  BY DEF Compatible

\* A step that leaves the document and the listed endpoints alone.
LEMMA SameQuestion ==
  ASSUME pass'.doc = pass.doc, pass'.snap = pass.snap
  PROVE  /\ ShadowsStay' => ShadowsStay
         /\ Compatible(RoutesIn(pass.snap, Names))' => Compatible(RoutesIn(pass.snap, Names))
  <1>1. View(pass.snap)' = View(pass.snap)
    BY DEF View, StoredEntry, RouteIn, Exists
  <1>2. Shadowed(View(pass.snap))' = Shadowed(View(pass.snap))
    BY <1>1 DEF Shadowed, ServedBefore
  <1>3. Shadows(View(pass.snap))' = Shadows(View(pass.snap))
    BY <1>1, <1>2 DEF Shadows
  <1>4. ShadowsStay' => ShadowsStay
    BY <1>3 DEF ShadowsStay, RouteWanted, Wanted
  <1>5. RoutesIn(pass.snap, Names)' = RoutesIn(pass.snap, Names)
    BY DEF RoutesIn, RouteIn, Exists
  <1> QED
    BY <1>4, <1>5 DEF Compatible

\* What is asked of a pass was asked of it before.
LEMMA AskedBefore ==
  ASSUME Asked', Undisturbed' => Undisturbed, pass'.doc = pass.doc, pass'.snap = pass.snap,
         pass'.read.status = pass.read.status, pass.refused \subseteq pass'.refused
  PROVE  Asked
  <1>1. RefusalsForeseen
    BY DEF Asked, RefusalsForeseen
  <1> QED
    BY <1>1, SameQuestion DEF Asked

\* precheck finds the gateway; without one it checks nothing.
GatewayKnown == pass.at = "check" => gateway # "missing"

\* What precheck does not hold can be written: its verdict is the one on the set
\* that is left, and the stale endpoints are left out of it only by a pass that
\* holds nothing and expects no refusal.
LEMMA CheckFindsClashes ==
  ASSUME RouterSymmetric, GatewayKnown, Types, QuietInv, Check
  PROVE  ClashAtWrite'
  <1>1. PICK holds \in {Precheck(pass.writes, pass.stale, Keeps)} :
          pass' = [pass EXCEPT !.at = "write", !.ages = [n \in Names |-> 0],
                               !.writes = @ \ holds, !.held = @ \cup holds,
                               !.refused = CEReported(pass.writes)]
    BY DEF Check
  <1>2. /\ pass'.at = "write" /\ pass'.doc = pass.doc /\ pass'.stale = pass.stale
        /\ pass'.snap = pass.snap /\ pass'.read = pass.read
        /\ pass'.raced = pass.raced /\ pass'.transient = pass.transient
        /\ pass'.writes = pass.writes \ holds /\ pass'.held = pass.held \cup holds
    BY <1>1 DEF Types, SoundPass, Pass
  <1>3. /\ eps' = eps /\ cache = eps /\ Listed
        /\ pass.writes \subseteq Wanted(pass.doc)
    BY StoreSame DEF Check, QuietInv, Current, Stages, AtCheck
  <1> SUFFICES ASSUME Asked'
               PROVE  /\ \A n \in pass'.writes : /\ eps'[n] = pass'.snap[n]
                                                 /\ <<n, pass'.doc.want[n]>> \notin Enterprise
                      /\ \/ Compatible(Ahead(pass.writes, {}))'
                         \/ /\ Deletes' /\ pass'.writes \cap pass'.read.status.refused = {}
                            /\ Compatible(Ahead(pass.writes, pass.stale))'
    BY DEF ClashAtWrite
  <1>4. Undisturbed /\ ShadowsStay /\ Compatible(RoutesIn(pass.snap, Names))
    BY <1>2, SameQuestion DEF Asked, Undisturbed
  <1>5. eps = pass.snap
    BY <1>3, <1>4 DEF Listed
  <1> DEFINE rest    == pass.writes \ CEHeld(pass.writes)
             gone    == IF Keeps \/ rest # pass.writes THEN {} ELSE pass.stale
             clashes == RouterClashes(rest, gone)
             judged  == Judged(rest \ clashes)
             kept    == Cleared((rest \ clashes) \ judged)
  <1>6. holds = IF clashes = {} /\ judged = {} THEN CEHeld(pass.writes)
                ELSE CEHeld(pass.writes) \cup (rest \ kept)
    BY <1>1 DEF Precheck, GatewayKnown, Check
  <1>7. CEHeld(pass.writes) \subseteq pass.writes /\ CEHeld(pass.writes) \subseteq holds
    BY <1>6 DEF CEHeld
  <1>8. \A n \in pass'.writes : eps'[n] = pass'.snap[n] /\ <<n, pass'.doc.want[n]>> \notin Enterprise
    BY <1>2, <1>3, <1>5, <1>7 DEF CEHeld
  <1>9. ASSUME NEW ws \in SUBSET pass.writes, NEW g, RouterClashes(ws, g) = {}
        PROVE  Compatible(Ahead(ws, g))
    BY <1>3, <1>4, <1>5, <1>9, NoNewClash
  <1>10. \A ws, g : Compatible(Ahead(ws, g)) =>
           Compatible({RouteWanted(pass'.doc, n) : n \in ws} \cup RoutesIn(eps', Names \ (g \cup ws)))
    BY <1>2, <1>3 DEF Ahead
  <1> HIDE DEF clashes, judged, kept
  <1>11. CASE clashes = {} /\ judged = {}
    <2>1. pass'.writes = rest /\ holds = CEHeld(pass.writes)
      BY <1>2, <1>6, <1>11
    <2>2. Compatible(Ahead(rest, gone))
      BY <1>9, <1>11 DEF clashes
    <2>3. CASE Keeps \/ rest # pass.writes
      <3>1. Compatible(Ahead(pass.writes, {}))'
        BY <1>10, <2>1, <2>2, <2>3 DEF Ahead
      <3> QED
        BY <1>8, <3>1
    <2>4. CASE ~ Keeps /\ rest = pass.writes
      <3>1. Compatible(Ahead(pass.writes, pass.stale))'
        BY <1>2, <1>10, <2>1, <2>2, <2>4 DEF Ahead
      <3>2. holds = {}
        BY <1>7, <2>1, <2>4
      <3>3. Deletes' /\ pass'.writes \cap pass'.read.status.refused = {}
        BY <1>2, <2>4, <3>2 DEF Keeps, Deletes, Failed, RecursRejection
      <3> QED
        BY <1>8, <3>1, <3>3
    <2> QED
      BY <2>3, <2>4
  <1>12. CASE ~ (clashes = {} /\ judged = {})
    <2>1. kept \subseteq rest /\ RouterClashes(kept, {}) = {}
      <3>1. pass.writes \in SUBSET Names
        BY DEF Types, SoundPass, Pass
      <3>2. IsFiniteSet((rest \ clashes) \ judged)
        BY <3>1, SyncAssumption, FS_Subset
      <3> QED
        BY <3>2, ClearedEnds DEF kept
    <2>2. pass'.writes = kept
      BY <1>2, <1>6, <1>7, <1>12, <2>1
    <2>3. Compatible(Ahead(kept, {}))
      BY <1>9, <2>1
    <2>4. Compatible(Ahead(pass.writes, {}))'
      BY <1>10, <2>2, <2>3 DEF Ahead
    <2> QED
      BY <1>8, <2>4
  <1> QED
    BY <1>11, <1>12

\* A write that is stored changes nothing of what will be there; one that is
\* refused, and could be foreseen, leaves out a route that was not there.
LEMMA WriteAddsNoClash ==
  ASSUME MaxLag = 0, Types, QuietInv, ClashInv, NEW n \in Names, Write(n)
  PROVE  ClashAtWrite'
  <1>1. /\ pass'.at = "write" /\ pass'.doc = pass.doc /\ pass'.stale = pass.stale
        /\ pass'.snap = pass.snap /\ pass'.read = pass.read
        /\ pass'.writes = pass.writes \ {n} /\ pass.refused \subseteq pass'.refused
        /\ eps' = eps \/ \E e : eps' = [eps EXCEPT ![n] = e]
        /\ Undisturbed' =>
             /\ Undisturbed
             /\ \/ n \in pass'.refused /\ eps' = eps
                \/ pass'.held = pass.held /\ eps'[n].ver = pass.doc.want[n]
    BY WriteOutcome
  <1>2. /\ pass.at = "write" /\ n \in pass.writes /\ n \in Wanted(pass.doc)
        /\ eps \in [Names -> Endpoint] /\ pass.writes \subseteq Names
    BY DEF Write, QuietInv, Stages, AtWrite, Types, StoreTyped, SoundPass, Pass
  <1>3. \A m \in Names \ {n} : eps'[m] = eps[m]
    BY <1>1, <1>2
  <1> SUFFICES ASSUME Asked'
               PROVE  /\ \A m \in pass'.writes : /\ eps'[m] = pass'.snap[m]
                                                 /\ <<m, pass'.doc.want[m]>> \notin Enterprise
                      /\ \/ Compatible(Ahead(pass.writes, {}))'
                         \/ /\ Deletes' /\ pass'.writes \cap pass'.read.status.refused = {}
                            /\ Compatible(Ahead(pass.writes, pass.stale))'
    BY DEF ClashAtWrite
  <1>4. Asked /\ Undisturbed /\ Undisturbed'
    BY <1>1, AskedBefore DEF Asked
  <1>5. /\ \A m \in pass.writes : eps[m] = pass.snap[m] /\ <<m, pass.doc.want[m]>> \notin Enterprise
        /\ \/ Compatible(Ahead(pass.writes, {}))
           \/ /\ Deletes /\ pass.writes \cap pass.read.status.refused = {}
              /\ Compatible(Ahead(pass.writes, pass.stale))
    BY <1>2, <1>4 DEF ClashInv, ClashAtWrite
  <1>6. \A m \in pass'.writes : eps'[m] = pass'.snap[m] /\ <<m, pass'.doc.want[m]>> \notin Enterprise
    BY <1>1, <1>2, <1>3, <1>5
  <1>7. CASE n \in pass'.refused /\ eps' = eps
    <2>1. n \in pass.read.status.refused /\ ~ Exists(pass.snap[n])
      BY <1>1, <1>2, <1>5, <1>7 DEF Asked, RefusalsForeseen
    <2>2. Compatible(Ahead(pass.writes, {})) /\ ~ Exists(eps[n])
      BY <1>2, <1>5, <2>1
    <2>3. Ahead(pass.writes, {})' \subseteq Ahead(pass.writes, {})
      BY <1>1, <1>7, <2>2 DEF Ahead, RoutesIn, RouteWanted, RouteIn
    <2>4. Compatible(Ahead(pass.writes, {}))'
      BY <2>2, <2>3 DEF Compatible
    <2> QED
      BY <1>6, <2>4
  <1>8. CASE pass'.held = pass.held /\ eps'[n].ver = pass.doc.want[n]
    <2>1. RouteIn(eps, n)' = RouteWanted(pass.doc, n)
      BY <1>8 DEF RouteIn, RouteWanted
    <2>2. \A m \in Names \ {n} : RouteIn(eps', m) = RouteIn(eps, m)
      BY <1>3 DEF RouteIn
    <2>3. ASSUME NEW gone
          PROVE  {RouteWanted(pass'.doc, m) : m \in pass'.writes}
                   \cup RoutesIn(eps', Names \ (gone \cup pass'.writes))
                 \subseteq Ahead(pass.writes, gone)
      <3>1. ASSUME NEW m \in pass'.writes
            PROVE  RouteWanted(pass'.doc, m) \in Ahead(pass.writes, gone)
        BY <1>1 DEF Ahead
      <3>2. ASSUME NEW m \in Names \ (gone \cup pass'.writes), Exists(eps'[m])
            PROVE  RouteIn(eps', m) \in Ahead(pass.writes, gone)
        <4>1. CASE m = n
          BY <1>2, <2>1, <4>1 DEF Ahead, RouteIn
        <4>2. CASE m # n
          <5>1. m \in Names \ (gone \cup pass.writes) /\ Exists(eps[m])
            BY <1>1, <1>3, <3>2, <4>2
          <5> QED
            BY <2>2, <4>2, <5>1 DEF Ahead, RoutesIn
        <4> QED
          BY <4>1, <4>2
      <3> QED
        BY <3>1, <3>2 DEF RoutesIn
    <2>4. /\ Compatible(Ahead(pass.writes, {})) => Compatible(Ahead(pass.writes, {}))'
          /\ Compatible(Ahead(pass.writes, pass.stale)) => Compatible(Ahead(pass.writes, pass.stale))'
      BY <1>1, <2>3 DEF Compatible, Ahead
    <2>5. Deletes => Deletes'
      BY <1>1, <1>4, <1>8 DEF Deletes, Failed, Undisturbed
    <2>6. pass'.writes \subseteq pass.writes /\ pass'.read = pass.read
      BY <1>1
    <2> QED
      BY <1>5, <1>6, <2>4, <2>5, <2>6
  <1> QED
    BY <1>1, <1>4, <1>7, <1>8

\* A pass that comes to delete is judged without the stale endpoints, one that
\* does not with them.
LEMMA WrittenAddsNoClash ==
  ASSUME Types, ClashInv, Written
  PROVE  ClashInv'
  <1>1. pass \in Pass /\ pass.at = "write" /\ pass.writes = {} /\ eps' = eps
    BY DEF Types, SoundPass, Written, store
  <1>2. /\ pass'.doc = pass.doc /\ pass'.snap = pass.snap /\ pass'.read = pass.read
        /\ pass'.refused = pass.refused
        /\ pass'.raced = pass.raced /\ pass'.transient = pass.transient
        /\ IF Deletes THEN pass'.at = "delete" /\ pass'.stale = pass.stale ELSE pass'.at = "record"
    BY <1>1 DEF Written, Pass
  <1> SUFFICES ASSUME Asked'
               PROVE  IF Deletes THEN Compatible(RoutesIn(eps', Names \ pass.stale))
                      ELSE Compatible(RoutesIn(eps', Names))
    BY <1>2 DEF ClashInv, ClashAtWrite, ClashAtDelete, ClashAtRecord
  <1>3. Asked
    BY <1>2, AskedBefore DEF Undisturbed
  <1>4. \/ Compatible(Ahead({}, {}))
        \/ Deletes /\ Compatible(Ahead({}, pass.stale))
    BY <1>1, <1>3 DEF ClashInv, ClashAtWrite
  <1>5. /\ Ahead({}, {}) = RoutesIn(eps', Names)
        /\ Ahead({}, pass.stale) = RoutesIn(eps', Names \ pass.stale)
        /\ RoutesIn(eps', Names \ pass.stale) \subseteq RoutesIn(eps', Names)
    BY <1>1 DEF Ahead, RoutesIn
  <1> QED
    BY <1>4, <1>5, FewerGoTogether

LEMMA DeleteAddsNoClash ==
  ASSUME MaxLag = 0, Types, Current, ClashInv, NEW n \in Names, Delete(n)
  PROVE  ClashInv'
  <1>1. /\ pass \in Pass /\ pass.at = "delete" /\ n \in pass.stale /\ eps \in [Names -> Endpoint]
    BY DEF Types, SoundPass, StoreTyped, Delete
  <1>2. /\ pass'.at = "delete" /\ pass'.doc = pass.doc /\ pass'.snap = pass.snap
        /\ pass'.read = pass.read /\ pass'.refused = pass.refused
        /\ pass'.stale = pass.stale \ {n}
        /\ Undisturbed' => Undisturbed
        /\ Undisturbed' => Store(n, NoEndpoint) \/ (~ Exists(eps[n]) /\ UNCHANGED store)
    BY <1>1 DEF Delete, Pass, Undisturbed
  <1> SUFFICES ASSUME Asked'
               PROVE  Compatible(RoutesIn(eps', Names \ pass'.stale))
    BY <1>2 DEF ClashInv, ClashAtWrite, ClashAtDelete, ClashAtRecord
  <1>3. Asked /\ Undisturbed'
    BY <1>2, AskedBefore DEF Asked
  <1>4. Compatible(RoutesIn(eps, Names \ pass.stale))
    BY <1>1, <1>3 DEF ClashInv, ClashAtDelete
  <1>5. ~ Exists(eps'[n]) /\ \A m \in Names \ {n} : eps'[m] = eps[m]
    BY <1>1, <1>2, <1>3, StoreCurrent, NoEndpointTyped DEF store
  <1>6. RoutesIn(eps', Names \ pass'.stale) \subseteq RoutesIn(eps, Names \ pass.stale)
    BY <1>2, <1>5 DEF RoutesIn, RouteIn
  <1> QED
    BY <1>4, <1>6, FewerGoTogether

LEMMA DeletedAddsNoClash ==
  ASSUME Types, ClashInv, Deleted
  PROVE  ClashInv'
  <1>1. pass \in Pass /\ pass.at = "delete" /\ pass.stale = {} /\ eps' = eps
    BY DEF Types, SoundPass, Deleted, store
  <1>2. /\ pass'.at = "record" /\ pass'.doc = pass.doc /\ pass'.snap = pass.snap
        /\ pass'.read = pass.read /\ pass'.refused = pass.refused
        /\ pass'.raced = pass.raced /\ pass'.transient = pass.transient
    BY <1>1 DEF Deleted, Pass
  <1> SUFFICES ASSUME Asked'
               PROVE  Compatible(RoutesIn(eps', Names))
    BY <1>2 DEF ClashInv, ClashAtWrite, ClashAtDelete, ClashAtRecord
  <1>3. Asked
    BY <1>2, AskedBefore DEF Undisturbed
  <1>4. Compatible(RoutesIn(eps, Names \ {}))
    BY <1>1, <1>3 DEF ClashInv, ClashAtDelete
  <1>5. RoutesIn(eps', Names) = RoutesIn(eps, Names \ {})
    BY <1>1 DEF RoutesIn
  <1> QED
    BY <1>4, <1>5

LEMMA SameClash ==
  ASSUME ClashInv, eps' = eps,
         pass'.at = pass.at, pass'.doc = pass.doc, pass'.snap = pass.snap,
         pass'.read.status = pass.read.status, pass'.refused = pass.refused,
         pass'.writes = pass.writes, pass'.stale = pass.stale, pass'.held = pass.held,
         pass'.raced = pass.raced, pass'.transient = pass.transient
  PROVE  ClashInv'
  <1>1. Asked' => Asked
    BY AskedBefore DEF Undisturbed
  <1>2. /\ Ahead(pass.writes, {})' = Ahead(pass.writes, {})
        /\ Ahead(pass.writes, pass.stale)' = Ahead(pass.writes, pass.stale)
    BY DEF Ahead
  <1>3. Deletes' = Deletes
    BY DEF Deletes, Failed
  <1>4. ClashAtWrite'
    BY <1>1, <1>2, <1>3 DEF ClashInv, ClashAtWrite, Compatible
  <1>5. ClashAtDelete'
    BY <1>1 DEF ClashInv, ClashAtDelete
  <1>6. ClashAtRecord'
    BY <1>1 DEF ClashInv, ClashAtRecord
  <1> QED
    BY <1>4, <1>5, <1>6 DEF ClashInv

LEMMA NoClashStage ==
  ASSUME pass'.at \in {"idle", "claim", "adopt", "plan", "check", "fail"}
  PROVE  ClashInv'
  BY DEF ClashInv, ClashAtWrite, ClashAtDelete, ClashAtRecord

LEMMA ClashNext ==
  ASSUME MaxLag = 0, RouterSymmetric
  PROVE  Types /\ QuietInv /\ GatewayKnown /\ ClashInv /\ [Next]_vars /\ [Quiet]_vars
         => ClashInv'
  <1> SUFFICES ASSUME Types, QuietInv, GatewayKnown, ClashInv, [Next]_vars, [Quiet]_vars
               PROVE  ClashInv'
    OBVIOUS
  <1>1. pass \in Pass /\ IdlePass \in Pass /\ IdlePass.at = "idle" /\ Current
    BY IdleTyped DEF Types, SoundPass, QuietInv
  <1>2. CASE Fetch \/ FetchFails \/ Claim \/ Adopted \/ Plan
    <2>1. pass'.at \in {"claim", "fail", "adopt", "plan", "check"}
      BY <1>1, <1>2 DEF Fetch, FetchFails, Claim, Adopted, Plan, Pass
    <2> QED
      BY <2>1, NoClashStage
  <1>3. CASE Check
    <2>1. pass'.at = "write"
      BY <1>1, <1>3 DEF Check, Pass
    <2> QED
      BY <1>3, <2>1, CheckFindsClashes DEF ClashInv, ClashAtDelete, ClashAtRecord
  <1>4. CASE Written
    BY <1>4, WrittenAddsNoClash
  <1>5. CASE Deleted
    BY <1>5, DeletedAddsNoClash
  <1>6. ASSUME NEW n \in Names, Adopt(n)
        PROVE  ClashInv'
    <2> DEFINE left    == [pass EXCEPT !.orphans = @ \ {n}]
               adopted == [pass.snap[n] EXCEPT !.owner = "autoconfig"]
               done    == [left EXCEPT !.controlled = @ \cup {n}, !.snap[n] = adopted]
    <2>1. \/ pass' = left
          \/ Update(n, pass.snap[n], adopted, left, done)
      BY <1>6 DEF Adopt
    <2>2. left \in Pass /\ left.at = "adopt"
      BY <1>1, <1>6 DEF Adopt, Pass
    <2> HIDE DEF left, adopted
    <2>3. done.at = "adopt"
      BY <2>2 DEF Pass
    <2> HIDE DEF done
    <2>4. pass'.at = "adopt"
      BY <2>1, <2>2, <2>3, UpdateEnds DEF Pass
    <2> QED
      BY <2>4, NoClashStage
  <1>7. ASSUME NEW n \in Names, Write(n)
        PROVE  ClashInv'
    <2>1. pass'.at = "write"
      BY <1>7, WriteOutcome
    <2> QED
      BY <1>7, <2>1, WriteAddsNoClash DEF ClashInv, ClashAtDelete, ClashAtRecord
  <1>8. ASSUME NEW n \in Names, Delete(n)
        PROVE  ClashInv'
    BY <1>1, <1>8, DeleteAddsNoClash
  <1>9. CASE RecordFailure \/ RecordSync \/ Crash
    BY <1>1, <1>9, NoClashStage DEF RecordFailure, RecordSync, Crash
  <1>10. CASE DeliverEndpoint \/ DeliverStatus \/ ChangeDocument \/ ChangeGateway \/ UNCHANGED vars
    <2>1. pass' = pass /\ eps' = eps
      BY <1>10 DEF DeliverEndpoint, DeliverStatus, ChangeDocument, ChangeGateway, vars, store
    <2> QED
      BY <2>1, SameClash
  <1>11. CASE Annotate
    <2>1. eps' = eps
      BY <1>11 DEF Annotate, store
    <2>2. /\ pass'.at = pass.at /\ pass'.doc = pass.doc /\ pass'.snap = pass.snap
          /\ pass'.read.status = pass.read.status /\ pass'.refused = pass.refused
          /\ pass'.writes = pass.writes /\ pass'.stale = pass.stale /\ pass'.held = pass.held
          /\ pass'.raced = pass.raced /\ pass'.transient = pass.transient
      BY <1>1, <1>11 DEF Annotate, Pass, Seen
    <2> QED
      BY <2>1, <2>2, SameClash
  <1>12. ASSUME NEW n \in Names, Meddle(n)
         PROVE  ClashInv'
    <2>1. /\ bounds.meddling \in Nat /\ bounds' = [bounds EXCEPT !.meddling = @ - 1]
          /\ bounds \in Bounds /\ pass' = pass
      BY <1>12, BoundsAreNumbers DEF Meddle, Types, Bounds
    <2>2. bounds'.meddling # bounds.meddling
      BY <2>1 DEF Bounds
    <2>3. pass'.at = "idle"
      BY <2>1, <2>2 DEF Quiet, vars
    <2> QED
      BY <2>3, NoClashStage
  <1> QED
    BY <1>2, <1>3, <1>4, <1>5, <1>6, <1>7, <1>8, <1>9, <1>10, <1>11, <1>12
    DEF Next, Step, Environment

\* No clash added: where the cache keeps up, others leave the endpoints alone
\* while a pass is under way, precheck finds the gateway and clashes have no
\* direction, a pass that starts from endpoints the router can serve next to each
\* other leaves such endpoints, for every set of endpoints and every document,
\* whatever it holds, writes, keeps and deletes (precheck, recursRejection).
THEOREM PassAddsNoClash ==
  MaxLag = 0 /\ RouterSymmetric =>
    (Spec /\ QuietPasses /\ []GatewayKnown => []NoClashAdded)
  <1> SUFFICES ASSUME MaxLag = 0, RouterSymmetric
               PROVE  Spec /\ QuietPasses /\ []GatewayKnown => []NoClashAdded
    OBVIOUS
  <1>1. Init => ClashInv
    BY IdleTyped DEF Init, ClashInv, ClashAtWrite, ClashAtDelete, ClashAtRecord
  <1>2. Types /\ QuietInv /\ GatewayKnown /\ ClashInv /\ [Next]_vars /\ [Quiet]_vars
        => ClashInv'
    BY ClashNext
  <1>3. Types /\ ClashInv => NoClashAdded
    <2> SUFFICES ASSUME Types, ClashInv, pass.at = "record", ~ pass.raced, ~ pass.transient,
                        RefusalsForeseen, Clashes(View(pass.snap)) = {}, ShadowsStay
                 PROVE  Clashes(View(eps)) = {}
      BY DEF NoClashAdded
    <2>1. eps \in [Names -> Endpoint] /\ pass.snap \in [Names -> Endpoint]
      BY DEF Types, StoreTyped, SoundPass, Pass
    <2>2. Compatible(RoutesIn(pass.snap, Names))
      BY <2>1, StoredView, ClashFree
    <2>3. Compatible(RoutesIn(eps, Names))
      BY <2>2 DEF ClashInv, ClashAtRecord, Asked, Undisturbed
    <2> QED
      BY <2>1, <2>3, StoredView, ClashFree
  <1>4. Spec /\ QuietPasses => []QuietInv
    BY QuietAlways
  <1> QED
    BY <1>1, <1>2, <1>3, <1>4, TypesAlways, PTL DEF Spec, QuietPasses
=============================================================================
