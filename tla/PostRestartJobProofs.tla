------------------------ MODULE PostRestartJobProofs ------------------------
(***************************************************************************)
(* Proofs about PostRestartJob, for every set of revisions and knobs,      *)
(* every bound and every choice of environment events.                     *)
(***************************************************************************)
EXTENDS PostRestartJob, TLAPS

-----------------------------------------------------------------------------
(* Types.                                                                  *)

LEMMA IdleTyped == IdlePass \in Pass /\ IdlePass.gw.last = NoRevision
  <1>1. (CHOOSE r \in Revisions : TRUE) \in Revisions
    BY JobAssumption
  <1> QED
    BY <1>1 DEF IdlePass, Pass, Gateway

LEMMA StoreGatewayTyped ==
  ASSUME TypeOK, NEW g \in Gateway, StoreGateway(g)
  PROVE  gw' \in Gateway /\ gwEvents' \in Seq(Gateway)
  BY DEF TypeOK, StoreGateway

LEMMA StoreJobTyped ==
  ASSUME TypeOK, NEW r \in Revisions, NEW j \in Job, StoreJob(r, j)
  PROVE  /\ jobs' \in [Revisions -> Job] /\ jobCache' \in [Revisions -> Job]
         /\ jobEvents' \in Seq(JobEvent)
         /\ queued' \in BOOLEAN
  <1>1. jobs' \in [Revisions -> Job] /\ [rev |-> r, job |-> j] \in JobEvent
    BY DEF TypeOK, StoreJob, JobEvent
  <1>2. CASE MaxLag = 0
    <2>1. jobCache' = jobs' /\ jobEvents' = jobEvents /\ queued' = TRUE
      BY <1>2 DEF StoreJob
    <2> QED
      BY <1>1, <2>1 DEF TypeOK
  <1>3. CASE MaxLag # 0
    <2>1. jobEvents' = Append(jobEvents, [rev |-> r, job |-> j]) /\ UNCHANGED <<jobCache, queued>>
      BY <1>3 DEF StoreJob
    <2> QED
      BY <1>1, <2>1 DEF TypeOK
  <1> QED
    BY <1>2, <1>3

LEMMA SpendTyped ==
  ASSUME TypeOK, MayFail, Spend
  PROVE  bounds' \in Bounds
  <1>1. bounds \in Bounds /\ bounds.faults \in 1..MaxFaults
    BY JobAssumption DEF TypeOK, MayFail, Bounds
  <1>2. bounds.faults - 1 \in 0..MaxFaults
    BY <1>1, JobAssumption
  <1> QED
    BY <1>1, <1>2 DEF Spend, Bounds

LEMMA NoJobTyped == NoJob \in Job
  BY JobAssumption DEF NoJob, Job

LEMMA BuildJobTyped ==
  ASSUME NEW g \in Gateway
  PROVE  BuildJob(g) \in Job
  BY JobAssumption DEF BuildJob, Job, Gateway

LEMMA EditTyped ==
  ASSUME TypeOK, NEW g \in Gateway, Edit(g)
  PROVE  TypeOK'
  <1>1. gw' \in Gateway /\ gwEvents' \in Seq(Gateway)
    <2>1. [g EXCEPT !.gen = @ + 1] \in Gateway
      BY DEF Gateway
    <2> QED
      BY <2>1, StoreGatewayTyped DEF Edit
  <1>2. bounds' \in Bounds
    <2>1. bounds \in Bounds /\ bounds.edits \in 1..MaxEdits
      BY JobAssumption DEF TypeOK, Edit, Bounds
    <2>2. bounds.edits - 1 \in 0..MaxEdits
      BY <2>1, JobAssumption
    <2> QED
      BY <2>1, <2>2 DEF Edit, Bounds
  <1>3. pass' \in Pass
    BY DEF TypeOK, Edit, Pass
  <1> QED
    BY <1>1, <1>2, <1>3 DEF TypeOK, Edit, store, history

LEMMA TypeInit == Init => TypeOK
  <1> SUFFICES ASSUME Init PROVE TypeOK
    OBVIOUS
  <1>1. PICK r \in Revisions, k \in Knobs \cup {Unset} :
          gw = [rev |-> r, knob |-> k, enabled |-> TRUE, last |-> NoRevision, gen |-> 0]
    BY DEF Init
  <1>2. gw \in Gateway
    BY <1>1 DEF Gateway
  <1>3. bounds \in Bounds
    BY JobAssumption DEF Init, Bounds
  <1> QED
    BY <1>2, <1>3, IdleTyped, NoJobTyped DEF Init, TypeOK

LEMMA TypeNext == TypeOK /\ [Next]_vars => TypeOK'
  <1> SUFFICES ASSUME TypeOK, [Next]_vars PROVE TypeOK'
    OBVIOUS
  <1>t. /\ pass \in Pass /\ pass.gw \in Gateway /\ pass.gw.rev \in Revisions
        /\ jobs \in [Revisions -> Job] /\ queued \in BOOLEAN
    BY DEF TypeOK, Pass, Gateway
  <1>1. CASE Read
    BY <1>1, IdleTyped DEF Read, TypeOK, Pass, store, history
  <1>2. CASE Skip
    BY <1>2 DEF Skip, TypeOK, Pass, store, history
  <1>3. CASE LookFailed
    BY <1>3, SpendTyped DEF LookFailed, TypeOK, Pass, store, history
  <1>4. CASE Adopt
    BY <1>4 DEF Adopt, TypeOK, Pass, Gateway, store, history
  <1>5. CASE StartRun
    BY <1>5 DEF StartRun, TypeOK, Pass, store, history
  <1>6. CASE StartRedo
    BY <1>6 DEF StartRedo, TypeOK, Pass, Gateway, store, history
  <1>7. CASE Clear
    <2>1. pass' \in Pass
      BY <1>7 DEF Clear, TypeOK, Pass
    <2>2. gw' \in Gateway /\ gwEvents' \in Seq(Gateway)
      BY <1>7, <1>t, StoreGatewayTyped DEF Clear, TypeOK
    <2>3. bounds' \in Bounds
      BY <1>7, SpendTyped DEF Clear, TypeOK
    <2> QED
      BY <1>7, <2>1, <2>2, <2>3 DEF Clear, TypeOK, store, history
  <1>8. CASE Delete
    <2>1. pass' \in Pass
      BY <1>8 DEF Delete, TypeOK, Pass
    <2>2. /\ jobs' \in [Revisions -> Job] /\ jobCache' \in [Revisions -> Job]
          /\ jobEvents' \in Seq(JobEvent) /\ queued' \in BOOLEAN
      <3>1. [jobs[pass.gw.rev] EXCEPT !.going = TRUE] \in Job
        BY <1>t DEF Job
      <3> QED
        BY <1>8, <1>t, <3>1, NoJobTyped, StoreJobTyped DEF Delete, TypeOK, store
    <2>3. bounds' \in Bounds
      BY <1>8, SpendTyped DEF Delete, TypeOK
    <2>4. owed' \in SUBSET Revisions
      BY <1>8, <1>t DEF Delete, TypeOK
    <2> QED
      BY <1>8, <2>1, <2>2, <2>3, <2>4 DEF Delete, TypeOK
  <1>9. CASE Create
    <2>1. pass' \in Pass
      <3>1. [pass.gw EXCEPT !.last = pass.gw.rev] \in Gateway
        BY <1>t DEF Gateway
      <3>2. CASE pass' = [pass EXCEPT !.at = "finish", !.gw.last = pass.gw.rev]
        BY <1>t, <3>1, <3>2 DEF Pass
      <3>3. CASE pass' = [pass EXCEPT !.at = "finish", !.redo = FALSE, !.failed = TRUE]
        BY <1>t, <3>3 DEF Pass
      <3> QED
        BY <1>9, <3>2, <3>3 DEF Create
    <2>2. /\ jobs' \in [Revisions -> Job] /\ jobCache' \in [Revisions -> Job]
          /\ jobEvents' \in Seq(JobEvent) /\ queued' \in BOOLEAN
      <3>1. BuildJob(pass.gw) \in Job /\ StoreJob(pass.gw.rev, BuildJob(pass.gw))
        BY <1>9, <1>t, BuildJobTyped DEF Create
      <3> QED
        BY <1>t, <3>1, StoreJobTyped
    <2>3. bounds' \in Bounds
      BY <1>9, SpendTyped DEF Create, TypeOK
    <2>4. ran' \in [Revisions -> Nat] /\ owed' \in SUBSET Revisions
      BY <1>9, <1>t DEF Create, TypeOK
    <2> QED
      BY <1>9, <2>1, <2>2, <2>3, <2>4 DEF Create, TypeOK
  <1>10. CASE CreateFailed
    <2>1. bounds' \in Bounds
      BY <1>10, SpendTyped DEF CreateFailed, TypeOK
    <2> QED
      BY <1>10, <2>1 DEF CreateFailed, TypeOK, Pass, store, history
  <1>11. CASE Finish
    <2>1. pass' \in Pass /\ queued' \in BOOLEAN
      BY <1>11, <1>t, IdleTyped DEF Finish, EndPass, Pass
    <2>2. gw' \in Gateway /\ gwEvents' \in Seq(Gateway)
      BY <1>11, <1>t, StoreGatewayTyped DEF Finish, TypeOK
    <2>3. bounds' \in Bounds
      BY <1>11, SpendTyped DEF Finish, TypeOK
    <2> QED
      BY <1>11, <2>1, <2>2, <2>3 DEF Finish, TypeOK, store, history
  <1>12. CASE Crash
    BY <1>12, IdleTyped, SpendTyped DEF Crash, TypeOK, history
  <1>13. CASE DeliverGateway
    <2>1. gwCache' \in Gateway /\ gwEvents' \in Seq(Gateway)
      BY <1>13 DEF DeliverGateway, TypeOK
    <2> QED
      BY <1>13, <2>1 DEF DeliverGateway, TypeOK, store, history
  <1>14. CASE DeliverJob
    <2>1. Head(jobEvents) \in JobEvent
          /\ jobEvents' \in Seq(JobEvent)
      BY <1>14 DEF DeliverJob, TypeOK
    <2>2. jobCache' \in [Revisions -> Job]
      BY <1>14, <2>1 DEF DeliverJob, TypeOK, JobEvent
    <2> QED
      BY <1>14, <2>1, <2>2 DEF DeliverJob, TypeOK, history
  <1>15. ASSUME NEW r \in Revisions, ChangeRevision(r) PROVE TypeOK'
    <2>1. [gw EXCEPT !.rev = r] \in Gateway
      BY DEF TypeOK, Gateway
    <2> QED
      BY <1>15, <2>1, EditTyped DEF ChangeRevision
  <1>16. ASSUME NEW k \in Knobs \cup {Unset}, ChangeKnob(k) PROVE TypeOK'
    <2>1. [gw EXCEPT !.knob = k] \in Gateway
      BY DEF TypeOK, Gateway
    <2> QED
      BY <1>16, <2>1, EditTyped DEF ChangeKnob
  <1>17. CASE Toggle
    <2>1. [gw EXCEPT !.enabled = ~@] \in Gateway
      BY DEF TypeOK, Gateway
    <2> QED
      BY <1>17, <2>1, EditTyped DEF Toggle
  <1>18. CASE RollOut
    <2>1. gw.rev \in Revisions
      BY DEF TypeOK, Gateway
    <2>2. rolledOut' \in {ConfigOf(r) : r \in Revisions} \cup {NoConfig}
      BY <1>18, <2>1 DEF RollOut
    <2> QED
      BY <1>18, <2>2 DEF RollOut, TypeOK, store, history
  <1>19. CASE Unroll
    <2>1. bounds \in Bounds /\ bounds.edits \in 1..MaxEdits
      BY <1>19, JobAssumption DEF TypeOK, Unroll, Bounds
    <2>2. bounds.edits - 1 \in 0..MaxEdits
      BY <2>1, JobAssumption
    <2>3. bounds' \in Bounds
      BY <1>19, <2>1, <2>2 DEF Unroll, Bounds
    <2> QED
      BY <1>19, <2>3 DEF Unroll, TypeOK, store, history
  <1>20. ASSUME NEW r \in Revisions, JobRemoved(r) PROVE TypeOK'
    <2>1. /\ jobs' \in [Revisions -> Job] /\ jobCache' \in [Revisions -> Job]
          /\ jobEvents' \in Seq(JobEvent) /\ queued' \in BOOLEAN
      BY <1>20, NoJobTyped, StoreJobTyped DEF JobRemoved
    <2>2. bounds' \in Bounds
      <3>1. bounds \in Bounds
        BY DEF TypeOK
      <3>2. CASE UNCHANGED bounds
        BY <3>1, <3>2
      <3>3. CASE /\ bounds.removals > 0
                 /\ bounds' = [bounds EXCEPT !.removals = @ - 1]
        <4>1. bounds.removals - 1 \in 0..MaxRemovals
          BY <3>1, <3>3, JobAssumption DEF Bounds
        <4> QED
          BY <3>1, <3>3, <4>1 DEF Bounds
      <3> QED
        BY <1>20, <3>2, <3>3 DEF JobRemoved
    <2> QED
      BY <1>20, <2>1, <2>2 DEF JobRemoved, TypeOK, history
  <1>21. ASSUME NEW r \in Revisions, NEW s \in {"succeeded", "failed"}, JobEnds(r, s)
         PROVE  TypeOK'
    <2>1. [jobs[r] EXCEPT !.state = s] \in Job
      BY <1>t DEF Job
    <2>2. /\ jobs' \in [Revisions -> Job] /\ jobCache' \in [Revisions -> Job]
          /\ jobEvents' \in Seq(JobEvent) /\ queued' \in BOOLEAN
      BY <1>21, <2>1, StoreJobTyped DEF JobEnds
    <2> QED
      BY <1>21, <2>2 DEF JobEnds, TypeOK, history
  <1>22. CASE UNCHANGED vars
    BY <1>22 DEF vars, TypeOK, store, history
  <1> QED
    BY <1>1, <1>2, <1>3, <1>4, <1>5, <1>6, <1>7, <1>8, <1>9, <1>10, <1>11, <1>12, <1>13,
       <1>14, <1>15, <1>16, <1>17, <1>18, <1>19, <1>20, <1>21, <1>22
    DEF Next, PassStep, EnvStep

\* Every reachable state is well typed: in particular a Job the operator
\* builds has a value for every knob, the default where the spec sets none.
THEOREM JobTypeCorrect == Spec => []TypeOK
  BY TypeInit, TypeNext, PTL DEF Spec

-----------------------------------------------------------------------------
(* No revision is recorded without a run.  Every copy of the record that a *)
(* later step may store, and every Job that a later pass may adopt, belongs *)
(* to a revision whose Job was started.                                    *)

Started(r) == r = NoRevision \/ ran[r] > 0

RecordInv ==
  /\ Started(gw.last) /\ Started(gwCache.last) /\ Started(pass.gw.last)
  /\ \A i \in 1..Len(gwEvents) : Started(gwEvents[i].last)

JobInv ==
  /\ \A r \in Revisions : Exists(jobs[r]) \/ Exists(jobCache[r]) => ran[r] > 0
  /\ \A i \in 1..Len(jobEvents) : Exists(jobEvents[i].job) => ran[jobEvents[i].rev] > 0

RunInv == TypeOK /\ RecordInv /\ JobInv

\* Nothing but Create changes the history, and it only adds to it.
LEMMA RanGrows ==
  ASSUME TypeOK, NEW r \in Revisions, ran' = [ran EXCEPT ![r] = @ + 1]
  PROVE  /\ ran'[r] > 0
         /\ \A q \in Revisions : ran[q] > 0 => ran'[q] > 0
  BY DEF TypeOK

\* A version of the gateway with a record that ran may be stored.
LEMMA StoreGatewayRecord ==
  ASSUME TypeOK, RecordInv, UNCHANGED ran, NEW g \in Gateway, Started(g.last), StoreGateway(g)
  PROVE  /\ Started(gw.last)'
         /\ \A i \in 1..Len(gwEvents') : Started(gwEvents[i].last)'
  <1>1. gwEvents \in Seq(Gateway) /\ gwEvents' = Append(gwEvents, g) /\ gw' = g
    BY DEF TypeOK, StoreGateway
  <1>2. ASSUME NEW i \in 1..Len(gwEvents') PROVE Started(gwEvents'[i].last)
    <2>1. i \in 1..Len(gwEvents) => gwEvents'[i] = gwEvents[i]
      BY <1>1
    <2>2. i \notin 1..Len(gwEvents) => gwEvents'[i] = g
      BY <1>1
    <2> QED
      BY <2>1, <2>2 DEF RecordInv
  <1> QED
    BY <1>1, <1>2 DEF Started

\* A Job may be stored when it is gone or its revision ran.
LEMMA StoreJobRuns ==
  ASSUME TypeOK, JobInv, NEW r \in Revisions, NEW j \in Job, StoreJob(r, j),
         ran' \in [Revisions -> Nat], Exists(j) => ran'[r] > 0,
         \A q \in Revisions : ran[q] > 0 => ran'[q] > 0
  PROVE  JobInv'
  <1>1. /\ jobs \in [Revisions -> Job] /\ jobCache \in [Revisions -> Job]
        /\ jobEvents \in Seq(JobEvent) /\ jobs' = [jobs EXCEPT ![r] = j]
    BY DEF TypeOK, StoreJob
  <1>2. \A q \in Revisions : Exists(jobs'[q]) => ran'[q] > 0
    BY <1>1 DEF JobInv
  <1>3. \A i \in 1..Len(jobEvents) : /\ jobEvents[i].rev \in Revisions
                                     /\ Exists(jobEvents[i].job) => ran'[jobEvents[i].rev] > 0
    <2>1. \A i \in 1..Len(jobEvents) : jobEvents[i] \in JobEvent
      BY <1>1
    <2>2. \A i \in 1..Len(jobEvents) : jobEvents[i].rev \in Revisions
      BY <2>1 DEF JobEvent
    <2> QED
      BY <2>2 DEF JobInv
  <1>4. CASE MaxLag = 0
    <2>1. jobCache' = jobs' /\ jobEvents' = jobEvents
      BY <1>4 DEF StoreJob
    <2> QED
      BY <1>2, <1>3, <2>1 DEF JobInv, Exists
  <1>5. CASE MaxLag # 0
    <2>1. jobEvents' = Append(jobEvents, [rev |-> r, job |-> j]) /\ jobCache' = jobCache
      BY <1>5 DEF StoreJob
    <2>2. ASSUME NEW i \in 1..Len(jobEvents')
          PROVE  Exists(jobEvents'[i].job) => ran'[jobEvents'[i].rev] > 0
      <3>1. i \in 1..Len(jobEvents) => jobEvents'[i] = jobEvents[i]
        BY <1>1, <2>1
      <3>2. i \notin 1..Len(jobEvents) => jobEvents'[i] = [rev |-> r, job |-> j]
        BY <1>1, <2>1
      <3> QED
        BY <1>3, <3>1, <3>2
    <2>3. \A q \in Revisions : Exists(jobCache'[q]) => ran'[q] > 0
      BY <2>1 DEF JobInv
    <2> QED
      BY <1>2, <2>2, <2>3 DEF JobInv, Exists
  <1> QED
    BY <1>4, <1>5

LEMMA RunInit == Init => RunInv
  <1> SUFFICES ASSUME Init PROVE RunInv
    OBVIOUS
  <1>1. TypeOK
    BY TypeInit
  <1>2. RecordInv
    BY IdleTyped DEF Init, RecordInv, Started
  <1>3. JobInv
    BY DEF Init, JobInv, Exists, NoJob
  <1> QED
    BY <1>1, <1>2, <1>3 DEF RunInv

\* An edit of the gateway keeps the record it finds.
LEMMA EditRuns ==
  ASSUME RunInv, NEW g \in Gateway, g.last = gw.last, Edit(g)
  PROVE  RecordInv' /\ JobInv'
  <1> DEFINE h == [g EXCEPT !.gen = @ + 1]
  <1>1. /\ TypeOK /\ RecordInv /\ JobInv /\ UNCHANGED ran
        /\ h \in Gateway /\ StoreGateway(h) /\ Started(h.last)
    BY DEF RunInv, RecordInv, Edit, Gateway, history
  <1> HIDE DEF h
  <1>2. Started(gw.last)' /\ \A i \in 1..Len(gwEvents') : Started(gwEvents[i].last)'
    BY <1>1, StoreGatewayRecord
  <1>3. pass'.gw = pass.gw /\ gwCache' = gwCache /\ UNCHANGED store
    BY DEF Edit, RunInv, TypeOK, Pass
  <1> QED
    BY <1>1, <1>2, <1>3 DEF RecordInv, JobInv, Started, store

LEMMA RunNext == RunInv /\ [Next]_vars => RunInv'
  <1> SUFFICES ASSUME RunInv, [Next]_vars PROVE RunInv'
    OBVIOUS
  <1>u. TypeOK'
    BY TypeNext DEF RunInv
  <1>t. /\ TypeOK /\ RecordInv /\ JobInv
        /\ pass \in Pass /\ pass.gw \in Gateway /\ pass.gw.rev \in Revisions
        /\ jobs[pass.gw.rev] \in Job
    BY DEF RunInv, TypeOK, Pass, Gateway
  <1>r. ran' \in [Revisions -> Nat]
    BY <1>u DEF TypeOK
  <1>i. IdlePass.gw.last = NoRevision
    BY IdleTyped
  <1> SUFFICES RecordInv' /\ JobInv'
    BY <1>u DEF RunInv
  <1>1. CASE Read
    <2>1. pass'.gw = gwCache
      BY <1>1, <1>t, IdleTyped DEF Read, Pass
    <2> QED
      BY <1>1, <1>t, <2>1 DEF Read, RecordInv, JobInv, Started, store, history
  <1>2. CASE Skip
    BY <1>2, <1>t DEF Skip, RecordInv, JobInv, Started, Pass, store, history
  <1>3. CASE LookFailed
    BY <1>3, <1>t DEF LookFailed, RecordInv, JobInv, Started, Pass, store, history
  <1>4. CASE Adopt
    \* The adopted Job was started.
    <2>1. pass'.gw.last = pass.gw.rev /\ ran[pass.gw.rev] > 0
      BY <1>4, <1>t DEF Adopt, JobInv, Pass, Gateway
    <2> QED
      BY <1>4, <1>t, <2>1 DEF Adopt, RecordInv, JobInv, Started, store, history
  <1>5. CASE StartRun
    BY <1>5, <1>t DEF StartRun, RecordInv, JobInv, Started, Pass, store, history
  <1>6. CASE StartRedo
    <2>1. pass'.gw.last = NoRevision
      BY <1>6, <1>t DEF StartRedo, Pass, Gateway
    <2> QED
      BY <1>6, <1>t, <2>1 DEF StartRedo, RecordInv, JobInv, Started, store, history
  <1>7. CASE Clear
    <2>1. pass'.gw = pass.gw /\ UNCHANGED <<gwCache, store, ran>>
      BY <1>7, <1>t DEF Clear, Pass, history
    <2>2. StoreGateway(pass.gw) \/ UNCHANGED <<gw, gwEvents>>
      BY <1>7 DEF Clear
    <2>3. Started(gw.last)' /\ \A i \in 1..Len(gwEvents') : Started(gwEvents[i].last)'
      BY <1>t, <2>1, <2>2, StoreGatewayRecord DEF RecordInv, Started
    <2> QED
      BY <1>t, <2>1, <2>3 DEF RecordInv, JobInv, Started, store
  <1>8. CASE Delete
    <2>1. pass'.gw = pass.gw /\ UNCHANGED <<gw, gwCache, gwEvents, ran>>
      BY <1>8, <1>t DEF Delete, Pass
    <2>2. RecordInv'
      BY <1>t, <2>1 DEF RecordInv, Started
    <2>3. CASE UNCHANGED store
      BY <1>t, <2>1, <2>2, <2>3 DEF JobInv, Exists, store
    <2>4. CASE StoreJob(pass.gw.rev, NoJob)
      <3>1. ~Exists(NoJob)
        BY DEF Exists, NoJob
      <3>2. JobInv'
        BY <1>t, <1>r, <2>1, <2>4, <3>1, NoJobTyped, StoreJobRuns
      <3> QED
        BY <2>2, <3>2
    <2>5. CASE /\ Exists(jobs[pass.gw.rev])
               /\ StoreJob(pass.gw.rev, [jobs[pass.gw.rev] EXCEPT !.going = TRUE])
      <3>1. [jobs[pass.gw.rev] EXCEPT !.going = TRUE] \in Job
        BY <1>t DEF Job
      <3>2. ran[pass.gw.rev] > 0
        BY <1>t, <2>5 DEF JobInv
      <3>3. JobInv'
        BY <1>t, <1>r, <2>1, <2>5, <3>1, <3>2, StoreJobRuns
      <3> QED
        BY <2>2, <3>3
    <2> QED
      BY <1>8, <2>2, <2>3, <2>4, <2>5 DEF Delete, store
  <1>9. CASE Create
    <2>1. ran' = [ran EXCEPT ![pass.gw.rev] = @ + 1] /\ ran' \in [Revisions -> Nat]
          /\ UNCHANGED <<gw, gwCache, gwEvents>>
      BY <1>9, <1>t DEF Create, TypeOK
    <2>2. ran'[pass.gw.rev] > 0 /\ \A q \in Revisions : ran[q] > 0 => ran'[q] > 0
      BY <1>t, <2>1, RanGrows
    <2>3. JobInv'
      <3>1. BuildJob(pass.gw) \in Job /\ StoreJob(pass.gw.rev, BuildJob(pass.gw))
        BY <1>9, <1>t, BuildJobTyped DEF Create
      <3> QED
        BY <1>t, <2>1, <2>2, <3>1, StoreJobRuns
    <2>4. pass'.gw.last \in {pass.gw.last, pass.gw.rev}
      <3>1. CASE pass' = [pass EXCEPT !.at = "finish", !.gw.last = pass.gw.rev]
        BY <1>t, <3>1 DEF Pass, Gateway
      <3>2. CASE pass' = [pass EXCEPT !.at = "finish", !.redo = FALSE, !.failed = TRUE]
        BY <1>t, <3>2 DEF Pass
      <3> QED
        BY <1>9, <3>1, <3>2 DEF Create
    <2>5. /\ gw.last \in Revisions \cup {NoRevision} /\ gwCache.last \in Revisions \cup {NoRevision}
          /\ pass.gw.last \in Revisions \cup {NoRevision}
          /\ \A i \in 1..Len(gwEvents) : gwEvents[i].last \in Revisions \cup {NoRevision}
      <3>1. \A g \in Gateway : g.last \in Revisions \cup {NoRevision}
        BY DEF Gateway
      <3>2. \A i \in 1..Len(gwEvents) : gwEvents[i] \in Gateway
        BY <1>t DEF TypeOK
      <3> QED
        BY <1>t, <3>1, <3>2 DEF TypeOK
    <2> QED
      BY <1>t, <2>1, <2>2, <2>3, <2>4, <2>5 DEF RecordInv, Started
  <1>10. CASE CreateFailed
    BY <1>10, <1>t DEF CreateFailed, RecordInv, JobInv, Started, Pass, store, history
  <1>11. CASE Finish
    <2>1. pass' = IdlePass /\ UNCHANGED <<gwCache, store, ran>>
      BY <1>11 DEF Finish, EndPass, history
    <2>2. StoreGateway(pass.gw) \/ UNCHANGED <<gw, gwEvents>>
      BY <1>11 DEF Finish
    <2>3. Started(gw.last)' /\ \A i \in 1..Len(gwEvents') : Started(gwEvents[i].last)'
      BY <1>t, <2>1, <2>2, StoreGatewayRecord DEF RecordInv, Started
    <2> QED
      BY <1>t, <1>i, <2>1, <2>3 DEF RecordInv, JobInv, Started, store
  <1>12. CASE Crash
    BY <1>12, <1>t, <1>i DEF Crash, RecordInv, JobInv, Started, history
  <1>13. CASE DeliverGateway
    <2>1. gwEvents \in Seq(Gateway) /\ gwEvents # <<>> /\ gwCache' = gwEvents[1]
          /\ gwEvents' = Tail(gwEvents)
      BY <1>13, <1>t DEF DeliverGateway, TypeOK
    <2>2. 1 \in 1..Len(gwEvents) /\ Len(gwEvents') = Len(gwEvents) - 1
          /\ \A i \in 1..Len(gwEvents') : i + 1 \in 1..Len(gwEvents) /\ gwEvents'[i] = gwEvents[i + 1]
      BY <2>1
    <2> QED
      BY <1>13, <1>t, <2>1, <2>2 DEF DeliverGateway, RecordInv, JobInv, Started, store, history
  <1>14. CASE DeliverJob
    <2>1. jobEvents \in Seq(JobEvent) /\ jobEvents # <<>> /\ jobEvents' = Tail(jobEvents)
          /\ jobCache' = [jobCache EXCEPT ![jobEvents[1].rev] = jobEvents[1].job]
          /\ UNCHANGED <<gw, gwCache, gwEvents, jobs, pass, ran>>
      <3>1. jobEvents \in Seq(JobEvent)
        BY <1>t DEF TypeOK
      <3>2. jobEvents # <<>> /\ Head(jobEvents) = jobEvents[1]
        BY <1>14, <3>1 DEF DeliverJob
      <3> QED
        BY <1>14, <3>1, <3>2 DEF DeliverJob, history
    <2>2. 1 \in 1..Len(jobEvents) /\ Len(jobEvents') = Len(jobEvents) - 1
          /\ \A i \in 1..Len(jobEvents') : i + 1 \in 1..Len(jobEvents) /\ jobEvents'[i] = jobEvents[i + 1]
      BY <2>1
    <2>3. \A i \in 1..Len(jobEvents') : Exists(jobEvents'[i].job) => ran[jobEvents'[i].rev] > 0
      BY <1>t, <2>2 DEF JobInv
    <2>4. \A r \in Revisions : Exists(jobs[r]) \/ Exists(jobCache'[r]) => ran[r] > 0
      BY <1>t, <2>1, <2>2 DEF JobInv, TypeOK
    <2> QED
      BY <1>t, <2>1, <2>3, <2>4 DEF RecordInv, JobInv, Started, Exists
  <1>15. ASSUME NEW r \in Revisions, ChangeRevision(r) PROVE RecordInv' /\ JobInv'
    <2>1. [gw EXCEPT !.rev = r] \in Gateway /\ [gw EXCEPT !.rev = r].last = gw.last
      BY <1>t DEF TypeOK, Gateway
    <2> QED
      BY <1>15, <2>1, EditRuns DEF ChangeRevision
  <1>16. ASSUME NEW k \in Knobs \cup {Unset}, ChangeKnob(k) PROVE RecordInv' /\ JobInv'
    <2>1. [gw EXCEPT !.knob = k] \in Gateway /\ [gw EXCEPT !.knob = k].last = gw.last
      BY <1>t DEF TypeOK, Gateway
    <2> QED
      BY <1>16, <2>1, EditRuns DEF ChangeKnob
  <1>17. CASE Toggle
    <2>1. [gw EXCEPT !.enabled = ~@] \in Gateway /\ [gw EXCEPT !.enabled = ~@].last = gw.last
      BY <1>t DEF TypeOK, Gateway
    <2> QED
      BY <1>17, <2>1, EditRuns DEF Toggle
  <1>18. CASE RollOut \/ Unroll
    BY <1>18, <1>t DEF RollOut, Unroll, RecordInv, JobInv, Started, store, history
  <1>20. ASSUME NEW r \in Revisions, JobRemoved(r) PROVE RecordInv' /\ JobInv'
    <2>1. ~Exists(NoJob) /\ ran' \in [Revisions -> Nat] /\ UNCHANGED ran /\ StoreJob(r, NoJob)
      BY <1>20, <1>t DEF Exists, NoJob, TypeOK, JobRemoved, history
    <2>2. JobInv'
      BY <1>t, <2>1, NoJobTyped, StoreJobRuns
    <2> QED
      BY <1>20, <1>t, <2>2 DEF JobRemoved, RecordInv, Started, history
  <1>21. ASSUME NEW r \in Revisions, NEW s \in {"succeeded", "failed"}, JobEnds(r, s)
         PROVE  RecordInv' /\ JobInv'
    <2>1. /\ [jobs[r] EXCEPT !.state = s] \in Job /\ ran' \in [Revisions -> Nat] /\ UNCHANGED ran
          /\ StoreJob(r, [jobs[r] EXCEPT !.state = s])
      BY <1>21, <1>t DEF TypeOK, Job, JobEnds, history
    <2>2. ran[r] > 0
      BY <1>21, <1>t DEF JobEnds, JobInv, Exists
    <2>3. JobInv'
      BY <1>t, <2>1, <2>2, StoreJobRuns
    <2> QED
      BY <1>21, <1>t, <2>3 DEF JobEnds, RecordInv, Started, history
  <1>22. CASE UNCHANGED vars
    BY <1>22, <1>t DEF vars, RecordInv, JobInv, Started, store, history
  <1> QED
    BY <1>1, <1>2, <1>3, <1>4, <1>5, <1>6, <1>7, <1>8, <1>9, <1>10, <1>11, <1>12, <1>13,
       <1>14, <1>15, <1>16, <1>17, <1>18, <1>20, <1>21, <1>22
    DEF Next, PassStep, EnvStep

\* A revision the status names as run had a Job started for it, whatever was
\* lost, stale or interrupted: reconcilePostRestartJob never skips a script
\* that did not start.
THEOREM RecordMeansRun == Spec => []RecordedRan
  <1>1. RunInv => RecordedRan
    BY DEF RunInv, RecordInv, Started, RecordedRan
  <1> QED
    BY <1>1, RunInit, RunNext, PTL DEF Spec

-----------------------------------------------------------------------------
(* Only failed Jobs are deleted, as long as the cache of the Jobs is at    *)
(* most one event behind: what it shows as failed has then failed, or is   *)
(* gone.  Two events behind, it may still show the failed Job while its    *)
(* replacement runs, and a pass deletes by name.                           *)

\* The Job of revision r is gone, or failed with one of the knobs in K.
Over(r, K) == \/ jobs[r].state = "absent"
              \/ jobs[r].state = "failed" /\ jobs[r].knob \in K

\* What the store may make of a Job that failed.
StaysOver(old, new) ==
  old.state = "failed" =>
    new.state = "absent" \/ (new.state = "failed" /\ new.knob = old.knob)

\* The cache lacks at most one event.
CacheInv ==
  /\ Len(jobEvents) <= MaxLag
  /\ jobEvents = <<>> => jobCache = jobs
  /\ jobEvents # <<>> =>
       jobs = [jobCache EXCEPT ![Head(jobEvents).rev] = Head(jobEvents).job]

OverInv ==
  /\ \A r \in Revisions : jobCache[r].state = "failed" => Over(r, {jobCache[r].knob})
  /\ pass.at \in {"clear", "delete"} =>
       pass.gw.knob # Unset /\ Over(pass.gw.rev, Knobs \ {pass.gw.knob})

SpareInv == TypeOK /\ CacheInv /\ OverInv

\* A Job is stored while the cache is up to date, so the cache misses that
\* event alone; a Job that failed stays so until it is gone.
LEMMA StoreJobSpares ==
  ASSUME SpareInv, MaxLag <= 1, NEW r \in Revisions, NEW j \in Job, StoreJob(r, j),
         StaysOver(jobs[r], j)
  PROVE  /\ CacheInv'
         /\ \A q \in Revisions : jobCache'[q].state = "failed" => Over(q, {jobCache[q].knob})'
         /\ \A q \in Revisions, K \in SUBSET Knobs :
              Over(q, K) /\ (q = r /\ jobs[r].state = "absent" => j.state = "absent") => Over(q, K)'
  <1>1. /\ jobs \in [Revisions -> Job] /\ jobCache \in [Revisions -> Job]
        /\ jobEvents \in Seq(JobEvent) /\ jobs' = [jobs EXCEPT ![r] = j] /\ MaxLag \in Nat
    BY JobAssumption DEF SpareInv, TypeOK, StoreJob
  <1>2. \A q \in Revisions, K \in SUBSET Knobs :
          Over(q, K) /\ (q = r /\ jobs[r].state = "absent" => j.state = "absent") => Over(q, K)'
    BY <1>1 DEF Over, StaysOver
  <1>3. jobEvents = <<>> /\ jobCache = jobs
    <2>1. Len(jobEvents) = 0
      BY <1>1 DEF SpareInv, CacheInv, StoreJob
    <2>2. jobEvents = <<>>
      BY <1>1, <2>1
    <2> QED
      BY <2>2 DEF SpareInv, CacheInv
  <1>4. CASE MaxLag = 0
    <2>1. jobCache' = jobs' /\ jobEvents' = <<>>
      BY <1>3, <1>4 DEF StoreJob
    <2>2. CacheInv'
      BY <1>4, <2>1 DEF CacheInv
    <2>3. \A q \in Revisions : jobCache'[q].state = "failed" => Over(q, {jobCache[q].knob})'
      BY <2>1 DEF Over
    <2> QED
      BY <1>2, <2>2, <2>3
  <1>5. CASE MaxLag # 0
    <2>1. jobEvents' = Append(<<>>, [rev |-> r, job |-> j]) /\ jobCache' = jobs
      BY <1>3, <1>5 DEF StoreJob
    <2>2. jobEvents' = <<[rev |-> r, job |-> j]>>
      BY <2>1
    <2>3. /\ Len(jobEvents') = 1 /\ jobEvents' # <<>>
          /\ Head(jobEvents').rev = r /\ Head(jobEvents').job = j
      BY <2>2
    <2>4. CacheInv'
      <3>1. Len(jobEvents') <= MaxLag
        BY <1>1, <1>5, <2>3
      <3>2. jobs' = [jobCache' EXCEPT ![Head(jobEvents').rev] = Head(jobEvents').job]
        BY <1>1, <2>1, <2>3
      <3> QED
        BY <2>3, <3>1, <3>2 DEF CacheInv
    <2>5. \A q \in Revisions : jobCache'[q].state = "failed" => Over(q, {jobCache[q].knob})'
      BY <1>1, <2>1 DEF Over, StaysOver
    <2> QED
      BY <1>2, <2>4, <2>5
  <1> QED
    BY <1>4, <1>5

LEMMA SpareInit == Init => SpareInv
  <1> SUFFICES ASSUME Init PROVE SpareInv
    OBVIOUS
  <1>1. TypeOK
    BY TypeInit
  <1>2. CacheInv
    BY JobAssumption DEF Init, CacheInv
  <1>3. OverInv
    BY DEF Init, OverInv, Over, IdlePass, NoJob
  <1> QED
    BY <1>1, <1>2, <1>3 DEF SpareInv

\* A step that leaves the Jobs and the caches of Jobs alone.
LEMMA StoreKept ==
  ASSUME SpareInv, UNCHANGED store,
         pass'.at \in {"clear", "delete"} =>
           pass'.gw.knob # Unset /\ Over(pass'.gw.rev, Knobs \ {pass'.gw.knob})
  PROVE  CacheInv' /\ OverInv'
  BY DEF SpareInv, CacheInv, OverInv, Over, store

LEMMA SpareNext == MaxLag <= 1 /\ SpareInv /\ [Next]_vars => SpareInv'
  <1> SUFFICES ASSUME MaxLag <= 1, SpareInv, [Next]_vars PROVE SpareInv'
    OBVIOUS
  <1>u. TypeOK'
    BY TypeNext DEF SpareInv
  <1>t. /\ TypeOK /\ CacheInv /\ OverInv
        /\ pass \in Pass /\ pass.gw \in Gateway /\ pass.gw.rev \in Revisions
        /\ jobs \in [Revisions -> Job] /\ jobs[pass.gw.rev] \in Job
    BY DEF SpareInv, TypeOK, Pass, Gateway
  <1>i. IdlePass.at = "idle"
    BY DEF IdlePass
  <1> SUFFICES CacheInv' /\ OverInv'
    BY <1>u DEF SpareInv
  <1>1. CASE Read
    <2>1. pass'.at = "look" /\ UNCHANGED store
      BY <1>1, IdleTyped DEF Read, Pass
    <2> QED
      BY <2>1, StoreKept
  <1>2. CASE Skip \/ LookFailed \/ Adopt \/ StartRun \/ CreateFailed
    <2>1. pass'.at \in {"finish", "create"} /\ UNCHANGED store
      BY <1>2, <1>t DEF Skip, LookFailed, Adopt, StartRun, CreateFailed, Pass
    <2> QED
      BY <2>1, StoreKept
  <1>3. CASE StartRedo
    \* The cached Job failed, so the stored one did or is gone.
    <2>1. pass'.gw.rev = pass.gw.rev /\ pass'.gw.knob = pass.gw.knob /\ UNCHANGED store
      BY <1>3, <1>t DEF StartRedo, Pass, Gateway
    <2>2. /\ Over(pass.gw.rev, {jobCache[pass.gw.rev].knob})
          /\ pass.gw.knob # Unset /\ pass.gw.knob # jobCache[pass.gw.rev].knob
      BY <1>3, <1>t DEF StartRedo, WantsRedo, ExecutionKnobsChanged, OverInv
    <2>3. Over(pass.gw.rev, Knobs \ {pass.gw.knob})
      BY <1>t, <2>2 DEF Over, Job
    <2> QED
      BY <2>1, <2>2, <2>3, StoreKept
  <1>4. CASE Clear
    <2>1. pass'.gw = pass.gw /\ UNCHANGED store
      BY <1>4, <1>t DEF Clear, Pass
    <2>2. pass.gw.knob # Unset /\ Over(pass.gw.rev, Knobs \ {pass.gw.knob})
      BY <1>4, <1>t DEF Clear, OverInv
    <2> QED
      BY <2>1, <2>2, StoreKept
  <1>5. CASE Delete
    <2>1. pass'.at \in {"create", "finish"}
      BY <1>5, <1>t DEF Delete, Pass
    <2>2. CASE UNCHANGED store
      BY <2>1, <2>2, StoreKept
    <2>3. CASE StoreJob(pass.gw.rev, NoJob)
      <3>1. NoJob.state = "absent"
        BY DEF NoJob
      <3>2. CacheInv' /\ \A q \in Revisions : jobCache'[q].state = "failed" => Over(q, {jobCache[q].knob})'
        BY <1>t, <2>3, <3>1, NoJobTyped, StoreJobSpares DEF StaysOver
      <3> QED
        BY <2>1, <3>2 DEF OverInv
    <2>4. CASE StoreJob(pass.gw.rev, [jobs[pass.gw.rev] EXCEPT !.going = TRUE])
      <3>1. /\ [jobs[pass.gw.rev] EXCEPT !.going = TRUE] \in Job
            /\ StaysOver(jobs[pass.gw.rev], [jobs[pass.gw.rev] EXCEPT !.going = TRUE])
        BY <1>t DEF Job, StaysOver
      <3>2. CacheInv' /\ \A q \in Revisions : jobCache'[q].state = "failed" => Over(q, {jobCache[q].knob})'
        BY <1>t, <2>4, <3>1, StoreJobSpares
      <3> QED
        BY <2>1, <3>2 DEF OverInv
    <2> QED
      BY <1>5, <2>2, <2>3, <2>4 DEF Delete, store
  <1>6. CASE Create
    \* The name was free, so no failed Job is replaced.
    <2>1. /\ BuildJob(pass.gw) \in Job /\ StoreJob(pass.gw.rev, BuildJob(pass.gw))
          /\ jobs[pass.gw.rev].state = "absent"
      BY <1>6, <1>t, BuildJobTyped DEF Create, Exists
    <2>2. CacheInv' /\ \A q \in Revisions : jobCache'[q].state = "failed" => Over(q, {jobCache[q].knob})'
      BY <1>t, <2>1, StoreJobSpares DEF StaysOver
    <2>3. pass'.at = "finish"
      BY <1>6, <1>t DEF Create, Pass
    <2> QED
      BY <2>2, <2>3 DEF OverInv
  <1>7. CASE Finish
    BY <1>7, <1>i, StoreKept DEF Finish, EndPass
  <1>8. CASE Crash
    BY <1>8, <1>i, <1>t, JobAssumption DEF Crash, CacheInv, OverInv, Over
  <1>9. CASE DeliverGateway \/ RollOut \/ Unroll
    <2>1. UNCHANGED <<pass, store>>
      BY <1>9 DEF DeliverGateway, RollOut, Unroll
    <2> QED
      BY <1>t, <2>1, StoreKept DEF OverInv
  <1>10. CASE DeliverJob
    \* The one event is delivered: the cache is up to date.
    <2>1. jobEvents \in Seq(JobEvent) /\ jobEvents # <<>> /\ Len(jobEvents) <= 1
      BY <1>10, <1>t, JobAssumption DEF DeliverJob, TypeOK, CacheInv
    <2>2. jobEvents' = <<>> /\ jobCache' = jobs' /\ UNCHANGED <<jobs, pass>>
      BY <1>10, <1>t, <2>1 DEF DeliverJob, CacheInv
    <2> QED
      BY <1>t, <2>2, JobAssumption DEF CacheInv, OverInv, Over
  <1>11. ASSUME NEW g \in Gateway, Edit(g) PROVE CacheInv' /\ OverInv'
    <2>1. pass'.at = pass.at /\ pass'.gw = pass.gw /\ UNCHANGED store
      BY <1>11, <1>t DEF Edit, Pass
    <2> QED
      BY <1>t, <2>1, StoreKept DEF OverInv
  <1>12. ASSUME NEW r \in Revisions, ChangeRevision(r) PROVE CacheInv' /\ OverInv'
    <2>1. [gw EXCEPT !.rev = r] \in Gateway
      BY <1>t DEF TypeOK, Gateway
    <2> QED
      BY <1>11, <1>12, <2>1 DEF ChangeRevision
  <1>13. ASSUME NEW k \in Knobs \cup {Unset}, ChangeKnob(k) PROVE CacheInv' /\ OverInv'
    <2>1. [gw EXCEPT !.knob = k] \in Gateway
      BY <1>t DEF TypeOK, Gateway
    <2> QED
      BY <1>11, <1>13, <2>1 DEF ChangeKnob
  <1>14. CASE Toggle
    <2>1. [gw EXCEPT !.enabled = ~@] \in Gateway
      BY <1>t DEF TypeOK, Gateway
    <2> QED
      BY <1>11, <1>14, <2>1 DEF Toggle
  <1>15. ASSUME NEW r \in Revisions, JobRemoved(r) PROVE CacheInv' /\ OverInv'
    <2>1. NoJob.state = "absent" /\ StoreJob(r, NoJob) /\ UNCHANGED pass
      BY <1>15 DEF NoJob, JobRemoved
    <2>2. /\ CacheInv' /\ \A q \in Revisions : jobCache'[q].state = "failed" => Over(q, {jobCache[q].knob})'
          /\ \A q \in Revisions, K \in SUBSET Knobs : Over(q, K) => Over(q, K)'
      BY <2>1, NoJobTyped, StoreJobSpares DEF StaysOver
    <2> QED
      BY <1>t, <2>1, <2>2 DEF OverInv
  <1>16. ASSUME NEW r \in Revisions, NEW s \in {"succeeded", "failed"}, JobEnds(r, s)
         PROVE  CacheInv' /\ OverInv'
    \* It was running, so no pass is about to delete it.
    <2>1. /\ [jobs[r] EXCEPT !.state = s] \in Job /\ jobs[r].state = "running"
          /\ StoreJob(r, [jobs[r] EXCEPT !.state = s]) /\ UNCHANGED pass
      BY <1>16, <1>t DEF Job, JobEnds
    <2>2. /\ CacheInv' /\ \A q \in Revisions : jobCache'[q].state = "failed" => Over(q, {jobCache[q].knob})'
          /\ \A q \in Revisions, K \in SUBSET Knobs : Over(q, K) => Over(q, K)'
      <3> DEFINE j == [jobs[r] EXCEPT !.state = s]
      <3>1. j \in Job /\ StoreJob(r, j) /\ jobs[r].state = "running" /\ StaysOver(jobs[r], j)
        BY <2>1 DEF StaysOver
      <3> HIDE DEF j
      <3> QED
        BY <3>1, StoreJobSpares
    <2> QED
      BY <1>t, <2>1, <2>2 DEF OverInv
  <1>17. CASE UNCHANGED vars
    BY <1>17, <1>t, StoreKept DEF vars, OverInv
  <1> QED
    BY <1>1, <1>2, <1>3, <1>4, <1>5, <1>6, <1>7, <1>8, <1>9, <1>10, <1>12, <1>13,
       <1>14, <1>15, <1>16, <1>17
    DEF Next, PassStep, EnvStep

\* While the cache of the Jobs is at most one event behind, the Job that
\* reconcileExistingPostRestartRevision deletes has failed: no running script
\* is killed and no successful one repeated, whatever the TTL controller, the
\* Job controller, edits, failures and restarts do between the look and the
\* delete.
THEOREM RunningJobsAreSpared == MaxLag <= 1 => (Spec => OnlyFailedJobsDeleted)
  <1> SUFFICES ASSUME MaxLag <= 1 PROVE Spec => OnlyFailedJobsDeleted
    OBVIOUS
  <1> DEFINE Step == pass.at = "delete" /\ pass' # pass /\ jobs' # jobs
                       => jobs[pass.gw.rev].state = "failed"
  <1>1. SpareInv /\ [Next]_vars => [Step]_vars
    <2> SUFFICES ASSUME SpareInv, [Next]_vars, pass.at = "delete", pass' # pass, jobs' # jobs
                 PROVE  jobs[pass.gw.rev].state = "failed"
      OBVIOUS
    <2>1. Over(pass.gw.rev, Knobs \ {pass.gw.knob})
      BY DEF SpareInv, OverInv
    <2>2. Delete
      <3>1. ~EnvStep
        BY DEF EnvStep, Crash, DeliverGateway, DeliverJob, ChangeRevision, ChangeKnob,
               Toggle, Edit, RollOut, Unroll, JobEnds, JobRemoved, store
      <3>2. Next
        BY DEF vars, store
      <3>3. ~Read /\ ~Skip /\ ~LookFailed /\ ~Adopt /\ ~StartRun /\ ~StartRedo /\ ~Clear
            /\ ~Create /\ ~CreateFailed /\ ~Finish
        BY DEF Read, Skip, LookFailed, Adopt, StartRun, StartRedo, Clear, Create,
               CreateFailed, Finish
      <3> QED
        BY <3>1, <3>2, <3>3 DEF Next, PassStep
    <2>3. Exists(jobs[pass.gw.rev])
      BY <2>2 DEF Delete, store
    <2> QED
      BY <2>1, <2>3 DEF Over, Exists
  <1>2. SpareInv /\ [Next]_vars => SpareInv'
    BY SpareNext
  <1>3. Spec => [][Step]_vars
    BY <1>1, <1>2, SpareInit, PTL DEF Spec
  <1> QED
    BY <1>3 DEF OnlyFailedJobsDeleted

-----------------------------------------------------------------------------
(* No retry loop.  The operator deletes a Job when the version of the      *)
(* gateway it read sets another knob than the Job was built with.  Caches  *)
(* never go back, so that version is a later one, with an edit in between: *)
(* the generation of the oldest version that still counts, Base, bounds    *)
(* the Jobs started.                                                       *)

\* w is v or a later version; the knobs of one generation are the same.
Newer(v, w) == v.gen <= w.gen /\ (v.gen = w.gen => v.knob = w.knob)

\* The oldest version a pass, the one under way or the next, may act upon.
Base == IF pass.at = "idle" THEN gwCache ELSE pass.gw

ChainInv ==
  /\ Newer(gwCache, gw)
  /\ IF gwEvents = <<>> THEN gwCache = gw ELSE gwEvents[Len(gwEvents)] = gw
  /\ \A i \in 1..Len(gwEvents) : Newer(gwCache, gwEvents[i]) /\ Newer(gwEvents[i], gw)
  /\ \A i, j \in 1..Len(gwEvents) : i <= j => Newer(gwEvents[i], gwEvents[j])

PassInv ==
  /\ Newer(Base, gwCache)
  /\ pass.current => pass.at # "idle" /\ Newer(gw, pass.gw)
  /\ gw.gen + bounds.edits <= MaxEdits

Removed == MaxRemovals - bounds.removals

\* One Job per generation and per removal; one more only while it is there
\* and version v would not have it replaced.
Within(r, v) ==
  \/ ran[r] <= v.gen + Removed
  \/ /\ ran[r] = 1 + v.gen + Removed
     /\ Exists(jobs[r]) /\ ~jobs[r].going
     /\ v.knob \in {Unset, jobs[r].knob}

CountInv == \A r \in Revisions : Within(r, Base)

LoopInv == SpareInv /\ ChainInv /\ PassInv /\ CountInv

LEMMA NewerTransitive ==
  ASSUME NEW u \in Gateway, NEW v \in Gateway, NEW w \in Gateway, Newer(u, v), Newer(v, w)
  PROVE  Newer(u, w)
  BY DEF Newer, Gateway

LEMMA NewerReflexive == \A v \in Gateway : Newer(v, v)
  BY DEF Newer, Gateway

LEMMA BaseTyped == TypeOK => Base \in Gateway
  BY DEF TypeOK, Base, Pass

LEMMA RemovedTyped == TypeOK => Removed \in Nat
  BY JobAssumption DEF TypeOK, Bounds, Removed

\* A failed call leaves the bounds on edits and removals alone.
LEMMA SpendKeeps ==
  ASSUME TypeOK, Spend \/ UNCHANGED bounds
  PROVE  bounds'.edits = bounds.edits /\ bounds'.removals = bounds.removals
  BY DEF TypeOK, Bounds, Spend

LEMMA StoreGatewayChain ==
  ASSUME TypeOK, ChainInv, NEW g \in Gateway, Newer(gw, g), StoreGateway(g), UNCHANGED gwCache
  PROVE  ChainInv'
  <1>1. /\ gwEvents \in Seq(Gateway) /\ gw \in Gateway /\ gwCache \in Gateway
        /\ gwEvents' = Append(gwEvents, g) /\ gw' = g
    BY DEF TypeOK, StoreGateway
  <1>2. /\ Len(gwEvents') = Len(gwEvents) + 1 /\ gwEvents' # <<>>
        /\ \A i \in 1..Len(gwEvents) : gwEvents'[i] = gwEvents[i] /\ gwEvents[i] \in Gateway
        /\ gwEvents'[Len(gwEvents) + 1] = g
    BY <1>1
  <1>3. Newer(gwCache, g)
    BY <1>1, NewerTransitive DEF ChainInv
  <1>4. \A i \in 1..Len(gwEvents) : Newer(gwEvents[i], g)
    BY <1>1, <1>2, NewerTransitive DEF ChainInv
  <1>5. \A i \in 1..Len(gwEvents') : i \in 1..Len(gwEvents) \/ i = Len(gwEvents) + 1
    BY <1>1, <1>2
  <1>6. \A i \in 1..Len(gwEvents') : Newer(gwCache, gwEvents'[i]) /\ Newer(gwEvents'[i], g)
    BY <1>2, <1>3, <1>4, <1>5, NewerReflexive DEF ChainInv
  <1>7. \A i, j \in 1..Len(gwEvents') : i <= j => Newer(gwEvents'[i], gwEvents'[j])
    <2> SUFFICES ASSUME NEW i \in 1..Len(gwEvents'), NEW j \in 1..Len(gwEvents'), i <= j
                 PROVE  Newer(gwEvents'[i], gwEvents'[j])
      OBVIOUS
    <2>1. CASE j \in 1..Len(gwEvents)
      <3>1. i \in 1..Len(gwEvents)
        BY <1>1, <2>1
      <3> QED
        BY <1>2, <2>1, <3>1 DEF ChainInv
    <2>2. CASE j = Len(gwEvents) + 1
      BY <1>2, <1>6, <2>2
    <2> QED
      BY <1>5, <2>1, <2>2
  <1> QED
    BY <1>1, <1>2, <1>3, <1>6, <1>7 DEF ChainInv

\* The bound of a version holds for every later one.
LEMMA BaseMoves ==
  ASSUME TypeOK, TypeOK', CountInv, Newer(Base, Base'),
         UNCHANGED <<jobs, ran>>, bounds'.removals = bounds.removals
  PROVE  CountInv'
  <1>1. Base \in Gateway /\ Base' \in Gateway
    BY DEF TypeOK, Base, Pass
  <1>2. Removed' = Removed /\ Removed \in Nat
    BY RemovedTyped DEF Removed
  <1>3. Base.gen \in Nat /\ Base'.gen \in Nat
    BY <1>1 DEF Gateway
  <1> QED
    BY <1>2, <1>3 DEF CountInv, Within, Newer, Exists, TypeOK

LEMMA LoopInit == Init => LoopInv
  <1> SUFFICES ASSUME Init PROVE LoopInv
    OBVIOUS
  <1>1. SpareInv
    BY SpareInit
  <1>2. gw \in Gateway /\ gw.gen = 0 /\ Newer(gw, gw) /\ gwCache = gw /\ gwEvents = <<>>
    BY <1>1, NewerReflexive DEF Init, SpareInv, TypeOK
  <1>3. pass.at = "idle" /\ pass.current = FALSE /\ Base = gw
    BY <1>2 DEF Init, IdlePass, Base
  <1>4. ChainInv
    BY <1>2 DEF ChainInv
  <1>5. PassInv
    BY <1>2, <1>3, JobAssumption DEF PassInv, Init
  <1>6. CountInv
    BY <1>2, <1>3, JobAssumption DEF CountInv, Within, Removed, Init
  <1> QED
    BY <1>1, <1>4, <1>5, <1>6 DEF LoopInv

\* A step that keeps the stored versions, the Jobs and their counts, and at
\* most moves on to a later version.
LEMMA VersionsKept ==
  ASSUME LoopInv, TypeOK', UNCHANGED <<gw, gwCache, gwEvents, jobs, ran>>,
         bounds'.edits = bounds.edits, bounds'.removals = bounds.removals,
         Newer(Base, Base'), Newer(Base', gwCache),
         pass'.current => pass'.at # "idle" /\ Newer(gw, pass'.gw)
  PROVE  ChainInv' /\ PassInv' /\ CountInv'
  <1>1. ChainInv'
    BY DEF LoopInv, ChainInv
  <1>2. PassInv'
    BY DEF LoopInv, PassInv
  <1>3. CountInv'
    BY BaseMoves DEF LoopInv, SpareInv
  <1> QED
    BY <1>1, <1>2, <1>3

\* The pass goes on with the version it has.
LEMMA PassGoesOn ==
  ASSUME LoopInv, TypeOK', UNCHANGED <<gw, gwCache, gwEvents, jobs, ran>>,
         Spend \/ UNCHANGED bounds,
         pass.at # "idle", pass'.at # "idle", pass'.current => pass.current,
         pass'.gw.gen = pass.gw.gen, pass'.gw.knob = pass.gw.knob
  PROVE  ChainInv' /\ PassInv' /\ CountInv'
  <1>1. Base = pass.gw /\ Base' = pass'.gw /\ Base \in Gateway /\ Base' \in Gateway
    BY BaseTyped DEF Base, LoopInv, SpareInv, TypeOK, Pass
  <1>2. Newer(Base, Base') /\ Newer(Base', gwCache)
    BY <1>1 DEF Newer, LoopInv, PassInv, Gateway
  <1>3. pass'.current => pass'.at # "idle" /\ Newer(gw, pass'.gw)
    BY DEF LoopInv, PassInv, Newer
  <1>4. bounds'.edits = bounds.edits /\ bounds'.removals = bounds.removals
    BY SpendKeeps DEF LoopInv, SpareInv
  <1> QED
    BY <1>2, <1>3, <1>4, VersionsKept

\* An edit stores a version of a later generation.
LEMMA EditLoops ==
  ASSUME LoopInv, TypeOK', NEW g \in Gateway, g.gen = gw.gen, Edit(g)
  PROVE  ChainInv' /\ PassInv' /\ CountInv'
  <1> DEFINE h == [g EXCEPT !.gen = @ + 1]
  <1>1. /\ h \in Gateway /\ h.gen = gw.gen + 1 /\ StoreGateway(h)
        /\ UNCHANGED <<gwCache, jobs, ran>>
    BY DEF Edit, Gateway, store, history
  <1>2. TypeOK /\ gw \in Gateway /\ gw.gen \in Nat
    BY DEF LoopInv, SpareInv, TypeOK, Gateway
  <1>3. gw' = h /\ Newer(gw, h)
    BY <1>1, <1>2 DEF StoreGateway, Newer
  <1> HIDE DEF h
  <1>4. ChainInv'
    BY <1>1, <1>2, <1>3, StoreGatewayChain DEF LoopInv
  <1>5. pass'.at = pass.at /\ pass'.gw = pass.gw /\ pass'.current = FALSE
    BY <1>2 DEF Edit, TypeOK, Pass
  <1>6. /\ bounds.edits \in Nat /\ bounds.edits > 0
        /\ bounds'.edits = bounds.edits - 1 /\ bounds'.removals = bounds.removals
    BY <1>2, JobAssumption DEF Edit, TypeOK, Bounds
  <1>7. Base' = Base /\ Base \in Gateway
    BY <1>1, <1>2, <1>5, BaseTyped DEF Base
  <1>8. PassInv'
    BY <1>1, <1>2, <1>3, <1>5, <1>6, <1>7, JobAssumption DEF LoopInv, PassInv, Newer
  <1>9. CountInv'
    BY <1>1, <1>2, <1>6, <1>7, BaseMoves, NewerReflexive DEF LoopInv
  <1> QED
    BY <1>4, <1>8, <1>9

\* The pass stores the version it works on, which is the current one.
LEMMA PassStores ==
  ASSUME LoopInv, TypeOK', pass.current, StoreGateway(pass.gw),
         UNCHANGED <<gwCache, jobs, ran>>, Spend \/ UNCHANGED bounds,
         \/ pass'.at = "idle" /\ ~pass'.current
         \/ pass'.at # "idle" /\ pass'.gw = pass.gw
  PROVE  ChainInv' /\ PassInv' /\ CountInv'
  <1>1. /\ TypeOK /\ gw \in Gateway /\ gwCache \in Gateway /\ pass.gw \in Gateway
        /\ Newer(gw, pass.gw) /\ pass.at # "idle" /\ gw' = pass.gw /\ Base = pass.gw
    BY DEF LoopInv, SpareInv, TypeOK, Pass, PassInv, StoreGateway, Base
  <1>2. ChainInv'
    BY <1>1, StoreGatewayChain DEF LoopInv
  <1>3. Newer(pass.gw, gwCache) /\ Newer(gwCache, gw)
    BY <1>1 DEF LoopInv, PassInv, ChainInv
  <1>4. pass.gw.gen = gw.gen
    BY <1>1, <1>3 DEF Newer, Gateway
  <1>5. bounds'.edits = bounds.edits /\ bounds'.removals = bounds.removals
    BY <1>1, SpendKeeps
  <1>6. Base' \in {gwCache, pass.gw} /\ Newer(Base, Base') /\ Newer(Base', gwCache)
    BY <1>1, <1>3, NewerReflexive DEF Base
  <1>7. PassInv'
    BY <1>1, <1>4, <1>5, <1>6, NewerReflexive DEF LoopInv, PassInv
  <1>8. CountInv'
    BY <1>1, <1>5, <1>6, BaseMoves DEF LoopInv
  <1> QED
    BY <1>2, <1>7, <1>8

\* A step about Jobs: the versions stay as they are.
LEMMA OrderKept ==
  ASSUME LoopInv, TypeOK', UNCHANGED <<gw, gwCache, gwEvents>>, bounds'.edits <= bounds.edits,
         pass'.at = "idle" <=> pass.at = "idle", pass'.current => pass.current,
         pass'.gw.gen = pass.gw.gen, pass'.gw.knob = pass.gw.knob
  PROVE  ChainInv' /\ PassInv' /\ Base'.gen = Base.gen /\ Base'.knob = Base.knob
  <1>1. Base'.gen = Base.gen /\ Base'.knob = Base.knob
    BY DEF Base
  <1>2. ChainInv'
    BY DEF LoopInv, ChainInv
  <1>3. /\ gw.gen \in Nat /\ bounds.edits \in Nat /\ bounds'.edits \in Nat /\ MaxEdits \in Nat
    BY JobAssumption DEF LoopInv, SpareInv, TypeOK, Bounds, Gateway
  <1>4. Newer(Base', gwCache)
    BY <1>1 DEF LoopInv, PassInv, Newer
  <1>5. pass'.current => pass'.at # "idle" /\ Newer(gw, pass'.gw)
    BY DEF LoopInv, PassInv, Newer
  <1>6. PassInv'
    BY <1>3, <1>4, <1>5 DEF LoopInv, PassInv
  <1> QED
    BY <1>1, <1>2, <1>6

\* The Job of revision r changes; the bound is kept for it and so for all.
LEMMA JobCounted ==
  ASSUME LoopInv, TypeOK', NEW r \in Revisions, NEW j \in Job, StoreJob(r, j),
         Base'.gen = Base.gen, Base'.knob = Base.knob,
         \A q \in Revisions \ {r} : ran'[q] = ran[q],
         Removed' \in {Removed, Removed + 1},
         Within(r, Base)'
  PROVE  CountInv'
  <1>1. Base.gen \in Nat /\ Removed \in Nat /\ TypeOK
    BY BaseTyped, RemovedTyped DEF LoopInv, SpareInv, Gateway
  <1>2. jobs' = [jobs EXCEPT ![r] = j] /\ ran \in [Revisions -> Nat] /\ jobs \in [Revisions -> Job]
    BY <1>1 DEF StoreJob, TypeOK
  <1>3. ASSUME NEW q \in Revisions, q # r PROVE Within(q, Base)'
    <2>1. jobs'[q] = jobs[q] /\ ran'[q] = ran[q] /\ ran[q] \in Nat /\ Within(q, Base)
      BY <1>2, <1>3 DEF LoopInv, CountInv
    <2> QED
      BY <1>1, <2>1 DEF Within
  <1> QED
    BY <1>3 DEF CountInv

LEMMA LoopNext == MaxLag <= 1 /\ LoopInv /\ [Next]_vars => LoopInv'
  <1> SUFFICES ASSUME MaxLag <= 1, LoopInv, [Next]_vars PROVE LoopInv'
    OBVIOUS
  <1>s. SpareInv /\ SpareInv' /\ TypeOK /\ TypeOK'
    BY SpareNext DEF LoopInv, SpareInv
  <1>t. /\ pass \in Pass /\ pass.gw \in Gateway /\ pass.gw.rev \in Revisions
        /\ pass' \in Pass /\ pass'.gw \in Gateway
        /\ gw \in Gateway /\ gwCache \in Gateway /\ gwEvents \in Seq(Gateway)
        /\ jobs \in [Revisions -> Job] /\ ran \in [Revisions -> Nat]
    BY <1>s DEF TypeOK, Pass, Gateway
  <1>i. IdlePass.at = "idle" /\ IdlePass.current = FALSE
    BY DEF IdlePass
  <1>b. Base \in Gateway /\ Base.gen \in Nat /\ Removed \in Nat
    BY <1>s, BaseTyped, RemovedTyped DEF Gateway
  <1> SUFFICES ChainInv' /\ PassInv' /\ CountInv'
    BY <1>s DEF LoopInv
  <1>1. CASE Read
    <2>1. /\ pass.at = "idle" /\ pass'.at = "look" /\ pass'.gw = gwCache
          /\ pass'.current = (gwEvents = <<>>)
          /\ UNCHANGED <<gw, gwCache, gwEvents, jobs, ran, bounds>>
      BY <1>1, IdleTyped DEF Read, Pass, store, history
    <2>2. Base = gwCache /\ Base' = gwCache /\ Newer(gwCache, gwCache) /\ Newer(gw, gw)
      BY <1>t, <2>1, NewerReflexive DEF Base
    <2>3. pass'.current => Newer(gw, pass'.gw)
      BY <2>1, <2>2 DEF LoopInv, ChainInv
    <2> QED
      BY <1>s, <2>1, <2>2, <2>3, VersionsKept
  <1>2. CASE Skip \/ LookFailed \/ Adopt \/ StartRun \/ StartRedo \/ CreateFailed
    <2>1. /\ pass.at # "idle" /\ pass'.at # "idle" /\ (pass'.current => pass.current)
          /\ pass'.gw.gen = pass.gw.gen /\ pass'.gw.knob = pass.gw.knob
      <3>1. CASE Skip \/ LookFailed \/ StartRun \/ CreateFailed
        BY <1>t, <3>1 DEF Skip, LookFailed, StartRun, CreateFailed, Pass
      <3>2. CASE Adopt
        BY <1>t, <3>2 DEF Adopt, Pass, Gateway
      <3>3. CASE StartRedo
        BY <1>t, <3>3 DEF StartRedo, Pass, Gateway
      <3> QED
        BY <1>2, <3>1, <3>2, <3>3
    <2>2. UNCHANGED <<gw, gwCache, gwEvents, jobs, ran>> /\ (Spend \/ UNCHANGED bounds)
      BY <1>2 DEF Skip, LookFailed, Adopt, StartRun, StartRedo, CreateFailed, store, history
    <2> QED
      BY <1>s, <2>1, <2>2, PassGoesOn
  <1>3. CASE Clear
    <2>1. /\ pass.at # "idle" /\ pass'.at # "idle" /\ pass'.gw = pass.gw
          /\ pass'.current => pass.current
          /\ UNCHANGED <<gwCache, jobs, ran>> /\ (Spend \/ UNCHANGED bounds)
      BY <1>3, <1>t DEF Clear, Pass, store, history
    <2>2. (pass.current /\ StoreGateway(pass.gw)) \/ UNCHANGED <<gw, gwEvents>>
      BY <1>3 DEF Clear
    <2>3. CASE pass.current /\ StoreGateway(pass.gw)
      BY <1>s, <2>1, <2>3, PassStores
    <2>4. CASE UNCHANGED <<gw, gwEvents>>
      BY <1>s, <2>1, <2>4, PassGoesOn
    <2> QED
      BY <2>2, <2>3, <2>4
  <1>4. CASE Finish
    <2>1. /\ pass.at # "idle" /\ pass' = IdlePass
          /\ UNCHANGED <<gwCache, jobs, ran>> /\ (Spend \/ UNCHANGED bounds)
      BY <1>4 DEF Finish, EndPass, store, history
    <2>2. (pass.current /\ StoreGateway(pass.gw)) \/ UNCHANGED <<gw, gwEvents>>
      BY <1>4 DEF Finish
    <2>3. CASE pass.current /\ StoreGateway(pass.gw)
      BY <1>s, <1>i, <2>1, <2>3, PassStores
    <2>4. CASE UNCHANGED <<gw, gwEvents>>
      <3>1. Base' = gwCache /\ Newer(Base, gwCache) /\ Newer(gwCache, gwCache)
        BY <1>t, <1>i, <2>1, NewerReflexive DEF Base, LoopInv, PassInv
      <3>2. bounds'.edits = bounds.edits /\ bounds'.removals = bounds.removals
        BY <1>s, <2>1, SpendKeeps
      <3> QED
        BY <1>s, <1>i, <2>1, <2>4, <3>1, <3>2, VersionsKept
    <2> QED
      BY <2>2, <2>3, <2>4
  <1>5. CASE Crash
    \* The caches are listed anew: the current version is all there is.
    <2>1. /\ pass'.at = "idle" /\ pass'.current = FALSE /\ gwCache' = gw /\ gwEvents' = <<>>
          /\ UNCHANGED <<gw, jobs, ran>>
      BY <1>5, <1>i DEF Crash, history
    <2>2. bounds'.edits = bounds.edits /\ bounds'.removals = bounds.removals
      BY <1>s, <1>5, SpendKeeps DEF Crash
    <2>3. Base' = gw /\ Newer(gw, gw) /\ Newer(Base, gw)
      <3>1. Newer(Base, gwCache) /\ Newer(gwCache, gw)
        BY DEF LoopInv, PassInv, ChainInv
      <3> QED
        BY <1>t, <1>b, <2>1, <3>1, NewerTransitive, NewerReflexive DEF Base
    <2>4. ChainInv' /\ PassInv'
      BY <2>1, <2>2, <2>3 DEF ChainInv, PassInv, LoopInv
    <2>5. CountInv'
      BY <1>s, <2>1, <2>2, <2>3, BaseMoves DEF LoopInv
    <2> QED
      BY <2>4, <2>5
  <1>6. CASE DeliverGateway
    <2>1. /\ gwEvents # <<>> /\ gwCache' = gwEvents[1] /\ gwEvents' = Tail(gwEvents)
          /\ UNCHANGED <<gw, jobs, ran, bounds, pass>>
      BY <1>6, <1>t DEF DeliverGateway, store, history
    <2>2. 1 \in 1..Len(gwEvents) /\ Len(gwEvents') = Len(gwEvents) - 1 /\ Len(gwEvents) \in Nat
          /\ \A i \in 1..Len(gwEvents') : i + 1 \in 1..Len(gwEvents) /\ gwEvents'[i] = gwEvents[i + 1]
      BY <1>t, <2>1
    <2>3. gwEvents[1] \in Gateway /\ Newer(gwCache, gwEvents[1]) /\ Newer(gwEvents[1], gw)
      BY <1>t, <2>2 DEF LoopInv, ChainInv
    <2>4. ChainInv'
      <3>1. IF gwEvents' = <<>> THEN gwCache' = gw ELSE gwEvents'[Len(gwEvents')] = gw
        <4>1. gwEvents[Len(gwEvents)] = gw
          BY <2>1 DEF LoopInv, ChainInv
        <4>2. CASE gwEvents' = <<>>
          BY <2>1, <2>2, <4>1, <4>2
        <4>3. CASE gwEvents' # <<>>
          <5>1. gwEvents' \in Seq(Gateway) /\ Len(gwEvents') \in 1..Len(gwEvents')
            BY <1>t, <2>1, <4>3
          <5> QED
            BY <2>2, <4>1, <4>3, <5>1
        <4> QED
          BY <4>2, <4>3
      <3>2. \A i \in 1..Len(gwEvents') : Newer(gwCache', gwEvents'[i]) /\ Newer(gwEvents'[i], gw)
        BY <2>1, <2>2 DEF LoopInv, ChainInv
      <3>3. \A i, j \in 1..Len(gwEvents') : i <= j => Newer(gwEvents'[i], gwEvents'[j])
        BY <2>1, <2>2 DEF LoopInv, ChainInv
      <3> QED
        BY <2>1, <2>3, <3>1, <3>2, <3>3 DEF ChainInv
    <2>5. Newer(Base, Base') /\ Newer(Base', gwCache')
      <3>1. CASE pass.at = "idle"
        BY <1>t, <2>1, <2>3, <3>1, NewerReflexive DEF Base
      <3>2. CASE pass.at # "idle"
        <4>1. Base = pass.gw /\ Base' = pass.gw /\ Newer(pass.gw, gwCache)
          BY <2>1, <3>2 DEF Base, LoopInv, PassInv
        <4> QED
          BY <1>t, <2>1, <2>3, <4>1, NewerReflexive, NewerTransitive
      <3> QED
        BY <3>1, <3>2
    <2>6. PassInv'
      BY <2>1, <2>5 DEF PassInv, LoopInv
    <2>7. CountInv'
      BY <1>s, <2>1, <2>5, BaseMoves DEF LoopInv
    <2> QED
      BY <2>4, <2>6, <2>7
  <1>7. ASSUME NEW r \in Revisions, ChangeRevision(r) PROVE ChainInv' /\ PassInv' /\ CountInv'
    <2>1. [gw EXCEPT !.rev = r] \in Gateway /\ [gw EXCEPT !.rev = r].gen = gw.gen
      BY <1>t DEF Gateway
    <2> QED
      BY <1>s, <1>7, <2>1, EditLoops DEF ChangeRevision
  <1>8. ASSUME NEW k \in Knobs \cup {Unset}, ChangeKnob(k) PROVE ChainInv' /\ PassInv' /\ CountInv'
    <2>1. [gw EXCEPT !.knob = k] \in Gateway /\ [gw EXCEPT !.knob = k].gen = gw.gen
      BY <1>t DEF Gateway
    <2> QED
      BY <1>s, <1>8, <2>1, EditLoops DEF ChangeKnob
  <1>9. CASE Toggle
    <2>1. [gw EXCEPT !.enabled = ~@] \in Gateway /\ [gw EXCEPT !.enabled = ~@].gen = gw.gen
      BY <1>t DEF Gateway
    <2> QED
      BY <1>s, <1>9, <2>1, EditLoops DEF Toggle
  <1>10. CASE RollOut \/ Unroll \/ DeliverJob
    <2>1. /\ UNCHANGED <<gw, gwCache, gwEvents, jobs, ran, pass>>
          /\ bounds'.edits <= bounds.edits /\ bounds'.removals = bounds.removals
      <3>1. bounds.edits \in Nat /\ bounds \in Bounds
        BY <1>s, JobAssumption DEF TypeOK, Bounds
      <3> QED
        BY <1>10, <3>1 DEF RollOut, Unroll, DeliverJob, store, history, Bounds
    <2>2. ChainInv' /\ PassInv'
      BY <1>s, <2>1, OrderKept
    <2>3. Base' = Base
      BY <2>1 DEF Base
    <2>4. CountInv'
      BY <1>s, <1>b, <2>1, <2>3, BaseMoves, NewerReflexive DEF LoopInv
    <2> QED
      BY <2>2, <2>4
  <1>11. CASE Delete
    <2>1. /\ pass.at = "delete" /\ pass'.at # "idle" /\ (pass'.current => pass.current)
          /\ pass'.gw = pass.gw /\ UNCHANGED <<gw, gwCache, gwEvents, ran>>
          /\ (Spend \/ UNCHANGED bounds)
      BY <1>11, <1>t DEF Delete, Pass
    <2>2. bounds'.edits = bounds.edits /\ bounds'.removals = bounds.removals
      BY <1>s, <2>1, SpendKeeps
    <2>3. ChainInv' /\ PassInv' /\ Base'.gen = Base.gen /\ Base'.knob = Base.knob
      <3>1. bounds'.edits <= bounds.edits
        BY <1>s, <2>2, JobAssumption DEF TypeOK, Bounds
      <3> QED
        BY <1>s, <2>1, <3>1, OrderKept
    <2>4. CASE UNCHANGED store
      BY <1>s, <2>1, <2>4, PassGoesOn DEF store
    <2>5. ASSUME NEW j \in Job, StoreJob(pass.gw.rev, j), Exists(jobs[pass.gw.rev])
          PROVE  ChainInv' /\ PassInv' /\ CountInv'
      \* The knob differs, so a Job more than Base has generations is not due.
      <3>1. ran[pass.gw.rev] <= Base.gen + Removed
        <4>1. Base = pass.gw /\ Within(pass.gw.rev, Base)
          BY <1>t, <2>1 DEF Base, LoopInv, CountInv
        <4>2. pass.gw.knob \notin {Unset, jobs[pass.gw.rev].knob}
          BY <1>s, <2>1, <2>5 DEF SpareInv, OverInv, Over, Exists
        <4> QED
          BY <4>1, <4>2 DEF Within
      <3>2. Removed' = Removed
        BY <2>2 DEF Removed
      <3>3. Within(pass.gw.rev, Base)'
        BY <2>1, <2>3, <3>1, <3>2 DEF Within
      <3>4. CountInv'
        BY <1>s, <1>t, <2>1, <2>3, <2>5, <3>2, <3>3, JobCounted
      <3> QED
        BY <2>3, <3>4
    <2>6. CASE StoreJob(pass.gw.rev, NoJob) /\ Exists(jobs[pass.gw.rev])
      BY <2>5, <2>6, NoJobTyped
    <2>7. CASE /\ StoreJob(pass.gw.rev, [jobs[pass.gw.rev] EXCEPT !.going = TRUE])
               /\ Exists(jobs[pass.gw.rev])
      <3>1. [jobs[pass.gw.rev] EXCEPT !.going = TRUE] \in Job
        BY <1>t DEF Job
      <3> QED
        BY <2>5, <2>7, <3>1
    <2> QED
      BY <1>11, <2>4, <2>6, <2>7 DEF Delete, store
  <1>12. CASE Create
    <2>0. PICK r \in Revisions : r = pass.gw.rev
      BY <1>t
    <2> DEFINE j == BuildJob(pass.gw)
    <2>1. /\ pass.at = "create" /\ ~Exists(jobs[r]) /\ StoreJob(r, j)
          /\ ran' = [ran EXCEPT ![r] = @ + 1] /\ UNCHANGED <<gw, gwCache, gwEvents>>
          /\ (Spend \/ UNCHANGED bounds)
      BY <1>12, <2>0 DEF Create
    <2>2. /\ pass'.at # "idle" /\ (pass'.current => pass.current)
          /\ pass'.gw.gen = pass.gw.gen /\ pass'.gw.knob = pass.gw.knob
      <3>1. CASE pass' = [pass EXCEPT !.at = "finish", !.gw.last = pass.gw.rev]
        BY <1>t, <3>1 DEF Pass, Gateway
      <3>2. CASE pass' = [pass EXCEPT !.at = "finish", !.redo = FALSE, !.failed = TRUE]
        BY <1>t, <3>2 DEF Pass
      <3> QED
        BY <1>12, <3>1, <3>2 DEF Create
    <2>3. bounds'.edits = bounds.edits /\ bounds'.removals = bounds.removals
      BY <1>s, <2>1, SpendKeeps
    <2>4. ChainInv' /\ PassInv' /\ Base'.gen = Base.gen /\ Base'.knob = Base.knob
      <3>1. bounds'.edits <= bounds.edits
        BY <1>s, <2>3, JobAssumption DEF TypeOK, Bounds
      <3> QED
        BY <1>s, <2>1, <2>2, <3>1, OrderKept
    <2>5. /\ j \in Job /\ Exists(j) /\ ~j.going /\ pass.gw.knob \in {Unset, j.knob}
      BY <1>t, BuildJobTyped DEF BuildJob, Exists
    <2>6. Base = pass.gw /\ ran[r] \in Nat /\ ran[r] <= Base.gen + Removed
      BY <1>t, <2>1 DEF Base, LoopInv, CountInv, Within
    <2>7. jobs'[r] = j /\ ran'[r] = ran[r] + 1 /\ \A q \in Revisions \ {r} : ran'[q] = ran[q]
      BY <1>t, <2>1 DEF StoreJob
    <2>8. Removed' = Removed
      BY <2>3 DEF Removed
    <2> HIDE DEF j
    <2>9. Within(r, Base)'
      <3>1. ran'[r] <= Base'.gen + Removed' \/ ran'[r] = 1 + Base'.gen + Removed'
        BY <1>b, <2>4, <2>6, <2>7, <2>8
      <3>2. Exists(jobs'[r]) /\ ~jobs'[r].going /\ Base'.knob \in {Unset, jobs'[r].knob}
        BY <2>4, <2>5, <2>6, <2>7
      <3> QED
        BY <3>1, <3>2 DEF Within, Exists
    <2>10. CountInv'
      BY <1>s, <1>t, <2>1, <2>4, <2>5, <2>7, <2>8, <2>9, JobCounted
    <2> QED
      BY <2>4, <2>10
  <1>13. ASSUME NEW r \in Revisions, JobRemoved(r) PROVE ChainInv' /\ PassInv' /\ CountInv'
    <2>1. StoreJob(r, NoJob) /\ UNCHANGED <<gw, gwCache, gwEvents, pass, ran>>
      BY <1>13 DEF JobRemoved, history
    <2>2. /\ bounds'.edits <= bounds.edits
          /\ \/ Removed' = Removed /\ jobs[r].going
             \/ Removed' = Removed + 1
      <3>1. bounds \in Bounds /\ bounds.removals \in Nat /\ bounds.edits \in Nat /\ MaxRemovals \in Nat
        BY <1>s, JobAssumption DEF TypeOK, Bounds
      <3> QED
        BY <1>13, <3>1 DEF JobRemoved, Removed, Bounds
    <2>3. ChainInv' /\ PassInv' /\ Base'.gen = Base.gen /\ Base'.knob = Base.knob
      BY <1>s, <2>1, <2>2, OrderKept
    <2>4. Within(r, Base) /\ ran[r] \in Nat
      BY <1>t DEF LoopInv, CountInv
    <2>5. ran[r] <= Base.gen + Removed'
      BY <1>b, <2>2, <2>4 DEF Within
    <2>6. Within(r, Base)'
      BY <2>1, <2>3, <2>5 DEF Within
    <2>7. CountInv'
      BY <1>s, <2>1, <2>2, <2>3, <2>6, NoJobTyped, JobCounted
    <2> QED
      BY <2>3, <2>7
  <1>14. ASSUME NEW r \in Revisions, NEW s \in {"succeeded", "failed"}, JobEnds(r, s)
         PROVE  ChainInv' /\ PassInv' /\ CountInv'
    <2> DEFINE j == [jobs[r] EXCEPT !.state = s]
    <2>1. /\ StoreJob(r, j) /\ UNCHANGED <<gw, gwCache, gwEvents, pass, bounds, ran>>
          /\ j \in Job /\ Exists(j) /\ Exists(jobs[r])
          /\ j.going = jobs[r].going /\ j.knob = jobs[r].knob
      BY <1>14, <1>t DEF JobEnds, Job, Exists, history
    <2> HIDE DEF j
    <2>2. bounds'.edits <= bounds.edits /\ Removed' = Removed
      BY <1>s, <2>1, JobAssumption DEF TypeOK, Bounds, Removed
    <2>3. ChainInv' /\ PassInv' /\ Base'.gen = Base.gen /\ Base'.knob = Base.knob
      BY <1>s, <2>1, <2>2, OrderKept
    <2>4. jobs'[r] = j /\ Within(r, Base)
      BY <1>t, <2>1 DEF StoreJob, LoopInv, CountInv
    <2>5. Within(r, Base)'
      BY <2>1, <2>2, <2>3, <2>4 DEF Within
    <2>6. CountInv'
      BY <1>s, <2>1, <2>2, <2>3, <2>5, JobCounted
    <2> QED
      BY <2>3, <2>6
  <1>15. CASE UNCHANGED vars
    <2>1. UNCHANGED <<gw, gwCache, gwEvents, jobs, ran, pass, bounds>>
      BY <1>15 DEF vars, store, history
    <2> QED
      BY <2>1 DEF LoopInv, ChainInv, PassInv, CountInv, Within, Base, Removed
  <1> QED
    BY <1>1, <1>2, <1>3, <1>4, <1>5, <1>6, <1>7, <1>8, <1>9, <1>10, <1>11, <1>12, <1>13,
       <1>14, <1>15
    DEF Next, PassStep, EnvStep

\* While the cache of the Jobs is at most one event behind, a script is started
\* at most once, and once more for each edit of the gateway and each removal by
\* the TTL controller: reconcilePostRestartJob does not run a script that keeps
\* failing on every pass, however many calls fail and however often the
\* operator restarts between its steps.
THEOREM FailingScriptsDoNotLoop == MaxLag <= 1 => (Spec => []NoRetryLoop)
  <1> SUFFICES ASSUME MaxLag <= 1 PROVE Spec => []NoRetryLoop
    OBVIOUS
  <1>1. LoopInv => NoRetryLoop
    <2> SUFFICES ASSUME LoopInv, NEW r \in Revisions
                 PROVE  ran[r] <= 1 + (MaxEdits - bounds.edits) + (MaxRemovals - bounds.removals)
      BY DEF NoRetryLoop
    <2>1. /\ Base \in Gateway /\ gwCache \in Gateway /\ gw \in Gateway /\ TypeOK
          /\ Newer(Base, gwCache) /\ Newer(gwCache, gw)
      BY BaseTyped DEF LoopInv, SpareInv, TypeOK, ChainInv, PassInv
    <2>2. Base.gen <= gw.gen /\ Base.gen \in Nat /\ gw.gen \in Nat
      BY <2>1 DEF Newer, Gateway
    <2>3. /\ gw.gen + bounds.edits <= MaxEdits /\ bounds.edits \in Nat /\ bounds.removals \in Nat
          /\ MaxEdits \in Nat /\ MaxRemovals \in Nat
      BY <2>1, JobAssumption DEF LoopInv, PassInv, TypeOK, Bounds
    <2>4. ran[r] \in Nat /\ Removed \in Nat /\ Within(r, Base)
      BY <2>1, RemovedTyped DEF LoopInv, CountInv, TypeOK
    <2>5. ran[r] <= 1 + Base.gen + Removed
      BY <2>2, <2>4 DEF Within
    <2> QED
      BY <2>2, <2>3, <2>4, <2>5 DEF Removed
  <1>2. LoopInv /\ [Next]_vars => LoopInv'
    BY LoopNext
  <1> QED
    BY <1>1, <1>2, LoopInit, PTL DEF Spec
=============================================================================
