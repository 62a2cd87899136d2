--------------------------- MODULE PostRestartJob ---------------------------
(***************************************************************************)
(* The post-restart Job of a gateway: reconcilePostRestartJob and          *)
(* reconcileExistingPostRestartRevision of KrakenDGatewayReconciler.       *)
(*                                                                         *)
(* A revision is a pair of an applied config and an execution-relevant     *)
(* postRestartJob spec (PostRestartJobChecksum); its Job is named after    *)
(* it.  Once the Deployment has converged, the pass creates the Job and    *)
(* records the revision in status.lastPostRestartJobChecksum.  A failed    *)
(* Job is re-created when a knob the spec sets (deadline, back-off, size   *)
(* of /tmp) differs from the Job's: the record is cleared in the API       *)
(* server, the Job deleted, a new one created, the revision recorded       *)
(* again.  Gateways and Jobs are read from informer caches, which lag.     *)
(***************************************************************************)
EXTENDS Naturals, Sequences, FiniteSets

CONSTANTS
  Revisions,   \* revisions of the config and the job spec
  NoRevision,  \* an empty lastPostRestartJobChecksum
  ConfigOf(_), \* the config of a revision
  NoConfig,    \* the Deployment has not converged
  Knobs,       \* values of the execution knobs
  DefaultKnob, \* the operator's default for an unset knob
  Unset,       \* a knob the spec does not set
  Events,      \* what the environment may do, see the actions below
  MaxEdits,    \* bound on edits of the spec
  MaxFaults,   \* bound on failed calls and crashes
  MaxRemovals, \* bound on removals by the TTL controller
  MaxLag       \* bound on the Job events the cache may be behind (0: none)

ASSUME JobAssumption ==
  /\ NoRevision \notin Revisions /\ Revisions # {}
  /\ \A r \in Revisions : ConfigOf(r) # NoConfig
  /\ DefaultKnob \in Knobs /\ Unset \notin Knobs
  /\ MaxEdits \in Nat /\ MaxFaults \in Nat /\ MaxRemovals \in Nat /\ MaxLag \in Nat

VARIABLES
  gw,        \* the stored gateway
  gwCache,   \* the gateway as the informer cache shows it
  gwEvents,  \* stored versions of the gateway the cache has not seen yet
  jobs,      \* the stored Job of each revision
  jobCache,  \* the Jobs as the informer cache shows them
  jobEvents, \* stored versions of Jobs the cache has not seen yet
  rolledOut, \* the config the Deployment has converged on
  queued,    \* whether the gateway is in the work queue
  pass,      \* the pass under way
  bounds,    \* what is left of the bounds
  ran,       \* history: how many Jobs were started for each revision
  owed       \* history: revisions whose Job the operator deleted to replace it

store   == <<jobs, jobCache, jobEvents>>
history == <<ran, owed>>
vars    == <<gw, gwCache, gwEvents, store, rolledOut, queued, pass, bounds, history>>

-----------------------------------------------------------------------------
(* Types.                                                                  *)

Gateway == [rev     : Revisions,
            knob    : Knobs \cup {Unset},
            enabled : BOOLEAN,
            last    : Revisions \cup {NoRevision},
            gen     : Nat]  \* history: the edits that led to this version

\* "going": deleted, but its removal is still under way.
Job == [state : {"absent", "running", "succeeded", "failed"},
        knob  : Knobs,
        going : BOOLEAN]

JobEvent == [rev : Revisions, job : Job]

NoJob == [state |-> "absent", knob |-> DefaultKnob, going |-> FALSE]

Pass == [at      : {"idle", "look", "clear", "delete", "create", "finish"},
         gw      : Gateway,  \* the copy the pass works on
         before  : Gateway,  \* the copy as read
         current : BOOLEAN,  \* the copy carries the stored resourceVersion
         redo    : BOOLEAN,  \* the Job is being re-created
         failed  : BOOLEAN]  \* the pass returns an error

Bounds == [edits : 0..MaxEdits, faults : 0..MaxFaults, removals : 0..MaxRemovals]

TypeOK ==
  /\ gw \in Gateway /\ gwCache \in Gateway /\ gwEvents \in Seq(Gateway)
  /\ jobs \in [Revisions -> Job] /\ jobCache \in [Revisions -> Job]
  /\ jobEvents \in Seq(JobEvent)
  /\ rolledOut \in {ConfigOf(r) : r \in Revisions} \cup {NoConfig}
  /\ queued \in BOOLEAN
  /\ pass \in Pass
  /\ bounds \in Bounds
  /\ ran \in [Revisions -> Nat]
  /\ owed \in SUBSET Revisions

-----------------------------------------------------------------------------
(* The API server and the caches.                                          *)

Exists(j) == j.state # "absent"

StoreGateway(g) ==
  /\ gw' = g
  /\ gwEvents' = Append(gwEvents, g)

\* The Job of revision r becomes j, now or, when the Jobs' cache lags, later
\* in the cache.  An event of an owned Job enqueues the gateway.
StoreJob(r, j) ==
  /\ jobs' = [jobs EXCEPT ![r] = j]
  /\ IF MaxLag = 0
       THEN jobCache' = jobs' /\ queued' = TRUE /\ UNCHANGED jobEvents
       ELSE /\ Len(jobEvents) < MaxLag
            /\ jobEvents' = Append(jobEvents, [rev |-> r, job |-> j])
            /\ UNCHANGED <<jobCache, queued>>

MayFail == "faults" \in Events /\ bounds.faults > 0
Spend   == bounds' = [bounds EXCEPT !.faults = @ - 1]

-----------------------------------------------------------------------------
(* The pass.                                                               *)

IdlePass ==
  LET g == [rev |-> CHOOSE r \in Revisions : TRUE, knob |-> Unset, enabled |-> FALSE,
            last |-> NoRevision, gen |-> 0]
  IN [at |-> "idle", gw |-> g, before |-> g, current |-> FALSE, redo |-> FALSE, failed |-> FALSE]

Read ==
  /\ pass.at = "idle" /\ queued
  /\ queued' = FALSE
  /\ pass' = [IdlePass EXCEPT !.at = "look", !.gw = gwCache, !.before = gwCache,
                              !.current = (gwEvents = <<>>)]
  /\ UNCHANGED <<gw, gwCache, gwEvents, store, rolledOut, bounds, history>>

\* postRestartRolloutDone.
RolloutDone(g) == rolledOut = ConfigOf(g.rev)

\* A mutant: a failed Job is always re-created.
ExecutionKnobsAlwaysChanged(spec, job) == TRUE

\* postRestartJobExecutionKnobsChanged: a knob the spec does not set never
\* counts as changed.
ExecutionKnobsChanged(spec, job) == spec # Unset /\ spec # job.knob

\* A mutant: whatever did not succeed may be re-created, running Jobs too.
WantsRedoUnlessSucceeded(g) ==
  /\ g.enabled /\ g.last = g.rev
  /\ jobCache[g.rev].state \in {"running", "failed"}
  /\ ExecutionKnobsChanged(g.knob, jobCache[g.rev])
  /\ RolloutDone(g)

\* reconcileExistingPostRestartRevision decides to re-create: the recorded
\* revision's Job failed, a knob changed and the rollout is done.  A Job that
\* is gone, succeeded or is still running is left alone.
WantsRedo(g) ==
  /\ g.enabled /\ g.last = g.rev
  /\ jobCache[g.rev].state = "failed"
  /\ ExecutionKnobsChanged(g.knob, jobCache[g.rev])
  /\ RolloutDone(g)

\* reconcilePostRestartJob goes on for a revision that is not recorded.
WantsRun(g) == g.enabled /\ g.last # g.rev /\ RolloutDone(g)

\* The branches that leave everything as it is.
Skip ==
  /\ pass.at = "look" /\ ~WantsRedo(pass.gw) /\ ~WantsRun(pass.gw)
  /\ pass' = [pass EXCEPT !.at = "finish"]
  /\ UNCHANGED <<gw, gwCache, gwEvents, store, rolledOut, queued, bounds, history>>

\* The Deployment or the Job cannot be read.
LookFailed ==
  /\ pass.at = "look" /\ pass.gw.enabled /\ MayFail /\ Spend
  /\ pass' = [pass EXCEPT !.at = "finish", !.failed = TRUE]
  /\ UNCHANGED <<gw, gwCache, gwEvents, store, rolledOut, queued, history>>

\* A Job of that name exists: it is adopted as the revision's.
Adopt ==
  /\ pass.at = "look" /\ WantsRun(pass.gw) /\ Exists(jobCache[pass.gw.rev])
  /\ pass' = [pass EXCEPT !.at = "finish", !.gw.last = pass.gw.rev]
  /\ UNCHANGED <<gw, gwCache, gwEvents, store, rolledOut, queued, bounds, history>>

\* A mutant: the revision is recorded before its Job is created.
StartRunRecorded ==
  /\ pass.at = "look" /\ WantsRun(pass.gw) /\ ~Exists(jobCache[pass.gw.rev])
  /\ pass' = [pass EXCEPT !.at = "create", !.gw.last = pass.gw.rev]
  /\ UNCHANGED <<gw, gwCache, gwEvents, store, rolledOut, queued, bounds, history>>

StartRun ==
  /\ pass.at = "look" /\ WantsRun(pass.gw) /\ ~Exists(jobCache[pass.gw.rev])
  /\ pass' = [pass EXCEPT !.at = "create"]
  /\ UNCHANGED <<gw, gwCache, gwEvents, store, rolledOut, queued, bounds, history>>

StartRedo ==
  /\ pass.at = "look" /\ WantsRedo(pass.gw)
  /\ pass' = [pass EXCEPT !.at = "clear", !.redo = TRUE, !.gw.last = NoRevision]
  /\ UNCHANGED <<gw, gwCache, gwEvents, store, rolledOut, queued, bounds, history>>

\* A mutant: the cleared record stays in memory until the end of the pass.
ClearInMemory ==
  /\ pass.at = "clear"
  /\ pass' = [pass EXCEPT !.at = "delete"]
  /\ UNCHANGED <<gw, gwCache, gwEvents, store, rolledOut, queued, bounds, history>>

\* The cleared record is flushed before the Job is deleted; an error leaves it
\* cleared in the pass's copy, to be written at the end of the pass.
Clear ==
  /\ pass.at = "clear"
  /\ \/ /\ pass.current /\ StoreGateway(pass.gw)
        /\ pass' = [pass EXCEPT !.at = "delete"]
        /\ UNCHANGED bounds
     \/ /\ IF pass.current THEN MayFail /\ Spend ELSE UNCHANGED bounds
        /\ pass' = [pass EXCEPT !.at = "finish", !.redo = FALSE, !.failed = TRUE]
        /\ UNCHANGED <<gw, gwEvents>>
     \/ /\ pass.current /\ MayFail /\ Spend /\ StoreGateway(pass.gw)
        /\ pass' = [pass EXCEPT !.at = "finish", !.redo = FALSE, !.failed = TRUE, !.current = FALSE]
  /\ UNCHANGED <<gwCache, store, rolledOut, queued, history>>

\* The Job is deleted by name, in the background: the object may linger.  A
\* Job that is gone already is no error.
Delete ==
  LET r == pass.gw.rev
  IN /\ pass.at = "delete"
     /\ \/ /\ pass' = [pass EXCEPT !.at = "create"]
           /\ IF Exists(jobs[r]) /\ ~jobs[r].going
                THEN \/ StoreJob(r, NoJob)
                     \/ "linger" \in Events /\ StoreJob(r, [jobs[r] EXCEPT !.going = TRUE])
                ELSE UNCHANGED <<store, queued>>
           /\ owed' = owed \cup {r}
           /\ UNCHANGED bounds
        \/ /\ MayFail /\ Spend
           /\ pass' = [pass EXCEPT !.at = "finish", !.redo = FALSE, !.failed = TRUE]
           /\ UNCHANGED <<store, queued, owed>>
     /\ UNCHANGED <<gw, gwCache, gwEvents, rolledOut, ran>>

\* BuildPostRestartJob: an unset knob gets the operator's default.
BuildJob(g) ==
  [state |-> "running", knob |-> IF g.knob = Unset THEN DefaultKnob ELSE g.knob, going |-> FALSE]

\* The Job is created and the revision recorded in the pass's copy.
Create ==
  LET r == pass.gw.rev
  IN /\ pass.at = "create" /\ ~Exists(jobs[r])
     /\ StoreJob(r, BuildJob(pass.gw))
     /\ ran' = [ran EXCEPT ![r] = @ + 1]
     /\ owed' = owed \ {r}
     /\ \/ pass' = [pass EXCEPT !.at = "finish", !.gw.last = r] /\ UNCHANGED bounds
        \/ /\ MayFail /\ Spend  \* the answer is lost
           /\ pass' = [pass EXCEPT !.at = "finish", !.redo = FALSE, !.failed = TRUE]
     /\ UNCHANGED <<gw, gwCache, gwEvents, rolledOut>>

\* A Job of that name exists after all (no error), or the call fails.
CreateFailed ==
  /\ pass.at = "create"
  /\ \/ /\ Exists(jobs[pass.gw.rev]) /\ UNCHANGED bounds
        /\ pass' = [pass EXCEPT !.at = "finish", !.redo = FALSE]
     \/ /\ MayFail /\ Spend
        /\ pass' = [pass EXCEPT !.at = "finish", !.redo = FALSE, !.failed = TRUE]
  /\ UNCHANGED <<gw, gwCache, gwEvents, store, rolledOut, queued, history>>

EndPass(failed) == pass' = IdlePass /\ queued' = (queued \/ failed)

\* updateStatusIfChanged at the end of the pass.  A re-created Job also
\* changes the PostRestartJobSkipped condition, so its record is written
\* although it equals the one that was read.
Finish ==
  /\ pass.at = "finish"
  /\ IF pass.gw = pass.before /\ ~pass.redo
       THEN EndPass(pass.failed) /\ UNCHANGED <<gw, gwEvents, bounds>>
       ELSE \/ /\ pass.current /\ StoreGateway(pass.gw)
               /\ EndPass(pass.failed) /\ UNCHANGED bounds
            \/ /\ IF pass.current THEN MayFail /\ Spend ELSE UNCHANGED bounds
               /\ EndPass(TRUE) /\ UNCHANGED <<gw, gwEvents>>
            \/ /\ pass.current /\ MayFail /\ Spend /\ StoreGateway(pass.gw)
               /\ EndPass(TRUE)
  /\ UNCHANGED <<gwCache, store, rolledOut, history>>

PassStep ==
  \/ Read \/ Skip \/ LookFailed \/ Adopt \/ StartRun \/ StartRedo \/ Clear \/ Delete
  \/ Create \/ CreateFailed \/ Finish

-----------------------------------------------------------------------------
(* The environment.                                                        *)

\* The operator restarts: its caches are listed anew.
Crash ==
  /\ "crash" \in Events /\ MayFail /\ pass.at # "idle"
  /\ Spend
  /\ pass' = IdlePass /\ queued' = TRUE
  /\ gwCache' = gw /\ gwEvents' = <<>>
  /\ jobCache' = jobs /\ jobEvents' = <<>>
  /\ UNCHANGED <<gw, jobs, rolledOut, history>>

DeliverGateway ==
  /\ gwEvents # <<>>
  /\ gwCache' = Head(gwEvents) /\ gwEvents' = Tail(gwEvents)
  /\ queued' = TRUE
  /\ UNCHANGED <<gw, store, rolledOut, pass, bounds, history>>

DeliverJob ==
  /\ jobEvents # <<>>
  /\ jobCache' = [jobCache EXCEPT ![Head(jobEvents).rev] = Head(jobEvents).job]
  /\ jobEvents' = Tail(jobEvents)
  /\ queued' = TRUE
  /\ UNCHANGED <<gw, gwCache, gwEvents, jobs, rolledOut, pass, bounds, history>>

\* The gateway's spec or its applied config is edited: a new stored version,
\* so the pass's copy is no longer current.
Edit(g) ==
  /\ g # gw /\ bounds.edits > 0
  /\ bounds' = [bounds EXCEPT !.edits = @ - 1]
  /\ StoreGateway([g EXCEPT !.gen = @ + 1])
  /\ pass' = [pass EXCEPT !.current = FALSE]
  /\ UNCHANGED <<gwCache, store, rolledOut, queued, history>>

\* A new config, or an edit of the script, image or the like.
ChangeRevision(r) == "revision" \in Events /\ Edit([gw EXCEPT !.rev = r])

ChangeKnob(k) == "knob" \in Events /\ Edit([gw EXCEPT !.knob = k])

Toggle == "toggle" \in Events /\ Edit([gw EXCEPT !.enabled = ~@])

\* The Deployment's cache shows it converged; the gateway owns it.
RollOut ==
  /\ rolledOut # ConfigOf(gw.rev)
  /\ rolledOut' = ConfigOf(gw.rev)
  /\ queued' = TRUE
  /\ UNCHANGED <<gw, gwCache, gwEvents, store, pass, bounds, history>>

\* The Deployment is scaled to zero or loses pods.
Unroll ==
  /\ "unroll" \in Events /\ rolledOut # NoConfig /\ bounds.edits > 0
  /\ bounds' = [bounds EXCEPT !.edits = @ - 1]
  /\ rolledOut' = NoConfig
  /\ queued' = TRUE
  /\ UNCHANGED <<gw, gwCache, gwEvents, store, pass, history>>

\* The Job controller (external): a running Job ends.
JobEnds(r, s) ==
  /\ jobs[r].state = "running" /\ s \in {"succeeded", "failed"}
  /\ s = "failed" => "fail" \in Events
  /\ StoreJob(r, [jobs[r] EXCEPT !.state = s])
  /\ UNCHANGED <<gw, gwCache, gwEvents, rolledOut, pass, bounds, history>>

\* The TTL controller removes a finished Job, and the API server one whose
\* deletion lingered.
JobRemoved(r) ==
  /\ \/ jobs[r].going /\ UNCHANGED bounds
     \/ /\ jobs[r].state \in {"succeeded", "failed"} /\ bounds.removals > 0
        /\ bounds' = [bounds EXCEPT !.removals = @ - 1]
  /\ StoreJob(r, NoJob)
  /\ UNCHANGED <<gw, gwCache, gwEvents, rolledOut, pass, history>>

EnvStep ==
  \/ Crash \/ DeliverGateway \/ DeliverJob
  \/ \E r \in Revisions : ChangeRevision(r)
  \/ \E k \in Knobs \cup {Unset} : ChangeKnob(k)
  \/ Toggle \/ RollOut \/ Unroll
  \/ \E r \in Revisions : JobRemoved(r) \/ \E s \in {"succeeded", "failed"} : JobEnds(r, s)

-----------------------------------------------------------------------------
(* The specification.                                                      *)

Init ==
  /\ \E r \in Revisions, k \in Knobs \cup {Unset} :
       gw = [rev |-> r, knob |-> k, enabled |-> TRUE, last |-> NoRevision, gen |-> 0]
  /\ gwCache = gw /\ gwEvents = <<>>
  /\ jobs = [r \in Revisions |-> NoJob] /\ jobCache = jobs /\ jobEvents = <<>>
  /\ rolledOut = NoConfig
  /\ queued = TRUE
  /\ pass = IdlePass
  /\ bounds = [edits |-> MaxEdits, faults |-> MaxFaults, removals |-> MaxRemovals]
  /\ ran = [r \in Revisions |-> 0]
  /\ owed = {}

Next == PassStep \/ EnvStep

Spec == Init /\ [][Next]_vars

\* controller-runtime runs queued passes, informers deliver, rollouts and
\* deletions complete.
Fairness ==
  /\ WF_vars(PassStep) /\ WF_vars(DeliverGateway) /\ WF_vars(DeliverJob) /\ WF_vars(RollOut)
  /\ \A r \in Revisions : WF_vars(jobs[r].going /\ JobRemoved(r))

FairSpec == Spec /\ Fairness

-----------------------------------------------------------------------------
(* Properties.                                                             *)

\* A revision that the status names as run had a Job, whatever was lost,
\* stale or interrupted: no gateway skips a script that never started.
RecordedRan == gw.last # NoRevision => ran[gw.last] > 0

\* The operator deletes a Job only after it failed: a running script is never
\* killed and a successful one never repeated ("Job still running: skip",
\* reconcileExistingPostRestartRevision).
OnlyFailedJobsDeleted ==
  [][ pass.at = "delete" /\ pass' # pass /\ jobs' # jobs
        => jobs[pass.gw.rev].state = "failed" ]_vars

\* Loop safety: a Job is started again only after an edit of the knobs, or
\* when the TTL controller took it away before its record was written, so a
\* script that keeps failing does not run on every pass.
NoRetryLoop ==
  \A r \in Revisions :
    ran[r] <= 1 + (MaxEdits - bounds.edits) + (MaxRemovals - bounds.removals)

\* The Deployment has converged on the config of an enabled Job.
Settled == gw.enabled /\ rolledOut = ConfigOf(gw.rev)

\* Edits being bounded, the revision settles.  Once it has rolled out, its
\* script runs.
RolledOutRevisionRuns == <>[](Settled => ran[gw.rev] > 0)

\* Passes look at Jobs as they are: no event is pending, no deletion lingers.
SeenAsTheyAre == pass.at = "look" => jobEvents = <<>> /\ \A r \in Revisions : ~jobs[r].going

\* A Job deleted to be replaced is replaced: neither a failed create nor a
\* crash between the delete and the create strands the revision, unless a pass
\* takes the Job that is going for the one that replaces it.
DeletedJobIsReplaced ==
  []SeenAsTheyAre => <>[](Settled => gw.rev \notin owed)

\* The script of a revision that settles runs, and one whose Job was deleted to
\* run it again does so (reconcilePostRestartJob).
RevisionRuns == RolledOutRevisionRuns /\ DeletedJobIsReplaced
=============================================================================
