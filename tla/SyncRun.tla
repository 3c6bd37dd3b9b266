------------------------------- MODULE SyncRun -------------------------------
(***************************************************************************)
(* One sync run: the row of sync_jobs that a manual or scheduled sync      *)
(* inserts (requestSync, apps/api/src/operations-postgres.ts), the         *)
(* collect-source jobs it publishes, one for each enabled source, and the  *)
(* completion of a source (advanceSyncJob in operations.ts, called by      *)
(* updateSyncJobCompletion of control-plane-postgres.ts in the transaction *)
(* of finishJob).                                                          *)
(*                                                                         *)
(* The jobs are rows of JobLedger, some of whose keys are the sources of   *)
(* this run (the dedupe key is collect:<source>:<run>), each with the one  *)
(* job id it is published under; the steps of other jobs do not concern    *)
(* the run and are JobLedger's.  Error text and finished_at follow the     *)
(* status and are left out: both are NULL while running, finished_at is    *)
(* set otherwise and the error exactly when the run has failed.            *)
(***************************************************************************)
EXTENDS JobLedger

CONSTANTS
    Sources,     \* the keys that are sources of this run
    AnswerLost,  \* may sendBatch fail although the queue took the jobs?
    Evicted      \* may the requester vanish between two of its statements?

ASSUME SyncAssumption ==
    /\ Sources \subseteq Keys \ ArticleKeys
    /\ \A i, j \in JobIds : KeyOf[i] = KeyOf[j] /\ KeyOf[i] \in Sources => i = j
    /\ \A k \in Sources : \E j \in JobIds : KeyOf[j] = k
    /\ AnswerLost \in BOOLEAN
    /\ Evicted \in BOOLEAN

VARIABLES
    run,        \* the row of sync_jobs
    requester,  \* where requestSync stands
    sent        \* job ids the queue took

syncVars == <<ledgerVars, run, requester, sent>>

Results == {"none", "done", "failed"}

\* stats: what the run knows of each source; queued: the sources it waits for
RunRow ==
    [status : {"none", "running", "done", "failed"},
     queued : SUBSET Sources,
     stats  : [Sources -> Results]]

NoRun == [status |-> "none", queued |-> {}, stats |-> [k \in Sources |-> "none"]]

SyncTypeOK ==
    /\ JobTypeOK
    /\ run \in RunRow
    /\ requester \in {"idle", "inserted", "refused", "answered", "thrown", "evicted"}
    /\ sent \in SUBSET JobIds

SyncInit ==
    /\ JobInit
    /\ run = NoRun
    /\ requester = "idle"
    /\ sent = {}

-----------------------------------------------------------------------------
(***************************************************************************)
(* requestSync                                                             *)
(***************************************************************************)
JobsOf(sources) == {j \in JobIds : KeyOf[j] \in sources}

InsertRun(sources) ==
    /\ requester = "idle"
    /\ run' = [NoRun EXCEPT !.status = IF sources = {} THEN "done" ELSE "running",
                            !.queued = sources]
    /\ requester' = "inserted"
    /\ UNCHANGED <<ledgerVars, sent>>

\* at most ten small jobs: sendBatch makes one call to the queue, or none
SendJobs ==
    /\ requester = "inserted"
    /\ sent' = JobsOf(run.queued)
    /\ requester' = "answered"
    /\ UNCHANGED <<ledgerVars, run>>

SendFails ==
    /\ requester = "inserted" /\ run.queued # {}
    /\ \/ sent' = sent
       \/ AnswerLost /\ sent' = JobsOf(run.queued)
    /\ requester' = "refused"
    /\ UNCHANGED <<ledgerVars, run>>

\* the catch block: the row is marked failed, whatever it says by now
MarkFailed ==
    /\ requester = "refused"
    /\ run' = [run EXCEPT !.status = "failed"]
    /\ requester' = "thrown"
    /\ UNCHANGED <<ledgerVars, sent>>

Evict ==
    /\ Evicted
    /\ requester \in {"inserted", "refused"}
    /\ requester' = "evicted"
    /\ UNCHANGED <<ledgerVars, run, sent>>

-----------------------------------------------------------------------------
(***************************************************************************)
(* Completion of a source                                                  *)
(***************************************************************************)
LastWord(r, source, result) ==
    LET stats == [r.stats EXCEPT ![source] = result] IN
    [r EXCEPT !.stats = stats,
              !.status = IF result = "failed" THEN "failed"
                         ELSE IF \E s \in r.queued : stats[s] = "none" THEN "running"
                         ELSE "done"]

\* advanceSyncJob: the status is computed from the statistics alone
Advance(r, source, result) ==
    LET stats   == [r.stats EXCEPT ![source] = result]
        waiting == \E s \in r.queued : stats[s] = "none"
        failed  == \E s \in r.queued : stats[s] = "failed"
    IN
    IF source \notin r.queued
    THEN [r EXCEPT !.status = "running"]
    ELSE [r EXCEPT !.stats = stats,
                   !.status = IF waiting THEN "running"
                              ELSE IF failed THEN "failed" ELSE "done"]

Collect(j) ==
    /\ j \in sent
    /\ ClaimJob(j)
    /\ UNCHANGED <<run, requester, sent>>

CollectDone(j) ==
    /\ FinishDone(j)
    /\ run' = Advance(run, KeyOf[j], "done")
    /\ UNCHANGED <<requester, sent>>

CollectFailedAtOnce(j, permanent) ==
    /\ FinishFailed(j, permanent)
    /\ run' = Advance(run, KeyOf[j], "failed")
    /\ UNCHANGED <<requester, sent>>

\* only the failure that kills the job completes its source
CollectFailed(j, permanent) ==
    /\ FinishFailed(j, permanent)
    /\ run' = IF Fatal(jobs[KeyOf[j]], permanent)
              THEN Advance(run, KeyOf[j], "failed") ELSE run
    /\ UNCHANGED <<requester, sent>>

CollectAgain(j) ==
    /\ FinishAgain(j)
    /\ UNCHANGED <<run, requester, sent>>

SyncTick ==
    /\ JobTick
    /\ UNCHANGED <<run, requester, sent>>

Requester ==
    \/ \E sources \in SUBSET Sources : InsertRun(sources)
    \/ SendJobs
    \/ SendFails
    \/ MarkFailed
    \/ Evict

Finish(j) ==
    \/ CollectDone(j)
    \/ \E permanent \in BOOLEAN : CollectFailed(j, permanent)

SyncNext ==
    \/ Requester
    \/ \E j \in JobsOf(Sources) : Collect(j) \/ Finish(j) \/ CollectAgain(j)
    \/ SyncTick

SyncSpec == SyncInit /\ [][SyncNext]_syncVars

\* The queue delivers what it took, and a worker that claimed a job ends it
\* (its catch block reports a failure).  requestSync runs on unless it is
\* evicted.
SyncFairness ==
    /\ WF_syncVars(SendJobs \/ SendFails)
    /\ WF_syncVars(MarkFailed)
    /\ \A j \in JobsOf(Sources) : WF_syncVars(Collect(j)) /\ WF_syncVars(Finish(j))

FairSync == SyncSpec /\ SyncFairness

-----------------------------------------------------------------------------
(***************************************************************************)
(* Correctness                                                             *)
(***************************************************************************)

\* The run and the job ledger never disagree about a source: the statistics
\* of a run say of each source it waits for what the source's job has come to
\* (one transaction writes both rows).
ResultsOfJobs ==
    \A j \in JobIds :
        KeyOf[j] \in run.queued =>
            run.stats[KeyOf[j]] =
                CASE jobs[KeyOf[j]].status = "done" -> "done"
                  [] jobs[KeyOf[j]].status = "dead" -> "failed"
                  [] OTHER -> "none"

\* what the jobs of the run have come to
Verdict ==
    IF \E j \in JobsOf(run.queued) : jobs[KeyOf[j]].status \notin {"done", "dead"}
    THEN "running"
    ELSE IF \E j \in JobsOf(run.queued) : jobs[KeyOf[j]].status = "dead" THEN "failed"
    ELSE "done"

\* The status of a run is the verdict over its jobs: running as long as one of
\* them is open, done when all have succeeded, in whatever order they end and
\* however often they are delivered.  Only a run whose requester has seen the
\* send fail may be failed without that verdict.
StatusIsVerdict ==
    run.status # "none" =>
        \/ run.status = Verdict
        \/ run.status = "failed" /\ requester = "thrown"

\* What the console shows of a run is what the ledger knows of its jobs.
RunTellsJobs == ResultsOfJobs /\ StatusIsVerdict

\* A run that has ended stays as it ended: no completion and no failed send
\* reopens or rewrites it.  The one exception is a run whose requester was told
\* that the send failed although the queue took the jobs.
EndedRunStays ==
    [][/\ run.status \in {"done", "failed"}
       /\ requester \in {"refused", "thrown"} => sent = {}
       => run'.status = run.status]_syncVars

\* A run whose jobs were sent does not stay running.
SentRunEnds == requester = "answered" ~> run.status \in {"done", "failed"}

\* A run whose jobs were sent ends, and ends once.
RunSettles == SentRunEnds /\ EndedRunStays
=============================================================================
