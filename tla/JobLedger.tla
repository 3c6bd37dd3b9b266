------------------------------ MODULE JobLedger ------------------------------
(***************************************************************************)
(* The job ledger of the control plane: worker_jobs, worker_job_envelopes  *)
(* and worker_dead_letters, with claimJob and finishJob                    *)
(* (apps/api/src/control-plane-postgres.ts), decideJobTransition           *)
(* (job-retry-policy.ts) and the revival of a dead letter                  *)
(* (control-plane-postgres-replay.ts).  Each is one transaction that locks *)
(* the job's row, so each is one action.                                   *)
(*                                                                         *)
(* The same item may be published many times, each time under a new job id *)
(* (randomUuid) and always under the same dedupe key; the ledger has one   *)
(* row per dedupe key.  The attempt and deferral counters nothing reads    *)
(* back are left out.                                                      *)
(***************************************************************************)
EXTENDS Naturals

CONSTANTS
    Keys,         \* dedupe keys
    JobIds,       \* job ids
    KeyOf,        \* the dedupe key a job id was made for
    ArticleKeys,  \* keys of dispatch-item jobs whose item is an article
    NoJob,        \* no job id
    Stale,        \* ticks after which a processing row may be taken over
    MaxWait       \* the longest deferral, in ticks

ASSUME LedgerAssumption ==
    /\ KeyOf \in [JobIds -> Keys]
    /\ ArticleKeys \subseteq Keys
    /\ NoJob \notin JobIds
    /\ Stale \in Nat
    /\ MaxWait \in Nat

VARIABLES
    jobs,       \* worker_jobs, one row per dedupe key
    envelopes,  \* worker_job_envelopes: the stored job of an article, by job id
    letters     \* worker_dead_letters, by job id: is envelope_job_id set?

ledgerVars == <<jobs, envelopes, letters>>

Budget    == 3    \* decideJobTransition: failureAttempts >= 3 is dead
Terminal  == {"done", "dead", "uncertain"}
Open      == {"processing", "deferred", "failed"}

\* age: ticks since updated_at, counted while somebody may compare it (the
\* row is processing) and only up to the point where the row is stale.
\* wait: ticks until deferred_until.
JobRow ==
    [status   : {"absent"} \cup Open \cup Terminal,
     job      : JobIds \cup {NoJob},
     failures : 0..Budget,
     age      : 0..(Stale + 1),
     wait     : 0..MaxWait]

NoJobRow ==
    [status |-> "absent", job |-> NoJob, failures |-> 0, age |-> 0, wait |-> 0]

JobTypeOK ==
    /\ jobs \in [Keys -> JobRow]
    /\ envelopes \in [JobIds -> {"none", "active", "dead", "uncertain"}]
    /\ letters \in [JobIds -> {"none", "linked", "unlinked"}]

JobInit ==
    /\ jobs = [k \in Keys |-> NoJobRow]
    /\ envelopes = [j \in JobIds |-> "none"]
    /\ letters = [j \in JobIds |-> "none"]

-----------------------------------------------------------------------------
(***************************************************************************)
(* claimJob                                                                *)
(***************************************************************************)
IsStale(row) == row.age > Stale

BusyForEver(row)       == row.status = "processing"
DuplicateWhenDone(row) == row.status = "done"

\* the answers of claimJob that leave the ledger alone
Duplicate(row) == row.status \in Terminal
Waiting(row)   == row.status = "deferred" /\ row.wait > 0
Busy(row)      == row.status = "processing" /\ ~IsStale(row)

Claimable(row) == ~Duplicate(row) /\ ~Waiting(row) /\ ~Busy(row)

EnvelopePerClaim(j) ==
    LET k == KeyOf[j] IN
    /\ Claimable(jobs[k])
    /\ jobs' = [jobs EXCEPT ![k] =
                   [status |-> "processing", job |-> j, failures |-> @.failures,
                    age |-> 0, wait |-> 0]]
    /\ envelopes' = IF k \in ArticleKeys THEN [envelopes EXCEPT ![j] = "active"]
                    ELSE envelopes
    /\ UNCHANGED letters

\* The first claim of a key inserts its row, with the envelope of an article.
\* A later one puts its own job id into the row; the envelope stays where the
\* first claim put it.
ClaimJob(j) ==
    LET k == KeyOf[j] IN
    /\ Claimable(jobs[k])
    /\ jobs' = [jobs EXCEPT ![k] =
                   [status |-> "processing", job |-> j, failures |-> @.failures,
                    age |-> 0, wait |-> 0]]
    /\ envelopes' = IF jobs[k].status = "absent" /\ k \in ArticleKeys
                    THEN [envelopes EXCEPT ![j] = "active"] ELSE envelopes
    /\ UNCHANGED letters

-----------------------------------------------------------------------------
(***************************************************************************)
(* finishJob.  The row is looked up by job id: when there is none the call *)
(* throws; when its status is terminal the answer is "ack" and nothing     *)
(* changes.                                                                *)
(***************************************************************************)
HasRow(j)  == jobs[KeyOf[j]].job = j
Settled(j) == HasRow(j) /\ jobs[KeyOf[j]].status \in Terminal
Opened(j)  == HasRow(j) /\ jobs[KeyOf[j]].status \in Open

FinishDeferred(j, wait) ==
    /\ Opened(j)
    /\ jobs' = [jobs EXCEPT ![KeyOf[j]] =
                   [@ EXCEPT !.status = "deferred", !.wait = wait, !.age = 0]]
    /\ UNCHANGED <<envelopes, letters>>

FinishUncertain(j) ==
    /\ Opened(j)
    /\ jobs' = [jobs EXCEPT ![KeyOf[j]] = [@ EXCEPT !.status = "uncertain", !.age = 0]]
    /\ envelopes' = IF envelopes[j] = "none" THEN envelopes
                    ELSE [envelopes EXCEPT ![j] = "uncertain"]
    /\ UNCHANGED letters

FinishDone(j) ==
    /\ Opened(j)
    /\ jobs' = [jobs EXCEPT ![KeyOf[j]] =
                   [@ EXCEPT !.status = "done", !.wait = 0, !.age = 0]]
    /\ envelopes' = [envelopes EXCEPT ![j] = "none"]
    /\ UNCHANGED letters

FatalLate(row, permanent) == permanent \/ row.failures >= Budget

\* decideJobTransition: a permanent failure is fatal, and so is the third
Fatal(row, permanent) == permanent \/ row.failures + 1 >= Budget

FinishFailed(j, permanent) ==
    LET k     == KeyOf[j]
        fatal == Fatal(jobs[k], permanent)
    IN
    /\ Opened(j)
    /\ jobs' = [jobs EXCEPT ![k] =
                   [@ EXCEPT !.status = IF fatal THEN "dead" ELSE "failed",
                             !.failures = jobs[k].failures + 1, !.wait = 0, !.age = 0]]
    /\ envelopes' = IF fatal /\ envelopes[j] # "none"
                    THEN [envelopes EXCEPT ![j] = "dead"] ELSE envelopes
    /\ letters' = IF fatal
                  THEN [letters EXCEPT ![j] =
                           IF envelopes[j] # "none" THEN "linked" ELSE "unlinked"]
                  ELSE letters

\* finishJob on a row that is terminal already
FinishAgain(j) == Settled(j) /\ UNCHANGED ledgerVars

-----------------------------------------------------------------------------
(***************************************************************************)
(* Replay of a dead letter: what the transaction does to these tables      *)
(***************************************************************************)

\* a dead letter whose envelope can still be read
Replayable(j) == letters[j] = "linked" /\ envelopes[j] = "dead"

ReviveWithoutEnvelope(j) ==
    LET k == KeyOf[j] IN
    /\ Replayable(j)
    /\ jobs' = IF HasRow(j) /\ jobs[k].status = "dead"
               THEN [jobs EXCEPT ![k] = [@ EXCEPT !.status = "failed", !.failures = 0]]
               ELSE jobs
    /\ UNCHANGED <<envelopes, letters>>

ReviveDead(j) ==
    LET k == KeyOf[j] IN
    /\ Replayable(j)
    /\ jobs' = IF HasRow(j) /\ jobs[k].status = "dead"
               THEN [jobs EXCEPT ![k] = [@ EXCEPT !.status = "failed", !.failures = 0]]
               ELSE jobs
    /\ envelopes' = [envelopes EXCEPT ![j] = "active"]
    /\ UNCHANGED letters

-----------------------------------------------------------------------------
\* one tick of the clock, for one row
Older(row) ==
    [row EXCEPT !.age = IF row.status = "processing" /\ ~IsStale(row) THEN @ + 1 ELSE @,
                !.wait = IF @ = 0 THEN 0 ELSE @ - 1]

JobTick ==
    /\ jobs' = [k \in Keys |-> Older(jobs[k])]
    /\ UNCHANGED <<envelopes, letters>>

(***************************************************************************)
(* The ledger under the most general clients: any job id is claimed and    *)
(* finished at any time, in time or late, by anybody.                      *)
(***************************************************************************)
JobNext ==
    \/ \E j \in JobIds :
          \/ ClaimJob(j)
          \/ \E wait \in 0..MaxWait : FinishDeferred(j, wait)
          \/ FinishUncertain(j)
          \/ FinishDone(j)
          \/ \E permanent \in BOOLEAN : FinishFailed(j, permanent)
          \/ FinishAgain(j)
          \/ ReviveDead(j)
    \/ JobTick

JobSpec == JobInit /\ [][JobNext]_ledgerVars

-----------------------------------------------------------------------------
(***************************************************************************)
(* Correctness                                                             *)
(***************************************************************************)

\* A dead envelope belongs to the dead row of its own job, whose dead letter
\* points at it: reviving it can only ever revive that row (one transaction
\* writes the three tables; claimJob never takes over a dead row).
DeadEnvelopeHasDeadJob ==
    \A j \in JobIds :
        envelopes[j] = "dead" =>
            /\ HasRow(j)
            /\ jobs[KeyOf[j]].status = "dead"
            /\ letters[j] = "linked"

\* A key never has two envelopes, so the UNIQUE (dedupe_key) constraint on
\* worker_job_envelopes never aborts a claim, and an envelope whose job id the
\* row no longer carries can only be an active one.
OneEnvelopePerKey ==
    \A i, j \in JobIds :
        /\ KeyOf[i] = KeyOf[j] /\ envelopes[i] # "none" /\ envelopes[j] # "none" => i = j
        /\ envelopes[j] # "none" /\ ~HasRow(j) => envelopes[j] = "active"

\* The failure budget is spent exactly by dying: a row that may be claimed
\* again has an attempt left, and a dead row has a dead letter
\* (decideJobTransition; deferrals and take-overs spend nothing).
BudgetKept ==
    \A k \in Keys :
        /\ jobs[k].status \in Open => jobs[k].failures < Budget
        /\ jobs[k].status = "dead" =>
              jobs[k].failures >= 1 /\ letters[jobs[k].job] # "none"

\* Rows, envelopes and dead letters, which three tables keep, agree.
LedgerSafe == DeadEnvelopeHasDeadJob /\ OneEnvelopePerKey /\ BudgetKept

\* Done and uncertain are for ever; a dead row comes back only as failed, with
\* a full budget, by the replay of its own letter and together with its
\* envelope.
TerminalIsFinal ==
    [][\A k \in Keys :
          jobs[k].status \in Terminal /\ jobs'[k].status # jobs[k].status =>
              LET j == jobs[k].job IN
              /\ jobs[k].status = "dead"
              /\ jobs'[k].status = "failed" /\ jobs'[k].failures = 0
              /\ jobs'[k].job = j
              /\ envelopes[j] = "dead" /\ envelopes'[j] = "active"]_ledgerVars

\* "new DLQ and envelope state are written in one batch, to avoid a dead letter
\* without recovery material" (openspec, article queue retry safety): every
\* dead article can be replayed.
DeadArticleReplayable ==
    \A k \in ArticleKeys : jobs[k].status = "dead" => Replayable(jobs[k].job)
=============================================================================
