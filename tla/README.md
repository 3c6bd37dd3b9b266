# inbox-server: a TLA+ model of its dispatch pipeline

inbox-server collects items (links, texts, files, articles) from a person's
accounts and delivers each of them to its destinations. The delivery is the
part in which things can go wrong for good: an item can be lost, written twice,
or declared delivered when it is not. It runs through a Cloudflare queue, a
lease inbox, a ledger of jobs, a ledger of external effects and any number of
browser workers, none of which can be trusted to answer.

This directory models that pipeline and what surrounds it, checks it with TLC on
small instances and proves part of it for every instance with TLAPS. Paths below
are relative to the repository root.

## The system

| Component | State | Operations | Properties that make it correct |
|---|---|---|---|
| Queue producer (`apps/api/src/queue-producer.ts`, `publishJobs`) | Cloudflare queue | `sendBatch` | nothing is published half |
| Queue consumer (`apps/api/src/index.ts`) | none | `stageQueueBatch`, `wakeWorker` | staged before acknowledged |
| Lease inbox (`queue-inbox-postgres.ts`) | `worker_inbox` | `stage`, `pull`, `settle` | a lease is exclusive; a message is never lost; a late settlement hurts nobody |
| Job ledger (`control-plane-postgres.ts`, `job-retry-policy.ts`) | `worker_jobs`, `worker_job_envelopes`, `worker_dead_letters` | `claimJob`, `finishJob` | one executor per item; terminal states are final; a failure budget of three |
| Effect ledger (`control-plane-postgres-effects.ts`) | `worker_effects` | `claimEffect`, `finishEffect` | one write per item and destination |
| Rate limits (same file) | `worker_rate_limits`, `worker_rate_limit_batches` | `consumeRateLimit`, `consumeRateLimits` | all or nothing; never above the limit |
| Dead-letter replay (`control-plane-postgres-replay.ts`) | `worker_replay_operations` | `replayDeadLetter` | idempotent per key; only dead jobs come back |
| Queue processor (`apps/worker/src/queue-processor.ts`, `main.ts`) | a batch and its settlement | `processQueueBatch` | ledger first, settlement last |
| Dispatch handler (`job-handler.ts`) | none | dispatch-item | done means delivered |
| Sync runs (`operations-postgres.ts`) | `sync_jobs` | `requestSync`, completion of a source | a run ends; statistics add up |
| D1 backend (`control-plane.ts`, `queue-inbox.ts`) | the same tables in D1 | the same, without one transaction around each | as above, for requests nobody overtakes |
| Collectors (`job-handler.ts`, `http-collectors.ts`, `browser-collectors.ts`) | collector state, source items | read, publish, store state, delete | no item that can be read is skipped; a deleted one had its key published |
| Article archive (`article-archive.ts`) | a git repository, clones | clone, rebase, write, commit, push | an article once, over crashes between commands of git; nothing overwritten |
| IMA mirror (`ima-article-mirror.ts`) | an external library, markers | find, create, upload, add, mark | an entry once, a folder once |
| Worker life (`main.ts`, `health.ts`, `health-server.ts`) | phase, dependencies, busy, browser | start, wake-up, drain, stop, poll | one drain at a time; a 200 only for work that was done; it stops |
| Heartbeats (`heartbeat-cache.ts`, `control-plane-postgres-data.ts`) | rows and a cache with a time to live | record, read | an older heartbeat never wins |
| Operations readiness (`operations-readiness.ts`) | samples, alerts, events | capture, prune | alerts agree with their trail |
| Release operations (`packages/release-operations`) | deployed versions, evidence | apply, roll back, rehearse | no unrunnable mixture; evidence is true |
| Login sessions, credentials, routes, legacy migration, console, scripts, legacy Python | | | see "Not modelled" |

How they interact: producers send jobs into the Cloudflare queue; its consumer
stages each batch into `worker_inbox` and wakes a worker over HTTP; a worker
pulls a batch under leases, and for each message claims the job, runs the
handler (which claims an effect, writes to the destination, finishes the
effect, for each destination), finishes the job and in the end settles the
whole batch. Everything between worker and control plane is a request that may
be lost before or after it was acted on. The ledgers are shared by all workers
and locked row by row; no claim is renewed while it is used.

What is hard: the interleaving of workers after a lease has expired or a claim
has gone stale; lost answers, which make the worker report as failed what has
succeeded; crashes between the ledger and the settlement; several job ids for
the same item (every collection publishes it anew); replays at any moment; on
D1, and in front of the cache, a read that is old when it is acted on; outside
the database, a git push, an import or a deployment of which nobody knows
whether it happened.

## Modules

| Module | What it is | Source |
|---|---|---|
| `QueueInbox` | Cloudflare queue, consumer, lease inbox | `index.ts`, `queue-inbox-postgres.ts` |
| `JobLedger` | jobs, envelopes, dead letters, revival | `control-plane-postgres.ts`, `job-retry-policy.ts`, `control-plane-postgres-replay.ts` |
| `EffectLedger` | external effects | `control-plane-postgres-effects.ts` |
| `Dispatch` | composes the three with workers, lost requests, crashes, replay | `queue-processor.ts`, `job-handler.ts`, `main.ts`, `control-plane-postgres-replay.ts` |
| `ItemDelivery` | the abstract promise `Dispatch` implements | |
| `SyncRun` | a sync run on top of the ledger: its row, its jobs, their completion | `operations-postgres.ts`, `operations.ts`, `control-plane-postgres.ts` |
| `RateLimits` | buckets, single and batched | `control-plane-postgres-effects.ts`, `job-retry-policy.ts`, `job-handler.ts` |
| `D1Ledger`, `D1SyncRun`, `D1RateLimits`, `D1Inbox`, `D1Effects` | the same services on D1, statement by statement | `control-plane.ts`, `queue-inbox.ts`, `operations.ts` |
| `Collection` | two collectors of one source, of any of seven kinds | `job-handler.ts`, `http-collectors.ts`, `browser-collectors.ts`, `collector-parsers.ts` |
| `ArticleArchive` | clones of one git repository and its owner | `article-archive.ts` |
| `ImaMirror` | the mirror of archived articles, request by request | `ima-article-mirror.ts` |
| `WorkerLifecycle` | a worker process from start to exit, the wake-ups of consumer and cron | `main.ts`, `health.ts`, `health-server.ts`, `browser.ts`, `index.ts` |
| `HeartbeatCache` | heartbeats in the database and in the cache | `heartbeat-cache.ts`, `control-plane-postgres-data.ts`, `heartbeat.ts` |
| `Alerts` | captures, alert policies, events, retention, on both backends | `operations-readiness.ts`, `operations-readiness-postgres-capture.ts` |
| `Release`, `StateRestore`, `LegacyRehearsal` | the executors of the operator's plans | `packages/release-operations/src/*-executor.ts`, `*-plan.ts` |
| `MCControlPlane`, `MCDispatch`, `MCD1`, `MCPeriphery` | the instances of the passing runs | |
| `MCJobLedger`, `MCRateLimits`, `MCCollection` | smaller instances for findings | |
| `InboxLedgerProofs`, `LifeProofs`, `ControlPlaneProofs`, `DispatchProofs`, `DispatchDeliveryProofs`, `PeripheryProofs`, `OperationsProofs`, `D1Proofs` | theorems | |

How state and actions correspond to the code:

* Each method of the PostgreSQL control plane is one transaction that locks its
  rows, so each is one action; each of its answers is an operator on the row
  (`Duplicate`, `Waiting`, `Busy`, `EffectBusy`, ...).
* A worker is a record of where `processQueueBatch` stands and its locals. A
  step of a worker is one request or one external write. For each request
  there are three outcomes: acted on and answered, acted on and the answer lost,
  lost before it arrived. A lost one is an exception in the worker, which ends
  in the catch block (`finishJob` failed) or, from there, leaves the batch
  unsettled.
* `grants` is what workers know of leases: it is history for the inbox and the
  batch in the hands of the worker for `Dispatch`. `consumed`, `sent`, `faults`,
  `refusals` and `overran` (a job has run for longer than its claim was good for)
  are history too.
* Time is a tick. A lease, a deferral and a claim are timers that tick towards
  the moment the code compares with `now()`. `Stale` stands for the ten minutes
  of both `isStale` functions, which are equal.
* A key has one row however often it is published; every publication has a job
  id of its own (`randomUuid`). `FollowUp` is the article published for a link.
* An external write may happen or not, and what the worker learns of it is
  `Learnt`: `ok` only when it was made, `quota` and `rejected` only when it was
  not, `unknown` (thrown, no status, 5xx) either way.
* `SyncRun` uses the actions of `JobLedger` and adds what the same transaction
  does to the row of the run. `requester` is where `requestSync` stands; between
  its statements it may be evicted.
* `RateLimits` has a clock, because its buckets are named by the worker when it
  asks and judged by the control plane when it answers; `MaxLate` is how far the
  two may lie apart. `granted` is history, and counts a grant only while its
  bucket lasts.
* On D1 a method is a read, a decision in the program, and a write. `request` (in
  `D1RateLimits` `pending`, in `D1Effects` `claims`, in `D1Inbox` `pulls`) is what
  a request has read and not yet written; any number of steps of others may come
  between. The D1 modules extend the PostgreSQL ones and share their variables
  and operators, so that `LedgerPromise`, `RunPromise` and `RatePromise` can
  say, with the identity as refinement mapping: a step whose request finds what
  it has read still so (`Current`, `StillSo`) is a step of the PostgreSQL module.
  What a replay has read is the row, its dead letter and its envelope; `Current` asks
  for all three, because a row can be dead again, with the same failures, after its
  envelope is gone.
  For the inbox no such condition is needed: its conditional updates keep the
  PostgreSQL properties whatever is overtaken (`D1InboxSafe`).
* `Collection`: `feed` is what the source holds, `known` the stored state, and
  `collects[w]` the collection in progress: the state it started from (`base`), the
  items to publish (`fresh`), the updates its offset counts (`counted`), what is to be
  deleted. The parser drops `Unreadable` items. Of an update without a file or text
  `parseTelegramUpdates` makes nothing (`collector-parsers.ts:46`) after it has raised
  the offset for it (`:36-38`), and the offset is stored and sent with the next request
  also when nothing was collected: the source forgets such an update, and it is lost. The person saves and takes back items in between. Items are
  numbered as they are saved, so that a set of them is also a list, newest first,
  and the rank of an item is how many are newer. `source`, the kind of source, is
  chosen once; it decides how items are read (pages, one list, a page that grows to
  what is known or to its end, an offset, tasks by title) and whether originals go.
  A page that grows is modelled by the items each scroll adds. A reading ends after
  `MaxPages` (100 pages, 200 pages or 20 scrolls in the code); A page that
  grows also ends a reading when it has not grown after a fixed wait
  (`browser-collectors.ts:390-396`), be it at its end or slow (`wait = "stalled"`).
  `torn` records that a reading was cut short in one of these ways, that a parser
  dropped the item it ended at, or that the owner removed one under the pages being
  read: behind such a reading items may be left.
* `ArticleArchive`: files are only ever added, so a commit is a set of files and
  an ancestor is a subset. Each worker has a clone (`head`, `index`, `tree`); a
  push succeeds when it fast-forwards; a crash leaves the pod's volume as it
  is and takes the disk of an instance with it. `shared` is history: articles
  that two workers were at together, which the claims exclude as long as none
  of them is outlived.
* `ImaMirror`: ima can tell whether a name is taken, not by which article. Every
  request may fail with or without effect. `together` is history, as `shared`.
* `WorkerLifecycle`: `drain[x]` is the work done on behalf of a wake-up or of the
  polling loop, `wake[x]` the wake-up as its sender sees it (it may hang up while
  the drain goes on), `place[m]` where a staged message is.
* `HeartbeatCache`: every request is a sequence of statements, and those to the
  cache may be lost. A tick is thirty seconds; a clock may be ahead.
* `Alerts`: a capture measures, and writes later. On PostgreSQL the write is one
  transaction, on D1 three statements.
* `Release` runs the plan's steps command by command: `live` is what is deployed,
  `exec` the execution and how far it or its compensation has come. `StateRestore`
  and `LegacyRehearsal` keep the evidence (`records`, outcome, residuals) beside
  what is really there.

Left out inside the modules: attempt and deferral counters nothing reads back,
error texts, log events, digests and encryption of envelopes, the split of a
publication into batches of 100 messages and 256 kB, the order in which rows
are pulled (any order is allowed), how text is extracted, rendered and parsed.

## Runs

| Run | Instance | Shows |
|---|---|---|
| `control_plane`, part inbox | 2 messages, 3 lease ids, batch of 2, leases of 2 ticks, 1 redelivery | `LeaseExclusive`, `NoMessageLost`, `OnlyHolderEnds` |
| part ledger | an article under 2 job ids and a link, timers of 1 tick | `LedgerSafe`: one envelope per key, a dead envelope has its dead row, the budget; `TerminalIsFinal` |
| part sync | 3 sources, lost answers, evictions, fairness | `RunTellsJobs`: results and status are the ledger's; `RunSettles`: a sent run ends, and stays ended |
| part rows | a window of 2 ticks for 2 grants, 2 workers, requests up to a tick late | `SingleLimitKept`, `DeferredPastItsBuckets` |
| part batch | a day of 6 ticks and windows of 2, 2 workers, punctual requests | `BatchLimitKept`, `DeferredPastItsBuckets` |
| part life | 1 staged message, 2 mishaps, fairness | `EveryStagedPulled`, `ShutdownEnds` |
| `dispatch_faults` | an article under 2 job ids, 2 workers, 2 faults or 1 fault and 1 refusal (`MaxMishaps`), or claims outlived | `NoItemLost`, `DoneMeansWritten`, `NoDoubleWrite`; `ClaimSafe`: who executes and who writes holds a good claim |
| `dispatch_replay` | an article, 2 workers, 2 faults, 1 refusal, 1 replay | `DeliveredOnce`: `Dispatch` implements `ItemDelivery`, and writes once |
| `dispatch_chain` | a link and its article, batch of 2, 1 fault, 1 refusal | `DoneMeansDelivered` |
| `dispatch_live` | an article, 2 workers, 2 faults, 1 refusal, fairness | `EveryItemSettles`, `EveryMessageLeaves` |
| `d1`, part ledger | an article under 2 job ids, 2 requests at a time | `D1LedgerSafe`: dead rows have letters; `LedgerPromise` |
| part sync | 2 sources, 2 requests at a time, one failure that is not fatal each | `RunPromise` |
| parts rows, batch | a day of 4 ticks and windows of 2, 2 grants each, 2 requests at a time, 2 attempts | `RatePromise`; `D1RatesSafe`: a batch counts every grant and keeps its limits |
| part inbox | 2 messages, 2 leases, 2 pulls at a time | `D1InboxSafe` |
| `periphery`, part archive | 2 articles of one title, the pod or 2 instances, a note of the owner, 2 days, 1 git fault | `ArchiveSafe` |
| part mirror | 3 articles of a month, two with one name, 2 workers, 1 fault | `MirrorSafe` |
| part life | 2 messages, webhook or loop, 2 mishaps | `BrowserOutlivesBatch`, `WakeSafe` |
| part collect | 7 kinds of source, 3 items (one unreadable, two with one title), 2 pages of one, 2 collectors, 1 fault | `CollectSafe` |
| part effect | 1 effect on D1, 3 workers | `FirstClaimExclusive` |
| part beat | 1 worker's heartbeats, 2 requests, a skewed clock | `CacheSafe` |
| part alerts | 1 policy, 2 captures, 3 windows, D1 or PostgreSQL | `AlertsSafe` |
| part release | 3 executions, 2 faults or kills | `ReleaseSafe` |
| parts restore, drill | 1 execution each, 2 faults, a clock of 3 | `RestoreSafe`, `RehearsalSafe` |
| `ledger_replay` | an article under 2 job ids | a dead article that cannot be replayed (finding) |
| `dispatch_unconfirmed` | an article, 1 worker, 1 fault | a write made twice (finding) |
| `dispatch_exclusive` | an article, 2 workers, claims may be outlived | two workers at the same effect (finding) |
| `rate_late` | the article limits of `control_plane`, requests up to a tick late | more grants than the limit (finding) |
| `collect_deleted` | 3 tasks, two with one title | a task deleted whose link was not published (finding) |

`PlaneTypeOK`, `PeripheryTypeOK`, `DispatchTypeOK` and `D1LedgerSafe` hold the
type invariants.

`control_plane`, `d1` and `periphery` check several services in one run. The
services share no row, so the MC module lets a behaviour move only one of them,
its `part`, and leaves the others as they are: the sizes add up instead of
multiplying. Where services do work together, `Dispatch` composes them.

A property made of several named parts is one promise with its reasons:

* `ArchiveSafe`: what is reported as saved was pushed, an article is one file
  unless two workers were at it together, no two files share a name, and no
  push takes anything out of the branch.
* `CollectSafe`: an item is known to the collector, or gone from its source, only
  after one of its key was published, unless it is an update the parser makes nothing
  of (`Dropped`); and no readable item is left behind under newer known ones, unless
  a reading was torn. Updates with neither a file nor text are confirmed and lost. No
  document says what should become of them, so that no property forbids it.
* `CacheSafe`: a reader is never told that a living worker is dead, the cache
  holds only what was committed, and neither cache nor row goes back.
* `AlertsSafe`: an alert's state has its event, it was evaluated on a kept
  sample, it fires only after it was pending and ends by recovering. The first
  and the last are claimed for PostgreSQL only: on D1 captures overtake each
  other between their statements.
* `ReleaseSafe`: no part is at the target version on the previous schema, success
  means the whole system, and compensation takes back what the steps before
  the failed one deployed. The failed step itself is not compensated.
* `RestoreSafe`, `RehearsalSafe`: the evidence of a rehearsal is true, whatever
  failed in it, and its cleanup was tried last and once.

Deadlock is checked except in `Periphery.cfg` and `CollectDeleted.cfg`: an
article that is archived, a clock at its bound, the last release allowed, a
rehearsal that has ended are places where these parts really stop.

Bounds and why they are enough. Two workers are what a take-over needs, two job
ids per key what a second publication needs, three lease ids a current lease,
an expired one and a fresh one. `Visibility` 1 or 2 and `Stale` 2 let a lease
run out before a claim does, and the other way round. The failure budget of
three is the code's. Two faults allow a fault in the recovery from the first.
`MaxFaults <= MaxRetries` keeps the Cloudflare queue from discarding a message,
which it does after the configured eleventh failure and which nothing in this
code could make good. `MaxRefusals`, the number of refusals by a rate limit or an
unready dependency, bounds the runs; refusals spend no budget.

`Overrun` is FALSE where a property presumes that a request is answered within
the tick and an external write within the ten minutes its claim is good for, as
the two liveness properties do. In `dispatch_faults` it is TRUE: a behaviour has
either faults and refusals or external writes that outlive their claims, while
every request is still answered in its tick (the action constraint `MishapsApart`;
the theorems need neither bound). `NoItemLost` and `DoneMeansWritten` hold of both,
and `dispatch_exclusive` shows what does not. With `Overrun` a late `finishJob` of
the first executor also meets the row of the second one: `finishJob` finds the row
by job id, not by claim.

The rate limits are checked on a day of several windows, with a clock that runs
through at least one change of each (`MaxTime`; `RowsTime` for the single limit,
whose row every bucket has of its own). The limits are small enough for the
window to refuse while the day does not, and for both to refuse at once. In the
part batch of `control_plane` the clock waits for every request, which is
`RateLimits` with `MaxLate = 0`. `MaxFailures` bounds `failure_attempts` on D1,
where a stale count may be written back; 2 attempts (the code has 5) reach both
outcomes of a retry with fewer states. `SourceFailures` bounds the D1 sync, where
a source also fails for good at once; the count up to three is the ledger part's.
The D1 runs have no evictions and lost answers: D1's `requestSync` has the
statements of PostgreSQL's and `control_plane` has them.

In `periphery`: three items and pages of one reach a page that stops at a known item,
one that does not, the end, and with two pages (`MaxPages`) the limit of a reading. In the part archive at most one article is shared, and
the owner's note comes only beside the pod, because both only multiply what the other
shows; for the same reason a behaviour has a new day or a failed git command, a second
knowledge base or a failed request of the mirror, torn pages or a failed request of a
collector. Crashes go with all of them. Two mishaps of a worker's life (`MaxMishaps`:
kills, signals, hang-ups, batches that throw) allow one in the recovery from the
other. Three workers at an effect of D1 are two that read it before the first writes,
and one that takes over. The clock of the heartbeats runs past the time to live and
the skew; the last ones are sent at `LastBeat`. Three windows and a retention of one
let a sample be pruned that a stalled capture was measured beside.

Fairness. Of a sync run (`SyncFairness`): the queue delivers what it took and a
worker that has claimed a job finishes it, `requestSync` runs on unless it is
evicted. Of the pipeline (`FairSpec`): the queue keeps delivering (`Stage`), each
worker keeps pulling and working (its loop, `main.ts`, catches every error and
goes on; the Cloud Run variant is woken again by the hourly cron and by each new
message), time passes. Weak fairness of each is enough: no step needs to be
repeated against an opponent, because faults and refusals are bounded. Of a
worker's life (`LifeFairness`): the platform starts the process again, the process
goes on, the loop polls, the cron wakes every hour. The cron's request is answered
or refused (`RefuseWake`, weakly fair), and it is accepted again and again as the
worker is again and again idle: a drain ends within its twelve minutes, while the
cron comes every hour, so `Receive(Cron)` is strongly fair. Nothing obliges a
producer, an operator, a fault, a mishap or a message's own wake-up.

## Findings

The five `violation` runs state what a document of the repository says and the
code does not do; each is described with its line in `PROJECT.json`.

1. An article claimed under a second job id loses its envelope: when that job
   dies, its dead letter has nothing to replay (`ledger_replay`).
2. A successful write whose record is lost is made again after ten minutes
   (`dispatch_unconfirmed`).
3. A write that takes longer than ten minutes runs beside its successor
   (`dispatch_exclusive`).
4. A late request for the previous window makes the limits of an article forget
   the running one (`rate_late`).
5. A task with the title of an earlier one is deleted at the source although its
   link was never published (`collect_deleted`).

On D1, which production does not use (`apps/api/wrangler.jsonc`), a claim can
also re-open a job that was finished after it was read, two completions of a
sync can lose a result, two single requests of a rate limit can both be granted
the last place, and two claims can both take over a stale effect: the
properties of `D1Ledger`, `D1SyncRun`, `D1RateLimits` and `D1Effects` say what
holds of requests that are not overtaken, and claim no more.

## Proofs

All theorems hold for every value of the constants, under the assumptions named
in the modules. `InboxAssumption`, `LedgerAssumption`: identifiers that stand for
NULL are not identifiers, timers are naturals, the batch size is positive.
`SyncAssumption`: a source of a run has one job, and no source is an article;
the ledger may hold other keys. `RateAssumption`: a bucket is an interval of time
no longer than its window, as Shanghai days and multiples of `windowSeconds` are;
no scope is both single and batched. `D1EffectAssumption`, `ImaAssumption`,
`LifecycleAssumption`: markers for nothing are no members, bounds are naturals,
every worker requires a browser. `DispatchAssumption`: a message is sent once per
job id and once per replay of it, the article a link leads to is an article, and a
job may be deferred for as long as a claim is good.

`InboxLedgerProofs`, inbox: `InboxTypeCorrect`, `LeaseSafe`, `OnlyHolderSafe`,
`MessageSafe`. `LeaseExclusive` together with the types is almost inductive; what
it lacks is `LeaseNamesRow`: a lease id that a row carries was granted for this
row or is forgotten, and a row that is not leased carries none. A pull keeps it
because its ids are fresh (no row carries them and nobody holds them), a
settlement because it finds rows by lease id. `PulledRows` says what a pull does
to each row and is what every proof about a pull uses.

`InboxLedgerProofs`, ledger: `JobTypeCorrect`, `DeadEnvelopeSafe`, `OneEnvelopeSafe`,
`BudgetSafe`, together `LedgerSound`, and `TerminalSafe`. The invariant
`LedgerInv` adds to the four that a row names a job of its own key
(`RowNamesItsJob`) and that envelopes belong to claimed keys, uncertain ones to
uncertain rows (`EnvelopeOfClaimedKey`); without them a claim could find an
envelope of a key that was never claimed. `RewriteKeepsInv` is the common core of
the five actions that rewrite one existing row: it holds whatever the new status
is. Each strengthening was model-checked before it was proved.

`ControlPlaneProofs`, sync runs: `ResultsCorrect`, `VerdictCorrect`, together
`RunTrue`. `SyncInv` adds to them `LedgerInv` and that only jobs the queue took have
rows (`SentByTheRun`), so that inserting the run, its one step that resets the
statistics, finds every job absent. `SyncUsesLedger`: every behaviour of a sync run is
one of the ledger under its most general clients, so the ledger's theorems hold of it.

`ControlPlaneProofs`, rate limits: `SinglesSafe`, `PunctualBatchSafe`. What makes a
limit hold is that the row of the current bucket counts every grant of it
(`RowsCount`, `EntriesCount`), which needs that it cannot expire before its bucket is
over, and that a bucket no time has been in yet has neither grants nor row
(`FutureIsEmpty`): when the clock enters a new bucket, both start at zero.
`PunctualBatchSafe` assumes `MaxLate = 0`; `rate_late` shows that it must.
`RateTypeCorrect` (no stored count passes its limit) and `DeferralSound` need no such
hypothesis. `DeferInv` adds that a row or an entry lasts until its bucket is over and
no longer than a window from now (`Outlasts`). Both assume `IsFiniteSet(Batched)` (the
article limits are a list in the code) for the latest of the ends, which the code
computes with a maximum, to exist (`LatestEnd`).

`ControlPlaneProofs`, the services together, as the run `control_plane` checks them:
`PlaneTypeCorrect`, `PlaneIsSafe`. A step of `PlaneNext` is a step of one service and
leaves the others alone (`PlaneStepParts`), so a behaviour of `PlaneSpec` is one of the
inbox, of the ledger, of the rate limits and, but for its fairness, of the worker
(`PlaneServices`), and their theorems carry over. Two things are proved of the
composition itself: there is a sync run only in the part of that name (`PlaneRun`), and the limits of an
article are kept whatever `MaxLate` is, because in the part that sends them the clock
waits for who is under way (`PlaneBatch`).

`PeripheryProofs`, effects of D1: `D1EffectTypeCorrect`, `FirstClaimSafe`. `FirstInv`
adds that an effect without a row has no worker at it and no write (`RowBeforeWork`),
and that who has claimed first finds nothing written (`ClaimBeforeWrite`), so that the
conditional insert that wins is the first of all.

In the same module, mirror: `MirrorTypeCorrect`, `MirrorCorrect`. `MirrorInv` adds that two
workers at one month are noticed (`Alone`) and that what a worker by itself has
learned is still so where it acts on it: no folder before it creates one
(`FolderAbsent`), the name free until it adds the entry (`NameFree`), the entry
there before it puts the marker (`EntryAdded`).

`LifeProofs`, the life of a worker: `LifeTypeCorrect`, `BrowserSafe`, `WakeCorrect`. `LifeInv`
adds that a process is woken or polls (`OneMode`), that batches are run between
start and shutdown (`StartedFirst`), that every process that may begin a batch
has a browser (`BrowserThere`), and that who is woken for a message finds it
staged and what was leased was pulled (`PulledFirst`).

`PeripheryProofs`, heartbeats: `HeartbeatTypeCorrect`, `CacheIsSafe`. `HeartbeatInv` adds that what every request
carries on its way to the cache or to its reader was committed (`CarriedCommitted`).
The latest row, which a reader that misses the cache is told, exists because the
workers are finitely many (`LatestOfSome`; `IsFiniteSet(Beating)`: they are rows of a
table).

Alerts: `AlertsTypeCorrect`, `AlertsAreSafe`. `AlertsInv` adds that every row, and on D1 every row a capture
has read and not yet written, has its event (`RowsHaveEvents`), that a sample precedes
its evaluation (`SampledFirst`), and which phases a capture has on which backend. The
types bound every time by the present one (`AlertRowBy`, `CaptureRowBy`).

Archive: `ArchiveTypeCorrect`, `ArchiveIsSafe`, for any clones, articles, days and faults. `ArchiveInv` says
what a worker has achieved in each phase of `save` (`Pursues`: in its working tree, its
index, its clone, the remote branch), that in what each clone shows a name stands for
one file (`Named`), who has a clone (`OwnClones`), and that an article two workers
were never at together has one file among all clones and the remote branch
(`OneCopy`); the rebase keeps the last two because it fails on a clash of names. That
the owner's notes have a title of their own is part of `ArchiveAssumption`.

`DispatchProofs`: `DispatchTypeCorrect`, `NothingLost`, for any number of workers,
items and job ids, with `Overrun` or without. `NoItemLost` alone is not
inductive: the message that is still there may be one that a worker has already
decided to acknowledge. `DispatchInv` therefore asks for a message that no worker
is about to delete (`ItemOnItsWay`: its row's lease is in nobody's acks), and to
keep that true it needs that a lease is in one worker's hands (`HeldByOne`), that
its holder still knows which message it was granted for (`HoldersKnow`), and that
a message nobody has sent has no row (`UnsentAbsent`); `LeaseInv` and `LedgerInv`,
with the lemmas that every step keeps them, are taken from the proofs of the
inbox and the ledger. The two steps that delete are the core of the argument: a
worker adds a lease to its acks only when the row of its item is terminal in the
next state (`GoesOn`, `StillOnItsWay`), and a settlement deletes by lease id, so
it meets rows of its own acks only (`LetGoKeeps`). A claim that was outlived makes
no difference to it.

`DoneIsWritten`, in the same module, is what remains of `DoneMeansDelivered` when
claims may be outlived: done is returned only by a worker for which each
destination is written. `WriteInv` says where it knows that from: what the effect
ledger has recorded as done was written (`RecordedWritten`), and a worker in the
loop has written, or seen recorded, every destination it no longer has to do
(`WorkTrue`). `WriteStep` is the argument for all steps at once: none takes a write
or a publication back (`NothingTaken`), who is at other work than before tells the
truth (`SameWork` or `WorkTrue`), and a row becomes done for what is written.

`DispatchDeliveryProofs` continues it with what the pipeline delivers. `WrittenOnce`
holds of `Spec` as it stands. `Calm` says that nothing was lost, no worker crashed
and no claim was outlived; a calm state has only calm predecessors (`CalmBefore`),
so `CalmInv` asks for everything below only of calm states. Three things then hold
together. `ClaimInv`: a worker at work on a job has its row claimed for it, fresh,
and is alone on its item; this lasts because a claim ages only by `Tick`, which
outlives it openly (`overran`), and `claimJob` refuses a fresh row of anybody. A
worker whose job is finished but for the answer, which was lost, has a row that
nobody can claim (`Lapsed`), until it has reported the failure within the same tick.
`HeldInv`: the claim of the effect a worker is at is no older than that of its job,
the effects it no longer has to do are recorded as done, and so are all of a job
that is done. `OnceInv`: an effect was written at most once, and what was written is
recorded, or is about to be by the worker that wrote it. From them follow
`ClaimsAreSafe`, `CalmIsExclusive` (the property that the run `dispatch_exclusive`
refutes when claims may be outlived) and `CalmIsDelivered`.

`PromiseKept` is the refinement of `ItemDelivery`, step by step: `StepMovesItem`
says which items a step of a worker moves, from which status to which
(`HandlerMoves`), and that a row that is in hand was published first
(`PublishedFirst`); `DeliverySteps` turns it into one step of the abstract
specification or none.

With faults the same follows as long as no claim is outlived: `ClaimsOutlastFaults`
(`ClaimSafe`), `InTimeIsExclusive`, `DoneIsDelivered` and `PromiseKept`, from
`InTimeInv`, which is `ClaimInv` and `HeldInv` of every state up to the first claim
that is outlived. They assume `[]DeferralsWait`: a job is never deferred to a moment
that is not still to come. `claimEffect` tells a worker that finds an effect busy when
that will be over, and by the time `finishJob` records it the moment may have passed
(a wait of 0). If the answer to that `finishJob` is then lost, a second holder of
a message of the same job id (delivered again since, or of a replay) may claim the row,
and the first worker, which reports the job as failed, ends a claim that is not its
own. The invariant was model-checked under that condition with replays and with two job
ids before it was proved; without faults the condition is not needed (`ClaimsAreSafe`,
`CalmIsExclusive`, `CalmIsDelivered`, `CalmPromise`).

Collectors: `CollectTypeCorrect`, `CollectIsSafe`, for any number of collectors, items
and pages of any size. `CollectSafe` is not inductive: what a collection publishes and
stores later was read earlier, of a source that has changed since. `CollectInv` says
what a collection knows in each phase: nothing is known by its number before it was
saved (`SavedFirst`); what a collection knew at its start, and what it is about to
store, was published (`PublishedBefore`); what it is about to delete it has read
(`DoomedAreRead`). Below an offset everything was published or was an update that
nothing is made of (`Out`), because the source keeps, oldest first, what it has not
dropped (`OffsetHolds`). For the others there is no gap in the stored state, in what a
collection started from, and in both with what it has read; while it reads, an item
it has not seen is on the pages behind (`PagesHold`). The step that needs an argument
is the last page of a reading: ranks number the items without holes (`RankPlaces`,
`PlacesFilled`), so a page before the end is full (`PageIsFull`), and a reading that
ended early, neither dropped an item nor stalled, ended at a known item (`EndIsKnown`), below which
everything is known. `CollectInv` was model-checked before, with up to four items and
pages of one to three.

`OperationsProofs`: `ReleaseIsSafe`, `RestoreIsSafe`, `RehearsalIsSafe` and the
types (`ReleaseTypeCorrect`, `RestoreTypeCorrect`, `DrillTypeCorrect`), for any number
of executions, faults and ticks. `ReleaseInv` says what the steps of a plan
before its present one have deployed (`Applied`, `RolledBack`), that the steps the
executor remembers are the first mutating ones, in order (`DoneInOrder`), and that
of the steps before the one that failed those that are no longer remembered are
undone (`Undone`); with an empty memory that is the promise of a compensation.
`RestoreInv` and `DrillInv` say what the evidence is while a rehearsal goes on: the
steps before the active one, in the plan's order, all succeeded, or all but the
last (`UnderWay`, `DrillGoesOn`, `DrillOver`); what was counted is what is there
(`CountedRight`). All three were model-checked before they were proved. The types of
the two rehearsals say of the flag `failed` that it is set exactly when a record of the
evidence is one of a failure (`RestoreTold`, `DrillTold`).

`PeripheryProofs`, the ten parts together, as the run `periphery` checks them:
`PeripheryTypeCorrect`, for any finite set of workers that send heartbeats, and
`PeripheryIsSafe`, every other property of the run. `PeripheryParts` is what both rest
on: a behaviour of `PlaneSpec` is one of each part's specification.

Proving the types corrected two definitions that the runs could not fault. `Files` of
the archive gave the owner's files a day up to `MaxDay`, although they are numbered by
his commits, up to `MaxNotes`; the bound held only because the run has no more commits
than days. `HeartbeatAssumption` allowed `MaxClock = 0`, before the clock starts at 1.

`D1Proofs`, for any number of overlapping requests. `D1LedgerCorrect`: `D1Inv` adds to
`D1LedgerSafe` what a request may rely on between its reads and its write whatever
others do (`Requested`: a row that is there never goes away, no envelope comes back
to it), that a key without a row has no envelope and a dead envelope a linked letter
(`RowsAndEnvelopes`). `D1KeepsLedgerPromise` and `D1KeepsRunPromise` map each write of
a request that nobody overtook to a step of `JobLedger` and `SyncRun`, one lemma per
write (`ClaimWritten`, `DoneWritten`, `FailedWritten`, `DeadWritten`), each from
`NotOvertaken`: the row that was read and the row that is there differ in their
timers only, and what the timers allowed then they allow now. The attempt to prove
it showed that `LedgerPromise` was too strong as it had stood, asking of a replay only
that its row was unchanged: of three overlapping requests one can delete the envelope
and another make the row dead again, and TLC found the behaviour of 13 states when
given three clients. `Current` now asks for the letter and the envelope as well.

`D1RatesCorrect` and `D1KeepsRatePromise` assume `MaxLate = 0`, a request that ends in
the tick it was sent in, as the run does. `D1RateInv` adds to the invariant of the
PostgreSQL module that the counts are exact and that, as long as the version a request
has read is the version there is, what it is about to write is what the transaction
would write (`Promised`). `D1InboxCorrect` reuses `LeaseInv`: the update that leases a
row asks again whether it is queued, so a pull needs to remember nothing but names.

Only model-checked: what is delivered with faults when a deferral is over before it is
recorded (the runs' instances satisfy `ClaimSafe` and `DeliveredOnce` without that
condition). Out of the prover's reach: liveness (fairness and ENABLED), which is
`RunSettles`, `EveryStagedPulled`, `ShutdownEnds`, `EveryItemSettles` and
`EveryMessageLeaves`.

## Not modelled

* `rejectInvalidJob`: a message whose body cannot be parsed is recorded and
  acknowledged; messages here are well formed.
* Login sessions and credentials: single-row reads and writes with encryption,
  nothing depends on their order; and the routes, authentication and schema,
  which parse, check and call the services above.
* The summaries of operations readiness: they only read.
* The notification of a collection and the events of the worker: nobody reads
  them back. An effect that the notification claims follows `EffectLedger`.
* A kill inside a command of git. The archive's worker dies between two of them; what
  a pod killed in the middle of `git pull --rebase` leaves in its clone (a rebase in
  progress, which the next save's pull meets and aborts, or a lock file) is git's.
* The second baseline the X collector keeps beside its state (X is read as a page
  that grows to its end), and page contents in general.
* The legacy migration (a one-off import), the console (user interface), the
  scripts, the validation of release manifests and plans, and the Python
  application that the system replaced.
