------------------------------ MODULE Dispatch ------------------------------
(***************************************************************************)
(* The dispatch pipeline as a whole: producers and the Cloudflare queue,   *)
(* the lease inbox, the job and effect ledgers, the replay of dead letters *)
(* and the browser workers that run processQueueBatch                      *)
(* (apps/worker/src/queue-processor.ts) and the dispatch handler           *)
(* (apps/worker/src/job-handler.ts).                                       *)
(*                                                                         *)
(* A worker's step is one request to the control plane or one external     *)
(* write; between two of them anything may happen elsewhere.  A request    *)
(* may be lost before or after the control plane has acted on it, and a    *)
(* worker may crash anywhere; MaxFaults bounds how often.  MaxRefusals     *)
(* bounds how often a rate limit or an unready dependency refuses a job.   *)
(***************************************************************************)
EXTENDS QueueInbox, JobLedger

CONSTANTS
    Workers,      \* worker processes (Cloud Run instances)
    Effects,      \* pairs <<dedupe key, destination>>, for the matching destinations
    NoEffectKey,  \* no effect
    FollowUp,     \* per key: the article key of a link that is archived, or NoKey
    NoKey,
    Submitted,    \* job ids external producers publish; the others are follow-ups
    ReplayKeys,   \* idempotency keys of replay operations
    MaxFaults,
    MaxRefusals,
    Overrun       \* may a job run for longer than its claim is good for?

SentMessage(j)      == [job |-> j, via |-> "send"]
ReplayMessage(j, o) == [job |-> j, via |-> o]

ASSUME DispatchAssumption ==
    /\ \A e \in Effects : e[1] \in Keys
    /\ FollowUp \in [Keys -> ArticleKeys \cup {NoKey}]
    /\ NoKey \notin Keys
    /\ NoEffectKey \notin Effects
    /\ Submitted \subseteq JobIds
    /\ Messages = {SentMessage(j) : j \in JobIds}
                     \cup {ReplayMessage(j, o) : j \in JobIds, o \in ReplayKeys}
    /\ MaxFaults \in 0..MaxRetries
    /\ MaxRefusals \in Nat
    /\ Overrun \in BOOLEAN
    /\ Stale <= MaxWait

VARIABLES
    effects,     \* worker_effects
    worker,      \* per worker: where processQueueBatch stands, and its locals
    operations,  \* worker_replay_operations: the job each idempotency key replayed
    sent,        \* history: external writes per effect, 2 meaning several
    faults,      \* history: lost requests, crashes
    refusals,    \* history: rate limits and unready dependencies
    overran      \* history: a job has run for longer than its claim was good for

INSTANCE EffectLedger

pipeVars == <<operations, sent, faults, refusals, overran>>
vars == <<cloud, tries, inbox, grants, consumed, jobs, envelopes, letters, effects,
          worker, operations, sent, faults, refusals, overran>>

EffectsOf(k) == {e \in Effects : e[1] = k}

\* next    choosing the next lease of the batch, or settling it
\* begin   claimed an article: consumeRateLimits comes first
\* effect  in the loop over destinations, left being those still to do
\* deliver effect at is claimed; record  its outcome is known (word)
\* finish  the handler has returned (word); fail  it has thrown (word)
Local ==
    [pc      : {"idle", "next", "begin", "effect", "deliver", "record", "finish", "fail"},
     todo    : SUBSET Leases,
     cur     : Leases \cup {NoLease},
     acks    : SUBSET Leases,
     retries : SUBSET Leases,
     left    : SUBSET Effects,
     at      : Effects \cup {NoEffectKey},
     word    : {"", "ok", "quota", "rejected", "unknown", "done", "uncertain",
                "deferred", "retryable", "permanent"},
     wait    : 0..MaxWait]

Idle ==
    [pc |-> "idle", todo |-> {}, cur |-> NoLease, acks |-> {}, retries |-> {},
     left |-> {}, at |-> NoEffectKey, word |-> "", wait |-> 0]

DispatchTypeOK ==
    /\ InboxTypeOK /\ JobTypeOK /\ EffectTypeOK
    /\ worker \in [Workers -> Local]
    /\ operations \in [ReplayKeys -> JobIds \cup {NoJob}]
    /\ sent \in [Effects -> 0..2]
    /\ faults \in 0..MaxFaults
    /\ refusals \in 0..MaxRefusals
    /\ overran \in BOOLEAN

Init ==
    /\ InboxInit /\ JobInit /\ EffectInit
    /\ worker = [w \in Workers |-> Idle]
    /\ operations = [o \in ReplayKeys |-> NoJob]
    /\ sent = [e \in Effects |-> 0]
    /\ faults = 0
    /\ refusals = 0
    /\ overran = FALSE

\* the job a worker is at work on
JobAt(w) == grants[worker[w].cur].message.job
KeyAt(w) == KeyOf[JobAt(w)]

Fault  == faults < MaxFaults /\ faults' = faults + 1 /\ UNCHANGED <<operations, sent, refusals, overran>>
Refuse == refusals < MaxRefusals /\ refusals' = refusals + 1
              /\ UNCHANGED <<operations, sent, faults, overran>>

\* the locals of worker w after its step; the queue and the inbox stay
Step(w, local) == worker' = [worker EXCEPT ![w] = local] /\ UNCHANGED inboxVars

Thrown(w, class) ==
    [worker[w] EXCEPT !.pc = "fail", !.word = class, !.at = NoEffectKey,
                      !.left = {}, !.wait = 0]
Returned(w, outcome, wait) ==
    [worker[w] EXCEPT !.pc = "finish", !.word = outcome, !.at = NoEffectKey,
                      !.left = {}, !.wait = wait]

\* appendSettlement, for the lease in hand
Answered(w, l, settlement) ==
    [worker[w] EXCEPT
        !.pc = "next", !.todo = @ \ {l}, !.cur = NoLease, !.word = "", !.wait = 0,
        !.acks = IF settlement = "ack" THEN @ \cup {l} ELSE @,
        !.retries = IF settlement = "retry" THEN @ \cup {l} ELSE @]

-----------------------------------------------------------------------------
(***************************************************************************)
(* Producers and the queue consumer                                        *)
(***************************************************************************)
Submit(j) ==
    /\ j \in Submitted
    /\ Send({SentMessage(j)})
    /\ UNCHANGED <<ledgerVars, effects, worker, pipeVars>>

Stage(m) ==
    /\ StageAcked({m})
    /\ UNCHANGED <<ledgerVars, effects, worker, pipeVars>>

StageAgain(m) ==
    /\ StageUnwoken({m})
    /\ Fault
    /\ UNCHANGED <<ledgerVars, effects, worker>>

-----------------------------------------------------------------------------
(***************************************************************************)
(* processQueueBatch: pull, and the claim of each job of the batch         *)
(***************************************************************************)
PullBatch(w) ==
    /\ worker[w].pc = "idle"
    /\ \E ms \in SUBSET Messages \ {{}} : \E leaseOf \in Numberings(ms) :
          /\ Pull(ms, leaseOf)
          /\ worker' = [worker EXCEPT ![w] =
                           [Idle EXCEPT !.pc = "next", !.todo = {leaseOf[m] : m \in ms}]]
    /\ UNCHANGED <<ledgerVars, effects, pipeVars>>

Choosing(w, l) == worker[w].pc = "next" /\ l \in worker[w].todo

\* decideJobAcceptance: a dependency is not ready, the job is not even claimed
DeferAcceptance(w, l) ==
    /\ Choosing(w, l)
    /\ Refuse
    /\ Step(w, Answered(w, l, "retry"))
    /\ UNCHANGED <<ledgerVars, effects>>

AckUnclaimed(row) == Duplicate(row) \/ Busy(row)

AckOnClaim(row) == Duplicate(row)

\* claimJob answers duplicate, busy or deferred
SkipJob(w, l) ==
    LET row == jobs[KeyOf[grants[l].message.job]] IN
    /\ Choosing(w, l)
    /\ ~Claimable(row)
    /\ Step(w, Answered(w, l, IF AckOnClaim(row) THEN "ack" ELSE "retry"))
    /\ UNCHANGED <<ledgerVars, effects, pipeVars>>

StartJob(w, l) ==
    LET j == grants[l].message.job
        k == KeyOf[j]
    IN
    /\ Choosing(w, l)
    /\ ClaimJob(j)
    /\ Step(w, [worker[w] EXCEPT
                  !.pc = IF k \in ArticleKeys /\ EffectsOf(k) # {} THEN "begin" ELSE "effect",
                  !.todo = @ \ {l}, !.cur = l, !.left = EffectsOf(k)])
    /\ UNCHANGED <<effects, pipeVars>>

-----------------------------------------------------------------------------
(***************************************************************************)
(* The dispatch handler                                                    *)
(***************************************************************************)

\* consumeRateLimits, once per article job and before any effect is claimed
AdmitArticle(w) ==
    /\ worker[w].pc = "begin"
    /\ \/ Step(w, [worker[w] EXCEPT !.pc = "effect"]) /\ UNCHANGED pipeVars
       \/ /\ Refuse
          /\ \E wait \in 1..MaxWait : Step(w, Returned(w, "deferred", wait))
       \/ Fault /\ Step(w, Thrown(w, "retryable"))
    /\ UNCHANGED <<ledgerVars, effects>>

\* claimEffect answers done, uncertain or busy
SkipEffect(w, e) ==
    /\ worker[w].pc = "effect" /\ e \in worker[w].left
    /\ \/ /\ EffectDone(e)
          /\ Step(w, [worker[w] EXCEPT !.left = @ \ {e}])
       \/ EffectUncertain(e) /\ Step(w, Returned(w, "uncertain", 0))
       \/ EffectBusy(e) /\ Step(w, Returned(w, "deferred", EffectWait(e)))
    /\ UNCHANGED <<ledgerVars, effects, pipeVars>>

StartEffect(w, e) ==
    /\ worker[w].pc = "effect" /\ e \in worker[w].left
    /\ ClaimEffect(e, JobAt(w))
    /\ \/ Step(w, [worker[w] EXCEPT !.pc = "deliver", !.at = e]) /\ UNCHANGED pipeVars
       \/ Fault /\ Step(w, Thrown(w, "retryable"))
    /\ UNCHANGED ledgerVars

LoseEffectClaim(w) ==
    /\ worker[w].pc = "effect" /\ worker[w].left # {}
    /\ Fault
    /\ Step(w, Thrown(w, "retryable"))
    /\ UNCHANGED <<ledgerVars, effects>>

\* enforceRateLimit, between the claim of the effect and the write: it refuses,
\* or its answer is lost, and either way the effect stays claimed
LimitItem(w) ==
    /\ worker[w].pc = "deliver" /\ KeyAt(w) \notin ArticleKeys
    /\ Refuse \/ Fault
    /\ Step(w, Thrown(w, "retryable"))
    /\ UNCHANGED <<ledgerVars, effects>>

LearntWrong(wrote) ==
    IF wrote THEN {"ok", "rejected", "unknown"} ELSE {"quota", "rejected", "unknown"}

\* What the worker may learn of an external write: quota and rejected say that
\* nothing was written; unknown (thrown, no status, 5xx) says nothing.
Learnt(wrote) == IF wrote THEN {"ok", "unknown"} ELSE {"quota", "rejected", "unknown"}

Deliver(w) ==
    /\ worker[w].pc = "deliver"
    /\ \E wrote \in BOOLEAN : \E word \in Learnt(wrote) :
          /\ sent' = IF wrote /\ sent[worker[w].at] < 2
                     THEN [sent EXCEPT ![worker[w].at] = @ + 1] ELSE sent
          /\ Step(w, [worker[w] EXCEPT !.pc = "record", !.word = word])
    /\ UNCHANGED <<ledgerVars, effects, operations, faults, refusals, overran>>

\* mutant: an answer that says nothing counts as a success
RecordedHopefully(word) == IF word \in {"ok", "unknown"} THEN "done" ELSE "failed"

\* what is recorded of an outcome
Recorded(word) ==
    CASE word = "ok"      -> "done"
      [] word = "unknown" -> "uncertain"
      [] OTHER            -> "failed"

\* how the handler goes on after it
AfterRecord(w) ==
    CASE worker[w].word = "ok" ->
            {[worker[w] EXCEPT !.pc = "effect", !.word = "", !.at = NoEffectKey,
                               !.left = @ \ {worker[w].at}]}
      [] worker[w].word = "unknown"  -> {Returned(w, "uncertain", 0)}
      [] worker[w].word = "quota"    -> {Thrown(w, "retryable")}
      [] worker[w].word = "rejected" -> {Thrown(w, "retryable"), Thrown(w, "permanent")}

RecordEffect(w) ==
    /\ worker[w].pc = "record"
    /\ FinishEffect(worker[w].at, Recorded(worker[w].word))
    /\ \/ (\E local \in AfterRecord(w) : Step(w, local)) /\ UNCHANGED pipeVars
       \/ Fault /\ Step(w, Thrown(w, "retryable"))
    /\ UNCHANGED ledgerVars

LoseEffectResult(w) ==
    /\ worker[w].pc = "record"
    /\ Fault
    /\ Step(w, Thrown(w, "retryable"))
    /\ UNCHANGED <<ledgerVars, effects>>

Finished(w) == worker[w].pc = "effect" /\ worker[w].left = {}

ReturnDoneAlways(w) ==
    /\ Finished(w)
    /\ Step(w, Returned(w, "done", 0))
    /\ UNCHANGED <<ledgerVars, effects, pipeVars>>

\* all destinations served, nothing to publish
ReturnDone(w) ==
    /\ Finished(w) /\ FollowUp[KeyAt(w)] = NoKey
    /\ Step(w, Returned(w, "done", 0))
    /\ UNCHANGED <<ledgerVars, effects, pipeVars>>

\* a link whose article is to be archived: publish it under a new job id
PublishArticle(w) ==
    /\ Finished(w) /\ FollowUp[KeyAt(w)] # NoKey
    /\ \E j \in JobIds \ Submitted :
          KeyOf[j] = FollowUp[KeyAt(w)] /\ Send({SentMessage(j)})
    /\ \/ worker' = [worker EXCEPT ![w] = Returned(w, "done", 0)] /\ UNCHANGED pipeVars
       \/ Fault /\ worker' = [worker EXCEPT ![w] = Thrown(w, "retryable")]
    /\ UNCHANGED <<ledgerVars, effects>>

LosePublish(w) ==
    /\ Finished(w) /\ FollowUp[KeyAt(w)] # NoKey
    /\ Fault
    /\ Step(w, Thrown(w, "retryable"))
    /\ UNCHANGED <<ledgerVars, effects>>

-----------------------------------------------------------------------------
(***************************************************************************)
(* processQueueBatch: finishJob and the settlement of the batch            *)
(***************************************************************************)

\* what finishJob makes of the outcome the handler returned
FinishAs(j, word, wait) ==
    \/ word = "done" /\ FinishDone(j)
    \/ word = "uncertain" /\ FinishUncertain(j)
    \/ word = "deferred" /\ FinishDeferred(j, wait)

FinishJob(w) ==
    LET j == JobAt(w) IN
    /\ worker[w].pc = "finish"
    /\ \/ FinishAs(j, worker[w].word, worker[w].wait)
       \/ FinishAgain(j)
    /\ \/ /\ Step(w, Answered(w, worker[w].cur,
                              IF worker[w].word = "deferred" /\ Opened(j)
                              THEN "retry" ELSE "ack"))
          /\ UNCHANGED pipeVars
       \/ Fault /\ Step(w, Thrown(w, "retryable"))
    /\ UNCHANGED effects

LoseFinish(w) ==
    /\ worker[w].pc = "finish"
    /\ Fault
    /\ Step(w, Thrown(w, "retryable"))
    /\ UNCHANGED <<ledgerVars, effects>>

\* the row carries another job id by now: finishJob throws, inside the try
FinishUnclaimed(w) ==
    /\ worker[w].pc = "finish" /\ ~HasRow(JobAt(w))
    /\ Step(w, Thrown(w, "retryable"))
    /\ UNCHANGED <<ledgerVars, effects, pipeVars>>

\* the catch block: finishJob with status failed
FailJob(w) ==
    LET j         == JobAt(w)
        permanent == worker[w].word = "permanent"
    IN
    /\ worker[w].pc = "fail"
    /\ FinishFailed(j, permanent) \/ FinishAgain(j)
    /\ Step(w, Answered(w, worker[w].cur,
                        IF Opened(j) /\ ~Fatal(jobs[KeyOf[j]], permanent)
                        THEN "retry" ELSE "ack"))
    /\ UNCHANGED <<effects, pipeVars>>

\* processQueueBatch is left by an exception, or the process by a crash: the
\* batch is never settled
Abandon(w) ==
    /\ Forget(worker[w].todo \cup worker[w].acks \cup worker[w].retries
                 \cup ({worker[w].cur} \ {NoLease}))
    /\ worker' = [worker EXCEPT ![w] = Idle]
    /\ UNCHANGED <<ledgerVars, effects>>

\* finishJob throws in the catch block too
FailUnclaimed(w) ==
    /\ worker[w].pc = "fail" /\ ~HasRow(JobAt(w))
    /\ Abandon(w)
    /\ UNCHANGED pipeVars

\* Also a claimJob, a settle or a second finishJob whose request is lost: the
\* exception leaves processQueueBatch.
Crash(w) ==
    /\ worker[w].pc # "idle"
    /\ Fault
    /\ Abandon(w)

SettleWork(w) ==
    /\ worker[w].pc = "next" /\ worker[w].todo = {}
    /\ SettleBatch(worker[w].acks, worker[w].retries, MaxDelay)
    /\ worker' = [worker EXCEPT ![w] = Idle]
    /\ UNCHANGED <<ledgerVars, effects, pipeVars>>

-----------------------------------------------------------------------------
(***************************************************************************)
(* Replay of a dead letter, in one transaction.  A rejected replay, a dry  *)
(* run and a repeated idempotency key change nothing.                      *)
(***************************************************************************)
EffectOfJob(j) == \E e \in Effects : effects[e].job = j /\ (EffectDone(e) \/ EffectUncertain(e))

Replay(o, j) ==
    /\ ~(HasRow(j) /\ jobs[KeyOf[j]].status \in {"done", "uncertain"})
    /\ ~EffectOfJob(j)
    /\ operations[o] = NoJob
    /\ ReviveDead(j)
    /\ StageReplay(ReplayMessage(j, o))
    /\ operations' = [operations EXCEPT ![o] = j]
    /\ UNCHANGED <<effects, worker, sent, faults, refusals, overran>>

-----------------------------------------------------------------------------
Executing(w) == worker[w].pc \in {"begin", "effect", "deliver", "record", "finish"}

\* Without Overrun requests to the control plane are answered within the tick,
\* and an external write within the time its job's claim is good for.
OnTime ==
    \A w \in Workers :
        /\ worker[w].pc \in {"idle", "deliver"}
        /\ worker[w].pc = "deliver" => jobs[KeyAt(w)].age < Stale

Tick ==
    /\ Overrun \/ OnTime
    /\ InboxTick /\ JobTick /\ EffectTick
    /\ worker' = [w \in Workers |-> [worker[w] EXCEPT !.wait = IF @ = 0 THEN 0 ELSE @ - 1]]
    /\ overran' = (overran \/ ~OnTime)
    /\ UNCHANGED <<operations, sent, faults, refusals>>

ConsumerStep ==
    \/ \E j \in JobIds : Submit(j)
    \/ \E m \in Messages : Stage(m) \/ StageAgain(m)

HandlerStep(w) ==
    \/ AdmitArticle(w)
    \/ \E e \in Effects : SkipEffect(w, e) \/ StartEffect(w, e)
    \/ LoseEffectClaim(w) \/ LimitItem(w) \/ Deliver(w)
    \/ RecordEffect(w) \/ LoseEffectResult(w)
    \/ ReturnDone(w) \/ PublishArticle(w) \/ LosePublish(w)

ProcessorStep(w) ==
    \/ PullBatch(w)
    \/ \E l \in Leases : DeferAcceptance(w, l) \/ SkipJob(w, l) \/ StartJob(w, l)
    \/ FinishJob(w) \/ LoseFinish(w) \/ FinishUnclaimed(w)
    \/ FailJob(w) \/ FailUnclaimed(w)
    \/ SettleWork(w)

Next ==
    \/ ConsumerStep
    \/ \E w \in Workers : ProcessorStep(w) \/ HandlerStep(w) \/ Crash(w)
    \/ \E o \in ReplayKeys, j \in JobIds : Replay(o, j)
    \/ Tick

Spec == Init /\ [][Next]_vars
-----------------------------------------------------------------------------
(***************************************************************************)
(* Correctness                                                             *)
(***************************************************************************)
Published(k)   == \E j \in JobIds : KeyOf[j] = k /\ cloud[SentMessage(j)] # "unsent"
SettledItem(k) == jobs[k].status \in Terminal

\* An item that was published and is not settled has a message on its way to a
\* worker, in the queue or in the inbox, whatever was lost, crashed, expired
\* or acknowledged (stage before ackAll, terminal row before the ack).
NoItemLost ==
    \A k \in Keys :
        Published(k) /\ ~SettledItem(k) =>
            \E m \in Messages :
                KeyOf[m.job] = k /\ (cloud[m] = "queued" \/ inbox[m].status # "absent")

\* A worker at work on a job holds the ledger's claim to it, and that claim is
\* good: no other worker is at work on the same item.  Nothing renews a claim,
\* so this ends with the first job that outlives its own.
ExecutorHoldsClaim ==
    \A w \in Workers :
        Executing(w) /\ ~overran =>
            /\ jobs[KeyAt(w)].status = "processing"
            /\ jobs[KeyAt(w)].job = JobAt(w)
            /\ \A v \in Workers \ {w} : Executing(v) => KeyAt(v) # KeyAt(w)

\* An item is done only when each of its destinations was written to and the
\* article of a link is published, whatever was lost, crashed or was outlived.
DoneMeansWritten ==
    \A k \in Keys :
        jobs[k].status = "done" =>
            /\ \A e \in EffectsOf(k) : sent[e] > 0
            /\ FollowUp[k] # NoKey => Published(FollowUp[k])

\* And when no claim is outlived, the ledger says so of each of its effects.
DoneMeansDelivered ==
    /\ DoneMeansWritten
    /\ \A k \in Keys : jobs[k].status = "done" => \A e \in EffectsOf(k) : EffectDone(e)

\* Nothing is written twice unless a request was lost, a worker crashed or a
\* claim was outlived:
\* expired leases, duplicate messages, new job ids, deferrals, retries and
\* replays write nothing again.
NoDoubleWrite == faults = 0 /\ ~overran => \A e \in Effects : sent[e] <= 1

\* An external write is made only under a good claim of its effect, never when
\* the ledger has recorded the effect as done or uncertain.
WriteUnderClaim ==
    [][\A e \in Effects :
          sent'[e] # sent[e] /\ ~overran =>
              effects[e].status = "processing" /\ effects[e].age <= Stale]_vars

\* Who executes and who writes has the claim.
ClaimSafe == []ExecutorHoldsClaim /\ WriteUnderClaim

\* The pipeline keeps the promise ItemDelivery makes: an item is settled once,
\* from pending, done only after its writes, and only a dead item starts over.
Delivery ==
    INSTANCE ItemDelivery WITH
        Items   <- Keys,
        Targets <- [k \in Keys |-> EffectsOf(k)],
        item    <- [k \in Keys |->
                      IF SettledItem(k) THEN jobs[k].status
                      ELSE IF Published(k) THEN "pending" ELSE "unsent"],
        reached <- [k \in Keys |-> {e \in EffectsOf(k) : sent[e] > 0}]

DeliveryPromise == Delivery!DeliverySpec

\* What is delivered is delivered once.
DeliveredOnce == DeliveryPromise /\ []NoDoubleWrite

(***************************************************************************)
(* Liveness: workers keep pulling and working, the queue keeps delivering, *)
(* time goes on.  Nothing obliges a producer to publish, an operator to    *)
(* replay or anything to fail.                                             *)
(***************************************************************************)
Fairness ==
    /\ \A m \in Messages : WF_vars(Stage(m))
    /\ \A w \in Workers : WF_vars(ProcessorStep(w)) /\ WF_vars(HandlerStep(w))
    /\ WF_vars(Tick)

FairSpec == Spec /\ Fairness

\* Every published item is settled, and settled again after a replay.
EveryItemSettles == \A k \in Keys : Published(k) /\ ~SettledItem(k) ~> SettledItem(k)

\* Every message leaves the queue and the inbox in the end, those of items that
\* are settled already included.
EveryMessageLeaves ==
    \A m \in Messages :
        cloud[m] = "queued" \/ inbox[m].status # "absent" ~>
            cloud[m] # "queued" /\ inbox[m].status = "absent"

\* "When an external archive request may have had its effect and the result
\* cannot be confirmed, the system keeps uncertain and must not execute the
\* effect again automatically" (openspec/specs/article-queue-retry-safety): as
\* long as no operator replays anything, no effect is executed twice.
UnconfirmedNotRepeated ==
    (\A o \in ReplayKeys : operations[o] = NoJob) => \A e \in Effects : sent[e] <= 1

\* "The claim lease and effect idempotency already have the contract of
\* exclusiveness and deduplication" (docs/production-operations-runbook.md):
\* two workers never execute the same effect at the same time.
ExclusiveExecution ==
    \A v, w \in Workers :
        v # w /\ worker[v].pc = "deliver" /\ worker[w].pc = "deliver" =>
            worker[v].at # worker[w].at
=============================================================================
