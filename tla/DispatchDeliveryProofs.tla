----------------------- MODULE DispatchDeliveryProofs -----------------------
(***************************************************************************)
(* What the dispatch pipeline delivers, proved for every number of         *)
(* workers, items, job ids and destinations.  As long as no claim is       *)
(* outlived, the claim of a job excludes every other worker from its item, *)
(* and what is done is delivered, whatever is lost or crashes; without     *)
(* faults an effect is written once.                                       *)
(***************************************************************************)
EXTENDS DispatchProofs

Calm == faults = 0 /\ ~overran

AtWork(w) == worker[w].pc \notin {"idle", "next"}

\* the row of the job a worker is at work on is claimed for it, and fresh
ClaimKept(w) ==
    /\ jobs[KeyAt(w)].status = "processing"
    /\ jobs[KeyAt(w)].job = JobAt(w)
    /\ jobs[KeyAt(w)].age <= Stale

\* Its end is recorded, but the answer was lost: the worker is about to report
\* a failure of a row that nobody can claim within this tick.
Lapsed(w) ==
    /\ worker[w].pc = "fail"
    /\ jobs[KeyAt(w)].job = JobAt(w)
    /\ jobs[KeyAt(w)].status \in {"done", "uncertain"} \/ Waiting(jobs[KeyAt(w)])

RowKept(w) == ClaimKept(w) \/ Lapsed(w)

Alone(w) == \A v \in Workers \ {w} : AtWork(v) => KeyAt(v) # KeyAt(w)

ClaimInv == \A w \in Workers : AtWork(w) => RowKept(w) /\ Alone(w)

\* A job is deferred to a time that is still to come.
DeferralsWait ==
    \A w \in Workers :
        worker[w].pc = "finish" /\ worker[w].word = "deferred" => worker[w].wait > 0

-----------------------------------------------------------------------------
(* A behaviour that is calm after a step was calm before it *)

LEMMA NoFault == ASSUME HistoryTypeOK, Fault PROVE ~Calm'
<1>1. faults \in Nat  BY DispatchAssumption, InboxAssumption DEF HistoryTypeOK
<1> QED  BY <1>1 DEF Fault, Calm

LEMMA HistoryGrows ==
    ASSUME [Next]_vars, overran \in BOOLEAN
    PROVE  (faults' = faults \/ faults' = faults + 1) /\ (overran => overran')
<1>1. ASSUME NEW j \in JobIds, Submit(j)
      PROVE  faults' = faults /\ overran' = overran
  BY <1>1 DEF Submit, pipeVars
<1>2. ASSUME NEW m \in Messages, Stage(m) \/ StageAgain(m)
      PROVE  (faults' = faults \/ faults' = faults + 1) /\ overran' = overran
  BY <1>2 DEF Stage, StageAgain, Fault, pipeVars
<1>3. ASSUME NEW w \in Workers, ProcessorStep(w)
      PROVE  (faults' = faults \/ faults' = faults + 1) /\ overran' = overran
  BY <1>3 DEF ProcessorStep, PullBatch, DeferAcceptance, SkipJob, StartJob, FinishJob,
       LoseFinish, FinishUnclaimed, FailJob, FailUnclaimed, SettleWork, Fault, Refuse,
       pipeVars
<1>4. ASSUME NEW w \in Workers, HandlerStep(w)
      PROVE  (faults' = faults \/ faults' = faults + 1) /\ overran' = overran
  BY <1>4 DEF HandlerStep, AdmitArticle, SkipEffect, StartEffect, LoseEffectClaim,
       LimitItem, Deliver, RecordEffect, LoseEffectResult, ReturnDone, PublishArticle,
       LosePublish, Fault, Refuse, pipeVars
<1>5. ASSUME NEW w \in Workers, Crash(w)
      PROVE  faults' = faults + 1 /\ overran' = overran
  BY <1>5 DEF Crash, Fault
<1>6. ASSUME NEW o \in ReplayKeys, NEW j \in JobIds, Replay(o, j)
      PROVE  faults' = faults /\ overran' = overran
  BY <1>6 DEF Replay
<1>7. CASE Tick  BY <1>7 DEF Tick
<1>8. CASE UNCHANGED vars  BY <1>8 DEF vars
<1> QED
  BY <1>1, <1>2, <1>3, <1>4, <1>5, <1>6, <1>7, <1>8 DEF Next, ConsumerStep

LEMMA CalmBefore == ASSUME HistoryTypeOK, [Next]_vars, Calm' PROVE Calm
<1>1. faults \in Nat /\ overran \in BOOLEAN
  BY DispatchAssumption, InboxAssumption DEF HistoryTypeOK
<1>2. (faults' = faults \/ faults' = faults + 1) /\ (overran => overran')
  BY <1>1, HistoryGrows
<1> QED  BY <1>1, <1>2 DEF Calm

LEMMA InTimeBefore == ASSUME HistoryTypeOK, [Next]_vars, ~overran' PROVE ~overran
BY HistoryGrows DEF HistoryTypeOK

\* A tick finds every worker idle or at an external write that is in time.
LEMMA CalmTick ==
    ASSUME HistoryTypeOK, Tick, ~overran', NEW w \in Workers
    PROVE  /\ worker[w].pc \in {"idle", "deliver"}
           /\ worker[w].pc = "deliver" => jobs[KeyAt(w)].age < Stale
BY DEF Tick, OnTime, HistoryTypeOK

-----------------------------------------------------------------------------
(* How the steps move the workers *)

\* Worker w goes on as local, with the same lease at hand.
Moves(w, local) ==
    /\ worker' = [worker EXCEPT ![w] = local]
    /\ local.cur = worker[w].cur /\ local.pc \notin {"idle", "next"}
    /\ UNCHANGED grants

LEMMA MovedWorker ==
    ASSUME WorkerTypeOK, NEW w \in Workers, NEW local, Moves(w, local)
    PROVE  /\ worker'[w] = local
           /\ JobAt(w)' = JobAt(w) /\ KeyAt(w)' = KeyAt(w)
           /\ \A v \in Workers \ {w} : SameWork(v)
BY DEF Moves, WorkerTypeOK, KeyAt, JobAt, SameWork

LEMMA SameJob ==
    ASSUME NEW v \in Workers, SameWork(v), AtWork(v)
    PROVE  AtWork(v)' /\ JobAt(v)' = JobAt(v) /\ KeyAt(v)' = KeyAt(v)
BY DEF SameWork, AtWork, JobAt, KeyAt

\* Every step of the handler is such a move.
LEMMA HandlerMoves ==
    ASSUME DispatchInv, NEW w \in Workers,
           \/ HandlerStep(w) \/ LoseFinish(w) \/ FinishUnclaimed(w)
    PROVE  /\ AtWork(w) /\ UNCHANGED ledgerVars
           /\ \E local : Moves(w, local)
<1>1. 0 \in 0..MaxWait /\ WorkerTypeOK /\ worker[w] \in Local
  BY LedgerAssumption DEF DispatchInv, WorkerTypeOK
<1>2. \A c \in {"retryable", "permanent"} :
         Thrown(w, c).cur = worker[w].cur /\ Thrown(w, c).pc = "fail"
  BY <1>1, ThrownLocal
<1>3. \A c \in {"done", "uncertain", "deferred"}, wait \in 0..MaxWait :
         Returned(w, c, wait).cur = worker[w].cur /\ Returned(w, c, wait).pc = "finish"
  BY <1>1, ReturnedLocal
<1>4. ASSUME NEW c \in {"retryable", "permanent"}, Step(w, Thrown(w, c))
      PROVE  Moves(w, Thrown(w, c))
  BY <1>2, <1>4 DEF Moves, Step, inboxVars
<1>5. ASSUME NEW c \in {"done", "uncertain", "deferred"}, NEW wait \in 0..MaxWait,
             Step(w, Returned(w, c, wait))
      PROVE  Moves(w, Returned(w, c, wait))
  BY <1>3, <1>5 DEF Moves, Step, inboxVars
<1>6. CASE AdmitArticle(w)
  <2>1. AtWork(w) /\ UNCHANGED ledgerVars  BY <1>6 DEF AdmitArticle, AtWork
  <2>2. CASE Step(w, [worker[w] EXCEPT !.pc = "effect"])
    BY <1>1, <2>1, <2>2 DEF Moves, Step, inboxVars, Local
  <2>3. ASSUME NEW wait \in 1..MaxWait, Step(w, Returned(w, "deferred", wait))
        PROVE  \E local : Moves(w, local)
    <3>1. wait \in 0..MaxWait  BY LedgerAssumption
    <3> QED  BY <1>5, <2>3, <3>1
  <2>4. CASE Step(w, Thrown(w, "retryable"))  BY <1>4, <2>1, <2>4
  <2> QED  BY <1>6, <2>1, <2>2, <2>3, <2>4 DEF AdmitArticle
<1>7. ASSUME NEW e \in Effects, SkipEffect(w, e)
      PROVE  AtWork(w) /\ UNCHANGED ledgerVars /\ \E local : Moves(w, local)
  <2>1. AtWork(w) /\ UNCHANGED ledgerVars /\ worker[w].pc = "effect"
    BY <1>7 DEF SkipEffect, AtWork
  <2>2. CASE Step(w, [worker[w] EXCEPT !.left = @ \ {e}])
    BY <1>1, <2>1, <2>2 DEF Moves, Step, inboxVars, Local
  <2>3. CASE Step(w, Returned(w, "uncertain", 0))  BY <1>1, <1>5, <2>1, <2>3
  <2>4. CASE Step(w, Returned(w, "deferred", EffectWait(e)))
    <3>1. EffectWait(e) \in 0..MaxWait  BY EffectWaits DEF DispatchInv
    <3> QED  BY <1>5, <2>1, <2>4, <3>1
  <2> QED  BY <1>7, <2>1, <2>2, <2>3, <2>4 DEF SkipEffect
<1>8. ASSUME NEW e \in Effects, StartEffect(w, e)
      PROVE  AtWork(w) /\ UNCHANGED ledgerVars /\ \E local : Moves(w, local)
  <2>1. AtWork(w) /\ UNCHANGED ledgerVars  BY <1>8 DEF StartEffect, AtWork
  <2>2. CASE Step(w, [worker[w] EXCEPT !.pc = "deliver", !.at = e])
    BY <1>1, <2>1, <2>2 DEF Moves, Step, inboxVars, Local
  <2>3. CASE Step(w, Thrown(w, "retryable"))  BY <1>4, <2>1, <2>3
  <2> QED  BY <1>8, <2>1, <2>2, <2>3 DEF StartEffect
<1>9. CASE Deliver(w)
  <2>1. AtWork(w) /\ UNCHANGED ledgerVars  BY <1>9 DEF Deliver, AtWork
  <2>2. PICK word : Step(w, [worker[w] EXCEPT !.pc = "record", !.word = word])
    BY <1>9 DEF Deliver
  <2> QED  BY <1>1, <2>1, <2>2 DEF Moves, Step, inboxVars, Local
<1>10. CASE RecordEffect(w)
  <2>1. /\ AtWork(w) /\ UNCHANGED ledgerVars /\ worker[w].pc = "record"
        /\ worker[w].word \in Outcomes
    BY <1>10 DEF RecordEffect, AtWork, DispatchInv, WorkInv, HoldersKnow
  <2>2. CASE Step(w, Thrown(w, "retryable"))  BY <1>4, <2>1, <2>2
  <2>3. ASSUME NEW local \in AfterRecord(w), Step(w, local) PROVE Moves(w, local)
    <3>1. CASE worker[w].word = "ok"
      <4>1. local = [worker[w] EXCEPT !.pc = "effect", !.word = "", !.at = NoEffectKey,
                                      !.left = @ \ {worker[w].at}]
        BY <2>3, <3>1 DEF AfterRecord
      <4>2. local.cur = worker[w].cur /\ local.pc = "effect"  BY <1>1, <4>1 DEF Local
      <4> QED  BY <2>3, <4>2 DEF Moves, Step, inboxVars
    <3>2. CASE worker[w].word = "unknown"
      <4>1. local = Returned(w, "uncertain", 0)  BY <2>3, <3>2 DEF AfterRecord
      <4> QED  BY <1>1, <1>5, <2>3, <4>1
    <3>3. CASE worker[w].word \in {"quota", "rejected"}
      <4>1. local \in {Thrown(w, "retryable"), Thrown(w, "permanent")}
        BY <2>3, <3>3 DEF AfterRecord
      <4> QED  BY <1>4, <2>3, <4>1
    <3> QED  BY <2>1, <3>1, <3>2, <3>3 DEF Outcomes
  <2> QED  BY <1>10, <2>1, <2>2, <2>3 DEF RecordEffect
<1>11. CASE ReturnDone(w)
  BY <1>1, <1>5, <1>11 DEF ReturnDone, Finished, AtWork
<1>12. CASE PublishArticle(w)
  <2>1. AtWork(w) /\ UNCHANGED ledgerVars /\ UNCHANGED grants
    BY <1>12 DEF PublishArticle, Finished, AtWork, Send
  <2>2. PICK local \in {Returned(w, "done", 0), Thrown(w, "retryable")} :
           worker' = [worker EXCEPT ![w] = local]
    BY <1>12 DEF PublishArticle
  <2> QED  BY <1>1, <1>2, <1>3, <2>1, <2>2 DEF Moves
<1>13. CASE \/ LoseEffectClaim(w) \/ LimitItem(w) \/ LoseEffectResult(w)
            \/ LosePublish(w) \/ LoseFinish(w) \/ FinishUnclaimed(w)
  BY <1>4, <1>13 DEF LoseEffectClaim, LimitItem, LoseEffectResult, LosePublish,
     LoseFinish, FinishUnclaimed, Finished, AtWork
<1> QED
  BY <1>6, <1>7, <1>8, <1>9, <1>10, <1>11, <1>12, <1>13 DEF HandlerStep

\* A worker between two jobs, or that lets go of its batch, leaves the others at
\* their work and the ledgers alone.
Rests(w) ==
    /\ \A v \in Workers \ {w} : SameWork(v)
    /\ ~AtWork(w)'
    /\ UNCHANGED ledgerVars /\ UNCHANGED effects /\ UNCHANGED sent

LetsGo(w, local) ==
    /\ worker' = [worker EXCEPT ![w] = local] /\ local.pc \in {"idle", "next"}
    /\ \A v \in Workers \ {w} : \A l \in HeldLeases(v) : grants'[l] = grants[l]
    /\ UNCHANGED ledgerVars /\ UNCHANGED effects /\ UNCHANGED sent

LEMMA RestMoves ==
    ASSUME DispatchInv, NEW w \in Workers, NEW local, LetsGo(w, local) PROVE Rests(w)
<1>1. ASSUME NEW v \in Workers \ {w} PROVE SameWork(v)
  <2>1. worker'[v] = worker[v]  BY DEF DispatchInv, WorkerTypeOK, LetsGo
  <2>2. worker[v].pc \notin {"idle", "next"} => worker[v].cur \in HeldLeases(v)
    BY AtHand
  <2> QED  BY <2>1, <2>2 DEF SameWork, LetsGo
<1>2. worker'[w] = local  BY DEF DispatchInv, WorkerTypeOK, LetsGo
<1> QED  BY <1>1, <1>2 DEF Rests, AtWork, LetsGo

LEMMA BatchRests ==
    ASSUME DispatchInv, NEW w \in Workers,
           \/ PullBatch(w) \/ SettleWork(w) \/ Crash(w) \/ FailUnclaimed(w)
           \/ \E l \in Leases : DeferAcceptance(w, l) \/ SkipJob(w, l)
    PROVE  Rests(w)
<1>1. CASE PullBatch(w)
  <2>1. PICK ms \in SUBSET Messages \ {{}} : \E leaseOf \in Numberings(ms) :
           /\ Pull(ms, leaseOf)
           /\ worker' = [worker EXCEPT ![w] =
                            [Idle EXCEPT !.pc = "next", !.todo = {leaseOf[m] : m \in ms}]]
    BY <1>1 DEF PullBatch
  <2>2. PICK leaseOf \in Numberings(ms) :
           /\ Pull(ms, leaseOf)
           /\ worker' = [worker EXCEPT ![w] =
                            [Idle EXCEPT !.pc = "next", !.todo = {leaseOf[m] : m \in ms}]]
    BY <2>1
  <2> DEFINE new   == {leaseOf[m] : m \in ms}
             local == [Idle EXCEPT !.pc = "next", !.todo = new]
  <2>3. local.pc = "next"
    <3> HIDE DEF new
    <3> QED  BY DEF Idle
  <2>4. ASSUME NEW v \in Workers \ {w}, NEW l \in HeldLeases(v)
        PROVE  grants'[l] = grants[l]
    <3>1. l \in Leases  BY HeldAreLeases DEF DispatchInv
    <3>2. grants[l].message \in Messages
      BY DEF DispatchInv, WorkInv, HoldersKnow
    <3>3. grants[l] # NoGrant  BY <3>2, InboxAssumption DEF NoGrant
    <3>4. \A m \in ms : leaseOf[m] # l  BY <3>3 DEF Numberings, FreshLeases
    <3> QED  BY <2>2, <3>1, <3>4 DEF Pull
  <2>5. UNCHANGED ledgerVars /\ UNCHANGED effects /\ UNCHANGED sent
    BY <1>1 DEF PullBatch, pipeVars
  <2>6. worker' = [worker EXCEPT ![w] = local]  BY <2>2
  <2> HIDE DEF local
  <2>7. LetsGo(w, local)  BY <2>3, <2>4, <2>5, <2>6 DEF LetsGo
  <2> QED  BY <2>7, RestMoves
<1>2. CASE SettleWork(w) \/ Crash(w) \/ FailUnclaimed(w)
  <2>1. PICK ls \in SUBSET HeldLeases(w) : grants' = Forgotten(ls)
    <3>1. CASE SettleWork(w)
      <4>1. worker[w].acks \cup worker[w].retries \in SUBSET HeldLeases(w)
        BY DEF HeldLeases, HeldBy
      <4> QED  BY <3>1, <4>1 DEF SettleWork, SettleBatch
    <3>2. CASE Crash(w) \/ FailUnclaimed(w)
      <4>1. Abandon(w)  BY <3>2 DEF Crash, FailUnclaimed
      <4>2. grants' = Forgotten(HeldLeases(w))
        BY <4>1 DEF Abandon, Forget, HeldLeases, HeldBy
      <4> QED  BY <4>2
    <3> QED  BY <1>2, <3>1, <3>2
  <2>2. \A v \in Workers \ {w} : \A l \in HeldLeases(v) : grants'[l] = grants[l]
    BY <2>1, HeldAreLeases DEF Forgotten, DispatchInv, WorkInv, HeldByOne
  <2>3. /\ worker' = [worker EXCEPT ![w] = Idle]
        /\ UNCHANGED ledgerVars /\ UNCHANGED effects /\ UNCHANGED sent
    BY <1>2 DEF SettleWork, Crash, FailUnclaimed, Abandon, Fault, pipeVars
  <2>4. LetsGo(w, Idle)  BY <2>2, <2>3, IdleLocal DEF LetsGo
  <2> QED  BY <2>4, RestMoves
<1>3. ASSUME NEW l \in Leases, DeferAcceptance(w, l) \/ SkipJob(w, l) PROVE Rests(w)
  <2>1. l \in HeldLeases(w) /\ WorkerTypeOK
    BY <1>3, ChosenLease DEF DeferAcceptance, SkipJob, DispatchInv
  <2>2. PICK s \in {"ack", "retry"} : Step(w, Answered(w, l, s))
    BY <1>3 DEF DeferAcceptance, SkipJob
  <2>3. Answered(w, l, s).pc = "next"  BY <2>1, AnsweredLocal
  <2>4. /\ worker' = [worker EXCEPT ![w] = Answered(w, l, s)] /\ grants' = grants
        /\ UNCHANGED ledgerVars /\ UNCHANGED effects /\ UNCHANGED sent
    BY <1>3, <2>2 DEF DeferAcceptance, SkipJob, Refuse, pipeVars, Step, inboxVars
  <2>5. LetsGo(w, Answered(w, l, s))  BY <2>3, <2>4 DEF LetsGo
  <2> QED  BY <2>5, RestMoves
<1> QED  BY <1>1, <1>2, <1>3

\* A worker takes up a job whose row nobody's claim is good for.
Starts(w, j) ==
    /\ j \in JobIds /\ KeyOf[j] \in Keys /\ ClaimJob(j)
    /\ ~AtWork(w) /\ worker'[w].pc \in {"begin", "effect"}
    /\ worker'[w].left = EffectsOf(KeyOf[j])
    /\ JobAt(w)' = j /\ KeyAt(w)' = KeyOf[j]
    /\ \A v \in Workers \ {w} : SameWork(v)
    /\ UNCHANGED effects /\ UNCHANGED sent

LEMMA StartMoves ==
    ASSUME DispatchInv, NEW w \in Workers, NEW l \in Leases, StartJob(w, l)
    PROVE  Starts(w, grants[l].message.job)
<1> DEFINE j == grants[l].message.job
           k == KeyOf[j]
           pc == IF k \in ArticleKeys /\ EffectsOf(k) # {} THEN "begin" ELSE "effect"
           local == [worker[w] EXCEPT !.pc = pc, !.todo = @ \ {l}, !.cur = l,
                                      !.left = EffectsOf(k)]
<1>1. /\ ClaimJob(j) /\ Step(w, local) /\ UNCHANGED effects /\ UNCHANGED sent
      /\ ~AtWork(w)
  BY DEF StartJob, pipeVars, Choosing, AtWork
<1>2. j \in JobIds /\ k \in Keys
  <2>1. l \in HeldLeases(w)  BY ChosenLease DEF StartJob
  <2>2. grants[l].message \in Messages
    BY <2>1 DEF DispatchInv, WorkInv, HoldersKnow
  <2> QED  BY <2>2, MessagesOfJobs
<1>3. pc \in {"begin", "effect"}  OBVIOUS
<1> HIDE DEF pc
<1>4. local.pc = pc /\ local.cur = l /\ local.left = EffectsOf(k)
  BY DEF DispatchInv, WorkerTypeOK, Local
<1> HIDE DEF local
<1>5. /\ worker'[w] = local /\ \A v \in Workers \ {w} : worker'[v] = worker[v]
      /\ grants' = grants
  BY <1>1 DEF Step, inboxVars, DispatchInv, WorkerTypeOK
<1>6. JobAt(w)' = j /\ KeyAt(w)' = k
  BY <1>4, <1>5 DEF KeyAt, JobAt
<1>7. \A v \in Workers \ {w} : SameWork(v)  BY <1>5 DEF SameWork
<1> QED  BY <1>1, <1>2, <1>3, <1>4, <1>5, <1>6, <1>7 DEF Starts

\* A worker that finishes its job changes the row of its item, or finds it
\* settled.
Ends(w) ==
    /\ AtWork(w) /\ \A v \in Workers \ {w} : SameWork(v)
    /\ worker'[w].pc \in {"next", "fail"} /\ UNCHANGED effects /\ UNCHANGED sent
    /\ \/ /\ Opened(JobAt(w))
          /\ \A k \in Keys \ {KeyAt(w)} : jobs'[k] = jobs[k]
          /\ jobs'[KeyAt(w)].status \in {"done", "uncertain", "deferred", "failed", "dead"}
          /\ jobs'[KeyAt(w)].job = JobAt(w)
          /\ jobs'[KeyAt(w)].status = "done" =>
                worker[w].pc = "finish" /\ worker[w].word = "done"
       \/ Settled(JobAt(w)) /\ UNCHANGED ledgerVars

LEMMA EndMoves ==
    ASSUME DispatchInv, NEW w \in Workers, FinishJob(w) \/ FailJob(w)
    PROVE  /\ Ends(w)
           /\ FailJob(w) => worker'[w].pc = "next"
           /\ FinishJob(w) => worker[w].pc = "finish" /\ (Calm' => worker'[w].pc = "next")
<1> DEFINE j == JobAt(w)
           l == worker[w].cur
           word == worker[w].word
           permanent == worker[w].word = "permanent"
           sf == IF word = "deferred" /\ Opened(j) THEN "retry" ELSE "ack"
           st == IF Opened(j) /\ ~Fatal(jobs[KeyOf[j]], permanent) THEN "retry" ELSE "ack"
<1>1. AtWork(w)  BY DEF FinishJob, FailJob, AtWork
<1>2. l \in HeldLeases(w) /\ j \in JobIds /\ KeyAt(w) \in Keys /\ KeyAt(w) = KeyOf[j]
  BY <1>1, AtHand DEF AtWork, KeyAt
<1>3. HistoryTypeOK /\ WorkerTypeOK /\ JobTypeOK
  BY DEF DispatchInv, LedgerInv
<1>4. sf \in {"ack", "retry"} /\ st \in {"ack", "retry"}  OBVIOUS
<1>5. CASE FinishJob(w)
  <2>1. /\ worker[w].pc = "finish" /\ UNCHANGED effects /\ UNCHANGED sent
        /\ FinishAs(j, word, worker[w].wait) \/ FinishAgain(j)
    BY <1>5 DEF FinishJob, Fault, pipeVars
  <2>2. \/ Step(w, Answered(w, l, sf))
        \/ Fault /\ Step(w, Thrown(w, "retryable"))
    BY <1>5 DEF FinishJob
  <2>3. /\ worker'[w].pc \in {"next", "fail"} /\ \A v \in Workers \ {w} : SameWork(v)
        /\ Calm' => worker'[w].pc = "next"
    <3> HIDE DEF sf, l
    <3>1. CASE Step(w, Answered(w, l, sf))
      <4>1. Answered(w, l, sf).pc = "next"  BY <1>2, <1>3, <1>4, AnsweredLocal
      <4> QED  BY <1>3, <3>1, <4>1 DEF Step, inboxVars, WorkerTypeOK, SameWork
    <3>2. CASE Fault /\ Step(w, Thrown(w, "retryable"))
      <4>1. Thrown(w, "retryable").pc = "fail"  BY <1>3, ThrownLocal
      <4>2. ~Calm'  BY <1>3, <3>2, NoFault
      <4> QED  BY <1>3, <3>2, <4>1, <4>2 DEF Step, inboxVars, WorkerTypeOK, SameWork
    <3> QED  BY <2>2, <3>1, <3>2
  <2>4. CASE FinishAgain(j)
    BY <1>1, <2>1, <2>3, <2>4, <1>5 DEF Ends, FinishAgain, FailJob
  <2>5. CASE FinishAs(j, word, worker[w].wait)
    <3> HIDE DEF j, word
    <3>1. /\ Opened(j) /\ \A k \in Keys \ {KeyOf[j]} : jobs'[k] = jobs[k]
          /\ jobs'[KeyOf[j]].status \in {"done", "uncertain", "deferred"}
          /\ jobs'[KeyOf[j]].job = jobs[KeyOf[j]].job
          /\ jobs'[KeyOf[j]].status = "done" => word = "done"
      <4>1. jobs \in [Keys -> JobRow] /\ KeyOf[j] \in Keys  BY <1>2, <1>3 DEF JobTypeOK
      <4>2. CASE word = "done" /\ FinishDone(j)
        BY <4>1, <4>2 DEF FinishDone, JobRow
      <4>3. CASE word = "uncertain" /\ FinishUncertain(j)
        BY <4>1, <4>3 DEF FinishUncertain, JobRow
      <4>4. CASE word = "deferred" /\ FinishDeferred(j, worker[w].wait)
        BY <4>1, <4>4 DEF FinishDeferred, JobRow
      <4> QED  BY <2>5, <4>2, <4>3, <4>4 DEF FinishAs
    <3>2. jobs[KeyOf[j]].job = j  BY <3>1 DEF Opened, HasRow
    <3>3. jobs'[KeyAt(w)].status = "done" => worker[w].pc = "finish" /\ word = "done"
      BY <1>2, <2>1, <3>1
    <3>4. /\ Opened(j) /\ \A k \in Keys \ {KeyAt(w)} : jobs'[k] = jobs[k]
          /\ jobs'[KeyAt(w)].status \in {"done", "uncertain", "deferred"}
          /\ jobs'[KeyAt(w)].job = j
      BY <1>2, <3>1, <3>2
    <3>5. Ends(w)  BY <1>1, <2>1, <2>3, <3>3, <3>4 DEF Ends, j, word
    <3>6. ~FailJob(w)  BY <2>1 DEF FailJob
    <3> QED  BY <2>1, <2>3, <3>5, <3>6
  <2> QED  BY <2>1, <2>4, <2>5
<1>6. CASE FailJob(w)
  <2>1. /\ worker[w].pc = "fail" /\ UNCHANGED effects /\ UNCHANGED sent
        /\ FinishFailed(j, permanent) \/ FinishAgain(j)
        /\ Step(w, Answered(w, l, st))
    BY <1>6 DEF FailJob, pipeVars
  <2>2. worker'[w].pc = "next" /\ \A v \in Workers \ {w} : SameWork(v)
    <3> HIDE DEF st, l
    <3>1. Answered(w, l, st).pc = "next"  BY <1>2, <1>3, <1>4, AnsweredLocal
    <3> QED  BY <1>3, <2>1, <3>1 DEF Step, inboxVars, WorkerTypeOK, SameWork
  <2>3. CASE FinishAgain(j)
    BY <1>1, <2>1, <2>2, <2>3 DEF Ends, FinishAgain, FinishJob
  <2>4. CASE FinishFailed(j, permanent)
    <3> HIDE DEF j, permanent
    <3>1. /\ Opened(j) /\ \A k \in Keys \ {KeyOf[j]} : jobs'[k] = jobs[k]
          /\ jobs'[KeyOf[j]].status \in {"failed", "dead"}
          /\ jobs'[KeyOf[j]].job = jobs[KeyOf[j]].job
      <4>1. jobs \in [Keys -> JobRow] /\ KeyOf[j] \in Keys  BY <1>2, <1>3 DEF JobTypeOK
      <4> QED  BY <4>1, <2>4 DEF FinishFailed, JobRow
    <3>2. jobs[KeyOf[j]].job = j  BY <3>1 DEF Opened, HasRow
    <3>3. /\ Opened(j) /\ \A k \in Keys \ {KeyAt(w)} : jobs'[k] = jobs[k]
          /\ jobs'[KeyAt(w)].status \in {"failed", "dead"}
          /\ jobs'[KeyAt(w)].job = j
      BY <1>2, <3>1, <3>2
    <3>4. Ends(w)  BY <1>1, <2>1, <2>2, <3>3 DEF Ends, j
    <3>5. ~FinishJob(w)  BY <2>1 DEF FinishJob
    <3> QED  BY <2>2, <3>4, <3>5
  <2> QED  BY <2>1, <2>3, <2>4
<1> QED  BY <1>5, <1>6

\* Producers and operators leave the workers at their work; an operator changes
\* the row of a dead item only.
LEMMA NobodyMoves ==
    ASSUME DispatchInv,
           \/ \E j \in JobIds : Submit(j)
           \/ \E m \in Messages : Stage(m) \/ StageAgain(m)
           \/ \E o \in ReplayKeys, j \in JobIds : Replay(o, j)
           \/ UNCHANGED vars
    PROVE  /\ \A v \in Workers : SameWork(v)
           /\ \A k \in Keys :
                 \/ jobs'[k] = jobs[k]
                 \/ jobs[k].status = "dead" /\ jobs'[k].status = "failed"
           /\ UNCHANGED effects /\ UNCHANGED sent
<1>1. ASSUME NEW j \in JobIds, Submit(j)
      PROVE  /\ UNCHANGED <<worker, grants, sent>> /\ UNCHANGED effects
             /\ UNCHANGED ledgerVars
  BY <1>1 DEF Submit, Send, pipeVars
<1>2. ASSUME NEW m \in Messages, Stage(m) \/ StageAgain(m)
      PROVE  /\ UNCHANGED <<worker, grants, sent>> /\ UNCHANGED effects
             /\ UNCHANGED ledgerVars
  BY <1>2 DEF Stage, StageAgain, StageAcked, StageUnwoken, Fault, pipeVars
<1>3. ASSUME NEW o \in ReplayKeys, NEW j \in JobIds, Replay(o, j)
      PROVE  /\ UNCHANGED <<worker, grants, sent>> /\ UNCHANGED effects
             /\ \A k \in Keys :
                   \/ jobs'[k] = jobs[k]
                   \/ jobs[k].status = "dead" /\ jobs'[k].status = "failed"
  <2>1. /\ ReviveDead(j) /\ StageReplay(ReplayMessage(j, o))
        /\ UNCHANGED <<effects, worker, sent>>
    BY <1>3 DEF Replay
  <2>2. KeyOf[j] \in Keys /\ JobTypeOK
    BY LedgerAssumption DEF DispatchInv, LedgerInv
  <2>3. grants' = grants
    <3> DEFINE message == ReplayMessage(j, o)
    <3>1. StageReplay(message)  BY <2>1
    <3> HIDE DEF message
    <3> QED  BY <3>1 DEF StageReplay
  <2>4. jobs \in [Keys -> JobRow]  BY <2>2 DEF JobTypeOK
  <2>5. \A k \in Keys : \/ jobs'[k] = jobs[k]
                        \/ jobs[k].status = "dead" /\ jobs'[k].status = "failed"
    <3>1. ReviveDead(j)  BY <2>1
    <3> QED  BY <2>2, <2>4, <3>1 DEF ReviveDead, JobRow
  <2> QED  BY <2>1, <2>3, <2>5
<1>4. CASE UNCHANGED vars
  BY <1>4 DEF vars, SameWork
<1> QED  BY <1>1, <1>2, <1>3, <1>4 DEF SameWork, ledgerVars

-----------------------------------------------------------------------------
(* Who is at work has the claim, and has it alone *)

\* A worker that stays at a job whose row is not touched keeps its claim.
LEMMA ClaimStays ==
    ASSUME ClaimInv, NEW v \in Workers, SameWork(v), AtWork(v)',
           jobs'[KeyAt(v)] = jobs[KeyAt(v)]
    PROVE  AtWork(v) /\ KeyAt(v)' = KeyAt(v) /\ RowKept(v)'
<1>1. AtWork(v)  BY DEF SameWork, AtWork
<1>2. JobAt(v)' = JobAt(v) /\ KeyAt(v)' = KeyAt(v)  BY <1>1, SameJob
<1>3. RowKept(v) /\ worker'[v].pc = worker[v].pc  BY <1>1 DEF ClaimInv, SameWork
<1>4. CASE ClaimKept(v)
  <2>1. ClaimKept(v)'  BY <1>2, <1>4 DEF ClaimKept
  <2> QED  BY <1>1, <1>2, <2>1 DEF RowKept
<1>5. CASE Lapsed(v)
  <2>1. Lapsed(v)'  BY <1>2, <1>3, <1>5 DEF Lapsed, Waiting
  <2> QED  BY <1>1, <1>2, <2>1 DEF RowKept
<1> QED  BY <1>3, <1>4, <1>5 DEF RowKept

\* A step of worker w that touches no row but that of its own item.
LEMMA ClaimStep ==
    ASSUME DispatchInv, ClaimInv, NEW w \in Workers,
           \A v \in Workers \ {w} : SameWork(v),
           \A v \in Workers \ {w} : AtWork(v) => jobs'[KeyAt(v)] = jobs[KeyAt(v)],
           AtWork(w)' => RowKept(w)',
           AtWork(w)' => \A v \in Workers \ {w} : AtWork(v) => KeyAt(v) # KeyAt(w)'
    PROVE  ClaimInv'
<1>1. ASSUME NEW v \in Workers \ {w}, AtWork(v)'
      PROVE  AtWork(v) /\ KeyAt(v)' = KeyAt(v) /\ RowKept(v)'
  <2>1. AtWork(v)  BY <1>1 DEF SameWork, AtWork
  <2> QED  BY <1>1, <2>1, ClaimStays
<1>2. ASSUME NEW v \in Workers, AtWork(v)', NEW u \in Workers \ {v}, AtWork(u)'
      PROVE  KeyAt(u)' # KeyAt(v)'
  <2>1. CASE u = w  BY <1>1, <1>2, <2>1
  <2>2. CASE v = w  BY <1>1, <1>2, <2>2
  <2>3. CASE u # w /\ v # w
    BY <1>1, <1>2, <2>3 DEF ClaimInv, Alone
  <2> QED  BY <2>1, <2>2, <2>3
<1>3. ASSUME NEW v \in Workers, AtWork(v)' PROVE RowKept(v)'
  <2>1. CASE v = w  BY <1>3, <2>1
  <2>2. CASE v # w  BY <1>1, <1>3, <2>2
  <2> QED  BY <2>1, <2>2
<1>4. ASSUME NEW v \in Workers, AtWork(v)' PROVE Alone(v)'
  BY <1>2, <1>4 DEF Alone
<1> QED  BY <1>3, <1>4 DEF ClaimInv

LEMMA ClaimTick == ASSUME DispatchInv, ClaimInv, Tick, ~overran' PROVE ClaimInv'
<1>1. /\ InboxTick /\ JobTick
      /\ worker' = [w \in Workers |->
                       [worker[w] EXCEPT !.wait = IF @ = 0 THEN 0 ELSE @ - 1]]
  BY DEF Tick
<1>2. ASSUME NEW v \in Workers
      PROVE  SameWork(v)
  <2>1. worker[v] \in Local  BY DEF DispatchInv, WorkerTypeOK
  <2>2. worker[v].pc \notin {"idle", "next"} => worker[v].cur \in Leases
    BY AtHand
  <2>3. \A l \in Leases : grants'[l].message = grants[l].message
    BY <1>1 DEF InboxTick, DispatchInv, LeaseInv, InboxTypeOK, Grant
  <2> QED  BY <1>1, <2>1, <2>2, <2>3 DEF SameWork, Local
<1>3. ASSUME NEW v \in Workers, AtWork(v)'
      PROVE  AtWork(v) /\ KeyAt(v)' = KeyAt(v) /\ RowKept(v)'
  <2>1. AtWork(v) /\ SameWork(v)  BY <1>2, <1>3 DEF SameWork, AtWork
  <2>2. JobAt(v)' = JobAt(v) /\ KeyAt(v)' = KeyAt(v)  BY <2>1, SameJob
  <2>3. KeyAt(v) \in Keys  BY <2>1, AtHand DEF AtWork
  <2>4. ClaimKept(v) /\ jobs[KeyAt(v)].age < Stale
    BY <2>1, CalmTick DEF ClaimInv, RowKept, Lapsed, AtWork, DispatchInv
  <2>5. jobs[KeyAt(v)] \in JobRow /\ Stale \in Nat
    BY <2>3, LedgerAssumption DEF DispatchInv, LedgerInv, JobTypeOK
  <2>6. jobs'[KeyAt(v)] = Older(jobs[KeyAt(v)])
    BY <1>1, <2>3 DEF JobTick
  <2>7. /\ jobs'[KeyAt(v)].status = "processing"
        /\ jobs'[KeyAt(v)].job = JobAt(v)
        /\ jobs'[KeyAt(v)].age <= Stale
    BY <2>4, <2>5, <2>6 DEF Older, ClaimKept, JobRow, IsStale
  <2> QED  BY <2>1, <2>2, <2>7 DEF ClaimKept, RowKept
<1>4. ASSUME NEW v \in Workers, AtWork(v)' PROVE Alone(v)'
  BY <1>3, <1>4 DEF ClaimInv, Alone
<1> QED  BY <1>3, <1>4 DEF ClaimInv

\* A job that is started is claimable: nobody is at work on its item.
LEMMA StartsAlone ==
    ASSUME DispatchInv, ClaimInv, NEW w \in Workers, NEW j, Starts(w, j)
    PROVE  /\ \A v \in Workers : AtWork(v) => KeyAt(v) # KeyOf[j]
           /\ \A k \in Keys \ {KeyOf[j]} : jobs'[k] = jobs[k]
           /\ jobs'[KeyOf[j]].status = "processing"
           /\ jobs'[KeyOf[j]].job = j /\ jobs'[KeyOf[j]].age = 0
<1>1. ASSUME NEW v \in Workers, AtWork(v) PROVE KeyAt(v) # KeyOf[j]
  <2>1. RowKept(v) /\ KeyAt(v) \in Keys
    BY <1>1, AtHand DEF ClaimInv, AtWork
  <2>2. jobs[KeyAt(v)] \in JobRow /\ Stale \in Nat
    BY <2>1, LedgerAssumption DEF DispatchInv, LedgerInv, JobTypeOK
  <2>3. ClaimKept(v) => Busy(jobs[KeyAt(v)])
    BY <2>2 DEF ClaimKept, Busy, IsStale, JobRow
  <2>4. Lapsed(v) => Duplicate(jobs[KeyAt(v)]) \/ Waiting(jobs[KeyAt(v)])
    BY DEF Lapsed, Duplicate, Terminal
  <2> QED  BY <2>1, <2>3, <2>4 DEF Starts, ClaimJob, Claimable, RowKept
<1>2. /\ \A k \in Keys \ {KeyOf[j]} : jobs'[k] = jobs[k]
      /\ jobs'[KeyOf[j]].status = "processing"
      /\ jobs'[KeyOf[j]].job = j /\ jobs'[KeyOf[j]].age = 0
  BY DEF Starts, ClaimJob, DispatchInv, LedgerInv, JobTypeOK
<1> QED  BY <1>1, <1>2

\* Who is at work and has not failed has the claim.
LEMMA ClaimHeld ==
    ASSUME ClaimInv, NEW w \in Workers, AtWork(w), worker[w].pc # "fail"
    PROVE  ClaimKept(w) /\ Alone(w)
BY DEF ClaimInv, RowKept, Lapsed

\* When the answer to the end of a job is lost, its row is out of reach.
LEMMA FinishLapses ==
    ASSUME DispatchInv, ClaimInv, DeferralsWait, NEW w \in Workers, FinishJob(w),
           worker'[w].pc = "fail"
    PROVE  Lapsed(w)' /\ KeyAt(w)' = KeyAt(w)
<1> DEFINE j == JobAt(w)
           l == worker[w].cur
           word == worker[w].word
           s == IF word = "deferred" /\ Opened(j) THEN "retry" ELSE "ack"
<1>1. AtWork(w) /\ worker[w].pc = "finish"  BY DEF FinishJob, AtWork
<1>2. l \in HeldLeases(w) /\ KeyAt(w) \in Keys /\ KeyAt(w) = KeyOf[j]
  BY <1>1, AtHand DEF AtWork, KeyAt
<1>3. WorkerTypeOK /\ jobs \in [Keys -> JobRow]
  BY DEF DispatchInv, LedgerInv, JobTypeOK
<1>4. \/ Step(w, Answered(w, l, s))
      \/ Step(w, Thrown(w, "retryable"))
  BY DEF FinishJob
<1>5. Step(w, Thrown(w, "retryable"))
  <2>1. s \in {"ack", "retry"}  OBVIOUS
  <2> HIDE DEF s, l
  <2>2. CASE Step(w, Answered(w, l, s))
    <3>1. Answered(w, l, s).pc = "next"  BY <1>2, <1>3, <2>1, AnsweredLocal
    <3> QED  BY <1>3, <2>2, <3>1 DEF Step, WorkerTypeOK
  <2> QED  BY <1>4, <2>2
<1>6. JobAt(w)' = j /\ KeyAt(w)' = KeyAt(w)
  <2>1. Thrown(w, "retryable").cur = worker[w].cur  BY <1>3, ThrownLocal
  <2> QED  BY <1>3, <1>5, <2>1 DEF Step, inboxVars, WorkerTypeOK, KeyAt, JobAt
<1>7. ClaimKept(w)  BY <1>1, ClaimHeld
<1>8. FinishAs(j, word, worker[w].wait)
  <2>1. ~Settled(j)  BY <1>2, <1>7 DEF ClaimKept, Settled, Terminal
  <2> QED  BY <2>1 DEF FinishJob, FinishAgain
<1>9. word = "deferred" => worker[w].wait > 0  BY <1>1 DEF DeferralsWait
<1> HIDE DEF j, word
<1>10. /\ jobs'[KeyOf[j]].status \in {"done", "uncertain"} \/ Waiting(jobs'[KeyOf[j]])
       /\ jobs'[KeyOf[j]].job = jobs[KeyOf[j]].job
  <2>1. KeyOf[j] \in Keys  BY <1>2
  <2>2. CASE word = "done" /\ FinishDone(j)
    BY <1>3, <2>1, <2>2 DEF FinishDone, JobRow
  <2>3. CASE word = "uncertain" /\ FinishUncertain(j)
    BY <1>3, <2>1, <2>3 DEF FinishUncertain, JobRow
  <2>4. CASE word = "deferred" /\ FinishDeferred(j, worker[w].wait)
    BY <1>3, <1>9, <2>1, <2>4 DEF FinishDeferred, Waiting, JobRow
  <2> QED  BY <1>8, <2>2, <2>3, <2>4 DEF FinishAs
<1>11. jobs[KeyOf[j]].job = j  BY <1>2, <1>7 DEF ClaimKept, j
<1> QED  BY <1>2, <1>6, <1>10, <1>11 DEF Lapsed, Waiting

\* An answer that is lost is a fault, so that in a calm behaviour deferrals may
\* be over at once.
LEMMA StepKeepsClaims ==
    DispatchInv /\ ClaimInv /\ [Next]_vars /\ ~overran' /\ (DeferralsWait \/ Calm')
       => ClaimInv'
<1> SUFFICES ASSUME DispatchInv, ClaimInv, [Next]_vars, ~overran',
                    DeferralsWait \/ Calm'
             PROVE  ClaimInv'
  OBVIOUS
<1>1. ASSUME NEW w \in Workers, Rests(w) PROVE ClaimInv'
  BY <1>1, ClaimStep DEF Rests, ledgerVars
<1>2. ASSUME NEW w \in Workers,
             HandlerStep(w) \/ LoseFinish(w) \/ FinishUnclaimed(w)
      PROVE  ClaimInv'
  <2>1. AtWork(w) /\ UNCHANGED ledgerVars  BY <1>2, HandlerMoves
  <2>2. PICK local : Moves(w, local)  BY <1>2, HandlerMoves
  <2>3. /\ JobAt(w)' = JobAt(w) /\ KeyAt(w)' = KeyAt(w)
        /\ \A v \in Workers \ {w} : SameWork(v)
    BY <2>2, MovedWorker DEF DispatchInv
  <2>4. jobs' = jobs /\ ClaimKept(w) /\ Alone(w)
    <3>1. worker[w].pc # "fail"
      BY <1>2 DEF HandlerStep, AdmitArticle, SkipEffect, StartEffect, LoseEffectClaim,
         LimitItem, Deliver, RecordEffect, LoseEffectResult, ReturnDone, PublishArticle,
         LosePublish, LoseFinish, FinishUnclaimed, Finished
    <3> QED  BY <2>1, <3>1, ClaimHeld DEF ledgerVars
  <2>5. RowKept(w)'  BY <2>3, <2>4 DEF ClaimKept, RowKept
  <2>6. \A v \in Workers \ {w} : AtWork(v) => KeyAt(v) # KeyAt(w)'
    BY <2>3, <2>4 DEF Alone
  <2> QED  BY <2>3, <2>4, <2>5, <2>6, ClaimStep
<1>3. ASSUME NEW w \in Workers, NEW l \in Leases, StartJob(w, l) PROVE ClaimInv'
  <2> DEFINE j == grants[l].message.job
  <2>1. Starts(w, j)  BY <1>3, StartMoves
  <2> HIDE DEF j
  <2>2. /\ \A v \in Workers : AtWork(v) => KeyAt(v) # KeyOf[j]
        /\ \A k \in Keys \ {KeyOf[j]} : jobs'[k] = jobs[k]
        /\ jobs'[KeyOf[j]].status = "processing"
        /\ jobs'[KeyOf[j]].job = j /\ jobs'[KeyOf[j]].age = 0
    BY <2>1, StartsAlone
  <2>3. \A v \in Workers : AtWork(v) => KeyAt(v) \in Keys  BY AtHand DEF AtWork
  <2>4. RowKept(w)'
    <3>1. Stale \in Nat  BY LedgerAssumption
    <3> QED  BY <2>1, <2>2, <3>1 DEF ClaimKept, RowKept, Starts
  <2>5. \A v \in Workers \ {w} : SameWork(v) /\ KeyAt(w)' = KeyOf[j]
    BY <2>1 DEF Starts
  <2> QED  BY <2>2, <2>3, <2>4, <2>5, ClaimStep
<1>4. ASSUME NEW w \in Workers, FinishJob(w) \/ FailJob(w) PROVE ClaimInv'
  <2>1. Ends(w)  BY <1>4, EndMoves
  <2>2. AtWork(w) /\ \A v \in Workers \ {w} : SameWork(v)
    BY <2>1 DEF Ends
  <2>3. ASSUME NEW v \in Workers \ {w}, AtWork(v)
        PROVE  jobs'[KeyAt(v)] = jobs[KeyAt(v)]
    <3>1. KeyAt(v) # KeyAt(w) /\ KeyAt(v) \in Keys
      BY <2>2, <2>3, AtHand DEF ClaimInv, Alone, AtWork
    <3> QED  BY <2>1, <3>1 DEF Ends, ledgerVars
  <2>4. CASE worker'[w].pc = "next"
    <3>1. ~AtWork(w)'  BY <2>4 DEF AtWork
    <3> QED  BY <2>2, <2>3, <3>1, ClaimStep
  <2>5. CASE worker'[w].pc = "fail"
    <3>1. FinishJob(w) /\ DeferralsWait  BY <1>4, <2>5, EndMoves
    <3>2. RowKept(w)' /\ KeyAt(w)' = KeyAt(w)
      BY <2>5, <3>1, FinishLapses DEF RowKept
    <3>3. \A v \in Workers \ {w} : AtWork(v) => KeyAt(v) # KeyAt(w)'
      BY <2>2, <3>2 DEF ClaimInv, Alone
    <3> QED  BY <2>2, <2>3, <3>2, <3>3, ClaimStep
  <2> QED  BY <2>1, <2>4, <2>5 DEF Ends
<1>5. CASE \/ ConsumerStep \/ (\E o \in ReplayKeys, j \in JobIds : Replay(o, j))
           \/ UNCHANGED vars
  <2>1. /\ \A v \in Workers : SameWork(v)
        /\ \A k \in Keys : \/ jobs'[k] = jobs[k]
                           \/ jobs[k].status = "dead" /\ jobs'[k].status = "failed"
    BY <1>5, NobodyMoves DEF ConsumerStep
  <2>2. ASSUME NEW v \in Workers, AtWork(v)'
        PROVE  AtWork(v) /\ KeyAt(v)' = KeyAt(v) /\ RowKept(v)'
    <3>1. AtWork(v)  BY <2>1, <2>2 DEF SameWork, AtWork
    <3>2. KeyAt(v) \in Keys /\ jobs[KeyAt(v)].status # "dead"
      BY <3>1, AtHand DEF ClaimInv, RowKept, ClaimKept, Lapsed, Waiting, AtWork
    <3> QED  BY <2>1, <2>2, <3>1, <3>2, ClaimStays
  <2>3. ASSUME NEW v \in Workers, AtWork(v)' PROVE Alone(v)'
    BY <2>2, <2>3 DEF ClaimInv, Alone
  <2> QED  BY <2>2, <2>3 DEF ClaimInv
<1>6. CASE Tick  BY <1>6, ClaimTick
<1>7. ASSUME NEW w \in Workers, ProcessorStep(w) PROVE ClaimInv'
  BY <1>1, <1>2, <1>3, <1>4, <1>7, BatchRests DEF ProcessorStep
<1> QED  BY <1>1, <1>2, <1>5, <1>6, <1>7, BatchRests DEF Next

-----------------------------------------------------------------------------
(* While those who execute a job hold its claim, the effect ledger tells the *)
(* truth about what they do                                                  *)

Good == ~overran /\ ExecutorHoldsClaim

AllDone(k) == \A e \in EffectsOf(k) : EffectDone(e)

\* The claim of the effect a worker is at is no older than that of its job;
\* what it leaves off is done, and so is all when it says so.
HeldWork(w) ==
    /\ Executing(w) => jobs[KeyAt(w)].age <= Stale
    /\ worker[w].pc \in {"deliver", "record"} =>
          /\ worker[w].at \in EffectsOf(KeyAt(w))
          /\ effects[worker[w].at].status = "processing"
          /\ effects[worker[w].at].age <= jobs[KeyAt(w)].age
    /\ worker[w].pc \in InLoop =>
          /\ worker[w].left \subseteq EffectsOf(KeyAt(w))
          /\ \A e \in EffectsOf(KeyAt(w)) \ worker[w].left : EffectDone(e)
    /\ worker[w].pc = "finish" /\ worker[w].word = "done" => AllDone(KeyAt(w))

HeldInv ==
    /\ \A w \in Workers : HeldWork(w)
    /\ \A k \in Keys : jobs[k].status = "done" => AllDone(k)

LEMMA ExecutingIsAtWork ==
    ASSUME NEW w, Executing(w) PROVE AtWork(w)
BY DEF Executing, AtWork

LEMMA GoodWork ==
    ASSUME DispatchInv, Good, NEW w \in Workers, Executing(w)
    PROVE  /\ jobs[KeyAt(w)].status = "processing" /\ KeyAt(w) \in Keys
           /\ jobs[KeyAt(w)] \in JobRow
           /\ \A v \in Workers \ {w} : Executing(v) => KeyAt(v) # KeyAt(w)
<1>1. KeyAt(w) \in Keys  BY ExecutingIsAtWork, AtHand DEF AtWork
<1> QED  BY <1>1 DEF Good, ExecutorHoldsClaim, DispatchInv, LedgerInv, JobTypeOK

\* Items share no destination.
LEMMA EffectsApart ==
    ASSUME NEW k, NEW i, k # i, NEW e \in EffectsOf(k)
    PROVE  e \in Effects /\ e \notin EffectsOf(i)
BY DEF EffectsOf

LEMMA SameExecution ==
    ASSUME NEW v \in Workers, SameWork(v)
    PROVE  /\ Executing(v)' <=> Executing(v)
           /\ Executing(v) => KeyAt(v)' = KeyAt(v)
BY DEF SameWork, Executing, KeyAt, JobAt

LEMMA HeldStays ==
    ASSUME NEW v \in Workers, HeldWork(v), SameWork(v),
           Executing(v) =>
              /\ jobs'[KeyAt(v)] = jobs[KeyAt(v)]
              /\ \A e \in EffectsOf(KeyAt(v)) : effects'[e] = effects[e]
    PROVE  HeldWork(v)'
<1>1. /\ Executing(v)' <=> Executing(v)
      /\ Executing(v) => KeyAt(v)' = KeyAt(v)
  BY SameExecution
<1>2. \A k : EffectsOf(k)' = EffectsOf(k)  BY DEF EffectsOf
<1>3. CASE ~Executing(v)
  BY <1>1, <1>3 DEF HeldWork, Executing, InLoop, SameWork
<1>4. CASE Executing(v)
  <2>1. EffectsOf(KeyAt(v))' = EffectsOf(KeyAt(v))  BY <1>1, <1>2, <1>4
  <2>2. \A e \in EffectsOf(KeyAt(v)) : EffectDone(e)' <=> EffectDone(e)
    BY <1>4 DEF EffectDone
  <2>3. (Executing(v) => jobs[KeyAt(v)].age <= Stale)'
    BY <1>1, <1>4 DEF HeldWork
  <2>4. (worker[v].pc \in {"deliver", "record"} =>
          /\ worker[v].at \in EffectsOf(KeyAt(v))
          /\ effects[worker[v].at].status = "processing"
          /\ effects[worker[v].at].age <= jobs[KeyAt(v)].age)'
    BY <1>1, <1>4, <2>1 DEF HeldWork, SameWork
  <2>5. (worker[v].pc \in InLoop =>
          /\ worker[v].left \subseteq EffectsOf(KeyAt(v))
          /\ \A e \in EffectsOf(KeyAt(v)) \ worker[v].left : EffectDone(e))'
    BY <1>1, <1>4, <2>1, <2>2 DEF HeldWork, SameWork
  <2>6. (worker[v].pc = "finish" /\ worker[v].word = "done" => AllDone(KeyAt(v)))'
    BY <1>1, <1>4, <2>1, <2>2 DEF HeldWork, SameWork, AllDone
  <2> QED  BY <2>3, <2>4, <2>5, <2>6 DEF HeldWork
<1> QED  BY <1>3, <1>4

\* A step of worker w that touches no other's row and effects.
LEMMA HeldStep ==
    ASSUME HeldInv, NEW w \in Workers,
           \A v \in Workers \ {w} : SameWork(v),
           \A v \in Workers \ {w} : Executing(v) =>
              /\ jobs'[KeyAt(v)] = jobs[KeyAt(v)]
              /\ \A e \in EffectsOf(KeyAt(v)) : effects'[e] = effects[e],
           HeldWork(w)',
           \A k \in Keys : jobs'[k].status = "done" => AllDone(k)'
    PROVE  HeldInv'
<1>1. \A v \in Workers \ {w} : HeldWork(v)'  BY HeldStays DEF HeldInv
<1> QED  BY <1>1 DEF HeldInv

\* A step of the handler that touches only the effects of its item.
HeldMove(w, local) ==
    /\ Executing(w) /\ Moves(w, local) /\ UNCHANGED ledgerVars
    /\ \A e \in Effects \ EffectsOf(KeyAt(w)) : effects'[e] = effects[e]
    /\ local.pc \in {"deliver", "record"} =>
          /\ local.at \in EffectsOf(KeyAt(w))
          /\ effects'[local.at].status = "processing"
          /\ effects'[local.at].age <= jobs[KeyAt(w)].age
    /\ local.pc \in InLoop =>
          /\ local.left \subseteq EffectsOf(KeyAt(w))
          /\ \A e \in EffectsOf(KeyAt(w)) \ local.left : effects'[e].status = "done"
    /\ local.pc = "finish" /\ local.word = "done" =>
          \A e \in EffectsOf(KeyAt(w)) : effects'[e].status = "done"

LEMMA HeldMoves ==
    ASSUME DispatchInv, Good, HeldInv, NEW w \in Workers, NEW local, HeldMove(w, local)
    PROVE  HeldInv'
<1>1. /\ worker'[w] = local /\ KeyAt(w)' = KeyAt(w)
      /\ \A v \in Workers \ {w} : SameWork(v)
  BY MovedWorker DEF HeldMove, DispatchInv
<1>2. jobs' = jobs /\ Executing(w)  BY DEF HeldMove, ledgerVars
<1>3. ASSUME NEW k, k # KeyAt(w), NEW e \in EffectsOf(k)
      PROVE  effects'[e] = effects[e]
  BY <1>3, EffectsApart DEF HeldMove
<1>4. ASSUME NEW v \in Workers \ {w}, Executing(v)
      PROVE  /\ jobs'[KeyAt(v)] = jobs[KeyAt(v)]
             /\ \A e \in EffectsOf(KeyAt(v)) : effects'[e] = effects[e]
  <2>1. KeyAt(v) # KeyAt(w)  BY <1>2, <1>4, GoodWork
  <2> QED  BY <1>2, <1>3, <2>1
<1>5. ASSUME NEW k \in Keys, jobs'[k].status = "done" PROVE AllDone(k)'
  <2>1. k # KeyAt(w)  BY <1>2, <1>5, GoodWork
  <2>2. AllDone(k)  BY <1>2, <1>5 DEF HeldInv
  <2> QED  BY <1>3, <2>1, <2>2 DEF AllDone, EffectDone, EffectsOf
<1>6. HeldWork(w)'
  <2>1. EffectsOf(KeyAt(w))' = EffectsOf(KeyAt(w))  BY <1>1 DEF EffectsOf
  <2>2. jobs[KeyAt(w)].age <= Stale  BY <1>2 DEF HeldInv, HeldWork
  <2>3. (Executing(w) => jobs[KeyAt(w)].age <= Stale)'
    BY <1>1, <1>2, <2>2
  <2>4. (worker[w].pc \in {"deliver", "record"} =>
          /\ worker[w].at \in EffectsOf(KeyAt(w))
          /\ effects[worker[w].at].status = "processing"
          /\ effects[worker[w].at].age <= jobs[KeyAt(w)].age)'
    BY <1>1, <1>2, <2>1 DEF HeldMove
  <2>5. (worker[w].pc \in InLoop =>
          /\ worker[w].left \subseteq EffectsOf(KeyAt(w))
          /\ \A e \in EffectsOf(KeyAt(w)) \ worker[w].left : EffectDone(e))'
    BY <1>1, <2>1 DEF HeldMove, EffectDone
  <2>6. (worker[w].pc = "finish" /\ worker[w].word = "done" => AllDone(KeyAt(w)))'
    BY <1>1, <2>1 DEF HeldMove, EffectDone, AllDone
  <2> QED  BY <2>3, <2>4, <2>5, <2>6 DEF HeldWork
<1> QED  BY <1>1, <1>4, <1>5, <1>6, HeldStep

\* Also when it throws, or returns anything but done.
LEMMA HeldGivesUp ==
    ASSUME DispatchInv, Good, HeldInv, NEW w \in Workers, NEW local,
           Executing(w), Moves(w, local), UNCHANGED ledgerVars,
           \A e \in Effects \ EffectsOf(KeyAt(w)) : effects'[e] = effects[e],
           local.pc = "fail" \/ (local.pc = "finish" /\ local.word # "done")
    PROVE  HeldInv'
<1>1. HeldMove(w, local)  BY DEF HeldMove, InLoop
<1> QED  BY <1>1, HeldMoves

LEMMA ThrowMoves ==
    ASSUME DispatchInv, NEW w \in Workers, NEW c \in {"retryable", "permanent"},
           worker' = [worker EXCEPT ![w] = Thrown(w, c)], UNCHANGED grants
    PROVE  Moves(w, Thrown(w, c)) /\ Thrown(w, c).pc = "fail"
<1>1. WorkerTypeOK  BY DEF DispatchInv
<1> QED  BY <1>1, ThrownLocal DEF Moves

LEMMA ReturnMoves ==
    ASSUME DispatchInv, NEW w \in Workers, NEW c \in {"done", "uncertain", "deferred"},
           NEW wait \in 0..MaxWait,
           worker' = [worker EXCEPT ![w] = Returned(w, c, wait)], UNCHANGED grants
    PROVE  /\ Moves(w, Returned(w, c, wait))
           /\ Returned(w, c, wait).pc = "finish" /\ Returned(w, c, wait).word = c
<1>1. WorkerTypeOK /\ worker[w] \in Local  BY DEF DispatchInv, WorkerTypeOK
<1>2. Returned(w, c, wait).word = c  BY <1>1 DEF Returned, Local
<1> QED  BY <1>1, <1>2, ReturnedLocal DEF Moves

LEMMA HeldThrow ==
    ASSUME DispatchInv, Good, HeldInv, NEW w \in Workers, Executing(w),
           \/ LoseEffectClaim(w) \/ LimitItem(w) \/ LoseEffectResult(w)
           \/ LosePublish(w) \/ LoseFinish(w) \/ FinishUnclaimed(w)
    PROVE  HeldInv'
<1>1. /\ Step(w, Thrown(w, "retryable")) /\ UNCHANGED ledgerVars /\ UNCHANGED effects
  BY DEF LoseEffectClaim, LimitItem, LoseEffectResult, LosePublish, LoseFinish,
         FinishUnclaimed
<1>2. Moves(w, Thrown(w, "retryable")) /\ Thrown(w, "retryable").pc = "fail"
  BY <1>1, ThrowMoves DEF Step, inboxVars
<1> QED  BY <1>1, <1>2, HeldGivesUp

LEMMA HeldAdmit ==
    ASSUME DispatchInv, Good, HeldInv, NEW w \in Workers, AdmitArticle(w) PROVE HeldInv'
<1> DEFINE local == [worker[w] EXCEPT !.pc = "effect"]
<1>1. /\ UNCHANGED ledgerVars /\ UNCHANGED effects /\ worker[w].pc = "begin"
      /\ Executing(w)
  BY DEF AdmitArticle, Executing
<1>2. CASE Step(w, local)
  <2>1. local.pc = "effect" /\ local.cur = worker[w].cur /\ local.left = worker[w].left
    BY DEF DispatchInv, WorkerTypeOK, Local
  <2> HIDE DEF local
  <2>2. Moves(w, local)  BY <1>2, <2>1 DEF Moves, Step, inboxVars
  <2>3. \A e \in EffectsOf(KeyAt(w)) \ worker[w].left : effects'[e].status = "done"
    BY <1>1 DEF HeldInv, HeldWork, InLoop, EffectDone
  <2>4. HeldMove(w, local)  BY <1>1, <2>1, <2>2, <2>3 DEF HeldMove, HeldInv, HeldWork, InLoop
  <2> QED  BY <2>4, HeldMoves
<1>3. ASSUME NEW wait \in 1..MaxWait, Step(w, Returned(w, "deferred", wait))
      PROVE  HeldInv'
  <2>1. wait \in 0..MaxWait  BY LedgerAssumption
  <2> DEFINE back == Returned(w, "deferred", wait)
  <2>2. Moves(w, back) /\ back.pc = "finish" /\ back.word = "deferred"
    BY <1>3, <2>1, ReturnMoves DEF Step, inboxVars
  <2> HIDE DEF back
  <2> QED  BY <1>1, <2>2, HeldGivesUp
<1>4. CASE Step(w, Thrown(w, "retryable"))
  <2>1. Moves(w, Thrown(w, "retryable")) /\ Thrown(w, "retryable").pc = "fail"
    BY <1>4, ThrowMoves DEF Step, inboxVars
  <2> QED  BY <1>1, <2>1, HeldGivesUp
<1> QED  BY <1>2, <1>3, <1>4 DEF AdmitArticle

LEMMA HeldSkip ==
    ASSUME DispatchInv, Good, HeldInv, NEW w \in Workers, NEW x \in Effects,
           SkipEffect(w, x)
    PROVE  HeldInv'
<1> DEFINE local == [worker[w] EXCEPT !.left = @ \ {x}]
<1>1. /\ UNCHANGED ledgerVars /\ UNCHANGED effects /\ worker[w].pc = "effect"
      /\ Executing(w)
  BY DEF SkipEffect, Executing
<1>2. ASSUME EffectDone(x), Step(w, local) PROVE HeldInv'
  <2>1. /\ local.pc = "effect" /\ local.cur = worker[w].cur
        /\ local.left = worker[w].left \ {x}
    BY <1>1 DEF DispatchInv, WorkerTypeOK, Local
  <2> HIDE DEF local
  <2>2. Moves(w, local)  BY <1>2, <2>1 DEF Moves, Step, inboxVars
  <2>3. \A e \in EffectsOf(KeyAt(w)) \ local.left : effects'[e].status = "done"
    BY <1>1, <1>2, <2>1 DEF HeldInv, HeldWork, InLoop, EffectDone
  <2>4. HeldMove(w, local)  BY <1>1, <2>1, <2>2, <2>3 DEF HeldMove, HeldInv, HeldWork, InLoop
  <2> QED  BY <2>4, HeldMoves
<1>3. ASSUME NEW c \in {"uncertain", "deferred"}, NEW wait \in 0..MaxWait,
             Step(w, Returned(w, c, wait))
      PROVE  HeldInv'
  <2>1. worker' = [worker EXCEPT ![w] = Returned(w, c, wait)] /\ UNCHANGED grants
    BY <1>3 DEF Step, inboxVars
  <2>2. /\ Moves(w, Returned(w, c, wait)) /\ Returned(w, c, wait).pc = "finish"
        /\ Returned(w, c, wait).word = c
    <3>1. c \in {"done", "uncertain", "deferred"}  OBVIOUS
    <3> QED  BY <2>1, <3>1, ReturnMoves
  <2> QED  BY <1>1, <1>3, <2>2, HeldGivesUp
<1>4. 0 \in 0..MaxWait /\ EffectWait(x) \in 0..MaxWait
  BY LedgerAssumption, EffectWaits DEF DispatchInv
<1> QED  BY <1>2, <1>3, <1>4 DEF SkipEffect

LEMMA HeldStart ==
    ASSUME DispatchInv, Good, HeldInv, NEW w \in Workers, NEW x \in Effects,
           StartEffect(w, x)
    PROVE  HeldInv'
<1> DEFINE local == [worker[w] EXCEPT !.pc = "deliver", !.at = x]
<1>1. /\ UNCHANGED ledgerVars /\ worker[w].pc = "effect" /\ Executing(w)
      /\ x \in EffectsOf(KeyAt(w)) /\ ClaimEffect(x, JobAt(w))
  BY DEF StartEffect, Executing, HeldInv, HeldWork, InLoop
<1>2. /\ effects'[x].status = "processing" /\ effects'[x].age = 0
      /\ \A e \in Effects \ {x} : effects'[e] = effects[e]
      /\ ~EffectDone(x)
  BY <1>1 DEF ClaimEffect, DispatchInv, EffectTypeOK
<1>3. \A e \in Effects \ EffectsOf(KeyAt(w)) : effects'[e] = effects[e]
  BY <1>1, <1>2
<1>4. CASE Step(w, local)
  <2>1. /\ local.pc = "deliver" /\ local.cur = worker[w].cur
        /\ local.left = worker[w].left /\ local.at = x
    BY DEF DispatchInv, WorkerTypeOK, Local
  <2> HIDE DEF local
  <2>2. Moves(w, local)  BY <1>4, <2>1 DEF Moves, Step, inboxVars
  <2>3. \A e \in EffectsOf(KeyAt(w)) \ local.left : effects'[e].status = "done"
    <3>1. \A e \in EffectsOf(KeyAt(w)) \ local.left : EffectDone(e) /\ e \in Effects
      BY <1>1, <2>1 DEF HeldInv, HeldWork, InLoop, EffectsOf
    <3> QED  BY <1>2, <3>1 DEF EffectDone
  <2>4. effects'[x].age <= jobs[KeyAt(w)].age
    <3>1. jobs[KeyAt(w)] \in JobRow /\ Stale \in Nat
      BY <1>1, GoodWork, LedgerAssumption
    <3>2. jobs[KeyAt(w)].age \in 0..(Stale + 1)  BY <3>1 DEF JobRow
    <3> QED  BY <1>2, <3>1, <3>2
  <2>5. HeldMove(w, local)  BY <1>1, <1>2, <1>3, <2>1, <2>2, <2>3, <2>4 DEF HeldMove, HeldInv, HeldWork, InLoop
  <2> QED  BY <2>5, HeldMoves
<1>5. CASE Step(w, Thrown(w, "retryable"))
  <2>1. Moves(w, Thrown(w, "retryable")) /\ Thrown(w, "retryable").pc = "fail"
    BY <1>5, ThrowMoves DEF Step, inboxVars
  <2> QED  BY <1>1, <1>3, <2>1, HeldGivesUp
<1> QED  BY <1>4, <1>5 DEF StartEffect

LEMMA HeldDeliver ==
    ASSUME DispatchInv, Good, HeldInv, NEW w \in Workers, Deliver(w) PROVE HeldInv'
<1>1. /\ UNCHANGED ledgerVars /\ UNCHANGED effects /\ worker[w].pc = "deliver"
      /\ Executing(w)
  BY DEF Deliver, Executing
<1>2. PICK word : Step(w, [worker[w] EXCEPT !.pc = "record", !.word = word])
  BY DEF Deliver
<1> DEFINE local == [worker[w] EXCEPT !.pc = "record", !.word = word]
<1>3. /\ local.pc = "record" /\ local.cur = worker[w].cur
      /\ local.left = worker[w].left /\ local.at = worker[w].at
  BY DEF DispatchInv, WorkerTypeOK, Local
<1>4. Step(w, local)  BY <1>2
<1> HIDE DEF local
<1>5. Moves(w, local)  BY <1>3, <1>4 DEF Moves, Step, inboxVars
<1>6. \A e \in EffectsOf(KeyAt(w)) \ worker[w].left : effects'[e].status = "done"
  BY <1>1 DEF HeldInv, HeldWork, InLoop, EffectDone
<1>7. /\ worker[w].at \in EffectsOf(KeyAt(w))
      /\ effects'[worker[w].at].status = "processing"
      /\ effects'[worker[w].at].age <= jobs[KeyAt(w)].age
  BY <1>1 DEF HeldInv, HeldWork
<1>8. HeldMove(w, local)  BY <1>1, <1>3, <1>5, <1>6, <1>7 DEF HeldMove, HeldInv, HeldWork, InLoop
<1> QED  BY <1>8, HeldMoves

LEMMA HeldRecord ==
    ASSUME DispatchInv, Good, HeldInv, NEW w \in Workers, RecordEffect(w) PROVE HeldInv'
<1> DEFINE at == worker[w].at
           word == worker[w].word
           local == [worker[w] EXCEPT !.pc = "effect", !.word = "",
                                      !.at = NoEffectKey, !.left = @ \ {at}]
<1>1. /\ UNCHANGED ledgerVars /\ worker[w].pc = "record" /\ Executing(w)
      /\ FinishEffect(at, Recorded(word))
  BY DEF RecordEffect, Executing
<1>2. at \in EffectsOf(KeyAt(w)) /\ at \in Effects /\ word \in Outcomes
  BY <1>1 DEF HeldInv, HeldWork, EffectsOf, DispatchInv, WorkInv, HoldersKnow
<1>3. /\ effects'[at].status = Recorded(word)
      /\ \A e \in Effects \ {at} : effects'[e] = effects[e]
  BY <1>1, <1>2 DEF FinishEffect, DispatchInv, EffectTypeOK, EffectRow
<1>4. \A e \in Effects \ EffectsOf(KeyAt(w)) : effects'[e] = effects[e]
  BY <1>2, <1>3
<1>5. ASSUME word = "ok", Step(w, local) PROVE HeldInv'
  <2>1. /\ local.pc = "effect" /\ local.cur = worker[w].cur
        /\ local.left = worker[w].left \ {at}
    BY DEF DispatchInv, WorkerTypeOK, Local
  <2> HIDE DEF local
  <2>2. Moves(w, local)  BY <1>5, <2>1 DEF Moves, Step, inboxVars
  <2>3. effects'[at].status = "done"  BY <1>3, <1>5 DEF Recorded
  <2>4. \A e \in EffectsOf(KeyAt(w)) \ worker[w].left : EffectDone(e) /\ e \in Effects
    BY <1>1 DEF HeldInv, HeldWork, InLoop, EffectsOf
  <2>5. \A e \in EffectsOf(KeyAt(w)) \ local.left : effects'[e].status = "done"
    BY <1>3, <2>1, <2>3, <2>4 DEF EffectDone
  <2>6. HeldMove(w, local)  BY <1>1, <1>4, <2>1, <2>2, <2>5 DEF HeldMove, HeldInv, HeldWork, InLoop
  <2> QED  BY <2>6, HeldMoves
<1>6. CASE Step(w, Returned(w, "uncertain", 0))
  <2>1. 0 \in 0..MaxWait  BY LedgerAssumption
  <2> DEFINE back == Returned(w, "uncertain", 0)
  <2>2. Moves(w, back) /\ back.pc = "finish" /\ back.word = "uncertain"
    BY <1>6, <2>1, ReturnMoves DEF Step, inboxVars
  <2> HIDE DEF back
  <2> QED  BY <1>1, <1>4, <2>2, HeldGivesUp
<1>7. ASSUME NEW c \in {"retryable", "permanent"}, Step(w, Thrown(w, c)) PROVE HeldInv'
  <2>1. Moves(w, Thrown(w, c)) /\ Thrown(w, c).pc = "fail"
    BY <1>7, ThrowMoves DEF Step, inboxVars
  <2> QED  BY <1>1, <1>4, <2>1, HeldGivesUp
<1>8. ASSUME NEW next \in AfterRecord(w)
      PROVE  \/ word = "ok" /\ next = local
             \/ next = Returned(w, "uncertain", 0)
             \/ next = Thrown(w, "retryable") \/ next = Thrown(w, "permanent")
  <2> HIDE DEF local
  <2>1. CASE word = "ok"  BY <1>8, <2>1 DEF AfterRecord, local
  <2>2. CASE word = "unknown"  BY <1>8, <2>2 DEF AfterRecord
  <2>3. CASE word = "quota"  BY <1>8, <2>3 DEF AfterRecord
  <2>4. CASE word = "rejected"  BY <1>8, <2>4 DEF AfterRecord
  <2> QED  BY <1>2, <2>1, <2>2, <2>3, <2>4 DEF Outcomes
<1> HIDE DEF local, word
<1> QED  BY <1>5, <1>6, <1>7, <1>8 DEF RecordEffect

\* What is returned as done has all its effects done.
LEMMA HeldReturn ==
    ASSUME DispatchInv, Good, HeldInv, NEW w \in Workers,
           ReturnDone(w) \/ PublishArticle(w)
    PROVE  HeldInv'
<1>1. /\ UNCHANGED ledgerVars /\ UNCHANGED effects /\ UNCHANGED grants
      /\ worker[w].pc = "effect" /\ worker[w].left = {} /\ Executing(w)
  BY DEF ReturnDone, PublishArticle, Finished, Executing, Step, inboxVars, Send
<1>2. \A e \in EffectsOf(KeyAt(w)) : effects'[e].status = "done"
  BY <1>1 DEF HeldInv, HeldWork, InLoop, EffectDone
<1>3. PICK local \in {Returned(w, "done", 0), Thrown(w, "retryable")} :
         worker' = [worker EXCEPT ![w] = local]
  BY DEF ReturnDone, PublishArticle, Step
<1>4. Moves(w, local) /\ local.pc \in {"finish", "fail"}
  <2>1. 0 \in 0..MaxWait  BY LedgerAssumption
  <2>2. CASE local = Returned(w, "done", 0)
    <3>1. worker' = [worker EXCEPT ![w] = Returned(w, "done", 0)]  BY <1>3, <2>2
    <3> QED  BY <1>1, <2>1, <2>2, <3>1, ReturnMoves
  <2>3. CASE local = Thrown(w, "retryable")
    <3>1. worker' = [worker EXCEPT ![w] = Thrown(w, "retryable")]  BY <1>3, <2>3
    <3> QED  BY <1>1, <2>3, <3>1, ThrowMoves
  <2> QED  BY <1>3, <2>2, <2>3
<1>5. HeldMove(w, local)  BY <1>1, <1>2, <1>4 DEF HeldMove, InLoop
<1> QED  BY <1>5, HeldMoves

\* The rows that are newly done are those of a worker that returned done.
LEMMA HeldEnd ==
    ASSUME DispatchInv, Good, Good', HeldInv, NEW w \in Workers, Ends(w) PROVE HeldInv'
<1>1. /\ AtWork(w) /\ \A v \in Workers \ {w} : SameWork(v)
      /\ worker'[w].pc \in {"next", "fail"} /\ UNCHANGED effects
  BY DEF Ends
<1>2. HeldWork(w)'  BY <1>1 DEF HeldWork, Executing, InLoop
<1>3. KeyAt(w) \in Keys  BY <1>1, AtHand DEF AtWork
<1>4. ASSUME NEW v \in Workers \ {w}, Executing(v)
      PROVE  jobs'[KeyAt(v)] = jobs[KeyAt(v)]
  <2>1. KeyAt(v) \in Keys  BY <1>4, GoodWork
  <2>2. Executing(v)' /\ KeyAt(v)' = KeyAt(v)  BY <1>1, <1>4, SameExecution
  <2>3. jobs'[KeyAt(v)].status = "processing"
    BY <2>2 DEF Good, ExecutorHoldsClaim
  <2> QED  BY <2>1, <2>3 DEF Ends, ledgerVars
<1>5. ASSUME NEW k \in Keys, jobs'[k].status = "done" PROVE AllDone(k)'
  <2>1. AllDone(k)
    <3>1. CASE jobs[k].status = "done"  BY <3>1 DEF HeldInv
    <3>2. CASE jobs[k].status # "done"
      <4>1. k = KeyAt(w) /\ worker[w].pc = "finish" /\ worker[w].word = "done"
        BY <1>3, <1>5, <3>2 DEF Ends, ledgerVars
      <4> QED  BY <4>1 DEF HeldInv, HeldWork
    <3> QED  BY <3>1, <3>2
  <2> QED  BY <1>1, <2>1 DEF AllDone, EffectDone, EffectsOf
<1> QED  BY <1>1, <1>2, <1>4, <1>5, HeldStep

LEMMA HeldBegins ==
    ASSUME DispatchInv, Good, Good', HeldInv, NEW w \in Workers, NEW j, Starts(w, j)
    PROVE  HeldInv'
<1>1. /\ \A v \in Workers \ {w} : SameWork(v)
      /\ UNCHANGED effects /\ KeyOf[j] \in Keys
      /\ worker'[w].pc \in {"begin", "effect"} /\ worker'[w].left = EffectsOf(KeyOf[j])
      /\ KeyAt(w)' = KeyOf[j]
  BY DEF Starts
<1>2. /\ \A k \in Keys \ {KeyOf[j]} : jobs'[k] = jobs[k]
      /\ jobs'[KeyOf[j]].status = "processing" /\ jobs'[KeyOf[j]].age = 0
  BY DEF Starts, ClaimJob, DispatchInv, LedgerInv, JobTypeOK
<1>3. Executing(w)'  BY <1>1 DEF Executing
<1>4. ASSUME NEW v \in Workers \ {w}, Executing(v)
      PROVE  jobs'[KeyAt(v)] = jobs[KeyAt(v)]
  <2>1. Executing(v)' /\ KeyAt(v)' = KeyAt(v) /\ KeyAt(v) \in Keys
    BY <1>1, <1>4, SameExecution, GoodWork
  <2>2. KeyAt(v)' # KeyAt(w)'
    BY <1>3, <2>1 DEF Good, ExecutorHoldsClaim
  <2> QED  BY <1>1, <1>2, <2>1, <2>2
<1>5. HeldWork(w)'
  <2>1. Stale \in Nat /\ EffectsOf(KeyOf[j])' = EffectsOf(KeyOf[j])
    BY LedgerAssumption DEF EffectsOf
  <2> QED  BY <1>1, <1>2, <2>1 DEF HeldWork, InLoop
<1>6. ASSUME NEW k \in Keys, jobs'[k].status = "done" PROVE AllDone(k)'
  <2>1. AllDone(k)  BY <1>2, <1>6 DEF HeldInv
  <2> QED  BY <1>1, <2>1 DEF AllDone, EffectDone, EffectsOf
<1> QED  BY <1>1, <1>4, <1>5, <1>6, HeldStep

LEMMA HeldRest ==
    ASSUME HeldInv, NEW w \in Workers, Rests(w) PROVE HeldInv'
<1>1. HeldWork(w)'  BY DEF Rests, AtWork, HeldWork, Executing, InLoop
<1>2. ASSUME NEW k \in Keys, jobs'[k].status = "done" PROVE AllDone(k)'
  <2>1. AllDone(k)  BY <1>2 DEF HeldInv, Rests, ledgerVars
  <2> QED  BY <2>1 DEF AllDone, EffectDone, EffectsOf, Rests
<1> QED  BY <1>1, <1>2, HeldStep DEF Rests, ledgerVars

LEMMA HeldOthers ==
    ASSUME DispatchInv, Good, HeldInv,
           \A v \in Workers : SameWork(v), UNCHANGED effects,
           \A k \in Keys : \/ jobs'[k] = jobs[k]
                           \/ jobs[k].status = "dead" /\ jobs'[k].status = "failed"
    PROVE  HeldInv'
<1>1. ASSUME NEW v \in Workers PROVE HeldWork(v)'
  <2>1. Executing(v) => jobs'[KeyAt(v)] = jobs[KeyAt(v)]  BY GoodWork
  <2> QED  BY <2>1, HeldStays DEF HeldInv
<1>2. ASSUME NEW k \in Keys, jobs'[k].status = "done" PROVE AllDone(k)'
  <2>1. AllDone(k)  BY <1>2 DEF HeldInv
  <2> QED  BY <2>1 DEF AllDone, EffectDone, EffectsOf
<1> QED  BY <1>1, <1>2 DEF HeldInv

\* The claim of a job and that of its effect grow old together.
LEMMA HeldTick ==
    ASSUME DispatchInv, Good, ~overran', HeldInv, Tick PROVE HeldInv'
<1>1. /\ InboxTick /\ JobTick /\ EffectTick
      /\ worker' = [w \in Workers |->
                       [worker[w] EXCEPT !.wait = IF @ = 0 THEN 0 ELSE @ - 1]]
  BY DEF Tick
<1>2. ASSUME NEW e \in Effects
      PROVE  /\ effects'[e].status = effects[e].status
             /\ effects[e].status = "processing" /\ effects[e].age <= Stale
                  => effects'[e].age = effects[e].age + 1
  BY <1>1, LedgerAssumption DEF EffectTick, DispatchInv, EffectTypeOK, EffectRow
<1>3. ASSUME NEW k \in Keys
      PROVE  /\ jobs'[k].status = jobs[k].status
             /\ jobs[k].status = "processing" /\ jobs[k].age <= Stale
                  => jobs'[k].age = jobs[k].age + 1
  <2>1. jobs[k] \in JobRow /\ Stale \in Nat
    BY LedgerAssumption DEF DispatchInv, LedgerInv, JobTypeOK
  <2>2. jobs'[k] = Older(jobs[k])  BY <1>1 DEF JobTick
  <2> QED  BY <2>1, <2>2 DEF Older, IsStale, JobRow
<1>4. \A k : AllDone(k) => AllDone(k)'
  BY <1>2 DEF AllDone, EffectDone, EffectsOf
<1>5. ASSUME NEW v \in Workers PROVE HeldWork(v)'
  <2>1. /\ worker[v].pc \in {"idle", "deliver"}
        /\ worker[v].pc = "deliver" => jobs[KeyAt(v)].age < Stale
    BY CalmTick DEF DispatchInv
  <2>2. worker[v] \in Local  BY DEF DispatchInv, WorkerTypeOK
  <2>3. /\ worker'[v].pc = worker[v].pc /\ worker'[v].cur = worker[v].cur
        /\ worker'[v].left = worker[v].left /\ worker'[v].at = worker[v].at
    BY <1>1, <2>2 DEF Local
  <2>4. CASE worker[v].pc = "idle"
    BY <2>3, <2>4 DEF HeldWork, Executing, InLoop
  <2>5. CASE worker[v].pc = "deliver"
    <3>1. Executing(v)  BY <2>5 DEF Executing
    <3>2. /\ jobs[KeyAt(v)].status = "processing" /\ KeyAt(v) \in Keys
          /\ jobs[KeyAt(v)] \in JobRow
      BY <3>1, GoodWork
    <3>3. worker[v].cur \in Leases  BY <2>5, AtHand
    <3>4. KeyAt(v)' = KeyAt(v)
      BY <1>1, <2>3, <3>3
      DEF KeyAt, JobAt, InboxTick, DispatchInv, LeaseInv, InboxTypeOK, Grant
    <3> DEFINE at == worker[v].at
    <3>5. /\ at \in EffectsOf(KeyAt(v)) /\ at \in Effects
          /\ effects[at].status = "processing" /\ effects[at].age <= jobs[KeyAt(v)].age
          /\ worker[v].left \subseteq EffectsOf(KeyAt(v))
          /\ \A e \in EffectsOf(KeyAt(v)) \ worker[v].left : EffectDone(e)
      BY <2>5 DEF HeldInv, HeldWork, InLoop, EffectsOf
    <3>6. jobs[KeyAt(v)].age \in Nat /\ effects[at].age \in Nat /\ Stale \in Nat
      BY <3>2, <3>5, LedgerAssumption DEF JobRow, DispatchInv, EffectTypeOK, EffectRow
    <3>7. jobs'[KeyAt(v)].age = jobs[KeyAt(v)].age + 1
      BY <1>3, <2>1, <2>5, <3>2, <3>6
    <3>8. effects'[at].age = effects[at].age + 1 /\ effects'[at].status = "processing"
      BY <1>2, <2>1, <2>5, <3>5, <3>6
    <3>9. jobs'[KeyAt(v)].age <= Stale /\ effects'[at].age <= jobs'[KeyAt(v)].age
      BY <2>1, <2>5, <3>5, <3>6, <3>7, <3>8
    <3>10. \A e \in EffectsOf(KeyAt(v)) \ worker[v].left : EffectDone(e)'
      BY <1>2, <3>5 DEF EffectDone, EffectsOf
    <3>11. EffectsOf(KeyAt(v))' = EffectsOf(KeyAt(v))  BY <3>4 DEF EffectsOf
    <3> HIDE DEF at
    <3>12. (worker[v].pc \in {"deliver", "record"} =>
              /\ worker[v].at \in EffectsOf(KeyAt(v))
              /\ effects[worker[v].at].status = "processing"
              /\ effects[worker[v].at].age <= jobs[KeyAt(v)].age)'
      BY <2>3, <3>4, <3>5, <3>8, <3>9, <3>11 DEF at
    <3>13. (worker[v].pc \in InLoop =>
              /\ worker[v].left \subseteq EffectsOf(KeyAt(v))
              /\ \A e \in EffectsOf(KeyAt(v)) \ worker[v].left : EffectDone(e))'
      BY <2>3, <3>5, <3>10, <3>11
    <3>14. (Executing(v) => jobs[KeyAt(v)].age <= Stale)'
      BY <3>4, <3>9
    <3>15. worker'[v].pc # "finish"  BY <2>3, <2>5
    <3> QED  BY <3>12, <3>13, <3>14, <3>15 DEF HeldWork
  <2> QED  BY <2>1, <2>4, <2>5
<1>6. \A k \in Keys : jobs'[k].status = "done" => AllDone(k)'
  BY <1>3, <1>4 DEF HeldInv
<1> QED  BY <1>5, <1>6 DEF HeldInv

LEMMA StepKeepsHeld ==
    DispatchInv /\ Good /\ Good' /\ HeldInv /\ [Next]_vars => HeldInv'
<1> SUFFICES ASSUME DispatchInv, Good, Good', HeldInv, [Next]_vars PROVE HeldInv'
  OBVIOUS
<1>1. ASSUME NEW w \in Workers, Rests(w) PROVE HeldInv'  BY <1>1, HeldRest
<1>2. ASSUME NEW w \in Workers,
             \/ LoseEffectClaim(w) \/ LimitItem(w) \/ LoseEffectResult(w)
             \/ LosePublish(w) \/ LoseFinish(w) \/ FinishUnclaimed(w)
      PROVE  HeldInv'
  <2>1. Executing(w)
    BY <1>2 DEF LoseEffectClaim, LimitItem, LoseEffectResult, LosePublish, LoseFinish,
       FinishUnclaimed, Finished, Executing
  <2> QED  BY <1>2, <2>1, HeldThrow
<1>3. ASSUME NEW w \in Workers, HandlerStep(w) PROVE HeldInv'
  BY <1>2, <1>3, HeldAdmit, HeldSkip, HeldStart, HeldDeliver, HeldRecord, HeldReturn
  DEF HandlerStep
<1>4. ASSUME NEW w \in Workers, NEW l \in Leases, StartJob(w, l) PROVE HeldInv'
  BY <1>4, StartMoves, HeldBegins
<1>5. ASSUME NEW w \in Workers, FinishJob(w) \/ FailJob(w) PROVE HeldInv'
  BY <1>5, EndMoves, HeldEnd
<1>6. CASE \/ ConsumerStep \/ (\E o \in ReplayKeys, j \in JobIds : Replay(o, j))
           \/ UNCHANGED vars
  BY <1>6, NobodyMoves, HeldOthers DEF ConsumerStep
<1>7. CASE Tick  BY <1>7, HeldTick DEF Good
<1>8. ASSUME NEW w \in Workers, ProcessorStep(w) PROVE HeldInv'
  BY <1>1, <1>2, <1>4, <1>5, <1>8, BatchRests DEF ProcessorStep
<1> QED  BY <1>1, <1>3, <1>6, <1>7, <1>8, BatchRests DEF Next

-----------------------------------------------------------------------------
(* Nothing is written twice in a calm behaviour *)

\* Nothing is written yet where a worker is about to write, nor where it has
\* learnt that nothing was.
OnceWork(w) ==
    /\ worker[w].pc = "deliver" => sent[worker[w].at] = 0
    /\ worker[w].pc = "record" /\ worker[w].word \in {"quota", "rejected"} =>
          sent[worker[w].at] = 0

\* What is written is recorded, or is about to be.
Once(e) ==
    /\ sent[e] <= 1
    /\ sent[e] > 0 => \/ EffectDone(e) \/ EffectUncertain(e)
                      \/ \E w \in Workers : worker[w].pc = "record" /\ worker[w].at = e

OnceInv == (\A w \in Workers : OnceWork(w)) /\ \A e \in Effects : Once(e)

LEMMA ClaimsAreGood == ASSUME ClaimInv, ~overran PROVE Good
<1>1. ASSUME NEW w \in Workers, Executing(w)
      PROVE  /\ jobs[KeyAt(w)].status = "processing" /\ jobs[KeyAt(w)].job = JobAt(w)
             /\ \A v \in Workers \ {w} : Executing(v) => KeyAt(v) # KeyAt(w)
  <2>1. AtWork(w) /\ worker[w].pc # "fail"  BY <1>1 DEF Executing, AtWork
  <2>2. ClaimKept(w) /\ Alone(w)  BY <2>1, ClaimHeld
  <2> QED  BY <2>2, ExecutingIsAtWork DEF ClaimKept, Alone
<1> QED  BY <1>1 DEF Good, ExecutorHoldsClaim

LEMMA ClaimsAreGoodNext == ASSUME ClaimInv', ~overran' PROVE Good'
<1>1. ASSUME NEW w \in Workers, Executing(w)'
      PROVE  (/\ jobs[KeyAt(w)].status = "processing"
              /\ jobs[KeyAt(w)].job = JobAt(w)
              /\ \A v \in Workers \ {w} : Executing(v) => KeyAt(v) # KeyAt(w))'
  <2>1. /\ AtWork(w)' /\ worker'[w].pc # "fail"
        /\ \A v \in Workers : Executing(v)' => AtWork(v)'
    BY <1>1 DEF Executing, AtWork
  <2> QED  BY <2>1 DEF ClaimInv, RowKept, Lapsed, ClaimKept, Alone
<1> QED  BY <1>1 DEF Good, ExecutorHoldsClaim

LEMMA CalmIsGood == ASSUME ClaimInv, Calm PROVE Good
BY ClaimsAreGood DEF Calm

\* Steps that write and record nothing.
LEMMA OnceStays ==
    ASSUME OnceInv, UNCHANGED sent,
           \A e \in Effects : effects'[e].status = effects[e].status,
           \A v \in Workers :
              \/ SameWork(v)
              \/ worker[v].pc # "record" /\ worker'[v].pc \notin {"deliver", "record"}
    PROVE  OnceInv'
<1>1. \A v \in Workers : OnceWork(v)'  BY DEF OnceInv, OnceWork, SameWork
<1>2. ASSUME NEW e \in Effects PROVE Once(e)'
  <2>1. Once(e)  BY DEF OnceInv
  <2>2. ASSUME NEW v \in Workers, worker[v].pc = "record", worker[v].at = e
        PROVE  worker'[v].pc = "record" /\ worker'[v].at = e
    BY <2>2 DEF SameWork
  <2> QED  BY <2>1, <2>2 DEF Once, EffectDone, EffectUncertain
<1> QED  BY <1>1, <1>2 DEF OnceInv

\* Two workers are never at the same effect.
LEMMA AtApart ==
    ASSUME DispatchInv, Good, HeldInv, NEW w \in Workers, Executing(w),
           NEW v \in Workers \ {w}, worker[v].pc \in {"deliver", "record"}
    PROVE  worker[v].at \notin EffectsOf(KeyAt(w))
<1>1. Executing(v) /\ worker[v].at \in EffectsOf(KeyAt(v))
  BY DEF Executing, HeldInv, HeldWork
<1>2. KeyAt(v) # KeyAt(w)  BY <1>1, GoodWork
<1> QED  BY <1>1, <1>2, EffectsApart

LEMMA OnceStart ==
    ASSUME DispatchInv, Good, HeldInv, OnceInv, Calm',
           NEW w \in Workers, NEW x \in Effects, StartEffect(w, x)
    PROVE  OnceInv'
<1> DEFINE local == [worker[w] EXCEPT !.pc = "deliver", !.at = x]
<1>1. /\ UNCHANGED sent /\ worker[w].pc = "effect" /\ Executing(w)
      /\ x \in EffectsOf(KeyAt(w)) /\ ClaimEffect(x, JobAt(w)) /\ Step(w, local)
  BY NoFault DEF StartEffect, Fault, pipeVars, Executing, HeldInv, HeldWork, InLoop,
     DispatchInv
<1>2. /\ ~EffectDone(x) /\ ~EffectUncertain(x)
      /\ \A e \in Effects \ {x} : effects'[e] = effects[e]
  BY <1>1 DEF ClaimEffect, DispatchInv, EffectTypeOK
<1>3. sent[x] = 0
  <2>1. sent[x] \in 0..2  BY DEF DispatchInv, HistoryTypeOK
  <2>2. ASSUME NEW u \in Workers, worker[u].pc = "record", worker[u].at = x PROVE FALSE
    BY <1>1, <2>2, AtApart
  <2> QED  BY <1>2, <2>1, <2>2 DEF OnceInv, Once
<1>4. /\ worker'[w] = local /\ local.pc = "deliver" /\ local.at = x
      /\ \A v \in Workers \ {w} : worker'[v] = worker[v]
  BY <1>1 DEF Step, DispatchInv, WorkerTypeOK, Local
<1> HIDE DEF local
<1>5. ASSUME NEW v \in Workers PROVE OnceWork(v)'
  <2>1. CASE v = w  BY <1>1, <1>3, <1>4, <2>1 DEF OnceWork
  <2>2. CASE v # w  BY <1>1, <1>4, <2>2 DEF OnceInv, OnceWork
  <2> QED  BY <2>1, <2>2
<1>6. ASSUME NEW e \in Effects PROVE Once(e)'
  <2>1. CASE e = x  BY <1>1, <1>3, <2>1 DEF Once
  <2>2. CASE e # x
    <3>1. Once(e) /\ effects'[e] = effects[e]  BY <1>2, <2>2 DEF OnceInv
    <3>2. ASSUME NEW u \in Workers, worker[u].pc = "record", worker[u].at = e
          PROVE  worker'[u].pc = "record" /\ worker'[u].at = e
      BY <1>1, <1>4, <3>2
    <3> QED  BY <1>1, <3>1, <3>2 DEF Once, EffectDone, EffectUncertain
  <2> QED  BY <2>1, <2>2
<1> QED  BY <1>5, <1>6 DEF OnceInv

LEMMA OnceDeliver ==
    ASSUME DispatchInv, Good, HeldInv, OnceInv, NEW w \in Workers, Deliver(w)
    PROVE  OnceInv'
<1> DEFINE at == worker[w].at
<1>1. /\ UNCHANGED effects /\ worker[w].pc = "deliver" /\ Executing(w)
      /\ at \in EffectsOf(KeyAt(w)) /\ at \in Effects /\ sent[at] = 0
  BY DEF Deliver, Executing, HeldInv, HeldWork, EffectsOf, OnceInv, OnceWork
<1>pick. PICK wrote \in BOOLEAN : \E word \in Learnt(wrote) :
         /\ sent' = IF wrote /\ sent[at] < 2 THEN [sent EXCEPT ![at] = @ + 1] ELSE sent
         /\ Step(w, [worker[w] EXCEPT !.pc = "record", !.word = word])
  BY DEF Deliver
<1>2. PICK word \in Learnt(wrote) :
         /\ sent' = IF wrote /\ sent[at] < 2 THEN [sent EXCEPT ![at] = @ + 1] ELSE sent
         /\ Step(w, [worker[w] EXCEPT !.pc = "record", !.word = word])
  BY <1>pick
<1> DEFINE local == [worker[w] EXCEPT !.pc = "record", !.word = word]
<1>3. /\ local.pc = "record" /\ local.at = at /\ local.word = word
      /\ worker'[w] = local /\ \A v \in Workers \ {w} : worker'[v] = worker[v]
  BY <1>2 DEF Step, DispatchInv, WorkerTypeOK, Local
<1> HIDE DEF local, at
<1>4. /\ sent'[at] = IF wrote THEN 1 ELSE 0
      /\ \A e \in Effects \ {at} : sent'[e] = sent[e]
  BY <1>1, <1>2 DEF DispatchInv, HistoryTypeOK
<1>5. word \in {"quota", "rejected"} => ~wrote  BY <1>2 DEF Learnt
<1>6. ASSUME NEW v \in Workers PROVE OnceWork(v)'
  <2>1. CASE v = w  BY <1>3, <1>4, <1>5, <2>1 DEF OnceWork
  <2>2. CASE v # w
    <3>1. CASE worker[v].pc \in {"deliver", "record"}
      <4>1. Executing(v) /\ worker[v].at \in Effects
        BY <3>1 DEF Executing, HeldInv, HeldWork, EffectsOf
      <4>2. worker[v].at # at  BY <1>1, <2>2, <3>1, AtApart
      <4> QED  BY <1>3, <1>4, <2>2, <4>1, <4>2 DEF OnceInv, OnceWork
    <3>2. CASE worker[v].pc \notin {"deliver", "record"}
      BY <1>3, <2>2, <3>2 DEF OnceWork
    <3> QED  BY <3>1, <3>2
  <2> QED  BY <2>1, <2>2
<1>7. ASSUME NEW e \in Effects PROVE Once(e)'
  <2>1. CASE e = at  BY <1>3, <1>4, <2>1 DEF Once
  <2>2. CASE e # at
    <3>1. Once(e) /\ sent'[e] = sent[e]  BY <1>4, <2>2 DEF OnceInv
    <3>2. ASSUME NEW u \in Workers, worker[u].pc = "record", worker[u].at = e
          PROVE  worker'[u].pc = "record" /\ worker'[u].at = e
      BY <1>1, <1>3, <3>2
    <3> QED  BY <1>1, <3>1, <3>2 DEF Once, EffectDone, EffectUncertain
  <2> QED  BY <2>1, <2>2
<1> QED  BY <1>6, <1>7 DEF OnceInv

LEMMA OnceRecord ==
    ASSUME DispatchInv, Good, HeldInv, OnceInv, Calm', NEW w \in Workers, RecordEffect(w)
    PROVE  OnceInv'
<1> DEFINE at == worker[w].at
           word == worker[w].word
<1>1. /\ UNCHANGED sent /\ worker[w].pc = "record" /\ Executing(w)
      /\ FinishEffect(at, Recorded(word))
      /\ \E local \in AfterRecord(w) : Step(w, local)
  BY NoFault DEF RecordEffect, Fault, pipeVars, Executing, DispatchInv
<1>2. at \in EffectsOf(KeyAt(w)) /\ at \in Effects /\ word \in Outcomes
  BY <1>1 DEF HeldInv, HeldWork, EffectsOf, DispatchInv, WorkInv, HoldersKnow
<1>3. /\ effects'[at].status = Recorded(word)
      /\ \A e \in Effects \ {at} : effects'[e] = effects[e]
  BY <1>1, <1>2 DEF FinishEffect, DispatchInv, EffectTypeOK, EffectRow
<1>4. PICK local \in AfterRecord(w) : Step(w, local)  BY <1>1
<1>5. local.pc \in {"effect", "finish", "fail"}
  <2>1. WorkerTypeOK /\ 0 \in 0..MaxWait  BY LedgerAssumption DEF DispatchInv
  <2>2. CASE word = "ok"  BY <2>1, <2>2 DEF AfterRecord, WorkerTypeOK, Local
  <2>3. CASE word = "unknown"  BY <2>1, <2>3, ReturnedLocal DEF AfterRecord
  <2>4. CASE word = "quota"  BY <2>1, <2>4, ThrownLocal DEF AfterRecord
  <2>5. CASE word = "rejected"  BY <2>1, <2>5, ThrownLocal DEF AfterRecord
  <2> QED  BY <1>2, <2>2, <2>3, <2>4, <2>5 DEF Outcomes
<1>6. worker'[w] = local /\ \A v \in Workers \ {w} : worker'[v] = worker[v]
  BY <1>4 DEF Step, DispatchInv, WorkerTypeOK
<1>7. ASSUME NEW v \in Workers PROVE OnceWork(v)'
  BY <1>1, <1>5, <1>6 DEF OnceInv, OnceWork
<1>8. ASSUME NEW e \in Effects PROVE Once(e)'
  <2>1. CASE e = at
    <3>1. Once(at) /\ OnceWork(w)  BY <1>2 DEF OnceInv
    <3>2. word \in {"quota", "rejected"} => sent[at] = 0  BY <1>1, <3>1 DEF OnceWork
    <3> HIDE DEF at, word
    <3>3. CASE word = "ok"
      <4>1. Recorded(word) = "done"  BY <3>3 DEF Recorded
      <4> QED  BY <1>1, <1>3, <2>1, <3>1, <4>1 DEF Once, EffectDone
    <3>4. CASE word = "unknown"
      <4>1. Recorded(word) = "uncertain"  BY <3>4 DEF Recorded
      <4> QED  BY <1>1, <1>3, <2>1, <3>1, <4>1 DEF Once, EffectUncertain
    <3>5. CASE word \in {"quota", "rejected"}
      BY <1>1, <2>1, <3>2, <3>5 DEF Once
    <3> QED  BY <1>2, <3>3, <3>4, <3>5 DEF Outcomes
  <2>2. CASE e # at
    <3>1. Once(e) /\ effects'[e] = effects[e]  BY <1>3, <2>2 DEF OnceInv
    <3>2. ASSUME NEW u \in Workers, worker[u].pc = "record", worker[u].at = e
          PROVE  worker'[u].pc = "record" /\ worker'[u].at = e
      BY <1>6, <2>2, <3>2
    <3> QED  BY <1>1, <3>1, <3>2 DEF Once, EffectDone, EffectUncertain
  <2> QED  BY <2>1, <2>2
<1> QED  BY <1>7, <1>8 DEF OnceInv

\* Every other step of the handler stays away from writes.
LEMMA OnceElse ==
    ASSUME DispatchInv, OnceInv, Calm', NEW w \in Workers,
           \/ AdmitArticle(w) \/ (\E e \in Effects : SkipEffect(w, e))
           \/ LimitItem(w) \/ ReturnDone(w) \/ PublishArticle(w) \/ FinishUnclaimed(w)
    PROVE  OnceInv'
<1>1. /\ UNCHANGED sent /\ UNCHANGED effects
      /\ worker[w].pc \in {"begin", "effect", "deliver", "finish"}
  BY DEF AdmitArticle, SkipEffect, LimitItem, ReturnDone, PublishArticle,
         FinishUnclaimed, Finished, Fault, Refuse, pipeVars
<1>2. PICK local : Moves(w, local)  BY HandlerMoves DEF HandlerStep
<1>3. /\ \A v \in Workers \ {w} : SameWork(v)
  BY <1>2, MovedWorker DEF DispatchInv
<1>4. worker'[w].pc \in {"effect", "finish", "fail"}
  <2>1. WorkerTypeOK /\ worker[w] \in Local /\ 0 \in 0..MaxWait
    BY LedgerAssumption DEF DispatchInv, WorkerTypeOK
  <2>2. ASSUME NEW local1, worker' = [worker EXCEPT ![w] = local1],
               local1.pc \in {"effect", "finish", "fail"}
        PROVE  worker'[w].pc \in {"effect", "finish", "fail"}
    BY <2>1, <2>2 DEF WorkerTypeOK
  <2>3. ASSUME NEW c \in {"done", "uncertain", "deferred"}, NEW wait \in 0..MaxWait,
               worker' = [worker EXCEPT ![w] = Returned(w, c, wait)]
        PROVE  worker'[w].pc \in {"effect", "finish", "fail"}
    <3>1. Returned(w, c, wait).pc = "finish"  BY <2>1, ReturnedLocal
    <3> QED  BY <2>2, <2>3, <3>1
  <2>4. ASSUME NEW c \in {"retryable", "permanent"},
               worker' = [worker EXCEPT ![w] = Thrown(w, c)]
        PROVE  worker'[w].pc \in {"effect", "finish", "fail"}
    BY <2>1, <2>2, <2>4, ThrownLocal
  <2>5. CASE AdmitArticle(w)
    <3>1. [worker[w] EXCEPT !.pc = "effect"].pc = "effect"  BY <2>1 DEF Local
    <3>2. 1..MaxWait \subseteq 0..MaxWait  BY LedgerAssumption
    <3> QED  BY <2>2, <2>3, <2>4, <2>5, <3>1, <3>2 DEF AdmitArticle, Step
  <2>6. ASSUME NEW e \in Effects, SkipEffect(w, e)
        PROVE  worker'[w].pc \in {"effect", "finish", "fail"}
    <3>1. [worker[w] EXCEPT !.left = @ \ {e}].pc = "effect"
      BY <2>1, <2>6 DEF Local, SkipEffect
    <3>2. EffectWait(e) \in 0..MaxWait  BY EffectWaits DEF DispatchInv
    <3> QED  BY <2>1, <2>2, <2>3, <2>6, <3>1, <3>2 DEF SkipEffect, Step
  <2>7. CASE LimitItem(w) \/ FinishUnclaimed(w)
    BY <2>4, <2>7 DEF LimitItem, FinishUnclaimed, Step
  <2>8. CASE ReturnDone(w) \/ PublishArticle(w)
    BY <2>1, <2>3, <2>4, <2>8 DEF ReturnDone, PublishArticle, Step
  <2> QED  BY <2>5, <2>6, <2>7, <2>8
<1> QED  BY <1>1, <1>3, <1>4, OnceStays

LEMMA TickKeepsWork == ASSUME DispatchInv, Tick, NEW v \in Workers PROVE SameWork(v)
<1>1. /\ InboxTick
      /\ worker' = [w \in Workers |->
                       [worker[w] EXCEPT !.wait = IF @ = 0 THEN 0 ELSE @ - 1]]
  BY DEF Tick
<1>2. worker[v] \in Local  BY DEF DispatchInv, WorkerTypeOK
<1>3. worker[v].pc \notin {"idle", "next"} => worker[v].cur \in Leases  BY AtHand
<1>4. \A l \in Leases : grants'[l].message = grants[l].message
  BY <1>1 DEF InboxTick, DispatchInv, LeaseInv, InboxTypeOK, Grant
<1> QED  BY <1>1, <1>2, <1>3, <1>4 DEF SameWork, Local

LEMMA StepKeepsOnce ==
    DispatchInv /\ Good /\ HeldInv /\ OnceInv /\ [Next]_vars /\ Calm' => OnceInv'
<1> SUFFICES ASSUME DispatchInv, Good, HeldInv, OnceInv, [Next]_vars, Calm'
             PROVE  OnceInv'
  OBVIOUS
<1>1. ASSUME NEW w \in Workers, Rests(w), worker[w].pc \in {"idle", "next", "fail"}
      PROVE  OnceInv'
  BY <1>1, OnceStays DEF Rests, AtWork
<1>2. ~Fault  BY NoFault DEF DispatchInv
<1>3. ASSUME NEW w \in Workers, HandlerStep(w) PROVE OnceInv'
  BY <1>2, <1>3, OnceStart, OnceDeliver, OnceRecord, OnceElse
  DEF HandlerStep, LoseEffectClaim, LoseEffectResult, LosePublish
<1>4. ASSUME NEW w \in Workers, ProcessorStep(w) PROVE OnceInv'
  <2>1. CASE PullBatch(w) \/ SettleWork(w) \/ FailUnclaimed(w)
    BY <1>1, <2>1, BatchRests DEF PullBatch, SettleWork, FailUnclaimed
  <2>2. ASSUME NEW l \in Leases, DeferAcceptance(w, l) \/ SkipJob(w, l) PROVE OnceInv'
    BY <1>1, <2>2, BatchRests DEF DeferAcceptance, SkipJob, Choosing
  <2>3. ASSUME NEW l \in Leases, StartJob(w, l) PROVE OnceInv'
    <3> DEFINE j == grants[l].message.job
    <3>1. Starts(w, j)  BY <2>3, StartMoves
    <3> QED  BY <3>1, OnceStays DEF Starts, AtWork
  <2>4. CASE FinishJob(w) \/ FailJob(w)
    <3>1. Ends(w) /\ worker[w].pc \in {"finish", "fail"}
      BY <2>4, EndMoves DEF FinishJob, FailJob
    <3> QED  BY <3>1, OnceStays DEF Ends
  <2>5. CASE LoseFinish(w)  BY <1>2, <2>5 DEF LoseFinish
  <2>6. CASE FinishUnclaimed(w)  BY <2>6, OnceElse
  <2> QED  BY <1>4, <2>1, <2>2, <2>3, <2>4, <2>5, <2>6 DEF ProcessorStep
<1>5. CASE \/ ConsumerStep \/ (\E o \in ReplayKeys, j \in JobIds : Replay(o, j))
           \/ UNCHANGED vars
  BY <1>5, NobodyMoves, OnceStays DEF ConsumerStep
<1>6. CASE Tick
  <2>1. \A e \in Effects : effects'[e].status = effects[e].status
    BY <1>6 DEF Tick, EffectTick, DispatchInv, EffectTypeOK, EffectRow
  <2>2. UNCHANGED sent  BY <1>6 DEF Tick
  <2> QED  BY <1>6, <2>1, <2>2, TickKeepsWork, OnceStays
<1>7. ASSUME NEW w \in Workers, Crash(w) PROVE OnceInv'
  BY <1>2, <1>7 DEF Crash
<1> QED  BY <1>3, <1>4, <1>5, <1>6, <1>7 DEF Next

-----------------------------------------------------------------------------
(* The theorems *)

CalmInv == Calm => ClaimInv /\ HeldInv /\ OnceInv

LEMMA HeldInit == Init => HeldInv
<1> SUFFICES ASSUME Init PROVE HeldInv
  OBVIOUS
<1>1. \A w \in Workers : worker[w].pc = "idle"  BY DEF Init, Idle
<1>2. \A w \in Workers : HeldWork(w)  BY <1>1 DEF HeldWork, Executing, InLoop
<1>3. \A k \in Keys : jobs[k].status # "done"  BY DEF Init, JobInit, NoJobRow
<1> QED  BY <1>2, <1>3 DEF HeldInv

LEMMA CalmInvariant == Spec => []CalmInv
<1>1. Init => CalmInv
  <2> SUFFICES ASSUME Init PROVE ClaimInv /\ HeldInv /\ OnceInv
    BY DEF CalmInv
  <2>1. \A w \in Workers : worker[w].pc = "idle"  BY DEF Init, Idle
  <2>2. ClaimInv  BY <2>1 DEF ClaimInv, AtWork
  <2>3. OnceInv  BY <2>1 DEF Init, OnceInv, OnceWork, Once
  <2> QED  BY <2>2, <2>3, HeldInit
<1>2. DispatchInv /\ DispatchInv' /\ CalmInv /\ [Next]_vars => CalmInv'
  <2> SUFFICES ASSUME DispatchInv, DispatchInv', CalmInv, [Next]_vars, Calm'
               PROVE  ClaimInv' /\ HeldInv' /\ OnceInv'
    BY DEF CalmInv
  <2>1. Calm /\ ClaimInv /\ HeldInv /\ OnceInv
    BY CalmBefore DEF CalmInv, DispatchInv
  <2>2. ClaimInv' /\ ~overran'  BY <2>1, StepKeepsClaims DEF Calm
  <2>3. Good  BY <2>1, CalmIsGood
  <2>4. Good'  BY <2>2, ClaimsAreGoodNext
  <2>5. HeldInv'  BY <2>1, <2>3, <2>4, StepKeepsHeld
  <2>6. OnceInv'  BY <2>1, <2>3, StepKeepsOnce
  <2> QED  BY <2>2, <2>5, <2>6
<1> QED  BY <1>1, <1>2, DispatchInvariant, PTL DEF Spec

\* Nothing is written twice unless a request was lost, a worker crashed or a
\* claim was outlived: expired leases, duplicate messages, new job ids,
\* deferrals, retries and replays write nothing again (claimJob and claimEffect
\* in front of every external write, finishEffect behind it).
THEOREM WrittenOnce == Spec => []NoDoubleWrite
<1>1. CalmInv => NoDoubleWrite
  BY DEF CalmInv, Calm, OnceInv, Once, NoDoubleWrite
<1> QED  BY <1>1, CalmInvariant, PTL

\* An external write is made under a good claim of its effect.
LEMMA WriteStepUnderClaim ==
    ASSUME DispatchInv, [Next]_vars, Good => HeldInv, ~overran =>
           ExecutorHoldsClaim, NEW e \in Effects, sent'[e] # sent[e], ~overran
    PROVE  effects[e].status = "processing" /\ effects[e].age <= Stale
<1>1. Good /\ HeldInv  BY DEF Good
<1>2. PICK w \in Workers : Deliver(w)
  <2>1. ASSUME NEW w \in Workers, Rests(w) PROVE FALSE  BY <2>1 DEF Rests
  <2>2. ASSUME NEW w \in Workers, HandlerStep(w), ~Deliver(w) PROVE FALSE
    BY <2>2 DEF HandlerStep, AdmitArticle, SkipEffect, StartEffect, LoseEffectClaim,
       LimitItem, RecordEffect, LoseEffectResult, ReturnDone, PublishArticle,
       LosePublish, Fault, Refuse, pipeVars
  <2>3. ASSUME NEW w \in Workers, ProcessorStep(w) PROVE FALSE
    BY <2>1, <2>3, BatchRests DEF ProcessorStep, StartJob, FinishJob, LoseFinish,
       FinishUnclaimed, FailJob, Fault, pipeVars
  <2>4. CASE \/ ConsumerStep \/ (\E o \in ReplayKeys, j \in JobIds : Replay(o, j))
             \/ UNCHANGED vars
    BY <2>4, NobodyMoves DEF ConsumerStep
  <2>5. CASE Tick  BY <2>5 DEF Tick
  <2> QED  BY <2>1, <2>2, <2>3, <2>4, <2>5, BatchRests DEF Next
<1>3. worker[w].pc = "deliver" /\ Executing(w)  BY <1>2 DEF Deliver, Executing
<1> DEFINE at == worker[w].at
<1>4. /\ at \in Effects /\ effects[at].status = "processing"
      /\ effects[at].age <= jobs[KeyAt(w)].age /\ jobs[KeyAt(w)].age <= Stale
  BY <1>1, <1>3 DEF HeldInv, HeldWork, EffectsOf
<1>5. effects[at].age <= Stale
  <2>1. effects[at].age \in Nat /\ jobs[KeyAt(w)].age \in Nat /\ Stale \in Nat
    BY <1>1, <1>3, <1>4, GoodWork, LedgerAssumption
    DEF DispatchInv, EffectTypeOK, EffectRow, JobRow
  <2> QED  BY <1>4, <2>1
<1>6. e = at
  <2>1. sent' = sent \/ sent' = [sent EXCEPT ![at] = @ + 1]  BY <1>2 DEF Deliver
  <2> QED  BY <1>4, <2>1 DEF DispatchInv, HistoryTypeOK
<1> QED  BY <1>4, <1>5, <1>6

\* As long as no request is lost and no worker crashes, a worker at work on a job
\* holds the ledger's claim to it, nobody else is at work on its item, and it
\* writes under a fresh claim of the effect, until a claim is outlived (claimJob
\* refuses a processing row of less than ten minutes, claimEffect likewise).
THEOREM ClaimsAreSafe == Spec /\ [](faults = 0) => ClaimSafe
<1>1. CalmInv /\ faults = 0 => ExecutorHoldsClaim
  <2> SUFFICES ASSUME CalmInv, faults = 0, ~overran PROVE ExecutorHoldsClaim
    BY DEF ExecutorHoldsClaim
  <2> QED  BY CalmIsGood DEF CalmInv, Calm, Good
<1>2. DispatchInv /\ CalmInv /\ faults = 0 /\ [Next]_vars =>
         [\A e \in Effects :
            sent'[e] # sent[e] /\ ~overran =>
               effects[e].status = "processing" /\ effects[e].age <= Stale]_vars
  <2> SUFFICES ASSUME DispatchInv, CalmInv, faults = 0, [Next]_vars,
                      NEW e \in Effects, sent'[e] # sent[e], ~overran
               PROVE  effects[e].status = "processing" /\ effects[e].age <= Stale
    OBVIOUS
  <2>1. HeldInv /\ ExecutorHoldsClaim  BY <1>1 DEF CalmInv, Calm
  <2> QED  BY <2>1, WriteStepUnderClaim
<1> QED  BY <1>1, <1>2, CalmInvariant, DispatchInvariant, PTL DEF Spec, ClaimSafe, WriteUnderClaim

\* Without faults and outlived claims two workers never make the same external
\* write at the same time, as the production runbook has it.
THEOREM CalmIsExclusive == Spec => [](faults = 0 /\ ~overran => ExclusiveExecution)
<1>1. DispatchInv /\ CalmInv => (faults = 0 /\ ~overran => ExclusiveExecution)
  <2> SUFFICES ASSUME DispatchInv, CalmInv, faults = 0, ~overran,
                      NEW v \in Workers, NEW w \in Workers, v # w,
                      worker[v].pc = "deliver", worker[w].pc = "deliver"
               PROVE  worker[v].at # worker[w].at
    BY DEF ExclusiveExecution
  <2>1. Good /\ HeldInv  BY CalmIsGood DEF CalmInv, Calm
  <2>2. Executing(w) /\ worker[w].at \in EffectsOf(KeyAt(w))
    BY <2>1 DEF Executing, HeldInv, HeldWork
  <2> QED  BY <2>1, <2>2, AtApart
<1> QED  BY <1>1, CalmInvariant, DispatchInvariant, PTL

\* The same holds with faults, as long as deferrals wait.
InTimeInv == ~overran => ClaimInv /\ HeldInv

LEMMA InTimeInvariant == Spec /\ []DeferralsWait => []InTimeInv
<1>1. Init => InTimeInv
  <2> SUFFICES ASSUME Init PROVE ClaimInv /\ HeldInv
    BY DEF InTimeInv
  <2>1. \A w \in Workers : worker[w].pc = "idle"  BY DEF Init, Idle
  <2>2. ClaimInv  BY <2>1 DEF ClaimInv, AtWork
  <2> QED  BY <2>2, HeldInit
<1>2. DispatchInv /\ DeferralsWait /\ InTimeInv /\ [Next]_vars => InTimeInv'
  <2> SUFFICES ASSUME DispatchInv, DeferralsWait, InTimeInv, [Next]_vars, ~overran'
               PROVE  ClaimInv' /\ HeldInv'
    BY DEF InTimeInv
  <2>1. ~overran /\ ClaimInv /\ HeldInv
    BY InTimeBefore DEF InTimeInv, DispatchInv
  <2>2. ClaimInv'  BY <2>1, StepKeepsClaims
  <2>3. Good /\ Good'  BY <2>1, <2>2, ClaimsAreGood, ClaimsAreGoodNext
  <2>4. HeldInv'  BY <2>1, <2>3, StepKeepsHeld
  <2> QED  BY <2>2, <2>4
<1> QED  BY <1>1, <1>2, DispatchInvariant, PTL DEF Spec

\* Whatever is lost or crashes, a worker at work on a job holds the ledger's
\* claim to it, alone, and writes under a fresh claim of the effect, until a
\* claim is outlived or a deferral is over before it is recorded: the row of a
\* job whose answer was lost is terminal or waits, so that nobody claims it
\* before the worker has reported the failure.
THEOREM ClaimsOutlastFaults == Spec /\ []DeferralsWait => ClaimSafe
<1>1. InTimeInv => ExecutorHoldsClaim
  <2> SUFFICES ASSUME InTimeInv, ~overran PROVE ExecutorHoldsClaim
    BY DEF ExecutorHoldsClaim
  <2> QED  BY ClaimsAreGood DEF InTimeInv, Good
<1>2. DispatchInv /\ InTimeInv /\ [Next]_vars =>
         [\A e \in Effects :
            sent'[e] # sent[e] /\ ~overran =>
               effects[e].status = "processing" /\ effects[e].age <= Stale]_vars
  <2> SUFFICES ASSUME DispatchInv, InTimeInv, [Next]_vars,
                      NEW e \in Effects, sent'[e] # sent[e], ~overran
               PROVE  effects[e].status = "processing" /\ effects[e].age <= Stale
    OBVIOUS
  <2>1. HeldInv /\ ExecutorHoldsClaim  BY <1>1 DEF InTimeInv
  <2> QED  BY <2>1, WriteStepUnderClaim
<1> QED
  BY <1>1, <1>2, InTimeInvariant, DispatchInvariant, PTL
  DEF Spec, ClaimSafe, WriteUnderClaim

\* Two workers never make the same external write at the same time, whatever is
\* lost or crashes, as long as no claim is outlived (the production runbook says
\* it without a condition).
THEOREM InTimeIsExclusive ==
    Spec /\ []DeferralsWait => [](~overran => ExclusiveExecution)
<1>1. DispatchInv /\ InTimeInv => (~overran => ExclusiveExecution)
  <2> SUFFICES ASSUME DispatchInv, InTimeInv, ~overran,
                      NEW v \in Workers, NEW w \in Workers, v # w,
                      worker[v].pc = "deliver", worker[w].pc = "deliver"
               PROVE  worker[v].at # worker[w].at
    BY DEF ExclusiveExecution
  <2>1. Good /\ HeldInv  BY ClaimsAreGood DEF InTimeInv
  <2>2. Executing(w) /\ worker[w].at \in EffectsOf(KeyAt(w))
    BY <2>1 DEF Executing, HeldInv, HeldWork
  <2> QED  BY <2>1, <2>2, AtApart
<1> QED  BY <1>1, InTimeInvariant, DispatchInvariant, PTL

\* What is done is delivered and recorded as such, whatever is lost or crashes,
\* as long as no claim is outlived (a job is reported as done by a worker that
\* has the claim, after it was told so of each effect).
THEOREM DoneIsDelivered ==
    Spec /\ []DeferralsWait => [](~overran => DoneMeansDelivered)
<1>1. InTimeInv /\ DoneMeansWritten => (~overran => DoneMeansDelivered)
  BY DEF InTimeInv, HeldInv, AllDone, DoneMeansDelivered
<1> QED  BY <1>1, InTimeInvariant, DoneIsWritten, PTL

\* In particular as long as nothing is lost, crashes or is outlived.
THEOREM CalmIsDelivered == Spec => [](faults = 0 /\ ~overran => DoneMeansDelivered)
<1>1. CalmInv /\ DoneMeansWritten => (faults = 0 /\ ~overran => DoneMeansDelivered)
  BY DEF CalmInv, Calm, HeldInv, AllDone, DoneMeansDelivered
<1> QED  BY <1>1, CalmInvariant, DoneIsWritten, PTL

-----------------------------------------------------------------------------
(* What is at work was published *)

NoneUnsent == \A l \in Leases :
    grants[l].message \in Messages => cloud[grants[l].message] # "unsent"

PublishedFirst ==
    /\ \A k \in Keys : jobs[k].status # "absent" => Published(k)
    /\ \A m \in Messages : cloud[m] # "unsent" => Published(KeyOf[m.job])
    /\ NoneUnsent

\* nothing is sent or taken back
CloudStays == \A m \in Messages : cloud'[m] = "unsent" <=> cloud[m] = "unsent"

\* a client is given messages of the inbox only
GrantsKnown == \A l \in Leases :
    grants'[l].message \in Messages =>
        \/ grants'[l].message = grants[l].message
        \/ inbox[grants'[l].message].status # "absent"

LEMMA CloudSteps ==
    ASSUME DispatchInv,
           \/ \E m \in Messages : Stage(m) \/ StageAgain(m)
           \/ \E w \in Workers : HandlerStep(w) /\ ~PublishArticle(w)
           \/ \E w \in Workers : ProcessorStep(w) \/ Crash(w)
           \/ Tick \/ UNCHANGED vars
    PROVE  CloudStays
<1>1. ASSUME NEW m \in Messages, Stage(m) \/ StageAgain(m) PROVE CloudStays
  BY <1>1 DEF Stage, StageAgain, StageAcked, StageUnwoken, Redeliver, Batch, CloudStays
<1>2. ASSUME NEW w \in Workers, HandlerStep(w), ~PublishArticle(w) PROVE CloudStays
  BY <1>2 DEF HandlerStep, AdmitArticle, SkipEffect, StartEffect, LoseEffectClaim,
     LimitItem, Deliver, RecordEffect, LoseEffectResult, ReturnDone, LosePublish,
     Step, inboxVars, CloudStays
<1>3. ASSUME NEW w \in Workers, ProcessorStep(w) \/ Crash(w) PROVE CloudStays
  BY <1>3 DEF ProcessorStep, PullBatch, Pull, DeferAcceptance, SkipJob, StartJob,
     FinishJob, LoseFinish, FinishUnclaimed, FailJob, FailUnclaimed, SettleWork,
     SettleBatch, Settle, Crash, Abandon, Forget, Step, inboxVars, CloudStays
<1>4. CASE Tick  BY <1>4 DEF Tick, InboxTick, CloudStays
<1>5. CASE UNCHANGED vars  BY <1>5 DEF vars, CloudStays
<1> QED  BY <1>1, <1>2, <1>3, <1>4, <1>5

LEMMA SameCloud ==
    ASSUME CloudStays PROVE \A k : Published(k)' <=> Published(k)
BY MessagesOfJobs DEF Published, CloudStays

LEMMA GrantSteps == ASSUME DispatchInv, [Next]_vars PROVE GrantsKnown
<1>1. CASE grants' = grants  BY <1>1 DEF GrantsKnown
<1>2. ASSUME NEW ls, grants' = Forgotten(ls) PROVE GrantsKnown
  BY <1>2, InboxAssumption DEF Forgotten, NoGrant, GrantsKnown
<1>3. ASSUME NEW w \in Workers, PullBatch(w) PROVE GrantsKnown
  <2>1. PICK ms \in SUBSET Messages \ {{}} : \E leaseOf \in Numberings(ms) :
           Pull(ms, leaseOf)
    BY <1>3 DEF PullBatch
  <2>2. PICK leaseOf \in Numberings(ms) : Pull(ms, leaseOf)  BY <2>1
  <2>3. \A m \in ms : m \in Messages /\ inbox[m].status # "absent"
    BY <2>2 DEF Pull, PullSize, Available, Expired, QueuedRow
  <2>4. ASSUME NEW l \in Leases, \E m \in ms : leaseOf[m] = l
        PROVE  grants'[l].message \in ms
    BY <2>2, <2>4 DEF Pull
  <2>5. ASSUME NEW l \in Leases, ~(\E m \in ms : leaseOf[m] = l)
        PROVE  grants'[l] = grants[l]
    BY <2>2, <2>5 DEF Pull
  <2> QED  BY <2>3, <2>4, <2>5 DEF GrantsKnown
<1>4. CASE Tick
  BY <1>4 DEF Tick, InboxTick, GrantsKnown, DispatchInv, LeaseInv, InboxTypeOK, Grant
<1>5. ASSUME NEW w \in Workers, HandlerStep(w) PROVE GrantsKnown
  BY <1>1, <1>5, HandlerMoves DEF Moves
<1>6. ASSUME NEW w \in Workers, Crash(w) PROVE GrantsKnown
  BY <1>2, <1>6 DEF Crash, Abandon, Forget
<1>7. ASSUME NEW w \in Workers, ProcessorStep(w) PROVE GrantsKnown
  BY <1>1, <1>2, <1>3, <1>7
  DEF ProcessorStep, DeferAcceptance, SkipJob, StartJob, FinishJob, LoseFinish,
      FinishUnclaimed, FailJob, FailUnclaimed, SettleWork, SettleBatch, Abandon, Forget,
      Step, inboxVars
<1>8. CASE ConsumerStep
  BY <1>1, <1>8 DEF ConsumerStep, Submit, Send, Stage, StageAgain, StageAcked, StageUnwoken
<1>9. ASSUME NEW o \in ReplayKeys, NEW j \in JobIds, Replay(o, j) PROVE GrantsKnown
  BY <1>1, <1>9 DEF Replay, StageReplay
<1>10. CASE UNCHANGED vars  BY <1>1, <1>10 DEF vars
<1> QED  BY <1>3, <1>4, <1>5, <1>6, <1>7, <1>8, <1>9, <1>10 DEF Next

\* A message sent makes its own item published, and no other.
LEMMA SendPublishes ==
    ASSUME DispatchInv, NEW j \in JobIds, Send({SentMessage(j)})
    PROVE  /\ \A m \in Messages \ {SentMessage(j)} : cloud'[m] = cloud[m]
           /\ Published(KeyOf[j])'
           /\ \A k : Published(k) => Published(k)'
           /\ \A k \in Keys \ {KeyOf[j]} : Published(k)' => Published(k)
<1>1. SentMessage(j) \in Messages /\ SentMessage(j).job = j  BY MessagesOfJobs
<1>2. /\ cloud'[SentMessage(j)] = "queued"
      /\ \A m \in Messages \ {SentMessage(j)} : cloud'[m] = cloud[m]
  BY <1>1 DEF Send
<1>3. \A i \in JobIds : SentMessage(i) \in Messages /\ SentMessage(i).job = i
  BY MessagesOfJobs
<1>4. Published(KeyOf[j])'  BY <1>2 DEF Published
<1>5. \A k : Published(k) => Published(k)'  BY <1>2, <1>3 DEF Published
<1>6. \A k \in Keys \ {KeyOf[j]} : Published(k)' => Published(k)
  BY <1>1, <1>2, <1>3 DEF Published
<1> QED  BY <1>2, <1>4, <1>5, <1>6

\* A replay puts a message of an item into the inbox that has been published.
LEMMA ReplayPublished ==
    ASSUME DispatchInv, PublishedFirst, NEW o \in ReplayKeys, NEW j \in JobIds,
           Replay(o, j)
    PROVE  /\ Published(KeyOf[j]) /\ jobs[KeyOf[j]].status = "dead"
           /\ \A m \in Messages \ {ReplayMessage(j, o)} : cloud'[m] = cloud[m]
           /\ ReplayMessage(j, o).job = j
           /\ \A k : Published(k)' <=> Published(k)
<1>1. ReplayMessage(j, o) \in Messages /\ ReplayMessage(j, o).job = j
  BY MessagesOfJobs
<1>2. /\ cloud'[ReplayMessage(j, o)] = "acked"
      /\ \A m \in Messages \ {ReplayMessage(j, o)} : cloud'[m] = cloud[m]
  BY <1>1 DEF Replay, StageReplay, DispatchInv, LeaseInv, InboxTypeOK
<1>3. envelopes[j] = "dead"  BY DEF Replay, ReviveDead, Replayable
<1>4. jobs[KeyOf[j]].status = "dead"
  BY <1>3 DEF DispatchInv, LedgerInv, DeadEnvelopeHasDeadJob
<1>5. KeyOf[j] \in Keys  BY LedgerAssumption
<1>6. Published(KeyOf[j])  BY <1>4, <1>5 DEF PublishedFirst
<1>7. \A i \in JobIds : SentMessage(i) \in Messages /\ SentMessage(i).job = i
  BY MessagesOfJobs
<1>8. \A k : Published(k) => Published(k)'  BY <1>2, <1>7 DEF Published
<1>9. \A k : Published(k)' => Published(k)
  BY <1>1, <1>2, <1>6, <1>7 DEF Published
<1> QED  BY <1>1, <1>2, <1>4, <1>6, <1>8, <1>9

\* Only the claim of a job fills an empty row.
LEMMA RowsFilled ==
    ASSUME DispatchInv, [Next]_vars, NEW k \in Keys,
           jobs[k].status = "absent", jobs'[k].status # "absent"
    PROVE  \E w \in Workers, l \in Leases :
              StartJob(w, l) /\ k = KeyOf[grants[l].message.job]
<1>1. JobTypeOK  BY DEF DispatchInv, LedgerInv
<1>2. ASSUME NEW w \in Workers, Rests(w) PROVE FALSE
  BY <1>2 DEF Rests, ledgerVars
<1>3. ASSUME NEW w \in Workers, HandlerStep(w) \/ LoseFinish(w) \/ FinishUnclaimed(w)
      PROVE  FALSE
  BY <1>3, HandlerMoves DEF ledgerVars
<1>4. ASSUME NEW w \in Workers, FinishJob(w) \/ FailJob(w) PROVE FALSE
  <2>1. Ends(w)  BY <1>4, EndMoves
  <2>2. jobs' # jobs  OBVIOUS
  <2>3. /\ Opened(JobAt(w)) /\ KeyAt(w) = KeyOf[JobAt(w)]
        /\ \A i \in Keys \ {KeyAt(w)} : jobs'[i] = jobs[i]
    BY <2>1, <2>2 DEF Ends, ledgerVars, KeyAt
  <2> QED  BY <2>3 DEF Opened, Open
<1>5. CASE \/ ConsumerStep \/ (\E o \in ReplayKeys, j \in JobIds : Replay(o, j))
           \/ UNCHANGED vars
  BY <1>5, NobodyMoves DEF ConsumerStep
<1>6. CASE Tick
  BY <1>1, <1>6 DEF Tick, JobTick, Older, JobTypeOK, JobRow
<1>7. ASSUME NEW w \in Workers, NEW l \in Leases, StartJob(w, l)
      PROVE  k = KeyOf[grants[l].message.job]
  <2> DEFINE j == grants[l].message.job
  <2>1. Starts(w, j)  BY <1>7, StartMoves
  <2> HIDE DEF j
  <2>2. \A i \in Keys \ {KeyOf[j]} : jobs'[i] = jobs[i]
    BY <1>1, <2>1 DEF Starts, ClaimJob, JobTypeOK
  <2>3. k = KeyOf[j]  BY <2>2
  <2> QED  BY <2>3 DEF j
<1>8. ASSUME NEW w \in Workers, ProcessorStep(w)
      PROVE  \E l \in Leases : StartJob(w, l)
  BY <1>2, <1>3, <1>4, <1>8, BatchRests DEF ProcessorStep
<1> QED  BY <1>2, <1>3, <1>5, <1>6, <1>7, <1>8, BatchRests DEF Next

\* Every step leaves the queue as it is, sends one message, or replays one.
LEMMA QueueSteps ==
    ASSUME DispatchInv, [Next]_vars
    PROVE  \/ CloudStays
           \/ \E j \in JobIds : Send({SentMessage(j)})
           \/ \E o \in ReplayKeys, j \in JobIds : Replay(o, j)
<1>1. ASSUME NEW w \in Workers, PublishArticle(w)
      PROVE  \E j \in JobIds : Send({SentMessage(j)})
  BY <1>1 DEF PublishArticle
<1>2. ASSUME NEW j \in JobIds, Submit(j) PROVE Send({SentMessage(j)})
  BY <1>2 DEF Submit
<1>3. CASE \/ \E m \in Messages : Stage(m) \/ StageAgain(m)
           \/ \E w \in Workers : HandlerStep(w) /\ ~PublishArticle(w)
           \/ \E w \in Workers : ProcessorStep(w) \/ Crash(w)
           \/ Tick \/ UNCHANGED vars
  BY <1>3, CloudSteps
<1> QED  BY <1>1, <1>2, <1>3 DEF Next, ConsumerStep

LEMMA StepKeepsPublished == DispatchInv /\ PublishedFirst /\ [Next]_vars => PublishedFirst'
<1> SUFFICES ASSUME DispatchInv, PublishedFirst, [Next]_vars PROVE PublishedFirst'
  OBVIOUS
<1>1. /\ \A m \in Messages : cloud[m] # "unsent" => cloud'[m] # "unsent"
      /\ \A k : Published(k) => Published(k)'
      /\ \A m \in Messages : cloud'[m] # "unsent" => Published(KeyOf[m.job])'
  <2>1. CASE CloudStays  BY <2>1, SameCloud DEF CloudStays, PublishedFirst
  <2>2. ASSUME NEW j \in JobIds, Send({SentMessage(j)})
        PROVE  /\ \A m \in Messages : cloud[m] # "unsent" => cloud'[m] # "unsent"
               /\ \A k : Published(k) => Published(k)'
               /\ \A m \in Messages : cloud'[m] # "unsent" => Published(KeyOf[m.job])'
    <3>1. /\ \A m \in Messages \ {SentMessage(j)} : cloud'[m] = cloud[m]
          /\ Published(KeyOf[j])'
          /\ \A k : Published(k) => Published(k)'
      BY <2>2, SendPublishes
    <3>2. SentMessage(j) \in Messages /\ SentMessage(j).job = j  BY MessagesOfJobs
    <3>3. cloud'[SentMessage(j)] = "queued"  BY <2>2, <3>2 DEF Send
    <3> QED  BY <3>1, <3>2, <3>3 DEF PublishedFirst
  <2>3. ASSUME NEW o \in ReplayKeys, NEW j \in JobIds, Replay(o, j)
        PROVE  /\ \A m \in Messages : cloud[m] # "unsent" => cloud'[m] # "unsent"
               /\ \A k : Published(k) => Published(k)'
               /\ \A m \in Messages : cloud'[m] # "unsent" => Published(KeyOf[m.job])'
    <3>1. /\ Published(KeyOf[j])
          /\ \A m \in Messages \ {ReplayMessage(j, o)} : cloud'[m] = cloud[m]
          /\ ReplayMessage(j, o).job = j
          /\ \A k : Published(k)' <=> Published(k)
      BY <2>3, ReplayPublished
    <3>2. cloud[ReplayMessage(j, o)] = "unsent"  BY <2>3 DEF Replay, StageReplay
    <3> QED  BY <3>1, <3>2 DEF PublishedFirst
  <2> QED  BY <2>1, <2>2, <2>3, QueueSteps
<1>2. NoneUnsent'
  <2> SUFFICES ASSUME NEW l \in Leases, grants'[l].message \in Messages
               PROVE  cloud'[grants'[l].message] # "unsent"
    BY DEF NoneUnsent
  <2> DEFINE m == grants'[l].message
  <2>1. m = grants[l].message \/ inbox[m].status # "absent"
    BY GrantSteps DEF GrantsKnown
  <2>2. cloud[m] # "unsent"
    BY <2>1 DEF PublishedFirst, NoneUnsent, DispatchInv, WorkInv, UnsentAbsent
  <2> QED  BY <1>1, <2>2
<1>3. ASSUME NEW k \in Keys, jobs'[k].status # "absent" PROVE Published(k)'
  <2>1. CASE jobs[k].status # "absent"  BY <1>1, <2>1 DEF PublishedFirst
  <2>2. CASE jobs[k].status = "absent"
    <3>1. PICK w \in Workers, l \in Leases :
             StartJob(w, l) /\ k = KeyOf[grants[l].message.job]
      BY <1>3, <2>2, RowsFilled
    <3>2. l \in HeldLeases(w)  BY <3>1, ChosenLease DEF StartJob
    <3>3. grants[l].message \in Messages
      BY <3>2 DEF DispatchInv, WorkInv, HoldersKnow
    <3>4. Published(k)  BY <3>1, <3>3 DEF PublishedFirst, NoneUnsent
    <3> QED  BY <1>1, <3>4
  <2> QED  BY <2>1, <2>2
<1> QED  BY <1>1, <1>2, <1>3 DEF PublishedFirst

LEMMA PublishedInit == Init => PublishedFirst
<1> SUFFICES ASSUME Init PROVE PublishedFirst  OBVIOUS
<1>1. \A k \in Keys : jobs[k].status = "absent"
  BY DEF Init, JobInit, NoJobRow
<1>2. \A m \in Messages : cloud[m] = "unsent"  BY DEF Init, InboxInit
<1>3. \A l \in Leases : grants[l].message \notin Messages
  BY InboxAssumption DEF Init, InboxInit, NoGrant
<1> QED  BY <1>1, <1>2, <1>3 DEF PublishedFirst, NoneUnsent

-----------------------------------------------------------------------------
(* The promise about an item *)

ItemOf(k) == IF SettledItem(k) THEN jobs[k].status
             ELSE IF Published(k) THEN "pending" ELSE "unsent"
Reached(k) == {e \in EffectsOf(k) : sent[e] > 0}

\* The item of key k takes a step of its own, and everything else stays.
ItemMoves(k) ==
    /\ \A i \in Keys \ {k} : ItemOf(i)' = ItemOf(i)
    /\ \A i \in Keys : Reached(i)' = Reached(i)
    /\ \/ ItemOf(k)' = ItemOf(k)
       \/ ItemOf(k) = "unsent" /\ ItemOf(k)' = "pending"
       \/ ItemOf(k) = "pending" /\ ItemOf(k)' = "done" /\ Reached(k) = EffectsOf(k)
       \/ ItemOf(k) = "pending" /\ ItemOf(k)' \in {"uncertain", "dead"}
       \/ ItemOf(k) = "dead" /\ ItemOf(k)' = "pending"

\* A write to one destination of a pending item.
ItemReached(k, e) ==
    /\ \A i \in Keys : ItemOf(i)' = ItemOf(i)
    /\ ItemOf(k) = "pending" /\ e \in EffectsOf(k)
    /\ \A i \in Keys \ {k} : Reached(i)' = Reached(i)
    /\ Reached(k)' = Reached(k) \cup {e}

NothingMoves ==
    \A i \in Keys : ItemOf(i)' = ItemOf(i) /\ Reached(i)' = Reached(i)

\* the mapping of ItemDelivery
items   == [k \in Keys |-> ItemOf(k)]
writes  == [k \in Keys |-> Reached(k)]

LEMMA ItemStep ==
    ASSUME \/ NothingMoves
           \/ \E k \in Keys : ItemMoves(k)
           \/ \E k \in Keys : \E e \in Effects : ItemReached(k, e)
    PROVE  Delivery!DeliveryNext \/ UNCHANGED <<items, writes>>
<1>1. /\ items' = [k \in Keys |-> ItemOf(k)'] /\ writes' = [k \in Keys |-> Reached(k)']
  BY DEF items, writes
<1>2. CASE NothingMoves
  BY <1>2 DEF NothingMoves, items, writes
<1>3. ASSUME NEW k \in Keys, ItemMoves(k)
      PROVE  Delivery!DeliveryNext \/ UNCHANGED <<items, writes>>
  <2>1. writes' = writes  BY <1>3 DEF ItemMoves, writes
  <2>2. items' = [items EXCEPT ![k] = ItemOf(k)']
    BY <1>3 DEF ItemMoves, items
  <2>3. items[k] = ItemOf(k) /\ writes[k] = Reached(k)  BY DEF items, writes
  <2>4. CASE items' = items  BY <2>1, <2>4
  <2>5. CASE items[k] = "unsent" /\ items' = [items EXCEPT ![k] = "pending"]
    <3>1. Delivery!Publish(k)
      BY <2>1, <2>5 DEF Delivery!Publish, items, writes, ItemOf, Reached
    <3> QED  BY <3>1 DEF Delivery!DeliveryNext
  <2>6. CASE /\ items[k] = "pending" /\ items' = [items EXCEPT ![k] = "done"]
             /\ writes[k] = EffectsOf(k)
    <3>1. Delivery!Complete(k)
      BY <2>1, <2>6 DEF Delivery!Complete, items, writes, ItemOf, Reached
    <3> QED  BY <3>1 DEF Delivery!DeliveryNext
  <2>7. ASSUME NEW end \in {"uncertain", "dead"}, items[k] = "pending",
               items' = [items EXCEPT ![k] = end]
        PROVE  Delivery!DeliveryNext
    <3>1. Delivery!GiveUp(k)
      BY <2>1, <2>7 DEF Delivery!GiveUp, items, writes, ItemOf, Reached
    <3> QED  BY <3>1 DEF Delivery!DeliveryNext
  <2>8. CASE items[k] = "dead" /\ items' = [items EXCEPT ![k] = "pending"]
    <3>1. Delivery!Revive(k)
      BY <2>1, <2>8 DEF Delivery!Revive, items, writes, ItemOf, Reached
    <3> QED  BY <3>1 DEF Delivery!DeliveryNext
  <2>9. CASE ItemOf(k)' = ItemOf(k)
    <3>1. items' = items  BY <1>3, <2>9 DEF ItemMoves, items
    <3> QED  BY <2>4, <3>1
  <2> QED
    BY <1>3, <2>2, <2>3, <2>5, <2>6, <2>7, <2>8, <2>9 DEF ItemMoves
<1>4. ASSUME NEW k \in Keys, NEW e \in Effects, ItemReached(k, e)
      PROVE  Delivery!DeliveryNext
  <2>1. items' = items  BY <1>4 DEF ItemReached, items
  <2>2. writes' = [writes EXCEPT ![k] = @ \cup {e}]
    BY <1>4 DEF ItemReached, writes
  <2>3. items[k] = "pending" /\ e \in [i \in Keys |-> EffectsOf(i)][k]
    BY <1>4 DEF ItemReached, items
  <2> QED
    BY <2>1, <2>2, <2>3
    DEF Delivery!DeliveryNext, Delivery!Reach, items, writes, ItemOf, Reached
<1> QED  BY <1>2, <1>3, <1>4

\* An item stays what it is while its row is neither settled nor revived.
LEMMA ItemStays ==
    ASSUME NEW k, Published(k)' <=> Published(k),
           \/ jobs'[k].status = jobs[k].status
           \/ jobs[k].status \notin Terminal /\ jobs'[k].status \notin Terminal
    PROVE  ItemOf(k)' = ItemOf(k)
BY DEF ItemOf, SettledItem

LEMMA ReachedStays ==
    ASSUME NEW k, \A e \in EffectsOf(k) : sent'[e] = sent[e]
    PROVE  Reached(k)' = Reached(k)
BY DEF Reached, EffectsOf

LEMMA NothingMovesThen ==
    ASSUME CloudStays, UNCHANGED sent,
           \A k \in Keys :
              \/ jobs'[k].status = jobs[k].status
              \/ jobs[k].status \notin Terminal /\ jobs'[k].status \notin Terminal
    PROVE  NothingMoves
<1>1. \A k : Reached(k)' = Reached(k)  BY ReachedStays
<1>2. \A k \in Keys : ItemOf(k)' = ItemOf(k)  BY ItemStays, SameCloud
<1> QED  BY <1>1, <1>2 DEF NothingMoves

LEMMA SendMoves ==
    ASSUME DispatchInv, NEW j \in JobIds, Send({SentMessage(j)}),
           UNCHANGED jobs, UNCHANGED sent
    PROVE  ItemMoves(KeyOf[j])
<1> DEFINE k == KeyOf[j]
<1>1. /\ Published(k)' /\ \A i \in Keys \ {k} : Published(i)' <=> Published(i)
  BY SendPublishes
<1>2. \A i : Reached(i)' = Reached(i)  BY ReachedStays
<1>3. \A i \in Keys \ {k} : ItemOf(i)' = ItemOf(i)  BY <1>1, ItemStays
<1>4. ItemOf(k)' = ItemOf(k) \/ (ItemOf(k) = "unsent" /\ ItemOf(k)' = "pending")
  BY <1>1 DEF ItemOf, SettledItem
<1> QED  BY <1>2, <1>3, <1>4 DEF ItemMoves

LEMMA ReplayMoves ==
    ASSUME DispatchInv, PublishedFirst, NEW o \in ReplayKeys, NEW j \in JobIds,
           Replay(o, j)
    PROVE  ItemMoves(KeyOf[j])
<1> DEFINE k == KeyOf[j]
<1>1. k \in Keys /\ JobTypeOK
  BY LedgerAssumption DEF DispatchInv, LedgerInv
<1>2. Published(k) /\ jobs[k].status = "dead" /\ \A i : Published(i)' <=> Published(i)
  BY ReplayPublished
<1>3. \A i : Reached(i)' = Reached(i)  BY ReachedStays DEF Replay
<1>4. /\ \A i \in Keys \ {k} : jobs'[i] = jobs[i]
      /\ jobs'[k].status \in {"dead", "failed"}
  BY <1>1, <1>2 DEF Replay, ReviveDead, JobTypeOK, JobRow
<1>5. \A i \in Keys \ {k} : ItemOf(i)' = ItemOf(i)  BY <1>2, <1>4, ItemStays
<1>6. ItemOf(k)' = ItemOf(k) \/ (ItemOf(k) = "dead" /\ ItemOf(k)' = "pending")
  BY <1>2, <1>4 DEF ItemOf, SettledItem, Terminal
<1> QED  BY <1>3, <1>5, <1>6 DEF ItemMoves

LEMMA StartItem ==
    ASSUME DispatchInv, NEW w \in Workers, NEW l \in Leases, StartJob(w, l)
    PROVE  NothingMoves
<1> DEFINE j == grants[l].message.job
<1>1. Starts(w, j)  BY StartMoves
<1>2. CloudStays  BY CloudSteps DEF ProcessorStep
<1> HIDE DEF j
<1>3. JobTypeOK  BY DEF DispatchInv, LedgerInv
<1>4. /\ \A k \in Keys \ {KeyOf[j]} : jobs'[k] = jobs[k]
      /\ jobs'[KeyOf[j]].status = "processing"
      /\ jobs[KeyOf[j]].status \notin Terminal
  BY <1>1, <1>3 DEF Starts, ClaimJob, JobTypeOK, Claimable, Duplicate
<1>5. UNCHANGED sent  BY <1>1 DEF Starts
<1> QED  BY <1>2, <1>4, <1>5, NothingMovesThen DEF Terminal

\* The end of a job settles its item, as done only after all its writes.
LEMMA EndItem ==
    ASSUME DispatchInv, PublishedFirst, WriteInv, NEW w \in Workers,
           FinishJob(w) \/ FailJob(w), NEW k \in Keys, k = KeyAt(w)
    PROVE  ItemMoves(k)
<1>1. Ends(w)  BY EndMoves
<1>2. CloudStays  BY CloudSteps DEF ProcessorStep
<1>4. \A i : Reached(i)' = Reached(i)  BY <1>1, ReachedStays DEF Ends
<1>5. \A i : Published(i)' <=> Published(i)  BY <1>2, SameCloud
<1>6. CASE UNCHANGED ledgerVars
  BY <1>4, <1>5, <1>6, ItemStays DEF ItemMoves, ledgerVars
<1>7. CASE /\ Opened(JobAt(w))
           /\ \A i \in Keys \ {k} : jobs'[i] = jobs[i]
           /\ jobs'[k].status \in {"done", "uncertain", "deferred", "failed", "dead"}
           /\ jobs'[k].status = "done" => worker[w].pc = "finish" /\ worker[w].word = "done"
  <2>1. jobs[k].status \in Open  BY <1>7 DEF Opened, KeyAt
  <2>2. ItemOf(k) = "pending" /\ Published(k)
    BY <2>1 DEF Open, ItemOf, SettledItem, Terminal, PublishedFirst
  <2>3. ItemOf(k)' \in {"pending", "done", "uncertain", "dead"}
    BY <1>5, <1>7, <2>2 DEF ItemOf, SettledItem, Terminal
  <2>4. ASSUME ItemOf(k)' = "done" PROVE Reached(k) = EffectsOf(k)
    <3>1. jobs'[k].status = "done"  BY <1>5, <1>7, <2>2, <2>4 DEF ItemOf, SettledItem
    <3>2. WrittenFor(k)  BY <1>7, <3>1 DEF WriteInv, WorkTrue
    <3> QED  BY <3>2 DEF WrittenFor, Reached
  <2>5. \A i \in Keys \ {k} : ItemOf(i)' = ItemOf(i)  BY <1>5, <1>7, ItemStays
  <2> QED  BY <1>4, <2>2, <2>3, <2>4, <2>5 DEF ItemMoves
<1> QED  BY <1>1, <1>6, <1>7 DEF Ends

\* A write is made for a job under a claim, so that its item is pending.
LEMMA DeliverItem ==
    ASSUME DispatchInv, PublishedFirst, HeldInv, Good, NEW w \in Workers, Deliver(w),
           NEW k \in Keys, k = KeyAt(w), NEW at, at = worker[w].at
    PROVE  NothingMoves \/ ItemReached(k, at)
<1>1. worker[w].pc = "deliver" /\ Executing(w)  BY DEF Deliver, Executing
<1>2. jobs[k].status = "processing"  BY <1>1, GoodWork
<1>3. at \in EffectsOf(k) /\ at \in Effects
  BY <1>1 DEF HeldInv, HeldWork, EffectsOf
<1>4. ItemOf(k) = "pending"
  BY <1>2 DEF ItemOf, SettledItem, Terminal, PublishedFirst
<1>5. CloudStays
  <2>1. ~PublishArticle(w)  BY <1>1 DEF PublishArticle, Finished
  <2> QED  BY <2>1, CloudSteps DEF HandlerStep
<1>6. jobs' = jobs  BY DEF Deliver, ledgerVars
<1>7. \A i \in Keys : ItemOf(i)' = ItemOf(i)  BY <1>5, <1>6, ItemStays, SameCloud
<1>8. CASE sent' = sent  BY <1>5, <1>6, <1>8, NothingMovesThen
<1>9. CASE sent' = [sent EXCEPT ![at] = @ + 1]
  <2>1. sent \in [Effects -> 0..2]  BY DEF DispatchInv, HistoryTypeOK
  <2>2. sent'[at] > 0 /\ \A e \in Effects \ {at} : sent'[e] = sent[e]
    BY <1>3, <1>9, <2>1
  <2>3. \A i \in Keys \ {k} : Reached(i)' = Reached(i)
    <3>1. ASSUME NEW i \in Keys \ {k}, NEW e \in EffectsOf(i) PROVE sent'[e] = sent[e]
      <4>1. e \in Effects /\ e # at  BY <1>3, EffectsApart
      <4> QED  BY <2>2, <4>1
    <3> QED  BY <3>1, ReachedStays
  <2>4. Reached(k)' = Reached(k) \cup {at}
    <3>1. \A e \in EffectsOf(k) : e \in Effects  BY DEF EffectsOf
    <3>2. Reached(k)' = {e \in EffectsOf(k) : sent'[e] > 0}
      BY DEF Reached, EffectsOf
    <3> QED  BY <1>3, <2>2, <3>1, <3>2 DEF Reached
  <2> QED  BY <1>3, <1>4, <1>7, <2>3, <2>4 DEF ItemReached
<1> QED  BY <1>8, <1>9 DEF Deliver

LEMMA StepMovesItem ==
    ASSUME DispatchInv, PublishedFirst, WriteInv, HeldInv, Good, [Next]_vars
    PROVE  \/ NothingMoves
           \/ \E k \in Keys : ItemMoves(k)
           \/ \E k \in Keys : \E e \in Effects : ItemReached(k, e)
<1>1. ASSUME NEW j \in JobIds, Submit(j) PROVE \E k \in Keys : ItemMoves(k)
  <2>1. KeyOf[j] \in Keys  BY LedgerAssumption
  <2>2. ItemMoves(KeyOf[j])  BY <1>1, SendMoves DEF Submit, ledgerVars, pipeVars
  <2> QED  BY <2>1, <2>2
<1>2. ASSUME NEW w \in Workers, PublishArticle(w) PROVE \E k \in Keys : ItemMoves(k)
  <2>1. PICK j \in JobIds : Send({SentMessage(j)})  BY <1>2 DEF PublishArticle
  <2>2. KeyOf[j] \in Keys  BY LedgerAssumption
  <2>3. UNCHANGED jobs /\ UNCHANGED sent
    BY <1>2 DEF PublishArticle, ledgerVars, pipeVars, Fault
  <2> QED  BY <2>1, <2>2, <2>3, SendMoves
<1>3. ASSUME NEW o \in ReplayKeys, NEW j \in JobIds, Replay(o, j)
      PROVE  \E k \in Keys : ItemMoves(k)
  BY <1>3, ReplayMoves, LedgerAssumption
<1>4. ASSUME NEW w \in Workers, FinishJob(w) \/ FailJob(w)
      PROVE  \E k \in Keys : ItemMoves(k)
  <2>1. PICK k \in Keys : k = KeyAt(w)  BY <1>4, EndMoves, AtHand DEF Ends, AtWork
  <2> QED  BY <1>4, <2>1, EndItem
<1>5. ASSUME NEW w \in Workers, Deliver(w)
      PROVE  NothingMoves \/ \E k \in Keys : \E e \in Effects : ItemReached(k, e)
  <2>1. PICK k \in Keys : k = KeyAt(w)  BY <1>5, AtHand DEF Deliver
  <2>2. PICK at : at = worker[w].at  OBVIOUS
  <2>3. NothingMoves \/ ItemReached(k, at)  BY <1>5, <2>1, <2>2, DeliverItem
  <2>4. EffectsOf(k) \subseteq Effects  BY DEF EffectsOf
  <2> QED  BY <2>3, <2>4 DEF ItemReached
<1>6. ASSUME NEW w \in Workers, NEW l \in Leases, StartJob(w, l) PROVE NothingMoves
  BY <1>6, StartItem
<1>7. ASSUME CloudStays, UNCHANGED jobs, UNCHANGED sent PROVE NothingMoves
  BY <1>7, NothingMovesThen
<1>8. ASSUME NEW w \in Workers, Rests(w), ProcessorStep(w) \/ Crash(w)
      PROVE  NothingMoves
  <2>1. CloudStays  BY <1>8, CloudSteps
  <2> QED  BY <1>7, <1>8, <2>1 DEF Rests, ledgerVars
<1>9. ASSUME NEW w \in Workers, HandlerStep(w), ~PublishArticle(w), ~Deliver(w)
      PROVE  NothingMoves
  <2>1. CloudStays  BY <1>9, CloudSteps
  <2>2. UNCHANGED jobs  BY <1>9, HandlerMoves DEF ledgerVars
  <2>3. UNCHANGED sent
    BY <1>9 DEF HandlerStep, AdmitArticle, SkipEffect, StartEffect, LoseEffectClaim,
       LimitItem, RecordEffect, LoseEffectResult, ReturnDone, LosePublish, Fault,
       Refuse, pipeVars
  <2> QED  BY <1>7, <2>1, <2>2, <2>3
<1>10. ASSUME NEW w \in Workers, LoseFinish(w) \/ FinishUnclaimed(w) PROVE NothingMoves
  <2>1. CloudStays  BY <1>10, CloudSteps DEF ProcessorStep
  <2>2. UNCHANGED jobs /\ UNCHANGED sent
    BY <1>10 DEF LoseFinish, FinishUnclaimed, ledgerVars, Fault, pipeVars
  <2> QED  BY <1>7, <2>1, <2>2
<1>11. ASSUME NEW w \in Workers, ProcessorStep(w),
              ~FinishJob(w), ~FailJob(w), \A l \in Leases : ~StartJob(w, l)
       PROVE  NothingMoves
  <2>1. CASE LoseFinish(w) \/ FinishUnclaimed(w)  BY <1>10, <2>1
  <2>2. CASE ~(LoseFinish(w) \/ FinishUnclaimed(w))
    <3>1. Rests(w)  BY <1>11, <2>2, BatchRests DEF ProcessorStep
    <3> QED  BY <1>8, <1>11, <3>1
  <2> QED  BY <2>1, <2>2
<1>12. ASSUME NEW m \in Messages, Stage(m) \/ StageAgain(m) PROVE NothingMoves
  <2>1. CloudStays  BY <1>12, CloudSteps
  <2>2. UNCHANGED jobs /\ UNCHANGED sent
    BY <1>12 DEF Stage, StageAgain, ledgerVars, Fault, pipeVars
  <2> QED  BY <1>7, <2>1, <2>2
<1>13. CASE Tick
  <2>1. CloudStays  BY <1>13, CloudSteps
  <2>2. \A k \in Keys : jobs'[k].status = jobs[k].status
    BY <1>13 DEF Tick, JobTick, Older, DispatchInv, LedgerInv, JobTypeOK, JobRow
  <2>3. UNCHANGED sent  BY <1>13 DEF Tick
  <2> QED  BY <2>1, <2>2, <2>3, NothingMovesThen
<1>14. CASE UNCHANGED vars
  <2>1. CloudStays  BY <1>14, CloudSteps
  <2> QED  BY <1>7, <1>14, <2>1 DEF vars
<1>15. ASSUME NEW w \in Workers, Crash(w) PROVE NothingMoves
  BY <1>8, <1>15, BatchRests
<1> QED
  BY <1>1, <1>2, <1>3, <1>4, <1>5, <1>6, <1>9, <1>11, <1>12, <1>13, <1>14, <1>15
  DEF Next, ConsumerStep

LEMMA DeliveryStarts == Init => Delivery!DeliveryInit
<1> SUFFICES ASSUME Init PROVE Delivery!DeliveryInit  OBVIOUS
<1>1. \A k \in Keys : ~SettledItem(k)
  BY DEF Init, JobInit, NoJobRow, SettledItem, Terminal
<1>2. \A k : ~Published(k)
  BY MessagesOfJobs DEF Init, InboxInit, Published
<1>3. \A k : {e \in EffectsOf(k) : sent[e] > 0} = {}
  BY DEF Init, EffectsOf
<1> QED  BY <1>1, <1>2, <1>3 DEF Delivery!DeliveryInit

LEMMA DeliverySteps ==
    DispatchInv /\ PublishedFirst /\ WriteInv /\ HeldInv
       /\ (~overran /\ ExecutorHoldsClaim) /\ [Next]_vars
       => [Delivery!DeliveryNext]_Delivery!itemVars
<1> SUFFICES ASSUME DispatchInv, PublishedFirst, WriteInv, HeldInv,
                    ~overran, ExecutorHoldsClaim, [Next]_vars
             PROVE  Delivery!DeliveryNext \/ UNCHANGED Delivery!itemVars
  OBVIOUS
<1>1. Good  BY DEF Good
<1>2. Delivery!DeliveryNext \/ UNCHANGED <<items, writes>>
  BY <1>1, StepMovesItem, ItemStep
<1>3. Delivery!itemVars = <<items, writes>>
  BY DEF Delivery!itemVars, items, writes, ItemOf, Reached
<1>4. (Delivery!itemVars)' = <<items, writes>>'
  BY DEF Delivery!itemVars, items, writes, ItemOf, Reached
<1> QED  BY <1>2, <1>3, <1>4

LEMMA PromiseWhileHeld == Spec /\ []Good /\ []HeldInv => DeliveryPromise
<1>1. Init => PublishedFirst /\ WriteInv /\ Delivery!DeliveryInit
  BY PublishedInit, WriteInvInit, DeliveryStarts
<1>2. DispatchInv /\ PublishedFirst /\ [Next]_vars => PublishedFirst'
  BY StepKeepsPublished
<1>3. DispatchInv /\ WriteInv /\ [Next]_vars => WriteInv'
  BY StepKeepsWritten
<1>4. DispatchInv /\ PublishedFirst /\ WriteInv /\ HeldInv /\ Good /\ [Next]_vars
         => [Delivery!DeliveryNext]_(Delivery!itemVars)
  BY DeliverySteps DEF Good
<1> QED
  BY <1>1, <1>2, <1>3, <1>4, DispatchInvariant, PTL
  DEF Spec, DeliveryPromise, Delivery!DeliverySpec

\* The pipeline implements the promise about an item, whatever is lost, crashes or
\* expires, as long as no claim is outlived: an item is settled once (finishJob
\* finds a row settled and leaves it), is done only after all its writes, and
\* starts over only by the replay of its dead letter.
THEOREM PromiseKept == Spec /\ [](~overran /\ DeferralsWait) => DeliveryPromise
<1>1. InTimeInv /\ ~overran => Good /\ HeldInv
  BY ClaimsAreGood DEF InTimeInv
<1> QED  BY <1>1, InTimeInvariant, PromiseWhileHeld, PTL

\* In particular as long as nothing is lost, crashes or is outlived, and then it
\* writes to each destination once.
THEOREM CalmPromise == Spec /\ [](faults = 0 /\ ~overran) => DeliveredOnce
<1>1. CalmInv /\ (faults = 0 /\ ~overran) => Good /\ HeldInv
  BY CalmIsGood DEF CalmInv, Calm
<1> QED
  BY <1>1, CalmInvariant, PromiseWhileHeld, WrittenOnce, PTL DEF DeliveredOnce

=============================================================================
