--------------------------- MODULE DispatchProofs ---------------------------
(***************************************************************************)
(* Proofs about the dispatch pipeline, for every number of workers, items, *)
(* job ids, destinations and lease ids, every batch size and every length  *)
(* of its timers: no item is lost, whatever is lost, crashes, expires, is  *)
(* outlived or is replayed.                                                *)
(***************************************************************************)
EXTENDS Dispatch, InboxLedgerProofs

\* the leases in a worker's hands
HeldBy(local) ==
    local.todo \cup local.acks \cup local.retries \cup ({local.cur} \ {NoLease})
HeldLeases(w) == HeldBy(worker[w])

\* a pull gives a lease to one worker
HeldByOne ==
    \A v, w \in Workers : v # w => HeldLeases(v) \cap HeldLeases(w) = {}

\* a worker knows the messages of its leases, and has one at hand while it is
\* at work, and the outcome of a write while it records it
Outcomes == {"ok", "quota", "rejected", "unknown"}
HoldersKnow ==
    \A w \in Workers :
        /\ \A l \in HeldLeases(w) : grants[l].message \in Messages
        /\ worker[w].pc \notin {"idle", "next"} => worker[w].cur # NoLease
        /\ worker[w].pc = "record" => worker[w].word \in Outcomes

\* a message gets into the inbox through the queue or a replay
UnsentAbsent ==
    \A m \in Messages : cloud[m] = "unsent" => inbox[m].status = "absent"

ToBeAcked == UNION {worker[w].acks : w \in Workers}

\* in the queue or in the inbox, and no worker is about to delete it
OnItsWay(m) ==
    /\ cloud[m] = "queued" \/ inbox[m].status # "absent"
    /\ inbox[m].lease \notin ToBeAcked

ItemOnItsWay ==
    \A k \in Keys : Published(k) /\ ~SettledItem(k) =>
        \E m \in Messages : KeyOf[m.job] = k /\ OnItsWay(m)

WorkInv == HeldByOne /\ HoldersKnow /\ UnsentAbsent /\ ItemOnItsWay

HistoryTypeOK ==
    /\ operations \in [ReplayKeys -> JobIds \cup {NoJob}]
    /\ sent \in [Effects -> 0..2]
    /\ faults \in 0..MaxFaults
    /\ refusals \in 0..MaxRefusals
    /\ overran \in BOOLEAN

WorkerTypeOK == worker \in [Workers -> Local]

DispatchInv ==
    /\ LeaseInv /\ LedgerInv
    /\ EffectTypeOK /\ WorkerTypeOK /\ HistoryTypeOK
    /\ WorkInv

-----------------------------------------------------------------------------
(* Messages, and what a worker holds *)

LEMMA MessagesOfJobs ==
    /\ \A m \in Messages : m.job \in JobIds /\ KeyOf[m.job] \in Keys
    /\ \A j \in JobIds : SentMessage(j) \in Messages /\ SentMessage(j).job = j
    /\ \A j \in JobIds, o \in ReplayKeys :
          ReplayMessage(j, o) \in Messages /\ ReplayMessage(j, o).job = j
<1>1. \A j \in JobIds : SentMessage(j).job = j /\ KeyOf[j] \in Keys
  BY LedgerAssumption DEF SentMessage
<1>2. \A j \in JobIds, o \in ReplayKeys : ReplayMessage(j, o).job = j
  BY DEF ReplayMessage
<1> QED  BY <1>1, <1>2, DispatchAssumption

\* The job a worker is at work on.
LEMMA AtHand ==
    ASSUME DispatchInv, NEW w \in Workers, worker[w].pc \notin {"idle", "next"}
    PROVE  /\ worker[w].cur \in Leases /\ worker[w].cur \in HeldLeases(w)
           /\ grants[worker[w].cur].message \in Messages
           /\ JobAt(w) \in JobIds /\ KeyAt(w) \in Keys
<1>1. worker[w].cur \in Leases /\ worker[w].cur \in HeldLeases(w)
  BY DEF DispatchInv, WorkInv, WorkerTypeOK, HoldersKnow, HeldLeases, HeldBy, Local
<1>2. grants[worker[w].cur].message \in Messages
  BY <1>1 DEF DispatchInv, WorkInv, HoldersKnow
<1> QED  BY <1>1, <1>2, MessagesOfJobs DEF JobAt, KeyAt

LEMMA HeldAreLeases ==
    ASSUME WorkerTypeOK, NEW w \in Workers PROVE HeldLeases(w) \subseteq Leases
BY DEF WorkerTypeOK, HeldLeases, HeldBy, Local

\* A lease that a row carries is that of the row's message.
LEMMA LeaseOfItsMessage ==
    ASSUME DispatchInv, NEW w \in Workers, NEW m \in Messages,
           inbox[m].lease \in HeldLeases(w)
    PROVE  grants[inbox[m].lease].message = m
<1>1. inbox[m].lease \in Leases  BY HeldAreLeases DEF DispatchInv
<1>2. inbox[m].status = "leased"
  BY <1>1, InboxAssumption DEF DispatchInv, LeaseInv, LeaseNamesRow
<1>3. grants[inbox[m].lease] # NoGrant
  BY InboxAssumption DEF DispatchInv, WorkInv, HoldersKnow, NoGrant
<1> QED  BY <1>2, <1>3 DEF DispatchInv, LeaseInv, LeaseNamesRow

-----------------------------------------------------------------------------
(* What becomes of a worker's locals *)

LEMMA ThrownLocal ==
    ASSUME WorkerTypeOK, NEW w \in Workers, NEW c \in {"retryable", "permanent"}
    PROVE  /\ Thrown(w, c) \in Local
           /\ Thrown(w, c).pc = "fail"
           /\ Thrown(w, c).acks = worker[w].acks
           /\ Thrown(w, c).cur = worker[w].cur
           /\ HeldBy(Thrown(w, c)) = HeldLeases(w)
<1>1. worker[w] \in Local /\ 0 \in 0..MaxWait
  BY LedgerAssumption DEF WorkerTypeOK
<1>2. /\ Thrown(w, c).acks = worker[w].acks
      /\ Thrown(w, c).todo = worker[w].todo
      /\ Thrown(w, c).retries = worker[w].retries
      /\ Thrown(w, c).cur = worker[w].cur
      /\ Thrown(w, c).pc = "fail"
  BY <1>1 DEF Thrown, Local
<1>3. Thrown(w, c) \in Local
  BY <1>1 DEF Thrown, Local
<1> QED  BY <1>2, <1>3 DEF HeldLeases, HeldBy

LEMMA ReturnedLocal ==
    ASSUME WorkerTypeOK, NEW w \in Workers,
           NEW c \in {"done", "uncertain", "deferred"}, NEW wait \in 0..MaxWait
    PROVE  /\ Returned(w, c, wait) \in Local
           /\ Returned(w, c, wait).pc = "finish"
           /\ Returned(w, c, wait).acks = worker[w].acks
           /\ Returned(w, c, wait).cur = worker[w].cur
           /\ HeldBy(Returned(w, c, wait)) = HeldLeases(w)
<1>1. worker[w] \in Local
  BY DEF WorkerTypeOK
<1>2. /\ Returned(w, c, wait).acks = worker[w].acks
      /\ Returned(w, c, wait).todo = worker[w].todo
      /\ Returned(w, c, wait).retries = worker[w].retries
      /\ Returned(w, c, wait).cur = worker[w].cur
      /\ Returned(w, c, wait).pc = "finish"
  BY <1>1 DEF Returned, Local
<1>3. Returned(w, c, wait) \in Local
  BY <1>1 DEF Returned, Local
<1> QED  BY <1>2, <1>3 DEF HeldLeases, HeldBy

LEMMA AnsweredLocal ==
    ASSUME WorkerTypeOK, NEW w \in Workers, NEW l \in HeldLeases(w),
           NEW s \in {"ack", "retry"}
    PROVE  /\ Answered(w, l, s) \in Local
           /\ Answered(w, l, s).pc = "next"
           /\ Answered(w, l, s).acks \subseteq worker[w].acks \cup {l}
           /\ s = "retry" => Answered(w, l, s).acks = worker[w].acks
           /\ HeldBy(Answered(w, l, s)) \subseteq HeldLeases(w)
<1>1. worker[w] \in Local /\ 0 \in 0..MaxWait /\ l \in Leases
  BY LedgerAssumption, HeldAreLeases DEF WorkerTypeOK
<1>2. /\ Answered(w, l, s).acks =
            IF s = "ack" THEN worker[w].acks \cup {l} ELSE worker[w].acks
      /\ Answered(w, l, s).retries =
            IF s = "retry" THEN worker[w].retries \cup {l} ELSE worker[w].retries
      /\ Answered(w, l, s).todo = worker[w].todo \ {l}
      /\ Answered(w, l, s).cur = NoLease
      /\ Answered(w, l, s).pc = "next"
  BY <1>1 DEF Answered, Local
<1>3. Answered(w, l, s) \in Local
  BY <1>1 DEF Answered, Local
<1>4. HeldBy(Answered(w, l, s)) \subseteq HeldLeases(w)
  BY <1>2 DEF HeldLeases, HeldBy
<1> QED  BY <1>2, <1>3, <1>4

-----------------------------------------------------------------------------
(* What a step of one worker must keep to *)

SettledStays == \A k \in Keys : SettledItem(k) => SettledItem(k)'

\* Worker w goes on as local: it takes no lease, keeps the one at hand, and
\* what it is newly about to acknowledge belongs to a settled item.
GoesOn(w, local) ==
    /\ worker' = [worker EXCEPT ![w] = local]
    /\ local \in Local
    /\ HeldBy(local) \subseteq HeldLeases(w)
    /\ local.pc \notin {"idle", "next"} => local.cur # NoLease
    /\ local.pc = "record" => local.word \in Outcomes
    /\ \A l \in local.acks \ worker[w].acks :
          l \in HeldLeases(w) /\ jobs'[KeyOf[grants[l].message.job]].status \in Terminal

\* The same for what all workers hold.
LEMMA HeldAfter ==
    ASSUME DispatchInv, NEW w \in Workers, NEW local, GoesOn(w, local)
    PROVE  /\ WorkerTypeOK'
           /\ HeldLeases(w)' \subseteq HeldLeases(w)
           /\ \A v \in Workers \ {w} : HeldLeases(v)' = HeldLeases(v)
           /\ worker'[w] = local
           /\ \A v \in Workers \ {w} : worker'[v] = worker[v]
<1>1. worker'[w] = local /\ \A v \in Workers \ {w} : worker'[v] = worker[v]
  BY DEF GoesOn, DispatchInv, WorkerTypeOK
<1>2. WorkerTypeOK'
  BY DEF GoesOn, DispatchInv, WorkerTypeOK
<1>3. HeldLeases(w)' \subseteq HeldLeases(w)
  BY <1>1 DEF GoesOn, HeldLeases
<1>4. \A v \in Workers \ {w} : HeldLeases(v)' = HeldLeases(v)
  BY <1>1 DEF HeldLeases
<1> QED  BY <1>1, <1>2, <1>3, <1>4

\* What a step of one worker leaves of a message that is on its way: only its
\* own new acknowledgement may delete it, and then its item is settled.
LEMMA StillOnItsWay ==
    ASSUME DispatchInv, NEW w \in Workers, NEW local, GoesOn(w, local),
           NEW m \in Messages, OnItsWay(m), inbox' = inbox,
           cloud[m] = "queued" => cloud'[m] = "queued"
    PROVE  OnItsWay(m)' \/ SettledItem(KeyOf[m.job])'
<1> DEFINE l == inbox[m].lease
<1>1. CASE l \in local.acks \ worker[w].acks
  <2>1. l \in HeldLeases(w) /\ jobs'[KeyOf[grants[l].message.job]].status \in Terminal
    BY <1>1 DEF GoesOn
  <2>2. grants[l].message = m
    BY <2>1, LeaseOfItsMessage
  <2> QED  BY <2>1, <2>2 DEF SettledItem
<1>2. CASE l \notin local.acks \ worker[w].acks
  <2>1. ASSUME NEW v \in Workers, l \in worker'[v].acks PROVE FALSE
    <3>1. l \in worker[v].acks
      BY <1>2, <2>1, HeldAfter
    <3> QED  BY <3>1 DEF OnItsWay, ToBeAcked
  <2>2. l \notin ToBeAcked'
    BY <2>1 DEF ToBeAcked
  <2> QED  BY <2>2 DEF OnItsWay
<1> QED  BY <1>1, <1>2

\* A step of one worker that leaves queue and inbox alone.
LEMMA WorkerStepKeeps ==
    ASSUME DispatchInv, NEW w \in Workers, NEW local, GoesOn(w, local),
           UNCHANGED inboxVars, SettledStays
    PROVE  WorkerTypeOK' /\ WorkInv'
<1>1. WorkerTypeOK'
  BY HeldAfter
<1>2. UNCHANGED <<cloud, inbox, grants>>
  BY DEF inboxVars
<1>3. HeldByOne'
  BY HeldAfter DEF DispatchInv, WorkInv, HeldByOne
<1>4. HoldersKnow'
  <2>1. ASSUME NEW v \in Workers, NEW l \in HeldLeases(v)'
        PROVE  grants'[l].message \in Messages
    BY <1>2, <2>1, HeldAfter DEF DispatchInv, WorkInv, HoldersKnow
  <2>2. ASSUME NEW v \in Workers, worker'[v].pc \notin {"idle", "next"}
        PROVE  worker'[v].cur # NoLease
    BY <2>2, HeldAfter DEF DispatchInv, WorkInv, HoldersKnow, GoesOn
  <2>3. ASSUME NEW v \in Workers, worker'[v].pc = "record"
        PROVE  worker'[v].word \in Outcomes
    BY <2>3, HeldAfter DEF DispatchInv, WorkInv, HoldersKnow, GoesOn
  <2> QED  BY <2>1, <2>2, <2>3 DEF HoldersKnow
<1>5. UnsentAbsent'
  BY <1>2 DEF DispatchInv, WorkInv, UnsentAbsent
<1>6. ItemOnItsWay'
  <2> SUFFICES ASSUME NEW k \in Keys, Published(k)', ~SettledItem(k)'
               PROVE  \E m \in Messages : KeyOf[m.job] = k /\ OnItsWay(m)'
    BY DEF ItemOnItsWay
  <2>1. Published(k) /\ ~SettledItem(k)
    BY <1>2 DEF Published, SettledStays
  <2> PICK m \in Messages : KeyOf[m.job] = k /\ OnItsWay(m)
    BY <2>1 DEF DispatchInv, WorkInv, ItemOnItsWay
  <2>2. OnItsWay(m)'
    BY <1>2, StillOnItsWay
  <2> QED  BY <2>2
<1> QED  BY <1>1, <1>3, <1>4, <1>5, <1>6 DEF WorkInv

\* Together with what the three ledgers keep.
LEMMA LocalStepKeeps ==
    ASSUME DispatchInv, NEW w \in Workers, NEW local, GoesOn(w, local),
           UNCHANGED inboxVars, SettledStays,
           [JobNext]_ledgerVars, EffectTypeOK', HistoryTypeOK'
    PROVE  DispatchInv'
<1>1. LedgerInv'  BY StepKeepsInv DEF DispatchInv
<1>2. LeaseInv'
  BY StepKeepsLeases DEF DispatchInv
<1> QED  BY <1>1, <1>2, WorkerStepKeeps DEF DispatchInv

\* The history: what a lost request and a refusal do to it.
LEMMA HistorySteps ==
    ASSUME HistoryTypeOK, Fault \/ Refuse \/ UNCHANGED pipeVars
    PROVE  HistoryTypeOK'
<1>1. MaxFaults \in Nat /\ MaxRefusals \in Nat
  BY DispatchAssumption, InboxAssumption
<1>2. CASE Fault
  BY <1>1, <1>2 DEF HistoryTypeOK, Fault
<1>3. CASE Refuse
  BY <1>1, <1>3 DEF HistoryTypeOK, Refuse
<1>4. CASE UNCHANGED pipeVars
  BY <1>4 DEF HistoryTypeOK, pipeVars
<1> QED  BY <1>2, <1>3, <1>4

\* A step that changes a row only while it is open settles nothing back.
LEMMA OpenRowChanged ==
    ASSUME LedgerInv, NEW j \in JobIds, KeyOf[j] \in Keys,
           jobs[KeyOf[j]].status \notin Terminal,
           \A k \in Keys \ {KeyOf[j]} : jobs'[k] = jobs[k]
    PROVE  SettledStays
BY DEF SettledStays, SettledItem

LEMMA LedgerUntouched ==
    ASSUME UNCHANGED ledgerVars PROVE SettledStays /\ [JobNext]_ledgerVars
BY DEF ledgerVars, SettledStays, SettledItem

\* The handler goes on with the same leases in hand.
LEMMA HandlerGoesOn ==
    ASSUME DispatchInv, NEW w \in Workers, worker[w].pc \notin {"idle", "next"},
           NEW local \in Local, local.acks = worker[w].acks,
           HeldBy(local) = HeldLeases(w), local.cur = worker[w].cur,
           local.pc = "record" => local.word \in Outcomes,
           worker' = [worker EXCEPT ![w] = local]
    PROVE  GoesOn(w, local)
BY DEF GoesOn, DispatchInv, WorkInv, HoldersKnow

LEMMA HandlerLocalKeeps ==
    ASSUME DispatchInv, NEW w \in Workers, worker[w].pc \notin {"idle", "next"},
           NEW local \in Local, local.acks = worker[w].acks,
           HeldBy(local) = HeldLeases(w), local.cur = worker[w].cur,
           local.pc = "record" => local.word \in Outcomes,
           Step(w, local), UNCHANGED ledgerVars, EffectTypeOK', HistoryTypeOK'
    PROVE  DispatchInv'
<1>1. GoesOn(w, local) /\ UNCHANGED inboxVars
  BY HandlerGoesOn DEF Step
<1> QED  BY <1>1, LedgerUntouched, LocalStepKeeps

LEMMA ThrowKeeps ==
    ASSUME DispatchInv, NEW w \in Workers, worker[w].pc \notin {"idle", "next"},
           NEW c \in {"retryable", "permanent"}, Step(w, Thrown(w, c)),
           UNCHANGED ledgerVars, EffectTypeOK', HistoryTypeOK'
    PROVE  DispatchInv'
<1>1. WorkerTypeOK  BY DEF DispatchInv
<1> QED  BY <1>1, ThrownLocal, HandlerLocalKeeps

LEMMA ReturnKeeps ==
    ASSUME DispatchInv, NEW w \in Workers, worker[w].pc \notin {"idle", "next"},
           NEW c \in {"done", "uncertain", "deferred"}, NEW wait \in 0..MaxWait,
           Step(w, Returned(w, c, wait)),
           UNCHANGED ledgerVars, EffectTypeOK', HistoryTypeOK'
    PROVE  DispatchInv'
<1>1. WorkerTypeOK  BY DEF DispatchInv
<1> QED  BY <1>1, ReturnedLocal, HandlerLocalKeeps

\* Rows of the effect ledger stay rows.
LEMMA EffectSteps ==
    ASSUME EffectTypeOK, NEW e,
           \/ \E j \in JobIds : ClaimEffect(e, j)
           \/ \E s \in {"done", "uncertain", "failed"} : FinishEffect(e, s)
           \/ UNCHANGED effects
    PROVE  EffectTypeOK'
<1>1. 0 \in 0..(Stale + 1)  BY LedgerAssumption
<1>2. ASSUME NEW j \in JobIds, ClaimEffect(e, j) PROVE EffectTypeOK'
  BY <1>1, <1>2 DEF ClaimEffect, EffectTypeOK, EffectRow
<1>3. ASSUME NEW s \in {"done", "uncertain", "failed"}, FinishEffect(e, s)
      PROVE  EffectTypeOK'
  BY <1>1, <1>3 DEF FinishEffect, EffectTypeOK, EffectRow
<1>4. CASE UNCHANGED effects
  BY <1>4 DEF EffectTypeOK
<1> QED  BY <1>2, <1>3, <1>4

-----------------------------------------------------------------------------
(* The steps of the handler *)

\* A busy effect is free again within the time a job may be deferred.
LEMMA EffectWaits ==
    ASSUME EffectTypeOK, NEW e \in Effects PROVE EffectWait(e) \in 0..MaxWait
<1>1. effects[e].age \in 0..(Stale + 1)  BY DEF EffectTypeOK, EffectRow
<1>2. Stale \in Nat /\ MaxWait \in Nat /\ Stale <= MaxWait
  BY LedgerAssumption, DispatchAssumption
<1> QED  BY <1>1, <1>2 DEF EffectWait

LEMMA AdmitKeeps ==
    ASSUME DispatchInv, NEW w \in Workers, AdmitArticle(w) PROVE DispatchInv'
<1> DEFINE local == [worker[w] EXCEPT !.pc = "effect"]
<1>1. UNCHANGED ledgerVars /\ EffectTypeOK' /\ worker[w].pc = "begin"
  BY EffectSteps DEF AdmitArticle, DispatchInv
<1>2. HistoryTypeOK'
  BY HistorySteps DEF AdmitArticle, DispatchInv
<1>3. CASE Step(w, local)
  <2>1. /\ local \in Local /\ local.pc = "effect"
        /\ local.acks = worker[w].acks /\ local.todo = worker[w].todo
        /\ local.retries = worker[w].retries /\ local.cur = worker[w].cur
    BY DEF DispatchInv, WorkerTypeOK, Local
  <2>2. HeldBy(local) = HeldLeases(w)  BY <2>1 DEF HeldBy, HeldLeases
  <2> HIDE DEF local
  <2> QED  BY <1>1, <1>2, <1>3, <2>1, <2>2, HandlerLocalKeeps
<1>4. ASSUME NEW wait \in 1..MaxWait, Step(w, Returned(w, "deferred", wait))
      PROVE  DispatchInv'
  <2>1. wait \in 0..MaxWait  BY LedgerAssumption
  <2> QED  BY <1>1, <1>2, <1>4, <2>1, ReturnKeeps
<1>5. CASE Step(w, Thrown(w, "retryable"))
  BY <1>1, <1>2, <1>5, ThrowKeeps
<1> QED  BY <1>3, <1>4, <1>5 DEF AdmitArticle

LEMMA SkipEffectKeeps ==
    ASSUME DispatchInv, NEW w \in Workers, NEW e \in Effects, SkipEffect(w, e)
    PROVE  DispatchInv'
<1> DEFINE local == [worker[w] EXCEPT !.left = @ \ {e}]
<1>1. UNCHANGED ledgerVars /\ EffectTypeOK' /\ worker[w].pc = "effect"
  BY EffectSteps DEF SkipEffect, DispatchInv
<1>2. HistoryTypeOK'
  BY HistorySteps DEF SkipEffect, DispatchInv
<1>3. CASE Step(w, local)
  <2>1. /\ local \in Local /\ local.pc = "effect"
        /\ local.acks = worker[w].acks /\ local.todo = worker[w].todo
        /\ local.retries = worker[w].retries /\ local.cur = worker[w].cur
    BY <1>1 DEF DispatchInv, WorkerTypeOK, Local
  <2>2. HeldBy(local) = HeldLeases(w)  BY <2>1 DEF HeldBy, HeldLeases
  <2> HIDE DEF local
  <2> QED  BY <1>1, <1>2, <1>3, <2>1, <2>2, HandlerLocalKeeps
<1>4. CASE Step(w, Returned(w, "uncertain", 0))
  <2>1. 0 \in 0..MaxWait  BY LedgerAssumption
  <2> QED  BY <1>1, <1>2, <1>4, <2>1, ReturnKeeps
<1>5. CASE Step(w, Returned(w, "deferred", EffectWait(e)))
  BY <1>1, <1>2, <1>5, EffectWaits, ReturnKeeps DEF DispatchInv
<1> QED  BY <1>3, <1>4, <1>5 DEF SkipEffect

LEMMA StartEffectKeeps ==
    ASSUME DispatchInv, NEW w \in Workers, NEW e \in Effects, StartEffect(w, e)
    PROVE  DispatchInv'
<1> DEFINE local == [worker[w] EXCEPT !.pc = "deliver", !.at = e]
<1>1. UNCHANGED ledgerVars /\ worker[w].pc = "effect"
  BY DEF StartEffect
<1>2. JobAt(w) \in JobIds  BY <1>1, AtHand
<1>3. EffectTypeOK'
  BY <1>2, EffectSteps DEF StartEffect, DispatchInv
<1>4. HistoryTypeOK'
  BY HistorySteps DEF StartEffect, DispatchInv
<1>5. CASE Step(w, local)
  <2>1. /\ local \in Local /\ local.pc = "deliver"
        /\ local.acks = worker[w].acks /\ local.todo = worker[w].todo
        /\ local.retries = worker[w].retries /\ local.cur = worker[w].cur
    BY DEF DispatchInv, WorkerTypeOK, Local
  <2>2. HeldBy(local) = HeldLeases(w)  BY <2>1 DEF HeldBy, HeldLeases
  <2> HIDE DEF local
  <2> QED  BY <1>1, <1>3, <1>4, <1>5, <2>1, <2>2, HandlerLocalKeeps
<1>6. CASE Step(w, Thrown(w, "retryable"))
  BY <1>1, <1>3, <1>4, <1>6, ThrowKeeps
<1> QED  BY <1>5, <1>6 DEF StartEffect

LEMMA DeliverKeeps ==
    ASSUME DispatchInv, NEW w \in Workers, Deliver(w) PROVE DispatchInv'
<1>1. UNCHANGED ledgerVars /\ EffectTypeOK' /\ worker[w].pc = "deliver"
  BY EffectSteps DEF Deliver, DispatchInv
<1>a. PICK wrote \in BOOLEAN : \E word \in Learnt(wrote) :
         /\ sent' = IF wrote /\ sent[worker[w].at] < 2
                    THEN [sent EXCEPT ![worker[w].at] = @ + 1] ELSE sent
         /\ Step(w, [worker[w] EXCEPT !.pc = "record", !.word = word])
  BY DEF Deliver
<1>2. PICK word \in Learnt(wrote) :
         /\ sent' = IF wrote /\ sent[worker[w].at] < 2
                    THEN [sent EXCEPT ![worker[w].at] = @ + 1] ELSE sent
         /\ Step(w, [worker[w] EXCEPT !.pc = "record", !.word = word])
  BY <1>a
<1>b. sent \in [Effects -> 0..2]
  BY DEF DispatchInv, HistoryTypeOK
<1>c. ASSUME wrote /\ sent[worker[w].at] < 2 PROVE HistoryTypeOK'
  <2> DEFINE at == worker[w].at
  <2>1. sent' = [sent EXCEPT ![at] = @ + 1]
    BY <1>2, <1>c
  <2>2. at \in Effects => sent[at] + 1 \in 0..2
    BY <1>b, <1>c
  <2> HIDE DEF at
  <2>3. sent' \in [Effects -> 0..2]
    BY <1>b, <2>1, <2>2
  <2> QED  BY <2>3 DEF Deliver, DispatchInv, HistoryTypeOK
<1>d. ASSUME ~(wrote /\ sent[worker[w].at] < 2) PROVE HistoryTypeOK'
  <2>1. sent' = sent  BY <1>2, <1>d
  <2> QED  BY <1>b, <2>1 DEF Deliver, DispatchInv, HistoryTypeOK
<1>3. HistoryTypeOK'
  BY <1>c, <1>d
<1> DEFINE local == [worker[w] EXCEPT !.pc = "record", !.word = word]
<1>4. word \in Outcomes  BY DEF Learnt, Outcomes
<1>5. /\ local \in Local /\ local.pc = "record" /\ local.word = word
      /\ local.acks = worker[w].acks /\ local.todo = worker[w].todo
      /\ local.retries = worker[w].retries /\ local.cur = worker[w].cur
  BY <1>4 DEF DispatchInv, WorkerTypeOK, Local, Outcomes
<1>6. HeldBy(local) = HeldLeases(w)  BY <1>5 DEF HeldBy, HeldLeases
<1>7. Step(w, local)  BY <1>2
<1> HIDE DEF local
<1> QED  BY <1>1, <1>3, <1>4, <1>5, <1>6, <1>7, HandlerLocalKeeps

LEMMA RecordKeeps ==
    ASSUME DispatchInv, NEW w \in Workers, RecordEffect(w) PROVE DispatchInv'
<1> DEFINE local == [worker[w] EXCEPT !.pc = "effect", !.word = "",
                                      !.at = NoEffectKey, !.left = @ \ {worker[w].at}]
<1>1. UNCHANGED ledgerVars /\ worker[w].pc = "record"
  BY DEF RecordEffect
<1>2. worker[w].word \in Outcomes
  BY <1>1 DEF DispatchInv, WorkInv, HoldersKnow
<1>3. Recorded(worker[w].word) \in {"done", "uncertain", "failed"}
  BY DEF Recorded
<1>4. EffectTypeOK'
  BY <1>3, EffectSteps DEF RecordEffect, DispatchInv
<1>5. HistoryTypeOK'
  BY HistorySteps DEF RecordEffect, DispatchInv
<1>6. CASE Step(w, local)
  <2>1. /\ local \in Local /\ local.pc = "effect"
        /\ local.acks = worker[w].acks /\ local.todo = worker[w].todo
        /\ local.retries = worker[w].retries /\ local.cur = worker[w].cur
    BY DEF DispatchInv, WorkerTypeOK, Local
  <2>2. HeldBy(local) = HeldLeases(w)  BY <2>1 DEF HeldBy, HeldLeases
  <2> HIDE DEF local
  <2> QED  BY <1>1, <1>4, <1>5, <1>6, <2>1, <2>2, HandlerLocalKeeps
<1>7. CASE Step(w, Returned(w, "uncertain", 0))
  <2>1. 0 \in 0..MaxWait  BY LedgerAssumption
  <2> QED  BY <1>1, <1>4, <1>5, <1>7, <2>1, ReturnKeeps
<1>8. CASE Step(w, Thrown(w, "retryable")) \/ Step(w, Thrown(w, "permanent"))
  BY <1>1, <1>4, <1>5, <1>8, ThrowKeeps
<1>9. ASSUME NEW next \in AfterRecord(w)
      PROVE  \/ next = local \/ next = Returned(w, "uncertain", 0)
             \/ next = Thrown(w, "retryable") \/ next = Thrown(w, "permanent")
  <2> HIDE DEF local
  <2>1. CASE worker[w].word = "ok"  BY <1>9, <2>1 DEF AfterRecord, local
  <2>2. CASE worker[w].word = "unknown"  BY <1>9, <2>2 DEF AfterRecord
  <2>3. CASE worker[w].word = "quota"  BY <1>9, <2>3 DEF AfterRecord
  <2>4. CASE worker[w].word = "rejected"  BY <1>9, <2>4 DEF AfterRecord
  <2> QED  BY <1>2, <2>1, <2>2, <2>3, <2>4 DEF Outcomes
<1> HIDE DEF local
<1> QED  BY <1>6, <1>7, <1>8, <1>9 DEF RecordEffect

\* Requests that are lost, refused or meet no row: the handler throws.
LEMMA HandlerThrowsKeeps ==
    ASSUME DispatchInv, NEW w \in Workers,
           \/ LoseEffectClaim(w) \/ LimitItem(w) \/ LoseEffectResult(w)
           \/ LosePublish(w) \/ LoseFinish(w) \/ FinishUnclaimed(w)
    PROVE  DispatchInv'
<1>1. /\ worker[w].pc \notin {"idle", "next"}
      /\ Step(w, Thrown(w, "retryable"))
      /\ UNCHANGED <<ledgerVars, effects>>
  BY DEF LoseEffectClaim, LimitItem, LoseEffectResult, LosePublish, LoseFinish,
         FinishUnclaimed, Finished
<1>2. HistoryTypeOK'
  BY HistorySteps
  DEF LoseEffectClaim, LimitItem, LoseEffectResult, LosePublish, LoseFinish,
      FinishUnclaimed, DispatchInv
<1>3. EffectTypeOK'
  BY <1>1, EffectSteps DEF DispatchInv
<1> QED  BY <1>1, <1>2, <1>3, ThrowKeeps

LEMMA ReturnDoneKeeps ==
    ASSUME DispatchInv, NEW w \in Workers, ReturnDone(w) PROVE DispatchInv'
<1>1. UNCHANGED ledgerVars /\ EffectTypeOK' /\ worker[w].pc = "effect"
  BY EffectSteps DEF ReturnDone, Finished, DispatchInv
<1>2. HistoryTypeOK'
  BY HistorySteps DEF ReturnDone, DispatchInv
<1>3. Step(w, Returned(w, "done", 0)) /\ 0 \in 0..MaxWait
  BY LedgerAssumption DEF ReturnDone
<1> QED  BY <1>1, <1>2, <1>3, ReturnKeeps

-----------------------------------------------------------------------------
(* The steps that put messages on their way *)

Present(m) == cloud[m] = "queued" \/ inbox[m].status # "absent"

\* Nothing of what workers hold or are about to delete grows, no message on its
\* way leaves queue and inbox or gets a lease, and every new item has one that
\* nobody holds.
LEMMA MessageStepKeeps ==
    ASSUME DispatchInv,
           \A v \in Workers :
              /\ HeldLeases(v)' \subseteq HeldLeases(v)
              /\ worker'[v].acks \subseteq worker[v].acks
              /\ worker'[v].pc \notin {"idle", "next"} => worker'[v].cur # NoLease
              /\ worker'[v].pc = "record" => worker'[v].word \in Outcomes
              /\ \A l \in HeldLeases(v)' : grants'[l].message = grants[l].message,
           \A m \in Messages :
              OnItsWay(m) => Present(m)' /\ inbox'[m].lease \in {inbox[m].lease, NoLease},
           UnsentAbsent',
           \A k \in Keys : Published(k)' /\ ~SettledItem(k)' =>
              \/ Published(k) /\ ~SettledItem(k)
              \/ \E m \in Messages : /\ KeyOf[m.job] = k /\ Present(m)'
                                     /\ inbox'[m].lease = NoLease
    PROVE  WorkInv'
<1>1. HeldByOne'
  BY DEF DispatchInv, WorkInv, HeldByOne
<1>2. HoldersKnow'
  BY DEF DispatchInv, WorkInv, HoldersKnow
<1>3. ToBeAcked' \subseteq ToBeAcked /\ NoLease \notin ToBeAcked
  <2>1. \A v \in Workers : NoLease \notin worker[v].acks
    BY InboxAssumption DEF DispatchInv, WorkerTypeOK, Local
  <2> QED  BY <2>1 DEF ToBeAcked
<1>4. ItemOnItsWay'
  <2> SUFFICES ASSUME NEW k \in Keys, Published(k)', ~SettledItem(k)'
               PROVE  \E m \in Messages : KeyOf[m.job] = k /\ OnItsWay(m)'
    BY DEF ItemOnItsWay
  <2>1. CASE Published(k) /\ ~SettledItem(k)
    <3> PICK m \in Messages : KeyOf[m.job] = k /\ OnItsWay(m)
      BY <2>1 DEF DispatchInv, WorkInv, ItemOnItsWay
    <3>1. OnItsWay(m)'
      BY <1>3 DEF OnItsWay, Present
    <3> QED  BY <3>1
  <2>2. ASSUME NEW m \in Messages, KeyOf[m.job] = k, Present(m)', inbox'[m].lease = NoLease
        PROVE  OnItsWay(m)'
    BY <1>3, <2>2 DEF OnItsWay, Present
  <2> QED  BY <2>1, <2>2
<1> QED  BY <1>1, <1>2, <1>4 DEF WorkInv

\* Workers that stay where they are hold what they held.
LEMMA WorkersStay ==
    ASSUME DispatchInv, UNCHANGED <<worker, grants>>
    PROVE  /\ WorkerTypeOK'
           /\ \A v \in Workers :
                /\ HeldLeases(v)' \subseteq HeldLeases(v)
                /\ worker'[v].acks \subseteq worker[v].acks
                /\ worker'[v].pc \notin {"idle", "next"} => worker'[v].cur # NoLease
                /\ worker'[v].pc = "record" => worker'[v].word \in Outcomes
                /\ \A l \in HeldLeases(v)' : grants'[l].message = grants[l].message
BY DEF DispatchInv, WorkInv, HoldersKnow, WorkerTypeOK, HeldLeases

\* Staging leaves the lease of every row, and a new row carries none.
LEMMA StagedRows ==
    ASSUME DispatchInv, NEW ms, inbox' = Staged(ms)
    PROVE  \A m \in Messages :
              /\ inbox'[m].lease = inbox[m].lease
              /\ inbox[m].status # "absent" => inbox'[m] = inbox[m]
              /\ m \in ms => inbox'[m].status # "absent"
              /\ m \notin ms => inbox'[m] = inbox[m]
              /\ inbox[m].status = "absent" => inbox[m].lease = NoLease
BY DEF Staged, QueuedRow, DispatchInv, LeaseInv, LeaseNamesRow

\* A message enters the Cloudflare queue.
LEMMA SendKeeps ==
    ASSUME DispatchInv, NEW j \in JobIds, Send({SentMessage(j)}),
           UNCHANGED ledgerVars, WorkerTypeOK',
           \A v \in Workers :
              /\ HeldLeases(v)' \subseteq HeldLeases(v)
              /\ worker'[v].acks \subseteq worker[v].acks
              /\ worker'[v].pc \notin {"idle", "next"} => worker'[v].cur # NoLease
              /\ worker'[v].pc = "record" => worker'[v].word \in Outcomes,
           EffectTypeOK', HistoryTypeOK'
    PROVE  DispatchInv'
<1> DEFINE n == SentMessage(j)
<1>1. n \in Messages /\ n.job = j
  BY MessagesOfJobs
<1> HIDE DEF n
<1>2. /\ cloud[n] = "unsent" /\ cloud'[n] = "queued"
      /\ \A m \in Messages \ {n} : cloud'[m] = cloud[m]
      /\ UNCHANGED <<tries, inbox, grants, consumed>>
  BY <1>1 DEF Send, n
<1>3. inbox[n].status = "absent" /\ inbox[n].lease = NoLease
  BY <1>1, <1>2 DEF DispatchInv, WorkInv, UnsentAbsent, LeaseInv, LeaseNamesRow
<1>4. UnsentAbsent'
  BY <1>2 DEF DispatchInv, WorkInv, UnsentAbsent
<1>5. \A m \in Messages :
         OnItsWay(m) => Present(m)' /\ inbox'[m].lease \in {inbox[m].lease, NoLease}
  BY <1>2 DEF OnItsWay, Present
<1>6. ASSUME NEW k \in Keys, Published(k)', ~SettledItem(k)'
      PROVE  \/ Published(k) /\ ~SettledItem(k)
             \/ \E m \in Messages : /\ KeyOf[m.job] = k /\ Present(m)'
                                    /\ inbox'[m].lease = NoLease
  <2>1. ~SettledItem(k)  BY <1>6 DEF SettledItem, ledgerVars
  <2>2. PICK i \in JobIds : KeyOf[i] = k /\ cloud'[SentMessage(i)] # "unsent"
    BY <1>6 DEF Published
  <2>3. CASE SentMessage(i) = n
    <3>1. KeyOf[n.job] = k  BY <2>2, <2>3, MessagesOfJobs
    <3> QED  BY <1>1, <1>2, <1>3, <3>1 DEF Present
  <2>4. CASE SentMessage(i) # n
    <3>1. cloud[SentMessage(i)] # "unsent"
      BY <1>2, <2>2, <2>4, MessagesOfJobs
    <3> QED  BY <2>1, <2>2, <3>1 DEF Published
  <2> QED  BY <2>3, <2>4
<1>7. \A v \in Workers : \A l \in HeldLeases(v)' : grants'[l].message = grants[l].message
  BY <1>2
<1>8. WorkInv'
  <2> HIDE DEF WorkInv
  <2> QED  BY <1>4, <1>5, <1>6, <1>7, MessageStepKeeps
<1>9. LeaseInv' /\ LedgerInv'
  <2>1. {SentMessage(j)} \in SUBSET Messages  BY <1>1 DEF n
  <2>2. [InboxNext]_inboxVars  BY <2>1 DEF InboxNext
  <2>3. [JobNext]_ledgerVars  OBVIOUS
  <2> QED  BY <2>2, <2>3, StepKeepsLeases, StepKeepsInv DEF DispatchInv
<1> QED  BY <1>8, <1>9 DEF DispatchInv

LEMMA SubmitKeeps ==
    ASSUME DispatchInv, NEW j \in JobIds, Submit(j) PROVE DispatchInv'
<1>1. /\ Send({SentMessage(j)}) /\ UNCHANGED ledgerVars /\ UNCHANGED <<worker, grants>>
      /\ UNCHANGED effects /\ UNCHANGED pipeVars
  BY DEF Submit, Send
<1>2. EffectTypeOK' /\ HistoryTypeOK'
  BY <1>1, EffectSteps, HistorySteps DEF DispatchInv
<1> QED  BY <1>1, <1>2, WorkersStay, SendKeeps

\* A published article, however the worker learns of it.
LEMMA PublishArticleKeeps ==
    ASSUME DispatchInv, NEW w \in Workers, PublishArticle(w) PROVE DispatchInv'
<1>1. PICK j \in JobIds : Send({SentMessage(j)})
  BY DEF PublishArticle
<1>2. PICK local \in {Returned(w, "done", 0), Thrown(w, "retryable")} :
         worker' = [worker EXCEPT ![w] = local]
  BY DEF PublishArticle
<1>3. /\ WorkerTypeOK /\ worker[w].pc = "effect" /\ UNCHANGED ledgerVars
      /\ UNCHANGED effects
  BY DEF PublishArticle, Finished, DispatchInv
<1>4. EffectTypeOK' /\ HistoryTypeOK'
  BY <1>3, EffectSteps, HistorySteps DEF PublishArticle, DispatchInv
<1>5. /\ local \in Local /\ local.acks = worker[w].acks /\ local.cur = worker[w].cur
      /\ local.pc # "record" /\ HeldBy(local) = HeldLeases(w)
  <2>1. 0 \in 0..MaxWait  BY LedgerAssumption
  <2> QED  BY <1>2, <1>3, <2>1, ThrownLocal, ReturnedLocal
<1>6. GoesOn(w, local)
  BY <1>2, <1>3, <1>5, HandlerGoesOn
<1>7. /\ WorkerTypeOK'
      /\ \A v \in Workers :
            /\ HeldLeases(v)' \subseteq HeldLeases(v)
            /\ worker'[v].acks \subseteq worker[v].acks
            /\ worker'[v].pc \notin {"idle", "next"} => worker'[v].cur # NoLease
            /\ worker'[v].pc = "record" => worker'[v].word \in Outcomes
  BY <1>3, <1>5, <1>6, HeldAfter DEF DispatchInv, WorkInv, HoldersKnow
<1> QED  BY <1>1, <1>3, <1>4, <1>7, SendKeeps

\* A message of the queue enters the inbox.
LEMMA StageKeeps ==
    ASSUME DispatchInv, NEW m \in Messages, Stage(m) \/ StageAgain(m)
    PROVE  DispatchInv'
<1>1. /\ StageAcked({m}) \/ StageUnwoken({m})
      /\ inbox' = Staged({m}) /\ UNCHANGED <<worker, grants>> /\ UNCHANGED ledgerVars
      /\ UNCHANGED effects /\ cloud[m] = "queued"
      /\ \A n \in Messages \ {m} : cloud'[n] = cloud[n]
      /\ cloud'[m] # "unsent"
  BY DEF Stage, StageAgain, StageAcked, StageUnwoken, Batch, Redeliver
<1>2. EffectTypeOK' /\ HistoryTypeOK'
  BY <1>1, EffectSteps, HistorySteps DEF Stage, StageAgain, DispatchInv
<1>3. UnsentAbsent'
  BY <1>1, StagedRows DEF DispatchInv, WorkInv, UnsentAbsent
<1>4. \A n \in Messages :
         OnItsWay(n) => Present(n)' /\ inbox'[n].lease \in {inbox[n].lease, NoLease}
  BY <1>1, StagedRows DEF OnItsWay, Present
<1>5. ASSUME NEW k \in Keys, Published(k)', ~SettledItem(k)'
      PROVE  Published(k) /\ ~SettledItem(k)
  <2>1. ~SettledItem(k)  BY <1>1, <1>5 DEF SettledItem, ledgerVars
  <2>2. PICK i \in JobIds : KeyOf[i] = k /\ cloud'[SentMessage(i)] # "unsent"
    BY <1>5 DEF Published
  <2>3. cloud[SentMessage(i)] # "unsent"
    BY <1>1, <2>2, MessagesOfJobs
  <2> QED  BY <2>1, <2>2, <2>3 DEF Published
<1>6. WorkInv'
  BY <1>1, <1>3, <1>4, <1>5, WorkersStay, MessageStepKeeps
<1>7. LeaseInv' /\ LedgerInv'
  <2>1. {m} \in SUBSET Messages  OBVIOUS
  <2>2. [InboxNext]_inboxVars  BY <1>1, <2>1 DEF InboxNext
  <2>3. [JobNext]_ledgerVars  BY <1>1
  <2> QED  BY <2>2, <2>3, StepKeepsLeases, StepKeepsInv DEF DispatchInv
<1> QED  BY <1>1, <1>2, <1>6, <1>7, WorkersStay DEF DispatchInv

\* A replayed letter: its item is open again, and its message in the inbox.
LEMMA ReplayKeeps ==
    ASSUME DispatchInv, NEW o \in ReplayKeys, NEW j \in JobIds, Replay(o, j)
    PROVE  DispatchInv'
<1> DEFINE n == ReplayMessage(j, o)
<1>1. n \in Messages /\ n.job = j  BY MessagesOfJobs
<1> HIDE DEF n
<1>2. /\ ReviveDead(j) /\ StageReplay(n) /\ inbox' = Staged({n})
      /\ UNCHANGED <<worker, grants>> /\ UNCHANGED effects
      /\ cloud[n] = "unsent" /\ cloud'[n] = "acked"
      /\ \A m \in Messages \ {n} : cloud'[m] = cloud[m]
  BY <1>1 DEF Replay, StageReplay, DispatchInv, LeaseInv, InboxTypeOK, n
<1>3. EffectTypeOK'  BY <1>2, EffectSteps DEF DispatchInv
<1>4. HistoryTypeOK'  BY DEF Replay, DispatchInv, HistoryTypeOK
<1>5. UnsentAbsent'
  BY <1>2, StagedRows DEF DispatchInv, WorkInv, UnsentAbsent
<1>6. \A m \in Messages :
         OnItsWay(m) => Present(m)' /\ inbox'[m].lease \in {inbox[m].lease, NoLease}
  BY <1>2, StagedRows DEF OnItsWay, Present
<1>7. Present(n)' /\ inbox'[n].lease = NoLease
  BY <1>1, <1>2, StagedRows DEF Present, DispatchInv, WorkInv, UnsentAbsent
<1>8. ASSUME NEW k \in Keys, Published(k)', ~SettledItem(k)'
      PROVE  \/ Published(k) /\ ~SettledItem(k)
             \/ \E m \in Messages : /\ KeyOf[m.job] = k /\ Present(m)'
                                    /\ inbox'[m].lease = NoLease
  <2>1. CASE k = KeyOf[j]  BY <1>1, <1>7, <2>1
  <2>2. CASE k # KeyOf[j]
    <3>1. jobs'[k] = jobs[k]
      BY <1>2, <2>2 DEF ReviveDead, DispatchInv, LedgerInv, JobTypeOK
    <3>2. ~SettledItem(k)  BY <1>8, <3>1 DEF SettledItem
    <3>3. PICK i \in JobIds : KeyOf[i] = k /\ cloud'[SentMessage(i)] # "unsent"
      BY <1>8 DEF Published
    <3>4. SentMessage(i) # n  BY <1>1, <2>2, <3>3, MessagesOfJobs
    <3>5. cloud[SentMessage(i)] # "unsent"
      BY <1>2, <3>3, <3>4, MessagesOfJobs
    <3> QED  BY <3>2, <3>3, <3>5 DEF Published
  <2> QED  BY <2>1, <2>2
<1>9. WorkInv'
  BY <1>2, <1>5, <1>6, <1>8, WorkersStay, MessageStepKeeps
<1>10. LeaseInv' /\ LedgerInv'
  <2>1. [InboxNext]_inboxVars  BY <1>1, <1>2 DEF InboxNext
  <2>2. [JobNext]_ledgerVars  BY <1>2 DEF JobNext
  <2> QED  BY <2>1, <2>2, StepKeepsLeases, StepKeepsInv DEF DispatchInv
<1> QED  BY <1>2, <1>3, <1>4, <1>9, <1>10, WorkersStay DEF DispatchInv

\* An effect is older by a tick, and never older than stale.
LEMMA EffectTickType == ASSUME EffectTypeOK, EffectTick PROVE EffectTypeOK'
<1>1. Stale \in Nat  BY LedgerAssumption
<1>2. ASSUME NEW e \in Effects
      PROVE  [effects[e] EXCEPT !.age =
                 IF effects[e].status = "processing" /\ @ <= Stale THEN @ + 1 ELSE @]
             \in EffectRow
  <2>1. effects[e] \in EffectRow  BY DEF EffectTypeOK
  <2>2. effects[e].age \in 0..(Stale + 1)  BY <2>1 DEF EffectRow
  <2>3. effects[e].age <= Stale => effects[e].age + 1 \in 0..(Stale + 1)
    BY <1>1, <2>2
  <2> QED  BY <2>1, <2>2, <2>3 DEF EffectRow
<1> QED  BY <1>2 DEF EffectTick, EffectTypeOK

\* The clock changes what nothing but timers say.
LEMMA TickKeeps == ASSUME DispatchInv, Tick PROVE DispatchInv'
<1>1. /\ InboxTick /\ JobTick /\ EffectTick
      /\ worker' = [w \in Workers |-> [worker[w] EXCEPT !.wait = IF @ = 0 THEN 0 ELSE @ - 1]]
      /\ overran' = (overran \/ ~OnTime)
      /\ UNCHANGED <<operations, sent, faults, refusals>>
  BY DEF Tick
<1>2. EffectTypeOK'
  BY <1>1, EffectTickType DEF DispatchInv
<1>3. HistoryTypeOK'
  BY <1>1 DEF DispatchInv, HistoryTypeOK
<1>4. \A w \in Workers :
         /\ worker'[w] \in Local
         /\ worker'[w].pc = worker[w].pc /\ worker'[w].word = worker[w].word
         /\ worker'[w].todo = worker[w].todo /\ worker'[w].cur = worker[w].cur
         /\ worker'[w].acks = worker[w].acks /\ worker'[w].retries = worker[w].retries
  <2> SUFFICES ASSUME NEW w \in Workers
               PROVE  /\ worker'[w] \in Local
                      /\ worker'[w].pc = worker[w].pc /\ worker'[w].word = worker[w].word
                      /\ worker'[w].todo = worker[w].todo /\ worker'[w].cur = worker[w].cur
                      /\ worker'[w].acks = worker[w].acks
                      /\ worker'[w].retries = worker[w].retries
    OBVIOUS
  <2>1. worker[w] \in Local  BY DEF DispatchInv, WorkerTypeOK
  <2>2. (IF worker[w].wait = 0 THEN 0 ELSE worker[w].wait - 1) \in 0..MaxWait
    <3>1. worker[w].wait \in 0..MaxWait  BY <2>1 DEF Local
    <3> QED  BY <3>1, LedgerAssumption
  <2>3. worker'[w] =
           [worker[w] EXCEPT !.wait = IF worker[w].wait = 0 THEN 0 ELSE worker[w].wait - 1]
    BY <1>1
  <2> QED  BY <2>1, <2>2, <2>3 DEF Local
<1>5. WorkerTypeOK'
  BY <1>1, <1>4 DEF WorkerTypeOK
<1>6. /\ \A l \in Leases : grants'[l].message = grants[l].message
      /\ \A m \in Messages : /\ inbox'[m].lease = inbox[m].lease
                             /\ inbox'[m].status = inbox[m].status
      /\ cloud' = cloud
  BY <1>1 DEF InboxTick, DispatchInv, LeaseInv, InboxTypeOK, InboxRow, Grant
<1>7. \A v \in Workers : HeldLeases(v)' = HeldLeases(v)
  BY <1>4 DEF HeldLeases, HeldBy
<1>8. \A v \in Workers :
         /\ HeldLeases(v)' \subseteq HeldLeases(v)
         /\ worker'[v].acks \subseteq worker[v].acks
         /\ worker'[v].pc \notin {"idle", "next"} => worker'[v].cur # NoLease
         /\ worker'[v].pc = "record" => worker'[v].word \in Outcomes
         /\ \A l \in HeldLeases(v)' : grants'[l].message = grants[l].message
  BY <1>4, <1>6, <1>7, HeldAreLeases DEF DispatchInv, WorkInv, HoldersKnow
<1>9. UnsentAbsent'
  BY <1>6 DEF DispatchInv, WorkInv, UnsentAbsent
<1>10. \A m \in Messages :
         OnItsWay(m) => Present(m)' /\ inbox'[m].lease \in {inbox[m].lease, NoLease}
  BY <1>6 DEF OnItsWay, Present
<1>11. \A k \in Keys : jobs'[k].status = jobs[k].status
  BY <1>1 DEF JobTick, Older, DispatchInv, LedgerInv, JobTypeOK, JobRow
<1>12. \A k \in Keys : Published(k)' /\ ~SettledItem(k)' => Published(k) /\ ~SettledItem(k)
  BY <1>6, <1>11 DEF Published, SettledItem
<1>13. WorkInv'
  BY <1>8, <1>9, <1>10, <1>12, MessageStepKeeps
<1>14. LeaseInv' /\ LedgerInv'
  <2>1. [InboxNext]_inboxVars  BY <1>1 DEF InboxNext
  <2>2. [JobNext]_ledgerVars  BY <1>1 DEF JobNext
  <2> QED  BY <2>1, <2>2, StepKeepsLeases, StepKeepsInv DEF DispatchInv
<1> QED  BY <1>2, <1>3, <1>5, <1>13, <1>14 DEF DispatchInv

-----------------------------------------------------------------------------
(* A worker that lets go of its batch *)

LEMMA IdleLocal ==
    /\ Idle \in Local /\ Idle.pc = "idle" /\ Idle.acks = {} /\ HeldBy(Idle) = {}
<1>1. 0 \in 0..MaxWait  BY LedgerAssumption
<1> QED  BY <1>1 DEF Idle, Local, HeldBy

\* What the worker forgets is nobody else's; what rows it deletes were about to
\* be acknowledged.
LEMMA LetGoKeeps ==
    ASSUME DispatchInv, NEW w \in Workers, worker' = [worker EXCEPT ![w] = Idle],
           NEW ls \in SUBSET HeldLeases(w), grants' = Forgotten(ls),
           UNCHANGED ledgerVars, UNCHANGED cloud, [InboxNext]_inboxVars,
           \A m \in Messages :
              \/ inbox'[m] = inbox[m]
              \/ inbox'[m].status # "absent" /\ inbox'[m].lease = NoLease
                    /\ inbox[m].status # "absent"
              \/ inbox[m].lease \in worker[w].acks,
           EffectTypeOK', HistoryTypeOK'
    PROVE  DispatchInv'
<1>1. worker'[w] = Idle /\ \A v \in Workers \ {w} : worker'[v] = worker[v]
  BY DEF DispatchInv, WorkerTypeOK
<1>2. WorkerTypeOK'
  BY IdleLocal DEF DispatchInv, WorkerTypeOK
<1>3. HeldLeases(w)' = {} /\ \A v \in Workers \ {w} : HeldLeases(v)' = HeldLeases(v)
  BY <1>1, IdleLocal DEF HeldLeases
<1>4. ASSUME NEW v \in Workers, NEW l \in HeldLeases(v)'
      PROVE  grants'[l].message = grants[l].message
  <2>1. v # w /\ l \in HeldLeases(v) /\ l \in Leases
    BY <1>3, <1>4, HeldAreLeases DEF DispatchInv
  <2>2. l \notin ls
    BY <2>1 DEF DispatchInv, WorkInv, HeldByOne
  <2> QED  BY <2>1, <2>2 DEF Forgotten
<1>5. \A v \in Workers :
         /\ HeldLeases(v)' \subseteq HeldLeases(v)
         /\ worker'[v].acks \subseteq worker[v].acks
         /\ worker'[v].pc \notin {"idle", "next"} => worker'[v].cur # NoLease
         /\ worker'[v].pc = "record" => worker'[v].word \in Outcomes
         /\ \A l \in HeldLeases(v)' : grants'[l].message = grants[l].message
  BY <1>1, <1>3, <1>4, IdleLocal DEF DispatchInv, WorkInv, HoldersKnow
<1>6. UnsentAbsent'
  <2> SUFFICES ASSUME NEW m \in Messages, cloud[m] = "unsent"
               PROVE  inbox'[m].status = "absent"
    BY DEF UnsentAbsent
  <2>1. inbox[m].status = "absent" /\ inbox[m].lease = NoLease
    BY DEF DispatchInv, WorkInv, UnsentAbsent, LeaseInv, LeaseNamesRow
  <2>2. NoLease \notin worker[w].acks
    BY InboxAssumption DEF DispatchInv, WorkerTypeOK, Local
  <2> QED  BY <2>1, <2>2
<1>7. \A m \in Messages :
         OnItsWay(m) => Present(m)' /\ inbox'[m].lease \in {inbox[m].lease, NoLease}
  BY DEF OnItsWay, Present, ToBeAcked
<1>8. \A k \in Keys : Published(k)' /\ ~SettledItem(k)' => Published(k) /\ ~SettledItem(k)
  BY DEF Published, SettledItem, ledgerVars
<1>9. WorkInv'
  BY <1>5, <1>6, <1>7, <1>8, MessageStepKeeps
<1>10. LeaseInv' /\ LedgerInv'
  BY StepKeepsLeases, StepKeepsInv DEF DispatchInv
<1> QED  BY <1>2, <1>9, <1>10 DEF DispatchInv

\* The leases of a worker are ids that clients hold.
LEMMA HeldAreHeld ==
    ASSUME DispatchInv, NEW w \in Workers PROVE HeldLeases(w) \in SUBSET Held
<1>1. ASSUME NEW l \in HeldLeases(w) PROVE l \in Held
  BY <1>1, HeldAreLeases, InboxAssumption
  DEF DispatchInv, WorkInv, HoldersKnow, Held, NoGrant
<1> QED  BY <1>1

\* A batch that is never settled: its rows wait for their leases to run out.
LEMMA AbandonKeeps ==
    ASSUME DispatchInv, NEW w \in Workers, Abandon(w), HistoryTypeOK'
    PROVE  DispatchInv'
<1>1. /\ Forget(HeldLeases(w)) /\ worker' = [worker EXCEPT ![w] = Idle]
      /\ UNCHANGED ledgerVars /\ UNCHANGED effects
  BY DEF Abandon, HeldLeases, HeldBy
<1>2. /\ grants' = Forgotten(HeldLeases(w)) /\ UNCHANGED cloud /\ UNCHANGED inbox
  BY <1>1 DEF Forget
<1>3. [InboxNext]_inboxVars
  BY <1>1, HeldAreHeld DEF InboxNext
<1>4. EffectTypeOK'  BY <1>1, EffectSteps DEF DispatchInv
<1>5. HeldLeases(w) \in SUBSET HeldLeases(w)  OBVIOUS
<1> QED  BY <1>1, <1>2, <1>3, <1>4, <1>5, LetGoKeeps

LEMMA CrashKeeps ==
    ASSUME DispatchInv, NEW w \in Workers, Crash(w) \/ FailUnclaimed(w)
    PROVE  DispatchInv'
<1>1. HistoryTypeOK'
  BY HistorySteps DEF Crash, FailUnclaimed, DispatchInv
<1> QED  BY <1>1, AbandonKeeps DEF Crash, FailUnclaimed

\* The settlement of a batch deletes the rows of its acks and queues those of
\* its retries, as far as they still carry these leases.
LEMMA SettleWorkKeeps ==
    ASSUME DispatchInv, NEW w \in Workers, SettleWork(w) PROVE DispatchInv'
<1> DEFINE acks == worker[w].acks
           retries == worker[w].retries
<1>1. /\ SettleBatch(acks, retries, MaxDelay) /\ worker' = [worker EXCEPT ![w] = Idle]
      /\ UNCHANGED ledgerVars /\ UNCHANGED effects /\ UNCHANGED pipeVars
  BY DEF SettleWork
<1>2. acks \subseteq HeldLeases(w) /\ retries \subseteq HeldLeases(w)
  BY DEF HeldLeases, HeldBy
<1> HIDE DEF acks, retries
<1>3. acks \cup retries \in SUBSET HeldLeases(w) /\ grants' = Forgotten(acks \cup retries)
  BY <1>1, <1>2 DEF SettleBatch
<1>4. UNCHANGED cloud  BY <1>1 DEF SettleBatch, Settle
<1>5. [InboxNext]_inboxVars
  <2>1. acks \in SUBSET Held /\ retries \in SUBSET Held
    BY <1>2, HeldAreHeld
  <2>2. MaxDelay \in 0..MaxDelay  BY InboxAssumption
  <2> QED  BY <1>1, <2>1, <2>2 DEF InboxNext
<1>6. ASSUME NEW m \in Messages
      PROVE  \/ inbox'[m] = inbox[m]
             \/ inbox'[m].status # "absent" /\ inbox'[m].lease = NoLease
                   /\ inbox[m].status # "absent"
             \/ inbox[m].lease \in acks
  <2>1. CASE inbox[m].lease \in retries /\ inbox[m].lease \notin acks
    <3>1. inbox'[m] = QueuedRow(MaxDelay)
      BY <1>1, <2>1 DEF SettleBatch, Settle
    <3>2. inbox[m].status = "leased"
      BY <1>2, <2>1, HeldAreLeases, InboxAssumption DEF DispatchInv, LeaseInv, LeaseNamesRow
    <3> QED  BY <3>1, <3>2 DEF QueuedRow
  <2>2. CASE inbox[m].lease \notin retries \cup acks
    BY <1>1, <2>2 DEF SettleBatch, Settle
  <2> QED  BY <2>1, <2>2
<1>7. EffectTypeOK' /\ HistoryTypeOK'
  BY <1>1, EffectSteps, HistorySteps DEF DispatchInv
<1> QED  BY <1>1, <1>3, <1>4, <1>5, <1>6, <1>7, LetGoKeeps DEF acks

-----------------------------------------------------------------------------
(* The steps of processQueueBatch *)

\* A pull gives the worker fresh lease ids, and takes an id from a row only
\* when its time is up.
LEMMA PullKeeps ==
    ASSUME DispatchInv, NEW w \in Workers, PullBatch(w) PROVE DispatchInv'
<1>1. PICK ms \in SUBSET Messages \ {{}} : \E leaseOf \in Numberings(ms) :
         /\ Pull(ms, leaseOf)
         /\ worker' = [worker EXCEPT ![w] =
                          [Idle EXCEPT !.pc = "next", !.todo = {leaseOf[m] : m \in ms}]]
  BY DEF PullBatch
<1>2. PICK leaseOf \in Numberings(ms) :
         /\ Pull(ms, leaseOf)
         /\ worker' = [worker EXCEPT ![w] =
                          [Idle EXCEPT !.pc = "next", !.todo = {leaseOf[m] : m \in ms}]]
  BY <1>1
<1>3. /\ UNCHANGED ledgerVars /\ UNCHANGED effects /\ UNCHANGED pipeVars
      /\ worker[w].pc = "idle"
  BY DEF PullBatch
<1> DEFINE new   == {leaseOf[m] : m \in ms}
           local == [Idle EXCEPT !.pc = "next", !.todo = new]
<1>4. \A m \in ms : leaseOf[m] \in FreshLeases /\ leaseOf[m] \in Leases
  BY DEF Numberings, FreshLeases
<1>5. new \subseteq Leases  BY <1>4
<1>6. \A v \in Workers : HeldLeases(v) \cap new = {}
  <2> SUFFICES ASSUME NEW v \in Workers, NEW m \in ms, leaseOf[m] \in HeldLeases(v)
               PROVE  FALSE
    OBVIOUS
  <2>1. grants[leaseOf[m]] = NoGrant  BY <1>4 DEF FreshLeases
  <2>2. grants[leaseOf[m]].message \in Messages
    BY DEF DispatchInv, WorkInv, HoldersKnow
  <2> QED  BY <2>1, <2>2, InboxAssumption DEF NoGrant
<1>7. /\ local \in Local /\ local.pc = "next" /\ local.acks = {} /\ HeldBy(local) = new
  <2> HIDE DEF new
  <2>1. Idle \in Local /\ Idle.acks = {} /\ Idle.retries = {} /\ Idle.cur = NoLease
    BY IdleLocal DEF Idle
  <2>2. /\ local.acks = {} /\ local.retries = {} /\ local.cur = NoLease
        /\ local.todo = new /\ local.pc = "next"
    BY <2>1 DEF Idle
  <2>3. local \in Local  BY <1>5, <2>1 DEF Local
  <2> QED  BY <2>2, <2>3 DEF HeldBy
<1>8. worker' = [worker EXCEPT ![w] = local]  BY <1>2
<1> HIDE DEF local
<1>9. worker'[w] = local /\ \A v \in Workers \ {w} : worker'[v] = worker[v]
  BY <1>8 DEF DispatchInv, WorkerTypeOK
<1>10. WorkerTypeOK'
  BY <1>7, <1>8 DEF DispatchInv, WorkerTypeOK
<1>11. HeldLeases(w)' = new /\ \A v \in Workers \ {w} : HeldLeases(v)' = HeldLeases(v)
  BY <1>7, <1>9 DEF HeldLeases
<1>12. \A l \in Leases :
          /\ l \in new => grants'[l].message \in Messages
          /\ l \notin new => grants'[l] = grants[l]
  <2> SUFFICES ASSUME NEW l \in Leases
               PROVE  /\ l \in new => grants'[l].message \in Messages
                      /\ l \notin new => grants'[l] = grants[l]
    OBVIOUS
  <2>1. ASSUME NEW m \in ms, leaseOf[m] = l PROVE grants'[l].message \in Messages
    <3>1. grants'[l] = [message |-> CHOOSE n \in ms : leaseOf[n] = l, left |-> Visibility]
      BY <1>2, <2>1 DEF Pull
    <3>2. (CHOOSE n \in ms : leaseOf[n] = l) \in ms  BY <2>1
    <3> QED  BY <3>1, <3>2
  <2>2. ASSUME ~ \E m \in ms : leaseOf[m] = l PROVE grants'[l] = grants[l]
    BY <1>2, <2>2 DEF Pull
  <2> QED  BY <2>1, <2>2
<1> HIDE DEF new
<1>13. HeldByOne'
  BY <1>6, <1>11 DEF DispatchInv, WorkInv, HeldByOne
<1>14. HoldersKnow'
  <2>1. ASSUME NEW v \in Workers, NEW l \in HeldLeases(v)'
        PROVE  grants'[l].message \in Messages
    <3>1. CASE v = w
      BY <1>5, <1>11, <1>12, <2>1, <3>1
    <3>2. CASE v # w
      <4>1. l \in HeldLeases(v) /\ l \in Leases /\ l \notin new
        BY <1>6, <1>11, <2>1, <3>2, HeldAreLeases DEF DispatchInv
      <4> QED  BY <1>12, <4>1 DEF DispatchInv, WorkInv, HoldersKnow
    <3> QED  BY <3>1, <3>2
  <2>2. ASSUME NEW v \in Workers
        PROVE  /\ worker'[v].pc \notin {"idle", "next"} => worker'[v].cur # NoLease
               /\ worker'[v].pc = "record" => worker'[v].word \in Outcomes
    BY <1>7, <1>9 DEF DispatchInv, WorkInv, HoldersKnow
  <2> QED  BY <2>1, <2>2 DEF HoldersKnow
<1>15. \A m \in Messages :
          /\ inbox[m].status = "absent" <=> inbox'[m].status = "absent"
          /\ inbox'[m].lease \in {inbox[m].lease, NoLease} \cup new
          /\ cloud'[m] = cloud[m]
  <2> SUFFICES ASSUME NEW m \in Messages
               PROVE  /\ inbox[m].status = "absent" <=> inbox'[m].status = "absent"
                      /\ inbox'[m].lease \in {inbox[m].lease, NoLease} \cup new
                      /\ cloud'[m] = cloud[m]
    OBVIOUS
  <2>1. inbox'[m] = IF m \in ms THEN LeasedRow(leaseOf[m]) ELSE Expired[m]
    BY <1>2 DEF Pull
  <2>2. CASE m \in ms
    <3>1. Expired[m].status = "queued"  BY <1>2, <2>2 DEF Pull, PullSize, Available
    <3>2. inbox[m].status # "absent"  BY <3>1 DEF Expired
    <3> QED  BY <1>2, <2>1, <2>2, <3>2 DEF LeasedRow, Pull, new
  <2>3. CASE m \notin ms
    BY <1>2, <2>1, <2>3 DEF Expired, QueuedRow, Pull
  <2> QED  BY <2>2, <2>3
<1>16. UnsentAbsent'
  BY <1>15 DEF DispatchInv, WorkInv, UnsentAbsent
<1>17. ToBeAcked' \subseteq ToBeAcked /\ ToBeAcked \cap ({NoLease} \cup new) = {}
  <2>1. \A v \in Workers : worker'[v].acks \subseteq worker[v].acks
    BY <1>7, <1>9
  <2>2. \A v \in Workers : /\ worker[v].acks \subseteq HeldLeases(v)
                           /\ NoLease \notin worker[v].acks
    BY InboxAssumption DEF HeldLeases, HeldBy, DispatchInv, WorkerTypeOK, Local
  <2> QED  BY <1>6, <2>1, <2>2 DEF ToBeAcked
<1>18. ItemOnItsWay'
  <2> SUFFICES ASSUME NEW k \in Keys, Published(k)', ~SettledItem(k)'
               PROVE  \E m \in Messages : KeyOf[m.job] = k /\ OnItsWay(m)'
    BY DEF ItemOnItsWay
  <2>1. Published(k) /\ ~SettledItem(k)
    BY <1>2, <1>3 DEF Published, SettledItem, ledgerVars, Pull
  <2> PICK m \in Messages : KeyOf[m.job] = k /\ OnItsWay(m)
    BY <2>1 DEF DispatchInv, WorkInv, ItemOnItsWay
  <2>2. OnItsWay(m)'
    BY <1>15, <1>17 DEF OnItsWay
  <2> QED  BY <2>2
<1>19. LeaseInv' /\ LedgerInv'
  <2>1. [InboxNext]_inboxVars  BY <1>2 DEF InboxNext
  <2>2. [JobNext]_ledgerVars  BY <1>3
  <2> QED  BY <2>1, <2>2, StepKeepsLeases, StepKeepsInv DEF DispatchInv
<1>20. EffectTypeOK' /\ HistoryTypeOK'
  BY <1>3, EffectSteps, HistorySteps DEF DispatchInv
<1> QED
  BY <1>10, <1>13, <1>14, <1>16, <1>18, <1>19, <1>20 DEF DispatchInv, WorkInv

\* An answered job is acknowledged only when its row is settled.
LEMMA AnswerKeeps ==
    ASSUME DispatchInv, NEW w \in Workers, NEW l \in HeldLeases(w),
           NEW s \in {"ack", "retry"}, Step(w, Answered(w, l, s)),
           s = "ack" => jobs'[KeyOf[grants[l].message.job]].status \in Terminal,
           SettledStays, [JobNext]_ledgerVars, EffectTypeOK', HistoryTypeOK'
    PROVE  DispatchInv'
<1> DEFINE local == Answered(w, l, s)
<1>1. WorkerTypeOK  BY DEF DispatchInv
<1>2. /\ local \in Local /\ local.pc = "next"
      /\ local.acks \subseteq worker[w].acks \cup {l}
      /\ s = "retry" => local.acks = worker[w].acks
      /\ HeldBy(local) \subseteq HeldLeases(w)
  BY <1>1, AnsweredLocal
<1>3. worker' = [worker EXCEPT ![w] = local] /\ UNCHANGED inboxVars
  BY DEF Step
<1> HIDE DEF local
<1>4. GoesOn(w, local)
  BY <1>2, <1>3 DEF GoesOn
<1> QED  BY <1>3, <1>4, LocalStepKeeps

LEMMA ChosenLease ==
    ASSUME NEW w, NEW l, Choosing(w, l) PROVE l \in HeldLeases(w)
BY DEF Choosing, HeldLeases, HeldBy

LEMMA DeferAcceptanceKeeps ==
    ASSUME DispatchInv, NEW w \in Workers, NEW l \in Leases, DeferAcceptance(w, l)
    PROVE  DispatchInv'
<1>1. Step(w, Answered(w, l, "retry")) /\ UNCHANGED ledgerVars /\ UNCHANGED effects
  BY DEF DeferAcceptance
<1>2. l \in HeldLeases(w)  BY ChosenLease DEF DeferAcceptance
<1>3. EffectTypeOK' /\ HistoryTypeOK'
  BY <1>1, EffectSteps, HistorySteps DEF DeferAcceptance, DispatchInv
<1> QED  BY <1>1, <1>2, <1>3, LedgerUntouched, AnswerKeeps

LEMMA SkipJobKeeps ==
    ASSUME DispatchInv, NEW w \in Workers, NEW l \in Leases, SkipJob(w, l)
    PROVE  DispatchInv'
<1> DEFINE k == KeyOf[grants[l].message.job]
           s == IF AckOnClaim(jobs[k]) THEN "ack" ELSE "retry"
<1>1. /\ Step(w, Answered(w, l, s)) /\ UNCHANGED ledgerVars
      /\ UNCHANGED effects /\ UNCHANGED pipeVars
  BY DEF SkipJob
<1>2. l \in HeldLeases(w)  BY ChosenLease DEF SkipJob
<1>3. s = "ack" => jobs'[k].status \in Terminal
  BY <1>1 DEF AckOnClaim, Duplicate, ledgerVars
<1>4. EffectTypeOK' /\ HistoryTypeOK'
  BY <1>1, EffectSteps, HistorySteps DEF DispatchInv
<1>5. s \in {"ack", "retry"}  OBVIOUS
<1> HIDE DEF s
<1> QED  BY <1>1, <1>2, <1>3, <1>4, <1>5, LedgerUntouched, AnswerKeeps

\* A claim takes a row that is open or new.
LEMMA StartJobKeeps ==
    ASSUME DispatchInv, NEW w \in Workers, NEW l \in Leases, StartJob(w, l)
    PROVE  DispatchInv'
<1> DEFINE j == grants[l].message.job
           k == KeyOf[j]
           pc == IF k \in ArticleKeys /\ EffectsOf(k) # {} THEN "begin" ELSE "effect"
           local == [worker[w] EXCEPT !.pc = pc, !.todo = @ \ {l}, !.cur = l,
                                      !.left = EffectsOf(k)]
<1>1. /\ ClaimJob(j) /\ Step(w, local) /\ UNCHANGED effects /\ UNCHANGED pipeVars
      /\ l \in worker[w].todo
  BY DEF StartJob, Choosing
<1>2. l \in HeldLeases(w) /\ j \in JobIds /\ k \in Keys
  <2>1. l \in HeldLeases(w)  BY ChosenLease DEF StartJob
  <2>2. grants[l].message \in Messages
    BY <2>1 DEF DispatchInv, WorkInv, HoldersKnow
  <2> QED  BY <2>1, <2>2, MessagesOfJobs
<1>3. EffectsOf(k) \subseteq Effects /\ pc \in {"begin", "effect"}
  BY DEF EffectsOf
<1> HIDE DEF pc
<1>4. /\ local.pc = pc /\ local.cur = l /\ local.acks = worker[w].acks
      /\ local.retries = worker[w].retries /\ local.todo = worker[w].todo \ {l}
      /\ local \in Local
  BY <1>3 DEF DispatchInv, WorkerTypeOK, Local
<1> HIDE DEF local
<1>5. HeldBy(local) \subseteq HeldLeases(w) /\ local.cur # NoLease
  BY <1>1, <1>4, InboxAssumption DEF HeldBy, HeldLeases
<1>6. worker' = [worker EXCEPT ![w] = local] /\ UNCHANGED inboxVars
  BY <1>1 DEF Step
<1>7. GoesOn(w, local)
  BY <1>3, <1>4, <1>5, <1>6 DEF GoesOn
<1>8. SettledStays
  <2>1. jobs[k].status \notin Terminal
    BY <1>1 DEF ClaimJob, Claimable, Duplicate
  <2>2. \A i \in Keys \ {k} : jobs'[i] = jobs[i]
    BY <1>1 DEF ClaimJob, DispatchInv, LedgerInv, JobTypeOK
  <2> QED  BY <1>2, <2>1, <2>2 DEF SettledStays, SettledItem
<1>9. [JobNext]_ledgerVars
  <2> HIDE DEF j, k
  <2> QED  BY <1>1, <1>2 DEF JobNext
<1>10. EffectTypeOK' /\ HistoryTypeOK'
  BY <1>1, EffectSteps, HistorySteps DEF DispatchInv
<1> QED  BY <1>6, <1>7, <1>8, <1>9, <1>10, LocalStepKeeps

\* What finishJob does to the rows: it changes one, while it is open, and one
\* that is not open any more stays.
LEMMA FinishedRow ==
    ASSUME DispatchInv, NEW j \in JobIds,
           \/ \E word, wait : FinishAs(j, word, wait)
           \/ \E permanent : FinishFailed(j, permanent)
           \/ FinishAgain(j)
    PROVE  SettledStays
<1>1. KeyOf[j] \in Keys  BY LedgerAssumption
<1>2. LedgerInv /\ JobTypeOK  BY DEF DispatchInv, LedgerInv
<1>3. CASE FinishAgain(j)
  BY <1>3, LedgerUntouched DEF FinishAgain
<1>4. CASE ~FinishAgain(j)
  <2>1. jobs[KeyOf[j]].status \in Open /\ \A k \in Keys \ {KeyOf[j]} : jobs'[k] = jobs[k]
    BY <1>2, <1>4
    DEF FinishAs, FinishDone, FinishUncertain, FinishDeferred, FinishFailed, Opened, JobTypeOK
  <2>2. jobs[KeyOf[j]].status \notin Terminal
    BY <2>1 DEF Open, Terminal
  <2> QED  BY <1>1, <1>2, <2>1, <2>2, OpenRowChanged
<1> QED  BY <1>3, <1>4

\* A new status of a row.
LEMMA NewStatus ==
    ASSUME JobTypeOK, NEW j \in JobIds
    PROVE  /\ FinishDone(j) => jobs'[KeyOf[j]].status = "done"
           /\ FinishUncertain(j) => jobs'[KeyOf[j]].status = "uncertain"
           /\ \A permanent \in BOOLEAN :
                 FinishFailed(j, permanent) /\ Fatal(jobs[KeyOf[j]], permanent) =>
                    jobs'[KeyOf[j]].status = "dead"
           /\ FinishAgain(j) => jobs'[KeyOf[j]].status \in Terminal
           /\ Opened(j) => ~FinishAgain(j)
<1>1. KeyOf[j] \in Keys /\ jobs[KeyOf[j]] \in JobRow
  BY LedgerAssumption DEF JobTypeOK
<1>2. FinishDone(j) => jobs'[KeyOf[j]].status = "done"
  BY <1>1 DEF FinishDone, JobTypeOK, JobRow
<1>3. FinishUncertain(j) => jobs'[KeyOf[j]].status = "uncertain"
  BY <1>1 DEF FinishUncertain, JobTypeOK, JobRow
<1>4. ASSUME NEW permanent \in BOOLEAN, FinishFailed(j, permanent),
             Fatal(jobs[KeyOf[j]], permanent)
      PROVE  jobs'[KeyOf[j]].status = "dead"
  BY <1>1, <1>4 DEF FinishFailed, JobTypeOK, JobRow
<1>5. FinishAgain(j) => jobs'[KeyOf[j]].status \in Terminal
  BY DEF FinishAgain, Settled, ledgerVars
<1>6. Opened(j) => ~FinishAgain(j)
  BY DEF Opened, FinishAgain, Settled, Open, Terminal
<1> QED  BY <1>2, <1>3, <1>4, <1>5, <1>6

LEMMA FinishJobKeeps ==
    ASSUME DispatchInv, NEW w \in Workers, FinishJob(w) PROVE DispatchInv'
<1> DEFINE j == JobAt(w)
           l == worker[w].cur
           word == worker[w].word
           s == IF word = "deferred" /\ Opened(j) THEN "retry" ELSE "ack"
<1>1. /\ worker[w].pc = "finish"
      /\ FinishAs(j, word, worker[w].wait) \/ FinishAgain(j)
      /\ \/ Step(w, Answered(w, l, s)) /\ UNCHANGED pipeVars
         \/ Fault /\ Step(w, Thrown(w, "retryable"))
      /\ UNCHANGED effects
  BY DEF FinishJob
<1>2. l \in HeldLeases(w) /\ j \in JobIds /\ KeyOf[j] \in Keys
  BY <1>1, AtHand DEF KeyAt
<1>3. SettledStays  BY <1>1, <1>2, FinishedRow
<1>4. [JobNext]_ledgerVars
  <2>1. worker[w].wait \in 0..MaxWait
    BY DEF DispatchInv, WorkerTypeOK, Local
  <2> HIDE DEF j
  <2> QED  BY <1>1, <1>2, <2>1 DEF FinishAs, JobNext
<1>5. EffectTypeOK' /\ HistoryTypeOK'
  BY <1>1, EffectSteps, HistorySteps DEF DispatchInv
<1>6. CASE Step(w, Answered(w, l, s))
  <2>1. s = "ack" => jobs'[KeyOf[j]].status \in Terminal
    <3> HIDE DEF j
    <3>1. JobTypeOK  BY DEF DispatchInv, LedgerInv
    <3>2. CASE FinishAs(j, word, worker[w].wait)
      <4>1. Opened(j)
        BY <3>2 DEF FinishAs, FinishDone, FinishUncertain, FinishDeferred
      <4> QED
        BY <1>2, <3>1, <3>2, <4>1, NewStatus DEF FinishAs, Terminal
    <3>3. CASE FinishAgain(j)
      BY <1>2, <3>1, <3>3, NewStatus
    <3> QED  BY <1>1, <3>2, <3>3
  <2>2. KeyOf[j] = KeyOf[grants[l].message.job]  BY DEF JobAt
  <2>3. s \in {"ack", "retry"}  OBVIOUS
  <2> HIDE DEF s, j, l
  <2> QED  BY <1>2, <1>3, <1>4, <1>5, <1>6, <2>1, <2>2, <2>3, AnswerKeeps
<1>7. CASE Step(w, Thrown(w, "retryable"))
  <2> DEFINE local == Thrown(w, "retryable")
  <2>1. WorkerTypeOK  BY DEF DispatchInv
  <2>2. /\ local \in Local /\ local.pc = "fail" /\ local.acks = worker[w].acks
        /\ local.cur = worker[w].cur /\ HeldBy(local) = HeldLeases(w)
    BY <2>1, ThrownLocal
  <2>3. worker' = [worker EXCEPT ![w] = local] /\ UNCHANGED inboxVars
    BY <1>7 DEF Step
  <2> HIDE DEF local
  <2>4. GoesOn(w, local)
    BY <1>1, <2>2, <2>3, HandlerGoesOn
  <2> QED  BY <1>3, <1>4, <1>5, <2>3, <2>4, LocalStepKeeps
<1> QED  BY <1>1, <1>6, <1>7

LEMMA FailJobKeeps ==
    ASSUME DispatchInv, NEW w \in Workers, FailJob(w) PROVE DispatchInv'
<1> DEFINE j == JobAt(w)
           l == worker[w].cur
           permanent == worker[w].word = "permanent"
           s == IF Opened(j) /\ ~Fatal(jobs[KeyOf[j]], permanent) THEN "retry" ELSE "ack"
<1>1. /\ worker[w].pc = "fail"
      /\ FinishFailed(j, permanent) \/ FinishAgain(j)
      /\ Step(w, Answered(w, l, s))
      /\ UNCHANGED effects /\ UNCHANGED pipeVars
  BY DEF FailJob
<1>2. l \in HeldLeases(w) /\ j \in JobIds /\ KeyOf[j] \in Keys
  BY <1>1, AtHand DEF KeyAt
<1>3. permanent \in BOOLEAN  OBVIOUS
<1>4. KeyOf[j] = KeyOf[grants[l].message.job]  BY DEF JobAt
<1>5. s \in {"ack", "retry"}  OBVIOUS
<1> HIDE DEF j, l, permanent
<1>6. SettledStays  BY <1>1, <1>2, FinishedRow
<1>7. [JobNext]_ledgerVars  BY <1>1, <1>2, <1>3 DEF JobNext
<1>8. EffectTypeOK' /\ HistoryTypeOK'
  BY <1>1, EffectSteps, HistorySteps DEF DispatchInv
<1>9. s = "ack" => jobs'[KeyOf[j]].status \in Terminal
  <2>1. JobTypeOK  BY DEF DispatchInv, LedgerInv
  <2>2. CASE FinishFailed(j, permanent)
    <3>1. Opened(j)  BY <2>2 DEF FinishFailed
    <3> QED  BY <1>2, <1>3, <2>1, <2>2, <3>1, NewStatus DEF Terminal
  <2>3. CASE FinishAgain(j)
    BY <1>2, <2>1, <2>3, NewStatus
  <2> QED  BY <1>1, <2>2, <2>3
<1> HIDE DEF s
<1> QED  BY <1>1, <1>2, <1>4, <1>5, <1>6, <1>7, <1>8, <1>9, AnswerKeeps

-----------------------------------------------------------------------------
(* What is done was written *)

WrittenFor(k) ==
    /\ \A e \in EffectsOf(k) : sent[e] > 0
    /\ FollowUp[k] # NoKey => Published(FollowUp[k])

\* what the ledger has recorded as done was written
RecordedWritten == \A e \in Effects : EffectDone(e) => sent[e] > 0

\* A worker in the loop has written to what is not left to do, a success it
\* records is one, and what it returns as done is.
InLoop == {"begin", "effect", "deliver", "record"}
WorkTrue(w) ==
    /\ worker[w].pc \in {"deliver", "record"} => worker[w].at \in Effects
    /\ worker[w].pc = "record" /\ worker[w].word = "ok" => sent[worker[w].at] > 0
    /\ worker[w].pc \in InLoop =>
          \A e \in EffectsOf(KeyAt(w)) \ worker[w].left : sent[e] > 0
    /\ worker[w].pc = "finish" /\ worker[w].word = "done" => WrittenFor(KeyAt(w))

WriteInv ==
    RecordedWritten /\ (\A w \in Workers : WorkTrue(w)) /\ DoneMeansWritten

\* a worker that stays at the same work
SameWork(v) ==
    /\ worker'[v].pc = worker[v].pc /\ worker'[v].cur = worker[v].cur
    /\ worker'[v].left = worker[v].left /\ worker'[v].at = worker[v].at
    /\ worker'[v].word = worker[v].word
    /\ worker[v].pc \notin {"idle", "next"} =>
          grants'[worker[v].cur].message = grants[worker[v].cur].message

\* nothing written or published is taken back
NothingTaken ==
    /\ \A e \in Effects : sent[e] > 0 => sent'[e] > 0
    /\ \A m \in Messages : cloud[m] # "unsent" => cloud'[m] # "unsent"

LEMMA WrittenStays ==
    ASSUME NothingTaken, NEW k, WrittenFor(k) PROVE WrittenFor(k)'
<1>1. \A e \in EffectsOf(k) : e \in Effects  BY DEF EffectsOf
<1>2. Published(FollowUp[k]) => Published(FollowUp[k])'
  BY MessagesOfJobs DEF Published, NothingTaken
<1>3. EffectsOf(k)' = EffectsOf(k)  BY DEF EffectsOf
<1> QED  BY <1>1, <1>2, <1>3 DEF WrittenFor, NothingTaken

LEMMA WorkStays ==
    ASSUME NothingTaken, NEW v \in Workers, SameWork(v), WorkTrue(v) PROVE WorkTrue(v)'
<1>1. worker[v].pc \notin {"idle", "next"} => KeyAt(v)' = KeyAt(v)
  BY DEF SameWork, KeyAt, JobAt
<1>2. \A k : EffectsOf(k) \subseteq Effects /\ EffectsOf(k)' = EffectsOf(k)
  BY DEF EffectsOf
<1>3. worker[v].pc \in InLoop =>
         \A e \in EffectsOf(KeyAt(v)') \ worker[v].left : sent'[e] > 0
  <2> SUFFICES ASSUME worker[v].pc \in InLoop,
                      NEW e \in EffectsOf(KeyAt(v)') \ worker[v].left
               PROVE  sent'[e] > 0
    OBVIOUS
  <2>1. KeyAt(v)' = KeyAt(v)  BY <1>1 DEF InLoop
  <2>2. e \in EffectsOf(KeyAt(v)) \ worker[v].left /\ e \in Effects
    BY <1>2, <2>1
  <2> QED  BY <2>2 DEF WorkTrue, NothingTaken
<1>4. worker[v].pc = "finish" /\ worker[v].word = "done" => WrittenFor(KeyAt(v))'
  <2> SUFFICES ASSUME worker[v].pc = "finish", worker[v].word = "done"
               PROVE  WrittenFor(KeyAt(v))'
    OBVIOUS
  <2>1. WrittenFor(KeyAt(v))  BY DEF WorkTrue
  <2> QED  BY <1>1, <1>2, <2>1, MessagesOfJobs DEF WrittenFor, NothingTaken, Published
<1> QED  BY <1>2, <1>3, <1>4 DEF WorkTrue, SameWork, NothingTaken

\* A step that takes nothing back, after which who is at other work tells the
\* truth, and so do the rows that are newly done.
LEMMA WriteStep ==
    ASSUME WriteInv, NothingTaken,
           \A e \in Effects : EffectDone(e)' => EffectDone(e) \/ sent'[e] > 0,
           \A v \in Workers : SameWork(v) \/ WorkTrue(v)',
           \A k \in Keys :
              jobs'[k].status = "done" => jobs[k].status = "done" \/ WrittenFor(k)
    PROVE  WriteInv'
<1>1. RecordedWritten'
  BY DEF WriteInv, RecordedWritten, NothingTaken
<1>2. \A w \in Workers : WorkTrue(w)'
  BY WorkStays DEF WriteInv
<1>3. DoneMeansWritten'
  <2> SUFFICES ASSUME NEW k \in Keys, jobs'[k].status = "done" PROVE WrittenFor(k)'
    BY DEF DoneMeansWritten, WrittenFor
  <2>1. WrittenFor(k)  BY DEF WriteInv, DoneMeansWritten, WrittenFor
  <2> QED  BY <2>1, WrittenStays
<1> QED  BY <1>1, <1>2, <1>3 DEF WriteInv

Quiet(local) ==
    \/ local.pc \in {"idle", "next", "fail"}
    \/ local.pc = "finish" /\ local.word # "done"

LEMMA QuietIsTrue ==
    ASSUME DispatchInv, NEW w \in Workers, NEW local, Quiet(local),
           worker' = [worker EXCEPT ![w] = local]
    PROVE  WorkTrue(w)'
<1>1. worker'[w] = local  BY DEF DispatchInv, WorkerTypeOK
<1> QED  BY <1>1 DEF WorkTrue, Quiet, InLoop

\* A worker that stays in the loop, having written to what it leaves off.
LoopMove(w, local) ==
    /\ worker[w].pc \in InLoop /\ local.pc \in InLoop /\ local.cur = worker[w].cur
    /\ worker' = [worker EXCEPT ![w] = local] /\ grants' = grants
    /\ \A e \in Effects \cap (worker[w].left \ local.left) : sent'[e] > 0
    /\ local.pc \in {"deliver", "record"} => local.at \in Effects
    /\ local.pc = "record" /\ local.word = "ok" => sent'[local.at] > 0

LEMMA LoopStays ==
    ASSUME DispatchInv, WriteInv, NothingTaken,
           NEW w \in Workers, NEW local, LoopMove(w, local)
    PROVE  WorkTrue(w)'
<1>1. worker'[w] = local  BY DEF DispatchInv, WorkerTypeOK, LoopMove
<1>2. KeyAt(w)' = KeyAt(w)  BY <1>1 DEF KeyAt, JobAt, LoopMove
<1>3. EffectsOf(KeyAt(w))' = EffectsOf(KeyAt(w)) /\ EffectsOf(KeyAt(w)) \subseteq Effects
  BY <1>2 DEF EffectsOf
<1>4. \A e \in EffectsOf(KeyAt(w)) \ worker[w].left : sent'[e] > 0
  BY <1>3 DEF WriteInv, WorkTrue, NothingTaken, LoopMove
<1>5. \A e \in EffectsOf(KeyAt(w))' \ local.left : sent'[e] > 0
  BY <1>3, <1>4 DEF LoopMove
<1>6. local.pc # "finish"  BY DEF InLoop, LoopMove
<1> QED  BY <1>1, <1>5, <1>6 DEF WorkTrue, LoopMove

\* One worker's step that leaves queue, inbox and history of writes alone.
LEMMA WorkerWriteStep ==
    ASSUME DispatchInv, WriteInv, NEW w \in Workers, NEW local, Step(w, local),
           UNCHANGED sent, WorkTrue(w)',
           \A e \in Effects : EffectDone(e)' => EffectDone(e) \/ sent[e] > 0,
           \A k \in Keys :
              jobs'[k].status = "done" => jobs[k].status = "done" \/ WrittenFor(k)
    PROVE  WriteInv'
<1>1. UNCHANGED <<cloud, grants>> /\ worker' = [worker EXCEPT ![w] = local]
  BY DEF Step, inboxVars
<1>2. NothingTaken  BY <1>1 DEF NothingTaken
<1>3. \A v \in Workers \ {w} : SameWork(v)
  BY <1>1 DEF DispatchInv, WorkerTypeOK, SameWork
<1> QED  BY <1>2, <1>3, WriteStep

\* Also when it leaves the ledgers alone.
LEMMA WorkerStepOnly ==
    ASSUME DispatchInv, WriteInv, NEW w \in Workers, NEW local, Step(w, local),
           UNCHANGED sent, WorkTrue(w)', UNCHANGED ledgerVars,
           \A e \in Effects : EffectDone(e)' => EffectDone(e) \/ sent[e] > 0
    PROVE  WriteInv'
BY WorkerWriteStep DEF ledgerVars

LEMMA QuietStep ==
    ASSUME DispatchInv, WriteInv, NEW w \in Workers, NEW local, Step(w, local),
           Quiet(local), UNCHANGED sent, UNCHANGED ledgerVars,
           \A e \in Effects : EffectDone(e)' => EffectDone(e) \/ sent[e] > 0
    PROVE  WriteInv'
BY WorkerStepOnly, QuietIsTrue DEF Step

LEMMA QuietLocals ==
    ASSUME DispatchInv, NEW w \in Workers
    PROVE  /\ \A c \in {"retryable", "permanent"} : Quiet(Thrown(w, c))
           /\ \A c \in {"uncertain", "deferred"}, wait \in 0..MaxWait :
                 Quiet(Returned(w, c, wait))
           /\ \A l \in HeldLeases(w), s \in {"ack", "retry"} : Quiet(Answered(w, l, s))
           /\ Quiet(Idle)
<1>1. WorkerTypeOK /\ worker[w] \in Local  BY DEF DispatchInv, WorkerTypeOK
<1>2. \A c, wait : Returned(w, c, wait).word = c
  BY <1>1 DEF Returned, Local
<1> QED  BY <1>1, <1>2, ThrownLocal, ReturnedLocal, AnsweredLocal, IdleLocal DEF Quiet

\* a claim of an effect, or its tick, makes none done
LEMMA EffectsNotDone ==
    ASSUME EffectTypeOK, NEW x, NEW j,
           ClaimEffect(x, j) \/ EffectTick \/ UNCHANGED effects
    PROVE  \A e \in Effects : EffectDone(e)' => EffectDone(e)
<1>1. CASE ClaimEffect(x, j)
  BY <1>1 DEF ClaimEffect, EffectTypeOK, EffectDone
<1>2. CASE EffectTick
  BY <1>2 DEF EffectTick, EffectTypeOK, EffectRow, EffectDone
<1>3. CASE UNCHANGED effects  BY <1>3 DEF EffectDone
<1> QED  BY <1>1, <1>2, <1>3

-----------------------------------------------------------------------------
(* Nor does a step of the handler make untrue what is said to be written *)

LEMMA ThrowsWrite ==
    ASSUME DispatchInv, WriteInv, NEW w \in Workers,
           \/ LoseEffectClaim(w) \/ LimitItem(w) \/ LoseEffectResult(w)
           \/ LosePublish(w) \/ LoseFinish(w) \/ FinishUnclaimed(w)
    PROVE  WriteInv'
<1>1. /\ Step(w, Thrown(w, "retryable")) /\ UNCHANGED ledgerVars /\ UNCHANGED effects
      /\ UNCHANGED sent
  BY DEF LoseEffectClaim, LimitItem, LoseEffectResult, LosePublish, LoseFinish,
         FinishUnclaimed, Fault, Refuse, pipeVars
<1>2. \A e \in Effects : EffectDone(e)' => EffectDone(e)
  BY <1>1 DEF EffectDone
<1> QED  BY <1>1, <1>2, QuietLocals, QuietStep

LEMMA AdmitWrites ==
    ASSUME DispatchInv, WriteInv, NEW w \in Workers, AdmitArticle(w) PROVE WriteInv'
<1> DEFINE local == [worker[w] EXCEPT !.pc = "effect"]
<1>1. /\ UNCHANGED ledgerVars /\ UNCHANGED effects /\ UNCHANGED sent
      /\ worker[w].pc = "begin"
  BY DEF AdmitArticle, Fault, Refuse, pipeVars
<1>2. \A e \in Effects : EffectDone(e)' => EffectDone(e)
  BY <1>1 DEF EffectDone
<1>3. CASE Step(w, local)
  <2>1. /\ local.pc = "effect" /\ local.cur = worker[w].cur
        /\ local.left = worker[w].left
    BY DEF DispatchInv, WorkerTypeOK, Local
  <2>2. worker' = [worker EXCEPT ![w] = local] /\ grants' = grants /\ NothingTaken
    BY <1>1, <1>3 DEF Step, inboxVars, NothingTaken
  <2> HIDE DEF local
  <2>move. LoopMove(w, local)  BY <1>1, <2>1, <2>2 DEF LoopMove, InLoop
  <2>3. WorkTrue(w)'  BY <2>move, <2>2, LoopStays
  <2> QED  BY <1>1, <1>2, <1>3, <2>3, WorkerStepOnly
<1>4. ASSUME NEW wait \in 1..MaxWait, Step(w, Returned(w, "deferred", wait))
      PROVE  WriteInv'
  <2>1. wait \in 0..MaxWait  BY LedgerAssumption
  <2> QED  BY <1>1, <1>2, <1>4, <2>1, QuietLocals, QuietStep
<1>5. CASE Step(w, Thrown(w, "retryable"))
  BY <1>1, <1>2, <1>5, QuietLocals, QuietStep
<1> QED  BY <1>3, <1>4, <1>5 DEF AdmitArticle

LEMMA SkipWrites ==
    ASSUME DispatchInv, WriteInv, NEW w \in Workers, NEW x \in Effects, SkipEffect(w, x)
    PROVE  WriteInv'
<1> DEFINE local == [worker[w] EXCEPT !.left = @ \ {x}]
<1>1. /\ UNCHANGED ledgerVars /\ UNCHANGED effects /\ UNCHANGED sent
      /\ worker[w].pc = "effect"
  BY DEF SkipEffect, pipeVars
<1>2. \A e \in Effects : EffectDone(e)' => EffectDone(e)
  BY <1>1 DEF EffectDone
<1>3. ASSUME EffectDone(x), Step(w, local) PROVE WriteInv'
  <2>1. /\ local.pc = "effect" /\ local.cur = worker[w].cur
        /\ local.left = worker[w].left \ {x}
    BY <1>1 DEF DispatchInv, WorkerTypeOK, Local
  <2>2. worker' = [worker EXCEPT ![w] = local] /\ grants' = grants /\ NothingTaken
    BY <1>1, <1>3 DEF Step, inboxVars, NothingTaken
  <2>3. sent'[x] > 0  BY <1>1, <1>3 DEF WriteInv, RecordedWritten
  <2> HIDE DEF local
  <2>move. LoopMove(w, local)  BY <1>1, <2>1, <2>2, <2>3 DEF LoopMove, InLoop
  <2>4. WorkTrue(w)'  BY <2>move, <2>2, LoopStays
  <2> QED  BY <1>1, <1>2, <1>3, <2>4, WorkerStepOnly
<1>4. CASE Step(w, Returned(w, "uncertain", 0))
  <2>1. 0 \in 0..MaxWait  BY LedgerAssumption
  <2> QED  BY <1>1, <1>2, <1>4, <2>1, QuietLocals, QuietStep
<1>5. CASE Step(w, Returned(w, "deferred", EffectWait(x)))
  <2>1. EffectWait(x) \in 0..MaxWait  BY EffectWaits DEF DispatchInv
  <2> QED  BY <1>1, <1>2, <1>5, <2>1, QuietLocals, QuietStep
<1> QED  BY <1>3, <1>4, <1>5 DEF SkipEffect

LEMMA StartWrites ==
    ASSUME DispatchInv, WriteInv, NEW w \in Workers, NEW x \in Effects, StartEffect(w, x)
    PROVE  WriteInv'
<1> DEFINE local == [worker[w] EXCEPT !.pc = "deliver", !.at = x]
<1>1. /\ UNCHANGED ledgerVars /\ UNCHANGED sent /\ worker[w].pc = "effect"
      /\ ClaimEffect(x, JobAt(w))
  BY DEF StartEffect, Fault, pipeVars
<1>2. \A e \in Effects : EffectDone(e)' => EffectDone(e)
  BY <1>1, EffectsNotDone DEF DispatchInv
<1>3. CASE Step(w, local)
  <2>1. /\ local.pc = "deliver" /\ local.cur = worker[w].cur
        /\ local.left = worker[w].left /\ local.at = x
    BY DEF DispatchInv, WorkerTypeOK, Local
  <2>2. worker' = [worker EXCEPT ![w] = local] /\ grants' = grants /\ NothingTaken
    BY <1>1, <1>3 DEF Step, inboxVars, NothingTaken
  <2> HIDE DEF local
  <2>move. LoopMove(w, local)  BY <1>1, <2>1, <2>2 DEF LoopMove, InLoop
  <2>3. WorkTrue(w)'  BY <2>move, <2>2, LoopStays
  <2> QED  BY <1>1, <1>2, <1>3, <2>3, WorkerStepOnly
<1>4. CASE Step(w, Thrown(w, "retryable"))
  BY <1>1, <1>2, <1>4, QuietLocals, QuietStep
<1> QED  BY <1>3, <1>4 DEF StartEffect

\* A success is learnt of a write only.
LEMMA DeliverWrites ==
    ASSUME DispatchInv, WriteInv, NEW w \in Workers, Deliver(w) PROVE WriteInv'
<1> DEFINE at == worker[w].at
<1>1. /\ UNCHANGED ledgerVars /\ UNCHANGED effects /\ worker[w].pc = "deliver"
      /\ at \in Effects
  BY DEF Deliver, WriteInv, WorkTrue
<1>2. PICK wrote \in BOOLEAN : \E word \in Learnt(wrote) :
         /\ sent' = IF wrote /\ sent[at] < 2 THEN [sent EXCEPT ![at] = @ + 1] ELSE sent
         /\ Step(w, [worker[w] EXCEPT !.pc = "record", !.word = word])
  BY DEF Deliver
<1>3. PICK word \in Learnt(wrote) :
         /\ sent' = IF wrote /\ sent[at] < 2 THEN [sent EXCEPT ![at] = @ + 1] ELSE sent
         /\ Step(w, [worker[w] EXCEPT !.pc = "record", !.word = word])
  BY <1>2
<1> DEFINE local == [worker[w] EXCEPT !.pc = "record", !.word = word]
<1>4. /\ local.pc = "record" /\ local.cur = worker[w].cur /\ local.left = worker[w].left
      /\ local.at = at /\ local.word = word
  BY DEF DispatchInv, WorkerTypeOK, Local
<1>5. sent \in [Effects -> 0..2]  BY DEF DispatchInv, HistoryTypeOK
<1> HIDE DEF at
<1>6. (\A e \in Effects : sent[e] > 0 => sent'[e] > 0) /\ (wrote => sent'[at] > 0)
  <2>1. CASE wrote /\ sent[at] < 2
    <3>1. sent' = [sent EXCEPT ![at] = sent[at] + 1]  BY <1>3, <2>1
    <3>2. sent'[at] = sent[at] + 1 /\ \A e \in Effects \ {at} : sent'[e] = sent[e]
      BY <1>1, <1>5, <3>1
    <3>3. sent[at] \in 0..2  BY <1>1, <1>5
    <3> QED  BY <3>2, <3>3
  <2>2. CASE ~(wrote /\ sent[at] < 2)
    <3>1. sent' = sent  BY <1>3, <2>2
    <3>2. wrote => sent[at] = 2  BY <1>1, <1>5, <2>2
    <3> QED  BY <3>1, <3>2
  <2> QED  BY <2>1, <2>2
<1>7. word = "ok" => wrote  BY DEF Learnt
<1>8. /\ worker' = [worker EXCEPT ![w] = local] /\ UNCHANGED <<cloud, grants>>
  BY <1>3 DEF Step, inboxVars
<1>9. NothingTaken  BY <1>6, <1>8 DEF NothingTaken
<1> HIDE DEF local
<1>move. LoopMove(w, local)  BY <1>1, <1>4, <1>6, <1>7, <1>8, <1>9 DEF LoopMove, InLoop
<1>10. WorkTrue(w)'  BY <1>move, <1>9, LoopStays
<1>11. \A v \in Workers \ {w} : SameWork(v)
  BY <1>8 DEF DispatchInv, WorkerTypeOK, SameWork
<1>12. \A e \in Effects : EffectDone(e)' => EffectDone(e)
  BY <1>1 DEF EffectDone
<1>13. \A k \in Keys : jobs'[k].status = "done" => jobs[k].status = "done"
  BY <1>1 DEF ledgerVars
<1> QED  BY <1>9, <1>10, <1>11, <1>12, <1>13, WriteStep

LEMMA RecordWrites ==
    ASSUME DispatchInv, WriteInv, NEW w \in Workers, RecordEffect(w) PROVE WriteInv'
<1> DEFINE at == worker[w].at
           word == worker[w].word
           local == [worker[w] EXCEPT !.pc = "effect", !.word = "",
                                      !.at = NoEffectKey, !.left = @ \ {at}]
<1>1. /\ UNCHANGED ledgerVars /\ UNCHANGED sent /\ worker[w].pc = "record"
      /\ FinishEffect(at, Recorded(word))
  BY DEF RecordEffect, Fault, pipeVars
<1>2. at \in Effects /\ (word = "ok" => sent[at] > 0) /\ word \in Outcomes
  BY <1>1 DEF WriteInv, WorkTrue, DispatchInv, WorkInv, HoldersKnow
<1>3. \A e \in Effects : EffectDone(e)' => EffectDone(e) \/ sent[e] > 0
  <2> HIDE DEF at, word
  <2>1. Recorded(word) = "done" => word = "ok"
    BY <1>2 DEF Recorded, Outcomes
  <2>2. effects[at] \in EffectRow  BY <1>2 DEF DispatchInv, EffectTypeOK
  <2>3. effects'[at].status = Recorded(word) /\ \A e \in Effects \ {at} : effects'[e] = effects[e]
    BY <1>1, <1>2, <2>2 DEF FinishEffect, DispatchInv, EffectTypeOK, EffectRow
  <2> QED  BY <1>2, <2>1, <2>3 DEF EffectDone
<1>4. ASSUME word = "ok", Step(w, local) PROVE WriteInv'
  <2>1. /\ local.pc = "effect" /\ local.cur = worker[w].cur
        /\ local.left = worker[w].left \ {at}
    BY DEF DispatchInv, WorkerTypeOK, Local
  <2>2. worker' = [worker EXCEPT ![w] = local] /\ grants' = grants /\ NothingTaken
    BY <1>1, <1>4 DEF Step, inboxVars, NothingTaken
  <2>3. sent'[at] > 0  BY <1>1, <1>2, <1>4
  <2> HIDE DEF local, at
  <2>move. LoopMove(w, local)  BY <1>1, <2>1, <2>2, <2>3 DEF LoopMove, InLoop
  <2>4. WorkTrue(w)'  BY <2>move, <2>2, LoopStays
  <2> QED  BY <1>1, <1>3, <1>4, <2>4, WorkerStepOnly
<1>5. CASE Step(w, Returned(w, "uncertain", 0))
  <2>1. 0 \in 0..MaxWait  BY LedgerAssumption
  <2> QED  BY <1>1, <1>3, <1>5, <2>1, QuietLocals, QuietStep
<1>6. CASE Step(w, Thrown(w, "retryable")) \/ Step(w, Thrown(w, "permanent"))
  BY <1>1, <1>3, <1>6, QuietLocals, QuietStep
<1>7. ASSUME NEW next \in AfterRecord(w)
      PROVE  \/ word = "ok" /\ next = local
             \/ next = Returned(w, "uncertain", 0)
             \/ next = Thrown(w, "retryable") \/ next = Thrown(w, "permanent")
  <2> HIDE DEF local
  <2>1. CASE word = "ok"  BY <1>7, <2>1 DEF AfterRecord, local
  <2>2. CASE word = "unknown"  BY <1>7, <2>2 DEF AfterRecord
  <2>3. CASE word = "quota"  BY <1>7, <2>3 DEF AfterRecord
  <2>4. CASE word = "rejected"  BY <1>7, <2>4 DEF AfterRecord
  <2> QED  BY <1>2, <2>1, <2>2, <2>3, <2>4 DEF Outcomes
<1> HIDE DEF local, word
<1> QED  BY <1>4, <1>5, <1>6, <1>7 DEF RecordEffect

\* What is returned as done is: nothing is left of the loop, and the article of
\* a link is published.
LEMMA ReturnedDone ==
    ASSUME DispatchInv, WriteInv, NothingTaken, NEW w \in Workers, Finished(w),
           NEW local, local.pc = "finish", local.cur = worker[w].cur,
           worker' = [worker EXCEPT ![w] = local], grants' = grants,
           FollowUp[KeyAt(w)] # NoKey => Published(FollowUp[KeyAt(w)])'
    PROVE  WorkTrue(w)'
<1>1. worker'[w] = local  BY DEF DispatchInv, WorkerTypeOK
<1>2. KeyAt(w)' = KeyAt(w)  BY <1>1 DEF KeyAt, JobAt
<1>3. EffectsOf(KeyAt(w))' = EffectsOf(KeyAt(w)) /\ EffectsOf(KeyAt(w)) \subseteq Effects
  BY <1>2 DEF EffectsOf
<1>4. \A e \in EffectsOf(KeyAt(w)) : sent[e] > 0
  BY DEF Finished, WriteInv, WorkTrue, InLoop
<1>5. \A e \in EffectsOf(KeyAt(w))' : sent'[e] > 0
  BY <1>3, <1>4 DEF NothingTaken
<1>6. WrittenFor(KeyAt(w))'
  BY <1>2, <1>5 DEF WrittenFor, Published
<1> QED  BY <1>1, <1>6 DEF WorkTrue, InLoop

LEMMA ReturnWrites ==
    ASSUME DispatchInv, WriteInv, NEW w \in Workers, ReturnDone(w) PROVE WriteInv'
<1> DEFINE local == Returned(w, "done", 0)
<1>1. /\ UNCHANGED ledgerVars /\ UNCHANGED effects /\ UNCHANGED sent
      /\ Finished(w) /\ Step(w, local) /\ FollowUp[KeyAt(w)] = NoKey
  BY DEF ReturnDone, pipeVars
<1>2. local.pc = "finish" /\ local.cur = worker[w].cur
  <2>1. 0 \in 0..MaxWait /\ WorkerTypeOK  BY LedgerAssumption DEF DispatchInv
  <2> QED  BY <2>1, ReturnedLocal
<1>3. worker' = [worker EXCEPT ![w] = local] /\ grants' = grants /\ NothingTaken
  BY <1>1 DEF Step, inboxVars, NothingTaken
<1> HIDE DEF local
<1>4. WorkTrue(w)'  BY <1>1, <1>2, <1>3, ReturnedDone
<1>5. \A e \in Effects : EffectDone(e)' => EffectDone(e)
  BY <1>1 DEF EffectDone
<1> QED  BY <1>1, <1>4, <1>5, WorkerStepOnly

LEMMA PublishWrites ==
    ASSUME DispatchInv, WriteInv, NEW w \in Workers, PublishArticle(w) PROVE WriteInv'
<1>1. PICK j \in JobIds : KeyOf[j] = FollowUp[KeyAt(w)] /\ Send({SentMessage(j)})
  BY DEF PublishArticle
<1>2. /\ UNCHANGED ledgerVars /\ UNCHANGED effects /\ UNCHANGED sent /\ Finished(w)
  BY DEF PublishArticle, Fault, pipeVars
<1>3. PICK local \in {Returned(w, "done", 0), Thrown(w, "retryable")} :
         worker' = [worker EXCEPT ![w] = local]
  BY DEF PublishArticle
<1>4. local.pc \in {"finish", "fail"} /\ local.cur = worker[w].cur
  <2>1. 0 \in 0..MaxWait /\ WorkerTypeOK  BY LedgerAssumption DEF DispatchInv
  <2> QED  BY <1>3, <2>1, ReturnedLocal, ThrownLocal
<1>5. SentMessage(j) \in Messages  BY MessagesOfJobs
<1>6. grants' = grants /\ cloud'[SentMessage(j)] = "queued" /\ NothingTaken
  BY <1>1, <1>2, <1>5 DEF Send, NothingTaken
<1>7. Published(FollowUp[KeyAt(w)])'
  <2>1. \E i \in JobIds : KeyOf[i] = FollowUp[KeyAt(w)] /\ cloud'[SentMessage(i)] # "unsent"
    BY <1>1, <1>6
  <2>2. KeyAt(w)' = KeyAt(w)
    <3>1. worker'[w] = local  BY <1>3 DEF DispatchInv, WorkerTypeOK
    <3> QED  BY <1>4, <1>6, <3>1 DEF KeyAt, JobAt
  <2> QED  BY <2>1, <2>2 DEF Published
<1>8. WorkTrue(w)'
  <2>1. CASE local.pc = "finish"
    BY <1>2, <1>3, <1>4, <1>6, <1>7, <2>1, ReturnedDone
  <2>2. CASE local.pc = "fail"
    BY <1>3, <2>2, QuietIsTrue DEF Quiet
  <2> QED  BY <1>4, <2>1, <2>2
<1>9. \A v \in Workers \ {w} : SameWork(v)
  BY <1>3, <1>6 DEF DispatchInv, WorkerTypeOK, SameWork
<1>10. \A e \in Effects : EffectDone(e)' => EffectDone(e)
  BY <1>2 DEF EffectDone
<1>11. \A k \in Keys : jobs'[k].status = "done" => jobs[k].status = "done"
  BY <1>2 DEF ledgerVars
<1> QED  BY <1>6, <1>8, <1>9, <1>10, <1>11, WriteStep

-----------------------------------------------------------------------------
(* Nor does a step of processQueueBatch, of a producer or of an operator *)

\* Producers, operators and the clock leave the workers at their work.
LEMMA OthersWrite ==
    ASSUME DispatchInv, WriteInv,
           \/ \E j \in JobIds : Submit(j)
           \/ \E m \in Messages : Stage(m) \/ StageAgain(m)
           \/ \E o \in ReplayKeys, j \in JobIds : Replay(o, j)
           \/ Tick
           \/ UNCHANGED vars
    PROVE  WriteInv'
<1>1. ASSUME UNCHANGED <<worker, grants, sent>>, UNCHANGED effects, UNCHANGED ledgerVars,
             \A m \in Messages : cloud[m] # "unsent" => cloud'[m] # "unsent"
      PROVE  WriteInv'
  <2>1. NothingTaken  BY <1>1 DEF NothingTaken
  <2>2. \A v \in Workers : SameWork(v)  BY <1>1 DEF SameWork
  <2>3. \A e \in Effects : EffectDone(e)' => EffectDone(e)  BY <1>1 DEF EffectDone
  <2>4. \A k \in Keys : jobs'[k].status = "done" => jobs[k].status = "done"
    BY <1>1 DEF ledgerVars
  <2> QED  BY <2>1, <2>2, <2>3, <2>4, WriteStep
<1>2. ASSUME NEW j \in JobIds, Submit(j) PROVE WriteInv'
  BY <1>1, <1>2 DEF Submit, Send, pipeVars
<1>3. ASSUME NEW m \in Messages, Stage(m) \/ StageAgain(m) PROVE WriteInv'
  BY <1>1, <1>3
  DEF Stage, StageAgain, StageAcked, StageUnwoken, Redeliver, Fault, pipeVars
<1>4. ASSUME NEW o \in ReplayKeys, NEW j \in JobIds, Replay(o, j) PROVE WriteInv'
  <2>1. /\ UNCHANGED <<worker, grants, sent>> /\ UNCHANGED effects
        /\ \A m \in Messages : cloud[m] # "unsent" => cloud'[m] # "unsent"
    BY <1>4 DEF Replay, StageReplay, DispatchInv, LeaseInv, InboxTypeOK
  <2>2. NothingTaken  BY <2>1 DEF NothingTaken
  <2>3. \A v \in Workers : SameWork(v)  BY <2>1 DEF SameWork
  <2>4. \A e \in Effects : EffectDone(e)' => EffectDone(e)  BY <2>1 DEF EffectDone
  <2>5. \A k \in Keys : jobs'[k].status = "done" => jobs[k].status = "done"
    <3>1. KeyOf[j] \in Keys /\ JobTypeOK
      BY LedgerAssumption DEF DispatchInv, LedgerInv
    <3> QED  BY <1>4, <3>1 DEF Replay, ReviveDead, JobTypeOK, JobRow
  <2> QED  BY <2>2, <2>3, <2>4, <2>5, WriteStep
<1>5. CASE Tick
  <2>1. /\ InboxTick /\ JobTick /\ EffectTick /\ UNCHANGED sent
        /\ worker' = [w \in Workers |->
                         [worker[w] EXCEPT !.wait = IF @ = 0 THEN 0 ELSE @ - 1]]
    BY <1>5 DEF Tick
  <2>2. NothingTaken  BY <2>1 DEF NothingTaken, InboxTick
  <2>3. ASSUME NEW v \in Workers PROVE SameWork(v)
    <3>1. worker[v] \in Local  BY DEF DispatchInv, WorkerTypeOK
    <3>2. worker[v].pc \notin {"idle", "next"} => worker[v].cur \in Leases
      BY AtHand
    <3>3. \A l \in Leases : grants'[l].message = grants[l].message
      BY <2>1 DEF InboxTick, DispatchInv, LeaseInv, InboxTypeOK, Grant
    <3> QED  BY <2>1, <3>1, <3>2, <3>3 DEF SameWork, Local
  <2>4. \A e \in Effects : EffectDone(e)' => EffectDone(e)
    BY <2>1, EffectsNotDone DEF DispatchInv
  <2>5. \A k \in Keys : jobs'[k].status = "done" => jobs[k].status = "done"
    BY <2>1 DEF JobTick, Older, DispatchInv, LedgerInv, JobTypeOK, JobRow
  <2> QED  BY <2>2, <2>3, <2>4, <2>5, WriteStep
<1>6. CASE UNCHANGED vars
  BY <1>1, <1>6 DEF vars, ledgerVars
<1> QED  BY <1>2, <1>3, <1>4, <1>5, <1>6

\* A worker that pulls, settles or forgets a batch is at no work after it, and
\* touches no other's leases.
LEMMA BatchWrites ==
    ASSUME DispatchInv, WriteInv, NEW w \in Workers,
           NEW local, Quiet(local), worker' = [worker EXCEPT ![w] = local],
           \A v \in Workers \ {w} : \A l \in HeldLeases(v) : grants'[l] = grants[l],
           UNCHANGED <<cloud, sent>>, UNCHANGED effects, UNCHANGED ledgerVars
    PROVE  WriteInv'
<1>1. WorkTrue(w)'  BY QuietIsTrue
<1>2. NothingTaken  BY DEF NothingTaken
<1>3. ASSUME NEW v \in Workers \ {w} PROVE SameWork(v)
  <2>1. worker'[v] = worker[v]  BY DEF DispatchInv, WorkerTypeOK
  <2>2. worker[v].pc \notin {"idle", "next"} => worker[v].cur \in HeldLeases(v)
    BY AtHand
  <2> QED  BY <2>1, <2>2 DEF SameWork
<1>4. \A e \in Effects : EffectDone(e)' => EffectDone(e)  BY DEF EffectDone
<1>5. \A k \in Keys : jobs'[k].status = "done" => jobs[k].status = "done"
  BY DEF ledgerVars
<1> QED  BY <1>1, <1>2, <1>3, <1>4, <1>5, WriteStep

LEMMA LetGoWrites ==
    ASSUME DispatchInv, WriteInv, NEW w \in Workers,
           SettleWork(w) \/ Crash(w) \/ FailUnclaimed(w)
    PROVE  WriteInv'
<1>1. PICK ls \in SUBSET HeldLeases(w) : grants' = Forgotten(ls)
  <2>1. CASE SettleWork(w)
    <3>1. worker[w].acks \cup worker[w].retries \in SUBSET HeldLeases(w)
      BY DEF HeldLeases, HeldBy
    <3> QED  BY <2>1, <3>1 DEF SettleWork, SettleBatch
  <2>2. CASE Crash(w) \/ FailUnclaimed(w)
    <3>1. Abandon(w)  BY <2>2 DEF Crash, FailUnclaimed
    <3>2. grants' = Forgotten(HeldLeases(w))
      BY <3>1 DEF Abandon, Forget, HeldLeases, HeldBy
    <3> QED  BY <3>2
  <2> QED  BY <2>1, <2>2
<1>2. \A v \in Workers \ {w} : \A l \in HeldLeases(v) : grants'[l] = grants[l]
  BY <1>1, HeldAreLeases DEF Forgotten, DispatchInv, WorkInv, HeldByOne
<1>3. /\ worker' = [worker EXCEPT ![w] = Idle] /\ UNCHANGED <<cloud, sent>>
      /\ UNCHANGED effects /\ UNCHANGED ledgerVars
  BY DEF SettleWork, SettleBatch, Settle, Crash, FailUnclaimed, Abandon, Forget, Fault,
         pipeVars
<1> QED  BY <1>2, <1>3, QuietLocals, BatchWrites

LEMMA PullWrites ==
    ASSUME DispatchInv, WriteInv, NEW w \in Workers, PullBatch(w) PROVE WriteInv'
<1>1. PICK ms \in SUBSET Messages \ {{}} : \E leaseOf \in Numberings(ms) :
         /\ Pull(ms, leaseOf)
         /\ worker' = [worker EXCEPT ![w] =
                          [Idle EXCEPT !.pc = "next", !.todo = {leaseOf[m] : m \in ms}]]
  BY DEF PullBatch
<1>2. PICK leaseOf \in Numberings(ms) :
         /\ Pull(ms, leaseOf)
         /\ worker' = [worker EXCEPT ![w] =
                          [Idle EXCEPT !.pc = "next", !.todo = {leaseOf[m] : m \in ms}]]
  BY <1>1
<1> DEFINE new   == {leaseOf[m] : m \in ms}
           local == [Idle EXCEPT !.pc = "next", !.todo = new]
<1>3. Quiet(local)
  <2> HIDE DEF new
  <2> QED  BY DEF Quiet, Idle
<1>4. ASSUME NEW v \in Workers \ {w}, NEW l \in HeldLeases(v) PROVE grants'[l] = grants[l]
  <2>1. l \in Leases  BY HeldAreLeases DEF DispatchInv
  <2>2. grants[l].message \in Messages
    BY DEF DispatchInv, WorkInv, HoldersKnow
  <2>3. grants[l] # NoGrant  BY <2>2, InboxAssumption DEF NoGrant
  <2>4. \A m \in ms : leaseOf[m] # l  BY <2>3 DEF Numberings, FreshLeases
  <2> QED  BY <1>2, <2>1, <2>4 DEF Pull
<1>5. /\ UNCHANGED <<cloud, sent>> /\ UNCHANGED effects /\ UNCHANGED ledgerVars
  BY <1>2 DEF PullBatch, Pull, pipeVars
<1>6. worker' = [worker EXCEPT ![w] = local]  BY <1>2
<1> HIDE DEF local
<1> QED  BY <1>3, <1>4, <1>5, <1>6, BatchWrites

LEMMA SkipJobWrites ==
    ASSUME DispatchInv, WriteInv, NEW w \in Workers, NEW l \in Leases,
           DeferAcceptance(w, l) \/ SkipJob(w, l)
    PROVE  WriteInv'
<1>1. l \in HeldLeases(w)
  BY ChosenLease DEF DeferAcceptance, SkipJob
<1>2. PICK s \in {"ack", "retry"} : Step(w, Answered(w, l, s))
  BY DEF DeferAcceptance, SkipJob
<1>3. UNCHANGED ledgerVars /\ UNCHANGED effects /\ UNCHANGED sent
  BY DEF DeferAcceptance, SkipJob, Refuse, pipeVars
<1>4. \A e \in Effects : EffectDone(e)' => EffectDone(e)
  BY <1>3 DEF EffectDone
<1>5. Quiet(Answered(w, l, s))  BY <1>1, QuietLocals
<1> QED  BY <1>2, <1>3, <1>4, <1>5, QuietStep

\* A job begins with all its effects to do.
LEMMA StartJobWrites ==
    ASSUME DispatchInv, WriteInv, NEW w \in Workers, NEW l \in Leases, StartJob(w, l)
    PROVE  WriteInv'
<1> DEFINE j == grants[l].message.job
           k == KeyOf[j]
           pc == IF k \in ArticleKeys /\ EffectsOf(k) # {} THEN "begin" ELSE "effect"
           local == [worker[w] EXCEPT !.pc = pc, !.todo = @ \ {l}, !.cur = l,
                                      !.left = EffectsOf(k)]
<1>1. ClaimJob(j) /\ Step(w, local) /\ UNCHANGED effects /\ UNCHANGED sent
  BY DEF StartJob, pipeVars
<1>2. k \in Keys
  <2>1. l \in HeldLeases(w)  BY ChosenLease DEF StartJob
  <2>2. grants[l].message \in Messages
    BY <2>1 DEF DispatchInv, WorkInv, HoldersKnow
  <2> QED  BY <2>2, MessagesOfJobs
<1>3. pc \in {"begin", "effect"}  OBVIOUS
<1> HIDE DEF pc
<1>4. local.pc = pc /\ local.cur = l /\ local.left = EffectsOf(k)
  BY DEF DispatchInv, WorkerTypeOK, Local
<1> HIDE DEF local
<1>5. worker'[w] = local /\ grants' = grants
  BY <1>1 DEF Step, inboxVars, DispatchInv, WorkerTypeOK
<1>6. EffectsOf(KeyAt(w))' = EffectsOf(k)
  BY <1>4, <1>5 DEF KeyAt, JobAt, EffectsOf
<1>7. WorkTrue(w)'
  BY <1>3, <1>4, <1>5, <1>6 DEF WorkTrue, InLoop
<1>8. \A e \in Effects : EffectDone(e)' => EffectDone(e)
  BY <1>1 DEF EffectDone
<1>9. \A i \in Keys : jobs'[i].status = "done" => jobs[i].status = "done"
  <2>1. jobs'[k].status = "processing" /\ \A i \in Keys \ {k} : jobs'[i] = jobs[i]
    BY <1>1, <1>2 DEF ClaimJob, DispatchInv, LedgerInv, JobTypeOK
  <2> QED  BY <2>1
<1> QED  BY <1>1, <1>7, <1>8, <1>9, WorkerWriteStep

\* A row becomes done for the worker that has returned done, and for no other.
LEMMA FinishJobWrites ==
    ASSUME DispatchInv, WriteInv, NEW w \in Workers, FinishJob(w) PROVE WriteInv'
<1> DEFINE j == JobAt(w)
           l == worker[w].cur
           word == worker[w].word
           s == IF word = "deferred" /\ Opened(j) THEN "retry" ELSE "ack"
<1>1. /\ worker[w].pc = "finish"
      /\ FinishAs(j, word, worker[w].wait) \/ FinishAgain(j)
      /\ Step(w, Answered(w, l, s)) \/ Step(w, Thrown(w, "retryable"))
      /\ UNCHANGED effects /\ UNCHANGED sent
  BY DEF FinishJob, Fault, pipeVars
<1>2. PICK local \in {Answered(w, l, s), Thrown(w, "retryable")} : Step(w, local)
  BY <1>1
<1>3. l \in HeldLeases(w) /\ KeyAt(w) = KeyOf[j] /\ KeyOf[j] \in Keys
  BY <1>1, AtHand DEF KeyAt
<1>4. Quiet(local)
  <2>1. s \in {"ack", "retry"}  OBVIOUS
  <2> HIDE DEF s
  <2> QED  BY <1>2, <1>3, <2>1, QuietLocals
<1>5. WorkTrue(w)'  BY <1>2, <1>4, QuietIsTrue DEF Step
<1>6. \A e \in Effects : EffectDone(e)' => EffectDone(e)
  BY <1>1 DEF EffectDone
<1>7. ASSUME NEW k \in Keys, jobs'[k].status = "done", jobs[k].status # "done"
      PROVE  WrittenFor(k)
  <2> HIDE DEF j
  <2>1. JobTypeOK  BY DEF DispatchInv, LedgerInv
  <2>2. ~FinishAgain(j)  BY <1>7 DEF FinishAgain, ledgerVars
  <2>3. word = "done" /\ k = KeyOf[j]
    BY <1>1, <1>3, <1>7, <2>1, <2>2
    DEF FinishAs, FinishDone, FinishUncertain, FinishDeferred, JobTypeOK, JobRow
  <2> QED  BY <1>1, <1>3, <2>3 DEF WriteInv, WorkTrue
<1> HIDE DEF l, s, j
<1> QED  BY <1>1, <1>2, <1>5, <1>6, <1>7, WorkerWriteStep

LEMMA FailJobWrites ==
    ASSUME DispatchInv, WriteInv, NEW w \in Workers, FailJob(w) PROVE WriteInv'
<1> DEFINE j == JobAt(w)
           l == worker[w].cur
           permanent == worker[w].word = "permanent"
           s == IF Opened(j) /\ ~Fatal(jobs[KeyOf[j]], permanent) THEN "retry" ELSE "ack"
<1>1. /\ worker[w].pc = "fail"
      /\ FinishFailed(j, permanent) \/ FinishAgain(j)
      /\ Step(w, Answered(w, l, s))
      /\ UNCHANGED effects /\ UNCHANGED sent
  BY DEF FailJob, pipeVars
<1>2. l \in HeldLeases(w) /\ KeyOf[j] \in Keys
  BY <1>1, AtHand DEF KeyAt
<1>3. s \in {"ack", "retry"}  OBVIOUS
<1> HIDE DEF s, j, permanent, l
<1>4. WorkTrue(w)'
  BY <1>1, <1>2, <1>3, QuietLocals, QuietIsTrue DEF Step
<1>5. \A e \in Effects : EffectDone(e)' => EffectDone(e)
  BY <1>1 DEF EffectDone
<1>6. \A k \in Keys : jobs'[k].status = "done" => jobs[k].status = "done"
  <2>1. CASE FinishFailed(j, permanent)
    <3>1. JobTypeOK  BY DEF DispatchInv, LedgerInv
    <3>2. jobs'[KeyOf[j]].status \in {"dead", "failed"}
          /\ \A k \in Keys \ {KeyOf[j]} : jobs'[k] = jobs[k]
      BY <1>2, <2>1, <3>1 DEF FinishFailed, JobTypeOK, JobRow
    <3> QED  BY <3>2
  <2>2. CASE FinishAgain(j)  BY <2>2 DEF FinishAgain, ledgerVars
  <2> QED  BY <1>1, <2>1, <2>2
<1> QED  BY <1>1, <1>4, <1>5, <1>6, WorkerWriteStep

LEMMA StepKeepsWritten == DispatchInv /\ WriteInv /\ [Next]_vars => WriteInv'
<1> SUFFICES ASSUME DispatchInv, WriteInv, [Next]_vars PROVE WriteInv'
  OBVIOUS
<1>1. ASSUME NEW w \in Workers, ProcessorStep(w) PROVE WriteInv'
  <2>1. CASE PullBatch(w)  BY <2>1, PullWrites
  <2>2. ASSUME NEW l \in Leases, DeferAcceptance(w, l) \/ SkipJob(w, l) PROVE WriteInv'
    BY <2>2, SkipJobWrites
  <2>3. ASSUME NEW l \in Leases, StartJob(w, l) PROVE WriteInv'
    BY <2>3, StartJobWrites
  <2>4. CASE FinishJob(w)  BY <2>4, FinishJobWrites
  <2>5. CASE LoseFinish(w) \/ FinishUnclaimed(w)  BY <2>5, ThrowsWrite
  <2>6. CASE FailJob(w)  BY <2>6, FailJobWrites
  <2>7. CASE FailUnclaimed(w) \/ SettleWork(w)  BY <2>7, LetGoWrites
  <2> QED  BY <1>1, <2>1, <2>2, <2>3, <2>4, <2>5, <2>6, <2>7 DEF ProcessorStep
<1>2. ASSUME NEW w \in Workers, HandlerStep(w) PROVE WriteInv'
  <2>1. CASE AdmitArticle(w)  BY <2>1, AdmitWrites
  <2>2. ASSUME NEW e \in Effects, SkipEffect(w, e) PROVE WriteInv'
    BY <2>2, SkipWrites
  <2>3. ASSUME NEW e \in Effects, StartEffect(w, e) PROVE WriteInv'
    BY <2>3, StartWrites
  <2>4. CASE Deliver(w)  BY <2>4, DeliverWrites
  <2>5. CASE RecordEffect(w)  BY <2>5, RecordWrites
  <2>6. CASE ReturnDone(w)  BY <2>6, ReturnWrites
  <2>7. CASE PublishArticle(w)  BY <2>7, PublishWrites
  <2>8. CASE \/ LoseEffectClaim(w) \/ LimitItem(w) \/ LoseEffectResult(w)
             \/ LosePublish(w)
    BY <2>8, ThrowsWrite
  <2> QED
    BY <1>2, <2>1, <2>2, <2>3, <2>4, <2>5, <2>6, <2>7, <2>8 DEF HandlerStep
<1>3. ASSUME NEW w \in Workers, Crash(w) PROVE WriteInv'
  BY <1>3, LetGoWrites
<1>4. CASE \/ ConsumerStep \/ (\E o \in ReplayKeys, j \in JobIds : Replay(o, j))
           \/ Tick \/ UNCHANGED vars
  BY <1>4, OthersWrite DEF ConsumerStep
<1> QED  BY <1>1, <1>2, <1>3, <1>4 DEF Next

LEMMA WriteInvInit == Init => WriteInv
<1> SUFFICES ASSUME Init PROVE WriteInv
  OBVIOUS
<1>1. RecordedWritten
  BY DEF Init, EffectInit, NoEffect, RecordedWritten, EffectDone
<1>2. \A w \in Workers : WorkTrue(w)
  BY DEF Init, Idle, WorkTrue, InLoop
<1>3. DoneMeansWritten
  BY DEF Init, JobInit, NoJobRow, DoneMeansWritten
<1> QED  BY <1>1, <1>2, <1>3 DEF WriteInv

-----------------------------------------------------------------------------
(* The theorems *)

LEMMA DispatchInvInit == Init => DispatchInv
<1> SUFFICES ASSUME Init PROVE DispatchInv
  OBVIOUS
<1>1. LeaseInv /\ LedgerInv
  BY LeaseInvInit, LedgerInvInit DEF Init
<1>2. EffectTypeOK
  <2>1. 0 \in 0..(Stale + 1)  BY LedgerAssumption
  <2> QED  BY <2>1 DEF Init, EffectInit, EffectTypeOK, EffectRow, NoEffect
<1>3. WorkerTypeOK
  BY IdleLocal DEF Init, WorkerTypeOK
<1>4. HistoryTypeOK
  <2>1. 0 \in 0..MaxFaults /\ 0 \in 0..MaxRefusals
    BY DispatchAssumption, InboxAssumption
  <2>2. operations \in [ReplayKeys -> JobIds \cup {NoJob}]  BY DEF Init
  <2>3. sent \in [Effects -> 0..2]  BY DEF Init
  <2>4. overran \in BOOLEAN  BY DEF Init
  <2>5. faults \in 0..MaxFaults /\ refusals \in 0..MaxRefusals
    BY <2>1 DEF Init
  <2> QED  BY <2>2, <2>3, <2>4, <2>5 DEF HistoryTypeOK
<1>5. \A w \in Workers : worker[w] = Idle /\ HeldLeases(w) = {}
  BY IdleLocal DEF Init, HeldLeases
<1>6. HeldByOne /\ HoldersKnow
  BY <1>5, IdleLocal DEF HeldByOne, HoldersKnow
<1>7. UnsentAbsent
  BY DEF Init, InboxInit, UnsentAbsent, NoRow
<1>8. ItemOnItsWay
  <2>1. \A k \in Keys : ~Published(k)
    BY MessagesOfJobs DEF Init, InboxInit, Published
  <2> QED  BY <2>1 DEF ItemOnItsWay
<1> QED  BY <1>1, <1>2, <1>3, <1>4, <1>6, <1>7, <1>8 DEF DispatchInv, WorkInv

LEMMA WorkerKeepsInv ==
    ASSUME DispatchInv, NEW w \in Workers,
           ProcessorStep(w) \/ HandlerStep(w) \/ Crash(w)
    PROVE  DispatchInv'
<1>1. CASE ProcessorStep(w)
  <2>1. CASE PullBatch(w)  BY <2>1, PullKeeps
  <2>2. ASSUME NEW l \in Leases, DeferAcceptance(w, l) PROVE DispatchInv'
    BY <2>2, DeferAcceptanceKeeps
  <2>3. ASSUME NEW l \in Leases, SkipJob(w, l) PROVE DispatchInv'
    BY <2>3, SkipJobKeeps
  <2>4. ASSUME NEW l \in Leases, StartJob(w, l) PROVE DispatchInv'
    BY <2>4, StartJobKeeps
  <2>5. CASE FinishJob(w)  BY <2>5, FinishJobKeeps
  <2>6. CASE LoseFinish(w) \/ FinishUnclaimed(w)  BY <2>6, HandlerThrowsKeeps
  <2>7. CASE FailJob(w)  BY <2>7, FailJobKeeps
  <2>8. CASE FailUnclaimed(w)  BY <2>8, CrashKeeps
  <2>9. CASE SettleWork(w)  BY <2>9, SettleWorkKeeps
  <2> QED
    BY <1>1, <2>1, <2>2, <2>3, <2>4, <2>5, <2>6, <2>7, <2>8, <2>9 DEF ProcessorStep
<1>2. CASE HandlerStep(w)
  <2>1. CASE AdmitArticle(w)  BY <2>1, AdmitKeeps
  <2>2. ASSUME NEW e \in Effects, SkipEffect(w, e) PROVE DispatchInv'
    BY <2>2, SkipEffectKeeps
  <2>3. ASSUME NEW e \in Effects, StartEffect(w, e) PROVE DispatchInv'
    BY <2>3, StartEffectKeeps
  <2>4. CASE Deliver(w)  BY <2>4, DeliverKeeps
  <2>5. CASE RecordEffect(w)  BY <2>5, RecordKeeps
  <2>6. CASE ReturnDone(w)  BY <2>6, ReturnDoneKeeps
  <2>7. CASE PublishArticle(w)  BY <2>7, PublishArticleKeeps
  <2>8. CASE \/ LoseEffectClaim(w) \/ LimitItem(w) \/ LoseEffectResult(w)
             \/ LosePublish(w)
    BY <2>8, HandlerThrowsKeeps
  <2> QED
    BY <1>2, <2>1, <2>2, <2>3, <2>4, <2>5, <2>6, <2>7, <2>8 DEF HandlerStep
<1>3. CASE Crash(w)  BY <1>3, CrashKeeps
<1> QED  BY <1>1, <1>2, <1>3

LEMMA StepKeepsDispatch == DispatchInv /\ [Next]_vars => DispatchInv'
<1> SUFFICES ASSUME DispatchInv, [Next]_vars PROVE DispatchInv'
  OBVIOUS
<1>1. ASSUME NEW j \in JobIds, Submit(j) PROVE DispatchInv'
  BY <1>1, SubmitKeeps
<1>2. ASSUME NEW m \in Messages, Stage(m) \/ StageAgain(m) PROVE DispatchInv'
  BY <1>2, StageKeeps
<1>3. ASSUME NEW w \in Workers, ProcessorStep(w) \/ HandlerStep(w) \/ Crash(w)
      PROVE  DispatchInv'
  BY <1>3, WorkerKeepsInv
<1>4. ASSUME NEW o \in ReplayKeys, NEW j \in JobIds, Replay(o, j) PROVE DispatchInv'
  BY <1>4, ReplayKeeps
<1>5. CASE Tick  BY <1>5, TickKeeps
<1>6. CASE UNCHANGED vars
  <2>1. /\ UNCHANGED inboxVars /\ UNCHANGED ledgerVars /\ UNCHANGED effects
        /\ UNCHANGED pipeVars /\ UNCHANGED <<worker, grants>>
        /\ UNCHANGED <<cloud, inbox>>
    BY <1>6 DEF vars, inboxVars, ledgerVars, pipeVars
  <2>2. EffectTypeOK' /\ HistoryTypeOK'
    BY <2>1, EffectSteps, HistorySteps DEF DispatchInv
  <2>3. LeaseInv' /\ LedgerInv'
    BY <2>1, StepKeepsLeases, StepKeepsInv DEF DispatchInv
  <2>4. UnsentAbsent'
    BY <2>1 DEF DispatchInv, WorkInv, UnsentAbsent
  <2>5. \A m \in Messages :
           OnItsWay(m) => Present(m)' /\ inbox'[m].lease \in {inbox[m].lease, NoLease}
    BY <2>1 DEF OnItsWay, Present
  <2>6. \A k \in Keys : Published(k)' /\ ~SettledItem(k)' => Published(k) /\ ~SettledItem(k)
    BY <2>1 DEF Published, SettledItem, ledgerVars
  <2>7. WorkInv' /\ WorkerTypeOK'
    BY <2>1, <2>4, <2>5, <2>6, WorkersStay, MessageStepKeeps
  <2> QED  BY <2>2, <2>3, <2>7 DEF DispatchInv
<1> QED  BY <1>1, <1>2, <1>3, <1>4, <1>5, <1>6 DEF Next, ConsumerStep

LEMMA DispatchInvariant == Spec => []DispatchInv
BY DispatchInvInit, StepKeepsDispatch, PTL DEF Spec

\* The locals of every worker, the rows of the three ledgers and the inbox, and
\* the history keep their types, whatever crashes and whatever is lost
\* (processQueueBatch, job-handler.ts and the requests they make).
THEOREM DispatchTypeCorrect == Spec => []DispatchTypeOK
<1>1. DispatchInv => DispatchTypeOK
  BY DEF DispatchInv, DispatchTypeOK, LeaseInv, LedgerInv, WorkerTypeOK, HistoryTypeOK
<1> QED  BY <1>1, DispatchInvariant, PTL

\* An item that was published and is not settled has a message in the queue or
\* in the inbox: staging before ackAll, a terminal row before the ack, and the
\* deletion of a row by its lease id only lose none.
THEOREM NothingLost == Spec => []NoItemLost
<1>1. DispatchInv => NoItemLost
  BY DEF DispatchInv, WorkInv, ItemOnItsWay, OnItsWay, NoItemLost
<1> QED  BY <1>1, DispatchInvariant, PTL

\* An item that is done was written to each of its destinations, and the article
\* of a link is published: finishJob("done") follows the loop over destinations,
\* whose skips and successes each follow a write, also when claims are outlived.
THEOREM DoneIsWritten == Spec => []DoneMeansWritten
<1>1. Init => WriteInv  BY WriteInvInit
<1>2. DispatchInv /\ WriteInv /\ [Next]_vars => WriteInv'  BY StepKeepsWritten
<1>3. WriteInv => DoneMeansWritten  BY DEF WriteInv
<1> QED  BY <1>1, <1>2, <1>3, DispatchInvariant, PTL DEF Spec
=============================================================================
