------------------------- MODULE ControlPlaneProofs -------------------------
(***************************************************************************)
(* Proofs about the services of the control plane that keep to themselves, *)
(* the sync runs and the rate limits, and about all the services together. *)
(***************************************************************************)
EXTENDS MCControlPlane, InboxLedgerProofs, LifeProofs, FiniteSetTheorems

(***************************************************************************)
(* Proofs about a sync run, for any set of sources: its statistics are     *)
(* what its jobs have come to, and its status is their verdict.            *)
(***************************************************************************)

RunTypeOK ==
    /\ run \in RunRow
    /\ requester \in {"idle", "inserted", "refused", "answered", "thrown", "evicted"}
    /\ sent \in SUBSET JobIds

\* Only jobs of a queued source are ever sent, only sent ones have a row, and
\* before the run is inserted there is nothing.
SentByTheRun ==
    /\ sent \subseteq JobsOf(run.queued)
    /\ \A j \in JobsOf(Sources) : jobs[KeyOf[j]].status # "absent" => j \in sent
    /\ requester = "idle" <=> run.status = "none"
    /\ requester = "idle" => run = NoRun

SyncInv ==
    /\ LedgerInv
    /\ RunTypeOK
    /\ SentByTheRun
    /\ ResultsOfJobs
    /\ StatusIsVerdict

\* what a job in this status has come to, as the statistics put it
Outcome(status) ==
    CASE status = "done" -> "done" [] status = "dead" -> "failed" [] OTHER -> "none"

LEMMA SyncInvInit == SyncInit => SyncInv
<1> SUFFICES ASSUME SyncInit PROVE SyncInv  OBVIOUS
<1>1. LedgerInv  BY LedgerInvInit DEF SyncInit
<1>2. RunTypeOK  BY DEF SyncInit, RunTypeOK, RunRow, NoRun, Results
<1>3. SentByTheRun
  BY LedgerAssumption DEF SyncInit, SentByTheRun, NoRun, JobInit, NoJobRow, JobsOf
<1>4. ResultsOfJobs /\ StatusIsVerdict
  BY DEF SyncInit, NoRun, ResultsOfJobs, StatusIsVerdict
<1> QED  BY <1>1, <1>2, <1>3, <1>4 DEF SyncInv

\* A step that changes no job between open and ended, and neither the run nor,
\* while its status may deviate from the verdict, the requester.
LEMMA QuietStep ==
    ASSUME SyncInv, run' = run,
           requester = "thrown" => requester' = "thrown",
           \A k \in Keys : Outcome(jobs'[k].status) = Outcome(jobs[k].status)
    PROVE  ResultsOfJobs' /\ StatusIsVerdict'
<1>1. \A j \in JobIds : KeyOf[j] \in Keys  BY LedgerAssumption
<1>2. \A k \in Keys : /\ jobs'[k].status = "done" <=> jobs[k].status = "done"
                      /\ jobs'[k].status = "dead" <=> jobs[k].status = "dead"
  BY DEF Outcome
<1>3. ResultsOfJobs'  BY <1>1, <1>2 DEF SyncInv, ResultsOfJobs
<1>4. Verdict' = Verdict  BY <1>1, <1>2 DEF Verdict, JobsOf
<1> QED  BY <1>3, <1>4 DEF SyncInv, StatusIsVerdict

\* A step that ends one open job and advances the run with its result.
LEMMA EndingStep ==
    ASSUME SyncInv, NEW j \in JobsOf(Sources), NEW end \in {"done", "dead"},
           jobs[KeyOf[j]].status \in Open,
           jobs'[KeyOf[j]].status = end,
           \A k \in Keys \ {KeyOf[j]} : jobs'[k] = jobs[k],
           run' = Advance(run, KeyOf[j], Outcome(end)),
           requester' = requester, sent' = sent
    PROVE  RunTypeOK' /\ SentByTheRun' /\ ResultsOfJobs' /\ StatusIsVerdict'
<1> DEFINE k     == KeyOf[j]
           stats == [run.stats EXCEPT ![k] = Outcome(end)]
<1>1. /\ j \in JobIds /\ k \in Sources /\ Sources \subseteq Keys
      /\ \A i \in JobIds : KeyOf[i] \in Keys
      /\ \A i \in JobIds \ {j} : KeyOf[i] # k
  BY LedgerAssumption, SyncAssumption DEF JobsOf
<1>2. j \in sent /\ k \in run.queued /\ run.queued \subseteq Sources
  BY DEF SyncInv, SentByTheRun, JobsOf, RunTypeOK, RunRow, Open
<1>3. run \in RunRow /\ Outcome(end) \in {"done", "failed"}
  BY DEF SyncInv, RunTypeOK, Outcome
<1>4. stats \in [Sources -> Results] /\ stats[k] = Outcome(end)
      /\ \A i \in Sources \ {k} : stats[i] = run.stats[i]
  BY <1>1, <1>3 DEF RunRow, Results
<1>5. run' = [run EXCEPT !.stats = stats,
                         !.status = IF \E s \in run.queued : stats[s] = "none" THEN "running"
                                    ELSE IF \E s \in run.queued : stats[s] = "failed"
                                         THEN "failed" ELSE "done"]
  BY <1>2 DEF Advance
<1> HIDE DEF stats
<1>6. run'.stats = stats /\ run'.queued = run.queued /\ run' \in RunRow
      /\ run'.status # "none"
      /\ run'.status = IF \E s \in run.queued : stats[s] = "none" THEN "running"
                       ELSE IF \E s \in run.queued : stats[s] = "failed"
                            THEN "failed" ELSE "done"
  BY <1>3, <1>4, <1>5 DEF RunRow
<1>7. \A i \in JobIds : KeyOf[i] \in run.queued =>
                           stats[KeyOf[i]] = Outcome(jobs'[KeyOf[i]].status)
  <2> SUFFICES ASSUME NEW i \in JobIds, KeyOf[i] \in run.queued
               PROVE  stats[KeyOf[i]] = Outcome(jobs'[KeyOf[i]].status)
    OBVIOUS
  <2>1. CASE i = j  BY <2>1, <1>4
  <2>2. CASE i # j
    BY <2>2, <1>1, <1>2, <1>4 DEF SyncInv, ResultsOfJobs, Outcome
  <2> QED  BY <2>1, <2>2
<1>8. ResultsOfJobs'  BY <1>6, <1>7 DEF ResultsOfJobs, Outcome
<1>9. \A s \in run.queued : \E i \in JobIds : KeyOf[i] = s
  BY <1>2, SyncAssumption
<1>10. /\ (\E s \in run.queued : stats[s] = "none") <=>
             \E i \in JobsOf(run.queued) : jobs'[KeyOf[i]].status \notin {"done", "dead"}
       /\ (\E s \in run.queued : stats[s] = "failed") <=>
             \E i \in JobsOf(run.queued) : jobs'[KeyOf[i]].status = "dead"
  BY <1>7, <1>9 DEF JobsOf, Outcome
<1>11. run'.status = Verdict'
  BY <1>6, <1>10 DEF Verdict, JobsOf
<1>12. StatusIsVerdict'  BY <1>11 DEF StatusIsVerdict
<1>13. RunTypeOK'  BY <1>6 DEF SyncInv, RunTypeOK
<1>14. requester # "idle"
  BY <1>2 DEF SyncInv, SentByTheRun, NoRun
<1>15. SentByTheRun'
  <2>1. sent' \subseteq JobsOf(run'.queued)
    BY <1>6 DEF SyncInv, SentByTheRun
  <2>2. \A i \in JobsOf(Sources) : jobs'[KeyOf[i]].status # "absent" => i \in sent'
    BY <1>1, <1>2 DEF SyncInv, SentByTheRun, JobsOf
  <2> QED  BY <2>1, <2>2, <1>6, <1>14 DEF SentByTheRun, JobsOf
<1> QED  BY <1>8, <1>12, <1>13, <1>15

-----------------------------------------------------------------------------
\* The steps of requestSync leave the ledger alone.
LEMMA RequesterKeepsInv ==
    ASSUME SyncInv, Requester PROVE SyncInv'
<1> USE DEF ledgerVars
<1>1. LedgerInv'
  BY StepKeepsInv
  DEF SyncInv, Requester, InsertRun, SendJobs, SendFails, MarkFailed, Evict
<1>2. /\ jobs' = jobs
      /\ requester' # "idle"
      /\ requester # "thrown"
  BY DEF Requester, InsertRun, SendJobs, SendFails, MarkFailed, Evict
<1>3. ASSUME NEW sources \in SUBSET Sources, InsertRun(sources)
      PROVE  RunTypeOK' /\ SentByTheRun' /\ ResultsOfJobs' /\ StatusIsVerdict'
  <2>1. run = NoRun /\ sent = {} /\ \A j \in JobsOf(Sources) : jobs[KeyOf[j]].status = "absent"
    BY <1>3 DEF InsertRun, SyncInv, SentByTheRun, NoRun, JobsOf
  <2>2. /\ run'.queued = sources
        /\ run'.stats = [k \in Sources |-> "none"]
        /\ run'.status = IF sources = {} THEN "done" ELSE "running"
        /\ run' \in RunRow
    BY <1>3 DEF InsertRun, NoRun, RunRow, Results
  <2>3. RunTypeOK' /\ SentByTheRun'
    BY <1>2, <1>3, <2>1, <2>2 DEF InsertRun, RunTypeOK, SentByTheRun
  <2>4. ResultsOfJobs'
    BY <1>2, <2>1, <2>2 DEF ResultsOfJobs, JobsOf
  <2>5. sources # {} => \E j \in JobIds : KeyOf[j] \in sources
    BY SyncAssumption
  <2>6. run'.status = Verdict'
    BY <1>2, <2>1, <2>2, <2>5 DEF Verdict, JobsOf
  <2> QED  BY <2>3, <2>4, <2>6 DEF StatusIsVerdict
<1>4. ASSUME run' = run, requester # "idle", sent' \in {sent, JobsOf(run.queued)},
             requester' \in {"refused", "answered", "evicted"}
      PROVE  RunTypeOK' /\ SentByTheRun' /\ ResultsOfJobs' /\ StatusIsVerdict'
  <2>1. ResultsOfJobs' /\ StatusIsVerdict'  BY <1>2, <1>4, QuietStep
  <2>2. RunTypeOK'  BY <1>4 DEF SyncInv, RunTypeOK, JobsOf
  <2>3. sent \subseteq sent' /\ sent' \subseteq JobsOf(run.queued)
    BY <1>4 DEF SyncInv, SentByTheRun
  <2>4. SentByTheRun'
    BY <1>2, <1>4, <2>3 DEF SyncInv, SentByTheRun, JobsOf
  <2> QED  BY <2>1, <2>2, <2>4
<1>5. CASE SendJobs  BY <1>1, <1>4, <1>5 DEF SendJobs, SyncInv
<1>6. CASE SendFails  BY <1>1, <1>4, <1>6 DEF SendFails, SyncInv
<1>7. CASE Evict  BY <1>1, <1>4, <1>7 DEF Evict, SyncInv
<1>8. CASE MarkFailed
  <2>1. /\ run'.status = "failed" /\ run'.queued = run.queued /\ run'.stats = run.stats
        /\ run' \in RunRow
    BY <1>8 DEF MarkFailed, SyncInv, RunTypeOK, RunRow
  <2>2. requester' = "thrown" /\ sent' = sent /\ requester # "idle"
    BY <1>8 DEF MarkFailed
  <2>3. RunTypeOK' /\ SentByTheRun'
    BY <1>2, <2>1, <2>2 DEF SyncInv, RunTypeOK, SentByTheRun, JobsOf
  <2>4. ResultsOfJobs'  BY <1>2, <2>1 DEF SyncInv, ResultsOfJobs
  <2>5. StatusIsVerdict'  BY <2>1, <2>2 DEF StatusIsVerdict
  <2> QED  BY <2>3, <2>4, <2>5, <1>1 DEF SyncInv
<1> QED
  BY <1>1, <1>3, <1>5, <1>6, <1>7, <1>8 DEF Requester, SyncInv

\* A ledger step that leaves every ended job ended and every open one open.
LEMMA OpenStepKeepsInv ==
    ASSUME SyncInv, LedgerInv', UNCHANGED <<run, requester, sent>>,
           \A k \in Keys : Outcome(jobs'[k].status) = Outcome(jobs[k].status),
           \A j \in JobsOf(Sources) : jobs'[KeyOf[j]].status # "absent" => j \in sent
    PROVE  SyncInv'
<1>1. ResultsOfJobs' /\ StatusIsVerdict'  BY QuietStep
<1>2. RunTypeOK' /\ SentByTheRun'
  BY DEF SyncInv, RunTypeOK, SentByTheRun, JobsOf
<1> QED  BY <1>1, <1>2 DEF SyncInv

LEMMA CollectKeepsInv ==
    ASSUME SyncInv, NEW j \in JobIds, Collect(j) PROVE SyncInv'
<1> DEFINE k == KeyOf[j]
<1>1. LedgerInv'  BY ClaimKeepsInv DEF SyncInv, Collect
<1>2. /\ k \in Keys /\ jobs \in [Keys -> JobRow]
      /\ jobs[k].status \notin {"done", "dead"}
      /\ jobs'[k].status = "processing"
      /\ \A i \in Keys \ {k} : jobs'[i] = jobs[i]
  BY LedgerAssumption
  DEF SyncInv, LedgerInv, JobTypeOK, Collect, ClaimJob, Claimable, Duplicate, Terminal
<1>3. \A i \in Keys : Outcome(jobs'[i].status) = Outcome(jobs[i].status)
  BY <1>2 DEF Outcome
<1>4. j \in sent /\ UNCHANGED <<run, requester, sent>>  BY DEF Collect
<1>5. \A i \in JobsOf(Sources) : jobs'[KeyOf[i]].status # "absent" => i \in sent
  BY <1>2, <1>4, LedgerAssumption, SyncAssumption DEF SyncInv, SentByTheRun, JobsOf
<1> QED  BY <1>1, <1>3, <1>4, <1>5, OpenStepKeepsInv

LEMMA CollectDoneKeepsInv ==
    ASSUME SyncInv, NEW j \in JobsOf(Sources), CollectDone(j) PROVE SyncInv'
<1> DEFINE k == KeyOf[j]
<1>1. LedgerInv'  BY FinishDoneKeepsInv DEF SyncInv, CollectDone, JobsOf
<1>2. k \in Keys /\ jobs \in [Keys -> JobRow] /\ jobs[k].status \in Open
  BY OpenedRow DEF SyncInv, LedgerInv, JobTypeOK, CollectDone, FinishDone, JobsOf
<1>3. /\ jobs'[k].status = "done"
      /\ \A i \in Keys \ {k} : jobs'[i] = jobs[i]
  BY <1>2 DEF CollectDone, FinishDone, JobRow
<1>4. run' = Advance(run, k, Outcome("done"))  BY DEF CollectDone, Outcome
<1>5. UNCHANGED <<requester, sent>>  BY DEF CollectDone
<1> HIDE DEF k
<1>6. RunTypeOK' /\ SentByTheRun' /\ ResultsOfJobs' /\ StatusIsVerdict'
  BY <1>2, <1>3, <1>4, <1>5, EndingStep DEF k
<1> QED  BY <1>1, <1>6 DEF SyncInv

LEMMA CollectFailedKeepsInv ==
    ASSUME SyncInv, NEW j \in JobsOf(Sources), NEW permanent \in BOOLEAN, CollectFailed(j, permanent)
    PROVE  SyncInv'
<1> DEFINE k     == KeyOf[j]
           fatal == Fatal(jobs[k], permanent)
<1>1. LedgerInv'  BY FinishFailedKeepsInv DEF SyncInv, CollectFailed, JobsOf
<1>2. k \in Keys /\ jobs \in [Keys -> JobRow] /\ jobs[k].status \in Open
  BY OpenedRow DEF SyncInv, LedgerInv, JobTypeOK, CollectFailed, FinishFailed, JobsOf
<1>3. /\ jobs'[k].status = IF fatal THEN "dead" ELSE "failed"
      /\ \A i \in Keys \ {k} : jobs'[i] = jobs[i]
  BY <1>2 DEF CollectFailed, FinishFailed, JobRow
<1>4. UNCHANGED <<requester, sent>>  BY DEF CollectFailed
<1>5. run' = IF fatal THEN Advance(run, k, "failed") ELSE run  BY DEF CollectFailed
<1> HIDE DEF k, fatal
<1>6. CASE fatal
  <2>1. run' = Advance(run, k, Outcome("dead"))  BY <1>5, <1>6 DEF Outcome
  <2>2. RunTypeOK' /\ SentByTheRun' /\ ResultsOfJobs' /\ StatusIsVerdict'
    BY <1>2, <1>3, <1>4, <1>6, <2>1, EndingStep DEF k
  <2> QED  BY <1>1, <2>2 DEF SyncInv
<1>7. CASE ~fatal
  <2>1. \A i \in Keys : Outcome(jobs'[i].status) = Outcome(jobs[i].status)
    BY <1>2, <1>3, <1>7 DEF Outcome, Open
  <2>2. \A i \in JobsOf(Sources) : jobs'[KeyOf[i]].status # "absent" => i \in sent
    BY <1>2, <1>3, LedgerAssumption, SyncAssumption
    DEF SyncInv, SentByTheRun, JobsOf, Open, k
  <2> QED  BY <1>1, <1>4, <1>5, <1>7, <2>1, <2>2, OpenStepKeepsInv
<1> QED  BY <1>6, <1>7

LEMMA SyncTickKeepsInv == ASSUME SyncInv, SyncTick PROVE SyncInv'
<1>1. LedgerInv'  BY TickKeepsInv DEF SyncInv, SyncTick
<1>2. \A k \in Keys : jobs'[k].status = jobs[k].status
  <2> SUFFICES ASSUME NEW k \in Keys PROVE Older(jobs[k]).status = jobs[k].status
    BY DEF SyncTick, JobTick
  <2>1. jobs[k] \in JobRow  BY DEF SyncInv, LedgerInv, JobTypeOK
  <2> QED  BY <2>1 DEF Older, JobRow
<1>3. UNCHANGED <<run, requester, sent>>  BY DEF SyncTick
<1>4. \A j \in JobsOf(Sources) : jobs'[KeyOf[j]].status # "absent" => j \in sent
  BY <1>2, LedgerAssumption DEF SyncInv, SentByTheRun, JobsOf
<1> QED  BY <1>1, <1>2, <1>3, <1>4, OpenStepKeepsInv

LEMMA SyncStepKeepsInv == SyncInv /\ [SyncNext]_syncVars => SyncInv'
<1> SUFFICES ASSUME SyncInv, [SyncNext]_syncVars PROVE SyncInv'  OBVIOUS
<1>1. CASE Requester  BY <1>1, RequesterKeepsInv
<1>2. ASSUME NEW j \in JobsOf(Sources), Collect(j) PROVE SyncInv'  BY <1>2, CollectKeepsInv DEF JobsOf
<1>3. ASSUME NEW j \in JobsOf(Sources), Finish(j) PROVE SyncInv'
  BY <1>3, CollectDoneKeepsInv, CollectFailedKeepsInv DEF Finish
<1>4. CASE SyncTick  BY <1>4, SyncTickKeepsInv
<1>5. CASE UNCHANGED syncVars
  BY <1>5
  DEF syncVars, ledgerVars, SyncInv, LedgerInv, JobTypeOK, RowNamesItsJob,
      EnvelopeOfClaimedKey, BudgetKept, DeadEnvelopeHasDeadJob, OneEnvelopePerKey, HasRow,
      RunTypeOK, SentByTheRun, ResultsOfJobs, StatusIsVerdict, Verdict, JobsOf
<1>6. ASSUME NEW j \in JobsOf(Sources), CollectAgain(j) PROVE SyncInv'
  BY <1>5, <1>6 DEF CollectAgain, FinishAgain, syncVars
<1> QED  BY <1>1, <1>2, <1>3, <1>4, <1>5, <1>6 DEF SyncNext

LEMMA SyncInvariant == SyncSpec => []SyncInv
<1>1. SyncInit => SyncInv  BY SyncInvInit
<1>2. SyncInv /\ [SyncNext]_syncVars => SyncInv'  BY SyncStepKeepsInv
<1> QED  BY <1>1, <1>2, PTL DEF SyncSpec

-----------------------------------------------------------------------------
\* For any sources: the statistics advanceSyncJob keeps in a run are what
\* finishJob has written into the run's jobs.
THEOREM ResultsCorrect == SyncSpec => []ResultsOfJobs
<1>1. SyncInv => ResultsOfJobs  BY DEF SyncInv
<1> QED  BY <1>1, SyncInvariant, PTL

\* For any sources, completed in any order and delivered any number of times:
\* the status of a run is the verdict over its jobs, unless its requester saw
\* the send fail.
THEOREM VerdictCorrect == SyncSpec => []StatusIsVerdict
<1>1. SyncInv => StatusIsVerdict  BY DEF SyncInv
<1> QED  BY <1>1, SyncInvariant, PTL

\* For any sources: what the console reads in a run's row is true of its jobs.
THEOREM RunTrue == SyncSpec => []RunTellsJobs
<1>1. SyncInv => RunTellsJobs  BY DEF SyncInv, RunTellsJobs
<1> QED  BY <1>1, SyncInvariant, PTL

-----------------------------------------------------------------------------
(***************************************************************************)
(* The rate limits keep their promise for any scopes, limits, windows and  *)
(* number of workers.  A grant is counted by the row of its bucket because *)
(* that row cannot expire while the bucket lasts, and a bucket that is     *)
(* over never becomes the current one again.                               *)
(***************************************************************************)

Row   == [count : Nat, expires : Nat]
Entry == [known : BOOLEAN, bucket : Buckets, count : Nat, expires : Nat]

CurrentBucket(s) == BucketOf[s][now]

\* no time has been in the bucket yet
Unseen(s, b) == \A t \in Times : t <= now => BucketOf[s][t] # b

Shape ==
    /\ now \in Times
    /\ rows \in [Singles -> [Buckets -> Row]]
    /\ batch \in [Batched -> Entry]
    /\ granted \in [Scopes -> [Buckets -> Nat]]
    /\ calls = [c \in Callers |-> calls[c]]

\* a request under way was sent within MaxLate, and for a scope of its kind
CallsInTime ==
    \A c \in Callers :
        UnderWay(c) =>
            /\ calls[c].at \in Times
            /\ calls[c].at <= now /\ now <= calls[c].at + MaxLate
            /\ calls[c].phase = "single" => calls[c].scope \in Singles

FutureIsEmpty ==
    \A s \in Scopes : \A b \in Buckets :
        Unseen(s, b) =>
            /\ granted[s][b] = 0
            /\ s \in Singles => rows[s][b].count = 0
            /\ s \in Batched => ~Existing(batch, s, b)

\* the row of a bucket outlasts it, and counts what was granted for it
RowsCount ==
    \A s \in Singles : \A b \in Buckets :
        /\ rows[s][b].count <= Limit[s]
        /\ rows[s][b].count > 0 /\ b = CurrentBucket(s) => EndOf[s][b] <= rows[s][b].expires
        /\ b = CurrentBucket(s) => granted[s][b] <= rows[s][b].count

\* and so does the entry of the batch, if it is the current bucket's
EntriesCount ==
    \A s \in Batched :
        /\ batch[s].count <= Limit[s]
        /\ Existing(batch, s, CurrentBucket(s)) =>
              /\ EndOf[s][CurrentBucket(s)] <= batch[s].expires
              /\ granted[s][CurrentBucket(s)] <= batch[s].count
        /\ ~Existing(batch, s, CurrentBucket(s)) => granted[s][CurrentBucket(s)] = 0

SinglesInv == Shape /\ CallsInTime /\ FutureIsEmpty /\ RowsCount /\ SingleLimitKept
BatchInv   == Shape /\ CallsInTime /\ FutureIsEmpty /\ EntriesCount /\ BatchLimitKept

\* The assumption in the forms the steps use.
LEMMA BucketFacts ==
    ASSUME NEW s \in Scopes
    PROVE  /\ Limit[s] \in Nat \ {0} /\ Length[s] \in Nat
           /\ \A t \in Times :
                 /\ BucketOf[s][t] \in Buckets
                 /\ EndOf[s][BucketOf[s][t]] \in Nat
                 /\ t < EndOf[s][BucketOf[s][t]]
                 /\ EndOf[s][BucketOf[s][t]] <= t + Length[s]
           /\ \A t, u, v \in Times :
                 t <= u /\ u <= v /\ BucketOf[s][t] = BucketOf[s][v]
                 => BucketOf[s][u] = BucketOf[s][t]
BY RateAssumption DEF Scopes

\* When the clock moves on, the current bucket is the old one or a new one.
LEMMA NewBucketUnseen ==
    ASSUME now \in Times, now' \in Times, now' = now + 1, NEW s \in Scopes
    PROVE  CurrentBucket(s)' = CurrentBucket(s) \/ Unseen(s, BucketOf[s][now'])
<1> SUFFICES ASSUME NEW t \in Times, t <= now, BucketOf[s][t] = BucketOf[s][now']
             PROVE  BucketOf[s][now'] = BucketOf[s][now]
    BY DEF CurrentBucket, Unseen
<1>1. now <= now'
    BY RateAssumption DEF Times
<1> QED BY <1>1, BucketFacts

-----------------------------------------------------------------------------
\* What every step keeps whatever it is about.
LEMMA InitInv == RateInit => SinglesInv /\ BatchInv
<1> SUFFICES ASSUME RateInit PROVE SinglesInv /\ BatchInv
    OBVIOUS
<1>1. 0 \in Times
    BY RateAssumption DEF Times
<1>2. Shape
  <2>1. \A s \in Batched : NoEntry \in Entry
      BY <1>1, BucketFacts DEF NoEntry, Entry, Scopes
  <2> QED BY <1>1, <2>1 DEF RateInit, Shape, NoBucket, Row
<1>3. CallsInTime
    BY DEF RateInit, CallsInTime, UnderWay, NoCall
<1>4. FutureIsEmpty
    BY DEF RateInit, FutureIsEmpty, Existing, NoEntry, NoBucket, Scopes
<1>5. RowsCount /\ SingleLimitKept
    BY BucketFacts DEF RateInit, RowsCount, SingleLimitKept, NoBucket, Scopes
<1>6. EntriesCount /\ BatchLimitKept
  <2>1. \A s \in Batched : ~Existing(batch, s, CurrentBucket(s)) /\ batch[s].count = 0
      BY DEF RateInit, Existing, NoEntry
  <2>2. \A s \in Batched : CurrentBucket(s) \in Buckets
      BY <1>1, BucketFacts DEF RateInit, CurrentBucket, Scopes
  <2> QED BY <2>1, <2>2, BucketFacts
             DEF RateInit, EntriesCount, BatchLimitKept, Scopes
<1> QED BY <1>2, <1>3, <1>4, <1>5, <1>6 DEF SinglesInv, BatchInv

-----------------------------------------------------------------------------
(***************************************************************************)
(* What every step keeps, whatever it is about                             *)
(***************************************************************************)
Common == Shape /\ CallsInTime /\ FutureIsEmpty

\* A request asks for a bucket that some time has been in.
LEMMA AskedIsSeen ==
    ASSUME Common, NEW c \in Callers, UnderWay(c), NEW s \in Scopes
    PROVE  Asked(c, s) \in Buckets /\ ~Unseen(s, Asked(c, s))
BY BucketFacts DEF Common, CallsInTime, Asked, Unseen

\* A grant counts only for the current bucket of its scope.
LEMMA GrantFacts ==
    ASSUME Shape, NEW scopes, NEW bucket, CountGrants(scopes, bucket)
    PROVE  /\ granted' \in [Scopes -> [Buckets -> Nat]]
           /\ \A s \in Scopes : \A b \in Buckets :
                 granted'[s][b] = IF s \in scopes /\ b = bucket[s] /\ b = CurrentBucket(s)
                                  THEN granted[s][b] + 1 ELSE granted[s][b]
BY DEF Shape, CountGrants, CurrentBucket

\* Only the call of the caller changes.
LEMMA CallsUpdated ==
    ASSUME Shape, NEW c \in Callers, NEW x, calls' = [calls EXCEPT ![c] = x]
    PROVE  /\ calls' = [d \in Callers |-> calls'[d]]
           /\ calls'[c] = x
           /\ \A d \in Callers : d # c => calls'[d] = calls[d]
<1>1. DOMAIN calls = Callers
    BY DEF Shape
<1> QED BY <1>1

\* An answered or refused request is no longer under way.
LEMMA CallEnded ==
    ASSUME Shape, NEW c \in Callers, NEW until, NEW refusing,
           Answer(c) \/ Refuse(c, until, refusing), UnderWay(c)
    PROVE  /\ calls' = [d \in Callers |-> calls'[d]]
           /\ ~UnderWay(c)'
           /\ \A d \in Callers : d # c => calls'[d] = calls[d]
<1>1. CASE Answer(c)
    BY <1>1, CallsUpdated DEF Answer, NoCall, UnderWay
<1>2. CASE Refuse(c, until, refusing)
    BY <1>2, CallsUpdated DEF Refuse, UnderWay
<1> QED BY <1>1, <1>2

LEMMA SendCommon ==
    ASSUME Common, NEW c \in Callers, SendSingle(c) \/ SendBatch(c)
    PROVE  Common'
<1> PICK phase, s : /\ Ask(c, phase, s)
                    /\ phase \in {"single", "batch"}
                    /\ phase = "single" => s \in Singles
    BY DEF SendSingle, SendBatch
<1>0. /\ calls' = [d \in Callers |-> calls'[d]]
      /\ calls'[c] = [NoCall EXCEPT !.phase = phase, !.at = now, !.scope = s]
      /\ \A d \in Callers : d # c => calls'[d] = calls[d]
    BY CallsUpdated DEF Ask, Common, Shape
<1>1. Shape'
    BY <1>0 DEF Ask, Common, Shape
<1>2. CallsInTime'
  <2> SUFFICES ASSUME NEW d \in Callers, UnderWay(d)'
               PROVE  /\ calls'[d].at \in Times
                      /\ calls'[d].at <= now /\ now <= calls'[d].at + MaxLate
                      /\ calls'[d].phase = "single" => calls'[d].scope \in Singles
      BY DEF CallsInTime, Ask
  <2>1. CASE d = c
    <3>1. calls'[c].at = now /\ calls'[c].phase = phase /\ calls'[c].scope = s
        BY <1>0 DEF NoCall
    <3> QED BY <2>1, <3>1, RateAssumption DEF Common, Shape, Times, Ask
  <2>2. CASE d # c
      BY <1>0, <2>2 DEF Ask, Common, CallsInTime, UnderWay
  <2> QED BY <2>1, <2>2
<1>3. FutureIsEmpty'
    BY DEF Ask, Common, FutureIsEmpty, Unseen, Existing
<1> QED BY <1>1, <1>2, <1>3 DEF Common

LEMMA TickCommon ==
    ASSUME Common, RateTick
    PROVE  Common'
<1>1. now' \in Times /\ now' = now + 1
    BY RateAssumption DEF RateTick, Common, Shape, Times
<1>2. Shape'
    BY <1>1 DEF RateTick, Common, Shape
<1>3. CallsInTime'
  <2> SUFFICES ASSUME NEW c \in Callers, UnderWay(c)
               PROVE  /\ calls[c].at \in Times
                      /\ calls[c].at <= now + 1 /\ now + 1 <= calls[c].at + MaxLate
                      /\ calls[c].phase = "single" => calls[c].scope \in Singles
    BY <1>1 DEF RateTick, CallsInTime, UnderWay
  <2>1. /\ calls[c].at \in Times /\ calls[c].at <= now
        /\ calls[c].phase = "single" => calls[c].scope \in Singles
    BY DEF Common, CallsInTime
  <2>2. now < calls[c].at + MaxLate  BY DEF RateTick
  <2>3. now \in Nat /\ calls[c].at \in Nat /\ MaxLate \in Nat
    BY <2>1, RateAssumption DEF Common, Shape, Times
  <2> QED  BY <2>1, <2>2, <2>3
<1>4. FutureIsEmpty'
  <2>1. \A s \in Scopes : \A b \in Buckets : Unseen(s, b)' => Unseen(s, b)
      BY <1>1 DEF Unseen, Times, Common, Shape
  <2> QED BY <2>1 DEF RateTick, Common, FutureIsEmpty, Existing
<1> QED BY <1>2, <1>3, <1>4 DEF Common

LEMMA ConsumeSingleCommon ==
    ASSUME Common, NEW c \in Callers, ConsumeSingle(c)
    PROVE  Common'
<1> DEFINE s == calls[c].scope
           b == Asked(c, s)
<1>1. UnderWay(c) /\ s \in Singles /\ s \in Scopes
    BY DEF ConsumeSingle, UnderWay, Common, CallsInTime, Scopes
<1>2. b \in Buckets /\ ~Unseen(s, b)
    BY <1>1, AskedIsSeen
<1>3. Consumed(s, rows[s][b]) \in Row
    BY <1>1, <1>2, BucketFacts DEF Consumed, Row, Common, Shape, Times
<1>4. granted' \in [Scopes -> [Buckets -> Nat]]
    BY GrantFacts DEF ConsumeSingle, Common, Shape
<1>0. /\ calls' = [d \in Callers |-> calls'[d]]
      /\ ~UnderWay(c)'
      /\ \A d \in Callers : d # c => calls'[d] = calls[d]
  <2>1. Answer(c) \/ Refuse(c, rows[s][b].expires, {s})
      BY DEF ConsumeSingle
  <2> QED BY <1>1, <2>1, CallEnded DEF Common
<1>5. Shape'
  <2>1. rows' \in [Singles -> [Buckets -> Row]]
    <3>1. CASE UNCHANGED rows
        BY <3>1 DEF Common, Shape
    <3>2. CASE rows' = [rows EXCEPT ![s][b] = Consumed(s, rows[s][b])]
      <4>1. rows \in [Singles -> [Buckets -> Row]]
          BY DEF Common, Shape
      <4> HIDE DEF s, b
      <4> QED BY <3>2, <4>1, <1>1, <1>2, <1>3
    <3> QED BY <3>1, <3>2 DEF ConsumeSingle
  <2> QED BY <1>0, <1>4, <2>1 DEF ConsumeSingle, Common, Shape
<1>6. CallsInTime'
    BY <1>0 DEF ConsumeSingle, Common, CallsInTime, UnderWay
<1>7. FutureIsEmpty'
  <2> SUFFICES ASSUME NEW r \in Scopes, NEW e \in Buckets, Unseen(r, e)
               PROVE  /\ granted'[r][e] = 0
                      /\ r \in Singles => rows'[r][e].count = 0
                      /\ r \in Batched => ~Existing(batch, r, e)
      BY DEF FutureIsEmpty, Unseen, ConsumeSingle, Existing
  <2>1. <<r, e>> # <<s, b>>
      BY <1>2
  <2>2. granted[r][e] = 0 /\ (r \in Singles => rows[r][e].count = 0)
                         /\ (r \in Batched => ~Existing(batch, r, e))
      BY DEF Common, FutureIsEmpty
  <2>3. granted'[r][e] = 0
    <3>1. CASE granted' = granted
        BY <3>1, <2>2
    <3>2. CASE CountGrants({s}, [x \in {s} |-> b])
        BY <3>2, <2>1, <2>2, GrantFacts DEF Common
    <3> QED BY <3>1, <3>2 DEF ConsumeSingle
  <2>4. r \in Singles => rows'[r][e] = rows[r][e]
      BY <1>1, <1>2, <2>1 DEF ConsumeSingle, Common, Shape
  <2> QED BY <2>2, <2>3, <2>4
<1> QED BY <1>5, <1>6, <1>7 DEF Common

LEMMA ConsumeBatchCommon ==
    ASSUME Common, NEW c \in Callers, ConsumeBatch(c)
    PROVE  Common'
<1> DEFINE bucket == [s \in Batched |-> Asked(c, s)]
<1>1. UnderWay(c)
    BY DEF ConsumeBatch, UnderWay
<1>2. \A s \in Batched : bucket[s] \in Buckets /\ ~Unseen(s, bucket[s])
    BY <1>1, AskedIsSeen DEF Scopes
<1>3. NextEntries(batch, bucket) \in [Batched -> Entry]
  <2> SUFFICES ASSUME NEW s \in Batched
               PROVE  NextEntries(batch, bucket)[s] \in Entry
      BY DEF NextEntries
  <2>1. batch[s] \in Entry /\ now \in Nat /\ Length[s] \in Nat
      BY BucketFacts DEF Common, Shape, Times, Scopes
  <2>2. Count(batch, s, bucket[s]) \in Nat
      BY <2>1 DEF Count, Entry
  <2> QED BY <1>2, <2>1, <2>2 DEF NextEntries, Entry
<1>4. granted' \in [Scopes -> [Buckets -> Nat]]
    BY GrantFacts DEF ConsumeBatch, Common, Shape
<1>0. /\ calls' = [d \in Callers |-> calls'[d]]
      /\ ~UnderWay(c)'
      /\ \A d \in Callers : d # c => calls'[d] = calls[d]
  <2>1. \/ Answer(c)
        \/ Refuse(c, RetryAt(batch, Refusing(batch, bucket)), Refusing(batch, bucket))
      BY DEF ConsumeBatch
  <2> QED BY <1>1, <2>1, CallEnded DEF Common
<1>5. Shape'
    BY <1>0, <1>3, <1>4 DEF ConsumeBatch, Common, Shape
<1>6. CallsInTime'
    BY <1>0 DEF ConsumeBatch, Common, CallsInTime, UnderWay
<1>7. FutureIsEmpty'
  <2> SUFFICES ASSUME NEW r \in Scopes, NEW e \in Buckets, Unseen(r, e)
               PROVE  /\ granted'[r][e] = 0
                      /\ r \in Singles => rows[r][e].count = 0
                      /\ r \in Batched => ~Existing(batch', r, e)
      BY DEF FutureIsEmpty, Unseen, ConsumeBatch, Existing
  <2>1. r \in Batched => e # bucket[r]
      BY <1>2
  <2>2. granted[r][e] = 0 /\ (r \in Singles => rows[r][e].count = 0)
                         /\ (r \in Batched => ~Existing(batch, r, e))
      BY DEF Common, FutureIsEmpty
  <2>3. granted'[r][e] = 0
    <3>1. CASE granted' = granted
        BY <3>1, <2>2
    <3>2. CASE CountGrants(Batched, bucket)
        BY <3>2, <2>1, <2>2, GrantFacts DEF Common
    <3> QED BY <3>1, <3>2 DEF ConsumeBatch
  <2>4. r \in Batched => ~Existing(batch', r, e)
      BY <2>1, <2>2 DEF ConsumeBatch, NextEntries, Existing
  <2> QED BY <2>2, <2>3, <2>4
<1> QED BY <1>5, <1>6, <1>7 DEF Common

-----------------------------------------------------------------------------
(***************************************************************************)
(* One scope at a time                                                     *)
(***************************************************************************)
\* The row of the current bucket is live if anything was granted for it.
LEMMA CurrentRowIsLive ==
    ASSUME SinglesInv, NEW s \in Singles, NEW b \in Buckets, b = CurrentBucket(s)
    PROVE  rows[s][b].count = 0 \/ Live(rows[s][b])
<1>1. rows[s][b] \in Row /\ now \in Times
    BY DEF SinglesInv, Shape
<1>2. EndOf[s][b] \in Nat /\ now < EndOf[s][b]
    BY <1>1, BucketFacts DEF CurrentBucket, Scopes
<1> QED BY <1>1, <1>2 DEF SinglesInv, RowsCount, Live, Row, Times

LEMMA ConsumeSingleCounts ==
    ASSUME SinglesInv, NEW c \in Callers, ConsumeSingle(c)
    PROVE  RowsCount' /\ SingleLimitKept'
<1> DEFINE s == calls[c].scope
           b == Asked(c, s)
<1>0. Common
    BY DEF SinglesInv, Common
<1>1. UnderWay(c) /\ s \in Singles /\ s \in Scopes
    BY DEF ConsumeSingle, UnderWay, SinglesInv, CallsInTime, Scopes
<1>2. b \in Buckets
    BY <1>0, <1>1, AskedIsSeen
<1>3. CASE Full(s, rows[s][b])
    BY <1>3 DEF ConsumeSingle, SinglesInv, RowsCount, SingleLimitKept, CurrentBucket
<1>4. CASE ~Full(s, rows[s][b])
  <2>1. /\ rows' = [rows EXCEPT ![s][b] = Consumed(s, rows[s][b])]
        /\ CountGrants({s}, [x \in {s} |-> b])
        /\ now' = now
      BY <1>4 DEF ConsumeSingle
  <2> HIDE DEF s, b
  <2> SUFFICES ASSUME NEW r \in Singles, NEW e \in Buckets
               PROVE  /\ rows'[r][e].count <= Limit[r]
                      /\ rows'[r][e].count > 0 /\ e = CurrentBucket(r)
                            => EndOf[r][e] <= rows'[r][e].expires
                      /\ e = CurrentBucket(r) => granted'[r][e] <= rows'[r][e].count
                      /\ granted'[r][e] <= Limit[r]
      BY <2>1 DEF RowsCount, SingleLimitKept, CurrentBucket
  <2>2. /\ rows \in [Singles -> [Buckets -> Row]] /\ rows[r][e] \in Row
        /\ granted[r][e] \in Nat /\ now \in Nat /\ now \in Times
        /\ r \in Scopes /\ Limit[r] \in Nat \ {0} /\ Length[r] \in Nat
      BY BucketFacts DEF SinglesInv, Shape, Scopes, Times
  <2>3. granted'[r][e] = IF r \in {s} /\ e = [x \in {s} |-> b][r] /\ e = CurrentBucket(r)
                         THEN granted[r][e] + 1 ELSE granted[r][e]
      BY <2>1, <2>2, GrantFacts DEF SinglesInv
  <2>4. /\ rows[r][e].count <= Limit[r] /\ granted[r][e] <= Limit[r]
        /\ rows[r][e].count > 0 /\ e = CurrentBucket(r) => EndOf[r][e] <= rows[r][e].expires
        /\ e = CurrentBucket(r) => granted[r][e] <= rows[r][e].count
      BY DEF SinglesInv, RowsCount, SingleLimitKept
  <2>5. CASE r = s /\ e = b
    <3>1. rows'[r][e] = Consumed(r, rows[r][e])
        BY <1>1, <1>2, <2>1, <2>2, <2>5
    <3>2. CASE Live(rows[r][e])
      <4>1. /\ rows'[r][e].count = rows[r][e].count + 1
            /\ rows'[r][e].expires = rows[r][e].expires
          BY <2>2, <3>1, <3>2 DEF Consumed, Row
      <4>2. rows[r][e].count < Limit[r] /\ rows[r][e].count > 0
          BY <1>4, <2>2, <2>5, <3>2 DEF Full, Live, Row
      <4> QED BY <2>2, <2>3, <2>4, <4>1, <4>2 DEF Row
    <3>3. CASE ~Live(rows[r][e])
      <4>1. rows'[r][e].count = 1 /\ rows'[r][e].expires = now + Length[r]
          BY <3>1, <3>3 DEF Consumed
      <4>2. e = CurrentBucket(r) => granted[r][e] = 0
          BY <2>2, <2>4, <3>3, CurrentRowIsLive DEF Row
      <4>3. e = CurrentBucket(r) => EndOf[r][e] <= now + Length[r]
          BY <2>2, BucketFacts DEF CurrentBucket
      <4> QED BY <2>2, <2>3, <2>4, <4>1, <4>2, <4>3
    <3> QED BY <3>2, <3>3
  <2>6. CASE ~(r = s /\ e = b)
    <3>1. rows'[r][e] = rows[r][e]
        BY <1>1, <1>2, <2>1, <2>2, <2>6
    <3>2. granted'[r][e] = granted[r][e]
        BY <2>3, <2>6
    <3> QED BY <2>4, <3>1, <3>2
  <2> QED BY <2>5, <2>6
<1> QED BY <1>3, <1>4

LEMMA SinglesStep == SinglesInv /\ [RateNext]_rateVars => SinglesInv'
<1> SUFFICES ASSUME SinglesInv, [RateNext]_rateVars PROVE SinglesInv'
    OBVIOUS
<1>0. Common
    BY DEF SinglesInv, Common
<1>1. ASSUME NEW c \in Callers, SendSingle(c) \/ SendBatch(c)
      PROVE  SinglesInv'
  <2>1. Common'
      BY <1>0, <1>1, SendCommon
  <2>2. UNCHANGED <<now, rows, granted>>
      BY <1>1 DEF SendSingle, SendBatch, Ask
  <2> QED BY <2>1, <2>2 DEF SinglesInv, Common, RowsCount, SingleLimitKept, CurrentBucket
<1>2. ASSUME NEW c \in Callers, ConsumeSingle(c)
      PROVE  SinglesInv'
    BY <1>0, <1>2, ConsumeSingleCommon, ConsumeSingleCounts DEF SinglesInv, Common
<1>3. ASSUME NEW c \in Callers, ConsumeBatch(c)
      PROVE  SinglesInv'
  <2>1. Common'
      BY <1>0, <1>3, ConsumeBatchCommon
  <2>2. UNCHANGED <<now, rows>>
      BY <1>3 DEF ConsumeBatch
  <2>3. \A s \in Singles : \A b \in Buckets : granted'[s][b] = granted[s][b]
    <3>1. CASE granted' = granted
        BY <3>1
    <3>2. CASE CountGrants(Batched, [s \in Batched |-> Asked(c, s)])
      <4>1. \A s \in Singles : s \in Scopes /\ s \notin Batched
          BY RateAssumption DEF Scopes
      <4> QED BY <1>0, <3>2, <4>1, GrantFacts DEF Common
    <3> QED BY <1>3, <3>1, <3>2 DEF ConsumeBatch
  <2> QED BY <2>1, <2>2, <2>3 DEF SinglesInv, Common, RowsCount, SingleLimitKept, CurrentBucket
<1>4. ASSUME RateTick PROVE SinglesInv'
  <2>1. Common'
      BY <1>0, <1>4, TickCommon
  <2>2. SingleLimitKept'
      BY <1>4 DEF RateTick, SinglesInv, SingleLimitKept
  <2>3. RowsCount'
    <3> SUFFICES ASSUME NEW s \in Singles, NEW b \in Buckets
                 PROVE  /\ rows[s][b].count <= Limit[s]
                        /\ rows[s][b].count > 0 /\ b = CurrentBucket(s)' =>
                              EndOf[s][b] <= rows[s][b].expires
                        /\ b = CurrentBucket(s)' => granted[s][b] <= rows[s][b].count
        BY <1>4 DEF RateTick, RowsCount
    <3>1. /\ now \in Times /\ now' \in Times /\ now' = now + 1
          /\ s \in Scopes /\ rows[s][b] \in Row
        BY <1>4, <2>1 DEF RateTick, Common, SinglesInv, Shape, Scopes
    <3>2. CurrentBucket(s)' = CurrentBucket(s) \/ Unseen(s, CurrentBucket(s)')
        BY <3>1, NewBucketUnseen DEF CurrentBucket
    <3>3. Unseen(s, b) => rows[s][b].count = 0 /\ granted[s][b] = 0
        BY <3>1 DEF SinglesInv, FutureIsEmpty
    <3> QED BY <3>1, <3>2, <3>3 DEF SinglesInv, RowsCount, Row
  <2> QED BY <2>1, <2>2, <2>3 DEF SinglesInv, Common
<1>5. CASE UNCHANGED rateVars
    BY <1>5 DEF rateVars, SinglesInv, Shape, CallsInTime, UnderWay, FutureIsEmpty, Unseen,
                Existing, RowsCount, SingleLimitKept, CurrentBucket
<1> QED BY <1>1, <1>2, <1>3, <1>4, <1>5 DEF RateNext

\* However the workers interleave and however late their requests arrive,
\* consumeRateLimit grants no more for a bucket that lasts than its limit.
THEOREM SinglesSafe == RateSpec => []SingleLimitKept
<1>1. SinglesInv => SingleLimitKept
    BY DEF SinglesInv
<1> QED BY <1>1, InitInv, SinglesStep, PTL DEF RateSpec

-----------------------------------------------------------------------------
(***************************************************************************)
(* The scopes of an article at once, with requests that are never late     *)
(***************************************************************************)
AtOnce == \A c \in Callers : calls[c].phase = "batch" => calls[c].at = now

LEMMA PunctualAtOnce ==
    ASSUME BatchInv, MaxLate = 0
    PROVE  AtOnce
<1> SUFFICES ASSUME NEW c \in Callers, calls[c].phase = "batch" PROVE calls[c].at = now
    BY DEF AtOnce
<1>1. UnderWay(c)
    BY DEF UnderWay
<1>2. /\ calls[c].at \in Nat /\ now \in Nat
      /\ calls[c].at <= now /\ now <= calls[c].at + 0
    BY <1>1 DEF BatchInv, CallsInTime, Shape, Times
<1> QED BY <1>2

LEMMA ConsumeBatchCounts ==
    ASSUME BatchInv, AtOnce, NEW c \in Callers, ConsumeBatch(c)
    PROVE  EntriesCount' /\ BatchLimitKept'
<1> DEFINE bucket == [s \in Batched |-> Asked(c, s)]
<1>0. Common
    BY DEF BatchInv, Common
<1>1. \A s \in Batched : bucket[s] = CurrentBucket(s)
  <2>1. calls[c].at = now
    BY DEF AtOnce, ConsumeBatch
  <2> QED BY <2>1 DEF Asked, CurrentBucket
<1>2. CASE Refusing(batch, bucket) # {}
    BY <1>2 DEF ConsumeBatch, BatchInv, EntriesCount, BatchLimitKept, CurrentBucket, Existing
<1>3. CASE Refusing(batch, bucket) = {}
  <2>1. /\ batch' = NextEntries(batch, bucket)
        /\ CountGrants(Batched, bucket)
        /\ now' = now
      BY <1>3 DEF ConsumeBatch
  <2> HIDE DEF bucket
  <2> SUFFICES ASSUME NEW s \in Batched
               PROVE  /\ batch'[s].count <= Limit[s]
                      /\ batch'[s].bucket = CurrentBucket(s)
                      /\ batch'[s].known
                      /\ EndOf[s][CurrentBucket(s)] <= batch'[s].expires
                      /\ granted'[s][CurrentBucket(s)] <= batch'[s].count
                      /\ \A b \in Buckets : granted'[s][b] <= Limit[s]
      BY <2>1 DEF EntriesCount, BatchLimitKept, CurrentBucket, Existing
  <2>2. /\ batch[s] \in Entry /\ now \in Nat /\ now \in Times /\ s \in Scopes
        /\ \A b \in Buckets : granted[s][b] \in Nat
        /\ Limit[s] \in Nat \ {0} /\ Length[s] \in Nat
        /\ CurrentBucket(s) \in Buckets
      BY BucketFacts DEF BatchInv, Shape, Scopes, Times, CurrentBucket
  <2>3. \A b \in Buckets :
            granted'[s][b] = IF b = CurrentBucket(s) THEN granted[s][b] + 1 ELSE granted[s][b]
      BY <1>1, <2>1, <2>2, GrantFacts DEF BatchInv
  <2>4. /\ \A b \in Buckets : granted[s][b] <= Limit[s]
        /\ batch[s].count <= Limit[s]
        /\ Existing(batch, s, CurrentBucket(s)) =>
              /\ EndOf[s][CurrentBucket(s)] <= batch[s].expires
              /\ granted[s][CurrentBucket(s)] <= batch[s].count
        /\ ~Existing(batch, s, CurrentBucket(s)) => granted[s][CurrentBucket(s)] = 0
      BY DEF BatchInv, EntriesCount, BatchLimitKept
  <2>5. /\ now < EndOf[s][CurrentBucket(s)] /\ EndOf[s][CurrentBucket(s)] \in Nat
        /\ EndOf[s][CurrentBucket(s)] <= now + Length[s]
      BY <2>2, BucketFacts DEF CurrentBucket
  <2>6. /\ batch'[s].known /\ batch'[s].bucket = CurrentBucket(s)
        /\ batch'[s].count = Count(batch, s, CurrentBucket(s)) + 1
        /\ batch'[s].expires = IF Active(batch, s, CurrentBucket(s)) THEN batch[s].expires
                               ELSE now + Length[s]
      BY <1>1, <2>1 DEF NextEntries
  <2>7. CASE Existing(batch, s, CurrentBucket(s))
    <3>1. Active(batch, s, CurrentBucket(s)) /\ Count(batch, s, CurrentBucket(s)) = batch[s].count
        BY <2>2, <2>4, <2>5, <2>7 DEF Active, Count, Entry
    <3>2. batch[s].count < Limit[s]
        BY <1>1, <1>3, <2>2, <2>4, <2>7, <3>1 DEF Refusing, Entry
    <3> QED BY <2>2, <2>3, <2>4, <2>6, <2>7, <3>1, <3>2 DEF Entry
  <2>8. CASE ~Existing(batch, s, CurrentBucket(s))
    <3>1. ~Active(batch, s, CurrentBucket(s)) /\ Count(batch, s, CurrentBucket(s)) = 0
        BY <2>8 DEF Active, Count
    <3> QED BY <2>2, <2>3, <2>4, <2>5, <2>6, <2>8, <3>1
  <2> QED BY <2>7, <2>8
<1> QED BY <1>2, <1>3

LEMMA BatchStep == AtOnce /\ BatchInv /\ [RateNext]_rateVars => BatchInv'
<1> SUFFICES ASSUME AtOnce, BatchInv, [RateNext]_rateVars PROVE BatchInv'
    OBVIOUS
<1>0. Common
    BY DEF BatchInv, Common
<1>1. ASSUME NEW c \in Callers, SendSingle(c) \/ SendBatch(c)
      PROVE  BatchInv'
  <2>1. Common'
      BY <1>0, <1>1, SendCommon
  <2>2. UNCHANGED <<now, batch, granted>>
      BY <1>1 DEF SendSingle, SendBatch, Ask
  <2> QED BY <2>1, <2>2
          DEF BatchInv, Common, EntriesCount, BatchLimitKept, CurrentBucket, Existing
<1>2. ASSUME NEW c \in Callers, ConsumeSingle(c)
      PROVE  BatchInv'
  <2>1. Common'
      BY <1>0, <1>2, ConsumeSingleCommon
  <2>2. UNCHANGED <<now, batch>>
      BY <1>2 DEF ConsumeSingle
  <2>3. \A s \in Batched : \A b \in Buckets : granted'[s][b] = granted[s][b]
    <3> DEFINE r == calls[c].scope
    <3>1. CASE granted' = granted
        BY <3>1
    <3>2. CASE CountGrants({r}, [x \in {r} |-> Asked(c, r)])
      <4>1. r \in Singles
          BY <1>2 DEF ConsumeSingle, UnderWay, BatchInv, CallsInTime
      <4>2. \A s \in Batched : s \in Scopes /\ s \notin {r}
          BY <4>1, RateAssumption DEF Scopes
      <4> QED BY <1>0, <3>2, <4>2, GrantFacts DEF Common
    <3> QED BY <1>2, <3>1, <3>2 DEF ConsumeSingle
  <2>4. \A s \in Batched : CurrentBucket(s) \in Buckets
      BY BucketFacts DEF BatchInv, Shape, CurrentBucket, Scopes
  <2> QED BY <2>1, <2>2, <2>3, <2>4
          DEF BatchInv, Common, EntriesCount, BatchLimitKept, CurrentBucket, Existing
<1>3. ASSUME NEW c \in Callers, ConsumeBatch(c)
      PROVE  BatchInv'
    BY <1>0, <1>3, ConsumeBatchCommon, ConsumeBatchCounts DEF BatchInv, Common
<1>4. ASSUME RateTick PROVE BatchInv'
  <2>1. Common'
      BY <1>0, <1>4, TickCommon
  <2>2. BatchLimitKept'
      BY <1>4 DEF RateTick, BatchInv, BatchLimitKept
  <2>3. EntriesCount'
    <3> SUFFICES ASSUME NEW s \in Batched
                 PROVE  /\ batch[s].count <= Limit[s]
                        /\ Existing(batch, s, CurrentBucket(s)') =>
                              /\ EndOf[s][CurrentBucket(s)'] <= batch[s].expires
                              /\ granted[s][CurrentBucket(s)'] <= batch[s].count
                        /\ ~Existing(batch, s, CurrentBucket(s)') => granted[s][CurrentBucket(s)'] = 0
        BY <1>4 DEF RateTick, EntriesCount, Existing, CurrentBucket
    <3>1. /\ now \in Times /\ now' \in Times /\ now' = now + 1 /\ s \in Scopes
          /\ CurrentBucket(s)' \in Buckets
        BY <1>4, <2>1, BucketFacts DEF RateTick, Common, BatchInv, Shape, Scopes, CurrentBucket
    <3>2. CurrentBucket(s)' = CurrentBucket(s) \/ Unseen(s, CurrentBucket(s)')
        BY <3>1, NewBucketUnseen DEF CurrentBucket
    <3>3. Unseen(s, CurrentBucket(s)') =>
              ~Existing(batch, s, CurrentBucket(s)') /\ granted[s][CurrentBucket(s)'] = 0
        BY <3>1 DEF BatchInv, FutureIsEmpty
    <3> QED BY <3>1, <3>2, <3>3 DEF BatchInv, EntriesCount
  <2> QED BY <2>1, <2>2, <2>3 DEF BatchInv, Common
<1>5. CASE UNCHANGED rateVars
    BY <1>5 DEF rateVars, BatchInv, Shape, CallsInTime, UnderWay, FutureIsEmpty, Unseen,
                Existing, EntriesCount, BatchLimitKept, CurrentBucket
<1> QED BY <1>1, <1>2, <1>3, <1>4, <1>5 DEF RateNext

\* When no request outlasts the tick it was sent in, consumeRateLimits keeps
\* every limit of an article: the one row it has still knows the current
\* buckets.  RateLate shows that it needs the condition.
THEOREM PunctualBatchSafe ==
    ASSUME MaxLate = 0
    PROVE  RateSpec => []BatchLimitKept
<1>1. BatchInv /\ [RateNext]_rateVars => BatchInv'
    BY BatchStep, PunctualAtOnce
<1>2. BatchInv => BatchLimitKept
    BY DEF BatchInv
<1> QED BY <1>1, <1>2, InitInv, PTL DEF RateSpec

-----------------------------------------------------------------------------
(***************************************************************************)
(* A refusal tells the worker when to come back                            *)
(***************************************************************************)
\* a row and an entry last until their bucket is over, and no longer than a
\* window from now
Outlasts ==
    /\ \A s \in Singles : \A b \in Buckets :
          rows[s][b].count > 0 =>
             EndOf[s][b] <= rows[s][b].expires /\ rows[s][b].expires <= now + Length[s]
    /\ \A s \in Batched :
          batch[s].known =>
             /\ EndOf[s][batch[s].bucket] <= batch[s].expires
             /\ batch[s].expires <= now + Length[s]

DeferInv == Common /\ Outlasts /\ DeferredPastItsBuckets

\* Finitely many entries have a latest end.  A smallest set without one would
\* have an element, and without that element a latest end or nothing.
LEMMA LatestEnd ==
    ASSUME NEW S, IsFiniteSet(S), S # {}, NEW e, \A s \in S : e[s].expires \in Nat
    PROVE  \E until \in {e[s].expires : s \in S} : \A s \in S : e[s].expires <= until
<1> DEFINE Bad == {T \in SUBSET S : /\ T # {}
                                    /\ ~\E x \in T : \A s \in T : e[s].expires <= e[x].expires}
<1>1. SUFFICES ASSUME Bad # {} PROVE FALSE
  <2>1. S \notin Bad  BY <1>1
  <2>2. \E x \in S : \A s \in S : e[s].expires <= e[x].expires  BY <2>1
  <2> QED  BY <2>2
<1>2. IsWellFoundedOn(StrictSubsetOrdering(S), FiniteSubsetsOf(S))
  BY FS_StrictSubsetOrderingWellFounded
<1>3. FiniteSubsetsOf(S) = SUBSET S  BY FS_FiniteSubsetsOfFinite
<1>4. PICK T \in Bad : \A U \in Bad : ~(<<U, T>> \in StrictSubsetOrdering(S))
  <2>1. Bad \subseteq FiniteSubsetsOf(S)  BY <1>3
  <2> HIDE DEF Bad
  <2> QED  BY <1>1, <1>2, <2>1, WFMin
<1>5. PICK x \in T : TRUE  BY <1>4
<1>6. T \ {x} \notin Bad
  <2>1. <<T \ {x}, T>> \in StrictSubsetOrdering(S)
    BY <1>4, <1>5 DEF StrictSubsetOrdering
  <2> HIDE DEF Bad
  <2> QED  BY <1>4, <2>1
<1>7. CASE T \ {x} = {}
  <2>1. T = {x} /\ e[x].expires \in Nat  BY <1>4, <1>5, <1>7
  <2>2. e[x].expires <= e[x].expires  BY <2>1
  <2> QED  BY <1>4, <2>1, <2>2
<1>8. CASE T \ {x} # {}
  <2>1. PICK y \in T \ {x} : \A s \in T \ {x} : e[s].expires <= e[y].expires
    BY <1>4, <1>6, <1>8
  <2>2. \A s \in T : e[s].expires \in Nat  BY <1>4
  <2>3. CASE e[x].expires <= e[y].expires
    <3>1. \A s \in T : e[s].expires <= e[y].expires  BY <2>1, <2>3
    <3> QED  BY <1>4, <2>1, <3>1
  <2>4. CASE e[y].expires <= e[x].expires
    <3>1. \A s \in T : e[s].expires <= e[x].expires
      <4>1. TAKE s \in T
      <4>2. CASE s = x  BY <2>2, <4>2
      <4>3. CASE s # x
        <5>1. e[s].expires <= e[y].expires  BY <2>1, <4>3
        <5> QED  BY <2>1, <2>2, <2>4, <5>1
      <4> QED  BY <4>2, <4>3
    <3> QED  BY <1>4, <1>5, <3>1
  <2> QED  BY <1>5, <2>1, <2>2, <2>3, <2>4
<1> QED  BY <1>7, <1>8

LEMMA RetryIsLatest ==
    ASSUME NEW S, IsFiniteSet(S), S # {}, NEW e, \A s \in S : e[s].expires \in Nat
    PROVE  /\ \A s \in S : e[s].expires <= RetryAt(e, S)
           /\ \E s \in S : RetryAt(e, S) = e[s].expires
<1>1. \E until \in {e[s].expires : s \in S} : \A s \in S : e[s].expires <= until
  BY LatestEnd
<1> QED  BY <1>1 DEF RetryAt

\* A request asks for a bucket that ends within a window of it.
LEMMA AskedEnds ==
    ASSUME Common, NEW c \in Callers, UnderWay(c), NEW s \in Scopes
    PROVE  /\ Asked(c, s) \in Buckets /\ EndOf[s][Asked(c, s)] \in Nat
           /\ EndOf[s][Asked(c, s)] <= now + Length[s]
           /\ calls[c].at \in Nat /\ now \in Nat /\ Length[s] \in Nat
           /\ now <= calls[c].at + MaxLate
<1>1. /\ calls[c].at \in Times /\ calls[c].at <= now /\ now <= calls[c].at + MaxLate
      /\ now \in Times
  BY DEF Common, CallsInTime, Shape
<1>2. calls[c].at \in Nat /\ now \in Nat  BY <1>1, RateAssumption DEF Times
<1>3. /\ Asked(c, s) \in Buckets /\ EndOf[s][Asked(c, s)] \in Nat
      /\ EndOf[s][Asked(c, s)] <= calls[c].at + Length[s] /\ Length[s] \in Nat
  BY <1>1, BucketFacts DEF Asked
<1> QED  BY <1>1, <1>2, <1>3

\* A request that is answered has nothing to be deferred for.
LEMMA AnsweredDefers ==
    ASSUME Common, DeferredPastItsBuckets, NEW c \in Callers,
           calls' = [d \in Callers |-> calls'[d]],
           \A d \in Callers : d # c => calls'[d] = calls[d],
           calls'[c].phase # "refused"
    PROVE  DeferredPastItsBuckets'
<1> SUFFICES ASSUME NEW d \in Callers, calls'[d].phase = "refused"
             PROVE  /\ \A s \in calls'[d].refusing : EndOf[s][Asked(d, s)'] <= calls'[d].until
                    /\ \E s \in calls'[d].refusing :
                          calls'[d].until <= calls'[d].at + MaxLate + Length[s]
  BY DEF DeferredPastItsBuckets
<1>1. d # c /\ calls'[d] = calls[d]  OBVIOUS
<1> QED  BY <1>1 DEF DeferredPastItsBuckets, Asked

\* A request that is refused until all that refused it has ended.
LEMMA RefusedDefers ==
    ASSUME Common, DeferredPastItsBuckets, NEW c \in Callers, NEW until, NEW refusing,
           Refuse(c, until, refusing),
           \A s \in refusing : EndOf[s][Asked(c, s)] <= until,
           \E s \in refusing : until <= calls[c].at + MaxLate + Length[s]
    PROVE  DeferredPastItsBuckets'
<1>1. /\ calls'[c] = [phase |-> "refused", at |-> calls[c].at, scope |-> calls[c].scope,
                      until |-> until, refusing |-> refusing]
      /\ \A d \in Callers : d # c => calls'[d] = calls[d]
  BY CallsUpdated DEF Refuse, Common
<1>2. /\ calls'[c].at = calls[c].at /\ calls'[c].until = until
      /\ calls'[c].refusing = refusing
  BY <1>1
<1> SUFFICES ASSUME NEW d \in Callers, calls'[d].phase = "refused"
             PROVE  /\ \A s \in calls'[d].refusing : EndOf[s][Asked(d, s)'] <= calls'[d].until
                    /\ \E s \in calls'[d].refusing :
                          calls'[d].until <= calls'[d].at + MaxLate + Length[s]
  BY DEF DeferredPastItsBuckets
<1>3. CASE d = c  BY <1>2, <1>3 DEF Asked
<1>4. CASE d # c  BY <1>1, <1>4 DEF DeferredPastItsBuckets, Asked
<1> QED  BY <1>3, <1>4

LEMMA ConsumeSingleDefers ==
    ASSUME DeferInv, NEW c \in Callers, ConsumeSingle(c)
    PROVE  Outlasts' /\ DeferredPastItsBuckets'
<1> DEFINE s == calls[c].scope
           b == Asked(c, s)
<1>0. Common /\ Outlasts /\ DeferredPastItsBuckets  BY DEF DeferInv
<1>1. UnderWay(c) /\ s \in Singles /\ s \in Scopes
  BY <1>0 DEF ConsumeSingle, UnderWay, Common, CallsInTime, Scopes
<1>2. /\ b \in Buckets /\ EndOf[s][b] \in Nat /\ EndOf[s][b] <= now + Length[s]
      /\ calls[c].at \in Nat /\ now \in Nat /\ Length[s] \in Nat
      /\ now <= calls[c].at + MaxLate
  BY <1>0, <1>1, AskedEnds
<1>3. rows[s][b] \in Row  BY <1>0, <1>1, <1>2 DEF Common, Shape
<1>4. CASE Full(s, rows[s][b])
  <2>1. Refuse(c, rows[s][b].expires, {s}) /\ UNCHANGED <<now, rows, batch>>
    BY <1>4 DEF ConsumeSingle
  <2>2. /\ rows[s][b].expires \in Nat /\ EndOf[s][b] <= rows[s][b].expires
        /\ rows[s][b].expires <= now + Length[s]
    BY <1>0, <1>1, <1>2, <1>3, <1>4 DEF Full, Live, Outlasts, Row
  <2>3. rows[s][b].expires <= calls[c].at + MaxLate + Length[s]
    BY <1>2, <2>2, RateAssumption
  <2>4. DeferredPastItsBuckets'
    <3> HIDE DEF s
    <3> QED  BY <1>0, <2>1, <2>2, <2>3, RefusedDefers
  <2> QED  BY <1>0, <2>1, <2>4 DEF Outlasts
<1>5. CASE ~Full(s, rows[s][b])
  <2>1. /\ rows' = [rows EXCEPT ![s][b] = Consumed(s, rows[s][b])]
        /\ Answer(c) /\ UNCHANGED <<now, batch>>
    BY <1>5 DEF ConsumeSingle
  <2>2. /\ calls' = [d \in Callers |-> calls'[d]] /\ calls'[c] = NoCall
        /\ \A d \in Callers : d # c => calls'[d] = calls[d]
    BY <1>0, <2>1, CallsUpdated DEF Answer, Common
  <2>3. DeferredPastItsBuckets'
    BY <1>0, <2>2, AnsweredDefers DEF NoCall
  <2>4. /\ EndOf[s][b] <= Consumed(s, rows[s][b]).expires
        /\ Consumed(s, rows[s][b]).expires <= now + Length[s]
    <3>1. CASE Live(rows[s][b])
      <4>1. Consumed(s, rows[s][b]).expires = rows[s][b].expires
        BY <1>3, <3>1 DEF Consumed, Row
      <4> QED  BY <1>0, <1>1, <1>2, <3>1, <4>1 DEF Live, Outlasts
    <3>2. CASE ~Live(rows[s][b])
      <4>1. Consumed(s, rows[s][b]).expires = now + Length[s]  BY <3>2 DEF Consumed
      <4> QED  BY <1>2, <4>1
    <3> QED  BY <3>1, <3>2
  <2>5. ASSUME NEW r \in Singles, NEW e \in Buckets, rows'[r][e].count > 0
        PROVE  /\ EndOf[r][e] <= rows'[r][e].expires
               /\ rows'[r][e].expires <= now + Length[r]
    <3> HIDE DEF s, b
    <3>1. rows \in [Singles -> [Buckets -> Row]]  BY <1>0 DEF Common, Shape
    <3>2. CASE r = s /\ e = b
      <4>1. rows'[r][e] = Consumed(s, rows[s][b])  BY <1>1, <1>2, <2>1, <3>1, <3>2
      <4> QED  BY <2>4, <3>2, <4>1
    <3>3. CASE ~(r = s /\ e = b)
      <4>1. rows'[r][e] = rows[r][e]  BY <1>1, <1>2, <2>1, <3>1, <3>3
      <4> QED  BY <1>0, <2>5, <4>1 DEF Outlasts
    <3> QED  BY <3>2, <3>3
  <2>6. now' = now /\ batch' = batch  BY <2>1
  <2> QED  BY <1>0, <2>3, <2>5, <2>6 DEF Outlasts
<1> QED  BY <1>4, <1>5

LEMMA ConsumeBatchDefers ==
    ASSUME IsFiniteSet(Batched), DeferInv, NEW c \in Callers, ConsumeBatch(c)
    PROVE  Outlasts' /\ DeferredPastItsBuckets'
<1> DEFINE bucket == [s \in Batched |-> Asked(c, s)]
           refusing == Refusing(batch, bucket)
<1>0. Common /\ Outlasts /\ DeferredPastItsBuckets  BY DEF DeferInv
<1>1. UnderWay(c)  BY DEF ConsumeBatch, UnderWay
<1>2. \A s \in Batched :
         /\ bucket[s] = Asked(c, s) /\ bucket[s] \in Buckets /\ EndOf[s][bucket[s]] \in Nat
         /\ EndOf[s][bucket[s]] <= now + Length[s]
         /\ calls[c].at \in Nat /\ now \in Nat /\ Length[s] \in Nat
         /\ now <= calls[c].at + MaxLate
         /\ Limit[s] \in Nat \ {0} /\ batch[s] \in Entry
  BY <1>0, <1>1, AskedEnds, BucketFacts DEF Scopes, Common, Shape
<1>3. CASE refusing # {}
  <2>1. Refuse(c, RetryAt(batch, refusing), refusing) /\ UNCHANGED <<now, rows, batch>>
    BY <1>3 DEF ConsumeBatch
  <2>2. refusing \subseteq Batched /\ IsFiniteSet(refusing)
    BY FS_Subset DEF Refusing
  <2>3. \A s \in refusing :
           /\ batch[s].expires \in Nat
           /\ EndOf[s][bucket[s]] <= batch[s].expires
           /\ batch[s].expires <= now + Length[s]
    BY <1>0, <1>2 DEF Refusing, Existing, Outlasts, Entry
  <2>4. /\ \A s \in refusing : batch[s].expires <= RetryAt(batch, refusing)
        /\ \E s \in refusing : RetryAt(batch, refusing) = batch[s].expires
    <3> HIDE DEF refusing
    <3> QED  BY <1>3, <2>2, <2>3, RetryIsLatest
  <2> HIDE DEF refusing, bucket
  <2>5. PICK last \in refusing : RetryAt(batch, refusing) = batch[last].expires  BY <2>4
  <2>6. RetryAt(batch, refusing) \in Nat  BY <2>3, <2>5
  <2>7. \A s \in refusing : EndOf[s][Asked(c, s)] <= RetryAt(batch, refusing)
    <3>1. TAKE s \in refusing
    <3>2. s \in Batched /\ EndOf[s][bucket[s]] \in Nat /\ bucket[s] = Asked(c, s)
      BY <1>2, <2>2
    <3> QED  BY <2>3, <2>4, <2>6, <3>2
  <2>8. RetryAt(batch, refusing) <= calls[c].at + MaxLate + Length[last]
    BY <1>2, <2>2, <2>3, <2>5, <2>6, RateAssumption
  <2>9. DeferredPastItsBuckets'  BY <1>0, <2>1, <2>7, <2>8, RefusedDefers
  <2> QED  BY <1>0, <2>1, <2>9 DEF Outlasts
<1>4. CASE refusing = {}
  <2>1. batch' = NextEntries(batch, bucket) /\ Answer(c) /\ UNCHANGED <<now, rows>>
    BY <1>4 DEF ConsumeBatch
  <2>2. /\ calls' = [d \in Callers |-> calls'[d]] /\ calls'[c] = NoCall
        /\ \A d \in Callers : d # c => calls'[d] = calls[d]
    BY <1>0, <2>1, CallsUpdated DEF Answer, Common
  <2>3. DeferredPastItsBuckets'
    BY <1>0, <2>2, AnsweredDefers DEF NoCall
  <2>4. ASSUME NEW s \in Batched
        PROVE  /\ EndOf[s][batch'[s].bucket] <= batch'[s].expires
               /\ batch'[s].expires <= now + Length[s]
    <3>1. /\ batch'[s].bucket = bucket[s]
          /\ batch'[s].expires = IF Active(batch, s, bucket[s]) THEN batch[s].expires
                                 ELSE now + Length[s]
      BY <2>1 DEF NextEntries
    <3> HIDE DEF bucket
    <3>2. CASE Active(batch, s, bucket[s])
      BY <1>0, <3>1, <3>2 DEF Active, Existing, Outlasts
    <3>3. CASE ~Active(batch, s, bucket[s])
      BY <1>2, <3>1, <3>3
    <3> QED  BY <3>2, <3>3
  <2>5. now' = now /\ rows' = rows  BY <2>1
  <2> QED  BY <1>0, <2>3, <2>4, <2>5 DEF Outlasts
<1> QED  BY <1>3, <1>4

LEMMA DeferStep ==
    IsFiniteSet(Batched) /\ DeferInv /\ [RateNext]_rateVars => DeferInv'
<1> SUFFICES ASSUME IsFiniteSet(Batched), DeferInv, [RateNext]_rateVars PROVE DeferInv'
  OBVIOUS
<1>0. Common /\ Outlasts /\ DeferredPastItsBuckets  BY DEF DeferInv
<1>1. ASSUME NEW c \in Callers, SendSingle(c) \/ SendBatch(c)
      PROVE  DeferInv'
  <2>1. Common'  BY <1>0, <1>1, SendCommon
  <2>2. UNCHANGED <<now, rows, batch>>  BY <1>1 DEF SendSingle, SendBatch, Ask
  <2>3. PICK phase, s : Ask(c, phase, s) /\ phase \in {"single", "batch"}
    BY <1>1 DEF SendSingle, SendBatch
  <2>4. /\ calls' = [d \in Callers |-> calls'[d]]
        /\ calls'[c] = [NoCall EXCEPT !.phase = phase, !.at = now, !.scope = s]
        /\ \A d \in Callers : d # c => calls'[d] = calls[d]
    BY <1>0, <2>3, CallsUpdated DEF Ask, Common
  <2>5. calls'[c].phase # "refused"  BY <2>3, <2>4 DEF NoCall
  <2>6. DeferredPastItsBuckets'  BY <1>0, <2>4, <2>5, AnsweredDefers
  <2>7. Outlasts'  BY <1>0, <2>2 DEF Outlasts
  <2> QED  BY <2>1, <2>6, <2>7 DEF DeferInv
<1>2. ASSUME NEW c \in Callers, ConsumeSingle(c)
      PROVE  DeferInv'
  BY <1>0, <1>2, ConsumeSingleCommon, ConsumeSingleDefers DEF DeferInv
<1>3. ASSUME NEW c \in Callers, ConsumeBatch(c)
      PROVE  DeferInv'
  BY <1>0, <1>3, ConsumeBatchCommon, ConsumeBatchDefers DEF DeferInv
<1>4. ASSUME RateTick PROVE DeferInv'
  <2>1. Common'  BY <1>0, <1>4, TickCommon
  <2>2. DeferredPastItsBuckets'
    BY <1>0, <1>4 DEF RateTick, DeferredPastItsBuckets, Asked
  <2>3. /\ now \in Nat /\ now' = now + 1 /\ UNCHANGED <<rows, batch>>
        /\ rows \in [Singles -> [Buckets -> Row]] /\ batch \in [Batched -> Entry]
        /\ \A s \in Scopes : Length[s] \in Nat
    BY <1>0, <1>4, RateAssumption DEF RateTick, Common, Shape, Times
  <2>4. \A s \in Singles : \A b \in Buckets : rows[s][b].expires \in Nat
    BY <2>3 DEF Row
  <2>5. \A s \in Batched : batch[s].expires \in Nat
    BY <2>3 DEF Entry
  <2>6. \A s \in Scopes, n \in Nat : n <= now + Length[s] => n <= now' + Length[s]
    BY <2>3
  <2>7. Outlasts'
    BY <1>0, <2>3, <2>4, <2>5, <2>6 DEF Outlasts, Scopes
  <2> QED  BY <2>1, <2>2, <2>7 DEF DeferInv
<1>5. CASE UNCHANGED rateVars
  BY <1>0, <1>5 DEF rateVars, DeferInv, Common, Shape, CallsInTime, UnderWay,
     FutureIsEmpty, Unseen, Existing, Outlasts, DeferredPastItsBuckets, Asked
<1> QED  BY <1>1, <1>2, <1>3, <1>4, <1>5 DEF RateNext

\* For any finite set of article scopes: a worker that was refused is told to
\* come back when every bucket that refused it is over, and not later than the
\* longest of its windows after its request.
THEOREM DeferralSound ==
    ASSUME IsFiniteSet(Batched)
    PROVE  RateSpec => []DeferredPastItsBuckets
<1>1. RateInit => DeferInv
  <2>1. RateInit => Common  BY InitInv DEF SinglesInv, Common
  <2>2. RateInit => Outlasts  BY DEF RateInit, Outlasts, NoEntry, NoBucket
  <2>3. RateInit => DeferredPastItsBuckets
    BY DEF RateInit, DeferredPastItsBuckets, NoCall
  <2> QED  BY <2>1, <2>2, <2>3 DEF DeferInv
<1>2. DeferInv /\ [RateNext]_rateVars => DeferInv'  BY DeferStep
<1>3. DeferInv => DeferredPastItsBuckets  BY DEF DeferInv
<1> QED  BY <1>1, <1>2, <1>3, PTL DEF RateSpec

-----------------------------------------------------------------------------
(***************************************************************************)
(* No stored count exceeds its limit, and every time is a time             *)
(***************************************************************************)
CallRow ==
    [phase : {"none", "single", "batch", "refused"}, at : Times,
     scope : Scopes, until : Nat, refusing : SUBSET Scopes]

RateInv == Common /\ RateTypeOK

\* A call is sent, or answered, or refused until some time.
LEMMA CallTyped ==
    ASSUME RateTypeOK, NEW c \in Callers, NEW row \in CallRow,
           calls' = [calls EXCEPT ![c] = row]
    PROVE  calls' \in [Callers -> CallRow]
BY DEF RateTypeOK, CallRow

LEMMA NoCallTyped ==
    NoCall \in CallRow /\ \A t \in Times, s \in Scopes, phase \in {"single", "batch"} :
       [NoCall EXCEPT !.phase = phase, !.at = t, !.scope = s] \in CallRow
<1>1. 0 \in Times  BY RateAssumption DEF Times
<1>2. (CHOOSE s \in Scopes : TRUE) \in Scopes  BY RateAssumption
<1> QED  BY <1>1, <1>2 DEF NoCall, CallRow

LEMMA RefusalTyped ==
    ASSUME RateTypeOK, NEW c \in Callers, UnderWay(c), NEW until \in Nat,
           NEW refusing \in SUBSET Scopes, Refuse(c, until, refusing)
    PROVE  calls' \in [Callers -> CallRow]
<1>1. calls[c] \in CallRow /\ calls \in [Callers -> CallRow]  BY DEF RateTypeOK, CallRow
<1> DEFINE row == [phase |-> "refused", at |-> calls[c].at, scope |-> calls[c].scope,
                   until |-> until, refusing |-> refusing]
<1>2. row \in CallRow  BY <1>1 DEF CallRow
<1>3. calls' = [calls EXCEPT ![c] = row]  BY <1>1 DEF Refuse
<1> QED  BY <1>2, <1>3, CallTyped

LEMMA RateInvInit == RateInit => RateInv
<1> SUFFICES ASSUME RateInit PROVE RateInv  OBVIOUS
<1>1. Common  BY InitInv DEF SinglesInv, Common
<1>2. 0 \in Times  BY RateAssumption DEF Times
<1>3. \A s \in Singles : rows[s] \in [Buckets -> [count : 0..Limit[s], expires : Nat]]
  BY BucketFacts DEF RateInit, NoBucket, Scopes
<1>4. \A s \in Batched : batch[s] \in [known : BOOLEAN, bucket : Buckets,
                                       count : 0..Limit[s], expires : Nat]
  <2> SUFFICES ASSUME NEW s \in Batched
               PROVE  NoEntry \in [known : BOOLEAN, bucket : Buckets,
                                   count : 0..Limit[s], expires : Nat]
    BY DEF RateInit
  <2>1. (CHOOSE x \in Batched : TRUE) \in Scopes /\ s \in Scopes  BY DEF Scopes
  <2> QED  BY <1>2, <2>1, BucketFacts DEF NoEntry
<1>5. calls \in [Callers -> CallRow]  BY NoCallTyped DEF RateInit
<1> QED
  BY <1>1, <1>2, <1>3, <1>4, <1>5 DEF RateInv, RateTypeOK, RateInit, CallRow

LEMMA SingleTyped ==
    ASSUME RateInv, NEW c \in Callers, ConsumeSingle(c)
    PROVE  RateTypeOK'
<1> DEFINE s == calls[c].scope
           b == Asked(c, s)
<1>0. Common /\ RateTypeOK  BY DEF RateInv
<1>1. UnderWay(c) /\ s \in Singles /\ s \in Scopes
  BY <1>0 DEF ConsumeSingle, UnderWay, Common, CallsInTime, Scopes
<1>2. b \in Buckets /\ now \in Nat /\ Length[s] \in Nat /\ Limit[s] \in Nat \ {0}
  BY <1>0, <1>1, AskedEnds, BucketFacts
<1>3. rows[s][b] \in [count : 0..Limit[s], expires : Nat]
  BY <1>0, <1>1, <1>2 DEF RateTypeOK
<1>4. UNCHANGED <<now, batch>>  BY DEF ConsumeSingle
<1>5. CASE Full(s, rows[s][b])
  <2>1. Refuse(c, rows[s][b].expires, {s}) /\ UNCHANGED <<rows, granted>>
    BY <1>5 DEF ConsumeSingle
  <2>2. calls' \in [Callers -> CallRow]
    <3> HIDE DEF s, b
    <3>1. rows[s][b].expires \in Nat /\ {s} \in SUBSET Scopes  BY <1>1, <1>3
    <3> QED  BY <1>0, <1>1, <2>1, <3>1, RefusalTyped
  <2> QED  BY <1>0, <1>4, <2>1, <2>2 DEF RateTypeOK, CallRow
<1>6. CASE ~Full(s, rows[s][b])
  <2>1. /\ rows' = [rows EXCEPT ![s][b] = Consumed(s, rows[s][b])]
        /\ CountGrants({s}, [x \in {s} |-> b]) /\ Answer(c)
    BY <1>6 DEF ConsumeSingle
  <2>2. Consumed(s, rows[s][b]) \in [count : 0..Limit[s], expires : Nat]
    <3> DEFINE row == rows[s][b]
    <3>1. row \in [count : 0..Limit[s], expires : Nat]  BY <1>3
    <3> HIDE DEF row, s
    <3>2. CASE Live(row)
      <4>1. ~(row.count >= Limit[s])  BY <1>6, <3>2 DEF Full, row, s
      <4>2. row.count + 1 \in 0..Limit[s]  BY <1>2, <3>1, <4>1
      <4>3. Consumed(s, row) = [row EXCEPT !.count = row.count + 1]
        BY <3>1, <3>2 DEF Consumed
      <4> QED  BY <3>1, <4>2, <4>3 DEF row
    <3>3. CASE ~Live(row)
      <4>1. Consumed(s, row) = [count |-> 1, expires |-> now + Length[s]]
        BY <3>3 DEF Consumed
      <4> QED  BY <1>2, <4>1 DEF row
    <3> QED  BY <3>2, <3>3
  <2>3. DOMAIN rows = Singles /\ DOMAIN rows' = Singles
    BY <1>0, <2>1 DEF RateTypeOK
  <2>4. ASSUME NEW r \in Singles
        PROVE  rows'[r] \in [Buckets -> [count : 0..Limit[r], expires : Nat]]
    <3>1. rows[r] \in [Buckets -> [count : 0..Limit[r], expires : Nat]]
      BY <1>0 DEF RateTypeOK
    <3> HIDE DEF s, b
    <3>2. CASE r = s
      <4>1. rows'[r] = [rows[s] EXCEPT ![b] = Consumed(s, rows[s][b])]
        BY <1>1, <2>1, <2>3, <3>2
      <4> QED  BY <2>2, <3>1, <3>2, <4>1
    <3>3. CASE r # s
      <4>1. rows'[r] = rows[r]  BY <1>1, <2>1, <2>3, <3>3
      <4> QED  BY <3>1, <4>1
    <3> QED  BY <3>2, <3>3
  <2>5. calls' \in [Callers -> CallRow]
    BY <1>0, <2>1, NoCallTyped, CallTyped DEF Answer
  <2>6. granted' \in [Scopes -> [Buckets -> Nat]]
    BY <1>0, <2>1, GrantFacts DEF Common
  <2> QED  BY <1>0, <1>4, <2>3, <2>4, <2>5, <2>6 DEF RateTypeOK, CallRow
<1> QED  BY <1>5, <1>6

LEMMA BatchTyped ==
    ASSUME IsFiniteSet(Batched), RateInv, NEW c \in Callers, ConsumeBatch(c)
    PROVE  RateTypeOK'
<1> DEFINE bucket == [s \in Batched |-> Asked(c, s)]
           refusing == Refusing(batch, bucket)
<1>0. Common /\ RateTypeOK  BY DEF RateInv
<1>1. UnderWay(c)  BY DEF ConsumeBatch, UnderWay
<1>2. \A s \in Batched :
         /\ bucket[s] \in Buckets /\ now \in Nat /\ Length[s] \in Nat
         /\ Limit[s] \in Nat \ {0}
         /\ batch[s] \in [known : BOOLEAN, bucket : Buckets,
                          count : 0..Limit[s], expires : Nat]
  BY <1>0, <1>1, AskedEnds, BucketFacts DEF Scopes, RateTypeOK
<1>3. UNCHANGED <<now, rows>>  BY DEF ConsumeBatch
<1>4. CASE refusing # {}
  <2>1. Refuse(c, RetryAt(batch, refusing), refusing) /\ UNCHANGED <<batch, granted>>
    BY <1>4 DEF ConsumeBatch
  <2>2. refusing \subseteq Batched /\ IsFiniteSet(refusing)
    BY FS_Subset DEF Refusing
  <2>3. \A s \in refusing : batch[s].expires \in Nat  BY <1>2, <2>2
  <2> HIDE DEF refusing
  <2>4. RetryAt(batch, refusing) \in Nat  BY <1>4, <2>2, <2>3, RetryIsLatest
  <2>5. refusing \in SUBSET Scopes  BY <2>2 DEF Scopes
  <2>6. calls' \in [Callers -> CallRow]
    BY <1>0, <1>1, <2>1, <2>4, <2>5, RefusalTyped
  <2> QED  BY <1>0, <1>3, <2>1, <2>6 DEF RateTypeOK, CallRow
<1>5. CASE refusing = {}
  <2>1. /\ batch' = NextEntries(batch, bucket) /\ CountGrants(Batched, bucket)
        /\ Answer(c)
    BY <1>5 DEF ConsumeBatch
  <2>2. ASSUME NEW s \in Batched
        PROVE  batch'[s] \in [known : BOOLEAN, bucket : Buckets,
                              count : 0..Limit[s], expires : Nat]
    <3>1. batch'[s] =
            [known   |-> TRUE,
             bucket  |-> bucket[s],
             count   |-> Count(batch, s, bucket[s]) + 1,
             expires |-> IF Active(batch, s, bucket[s]) THEN batch[s].expires
                         ELSE now + Length[s]]
      BY <2>1 DEF NextEntries
    <3>2. Existing(batch, s, bucket[s]) => ~(Count(batch, s, bucket[s]) >= Limit[s])
      BY <1>5 DEF Refusing
    <3> HIDE DEF bucket
    <3>3. Count(batch, s, bucket[s]) + 1 \in 0..Limit[s]
      <4>1. CASE Active(batch, s, bucket[s])
        <5>1. /\ Existing(batch, s, bucket[s])
              /\ Count(batch, s, bucket[s]) = batch[s].count
          BY <4>1 DEF Active, Count
        <5> QED  BY <1>2, <3>2, <5>1
      <4>2. CASE ~Active(batch, s, bucket[s])
        <5>1. Count(batch, s, bucket[s]) = 0  BY <4>2 DEF Count
        <5> QED  BY <1>2, <5>1
      <4> QED  BY <4>1, <4>2
    <3> QED  BY <1>2, <3>1, <3>3
  <2>3. DOMAIN batch' = Batched  BY <2>1 DEF NextEntries
  <2>4. calls' \in [Callers -> CallRow]
    BY <1>0, <2>1, NoCallTyped, CallTyped DEF Answer
  <2>5. granted' \in [Scopes -> [Buckets -> Nat]]
    BY <1>0, <2>1, GrantFacts DEF Common
  <2> QED  BY <1>0, <1>3, <2>2, <2>3, <2>4, <2>5 DEF RateTypeOK, CallRow
<1> QED  BY <1>4, <1>5

LEMMA RateInvStep ==
    ASSUME IsFiniteSet(Batched), RateInv, [RateNext]_rateVars
    PROVE  RateInv'
<1>0. Common /\ RateTypeOK  BY DEF RateInv
<1>1. ASSUME NEW c \in Callers, SendSingle(c) \/ SendBatch(c) PROVE RateInv'
  <2>1. PICK phase \in {"single", "batch"}, s \in Scopes : Ask(c, phase, s)
    BY <1>1, NoCallTyped DEF SendSingle, SendBatch, Scopes, CallRow
  <2>2. calls' \in [Callers -> CallRow]
    <3>1. now \in Times  BY <1>0 DEF RateTypeOK
    <3>2. [NoCall EXCEPT !.phase = phase, !.at = now, !.scope = s] \in CallRow
      BY <3>1, NoCallTyped
    <3> QED  BY <1>0, <2>1, <3>2, CallTyped DEF Ask
  <2>3. RateTypeOK'  BY <1>0, <2>1, <2>2 DEF Ask, RateTypeOK, CallRow
  <2> QED  BY <1>0, <1>1, <2>3, SendCommon DEF RateInv
<1>2. ASSUME NEW c \in Callers, ConsumeSingle(c) PROVE RateInv'
  BY <1>0, <1>2, ConsumeSingleCommon, SingleTyped DEF RateInv
<1>3. ASSUME NEW c \in Callers, ConsumeBatch(c) PROVE RateInv'
  BY <1>0, <1>3, ConsumeBatchCommon, BatchTyped DEF RateInv
<1>4. CASE RateTick
  <2>1. RateTypeOK'
    BY <1>0, <1>4, TickCommon DEF RateTick, RateTypeOK, Common, Shape
  <2> QED  BY <1>0, <1>4, <2>1, TickCommon DEF RateInv
<1>5. CASE UNCHANGED rateVars
  BY <1>0, <1>5 DEF rateVars, RateInv, RateTypeOK, Common, Shape, CallsInTime, UnderWay,
     FutureIsEmpty, Unseen, Existing
<1> QED  BY <1>1, <1>2, <1>3, <1>4, <1>5 DEF RateNext

\* For any finite set of article scopes: no stored count ever exceeds its limit,
\* and what is answered to a refused request is a time.
THEOREM RateTypeCorrect ==
    ASSUME IsFiniteSet(Batched)
    PROVE  RateSpec => []RateTypeOK
<1>1. RateInv /\ [RateNext]_rateVars => RateInv'  BY RateInvStep
<1>2. RateInv => RateTypeOK  BY DEF RateInv
<1> QED  BY <1>1, <1>2, RateInvInit, PTL DEF RateSpec

-----------------------------------------------------------------------------
\* For any sources: the ledger, the run and its requester stay within their types.
THEOREM SyncTypeCorrect == SyncSpec => []SyncTypeOK
<1>1. SyncInv => SyncTypeOK  BY DEF SyncInv, LedgerInv, RunTypeOK, SyncTypeOK
<1> QED  BY <1>1, SyncInvariant, PTL


LEMMA SyncStepIsJobStep == [SyncNext]_syncVars => [JobNext]_ledgerVars
<1> SUFFICES ASSUME [SyncNext]_syncVars PROVE [JobNext]_ledgerVars  OBVIOUS
<1>1. CASE Requester
  BY <1>1 DEF Requester, InsertRun, SendJobs, SendFails, MarkFailed, Evict
<1>2. ASSUME NEW j \in JobsOf(Sources), Collect(j) \/ CollectDone(j) \/ CollectAgain(j)
      PROVE  JobNext
  BY <1>2 DEF Collect, CollectDone, CollectAgain, JobNext, JobsOf
<1>3. ASSUME NEW j \in JobsOf(Sources), NEW permanent \in BOOLEAN,
             CollectFailed(j, permanent)
      PROVE  JobNext
  BY <1>3 DEF CollectFailed, JobNext, JobsOf
<1>4. CASE SyncTick  BY <1>4 DEF SyncTick, JobNext
<1>5. CASE UNCHANGED syncVars  BY <1>5 DEF syncVars
<1> QED  BY <1>1, <1>2, <1>3, <1>4, <1>5 DEF SyncNext, Finish

\* A run and its completions use the ledger as any of its clients may, so what
\* is proved of the ledger holds of the ledger under a run.
THEOREM SyncUsesLedger == SyncSpec => JobSpec
<1>1. SyncInit => JobInit  BY DEF SyncInit
<1> QED  BY <1>1, SyncStepIsJobStep, PTL DEF SyncSpec, JobSpec

-----------------------------------------------------------------------------
(***************************************************************************)
(* The services together: a step of one of them is a step of it and leaves *)
(* the others alone, so each behaves as its own specification says.        *)
(***************************************************************************)
LEMMA PlaneStepParts ==
    ASSUME [PlaneNext]_planeVars
    PROVE  /\ [InboxNext]_inboxVars /\ [RateNext]_rateVars /\ [LifeNext]_lifeVars
           /\ [JobNext]_ledgerVars /\ part' = part
           /\ part = "sync" => [SyncNext]_syncVars
           /\ part # "sync" => UNCHANGED <<run, requester, sent>>
<1> USE DEF syncVars, ledgerVars
<1>1. CASE InboxPart /\ UNCHANGED part  BY <1>1 DEF InboxPart
<1>2. CASE LedgerPart /\ UNCHANGED part  BY <1>2 DEF LedgerPart
<1>3. CASE SyncPart /\ UNCHANGED part  BY <1>3, SyncStepIsJobStep DEF SyncPart
<1>4. CASE RowsPart /\ UNCHANGED part  BY <1>4 DEF RowsPart
<1>5. CASE BatchPart /\ UNCHANGED part  BY <1>5 DEF BatchPart
<1>6. CASE LifePart /\ UNCHANGED part  BY <1>6 DEF LifePart
<1>7. CASE UNCHANGED planeVars  BY <1>7 DEF planeVars
<1> QED  BY <1>1, <1>2, <1>3, <1>4, <1>5, <1>6, <1>7 DEF PlaneNext

LEMMA PlaneServices ==
    PlaneSpec => /\ InboxSpec /\ RateSpec /\ JobSpec
                 /\ LifeInit /\ [][LifeNext]_lifeVars
<1>1. PlaneInit => InboxInit /\ RateInit /\ JobInit /\ LifeInit
  BY DEF PlaneInit, SyncInit
<1> QED
  BY <1>1, PlaneStepParts, PTL DEF PlaneSpec, InboxSpec, RateSpec, JobSpec

\* There is a run only where the sync runs are what moves.
PlaneRun ==
    /\ part = "sync" => SyncInv
    /\ part # "sync" => RunTypeOK /\ run = NoRun

LEMMA PlaneRunAlways == PlaneSpec => []PlaneRun
<1>1. PlaneInit => PlaneRun
  BY SyncInvInit DEF PlaneInit, PlaneRun, SyncInv, SyncInit
<1>2. PlaneRun /\ [PlaneNext]_planeVars => PlaneRun'
  <2> SUFFICES ASSUME PlaneRun, [PlaneNext]_planeVars PROVE PlaneRun'  OBVIOUS
  <2>1. CASE part = "sync"
    BY <2>1, PlaneStepParts, SyncStepKeepsInv DEF PlaneRun
  <2>2. CASE part # "sync"
    BY <2>2, PlaneStepParts DEF PlaneRun, RunTypeOK
  <2> QED  BY <2>1, <2>2
<1> QED  BY <1>1, <1>2, PTL DEF PlaneSpec

\* The services of the control plane and the worker, one moving at a time, stay
\* within their types: for any finite set of article scopes, and any messages,
\* leases, jobs, sources and limits.
THEOREM PlaneTypeCorrect ==
    ASSUME IsFiniteSet(Batched)
    PROVE  PlaneSpec => []PlaneTypeOK
<1>1. PlaneRun => RunTypeOK  BY DEF PlaneRun, SyncInv
<1>2. JobTypeOK /\ RunTypeOK => SyncTypeOK  BY DEF RunTypeOK, SyncTypeOK
<1>3. PlaneSpec => []RateTypeOK  BY PlaneServices, RateTypeCorrect, PTL
<1> QED
  BY <1>1, <1>2, <1>3, PlaneServices, PlaneRunAlways, InboxTypeCorrect, JobTypeCorrect,
     LifeAlwaysSafe, PTL DEF PlaneTypeOK

\* Where the clock waits for the requests no article is asked about late.
PlaneBatch ==
    /\ BatchInv /\ AtOnce
    /\ part = "rows" => \A c \in Callers : calls[c].phase # "batch"

LEMMA PlaneAtOnce ==
    ASSUME PlaneBatch, BatchPart
    PROVE  AtOnce'
<1> SUFFICES ASSUME NEW c \in Callers, calls'[c].phase = "batch" PROVE calls'[c].at = now'
  BY DEF AtOnce
<1>0. /\ RateNext /\ calls = [d \in Callers |-> calls[d]]
      /\ calls[c].phase = "batch" => calls[c].at = now
      /\ now' # now => \A d \in Callers : ~UnderWay(d)
  BY DEF PlaneBatch, BatchInv, Shape, AtOnce, BatchPart
<1>1. ASSUME NEW d \in Callers, SendSingle(d) \/ SendBatch(d) PROVE calls'[c].at = now'
  BY <1>0, <1>1 DEF SendSingle, SendBatch, Ask, NoCall
<1>2. ASSUME NEW d \in Callers, ConsumeSingle(d) \/ ConsumeBatch(d)
      PROVE  calls'[c].at = now'
  <2>1. now' = now /\ calls'[d].phase \in {"none", "refused"}
        /\ \A e \in Callers \ {d} : calls'[e] = calls[e]
    BY <1>0, <1>2 DEF ConsumeSingle, ConsumeBatch, Answer, Refuse, NoCall
  <2> QED  BY <1>0, <2>1
<1>3. CASE RateTick
  <2>1. now' # now /\ calls' = calls
    BY <1>3 DEF RateTick, PlaneBatch, BatchInv, Shape, Times
  <2> QED  BY <1>0, <2>1 DEF UnderWay
<1> QED  BY <1>0, <1>1, <1>2, <1>3 DEF RateNext

LEMMA PlaneBatchAlways == PlaneSpec => []PlaneBatch
<1>1. PlaneInit => PlaneBatch
  BY InitInv DEF PlaneInit, RateInit, NoCall, PlaneBatch, AtOnce
<1>2. PlaneBatch /\ [PlaneNext]_planeVars => PlaneBatch'
  <2> SUFFICES ASSUME PlaneBatch, [PlaneNext]_planeVars PROVE PlaneBatch'  OBVIOUS
  <2>1. BatchInv' /\ part' = part  BY PlaneStepParts, BatchStep DEF PlaneBatch
  <2>2. CASE RowsPart
    BY <2>1, <2>2 DEF RowsPart, PlaneBatch, AtOnce
  <2>3. CASE BatchPart
    <3>1. part = "batch"  BY <2>3 DEF BatchPart
    <3> QED  BY <2>1, <2>3, <3>1, PlaneAtOnce DEF PlaneBatch
  <2>4. CASE UNCHANGED rateVars
    BY <2>1, <2>4 DEF rateVars, PlaneBatch, AtOnce
  <2> QED
    BY <2>2, <2>3, <2>4
       DEF PlaneNext, planeVars, InboxPart, LedgerPart, SyncPart, LifePart
<1> QED  BY <1>1, <1>2, PTL DEF PlaneSpec

\* And each keeps beside the others what it promises alone.
THEOREM PlaneIsSafe ==
    ASSUME IsFiniteSet(Batched)
    PROVE  PlaneSpec => /\ [](/\ LeaseExclusive /\ NoMessageLost /\ LedgerSafe
                              /\ RunTellsJobs /\ SingleLimitKept
                              /\ BatchLimitKept /\ DeferredPastItsBuckets)
                        /\ OnlyHolderEnds /\ TerminalIsFinal
<1>1. PlaneRun => RunTellsJobs
  <2> SUFFICES ASSUME PlaneRun PROVE RunTellsJobs  OBVIOUS
  <2>1. CASE part = "sync"  BY <2>1 DEF PlaneRun, SyncInv, RunTellsJobs
  <2>2. CASE part # "sync"
    BY <2>2 DEF PlaneRun, NoRun, RunTellsJobs, ResultsOfJobs, StatusIsVerdict
  <2> QED  BY <2>1, <2>2
<1>2. PlaneSpec => []DeferredPastItsBuckets  BY PlaneServices, DeferralSound, PTL
<1>3. PlaneBatch => BatchLimitKept  BY DEF PlaneBatch, BatchInv
<1> QED
  BY <1>1, <1>2, <1>3, PlaneBatchAlways, PlaneServices, PlaneRunAlways, LeaseSafe, MessageSafe, LedgerSound,
     SinglesSafe, OnlyHolderSafe, TerminalSafe, PTL
=============================================================================
