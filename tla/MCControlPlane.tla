--------------------------- MODULE MCControlPlane ---------------------------
(***************************************************************************)
(* The services of the PostgreSQL control plane, each under its most       *)
(* general clients, and a worker that is woken.  They share no row, so a   *)
(* behaviour moves only one of them (part), and their sizes add up instead *)
(* of multiplying:                                                         *)
(*   inbox   the lease inbox;                                              *)
(*   ledger  the job ledger: an article published under two job ids, and a *)
(*           link;                                                         *)
(*   sync    a sync run over up to three sources;                          *)
(*   rows    one rate limit by itself, with requests that arrive late;     *)
(*   batch   the two rate limits of an article, with punctual requests;    *)
(*   life    a worker process, its wake-ups and a staged message.          *)
(***************************************************************************)
EXTENDS QueueInbox, SyncRun, RateLimits, WorkerLifecycle, TLC

CONSTANTS
    a1, a2, b1, jt, jz, jd, article, link, telegram, zhihu, dida,
    texts, daily, window

VARIABLE part

planeVars == <<inboxVars, syncVars, rateVars, lifeVars, part>>

MCArticles == {article}
MCSources  == {telegram, zhihu, dida}
MCKeys     == {article, link} \cup MCSources
MCJobIds   == {a1, a2, b1, jt, jz, jd}
MCKeyOf    == a1 :> article @@ a2 :> article @@ b1 :> link
              @@ jt :> telegram @@ jz :> zhihu @@ jd :> dida

\* a day of six ticks, windows of two
MCLength   == [s \in Scopes |-> IF s = daily THEN 6 ELSE 2]
MCLimit    == [s \in Scopes |-> IF s = daily THEN 3 ELSE 2]
MCBuckets  == 0..(MaxTime \div 2)
MCBucketOf == [s \in Scopes |-> [t \in 0..MaxTime |-> t \div MCLength[s]]]
MCEndOf    == [s \in Scopes |-> [b \in MCBuckets |-> (b + 1) * MCLength[s]]]

\* bound on the clock of the single rate limit: three buckets, each with
\* the late requests of the one before
RowsTime == 5

\* bound on what goes wrong in one life of the worker's wake-ups
MaxMishaps == 2

PlaneInit ==
    /\ InboxInit /\ SyncInit /\ RateInit /\ LifeInit
    /\ part \in {"inbox", "ledger", "sync", "rows", "batch", "life"}
    /\ part # "life" => mode = "webhook"

InboxPart ==
    /\ part = "inbox"
    /\ InboxNext
    /\ UNCHANGED <<syncVars, rateVars, lifeVars>>

LedgerPart ==
    /\ part = "ledger"
    /\ JobNext
    /\ \A k \in Sources : jobs'[k] = jobs[k]
    /\ UNCHANGED <<run, requester, sent, inboxVars, rateVars, lifeVars>>

SyncPart ==
    /\ part = "sync"
    /\ SyncNext
    /\ UNCHANGED <<inboxVars, rateVars, lifeVars>>

RowsPart ==
    /\ part = "rows"
    /\ RateNext
    /\ now' <= RowsTime
    /\ \A c \in Callers : calls'[c].phase # "batch"
    /\ UNCHANGED <<inboxVars, syncVars, lifeVars>>

\* the clock waits for every request: this is RateLimits with MaxLate = 0
BatchPart ==
    /\ part = "batch"
    /\ RateNext
    /\ \A c \in Callers : calls'[c].phase # "single"
    /\ now' # now => \A c \in Callers : ~UnderWay(c)
    /\ UNCHANGED <<inboxVars, syncVars, lifeVars>>

LifePart ==
    /\ part = "life"
    /\ LifeNext
    /\ mishaps'.kills + mishaps'.stops + mishaps'.hangUps + mishaps'.errors
          <= MaxMishaps
    /\ UNCHANGED <<inboxVars, syncVars, rateVars>>

PlaneNext ==
    /\ \/ InboxPart \/ LedgerPart \/ SyncPart
       \/ RowsPart \/ BatchPart \/ LifePart
    /\ UNCHANGED part

\* LifeFairness, asked only of the behaviours that move the worker
InLife(A) == part = "life" /\ A

PlaneFairness ==
    /\ SyncFairness
    /\ WF_lifeVars(InLife(StartUp)) /\ WF_lifeVars(InLife(Shutdown))
    /\ WF_lifeVars(InLife(WakeHourly)) /\ WF_lifeVars(InLife(Poll))
    /\ WF_lifeVars(InLife(RefuseWake(Cron)))
    /\ SF_lifeVars(InLife(Receive(Cron)))
    /\ \A x \in Drains : WF_lifeVars(InLife(DrainStep(x)))

PlaneSpec == PlaneInit /\ [][PlaneNext]_planeVars /\ PlaneFairness

\* The types of the five services' variables.
PlaneTypeOK ==
    InboxTypeOK /\ JobTypeOK /\ SyncTypeOK /\ RateTypeOK /\ LifeTypeOK
=============================================================================
