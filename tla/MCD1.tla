-------------------------------- MODULE MCD1 --------------------------------
(***************************************************************************)
(* The statements of the D1 backend under overlapping requests, one        *)
(* service at a time (part), as in MCControlPlane: the job ledger with an  *)
(* article under two job ids, a sync run over two sources, the rate        *)
(* limits, one by itself or two together, and the lease inbox under two    *)
(* pulls.                                                                  *)
(***************************************************************************)
EXTENDS D1SyncRun, D1RateLimits, D1Inbox, TLC

CONSTANTS a1, a2, jt, jz, article, telegram, zhihu, texts, daily, window

VARIABLE part

planeVars == <<d1SyncVars, d1RateVars, d1InboxVars, part>>

MCArticles == {article}
MCSources  == {telegram, zhihu}
MCKeys     == {article} \cup MCSources
MCJobIds   == {a1, a2, jt, jz}
MCKeyOf    == a1 :> article @@ a2 :> article @@ jt :> telegram @@ jz :> zhihu

\* a day of four ticks, windows of two; two grants in each
MCLength   == [s \in Scopes |-> IF s = daily THEN 4 ELSE 2]
MCLimit    == [s \in Scopes |-> 2]
MCBuckets  == 0..(MaxTime \div 2)
MCBucketOf == [s \in Scopes |-> [t \in 0..MaxTime |-> t \div MCLength[s]]]
MCEndOf    == [s \in Scopes |-> [b \in MCBuckets |-> (b + 1) * MCLength[s]]]

\* bound on the failures of a source; one permanent failure is fatal
SourceFailures == 1

PlaneInit ==
    /\ D1SyncInit /\ D1RateInit /\ D1InboxInit
    /\ part \in {"ledger", "sync", "rows", "batch", "inbox"}

LedgerPart ==
    /\ part = "ledger"
    /\ D1Next
    /\ \A c \in Clients : request'[c].job \notin JobsOf(Sources)
    /\ UNCHANGED <<run, requester, sent, snapshot, d1RateVars,
                   d1InboxVars>>

SyncPart ==
    /\ part = "sync"
    /\ D1SyncNext
    /\ \A k \in Sources : jobs'[k].failures <= SourceFailures
    /\ UNCHANGED <<d1RateVars, d1InboxVars>>

RowsPart ==
    /\ part = "rows"
    /\ D1RateNext
    /\ \A c \in Callers : calls'[c].phase # "batch"
    /\ UNCHANGED <<d1SyncVars, d1InboxVars>>

BatchPart ==
    /\ part = "batch"
    /\ D1RateNext
    /\ \A c \in Callers : calls'[c].phase # "single"
    /\ UNCHANGED <<d1SyncVars, d1InboxVars>>

InboxPart ==
    /\ part = "inbox"
    /\ D1InboxNext
    /\ UNCHANGED <<d1SyncVars, d1RateVars>>

PlaneNext ==
    /\ LedgerPart \/ SyncPart \/ RowsPart \/ BatchPart \/ InboxPart
    /\ UNCHANGED part

PlaneSpec == PlaneInit /\ [][PlaneNext]_planeVars

\* clients, the two job ids of the article, messages and pulls are only ever
\* compared
Symmetry ==
    Permutations(Clients) \cup Permutations({a1, a2})
    \cup Permutations(Messages) \cup Permutations(Pullers)
=============================================================================
