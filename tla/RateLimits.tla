----------------------------- MODULE RateLimits -----------------------------
(***************************************************************************)
(* The rate limits of the control plane: consumeRateLimit and              *)
(* consumeRateLimits (apps/api/src/control-plane-postgres-effects.ts) with *)
(* decideRateLimitBatch (job-retry-policy.ts), and the requests of the     *)
(* workers that use them (rateLimitInputs, job-handler.ts).                *)
(*                                                                         *)
(* A worker names the bucket, a date or the number of a window, by its own *)
(* clock when it sends the request; the control plane acts on it later.    *)
(* Links, texts and files consume one scope at a time (Singles), from one  *)
(* row per bucket.  An article consumes all of its scopes at once          *)
(* (Batched), from one row that holds the buckets of the last request.     *)
(***************************************************************************)
EXTENDS Naturals

CONSTANTS
    Singles, Batched,  \* scopes: text:daily, text:window; article:daily, ...
    Limit,             \* how many a bucket of the scope may grant
    Length,            \* windowSeconds of the scope
    Buckets,           \* bucket keys
    BucketOf,          \* the bucket of a scope at a time
    EndOf,             \* when a bucket is over
    MaxTime,           \* bound on the clock
    MaxLate,           \* ticks a request may be under way
    Callers            \* requests at the same time

Scopes == Singles \cup Batched
Times  == 0..MaxTime

\* Shanghai days and floor(time / window) are buckets like this: each is an
\* interval no longer than its window.
ASSUME RateAssumption ==
    /\ Scopes # {}
    /\ Singles \cap Batched = {}
    /\ Limit \in [Scopes -> Nat \ {0}]
    /\ Length \in [Scopes -> Nat]
    /\ BucketOf \in [Scopes -> [Times -> Buckets]]
    /\ EndOf \in [Scopes -> [Buckets -> Nat]]
    /\ MaxTime \in Nat
    /\ MaxLate \in Nat
    /\ \A s \in Scopes : \A t \in Times :
          /\ t < EndOf[s][BucketOf[s][t]]
          /\ EndOf[s][BucketOf[s][t]] <= t + Length[s]
          /\ \A u, v \in Times :
                t <= u /\ u <= v /\ BucketOf[s][t] = BucketOf[s][v]
                => BucketOf[s][u] = BucketOf[s][t]

VARIABLES
    now,      \* the clock
    rows,     \* worker_rate_limits, one row per scope and bucket
    batch,    \* worker_rate_limit_batches: per scope, the bucket it knows
    calls,    \* of each caller: the request under way, or its last answer
    granted   \* history: grants per scope and bucket, while the bucket lasts

rateVars == <<now, rows, batch, calls, granted>>

NoBucket == [count |-> 0, expires |-> 0]
NoEntry  == [known |-> FALSE, bucket |-> BucketOf[CHOOSE s \in Batched : TRUE][0],
             count |-> 0, expires |-> 0]

\* phase: "single" and "batch" are under way; at: when the worker made it;
\* scope: what a single asks for; until: retryAt of a refusal and, in the
\* batch, the scopes that refused
NoCall ==
    [phase |-> "none", at |-> 0, scope |-> CHOOSE s \in Scopes : TRUE,
     until |-> 0, refusing |-> {}]

\* Types; no stored count ever exceeds its limit.
RateTypeOK ==
    /\ now \in Times
    /\ \A s \in Singles : rows[s] \in [Buckets -> [count : 0..Limit[s], expires : Nat]]
    /\ \A s \in Batched : batch[s] \in [known : BOOLEAN, bucket : Buckets,
                                       count : 0..Limit[s], expires : Nat]
    /\ DOMAIN rows = Singles /\ DOMAIN batch = Batched
    /\ calls \in [Callers ->
                    [phase : {"none", "single", "batch", "refused"}, at : Times,
                     scope : Scopes, until : Nat, refusing : SUBSET Scopes]]
    /\ granted \in [Scopes -> [Buckets -> Nat]]

RateInit ==
    /\ now = 0
    /\ rows = [s \in Singles |-> [b \in Buckets |-> NoBucket]]
    /\ batch = [s \in Batched |-> NoEntry]
    /\ calls = [c \in Callers |-> NoCall]
    /\ granted = [s \in Scopes |-> [b \in Buckets |-> 0]]

UnderWay(c) == calls[c].phase \in {"single", "batch"}
Asked(c, s) == BucketOf[s][calls[c].at]

Ask(c, phase, s) ==
    /\ ~UnderWay(c)
    /\ calls' = [calls EXCEPT ![c] = [NoCall EXCEPT !.phase = phase, !.at = now,
                                                    !.scope = s]]
    /\ UNCHANGED <<now, rows, batch, granted>>

SendSingle(c) == \E s \in Singles : Ask(c, "single", s)
SendBatch(c)  == Batched # {} /\ Ask(c, "batch", NoCall.scope)

Answer(c) == calls' = [calls EXCEPT ![c] = NoCall]

Refuse(c, until, refusing) ==
    calls' = [calls EXCEPT ![c] =
                 [phase |-> "refused", at |-> @.at, scope |-> @.scope,
                  until |-> until, refusing |-> refusing]]

\* a grant counts for its bucket as long as that bucket lasts
CountGrants(scopes, bucket) ==
    granted' = [s \in Scopes |->
                  [b \in Buckets |->
                     IF s \in scopes /\ b = bucket[s] /\ b = BucketOf[s][now]
                     THEN granted[s][b] + 1 ELSE granted[s][b]]]

-----------------------------------------------------------------------------
(***************************************************************************)
(* consumeRateLimit                                                        *)
(***************************************************************************)
\* a row that is there and not expired
Live(row) == row.count > 0 /\ row.expires > now

FullOverOne(s, row) == Live(row) /\ row.count > Limit[s]

Full(s, row) == Live(row) /\ row.count >= Limit[s]

Consumed(s, row) ==
    IF Live(row) THEN [row EXCEPT !.count = @ + 1]
    ELSE [count |-> 1, expires |-> now + Length[s]]

ConsumeSingle(c) ==
    LET s == calls[c].scope
        b == Asked(c, s)
    IN
    /\ calls[c].phase = "single"
    /\ \/ /\ Full(s, rows[s][b])
          /\ Refuse(c, rows[s][b].expires, {s})
          /\ UNCHANGED <<rows, granted>>
       \/ /\ ~Full(s, rows[s][b])
          /\ rows' = [rows EXCEPT ![s][b] = Consumed(s, rows[s][b])]
          /\ CountGrants({s}, [x \in {s} |-> b])
          /\ Answer(c)
    /\ UNCHANGED <<now, batch>>

-----------------------------------------------------------------------------
(***************************************************************************)
(* consumeRateLimits                                                       *)
(***************************************************************************)
Existing(entries, s, b) == entries[s].known /\ entries[s].bucket = b
Active(entries, s, b)   == Existing(entries, s, b) /\ entries[s].expires > now
Count(entries, s, b)    == IF Active(entries, s, b) THEN entries[s].count ELSE 0

RefusingOverOne(entries, bucket) ==
    {s \in Batched : /\ Existing(entries, s, bucket[s])
                     /\ Count(entries, s, bucket[s]) > Limit[s]}

\* decideRateLimitBatch: the scopes that refuse, the latest of their ends, and
\* the entries that replace the stored ones when none does
Refusing(entries, bucket) ==
    {s \in Batched : /\ Existing(entries, s, bucket[s])
                     /\ Count(entries, s, bucket[s]) >= Limit[s]}

EarliestRetry(entries, refusing) ==
    CHOOSE until \in {entries[s].expires : s \in refusing} :
        \A s \in refusing : entries[s].expires >= until

RetryAt(entries, refusing) ==
    CHOOSE until \in {entries[s].expires : s \in refusing} :
        \A s \in refusing : entries[s].expires <= until

NextEntries(entries, bucket) ==
    [s \in Batched |->
        [known   |-> TRUE,
         bucket  |-> bucket[s],
         count   |-> Count(entries, s, bucket[s]) + 1,
         expires |-> IF Active(entries, s, bucket[s]) THEN entries[s].expires
                     ELSE now + Length[s]]]

ConsumeBatch(c) ==
    LET bucket   == [s \in Batched |-> Asked(c, s)]
        refusing == Refusing(batch, bucket)
    IN
    /\ calls[c].phase = "batch"
    /\ \/ /\ refusing # {}
          /\ Refuse(c, RetryAt(batch, refusing), refusing)
          /\ UNCHANGED <<batch, granted>>
       \/ /\ refusing = {}
          /\ batch' = NextEntries(batch, bucket)
          /\ CountGrants(Batched, bucket)
          /\ Answer(c)
    /\ UNCHANGED <<now, rows>>

-----------------------------------------------------------------------------
\* no request is under way for longer than MaxLate
RateTick ==
    /\ now < MaxTime
    /\ \A c \in Callers : UnderWay(c) => now < calls[c].at + MaxLate
    /\ now' = now + 1
    /\ UNCHANGED <<rows, batch, calls, granted>>

RateNext ==
    \/ \E c \in Callers :
          SendSingle(c) \/ SendBatch(c) \/ ConsumeSingle(c) \/ ConsumeBatch(c)
    \/ RateTick

RateSpec == RateInit /\ [][RateNext]_rateVars

-----------------------------------------------------------------------------
(***************************************************************************)
(* Correctness                                                             *)
(***************************************************************************)

\* As long as a bucket lasts, no more is granted for it than its limit allows,
\* whatever the interleaving of the workers: a row never expires before its
\* bucket is over.  (What a late request takes from a bucket that is over is
\* not counted: the work it stands for is done in the next one.)
SingleLimitKept ==
    \A s \in Singles : \A b \in Buckets : granted[s][b] <= Limit[s]

\* The same of the limits of an article, which are kept in one row.
BatchLimitKept ==
    \A s \in Batched : \A b \in Buckets : granted[s][b] <= Limit[s]

\* An article that was refused is deferred until every bucket that refused it
\* is over, so that the same buckets cannot refuse it again; and by no more
\* than the longest of its windows.
DeferredPastItsBuckets ==
    \A c \in Callers :
        calls[c].phase = "refused" =>
            /\ \A s \in calls[c].refusing : EndOf[s][Asked(c, s)] <= calls[c].until
            /\ \E s \in calls[c].refusing : calls[c].until <= calls[c].at + MaxLate + Length[s]
=============================================================================
