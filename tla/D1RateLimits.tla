---------------------------- MODULE D1RateLimits ----------------------------
(***************************************************************************)
(* The rate limits of the D1 backend (apps/api/src/control-plane.ts), on   *)
(* the requests and the clock of RateLimits.  consumeRateLimit reads the   *)
(* row of a bucket, decides, and writes it with a later statement.         *)
(* consumeRateLimits does the same, but its write takes effect only if the *)
(* version of the row is the one it has read; otherwise it starts over, up *)
(* to Attempts times, and then throws.                                     *)
(***************************************************************************)
EXTENDS RateLimits

CONSTANT Attempts  \* five in the code

ASSUME D1RateAssumption == Attempts \in Nat \ {0}

VARIABLES
    version,  \* of the row of the batch; 0 while there is none
    pending   \* of each request: what it has decided to write, and its attempts

d1RateVars == <<rateVars, version, pending>>

\* step: "insert" writes a fresh row that lasts until expires, "update" the count
\* after the one in row, "entries" the batch over version seen
NoWrite ==
    [step |-> "none", row |-> NoBucket, expires |-> 0, seen |-> 0,
     entries |-> [s \in Batched |-> NoEntry], attempts |-> 0]

D1RateInit ==
    /\ RateInit
    /\ version = 0
    /\ pending = [c \in Callers |-> NoWrite]

D1Send(c) ==
    /\ SendSingle(c) \/ SendBatch(c)
    /\ calls[c].phase # "thrown"
    /\ UNCHANGED <<version, pending>>

-----------------------------------------------------------------------------
ReadSingle(c) ==
    LET s   == calls[c].scope
        row == rows[s][Asked(c, s)]
    IN
    /\ calls[c].phase = "single" /\ pending[c].step = "none"
    /\ \/ /\ Full(s, row)
          /\ Refuse(c, row.expires, {s})
          /\ UNCHANGED pending
       \/ /\ ~Full(s, row)
          /\ pending' = [pending EXCEPT ![c] =
                [NoWrite EXCEPT !.step = IF Live(row) THEN "update" ELSE "insert",
                                !.row = row, !.expires = now + Length[s]]]
          /\ UNCHANGED calls
    /\ UNCHANGED <<now, rows, batch, granted, version>>

WriteSingleFresh(c) ==
    LET s == calls[c].scope
        b == Asked(c, s)
    IN
    /\ pending[c].step \in {"insert", "update"}
    /\ rows' = [rows EXCEPT ![s][b] = [count |-> 1, expires |-> pending[c].expires]]
    /\ pending' = [pending EXCEPT ![c] = NoWrite]
    /\ CountGrants({s}, [x \in {s} |-> b])
    /\ Answer(c)
    /\ UNCHANGED <<now, batch, version>>

WriteSingle(c) ==
    LET s == calls[c].scope
        b == Asked(c, s)
    IN
    /\ pending[c].step \in {"insert", "update"}
    /\ rows' = [rows EXCEPT ![s][b] =
                   IF pending[c].step = "update"
                   THEN [@ EXCEPT !.count = pending[c].row.count + 1]
                   ELSE [count |-> 1, expires |-> pending[c].expires]]
    /\ pending' = [pending EXCEPT ![c] = NoWrite]
    /\ CountGrants({s}, [x \in {s} |-> b])
    /\ Answer(c)
    /\ UNCHANGED <<now, batch, version>>

-----------------------------------------------------------------------------
Wanted(c) == [s \in Batched |-> Asked(c, s)]

ReadBatch(c) ==
    LET refusing == Refusing(batch, Wanted(c)) IN
    /\ calls[c].phase = "batch" /\ pending[c].step = "none"
    /\ \/ /\ refusing # {}
          /\ Refuse(c, RetryAt(batch, refusing), refusing)
          /\ pending' = [pending EXCEPT ![c] = NoWrite]
       \/ /\ refusing = {}
          /\ pending' = [pending EXCEPT ![c] =
                [@ EXCEPT !.step = "entries", !.seen = version,
                          !.entries = NextEntries(batch, Wanted(c))]]
          /\ UNCHANGED calls
    /\ UNCHANGED <<now, rows, batch, granted, version>>

SameRow(c) == (version = 0) = (pending[c].seen = 0)

\* the row is still the one the request has read
Unchanged(c) == version = pending[c].seen

WriteBatch(c) ==
    /\ pending[c].step = "entries"
    /\ Unchanged(c)
    /\ batch' = pending[c].entries
    /\ version' = version + 1
    /\ pending' = [pending EXCEPT ![c] = NoWrite]
    /\ CountGrants(Batched, Wanted(c))
    /\ Answer(c)
    /\ UNCHANGED <<now, rows>>

TryAgain(c) ==
    /\ pending[c].step = "entries"
    /\ ~Unchanged(c)
    /\ \/ /\ pending[c].attempts + 1 < Attempts
          /\ pending' = [pending EXCEPT ![c] =
                            [NoWrite EXCEPT !.attempts = pending[c].attempts + 1]]
          /\ UNCHANGED calls
       \/ /\ pending[c].attempts + 1 = Attempts
          /\ pending' = [pending EXCEPT ![c] = NoWrite]
          /\ calls' = [calls EXCEPT ![c].phase = "thrown"]
    /\ UNCHANGED <<now, rows, batch, granted, version>>

D1RateTick == RateTick /\ UNCHANGED <<version, pending>>

D1RateNext ==
    \/ \E c \in Callers :
          \/ D1Send(c)
          \/ ReadSingle(c) \/ WriteSingle(c)
          \/ ReadBatch(c) \/ WriteBatch(c) \/ TryAgain(c)
    \/ D1RateTick

D1RateSpec == D1RateInit /\ [][D1RateNext]_d1RateVars

-----------------------------------------------------------------------------
\* what the request has read is still so
StillSo(c) ==
    CASE pending[c].step = "none"    -> TRUE
      [] pending[c].step = "entries" -> Unchanged(c)
      [] OTHER -> rows[calls[c].scope][Asked(c, calls[c].scope)] = pending[c].row

\* A request that nobody overtook between its read and its write does what the
\* PostgreSQL transaction does: the statements of D1 keep the limits as long as
\* overlapping requests do not consume from the same row.
RatePromise ==
    [][(\A c \in Callers : pending'[c] # pending[c] => StillSo(c))
       => RateNext \/ UNCHANGED rateVars]_d1RateVars

\* A batch that was read is written over the row that was read, or not at all:
\* an entry of the batch counts exactly what has been granted for its bucket
\* while that bucket lasts, although several requests read the same row.
EntriesCountGrants ==
    \A s \in Batched :
        batch[s].known /\ batch[s].bucket = BucketOf[s][now] =>
            batch[s].count = granted[s][batch[s].bucket]

\* The version check keeps the count of an article's limits exact, and so
\* the limits themselves, where the single limits may be passed.
D1RatesSafe == EntriesCountGrants /\ BatchLimitKept
=============================================================================
