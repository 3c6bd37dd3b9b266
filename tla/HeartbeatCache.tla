--------------------------- MODULE HeartbeatCache ---------------------------
(***************************************************************************)
(* The latest heartbeat of a worker: recorded in PostgreSQL, cached with a *)
(* time to live in front of it, read by the console                        *)
(* (apps/api/src/heartbeat-cache.ts, recordHeartbeat of                    *)
(* control-plane-postgres-data.ts).  Requests overlap and may stall        *)
(* between any two of their steps; every request to the cache may be lost. *)
(* A tick is thirty seconds.                                               *)
(***************************************************************************)
EXTENDS Naturals

CONSTANTS
    Beating,    \* workers, as numbers: of two heartbeats of one time, the one
                \* of the greater worker_id counts
    Requests,   \* requests in progress at the same time
    MaxClock,   \* bound on the clock
    MaxSkew     \* ticks the clock of an API server may be ahead

Ttl       == 3   \* HEARTBEAT_TTL_SECONDS
Tolerated == 1   \* MAX_FUTURE_SKEW_MS

ASSUME HeartbeatAssumption ==
    Beating \subseteq Nat \ {0} /\ MaxClock \in Nat \ {0} /\ MaxSkew \in 0..Tolerated

VARIABLES
    clock,
    beats,      \* beats[w]: last_seen_at in PostgreSQL
    cell,       \* the cached heartbeat and when it lapses
    asks        \* asks[r]: phase, the heartbeat it carries; of a reader when
                \* it began and which row was the latest then

heartbeatVars == <<clock, beats, cell, asks>>

Never   == [worker |-> 0, at |-> 0]
NoAsk   == [phase |-> "none", beat |-> Never, began |-> 0, latest |-> Never]

Later(a, b)  == a.at > b.at \/ (a.at = b.at /\ a.worker >= b.worker)
Fresh(b, at) == b # Never /\ b.at <= at + Tolerated /\ at <= b.at + Ttl

\* ORDER BY last_seen_at DESC, worker_id DESC LIMIT 1
Rows   == {Never} \cup {[worker |-> w, at |-> beats[w]] :
                          w \in {v \in Beating : beats[v] > 0}}
Latest == CHOOSE b \in Rows : \A c \in Rows : Later(b, c)

HeartbeatInit ==
    /\ clock = 1
    /\ beats = [w \in Beating |-> 0]
    /\ cell = [beat |-> Never, lapses |-> 0]
    /\ asks = [r \in Requests |-> NoAsk]

-----------------------------------------------------------------------------
(* recordHeartbeat *)

Beat(r, w, skew) ==
    /\ asks[r].phase = "none"
    /\ asks' = [asks EXCEPT ![r] =
         [NoAsk EXCEPT !.phase = "upsert",
                       !.beat = [worker |-> w, at |-> clock + skew]]]
    /\ UNCHANGED <<clock, beats, cell>>

\* ON CONFLICT DO UPDATE ... WHERE last_seen_at <= EXCLUDED.last_seen_at
Upsert(r) ==
    LET b == asks[r].beat
    IN  /\ asks[r].phase = "upsert"
        /\ beats' = [beats EXCEPT ![b.worker] = IF @ <= b.at THEN b.at ELSE @]
        /\ asks' = [asks EXCEPT ![r].phase = "latest"]
        /\ UNCHANGED <<clock, cell>>

SelectLatest(r) ==
    /\ asks[r].phase = "latest"
    /\ asks' = [asks EXCEPT ![r] =
         IF Fresh(Latest, clock)
         THEN [NoAsk EXCEPT !.phase = "set", !.beat = Latest] ELSE NoAsk]
    /\ UNCHANGED <<clock, beats, cell>>

\* SET_IF_NEWER_SCRIPT; a cell that has lapsed is empty
Cached == IF cell.lapses > clock THEN cell.beat ELSE Never

SetIfNewer(r, lost) ==
    LET b == asks[r].beat
    IN  /\ asks[r].phase = "set"
        /\ cell' = IF lost \/ ~Later(b, Cached) THEN cell
                   ELSE [beat |-> b, lapses |-> clock + Ttl]
        /\ asks' = [asks EXCEPT ![r] = NoAsk]
        /\ UNCHANGED <<clock, beats>>

-----------------------------------------------------------------------------
(* readLatestWorkerHeartbeat: with the time at which it began *)

Read(r) ==
    /\ asks[r].phase = "none"
    /\ asks' = [asks EXCEPT ![r] =
         [phase |-> "get", beat |-> Never, began |-> clock, latest |-> Latest]]
    /\ UNCHANGED <<clock, beats, cell>>

\* mutant: what is cached is not asked for its age
GetStale(r, lost) ==
    /\ asks[r].phase = "get"
    /\ asks' = [asks EXCEPT ![r] =
         IF ~lost /\ Cached # Never
         THEN [@ EXCEPT !.phase = "cached", !.beat = Cached]
         ELSE [@ EXCEPT !.phase = "query"]]
    /\ UNCHANGED <<clock, beats, cell>>

Get(r, lost) ==
    /\ asks[r].phase = "get"
    /\ asks' = [asks EXCEPT ![r] =
         IF ~lost /\ Fresh(Cached, @.began)
         THEN [@ EXCEPT !.phase = "cached", !.beat = Cached]
         ELSE [@ EXCEPT !.phase = "query"]]
    /\ UNCHANGED <<clock, beats, cell>>

Query(r) ==
    /\ asks[r].phase = "query"
    /\ asks' = [asks EXCEPT ![r].phase = "queried", ![r].beat = Latest]
    /\ UNCHANGED <<clock, beats, cell>>

\* answered; what the query found is cached
Answer(r) ==
    /\ asks[r].phase \in {"cached", "queried"}
    /\ asks' = [asks EXCEPT ![r] =
         IF @.phase = "queried" /\ Fresh(@.beat, @.began)
         THEN [NoAsk EXCEPT !.phase = "set", !.beat = asks[r].beat] ELSE NoAsk]
    /\ UNCHANGED <<clock, beats, cell>>

ClockTick ==
    /\ clock < MaxClock
    /\ clock' = clock + 1
    /\ UNCHANGED <<beats, cell, asks>>

HeartbeatNext ==
    \/ \E r \in Requests :
         \/ \E w \in Beating, skew \in 0..MaxSkew : Beat(r, w, skew)
         \/ Upsert(r) \/ SelectLatest(r) \/ Read(r) \/ Query(r) \/ Answer(r)
         \/ \E lost \in BOOLEAN : SetIfNewer(r, lost) \/ Get(r, lost)
    \/ ClockTick

HeartbeatSpec == HeartbeatInit /\ [][HeartbeatNext]_heartbeatVars

-----------------------------------------------------------------------------
(* Properties *)

\* Types of the variables; a heartbeat is from no later than the clock and
\* its skew.
HeartbeatTypeOK ==
    LET Beats == {Never} \cup [worker : Beating, at : 1..(clock + MaxSkew)]
    IN  /\ clock \in 1..MaxClock
        /\ beats \in [Beating -> 0..(clock + MaxSkew)]
        /\ cell \in [beat : Beats, lapses : 0..(clock + Ttl)]
        /\ asks \in [Requests ->
             [phase : {"none", "upsert", "latest", "set", "get", "cached",
                       "query", "queried"},
              beat : Beats, began : 0..clock, latest : Beats]]

\* The console does not take a living worker for a dead one: a reader is
\* told of a heartbeat less than ninety seconds old when there was one, or
\* of one as late as the latest when it asked, whatever the cache holds and
\* however long its own request to the cache has stalled.
LivingSeen ==
    \A r \in Requests : asks[r].phase \in {"cached", "queried"} =>
        \/ asks[r].beat.at + Ttl >= asks[r].began
        \/ Later(asks[r].beat, asks[r].latest)

\* The cache is never ahead of PostgreSQL: a heartbeat in it was committed.
CacheIsCommitted ==
    cell.beat # Never => beats[cell.beat.worker] >= cell.beat.at

\* Neither a row nor the cache goes back to an older heartbeat, in whatever
\* order the requests arrive.
NeverBack ==
    [][/\ \A w \in Beating : beats'[w] >= beats[w]
       /\ Cached # Never => Later(cell'.beat, cell.beat)]_heartbeatVars

\* The cache may fail, lapse and lag, and never deceives its reader.
CacheSafe == [](LivingSeen /\ CacheIsCommitted) /\ NeverBack
=============================================================================
