----------------------------- MODULE QueueInbox -----------------------------
(***************************************************************************)
(* The lease inbox between the Cloudflare queue and the browser workers:   *)
(* table worker_inbox of the PostgreSQL control plane                      *)
(* (apps/api/src/queue-inbox-postgres.ts) and the queue consumer that      *)
(* fills it (stageQueueBatch of apps/api/src/index.ts).                    *)
(*                                                                         *)
(* Every operation is one transaction, so every operation is one action.   *)
(* Time is counted in ticks; a timer counts down to the moment the code    *)
(* compares with now().  Row order (ORDER BY created_at) is abstracted to  *)
(* an arbitrary choice of at most BatchSize available rows.                *)
(***************************************************************************)
EXTENDS Naturals, FiniteSets

CONSTANTS
    Messages,    \* stable message identifiers (message_id)
    Leases,      \* identifiers randomUuid() draws lease ids from
    NoLease,     \* lease_id = NULL
    NoMessage,   \* a lease id nobody holds
    BatchSize,   \* the worker's pull size
    Visibility,  \* visibilityTimeoutMs, in ticks
    MaxDelay,    \* the longest retry delay, in ticks
    MaxRetries   \* redeliveries the Cloudflare queue makes of one message

ASSUME InboxAssumption ==
    /\ NoLease \notin Leases
    /\ NoMessage \notin Messages
    /\ BatchSize \in Nat \ {0}
    /\ Visibility \in Nat \ {0}
    /\ MaxDelay \in Nat
    /\ MaxRetries \in Nat

VARIABLES
    cloud,     \* per message: its place in the Cloudflare queue
    tries,     \* per message: failed deliveries of it so far
    inbox,     \* table worker_inbox
    grants,    \* history: the lease ids clients still hold, and for how long
    consumed   \* history: messages a worker's settlement has deleted

inboxVars == <<cloud, tries, inbox, grants, consumed>>

CloudState == {"unsent", "queued", "acked", "dropped"}
Timer      == 0..(Visibility + MaxDelay)

\* a row carries a lease id exactly while it is leased
InboxRow ==
    {row \in [status : {"absent", "queued", "leased"},
              lease  : Leases \cup {NoLease},
              timer  : Timer] :
        row.status = "leased" <=> row.lease # NoLease}

NoRow         == [status |-> "absent", lease |-> NoLease, timer |-> 0]
QueuedRow(t)  == [status |-> "queued", lease |-> NoLease, timer |-> t]
LeasedRow(l)  == [status |-> "leased", lease |-> l, timer |-> Visibility]

Grant   == [message : Messages \cup {NoMessage}, left : 0..Visibility]
NoGrant == [message |-> NoMessage, left |-> 0]

InboxTypeOK ==
    /\ cloud \in [Messages -> CloudState]
    /\ tries \in [Messages -> 0..MaxRetries]
    /\ inbox \in [Messages -> InboxRow]
    /\ grants \in [Leases -> Grant]
    /\ consumed \in SUBSET Messages

InboxInit ==
    /\ cloud = [m \in Messages |-> "unsent"]
    /\ tries = [m \in Messages |-> 0]
    /\ inbox = [m \in Messages |-> NoRow]
    /\ grants = [l \in Leases |-> NoGrant]
    /\ consumed = {}

-----------------------------------------------------------------------------
(***************************************************************************)
(* The Cloudflare queue and its consumer                                   *)
(***************************************************************************)

Send(ms) ==
    /\ \A m \in ms : cloud[m] = "unsent"
    /\ cloud' = [m \in Messages |-> IF m \in ms THEN "queued" ELSE cloud[m]]
    /\ UNCHANGED <<tries, inbox, grants, consumed>>

\* INSERT ... ON CONFLICT (message_id) DO NOTHING
Staged(ms) ==
    [m \in Messages |->
        IF m \in ms /\ inbox[m].status = "absent" THEN QueuedRow(0) ELSE inbox[m]]

Batch(ms) == ms # {} /\ \A m \in ms : cloud[m] = "queued"

AckedUnstaged(ms) ==
    /\ Batch(ms)
    /\ cloud' = [m \in Messages |-> IF m \in ms THEN "acked" ELSE cloud[m]]
    /\ UNCHANGED <<inbox, tries, grants, consumed>>

\* stageQueueBatch that gets as far as batch.ackAll()
StageAcked(ms) ==
    /\ Batch(ms)
    /\ inbox' = Staged(ms)
    /\ cloud' = [m \in Messages |-> IF m \in ms THEN "acked" ELSE cloud[m]]
    /\ UNCHANGED <<tries, grants, consumed>>

\* The queue's answer to a consumer that throws: deliver again, MaxRetries
\* times, then discard the message (no dead-letter queue is configured).
Redeliver(ms) ==
    /\ cloud' = [m \in Messages |->
                    IF m \in ms /\ tries[m] = MaxRetries THEN "dropped" ELSE cloud[m]]
    /\ tries' = [m \in Messages |->
                    IF m \in ms /\ tries[m] < MaxRetries THEN tries[m] + 1 ELSE tries[m]]

\* wakeWorker throws after the rows are committed: the batch is not acked
StageUnwoken(ms) ==
    /\ Batch(ms)
    /\ inbox' = Staged(ms)
    /\ Redeliver(ms)
    /\ UNCHANGED <<grants, consumed>>

\* the service is frozen, or the staging transaction fails: nothing is written
StageRefused(ms) ==
    /\ Batch(ms)
    /\ Redeliver(ms)
    /\ UNCHANGED <<inbox, grants, consumed>>

\* A replayed dead letter is put into the inbox by the transaction that revives
\* its job; its message never was in the Cloudflare queue.
StageReplay(m) ==
    /\ cloud[m] = "unsent"
    /\ inbox' = Staged({m})
    /\ cloud' = [cloud EXCEPT ![m] = "acked"]
    /\ UNCHANGED <<tries, grants, consumed>>

-----------------------------------------------------------------------------
(***************************************************************************)
(* The workers' side: POST /internal/queue/pull and /internal/queue/settle *)
(***************************************************************************)

NeverExpired == inbox

ExpiredEarly ==
    [m \in Messages |-> IF inbox[m].status = "leased" THEN QueuedRow(0) ELSE inbox[m]]

\* leased rows whose lease_until <= now go back to the queue first
Expired ==
    [m \in Messages |->
        IF inbox[m].status = "leased" /\ inbox[m].timer = 0
        THEN QueuedRow(0) ELSE inbox[m]]

Available == {m \in Messages : Expired[m].status = "queued" /\ Expired[m].timer = 0}

\* randomUuid(): an id no row carries and no client holds
FreshLeases ==
    {l \in Leases : grants[l] = NoGrant /\ \A m \in Messages : inbox[m].lease # l}

\* the messages one pull may take
PullSize(ms) ==
    /\ ms \subseteq Available
    /\ Cardinality(ms) = IF Cardinality(Available) < BatchSize
                         THEN Cardinality(Available) ELSE BatchSize

\* leaseOf gives every pulled message an id of its own
Pull(ms, leaseOf) ==
    /\ PullSize(ms)
    /\ inbox' = [m \in Messages |-> IF m \in ms THEN LeasedRow(leaseOf[m]) ELSE Expired[m]]
    /\ grants' = [l \in Leases |->
                    IF \E m \in ms : leaseOf[m] = l
                    THEN [message |-> CHOOSE m \in ms : leaseOf[m] = l, left |-> Visibility]
                    ELSE grants[l]]
    /\ UNCHANGED <<cloud, tries, consumed>>

Numberings(ms) ==
    {f \in [ms -> FreshLeases] : \A m, n \in ms : f[m] = f[n] => m = n}

SettleByMessage(acks, retries, delay) ==
    LET of(ls) == {grants[l].message : l \in ls} IN
    /\ acks \cap retries = {}
    /\ acks \cup retries # {}
    /\ inbox' = [m \in Messages |->
                    IF m \in of(acks) THEN NoRow
                    ELSE IF m \in of(retries) THEN QueuedRow(delay)
                    ELSE inbox[m]]
    /\ consumed' = consumed \cup of(acks)
    /\ UNCHANGED <<cloud, tries>>

\* acks and retries are sets of lease ids; a lease id no row carries any more
\* matches nothing (WHERE lease_id = $1 AND status = 'leased')
Settle(acks, retries, delay) ==
    /\ acks \cap retries = {}
    /\ acks \cup retries # {}
    /\ inbox' = [m \in Messages |->
                    IF inbox[m].lease \in acks THEN NoRow
                    ELSE IF inbox[m].lease \in retries THEN QueuedRow(delay)
                    ELSE inbox[m]]
    /\ consumed' = consumed \cup {m \in Messages : inbox[m].lease \in acks}
    /\ UNCHANGED <<cloud, tries>>

\* A client settles a batch at most once and then knows its leases no more; a
\* client that crashes, or whose settlement throws, forgets them unsettled.
Forgotten(ls) == [l \in Leases |-> IF l \in ls THEN NoGrant ELSE grants[l]]

SettleBatch(acks, retries, delay) ==
    /\ Settle(acks, retries, delay)
    /\ grants' = Forgotten(acks \cup retries)

Forget(ls) ==
    /\ grants' = Forgotten(ls)
    /\ UNCHANGED <<cloud, tries, inbox, consumed>>

Less(t) == IF t = 0 THEN 0 ELSE t - 1

InboxTick ==
    /\ inbox' = [m \in Messages |-> [inbox[m] EXCEPT !.timer = Less(@)]]
    /\ grants' = [l \in Leases |-> [grants[l] EXCEPT !.left = Less(@)]]
    /\ UNCHANGED <<cloud, tries, consumed>>

-----------------------------------------------------------------------------
(***************************************************************************)
(* The inbox under the most general clients: any worker may hold any lease *)
(* for as long as it likes and settle it, late or in time, as it likes.    *)
(***************************************************************************)
Held == {l \in Leases : grants[l] # NoGrant}

InboxNext ==
    \/ \E ms \in SUBSET Messages :
          \/ Send(ms)
          \/ StageAcked(ms)
          \/ StageUnwoken(ms)
          \/ StageRefused(ms)
          \/ \E leaseOf \in Numberings(ms) : Pull(ms, leaseOf)
    \/ \E m \in Messages : StageReplay(m)
    \/ \E acks, retries \in SUBSET Held, delay \in 0..MaxDelay :
          SettleBatch(acks, retries, delay)
    \/ \E ls \in SUBSET Held : Forget(ls)
    \/ InboxTick

InboxSpec == InboxInit /\ [][InboxNext]_inboxVars

-----------------------------------------------------------------------------
(***************************************************************************)
(* Correctness                                                             *)
(***************************************************************************)

\* While a lease a worker holds has not run out, the row of its message is
\* leased, and leased under that very id: no second worker can be given the
\* message (UPDATE ... WHERE lease_until <= $1 before each pull, FOR UPDATE
\* SKIP LOCKED).
LeaseExclusive ==
    \A l \in Leases :
        grants[l].left > 0 =>
            LET m == grants[l].message IN
            /\ m \in Messages
            /\ inbox[m].status = "leased"
            /\ inbox[m].lease = l
            /\ inbox[m].timer >= grants[l].left

\* A message the queue has been relieved of is in the inbox until a worker's
\* settlement deletes it, whatever expires, is re-leased or is settled late
\* (stage before ackAll; DELETE only by lease id).
NoMessageLost ==
    \A m \in Messages :
        cloud[m] = "acked" => inbox[m].status # "absent" \/ m \in consumed

\* The lease of a row ends in two ways only: its time is up, or the client that
\* was given this very lease settles it.  A late settlement never takes the row
\* away from the worker it has since been leased to.
OnlyHolderEnds ==
    [][\A m \in Messages :
          inbox[m].status = "leased" /\ inbox'[m].lease # inbox[m].lease =>
              \/ inbox[m].timer = 0
              \/ /\ grants[inbox[m].lease].message = m
                 /\ grants'[inbox[m].lease] = NoGrant]_inboxVars
=============================================================================
