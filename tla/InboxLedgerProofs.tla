------------------------- MODULE InboxLedgerProofs -------------------------
(***************************************************************************)
(* Proofs about the two tables that every message passes through, for all  *)
(* lengths of their timers: the lease inbox, for every set of messages and *)
(* lease ids and every batch size, and the job ledger, for every set of    *)
(* keys and job ids.                                                       *)
(***************************************************************************)
EXTENDS QueueInbox, JobLedger, TLAPS

(***************************************************************************)
(* The lease inbox                                                         *)
(***************************************************************************)
\* A lease id names one message for its whole life: the row that carries it is
\* the one its holder was given, and a row that is not leased carries none.
LeaseNamesRow ==
    \A m \in Messages :
        /\ inbox[m].status = "leased" =>
              /\ inbox[m].lease \in Leases
              /\ \/ grants[inbox[m].lease] = NoGrant
                 \/ grants[inbox[m].lease].message = m
        /\ inbox[m].status # "leased" => inbox[m].lease = NoLease

LeaseInv == InboxTypeOK /\ LeaseExclusive /\ LeaseNamesRow

LEMMA TimerValues ==
    /\ 0 \in Timer /\ Visibility \in Timer /\ 0 \in 0..Visibility
    /\ Visibility \in 0..Visibility
    /\ \A d \in 0..MaxDelay : d \in Timer
BY InboxAssumption DEF Timer

LEMMA RowsAreRows ==
    /\ NoRow \in InboxRow
    /\ \A t \in Timer : QueuedRow(t) \in InboxRow
    /\ \A l \in Leases : LeasedRow(l) \in InboxRow
    /\ NoGrant \in Grant
    /\ \A m \in Messages : [message |-> m, left |-> Visibility] \in Grant
BY TimerValues, InboxAssumption DEF NoRow, QueuedRow, LeasedRow, InboxRow, NoGrant, Grant

LEMMA LeaseInvInit == InboxInit => LeaseInv
<1> SUFFICES ASSUME InboxInit PROVE LeaseInv
  OBVIOUS
<1>1. InboxTypeOK
  BY RowsAreRows, InboxAssumption DEF InboxInit, InboxTypeOK, CloudState
<1>2. LeaseExclusive  BY DEF InboxInit, LeaseExclusive, NoGrant
<1>3. LeaseNamesRow  BY DEF InboxInit, LeaseNamesRow, NoRow
<1> QED  BY <1>1, <1>2, <1>3 DEF LeaseInv

\* Staging touches only rows that are absent, whether the batch is acked,
\* delivered again or given up, and whether the row is new or replayed.
LEMMA StagingKeepsInv ==
    ASSUME LeaseInv, NEW ms \in SUBSET Messages, inbox' = Staged(ms),
           cloud' \in [Messages -> CloudState], tries' \in [Messages -> 0..MaxRetries],
           UNCHANGED <<grants, consumed>>
    PROVE  LeaseInv'
<1>1. InboxTypeOK'
  BY RowsAreRows, TimerValues DEF LeaseInv, InboxTypeOK, Staged
<1>2. \A m \in Messages : \/ inbox'[m] = inbox[m]
                          \/ inbox[m].status = "absent" /\ inbox'[m] = QueuedRow(0)
  BY DEF Staged
<1>3. LeaseExclusive'
  BY <1>2 DEF LeaseInv, LeaseExclusive
<1>4. LeaseNamesRow'
  BY <1>2 DEF LeaseInv, LeaseNamesRow, QueuedRow
<1> QED  BY <1>1, <1>3, <1>4 DEF LeaseInv

\* The steps that leave the inbox and the grants alone.
LEMMA QueueingKeepsInv ==
    ASSUME LeaseInv, UNCHANGED <<inbox, grants, consumed>>,
           cloud' \in [Messages -> CloudState], tries' \in [Messages -> 0..MaxRetries]
    PROVE  LeaseInv'
BY DEF LeaseInv, InboxTypeOK, LeaseExclusive, LeaseNamesRow

LEMMA RedeliverType ==
    ASSUME InboxTypeOK, NEW ms \in SUBSET Messages, Redeliver(ms)
    PROVE  cloud' \in [Messages -> CloudState] /\ tries' \in [Messages -> 0..MaxRetries]
BY InboxAssumption DEF InboxTypeOK, Redeliver, CloudState

LEMMA SendType ==
    ASSUME InboxTypeOK, NEW ms \in SUBSET Messages, NEW to \in CloudState,
           cloud' = [m \in Messages |-> IF m \in ms THEN to ELSE cloud[m]], tries' = tries
    PROVE  cloud' \in [Messages -> CloudState] /\ tries' \in [Messages -> 0..MaxRetries]
BY DEF InboxTypeOK

\* What a pull does to each row: its own messages are leased under their own
\* fresh id, an expired lease ends, every other row is left alone.
LEMMA PulledRows ==
    ASSUME LeaseInv, NEW ms \in SUBSET Messages, NEW leaseOf \in Numberings(ms),
           Pull(ms, leaseOf)
    PROVE  /\ \A m \in ms : /\ leaseOf[m] \in FreshLeases
                            /\ inbox'[m] = LeasedRow(leaseOf[m])
                            /\ inbox[m].status = "leased" => inbox[m].timer = 0
           /\ \A m \in Messages \ ms :
                 \/ inbox'[m] = inbox[m]
                 \/ /\ inbox[m].status = "leased" /\ inbox[m].timer = 0
                    /\ inbox'[m] = QueuedRow(0)
           /\ \A m \in ms : grants'[leaseOf[m]] = [message |-> m, left |-> Visibility]
           /\ \A l \in Leases : (\A m \in ms : leaseOf[m] # l) => grants'[l] = grants[l]
<1>1. \A m \in ms : leaseOf[m] \in FreshLeases
  BY DEF Numberings
<1>2. \A m \in ms : inbox[m].status = "leased" => inbox[m].timer = 0
  BY DEF Pull, PullSize, Available, Expired
<1>3. \A m \in ms : inbox'[m] = LeasedRow(leaseOf[m])
  BY DEF Pull
<1>4. \A m \in Messages \ ms :
         \/ inbox'[m] = inbox[m]
         \/ /\ inbox[m].status = "leased" /\ inbox[m].timer = 0
            /\ inbox'[m] = QueuedRow(0)
  BY DEF Pull, Expired
<1>5. \A m \in ms : grants'[leaseOf[m]] = [message |-> m, left |-> Visibility]
  <2> SUFFICES ASSUME NEW m \in ms
               PROVE  grants'[leaseOf[m]] = [message |-> m, left |-> Visibility]
    OBVIOUS
  <2>1. leaseOf[m] \in Leases  BY <1>1 DEF FreshLeases
  <2>2. \A n \in ms : leaseOf[n] = leaseOf[m] => n = m  BY DEF Numberings
  <2>3. (CHOOSE n \in ms : leaseOf[n] = leaseOf[m]) = m  BY <2>2
  <2> QED  BY <2>1, <2>3 DEF Pull
<1>6. \A l \in Leases : (\A m \in ms : leaseOf[m] # l) => grants'[l] = grants[l]
  BY DEF Pull
<1> QED  BY <1>1, <1>2, <1>3, <1>4, <1>5, <1>6

LEMMA PullKeepsInv ==
    ASSUME LeaseInv, NEW ms \in SUBSET Messages, NEW leaseOf \in Numberings(ms),
           Pull(ms, leaseOf)
    PROVE  LeaseInv'
<1>1. \A m \in ms : leaseOf[m] \in FreshLeases /\ leaseOf[m] \in Leases
  BY DEF Numberings, FreshLeases
<1>p. /\ \A m \in ms : inbox'[m] = LeasedRow(leaseOf[m])
      /\ \A m \in Messages \ ms :
            \/ inbox'[m] = inbox[m]
            \/ /\ inbox[m].status = "leased" /\ inbox[m].timer = 0
               /\ inbox'[m] = QueuedRow(0)
  BY PulledRows
<1>g. /\ \A m \in ms : grants'[leaseOf[m]] = [message |-> m, left |-> Visibility]
      /\ \A l \in Leases : (\A m \in ms : leaseOf[m] # l) => grants'[l] = grants[l]
  BY PulledRows
<1>2. InboxTypeOK'
  <2>1. inbox' \in [Messages -> InboxRow]
    <3>1. \A m \in Messages : inbox'[m] \in InboxRow
      BY <1>1, PulledRows, RowsAreRows, TimerValues DEF LeaseInv, InboxTypeOK
    <3> QED  BY <3>1 DEF Pull
  <2>2. grants' \in [Leases -> Grant]
    <3>1. ASSUME NEW l \in Leases PROVE grants'[l] \in Grant
      <4>1. CASE \E m \in ms : leaseOf[m] = l
        <5> PICK m \in ms : leaseOf[m] = l  BY <4>1
        <5>1. grants'[l] = [message |-> m, left |-> Visibility]  BY <1>g
        <5> QED  BY <5>1, RowsAreRows
      <4>2. CASE \A m \in ms : leaseOf[m] # l
        BY <4>2, <1>g DEF LeaseInv, InboxTypeOK
      <4> QED  BY <4>1, <4>2
    <3> QED  BY <3>1 DEF Pull
  <2> QED  BY <2>1, <2>2 DEF Pull, LeaseInv, InboxTypeOK
<1>3. LeaseExclusive'
  <2> SUFFICES ASSUME NEW l \in Leases, grants'[l].left > 0
               PROVE  /\ grants'[l].message \in Messages
                      /\ inbox'[grants'[l].message].status = "leased"
                      /\ inbox'[grants'[l].message].lease = l
                      /\ inbox'[grants'[l].message].timer >= grants'[l].left
    BY DEF LeaseExclusive
  <2>1. CASE \E m \in ms : leaseOf[m] = l
    <3> PICK m \in ms : leaseOf[m] = l  BY <2>1
    <3>1. grants'[l] = [message |-> m, left |-> Visibility]  BY <1>g
    <3>2. inbox'[m] = LeasedRow(l)  BY <1>p
    <3> QED  BY <3>1, <3>2, InboxAssumption DEF LeasedRow
  <2>2. CASE \A m \in ms : leaseOf[m] # l
    <3> DEFINE m == grants[l].message
    <3>1. grants'[l] = grants[l]  BY <1>g, <2>2
    <3>2. /\ m \in Messages
          /\ inbox[m].status = "leased" /\ inbox[m].lease = l
          /\ inbox[m].timer >= grants[l].left
      BY <3>1 DEF LeaseInv, LeaseExclusive
    <3>3. inbox[m].timer # 0
      BY <3>1, <3>2 DEF LeaseInv, InboxTypeOK, Grant
    <3>4. inbox'[m] = inbox[m]
      BY PulledRows, <3>2, <3>3
    <3> QED  BY <3>1, <3>2, <3>4
  <2> QED  BY <2>1, <2>2
<1>4. LeaseNamesRow'
  <2> SUFFICES ASSUME NEW m \in Messages
               PROVE  /\ inbox'[m].status = "leased" =>
                            /\ inbox'[m].lease \in Leases
                            /\ \/ grants'[inbox'[m].lease] = NoGrant
                               \/ grants'[inbox'[m].lease].message = m
                      /\ inbox'[m].status # "leased" => inbox'[m].lease = NoLease
    BY DEF LeaseNamesRow
  <2>1. CASE m \in ms
    <3>1. /\ inbox'[m] = LeasedRow(leaseOf[m])
          /\ grants'[leaseOf[m]] = [message |-> m, left |-> Visibility]
      BY <1>g, <1>p, <2>1
    <3>2. inbox'[m].status = "leased" /\ inbox'[m].lease = leaseOf[m]
      BY <3>1 DEF LeasedRow
    <3>3. grants'[leaseOf[m]].message = m  BY <3>1
    <3> QED  BY <1>1, <2>1, <3>2, <3>3
  <2>2. CASE m \notin ms /\ inbox'[m] = QueuedRow(0)
    BY <2>2 DEF QueuedRow
  <2>3. CASE m \notin ms /\ inbox'[m] = inbox[m]
    <3>1. \A n \in ms : leaseOf[n] # inbox[m].lease
      BY <1>1 DEF FreshLeases
    <3>2. inbox[m].lease \in Leases => grants'[inbox[m].lease] = grants[inbox[m].lease]
      BY <1>g, <3>1
    <3> QED  BY <2>3, <3>2 DEF LeaseInv, LeaseNamesRow
  <2> QED  BY <1>p, <2>1, <2>2, <2>3
<1> QED  BY <1>2, <1>3, <1>4 DEF LeaseInv

LEMMA SettleKeepsInv ==
    ASSUME LeaseInv, NEW acks \in SUBSET Held, NEW retries \in SUBSET Held,
           NEW delay \in 0..MaxDelay, SettleBatch(acks, retries, delay)
    PROVE  LeaseInv'
<1>1. acks \subseteq Leases /\ retries \subseteq Leases  BY DEF Held
<1>2. \A m \in Messages :
         \/ inbox[m].lease \notin acks \cup retries /\ inbox'[m] = inbox[m]
         \/ inbox[m].lease \in acks \cup retries
               /\ (inbox'[m] = NoRow \/ inbox'[m] = QueuedRow(delay))
  BY DEF SettleBatch, Settle
<1>3. \A l \in Leases :
         grants'[l] = IF l \in acks \cup retries THEN NoGrant ELSE grants[l]
  BY DEF SettleBatch, Forgotten
<1>4. InboxTypeOK'
  <2>1. inbox' \in [Messages -> InboxRow]
    BY RowsAreRows, TimerValues DEF SettleBatch, Settle, LeaseInv, InboxTypeOK
  <2>2. grants' \in [Leases -> Grant]
    BY RowsAreRows DEF SettleBatch, Forgotten, LeaseInv, InboxTypeOK
  <2> QED  BY <2>1, <2>2 DEF SettleBatch, Settle, LeaseInv, InboxTypeOK
<1>5. LeaseExclusive'
  BY <1>2, <1>3 DEF LeaseInv, LeaseExclusive, NoGrant
<1>6. LeaseNamesRow'
  BY <1>2, <1>3 DEF LeaseInv, LeaseNamesRow, NoRow, QueuedRow
<1> QED  BY <1>4, <1>5, <1>6 DEF LeaseInv

LEMMA ForgetKeepsInv ==
    ASSUME LeaseInv, NEW ls \in SUBSET Held, Forget(ls) PROVE LeaseInv'
<1>1. \A l \in Leases : grants'[l] = IF l \in ls THEN NoGrant ELSE grants[l]
  BY DEF Forget, Forgotten
<1>2. InboxTypeOK'
  BY RowsAreRows DEF Forget, Forgotten, LeaseInv, InboxTypeOK
<1>3. LeaseExclusive'
  BY <1>1 DEF Forget, LeaseInv, LeaseExclusive, NoGrant
<1>4. LeaseNamesRow'
  BY <1>1 DEF Forget, LeaseInv, LeaseNamesRow
<1> QED  BY <1>2, <1>3, <1>4 DEF LeaseInv

LEMMA LessTimer == \A n \in Nat : \A t \in 0..n : Less(t) \in 0..n
BY DEF Less

LEMMA TickedRow ==
    ASSUME NEW row \in InboxRow, NEW t, t = Less(row.timer)
    PROVE  /\ [row EXCEPT !.timer = t] \in InboxRow
           /\ [row EXCEPT !.timer = t].status = row.status
           /\ [row EXCEPT !.timer = t].lease = row.lease
           /\ [row EXCEPT !.timer = t].timer = t
           /\ row.timer \in Nat
<1>1. Visibility + MaxDelay \in Nat  BY InboxAssumption
<1>2. row.timer \in 0..(Visibility + MaxDelay)  BY DEF InboxRow, Timer
<1>3. t \in Timer /\ row.timer \in Nat  BY <1>1, <1>2, LessTimer DEF Timer
<1> QED  BY <1>3 DEF InboxRow

LEMMA TickedGrant ==
    ASSUME NEW grant \in Grant, NEW t, t = Less(grant.left)
    PROVE  /\ [grant EXCEPT !.left = t] \in Grant
           /\ [grant EXCEPT !.left = t].message = grant.message
           /\ [grant EXCEPT !.left = t].left = t
           /\ grant.left \in Nat
<1>1. Visibility \in Nat  BY InboxAssumption
<1>2. grant.left \in 0..Visibility  BY DEF Grant
<1>3. t \in 0..Visibility /\ grant.left \in Nat  BY <1>1, <1>2, LessTimer
<1> QED  BY <1>3 DEF Grant

LEMMA TickKeepsLeases == ASSUME LeaseInv, InboxTick PROVE LeaseInv'
<1>1. \A m \in Messages : /\ inbox[m] \in InboxRow
                          /\ inbox'[m] = [inbox[m] EXCEPT !.timer = Less(inbox[m].timer)]
  BY DEF InboxTick, LeaseInv, InboxTypeOK
<1>2. \A l \in Leases : /\ grants[l] \in Grant
                        /\ grants'[l] = [grants[l] EXCEPT !.left = Less(grants[l].left)]
  BY DEF InboxTick, LeaseInv, InboxTypeOK
<1>3. \A m \in Messages : /\ inbox'[m] \in InboxRow
                          /\ inbox'[m].status = inbox[m].status
                          /\ inbox'[m].lease = inbox[m].lease
                          /\ inbox'[m].timer = Less(inbox[m].timer)
                          /\ inbox[m].timer \in Nat
  <2> SUFFICES ASSUME NEW m \in Messages
               PROVE  /\ inbox'[m] \in InboxRow
                      /\ inbox'[m].status = inbox[m].status
                      /\ inbox'[m].lease = inbox[m].lease
                      /\ inbox'[m].timer = Less(inbox[m].timer)
                      /\ inbox[m].timer \in Nat
    OBVIOUS
  <2> DEFINE row == inbox[m]
             t   == Less(row.timer)
  <2>1. row \in InboxRow /\ inbox'[m] = [row EXCEPT !.timer = t]  BY <1>1
  <2>2. t = Less(row.timer)  OBVIOUS
  <2> HIDE DEF t
  <2> QED  BY <2>1, <2>2, TickedRow
<1>4. \A l \in Leases : /\ grants'[l] \in Grant
                        /\ grants'[l].message = grants[l].message
                        /\ grants'[l].left = Less(grants[l].left)
                        /\ grants[l].left \in Nat
  <2> SUFFICES ASSUME NEW l \in Leases
               PROVE  /\ grants'[l] \in Grant
                      /\ grants'[l].message = grants[l].message
                      /\ grants'[l].left = Less(grants[l].left)
                      /\ grants[l].left \in Nat
    OBVIOUS
  <2> DEFINE grant == grants[l]
             t     == Less(grant.left)
  <2>1. grant \in Grant /\ grants'[l] = [grant EXCEPT !.left = t]  BY <1>2
  <2>2. t = Less(grant.left)  OBVIOUS
  <2> HIDE DEF t
  <2> QED  BY <2>1, <2>2, TickedGrant
<1>5. InboxTypeOK'
  BY <1>3, <1>4 DEF InboxTick, LeaseInv, InboxTypeOK
<1>6. LeaseExclusive'
  <2> SUFFICES ASSUME NEW l \in Leases, grants'[l].left > 0
               PROVE  /\ grants'[l].message \in Messages
                      /\ inbox'[grants'[l].message].status = "leased"
                      /\ inbox'[grants'[l].message].lease = l
                      /\ inbox'[grants'[l].message].timer >= grants'[l].left
    BY DEF LeaseExclusive
  <2>1. grants[l].left > 0  BY <1>4 DEF Less
  <2>2. /\ grants[l].message \in Messages
        /\ inbox[grants[l].message].status = "leased"
        /\ inbox[grants[l].message].lease = l
        /\ inbox[grants[l].message].timer >= grants[l].left
    BY <2>1 DEF LeaseInv, LeaseExclusive
  <2> QED  BY <1>3, <1>4, <2>1, <2>2 DEF Less
<1>7. LeaseNamesRow'
  <2>1. \A l \in Leases : grants[l] = NoGrant => grants'[l] = NoGrant
    BY <1>2 DEF NoGrant, Less
  <2> QED  BY <1>3, <1>4, <2>1 DEF LeaseInv, LeaseNamesRow
<1> QED  BY <1>5, <1>6, <1>7 DEF LeaseInv

LEMMA StepKeepsLeases == LeaseInv /\ [InboxNext]_inboxVars => LeaseInv'
<1> SUFFICES ASSUME LeaseInv, [InboxNext]_inboxVars PROVE LeaseInv'
  OBVIOUS
<1>t. InboxTypeOK /\ {"queued", "acked"} \subseteq CloudState
  BY DEF LeaseInv, CloudState
<1>1. ASSUME NEW ms \in SUBSET Messages, Send(ms) PROVE LeaseInv'
  BY <1>t, <1>1, SendType, QueueingKeepsInv DEF Send
<1>2. ASSUME NEW ms \in SUBSET Messages, StageAcked(ms) PROVE LeaseInv'
  BY <1>t, <1>2, SendType, StagingKeepsInv DEF StageAcked
<1>3. ASSUME NEW ms \in SUBSET Messages, StageUnwoken(ms) PROVE LeaseInv'
  BY <1>t, <1>3, RedeliverType, StagingKeepsInv DEF StageUnwoken
<1>4. ASSUME NEW ms \in SUBSET Messages, StageRefused(ms) PROVE LeaseInv'
  BY <1>t, <1>4, RedeliverType, QueueingKeepsInv DEF StageRefused
<1>5. ASSUME NEW ms \in SUBSET Messages, NEW leaseOf \in Numberings(ms), Pull(ms, leaseOf)
      PROVE  LeaseInv'
  BY <1>5, PullKeepsInv
<1>6. ASSUME NEW m \in Messages, StageReplay(m) PROVE LeaseInv'
  <2>1. {m} \in SUBSET Messages /\ inbox' = Staged({m}) /\ UNCHANGED <<grants, consumed>>
    BY <1>6 DEF StageReplay
  <2>2. cloud' \in [Messages -> CloudState] /\ tries' \in [Messages -> 0..MaxRetries]
    BY <1>t, <1>6 DEF StageReplay, InboxTypeOK
  <2> QED  BY <2>1, <2>2, StagingKeepsInv
<1>7. ASSUME NEW acks \in SUBSET Held, NEW retries \in SUBSET Held,
             NEW delay \in 0..MaxDelay, SettleBatch(acks, retries, delay)
      PROVE  LeaseInv'
  BY <1>7, SettleKeepsInv
<1>8. ASSUME NEW ls \in SUBSET Held, Forget(ls) PROVE LeaseInv'
  BY <1>8, ForgetKeepsInv
<1>9. CASE InboxTick
  BY <1>9, TickKeepsLeases
<1>10. CASE UNCHANGED inboxVars
  BY <1>10 DEF inboxVars, LeaseInv, InboxTypeOK, LeaseExclusive, LeaseNamesRow
<1> QED
  BY <1>1, <1>2, <1>3, <1>4, <1>5, <1>6, <1>7, <1>8, <1>9, <1>10 DEF InboxNext

\* The invariant the next three theorems share.
LEMMA LeaseInvariant == InboxSpec => []LeaseInv
<1>1. InboxInit => LeaseInv  BY LeaseInvInit
<1>2. LeaseInv /\ [InboxNext]_inboxVars => LeaseInv'  BY StepKeepsLeases
<1> QED  BY <1>1, <1>2, PTL DEF InboxSpec

\* Rows of worker_inbox have the values the schema allows, timers stay within
\* the visibility timeout and the longest delay, and the Cloudflare queue
\* delivers no message more often than it retries.
THEOREM InboxTypeCorrect == InboxSpec => []InboxTypeOK
<1>1. LeaseInv => InboxTypeOK  BY DEF LeaseInv
<1> QED  BY <1>1, LeaseInvariant, PTL

\* While a worker's lease has not run out nobody else can be given its message
\* (pull ends only leases whose time is up and draws fresh ids).
THEOREM LeaseSafe == InboxSpec => []LeaseExclusive
<1>1. LeaseInv => LeaseExclusive  BY DEF LeaseInv
<1> QED  BY <1>1, LeaseInvariant, PTL

\* One message of OnlyHolderEnds.
LeaseEnds(m) ==
    inbox[m].status = "leased" /\ inbox'[m].lease # inbox[m].lease =>
        \/ inbox[m].timer = 0
        \/ /\ grants[inbox[m].lease].message = m
           /\ grants'[inbox[m].lease] = NoGrant

\* Staging and queueing leave leased rows alone, a pull takes only rows whose
\* time is up, and a settlement finds a row by the id its holder was given.
LEMMA StepEndsLease ==
    ASSUME LeaseInv, [InboxNext]_inboxVars, NEW m \in Messages PROVE LeaseEnds(m)
<1>1. ASSUME inbox' = inbox PROVE LeaseEnds(m)
  BY <1>1 DEF LeaseEnds
<1>2. ASSUME NEW ms \in SUBSET Messages, inbox' = Staged(ms) PROVE LeaseEnds(m)
  BY <1>2 DEF Staged, LeaseEnds
<1>3. ASSUME NEW ms \in SUBSET Messages, NEW leaseOf \in Numberings(ms), Pull(ms, leaseOf)
      PROVE  LeaseEnds(m)
  BY <1>3, PulledRows DEF LeaseEnds
<1>4. ASSUME NEW acks \in SUBSET Held, NEW retries \in SUBSET Held,
             NEW delay \in 0..MaxDelay, SettleBatch(acks, retries, delay)
      PROVE  LeaseEnds(m)
  <2> SUFFICES ASSUME inbox[m].status = "leased", inbox'[m].lease # inbox[m].lease
               PROVE  /\ grants[inbox[m].lease].message = m
                      /\ grants'[inbox[m].lease] = NoGrant
    BY DEF LeaseEnds
  <2> DEFINE l == inbox[m].lease
  <2>1. l \in acks \cup retries  BY <1>4 DEF SettleBatch, Settle
  <2>2. l \in Leases /\ grants[l] # NoGrant  BY <2>1 DEF Held
  <2>3. grants[l].message = m  BY <2>2 DEF LeaseInv, LeaseNamesRow
  <2>4. grants'[l] = NoGrant  BY <1>4, <2>1, <2>2 DEF SettleBatch, Forgotten
  <2> QED  BY <2>3, <2>4
<1>5. CASE InboxTick
  BY <1>5 DEF InboxTick, LeaseInv, InboxTypeOK, InboxRow, LeaseEnds
<1> QED
  BY <1>1, <1>2, <1>3, <1>4, <1>5
  DEF InboxNext, Send, StageAcked, StageUnwoken, StageRefused, StageReplay, Forget, inboxVars

\* A lease ends when its time is up or when its own holder settles it, never by
\* the late settlement of a worker the message was taken from (settle matches
\* lease_id, not message_id).
THEOREM OnlyHolderSafe == InboxSpec => OnlyHolderEnds
<1>1. LeaseInv /\ [InboxNext]_inboxVars => [\A m \in Messages : LeaseEnds(m)]_inboxVars
  BY StepEndsLease
<1>2. [\A m \in Messages : LeaseEnds(m)]_inboxVars <=>
         [\A m \in Messages :
            inbox[m].status = "leased" /\ inbox'[m].lease # inbox[m].lease =>
                \/ inbox[m].timer = 0
                \/ /\ grants[inbox[m].lease].message = m
                   /\ grants'[inbox[m].lease] = NoGrant]_inboxVars
  BY DEF LeaseEnds
<1> QED  BY <1>1, <1>2, LeaseInvariant, PTL DEF InboxSpec, OnlyHolderEnds

-----------------------------------------------------------------------------

\* A staged row stays, a released or re-leased one too; only an acknowledgement
\* deletes one, and then the message counts as consumed.
LEMMA StepLosesNone ==
    ASSUME LeaseInv, NoMessageLost, [InboxNext]_inboxVars PROVE NoMessageLost'
<1>1. ASSUME NEW ms \in SUBSET Messages, inbox' = Staged(ms), consumed' = consumed,
             \A m \in Messages : cloud'[m] = "acked" => cloud[m] = "acked" \/ m \in ms
      PROVE  NoMessageLost'
  BY <1>1 DEF NoMessageLost, Staged, QueuedRow
<1>2. ASSUME UNCHANGED <<inbox, consumed>>,
             \A m \in Messages : cloud'[m] = "acked" => cloud[m] = "acked"
      PROVE  NoMessageLost'
  BY <1>2 DEF NoMessageLost
<1>3. ASSUME NEW ms \in SUBSET Messages, NEW leaseOf \in Numberings(ms), Pull(ms, leaseOf)
      PROVE  NoMessageLost'
  <2>1. \A m \in ms : inbox'[m] = LeasedRow(leaseOf[m])
    BY <1>3, PulledRows
  <2>2. \A m \in Messages \ ms : inbox'[m] = inbox[m] \/ inbox'[m] = QueuedRow(0)
    BY <1>3, PulledRows
  <2>3. \A m \in Messages : inbox[m].status # "absent" => inbox'[m].status # "absent"
    <3> SUFFICES ASSUME NEW m \in Messages, inbox[m].status # "absent"
                 PROVE  inbox'[m].status # "absent"
      OBVIOUS
    <3>1. CASE m \in ms
      <4>1. inbox'[m] = LeasedRow(leaseOf[m])  BY <2>1, <3>1
      <4> QED  BY <4>1 DEF LeasedRow
    <3>2. CASE m \notin ms  BY <2>2, <3>2 DEF QueuedRow
    <3> QED  BY <3>1, <3>2
  <2>4. cloud' = cloud /\ consumed' = consumed  BY <1>3 DEF Pull
  <2> QED  BY <2>3, <2>4 DEF NoMessageLost
<1>4. ASSUME NEW acks \in SUBSET Held, NEW retries \in SUBSET Held,
             NEW delay \in 0..MaxDelay, SettleBatch(acks, retries, delay)
      PROVE  NoMessageLost'
  BY <1>4 DEF SettleBatch, Settle, NoMessageLost, QueuedRow
<1>5. CASE InboxTick
  <2>1. \A m \in Messages : inbox'[m].status = inbox[m].status
    BY <1>5 DEF InboxTick, LeaseInv, InboxTypeOK, InboxRow
  <2> QED  BY <1>5, <2>1 DEF InboxTick, NoMessageLost
<1>6. ASSUME NEW ms \in SUBSET Messages, Redeliver(ms)
      PROVE  \A m \in Messages : cloud'[m] = "acked" => cloud[m] = "acked"
  BY <1>6 DEF Redeliver
<1>7. ASSUME NEW ms \in SUBSET Messages, Send(ms) PROVE NoMessageLost'
  BY <1>2, <1>7 DEF Send
<1>8. ASSUME NEW ms \in SUBSET Messages, StageAcked(ms) PROVE NoMessageLost'
  BY <1>1, <1>8 DEF StageAcked
<1>9. ASSUME NEW ms \in SUBSET Messages, StageUnwoken(ms) PROVE NoMessageLost'
  BY <1>1, <1>6, <1>9 DEF StageUnwoken
<1>10. ASSUME NEW ms \in SUBSET Messages, StageRefused(ms) PROVE NoMessageLost'
  BY <1>2, <1>6, <1>10 DEF StageRefused
<1>11. ASSUME NEW n \in Messages, StageReplay(n) PROVE NoMessageLost'
  <2>1. {n} \in SUBSET Messages /\ inbox' = Staged({n}) /\ consumed' = consumed
    BY <1>11 DEF StageReplay
  <2>2. \A m \in Messages : cloud'[m] = "acked" => cloud[m] = "acked" \/ m \in {n}
    BY <1>11 DEF StageReplay, LeaseInv, InboxTypeOK
  <2> QED  BY <1>1, <2>1, <2>2
<1>12. ASSUME NEW ls \in SUBSET Held, Forget(ls) PROVE NoMessageLost'
  BY <1>2, <1>12 DEF Forget
<1>13. CASE UNCHANGED inboxVars
  BY <1>13 DEF inboxVars, NoMessageLost
<1> QED
  BY <1>3, <1>4, <1>5, <1>7, <1>8, <1>9, <1>10, <1>11, <1>12, <1>13 DEF InboxNext

\* A message the Cloudflare queue has been relieved of stays in worker_inbox
\* until a settlement deletes it (stageQueueBatch stages before ackAll).
THEOREM MessageSafe == InboxSpec => []NoMessageLost
<1>1. InboxInit => NoMessageLost  BY DEF InboxInit, NoMessageLost
<1>2. LeaseInv /\ NoMessageLost /\ [InboxNext]_inboxVars => NoMessageLost'
  BY StepLosesNone
<1> QED  BY <1>1, <1>2, LeaseInvariant, PTL DEF InboxSpec

-----------------------------------------------------------------------------
(***************************************************************************)
(* The job ledger                                                          *)
(***************************************************************************)
\* A row names the job that claimed it last, that job is of the row's key, and
\* nothing has failed before the first claim.
RowNamesItsJob ==
    \A k \in Keys :
        /\ jobs[k].status = "absent" <=> jobs[k].job = NoJob
        /\ jobs[k].job # NoJob => KeyOf[jobs[k].job] = k
        /\ jobs[k].status = "absent" => jobs[k].failures = 0

\* No envelope precedes the first claim of its key, and an uncertain envelope
\* belongs to the uncertain row of its own job.
EnvelopeOfClaimedKey ==
    \A j \in JobIds :
        /\ envelopes[j] # "none" => jobs[KeyOf[j]].status # "absent"
        /\ envelopes[j] = "uncertain" =>
              HasRow(j) /\ jobs[KeyOf[j]].status = "uncertain"

LedgerInv ==
    /\ JobTypeOK
    /\ RowNamesItsJob
    /\ EnvelopeOfClaimedKey
    /\ BudgetKept
    /\ DeadEnvelopeHasDeadJob
    /\ OneEnvelopePerKey

LEMMA LedgerInvInit == JobInit => LedgerInv
BY LedgerAssumption
DEF JobInit, LedgerInv, JobTypeOK, RowNamesItsJob, EnvelopeOfClaimedKey, BudgetKept,
    DeadEnvelopeHasDeadJob, OneEnvelopePerKey, NoJobRow, JobRow, Open, Terminal, Budget,
    HasRow

LEMMA ClaimKeepsInv ==
    ASSUME LedgerInv, NEW j \in JobIds, ClaimJob(j) PROVE LedgerInv'
<1> DEFINE k == KeyOf[j]
<1>1. k \in Keys /\ jobs[k] \in JobRow /\ jobs[k].status \notin Terminal
  BY LedgerAssumption DEF LedgerInv, JobTypeOK, ClaimJob, Claimable, Duplicate
<1>2. /\ jobs'[k] = [status |-> "processing", job |-> j, failures |-> jobs[k].failures,
                     age |-> 0, wait |-> 0]
      /\ \A i \in Keys \ {k} : jobs'[i] = jobs[i]
  BY <1>1 DEF ClaimJob, LedgerInv, JobTypeOK
<1>3. /\ envelopes'[j] = envelopes[j] \/ (jobs[k].status = "absent" /\ envelopes'[j] = "active")
      /\ \A i \in JobIds \ {j} : envelopes'[i] = envelopes[i]
      /\ letters' = letters
  BY DEF ClaimJob, LedgerInv, JobTypeOK
<1>4. JobTypeOK'
  BY <1>1, <1>2, LedgerAssumption DEF ClaimJob, LedgerInv, JobTypeOK, JobRow, Open, Terminal
<1>5. RowNamesItsJob'
  BY <1>2, LedgerAssumption DEF LedgerInv, RowNamesItsJob
<1>6. EnvelopeOfClaimedKey'
  BY <1>1, <1>2, <1>3, LedgerAssumption DEF LedgerInv, EnvelopeOfClaimedKey, HasRow, Terminal
<1>7. BudgetKept'
  BY <1>1, <1>2, <1>3
  DEF LedgerInv, RowNamesItsJob, BudgetKept, JobTypeOK, JobRow, Budget, Open, Terminal
<1>8. DeadEnvelopeHasDeadJob'
  BY <1>1, <1>2, <1>3, LedgerAssumption
  DEF LedgerInv, DeadEnvelopeHasDeadJob, EnvelopeOfClaimedKey, HasRow, Terminal
<1>9. OneEnvelopePerKey'
  BY <1>1, <1>2, <1>3, LedgerAssumption
  DEF LedgerInv, OneEnvelopePerKey, EnvelopeOfClaimedKey, DeadEnvelopeHasDeadJob,
      JobTypeOK, HasRow, Terminal
<1> QED  BY <1>4, <1>5, <1>6, <1>7, <1>8, <1>9 DEF LedgerInv

\* What a finish does to the row it finds, field by field, and to no other row.
Rewritten(j, status, failures) ==
    /\ jobs' \in [Keys -> JobRow]
    /\ jobs'[KeyOf[j]].status = status
    /\ jobs'[KeyOf[j]].job = j
    /\ jobs'[KeyOf[j]].failures = failures
    /\ \A i \in Keys \ {KeyOf[j]} : jobs'[i] = jobs[i]

LEMMA OpenedRow ==
    ASSUME LedgerInv, NEW j \in JobIds, Opened(j)
    PROVE  /\ KeyOf[j] \in Keys
           /\ jobs[KeyOf[j]] \in JobRow
           /\ jobs[KeyOf[j]].job = j
           /\ jobs[KeyOf[j]].status \in Open
           /\ jobs[KeyOf[j]].failures \in 0..(Budget - 1)
           /\ envelopes[j] \in {"none", "active"}
           /\ \A i \in JobIds : KeyOf[i] = KeyOf[j] => envelopes[i] \in {"none", "active"}
<1>1. /\ KeyOf[j] \in Keys
      /\ jobs[KeyOf[j]] \in JobRow
      /\ jobs[KeyOf[j]].job = j
      /\ jobs[KeyOf[j]].status \in Open
  BY LedgerAssumption DEF LedgerInv, JobTypeOK, Opened, HasRow
<1>2. jobs[KeyOf[j]].failures \in 0..(Budget - 1)
  BY <1>1 DEF LedgerInv, BudgetKept, JobRow, Budget
<1>3. \A i \in JobIds : KeyOf[i] = KeyOf[j] => envelopes[i] \in {"none", "active"}
  BY <1>1 DEF LedgerInv, JobTypeOK, EnvelopeOfClaimedKey, DeadEnvelopeHasDeadJob, Open
<1> QED  BY <1>1, <1>2, <1>3

LEMMA ZeroTimers == 0 \in 0..(Stale + 1) /\ 0 \in 0..MaxWait
BY LedgerAssumption

LEMMA RowRewritten ==
    ASSUME LedgerInv, NEW j \in JobIds, KeyOf[j] \in Keys, NEW row \in JobRow,
           row.job = j, jobs' = [jobs EXCEPT ![KeyOf[j]] = row]
    PROVE  Rewritten(j, row.status, row.failures)
BY DEF Rewritten, LedgerInv, JobTypeOK

\* A row that is there keeps its job id, and envelope and letter of that job
\* follow it: the invariant survives whatever the new status.
LEMMA RewriteKeepsInv ==
    ASSUME LedgerInv, NEW j \in JobIds, HasRow(j), KeyOf[j] \in Keys,
           NEW status \in Open \cup Terminal, NEW failures \in 0..Budget,
           Rewritten(j, status, failures),
           status \in Open => failures < Budget,
           status = "dead" => failures >= 1 /\ letters'[j] # "none",
           envelopes' \in [JobIds -> {"none", "active", "dead", "uncertain"}],
           letters' \in [JobIds -> {"none", "linked", "unlinked"}],
           \A i \in JobIds \ {j} : envelopes'[i] = envelopes[i] /\ letters'[i] = letters[i],
           \A i \in JobIds \ {j} :
              KeyOf[i] = KeyOf[j] => envelopes[i] \in {"none", "active"},
           envelopes'[j] # "none" => envelopes[j] # "none",
           envelopes'[j] = "dead" => status = "dead" /\ letters'[j] = "linked",
           envelopes'[j] = "uncertain" => status = "uncertain"
    PROVE  LedgerInv'
<1> DEFINE k == KeyOf[j]
<1>1. JobTypeOK'  BY DEF Rewritten, JobTypeOK
<1>2. RowNamesItsJob'
  BY LedgerAssumption DEF LedgerInv, RowNamesItsJob, Rewritten, Open, Terminal
<1>3. EnvelopeOfClaimedKey'
  BY LedgerAssumption
  DEF LedgerInv, EnvelopeOfClaimedKey, HasRow, Rewritten, Open, Terminal
<1>4. BudgetKept'
  <2> SUFFICES ASSUME NEW i \in Keys
               PROVE  /\ jobs'[i].status \in Open => jobs'[i].failures < Budget
                      /\ jobs'[i].status = "dead" =>
                            jobs'[i].failures >= 1 /\ letters'[jobs'[i].job] # "none"
    BY DEF BudgetKept
  <2>1. CASE i = k  BY <2>1 DEF Rewritten
  <2>2. CASE i # k
    <3>1. jobs'[i] = jobs[i] /\ jobs[i] \in JobRow
      BY <2>2 DEF Rewritten, LedgerInv, JobTypeOK
    <3>2. jobs[i].status # "absent" => jobs[i].job \in JobIds \ {j}
      BY <2>2, <3>1 DEF LedgerInv, RowNamesItsJob, JobRow
    <3> QED  BY <3>1, <3>2 DEF LedgerInv, BudgetKept
  <2> QED  BY <2>1, <2>2
<1>5. DeadEnvelopeHasDeadJob'
  BY LedgerAssumption DEF LedgerInv, DeadEnvelopeHasDeadJob, HasRow, Rewritten
<1>6. OneEnvelopePerKey'
  BY LedgerAssumption
  DEF LedgerInv, OneEnvelopePerKey, HasRow, Rewritten, JobTypeOK
<1> QED  BY <1>1, <1>2, <1>3, <1>4, <1>5, <1>6 DEF LedgerInv

LEMMA FinishDeferredKeepsInv ==
    ASSUME LedgerInv, NEW j \in JobIds, NEW wait \in 0..MaxWait, FinishDeferred(j, wait)
    PROVE  LedgerInv'
<1> DEFINE old == jobs[KeyOf[j]]
           row == [old EXCEPT !.status = "deferred", !.wait = wait, !.age = 0]
<1>1. Opened(j) /\ HasRow(j)  BY DEF FinishDeferred, Opened
<1>2. old \in JobRow /\ old.job = j /\ old.failures \in 0..(Budget - 1)
  BY <1>1, OpenedRow
<1>3. row \in JobRow /\ row.status = "deferred" /\ row.job = j /\ row.failures = old.failures
  BY <1>2, ZeroTimers DEF JobRow, Open
<1>4. Rewritten(j, "deferred", old.failures)
  <2>1. jobs' = [jobs EXCEPT ![KeyOf[j]] = row]  BY DEF FinishDeferred
  <2> QED  BY <1>1, <1>3, <2>1, OpenedRow, RowRewritten
<1>5. envelopes' = envelopes /\ letters' = letters  BY DEF FinishDeferred
<1> QED
  BY <1>1, <1>2, <1>4, <1>5, OpenedRow, RewriteKeepsInv
  DEF LedgerInv, JobTypeOK, Open, Terminal, Budget

LEMMA FinishUncertainKeepsInv ==
    ASSUME LedgerInv, NEW j \in JobIds, FinishUncertain(j) PROVE LedgerInv'
<1> DEFINE old == jobs[KeyOf[j]]
           row == [old EXCEPT !.status = "uncertain", !.age = 0]
<1>1. Opened(j) /\ HasRow(j)  BY DEF FinishUncertain, Opened
<1>2. old \in JobRow /\ old.job = j /\ old.failures \in 0..(Budget - 1)
  BY <1>1, OpenedRow
<1>3. row \in JobRow /\ row.status = "uncertain" /\ row.job = j /\ row.failures = old.failures
  BY <1>2, ZeroTimers DEF JobRow, Terminal
<1>4. Rewritten(j, "uncertain", old.failures)
  <2>1. jobs' = [jobs EXCEPT ![KeyOf[j]] = row]  BY DEF FinishUncertain
  <2> QED  BY <1>1, <1>3, <2>1, OpenedRow, RowRewritten
<1>5. /\ envelopes' \in [JobIds -> {"none", "active", "dead", "uncertain"}]
      /\ \A i \in JobIds \ {j} : envelopes'[i] = envelopes[i]
      /\ envelopes'[j] = IF envelopes[j] = "none" THEN "none" ELSE "uncertain"
      /\ letters' = letters
  BY DEF FinishUncertain, LedgerInv, JobTypeOK
<1> QED
  BY <1>1, <1>2, <1>4, <1>5, OpenedRow, RewriteKeepsInv
  DEF LedgerInv, JobTypeOK, Open, Terminal, Budget

LEMMA FinishDoneKeepsInv ==
    ASSUME LedgerInv, NEW j \in JobIds, FinishDone(j) PROVE LedgerInv'
<1> DEFINE old == jobs[KeyOf[j]]
           row == [old EXCEPT !.status = "done", !.wait = 0, !.age = 0]
<1>1. Opened(j) /\ HasRow(j)  BY DEF FinishDone, Opened
<1>2. old \in JobRow /\ old.job = j /\ old.failures \in 0..(Budget - 1)
  BY <1>1, OpenedRow
<1>3. row \in JobRow /\ row.status = "done" /\ row.job = j /\ row.failures = old.failures
  BY <1>2, ZeroTimers DEF JobRow, Terminal
<1>4. Rewritten(j, "done", old.failures)
  <2>1. jobs' = [jobs EXCEPT ![KeyOf[j]] = row]  BY DEF FinishDone
  <2> QED  BY <1>1, <1>3, <2>1, OpenedRow, RowRewritten
<1>5. /\ envelopes' \in [JobIds -> {"none", "active", "dead", "uncertain"}]
      /\ \A i \in JobIds \ {j} : envelopes'[i] = envelopes[i]
      /\ envelopes'[j] = "none"
      /\ letters' = letters
  BY DEF FinishDone, LedgerInv, JobTypeOK
<1> QED
  BY <1>1, <1>2, <1>4, <1>5, OpenedRow, RewriteKeepsInv
  DEF LedgerInv, JobTypeOK, Open, Terminal, Budget

LEMMA FinishFailedKeepsInv ==
    ASSUME LedgerInv, NEW j \in JobIds, NEW permanent \in BOOLEAN,
           FinishFailed(j, permanent)
    PROVE  LedgerInv'
<1> DEFINE old    == jobs[KeyOf[j]]
           fatal  == Fatal(old, permanent)
           status == IF fatal THEN "dead" ELSE "failed"
           row    == [old EXCEPT !.status = status, !.failures = old.failures + 1,
                                 !.wait = 0, !.age = 0]
<1>1. Opened(j) /\ HasRow(j)  BY DEF FinishFailed, Opened
<1>2. old \in JobRow /\ old.job = j /\ old.failures \in 0..(Budget - 1)
  BY <1>1, OpenedRow
<1>3. /\ old.failures + 1 \in 1..Budget
      /\ status = "failed" => old.failures + 1 < Budget
      /\ status \in {"failed", "dead"}
  BY <1>2 DEF Fatal, Budget
<1>4. row \in JobRow /\ row.status = status /\ row.job = j /\ row.failures = old.failures + 1
  <2> HIDE DEF status, old
  <2>1. old.failures + 1 \in 0..Budget  BY <1>3 DEF Budget
  <2> QED  BY <1>2, <1>3, <2>1, ZeroTimers DEF JobRow, Open, Terminal
<1>5. Rewritten(j, status, old.failures + 1)
  <2>1. jobs' = [jobs EXCEPT ![KeyOf[j]] = row]  BY DEF FinishFailed
  <2> QED  BY <1>1, <1>4, <2>1, OpenedRow, RowRewritten
<1>6. /\ envelopes' \in [JobIds -> {"none", "active", "dead", "uncertain"}]
      /\ letters' \in [JobIds -> {"none", "linked", "unlinked"}]
      /\ \A i \in JobIds \ {j} : envelopes'[i] = envelopes[i] /\ letters'[i] = letters[i]
  BY DEF FinishFailed, LedgerInv, JobTypeOK
<1>7. /\ status = "failed" => envelopes'[j] = envelopes[j]
      /\ status = "dead" =>
            /\ envelopes'[j] = IF envelopes[j] = "none" THEN "none" ELSE "dead"
            /\ letters'[j] = IF envelopes[j] = "none" THEN "unlinked" ELSE "linked"
  BY DEF FinishFailed, LedgerInv, JobTypeOK
<1> HIDE DEF status, old
<1> QED
  BY <1>1, <1>3, <1>5, <1>6, <1>7, OpenedRow, RewriteKeepsInv
  DEF Open, Terminal, Budget

\* By the invariant a letter that can be replayed is that of a dead row.
LEMMA ReplayableRow ==
    ASSUME LedgerInv, NEW j \in JobIds, Replayable(j)
    PROVE  /\ KeyOf[j] \in Keys /\ jobs[KeyOf[j]] \in JobRow
           /\ HasRow(j) /\ jobs[KeyOf[j]].job = j /\ jobs[KeyOf[j]].status = "dead"
           /\ \A i \in JobIds \ {j} : KeyOf[i] = KeyOf[j] => envelopes[i] = "none"
BY LedgerAssumption
DEF Replayable, LedgerInv, JobTypeOK, DeadEnvelopeHasDeadJob, OneEnvelopePerKey, HasRow

LEMMA ReviveDeadKeepsInv ==
    ASSUME LedgerInv, NEW j \in JobIds, ReviveDead(j) PROVE LedgerInv'
<1> DEFINE old == jobs[KeyOf[j]]
           row == [old EXCEPT !.status = "failed", !.failures = 0]
<1>1. Replayable(j)  BY DEF ReviveDead
<1>2. row \in JobRow /\ row.status = "failed" /\ row.job = j /\ row.failures = 0
  <2>1. old \in JobRow /\ old.job = j  BY <1>1, ReplayableRow
  <2>2. 0 \in 0..Budget  BY DEF Budget
  <2> QED  BY <2>1, <2>2 DEF JobRow, Open
<1>3. Rewritten(j, "failed", 0)
  <2>1. jobs' = [jobs EXCEPT ![KeyOf[j]] = row]  BY <1>1, ReplayableRow DEF ReviveDead
  <2>2. KeyOf[j] \in Keys  BY <1>1, ReplayableRow
  <2> HIDE DEF row
  <2>3. Rewritten(j, row.status, row.failures)  BY <1>2, <2>1, <2>2, RowRewritten
  <2> QED  BY <1>2, <2>3
<1>4. /\ envelopes' \in [JobIds -> {"none", "active", "dead", "uncertain"}]
      /\ \A i \in JobIds \ {j} : envelopes'[i] = envelopes[i]
      /\ envelopes'[j] = "active" /\ envelopes[j] = "dead"
      /\ letters' = letters
  BY <1>1 DEF ReviveDead, Replayable, LedgerInv, JobTypeOK
<1> QED
  BY <1>1, <1>3, <1>4, ReplayableRow, RewriteKeepsInv
  DEF LedgerInv, JobTypeOK, Open, Terminal, Budget

LEMMA TickKeepsInv == ASSUME LedgerInv, JobTick PROVE LedgerInv'
<1>1. \A k \in Keys : /\ jobs'[k] \in JobRow
                      /\ jobs'[k].status = jobs[k].status
                      /\ jobs'[k].job = jobs[k].job
                      /\ jobs'[k].failures = jobs[k].failures
  <2> SUFFICES ASSUME NEW k \in Keys
               PROVE  /\ Older(jobs[k]) \in JobRow
                      /\ Older(jobs[k]).status = jobs[k].status
                      /\ Older(jobs[k]).job = jobs[k].job
                      /\ Older(jobs[k]).failures = jobs[k].failures
    BY DEF JobTick
  <2>1. jobs[k] \in JobRow  BY DEF LedgerInv, JobTypeOK
  <2> DEFINE row  == jobs[k]
             age  == IF row.status = "processing" /\ ~IsStale(row) THEN row.age + 1 ELSE row.age
             wait == IF row.wait = 0 THEN 0 ELSE row.wait - 1
  <2>2. age \in 0..(Stale + 1)  BY <2>1, LedgerAssumption DEF IsStale, JobRow
  <2>3. wait \in 0..MaxWait  BY <2>1, LedgerAssumption DEF JobRow
  <2>4. Older(row) = [row EXCEPT !.age = age, !.wait = wait]  BY <2>1 DEF Older, JobRow
  <2> HIDE DEF row, age, wait
  <2> QED  BY <2>1, <2>2, <2>3, <2>4 DEF JobRow, row
<1>2. envelopes' = envelopes /\ letters' = letters  BY DEF JobTick
<1>3. JobTypeOK'  BY <1>1, <1>2 DEF JobTick, LedgerInv, JobTypeOK
<1>4. RowNamesItsJob' /\ BudgetKept'
  BY <1>1, <1>2 DEF LedgerInv, RowNamesItsJob, BudgetKept
<1>5. EnvelopeOfClaimedKey' /\ DeadEnvelopeHasDeadJob' /\ OneEnvelopePerKey'
  BY <1>1, <1>2, LedgerAssumption
  DEF LedgerInv, EnvelopeOfClaimedKey, DeadEnvelopeHasDeadJob, OneEnvelopePerKey, HasRow
<1> QED  BY <1>3, <1>4, <1>5 DEF LedgerInv

-----------------------------------------------------------------------------

LEMMA StepKeepsInv == LedgerInv /\ [JobNext]_ledgerVars => LedgerInv'
<1> SUFFICES ASSUME LedgerInv, [JobNext]_ledgerVars PROVE LedgerInv'
  OBVIOUS
<1>1. ASSUME NEW j \in JobIds, ClaimJob(j) PROVE LedgerInv'
  BY <1>1, ClaimKeepsInv
<1>2. ASSUME NEW j \in JobIds, NEW wait \in 0..MaxWait, FinishDeferred(j, wait)
      PROVE  LedgerInv'
  BY <1>2, FinishDeferredKeepsInv
<1>3. ASSUME NEW j \in JobIds, FinishUncertain(j) PROVE LedgerInv'
  BY <1>3, FinishUncertainKeepsInv
<1>4. ASSUME NEW j \in JobIds, FinishDone(j) PROVE LedgerInv'
  BY <1>4, FinishDoneKeepsInv
<1>5. ASSUME NEW j \in JobIds, NEW permanent \in BOOLEAN, FinishFailed(j, permanent)
      PROVE  LedgerInv'
  BY <1>5, FinishFailedKeepsInv
<1>6. ASSUME NEW j \in JobIds, ReviveDead(j) PROVE LedgerInv'
  BY <1>6, ReviveDeadKeepsInv
<1>7. CASE JobTick
  BY <1>7, TickKeepsInv
<1>8. CASE UNCHANGED ledgerVars
  BY <1>8
  DEF ledgerVars, LedgerInv, JobTypeOK, RowNamesItsJob, EnvelopeOfClaimedKey, BudgetKept,
      DeadEnvelopeHasDeadJob, OneEnvelopePerKey, HasRow
<1> QED
  BY <1>1, <1>2, <1>3, <1>4, <1>5, <1>6, <1>7, <1>8 DEF JobNext, FinishAgain

\* The invariant the four theorems below share.
LEMMA LedgerInvariant == JobSpec => []LedgerInv
<1>1. JobInit => LedgerInv  BY LedgerInvInit
<1>2. LedgerInv /\ [JobNext]_ledgerVars => LedgerInv'  BY StepKeepsInv
<1> QED  BY <1>1, <1>2, PTL DEF JobSpec

\* Every row, envelope and letter claimJob, finishJob and the replay write has a
\* value the schema's CHECK constraints allow; no failure counter passes the
\* budget.
THEOREM JobTypeCorrect == JobSpec => []JobTypeOK
<1>1. LedgerInv => JobTypeOK  BY DEF LedgerInv
<1> QED  BY <1>1, LedgerInvariant, PTL

\* A dead envelope is that of a dead row with a linked letter, however many job
\* ids claim and finish the key (finishJob's failed branch).
THEOREM DeadEnvelopeSafe == JobSpec => []DeadEnvelopeHasDeadJob
<1>1. LedgerInv => DeadEnvelopeHasDeadJob  BY DEF LedgerInv
<1> QED  BY <1>1, LedgerInvariant, PTL

\* The UNIQUE (dedupe_key) constraint of worker_job_envelopes never aborts a
\* claim (claimJob inserts an envelope with the first claim only).
THEOREM OneEnvelopeSafe == JobSpec => []OneEnvelopePerKey
<1>1. LedgerInv => OneEnvelopePerKey  BY DEF LedgerInv
<1> QED  BY <1>1, LedgerInvariant, PTL

\* decideJobTransition never lets a row that may be claimed again exhaust the
\* failure budget, and a dead row always has its dead letter.
THEOREM BudgetSafe == JobSpec => []BudgetKept
<1>1. LedgerInv => BudgetKept  BY DEF LedgerInv
<1> QED  BY <1>1, LedgerInvariant, PTL

\* The three tables that claimJob, finishJob and the replay write agree.
THEOREM LedgerSound == JobSpec => []LedgerSafe
<1>1. LedgerInv => LedgerSafe  BY DEF LedgerInv, LedgerSafe
<1> QED  BY <1>1, LedgerInvariant, PTL

\* One key of TerminalIsFinal.
TerminalStep(k) ==
    jobs[k].status \in Terminal /\ jobs'[k].status # jobs[k].status =>
        LET j == jobs[k].job IN
        /\ jobs[k].status = "dead"
        /\ jobs'[k].status = "failed" /\ jobs'[k].failures = 0
        /\ jobs'[k].job = j
        /\ envelopes[j] = "dead" /\ envelopes'[j] = "active"

\* A finish or a claim never touches a terminal row.
LEMMA OnlyReviveLeavesTerminal ==
    ASSUME LedgerInv, [JobNext]_ledgerVars, NEW k \in Keys PROVE TerminalStep(k)
<1>1. ASSUME NEW j \in JobIds, ClaimJob(j) PROVE TerminalStep(k)
  <2>1. jobs[KeyOf[j]].status \notin Terminal
    BY <1>1 DEF ClaimJob, Claimable, Duplicate
  <2>2. k # KeyOf[j] => jobs'[k] = jobs[k]
    BY <1>1 DEF ClaimJob, LedgerInv, JobTypeOK
  <2> QED  BY <2>1, <2>2 DEF TerminalStep
<1>2. ASSUME NEW j \in JobIds, Opened(j), \A i \in Keys \ {KeyOf[j]} : jobs'[i] = jobs[i]
      PROVE  TerminalStep(k)
  BY <1>2 DEF Opened, Open, Terminal, TerminalStep
<1>3. ASSUME NEW j \in JobIds, NEW wait \in 0..MaxWait, FinishDeferred(j, wait)
      PROVE  TerminalStep(k)
  BY <1>2, <1>3 DEF FinishDeferred, LedgerInv, JobTypeOK
<1>4. ASSUME NEW j \in JobIds, FinishUncertain(j) PROVE TerminalStep(k)
  BY <1>2, <1>4 DEF FinishUncertain, LedgerInv, JobTypeOK
<1>5. ASSUME NEW j \in JobIds, FinishDone(j) PROVE TerminalStep(k)
  BY <1>2, <1>5 DEF FinishDone, LedgerInv, JobTypeOK
<1>6. ASSUME NEW j \in JobIds, NEW permanent \in BOOLEAN, FinishFailed(j, permanent)
      PROVE  TerminalStep(k)
  BY <1>2, <1>6 DEF FinishFailed, LedgerInv, JobTypeOK
<1>7. ASSUME NEW j \in JobIds, ReviveDead(j) PROVE TerminalStep(k)
  <2>1. Replayable(j) /\ HasRow(j)  BY <1>7, ReplayableRow DEF ReviveDead
  <2>2. /\ k # KeyOf[j] => jobs'[k] = jobs[k]
        /\ k = KeyOf[j] => /\ jobs'[k].status = "failed"
                           /\ jobs'[k].failures = 0
                           /\ jobs'[k].job = j
    BY <1>7, <2>1, ReplayableRow DEF ReviveDead, LedgerInv, JobTypeOK, JobRow
  <2>3. jobs[KeyOf[j]].status = "dead" /\ jobs[KeyOf[j]].job = j
    BY <2>1, ReplayableRow
  <2>4. envelopes[j] = "dead" /\ envelopes'[j] = "active"
    BY <1>7, <2>1 DEF ReviveDead, Replayable, LedgerInv, JobTypeOK
  <2> QED  BY <2>2, <2>3, <2>4 DEF TerminalStep
<1>8. CASE JobTick
  BY <1>8 DEF JobTick, Older, LedgerInv, JobTypeOK, JobRow, TerminalStep
<1>9. CASE UNCHANGED ledgerVars
  BY <1>9 DEF ledgerVars, TerminalStep
<1> QED
  BY <1>1, <1>3, <1>4, <1>5, <1>6, <1>7, <1>8, <1>9 DEF JobNext, FinishAgain

\* Done and uncertain rows never change, and a dead row comes back only by the
\* replay of its own letter (claimJob's and finishJob's early returns, replay's
\* UPDATE ... WHERE job_id = $1 AND status = 'dead').
THEOREM TerminalSafe == JobSpec => TerminalIsFinal
<1>1. LedgerInv /\ [JobNext]_ledgerVars => [\A k \in Keys : TerminalStep(k)]_ledgerVars
  BY OnlyReviveLeavesTerminal
<1>2. [\A k \in Keys : TerminalStep(k)]_ledgerVars <=>
         [\A k \in Keys :
            jobs[k].status \in Terminal /\ jobs'[k].status # jobs[k].status =>
                LET j == jobs[k].job IN
                /\ jobs[k].status = "dead"
                /\ jobs'[k].status = "failed" /\ jobs'[k].failures = 0
                /\ jobs'[k].job = j
                /\ envelopes[j] = "dead" /\ envelopes'[j] = "active"]_ledgerVars
  BY DEF TerminalStep
<1> QED  BY <1>1, <1>2, LedgerInvariant, PTL DEF JobSpec, TerminalIsFinal
=============================================================================
