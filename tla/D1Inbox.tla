------------------------------ MODULE D1Inbox ------------------------------
(***************************************************************************)
(* The lease inbox of the D1 backend (apps/api/src/queue-inbox.ts) on the  *)
(* table of QueueInbox.  A batch of statements is atomic, so staging and   *)
(* settling are those of QueueInbox; a pull is one statement after the     *)
(* other, with one time for all of them, and other pulls in between.       *)
(***************************************************************************)
EXTENDS QueueInbox

CONSTANT Pullers   \* pulls in progress at the same time

\* rows: selected and not leased yet; age: ticks since the pull began
VARIABLE pulls

d1InboxVars == <<inboxVars, pulls>>

NoPull == [phase |-> "none", rows |-> {}, age |-> 0]

D1InboxInit == InboxInit /\ pulls = [p \in Pullers |-> NoPull]

\* UPDATE ... WHERE status = 'leased' AND lease_until <= ?
Requeue(p) ==
    /\ pulls[p].phase = "none"
    /\ inbox' = Expired
    /\ pulls' = [pulls EXCEPT ![p].phase = "select"]
    /\ UNCHANGED <<cloud, tries, grants, consumed>>

Queued == {m \in Messages : inbox[m].status = "queued" /\ inbox[m].timer = 0}

\* SELECT ... LIMIT; a row that has come due since the pull began is not in it
Select(p, ms) ==
    LET due == IF Cardinality(Queued) < BatchSize
               THEN Cardinality(Queued) ELSE BatchSize
    IN  /\ pulls[p].phase = "select"
        /\ ms \subseteq Queued
        /\ IF pulls[p].age = 0 THEN Cardinality(ms) = due
           ELSE Cardinality(ms) <= due
        /\ pulls' = [pulls EXCEPT ![p].phase = "lease", ![p].rows = ms]
        /\ UNCHANGED inboxVars

\* mutant: UPDATE ... WHERE message_id = ?
LeaseRowAgain(p, m, l) ==
    LET left == Visibility - pulls[p].age
    IN  /\ pulls[p].phase = "lease"
        /\ m \in pulls[p].rows
        /\ l \in FreshLeases
        /\ inbox[m].status # "absent"
        /\ pulls' = [pulls EXCEPT ![p].rows = @ \ {m}]
        /\ inbox' = [inbox EXCEPT ![m] =
                        [LeasedRow(l) EXCEPT !.timer = left]]
        /\ grants' = [grants EXCEPT ![l] = [message |-> m, left |-> left]]
        /\ UNCHANGED <<cloud, tries, consumed>>

\* UPDATE ... WHERE message_id = ? AND status = 'queued': a row that another
\* pull has leased since is left to it
LeaseRow(p, m, l) ==
    LET left == Visibility - pulls[p].age
    IN  /\ pulls[p].phase = "lease"
        /\ m \in pulls[p].rows
        /\ l \in FreshLeases
        /\ pulls' = [pulls EXCEPT ![p].rows = @ \ {m}]
        /\ IF inbox[m].status = "queued"
           THEN /\ inbox' = [inbox EXCEPT ![m] =
                               [LeasedRow(l) EXCEPT !.timer = left]]
                /\ grants' = [grants EXCEPT ![l] =
                                [message |-> m, left |-> left]]
           ELSE UNCHANGED <<inbox, grants>>
        /\ UNCHANGED <<cloud, tries, consumed>>

\* answered, or given up: then the client forgets its leases (Forget)
EndPull(p) ==
    /\ pulls[p].phase # "none"
    /\ pulls' = [pulls EXCEPT ![p] = NoPull]
    /\ UNCHANGED inboxVars

D1InboxTick ==
    /\ InboxTick
    /\ \A p \in Pullers : pulls[p].age < Visibility
    /\ pulls' = [p \in Pullers |->
                   IF pulls[p].phase = "none" THEN NoPull
                   ELSE [pulls[p] EXCEPT !.age = @ + 1]]

D1InboxNext ==
    \/ \E p \in Pullers :
         \/ Requeue(p) \/ EndPull(p)
         \/ \E ms \in SUBSET Messages : Select(p, ms)
         \/ \E m \in Messages, l \in Leases : LeaseRow(p, m, l)
    \/ /\ UNCHANGED pulls
       /\ \/ \E ms \in SUBSET Messages :
               \/ Send(ms) \/ StageAcked(ms)
               \/ StageUnwoken(ms) \/ StageRefused(ms)
          \/ \E acks, retries \in SUBSET Held, delay \in 0..MaxDelay :
               SettleBatch(acks, retries, delay)
          \/ \E ls \in SUBSET Held : Forget(ls)
    \/ D1InboxTick

D1InboxSpec == D1InboxInit /\ [][D1InboxNext]_d1InboxVars

-----------------------------------------------------------------------------
(* Properties *)

\* Two pulls that have chosen the same messages keep what one transaction
\* keeps on PostgreSQL: no message is leased twice, lost, or taken from the
\* worker that holds it.
D1InboxSafe == [](LeaseExclusive /\ NoMessageLost) /\ OnlyHolderEnds
=============================================================================
