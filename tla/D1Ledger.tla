------------------------------ MODULE D1Ledger ------------------------------
(***************************************************************************)
(* The job ledger of the D1 backend (apps/api/src/control-plane.ts):       *)
(* claimJob, finishJob and replayDeadLetter on the tables of JobLedger.    *)
(* There is no transaction around a method: a row is read by one           *)
(* statement, the decision is taken in the program, and a later statement  *)
(* or batch writes it, so the requests of several workers interleave       *)
(* between the two.  A batch is atomic.                                    *)
(*                                                                         *)
(* A request its first read answers (duplicate, deferred, busy, ack, no    *)
(* such job) changes nothing and is left out.                              *)
(***************************************************************************)
EXTENDS JobLedger

CONSTANTS
    Clients,     \* requests in progress at the same time
    MaxFailures  \* bound on failure_attempts, which D1 does not keep below Budget

ASSUME D1Assumption == MaxFailures \in Nat /\ MaxFailures >= Budget

VARIABLE request   \* of each request: its method, its job and the row it has read

d1Vars == <<ledgerVars, request>>

D1Row == [status   : {"absent"} \cup Open \cup Terminal,
          job      : JobIds \cup {NoJob},
          failures : 0..MaxFailures,
          age      : 0..(Stale + 1),
          wait     : 0..MaxWait]

Outcomes == {"deferred", "uncertain", "done", "failed", "permanent"}

\* what a request is about to write; "dead" and "buried" are a fatal failure
\* before and after it has looked for the envelope
Request ==
    [op     : {"none", "claim", "deferred", "uncertain", "done", "failed", "dead",
               "buried", "replay"},
     job    : JobIds \cup {NoJob},
     seen   : D1Row,
     linked : BOOLEAN]

NoRequest == [op |-> "none", job |-> NoJob, seen |-> NoJobRow, linked |-> FALSE]

D1TypeOK ==
    /\ jobs \in [Keys -> D1Row]
    /\ envelopes \in [JobIds -> {"none", "active", "dead", "uncertain"}]
    /\ letters \in [JobIds -> {"none", "linked", "unlinked"}]
    /\ request \in [Clients -> Request]

D1Init ==
    /\ JobInit
    /\ request = [c \in Clients |-> NoRequest]

Begin(c, op, j) ==
    /\ request[c].op = "none"
    /\ request' = [request EXCEPT ![c] =
                    [op |-> op, job |-> j, seen |-> jobs[KeyOf[j]], linked |-> FALSE]]
    /\ UNCHANGED ledgerVars

End(c) == request' = [request EXCEPT ![c] = NoRequest]

\* UPDATE worker_jobs SET ... WHERE job_id = j, which may find no row by now
UpdateJob(j, status, failures, wait) ==
    jobs' = IF HasRow(j)
            THEN [jobs EXCEPT ![KeyOf[j]] =
                     [@ EXCEPT !.status = status, !.failures = failures,
                               !.wait = wait, !.age = 0]]
            ELSE jobs

\* UPDATE worker_job_envelopes SET status = ... WHERE job_id = j
UpdateEnvelope(j, status) ==
    envelopes' = IF envelopes[j] = "none" THEN envelopes
                 ELSE [envelopes EXCEPT ![j] = status]

-----------------------------------------------------------------------------
(***************************************************************************)
(* claimJob                                                                *)
(***************************************************************************)
ReadToClaim(c, j) ==
    /\ Claimable(jobs[KeyOf[j]])
    /\ Begin(c, "claim", j)

\* The update finds the row by its key, whatever has become of it; the insert
\* of a row that is there by now throws.
WriteClaim(c) ==
    LET j == request[c].job
        k == KeyOf[j]
        claimed == [status |-> "processing", job |-> j, failures |-> jobs[k].failures,
                    age |-> 0, wait |-> 0]
    IN
    /\ request[c].op = "claim"
    /\ \/ /\ request[c].seen.status # "absent"
          /\ jobs' = [jobs EXCEPT ![k] = claimed]
          /\ UNCHANGED envelopes
       \/ /\ request[c].seen.status = "absent" /\ jobs[k].status = "absent"
          /\ jobs' = [jobs EXCEPT ![k] = claimed]
          /\ envelopes' = IF k \in ArticleKeys
                          THEN [envelopes EXCEPT ![j] = "active"] ELSE envelopes
       \/ /\ request[c].seen.status = "absent" /\ jobs[k].status # "absent"
          /\ UNCHANGED <<jobs, envelopes>>
    /\ End(c)
    /\ UNCHANGED letters

-----------------------------------------------------------------------------
(***************************************************************************)
(* finishJob                                                               *)
(***************************************************************************)
ReadToFinish(c, j, outcome) ==
    /\ Opened(j)
    /\ jobs[KeyOf[j]].failures < MaxFailures
    /\ \/ outcome \notin {"failed", "permanent"}
          /\ Begin(c, outcome, j)
       \/ outcome \in {"failed", "permanent"}
          /\ IF Fatal(jobs[KeyOf[j]], outcome = "permanent")
             THEN Begin(c, "dead", j) ELSE Begin(c, "failed", j)

WriteDeferred(c, wait) ==
    LET j == request[c].job IN
    /\ request[c].op = "deferred"
    /\ UpdateJob(j, "deferred", jobs[KeyOf[j]].failures, wait)
    /\ End(c)
    /\ UNCHANGED <<envelopes, letters>>

WriteUncertain(c) ==
    LET j == request[c].job IN
    /\ request[c].op = "uncertain"
    /\ UpdateJob(j, "uncertain", jobs[KeyOf[j]].failures, jobs[KeyOf[j]].wait)
    /\ UpdateEnvelope(j, "uncertain")
    /\ End(c)
    /\ UNCHANGED letters

WriteDone(c) ==
    LET j == request[c].job IN
    /\ request[c].op = "done"
    /\ UpdateJob(j, "done", jobs[KeyOf[j]].failures, 0)
    /\ envelopes' = [envelopes EXCEPT ![j] = "none"]
    /\ End(c)
    /\ UNCHANGED letters

WriteFailedUncounted(c) ==
    /\ request[c].op = "failed"
    /\ UpdateJob(request[c].job, "failed", request[c].seen.failures, 0)
    /\ End(c)
    /\ UNCHANGED <<envelopes, letters>>

WriteFailed(c) ==
    /\ request[c].op = "failed"
    /\ UpdateJob(request[c].job, "failed", request[c].seen.failures + 1, 0)
    /\ End(c)
    /\ UNCHANGED <<envelopes, letters>>

ReadEnvelope(c) ==
    /\ request[c].op = "dead"
    /\ request' = [request EXCEPT ![c].op = "buried",
                              ![c].linked = envelopes[request[c].job] # "none"]
    /\ UNCHANGED ledgerVars

WriteDeadLinked(c) ==
    LET j == request[c].job IN
    /\ request[c].op = "buried"
    /\ UpdateJob(j, "dead", request[c].seen.failures + 1, 0)
    /\ letters' = IF request[c].linked THEN [letters EXCEPT ![j] = "linked"] ELSE letters
    /\ UpdateEnvelope(j, "dead")
    /\ End(c)

\* one batch: the row, the dead letter, the envelope
WriteDead(c) ==
    LET j == request[c].job IN
    /\ request[c].op = "buried"
    /\ UpdateJob(j, "dead", request[c].seen.failures + 1, 0)
    /\ letters' = [letters EXCEPT ![j] = IF request[c].linked THEN "linked" ELSE "unlinked"]
    /\ UpdateEnvelope(j, "dead")
    /\ End(c)

-----------------------------------------------------------------------------
(***************************************************************************)
(* replayDeadLetter: its reads find a dead job with letter and envelope;   *)
(* its batch revives what is dead of them                                  *)
(***************************************************************************)
ReadToReplay(c, j) ==
    /\ ~(HasRow(j) /\ jobs[KeyOf[j]].status \in {"done", "uncertain"})
    /\ Replayable(j)
    /\ Begin(c, "replay", j)

WriteReplay(c) ==
    LET j == request[c].job IN
    /\ request[c].op = "replay"
    /\ jobs' = IF HasRow(j) /\ jobs[KeyOf[j]].status = "dead"
               THEN [jobs EXCEPT ![KeyOf[j]] = [@ EXCEPT !.status = "failed", !.failures = 0]]
               ELSE jobs
    /\ envelopes' = IF envelopes[j] = "dead" THEN [envelopes EXCEPT ![j] = "active"]
                    ELSE envelopes
    /\ End(c)
    /\ UNCHANGED letters

-----------------------------------------------------------------------------
D1Tick == JobTick /\ UNCHANGED request

D1Read(c) ==
    \/ \E j \in JobIds :
          \/ ReadToClaim(c, j)
          \/ \E outcome \in Outcomes : ReadToFinish(c, j, outcome)
          \/ ReadToReplay(c, j)
    \/ ReadEnvelope(c)

D1Write(c) ==
    \/ WriteClaim(c)
    \/ \E wait \in 0..MaxWait : WriteDeferred(c, wait)
    \/ WriteUncertain(c)
    \/ WriteDone(c)
    \/ WriteFailed(c)
    \/ WriteDead(c)
    \/ WriteReplay(c)

D1Next == (\E c \in Clients : D1Read(c) \/ D1Write(c)) \/ D1Tick

D1Spec == D1Init /\ [][D1Next]_d1Vars

-----------------------------------------------------------------------------
(***************************************************************************)
(* Correctness                                                             *)
(***************************************************************************)

\* what the request has read is still so, but for the time that has passed
Current(c) ==
    LET row == jobs[KeyOf[request[c].job]] IN
    request[c].op # "none" =>
        /\ row.age >= request[c].seen.age
        /\ row.wait <= request[c].seen.wait
        /\ [row EXCEPT !.age = 0, !.wait = 0] = [request[c].seen EXCEPT !.age = 0, !.wait = 0]
        /\ request[c].op = "buried" => request[c].linked = (envelopes[request[c].job] # "none")
        /\ request[c].op = "replay" => Replayable(request[c].job)

\* A request that nobody overtook between its reads and its write does what the
\* PostgreSQL transaction does: with every such step the ledger takes a step of
\* JobLedger, or none.
LedgerPromise ==
    [][(\A c \in Clients : request'[c] # request[c] => Current(c))
       => JobNext \/ UNCHANGED ledgerVars]_d1Vars

\* What is left of it when they are overtaken.  A key has at most one envelope,
\* because only the insert of its row brings one, and a row that is dead has a
\* dead letter, because one batch writes both.
DeadHasLetter ==
    /\ \A i, j \in JobIds :
          KeyOf[i] = KeyOf[j] /\ envelopes[i] # "none" /\ envelopes[j] # "none" => i = j
    /\ \A k \in Keys : jobs[k].status = "dead" => letters[jobs[k].job] # "none"

\* The rows of the D1 ledger under overlapping requests.
D1LedgerSafe == D1TypeOK /\ DeadHasLetter
=============================================================================
