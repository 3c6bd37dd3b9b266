------------------------------ MODULE D1SyncRun ------------------------------
(***************************************************************************)
(* A sync run on the D1 backend: requestSync is the same statement by      *)
(* statement (apps/api/src/operations.ts); the completion of a source      *)
(* (prepareSyncJobCompletion, control-plane.ts) reads the statistics of    *)
(* the run after the job's row and writes them back, with the status       *)
(* computed from them, in the batch that ends the job.                     *)
(***************************************************************************)
EXTENDS SyncRun, D1Ledger

VARIABLE snapshot  \* of each request: the run as it has read it

d1SyncVars == <<syncVars, request, snapshot>>

D1SyncInit ==
    /\ SyncInit
    /\ request = [c \in Clients |-> NoRequest]
    /\ snapshot = [c \in Clients |-> NoRun]

\* a request that ends its job, ready to write but for the statistics
Completing(c) == request[c].op \in {"done", "buried"}

ReadStats(c) ==
    /\ Completing(c)
    /\ snapshot[c] = NoRun
    /\ snapshot' = [snapshot EXCEPT ![c] = run]
    /\ UNCHANGED <<syncVars, request>>

WriteStatsOnly(c, result) ==
    LET next == Advance(snapshot[c], KeyOf[request[c].job], result) IN
    /\ snapshot[c] # NoRun
    /\ run' = [run EXCEPT !.stats = next.stats]
    /\ snapshot' = [snapshot EXCEPT ![c] = NoRun]

WriteStats(c, result) ==
    LET next == Advance(snapshot[c], KeyOf[request[c].job], result) IN
    /\ snapshot[c] # NoRun
    /\ run' = [run EXCEPT !.stats = next.stats, !.status = next.status]
    /\ snapshot' = [snapshot EXCEPT ![c] = NoRun]

D1Requester == Requester /\ UNCHANGED <<request, snapshot>>

D1Collect(c) ==
    /\ \E j \in sent : ReadToClaim(c, j)
    /\ UNCHANGED <<run, requester, sent, snapshot>>

\* a collect-source job is done or failed, never deferred or uncertain
D1Decide(c) ==
    /\ \/ \E j \in JobIds, outcome \in {"done", "failed", "permanent"} :
             ReadToFinish(c, j, outcome)
       \/ ReadEnvelope(c)
    /\ UNCHANGED <<run, requester, sent, snapshot>>

D1Record(c) ==
    /\ WriteClaim(c) \/ WriteFailed(c)
    /\ UNCHANGED <<run, requester, sent, snapshot>>

D1Complete(c) ==
    /\ \/ WriteDone(c) /\ WriteStats(c, "done")
       \/ WriteDead(c) /\ WriteStats(c, "failed")
    /\ UNCHANGED <<requester, sent>>

D1SyncTick == SyncTick /\ UNCHANGED <<request, snapshot>>

D1SyncNext ==
    \/ D1Requester
    \/ \E c \in Clients :
          D1Collect(c) \/ D1Decide(c) \/ ReadStats(c) \/ D1Record(c) \/ D1Complete(c)
    \/ D1SyncTick

D1SyncSpec == D1SyncInit /\ [][D1SyncNext]_d1SyncVars

-----------------------------------------------------------------------------
\* A completion that nobody overtook between its reads, of the job and of the
\* run, and its write does what the PostgreSQL transaction does.
RunPromise ==
    [][(\A c \in Clients :
          request'[c] # request[c] =>
              /\ request[c].job \in JobsOf(Sources)
              /\ Current(c)
              /\ snapshot[c] \in {NoRun, run})
       => SyncNext \/ UNCHANGED syncVars]_d1SyncVars
=============================================================================
