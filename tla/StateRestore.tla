---------------------------- MODULE StateRestore ----------------------------
(***************************************************************************)
(* packages/release-operations/src/state-restore-executor.ts: a rehearsal  *)
(* of restoring the worker's, the browser's and WARP's state from the      *)
(* snapshots kept in the repository into a fresh temporary directory,      *)
(* which is removed whatever happens.                                      *)
(*                                                                         *)
(* A snapshot or a restored file is "good" when its bytes, identity and    *)
(* (restored) mode are the manifest's, and "bad" otherwise.  Any call of   *)
(* the file system may fail; the checkout's files and the restored files   *)
(* may be changed by someone else; the process may be killed.              *)
(***************************************************************************)
EXTENDS Naturals, Sequences, SequencesExt

CONSTANTS
    MaxAge,          \* the candidate RPO: how old a capture may be
    MaxRto,          \* how long the restore may take
    MaxClockTicks,   \* bound: how far the clock runs
    MaxIoFaults      \* bound: failing calls, changed files, kills

ASSUME RestoreAssumption ==
    /\ MaxAge \in Nat /\ MaxRto \in Nat
    /\ MaxClockTicks \in Nat /\ MaxIoFaults \in Nat

VARIABLES
    checkout,   \* [Kinds -> "good" | "bad"]: the repository's snapshots
    temp,       \* NoTemp or the restored directory: what each kind holds
    rehearsal,  \* where the executor is and what it recorded
    time,       \* ticks since the snapshots were captured
    slips       \* faults so far

restoreVars == <<checkout, temp, rehearsal, time, slips>>

Kinds == {"worker", "browser", "warp"}
KindOrder == <<"worker", "browser", "warp">>
RestoreSteps == <<"snapshot-preflight", "restore", "startup-gate",
                  "reconciliation", "cleanup">>

NoTemp == [k \in {} |-> "absent"]

\* step: the active one; handled: snapshots it is through with; states:
\* kinds reconciled; records: the evidence; residual: tempDirs.
IdleRehearsal ==
    [step |-> "none", handled |-> 0, states |-> {}, records |-> << >>,
     failed |-> FALSE, since |-> 0, root |-> FALSE, outcome |-> "none",
     residual |-> 0]

RestoreInit ==
    /\ checkout \in [Kinds -> {"good", "bad"}]
    /\ temp = NoTemp
    /\ rehearsal = IdleRehearsal
    /\ time = 0
    /\ slips = 0

Doing(step) == rehearsal.outcome = "none" /\ rehearsal.step = step

Recorded(r, id, status) ==
    [r EXCEPT !.records = Append(@, [id |-> id, status |-> status])]

\* The next step begins.
Entering(r, step) == [r EXCEPT !.step = step, !.handled = 0]

\* mutant: the first failure is forgotten
ThrownForgotten(r) == Entering(Recorded(r, r.step, "failed"), "cleanup")

\* An error in a step: it is recorded, and cleanup follows.
Thrown(r) ==
    Entering([Recorded(r, r.step, "failed") EXCEPT !.failed = TRUE],
             "cleanup")

----------------------------------------------------------------------------
\* executeStateRestoreRehearsal, confirmed.
BeginRehearsal ==
    /\ rehearsal.step = "none"
    /\ rehearsal' = Entering(rehearsal, "snapshot-preflight")
    /\ UNCHANGED <<checkout, temp, time, slips>>

\* validateSourceSnapshot: one of the three is read and compared.
ReadSource ==
    /\ Doing("snapshot-preflight")
    /\ rehearsal.handled < Len(KindOrder)
    /\ rehearsal' =
          IF checkout[KindOrder[rehearsal.handled + 1]] = "good"
          THEN [rehearsal EXCEPT !.handled = @ + 1]
          ELSE Thrown(rehearsal)
    /\ UNCHANGED <<checkout, temp, time, slips>>

\* All three are good: the capture may not be too old; its bytes are kept
\* in memory and the restore's clock starts.
PreflightEnds ==
    /\ Doing("snapshot-preflight")
    /\ rehearsal.handled = Len(KindOrder)
    /\ rehearsal' =
          IF time > MaxAge THEN Thrown(rehearsal)
          ELSE [Entering(Recorded(rehearsal, "snapshot-preflight",
                                  "succeeded"), "restore")
                  EXCEPT !.since = time]
    /\ UNCHANGED <<checkout, temp, time, slips>>

\* mutant: the directory is made at once
MakeRootEarly ==
    /\ rehearsal.step \in {"snapshot-preflight", "restore"}
    /\ ~rehearsal.root
    /\ rehearsal.outcome = "none"
    /\ temp' = [k \in Kinds |-> "absent"]
    /\ rehearsal' = [rehearsal EXCEPT !.root = TRUE]
    /\ UNCHANGED <<checkout, time, slips>>

MakeRoot ==
    /\ Doing("restore")
    /\ ~rehearsal.root
    /\ temp' = [k \in Kinds |-> "absent"]
    /\ rehearsal' = [rehearsal EXCEPT !.root = TRUE]
    /\ UNCHANGED <<checkout, time, slips>>

\* mkdir, writeFile and chmod of one kind, from the bytes in memory.
WriteState ==
    /\ Doing("restore")
    /\ rehearsal.root
    /\ rehearsal.handled < Len(KindOrder)
    /\ temp' = [temp EXCEPT ![KindOrder[rehearsal.handled + 1]] = "good"]
    /\ rehearsal' = [rehearsal EXCEPT !.handled = @ + 1]
    /\ UNCHANGED <<checkout, time, slips>>

RestoreEnds ==
    /\ Doing("restore")
    /\ rehearsal.handled = Len(KindOrder)
    /\ rehearsal' = Entering(Recorded(rehearsal, "restore", "succeeded"),
                             "startup-gate")
    /\ UNCHANGED <<checkout, temp, time, slips>>

\* validateRestoredSnapshot: one restored file is read again.
ReadRestored ==
    /\ Doing("startup-gate")
    /\ rehearsal.handled < Len(KindOrder)
    /\ LET kind == KindOrder[rehearsal.handled + 1] IN
       rehearsal' =
          IF temp[kind] = "good"
          THEN [rehearsal EXCEPT !.handled = @ + 1, !.states = @ \union {kind}]
          ELSE Thrown(rehearsal)
    /\ UNCHANGED <<checkout, temp, time, slips>>

GateEnds ==
    /\ Doing("startup-gate")
    /\ rehearsal.handled = Len(KindOrder)
    /\ rehearsal' = Entering(Recorded(rehearsal, "startup-gate",
                                      "succeeded"), "reconciliation")
    /\ UNCHANGED <<checkout, temp, time, slips>>

\* Every state reconciled, within the RTO.
Reconcile ==
    /\ Doing("reconciliation")
    /\ rehearsal' =
          IF rehearsal.states # Kinds \/ time - rehearsal.since > MaxRto
          THEN Thrown(rehearsal)
          ELSE Entering(Recorded(rehearsal, "reconciliation", "succeeded"),
                        "cleanup")
    /\ UNCHANGED <<checkout, temp, time, slips>>

----------------------------------------------------------------------------
\* cleanupRestore: the directory is removed, and looked for again.  `error`:
\* rm throws; `seen`: lstat finds a directory.  A first failure stays.
Cleaned(error, seen) ==
    LET failure == error \/ seen IN
    [Recorded(rehearsal, "cleanup", IF failure THEN "failed" ELSE "succeeded")
       EXCEPT !.residual = IF seen THEN 1 ELSE 0,
              !.failed = @ \/ failure,
              !.outcome = IF rehearsal.failed \/ failure THEN "failed"
                          ELSE "completed"]

Cleanup ==
    /\ Doing("cleanup")
    /\ temp' = NoTemp
    /\ rehearsal' = Cleaned(FALSE, FALSE)
    /\ UNCHANGED <<checkout, time, slips>>

\* rm fails and leaves the directory; the lstat after it may fail too, and
\* exists() then takes the directory for absent.
CleanupFails(seen) ==
    /\ Doing("cleanup")
    /\ temp # NoTemp
    /\ slips < MaxIoFaults
    /\ slips' = slips + 1
    /\ rehearsal' = Cleaned(TRUE, seen)
    /\ UNCHANGED <<checkout, temp, time>>

\* A call of the file system throws in one of the other steps.
IoFails ==
    /\ rehearsal.outcome = "none"
    /\ rehearsal.step \in {"snapshot-preflight", "restore", "startup-gate"}
    /\ slips < MaxIoFaults
    /\ slips' = slips + 1
    /\ rehearsal' = Thrown(rehearsal)
    /\ UNCHANGED <<checkout, temp, time>>

\* Somebody edits a snapshot of the checkout, or a restored file.
EditCheckout(kind) ==
    /\ slips < MaxIoFaults
    /\ slips' = slips + 1
    /\ checkout' = [checkout EXCEPT ![kind] = "bad"]
    /\ UNCHANGED <<temp, rehearsal, time>>

EditRestored(kind) ==
    /\ temp # NoTemp
    /\ temp[kind] = "good"
    /\ slips < MaxIoFaults
    /\ slips' = slips + 1
    /\ temp' = [temp EXCEPT ![kind] = "bad"]
    /\ UNCHANGED <<checkout, rehearsal, time>>

KillRehearsal ==
    /\ rehearsal.step # "none"
    /\ rehearsal.outcome = "none"
    /\ slips < MaxIoFaults
    /\ slips' = slips + 1
    /\ rehearsal' = [rehearsal EXCEPT !.outcome = "killed"]
    /\ UNCHANGED <<checkout, temp, time>>

Tick ==
    /\ rehearsal.outcome = "none"
    /\ time < MaxClockTicks
    /\ time' = time + 1
    /\ UNCHANGED <<checkout, temp, rehearsal, slips>>

RestoreNext ==
    \/ BeginRehearsal \/ ReadSource \/ PreflightEnds
    \/ MakeRoot \/ WriteState \/ RestoreEnds
    \/ ReadRestored \/ GateEnds \/ Reconcile
    \/ Cleanup \/ \E seen \in BOOLEAN : CleanupFails(seen)
    \/ IoFails \/ KillRehearsal \/ Tick
    \/ \E k \in Kinds : EditCheckout(k) \/ EditRestored(k)

RestoreSpec == RestoreInit /\ [][RestoreNext]_restoreVars

----------------------------------------------------------------------------
Outcomes == {"none", "completed", "failed", "killed"}
Records == [id : Range(RestoreSteps), status : {"succeeded", "failed"}]

\* The state's shape; an execution has failed when one of its records has.
RestoreTypeOK ==
    /\ checkout \in [Kinds -> {"good", "bad"}]
    /\ temp \in {NoTemp} \union [Kinds -> {"absent", "good", "bad"}]
    /\ rehearsal.step \in Range(RestoreSteps) \union {"none"}
    /\ rehearsal.handled \in 0..Len(KindOrder)
    /\ rehearsal.states \in SUBSET Kinds
    /\ rehearsal.records \in Seq(Records)
    /\ rehearsal.failed <=> \E i \in 1..Len(rehearsal.records) :
                              rehearsal.records[i].status = "failed"
    /\ rehearsal.root \in BOOLEAN
    /\ rehearsal.since \in 0..MaxClockTicks
    /\ rehearsal.outcome \in Outcomes
    /\ rehearsal.residual \in {0, 1}
    /\ time \in 0..MaxClockTicks
    /\ slips \in 0..MaxIoFaults

\* Evidence of a completed rehearsal is worth what it says: all three states
\* were read back, the restore began on a capture young enough and ended
\* within the RTO, every step is recorded as succeeded, once and in the
\* plan's order, and no directory is left behind.
CompletedIsWhole ==
    rehearsal.outcome = "completed" =>
        /\ rehearsal.states = Kinds
        /\ rehearsal.since <= MaxAge
        /\ rehearsal.records =
              [i \in 1..Len(RestoreSteps) |->
                  [id |-> RestoreSteps[i], status |-> "succeeded"]]
        /\ temp = NoTemp

\* A rehearsal that ends, in whatever step it failed, has tried the cleanup
\* exactly once, last; a directory it left behind makes it a failed one, and
\* one reported as a residual is really there.
CleanupLast ==
    rehearsal.outcome \in {"completed", "failed"} =>
        /\ \A i \in 1..Len(rehearsal.records) :
              (rehearsal.records[i].id = "cleanup")
                  <=> (i = Len(rehearsal.records))
        /\ temp # NoTemp => rehearsal.outcome = "failed"
        /\ rehearsal.residual = 1 => temp # NoTemp

\* Nothing is written before every source was verified: the directory exists
\* only once the preflight is recorded as succeeded.
VerifiedBeforeWritten ==
    temp # NoTemp =>
        /\ Len(rehearsal.records) >= 1
        /\ rehearsal.records[1] =
              [id |-> "snapshot-preflight", status |-> "succeeded"]

\* The evidence of a restore rehearsal is true, whatever failed in it.
RestoreSafe == CompletedIsWhole /\ CleanupLast /\ VerifiedBeforeWritten
=============================================================================
