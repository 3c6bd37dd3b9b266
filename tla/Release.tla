------------------------------ MODULE Release ------------------------------
(***************************************************************************)
(* packages/release-operations: a release plan run command by command      *)
(* (release-executor.ts, release-plan.ts).  The operator applies a plan or *)
(* rolls it back, with or without compensation, as often as needed; a      *)
(* command may exit non-zero with or without having had its effect, and    *)
(* the process may be killed between two commands.  `live` is what is      *)
(* deployed: the D1 schema, the API, the console and the Sealos worker,    *)
(* each at the manifest's previous or target version.                      *)
(*                                                                         *)
(* Commands that only look (git cat-file, npm test, kubectl rollout        *)
(* status, the canary, the health check) are Check; a step's several       *)
(* looking commands before or after its change count as one.               *)
(***************************************************************************)
EXTENDS Naturals, Sequences

CONSTANTS
    MaxReleases,       \* bound: executions the operator starts
    MaxCommandFaults   \* bound: commands that fail, and kills

ASSUME ReleaseAssumption == MaxReleases \in Nat /\ MaxCommandFaults \in Nat

VARIABLES
    live,      \* the version of each part that is deployed
    exec,      \* the execution in progress, or the last one
    releases,  \* executions started
    trouble    \* faults so far

releaseVars == <<live, exec, releases, trouble>>

Parts == {"schema", "api", "console", "worker"}
Versions == {"previous", "target"}

Check == [part |-> "none", to |-> "none"]
Deploy(part, to) == [part |-> part, to |-> to]

\* step(): what it runs, and what its compensation runs.
PlanStep(id, mutates, commands, undo) ==
    [id |-> id, mutates |-> mutates, commands |-> commands, undo |-> undo]

Preflight == PlanStep("preflight", FALSE, <<Check>>, << >>)
Backup    == PlanStep("backup-evidence", FALSE, << >>, << >>)

ExpandMigration ==
    PlanStep("expand-migration", TRUE, <<Deploy("schema", "target")>>, << >>)

DeployApi ==
    PlanStep("api", TRUE, <<Deploy("api", "target")>>,
             <<Deploy("api", "previous")>>)

ApplySteps ==
    << Preflight, Backup, ExpandMigration, DeployApi,
       PlanStep("console", TRUE, <<Check, Deploy("console", "target")>>,
                <<Deploy("console", "previous")>>),
       PlanStep("worker", TRUE, <<Deploy("worker", "target"), Check>>,
                <<Deploy("worker", "previous")>>),
       PlanStep("isolated-canary", FALSE, <<Check>>, << >>),
       PlanStep("stability-window", FALSE, <<Check, Check>>, << >>) >>

RollbackSteps ==
    << Preflight,
       PlanStep("api", TRUE, <<Deploy("api", "previous")>>, << >>),
       PlanStep("console", TRUE, <<Deploy("console", "previous")>>, << >>),
       PlanStep("worker", TRUE, <<Deploy("worker", "previous"), Check>>,
                << >>),
       PlanStep("stability-window", FALSE, <<Check>>, << >>) >>

Plan(action) == IF action = "apply" THEN ApplySteps ELSE RollbackSteps
Steps == Plan(exec.action)

Running == exec.phase \in {"steps", "undo"}

NoExec == [action |-> "apply", compensate |-> FALSE, phase |-> "none",
           at |-> 1, next |-> 1, done |-> << >>, failed |-> 0]

ReleaseInit ==
    /\ live = [p \in Parts |-> "previous"]
    /\ exec = NoExec
    /\ releases = 0
    /\ trouble = 0

----------------------------------------------------------------------------
\* executeReleasePlan once --confirm matched the plan's hash.
BeginRelease(action, compensate) ==
    /\ ~Running
    /\ releases < MaxReleases
    /\ releases' = releases + 1
    /\ exec' = [NoExec EXCEPT !.action = action, !.compensate = compensate,
                              !.phase = "steps"]
    /\ UNCHANGED <<live, trouble>>

\* What a command changes.
After(command) ==
    IF command.part = "none" THEN live
    ELSE [live EXCEPT ![command.part] = command.to]

\* The next command of the step exits zero.
RunCommand ==
    /\ exec.phase = "steps"
    /\ exec.next <= Len(Steps[exec.at].commands)
    /\ live' = After(Steps[exec.at].commands[exec.next])
    /\ exec' = [exec EXCEPT !.next = @ + 1]
    /\ UNCHANGED <<releases, trouble>>

\* mutant: only the last one is remembered
CompletedLast(step) ==
    IF Steps[step].mutates THEN <<step>> ELSE exec.done

\* All of them did: a step that mutates is remembered for compensation.
Completed(step) ==
    IF Steps[step].mutates THEN Append(exec.done, step) ELSE exec.done

LastStep(at) == at = Len(Steps)

StepSucceeds ==
    /\ exec.phase = "steps"
    /\ exec.next > Len(Steps[exec.at].commands)
    /\ exec' = [exec EXCEPT
                  !.done = Completed(exec.at),
                  !.at = IF LastStep(exec.at) THEN @ ELSE @ + 1,
                  !.next = 1,
                  !.phase = IF LastStep(exec.at) THEN "succeeded" ELSE @]
    /\ UNCHANGED <<live, releases, trouble>>

\* A step failed: no later step runs; with --compensate the remembered
\* steps are undone.
Halted(e) ==
    [e EXCEPT !.failed = e.at, !.next = 1,
              !.phase = IF e.compensate THEN "undo" ELSE "failed"]

\* A command exits non-zero, whether or not it changed anything.
CommandFails(effect) ==
    /\ exec.phase = "steps"
    /\ exec.next <= Len(Steps[exec.at].commands)
    /\ trouble < MaxCommandFaults
    /\ trouble' = trouble + 1
    /\ live' = IF effect THEN After(Steps[exec.at].commands[exec.next])
               ELSE live
    /\ exec' = Halted(exec)
    /\ UNCHANGED releases

----------------------------------------------------------------------------
\* compensate(): the remembered steps in reverse.
Undoing == exec.done[Len(exec.done)]

RunUndo ==
    /\ exec.phase = "undo"
    /\ exec.done # << >>
    /\ exec.next <= Len(Steps[Undoing].undo)
    /\ live' = After(Steps[Undoing].undo[exec.next])
    /\ exec' = [exec EXCEPT !.next = @ + 1]
    /\ UNCHANGED <<releases, trouble>>

\* A step has no compensation, or all of it ran.
UndoNext ==
    /\ exec.phase = "undo"
    /\ exec.done # << >>
    /\ exec.next > Len(Steps[Undoing].undo)
    /\ exec' = [exec EXCEPT !.next = 1,
                            !.done = SubSeq(@, 1, Len(@) - 1)]
    /\ UNCHANGED <<live, releases, trouble>>

\* Every remembered step is compensated: ReleaseExecutionError with its
\* evidence.
UndoEnds ==
    /\ exec.phase = "undo"
    /\ exec.done = << >>
    /\ exec' = [exec EXCEPT !.phase = "compensated"]
    /\ UNCHANGED <<live, releases, trouble>>

\* A compensating command fails: the error leaves compensate() and the
\* evidence of the whole execution is lost.
UndoFails(effect) ==
    /\ exec.phase = "undo"
    /\ exec.done # << >>
    /\ exec.next <= Len(Steps[Undoing].undo)
    /\ trouble < MaxCommandFaults
    /\ trouble' = trouble + 1
    /\ live' = IF effect THEN After(Steps[Undoing].undo[exec.next]) ELSE live
    /\ exec' = [exec EXCEPT !.phase = "lost"]
    /\ UNCHANGED releases

\* The operator's process is killed.
Killed ==
    /\ Running
    /\ trouble < MaxCommandFaults
    /\ trouble' = trouble + 1
    /\ exec' = [exec EXCEPT !.phase = "lost"]
    /\ UNCHANGED <<live, releases>>

ReleaseNext ==
    \/ \E action \in {"apply", "rollback"}, compensate \in BOOLEAN :
          BeginRelease(action, compensate)
    \/ RunCommand
    \/ StepSucceeds
    \/ \E effect \in BOOLEAN : CommandFails(effect)
    \/ RunUndo
    \/ UndoNext
    \/ UndoEnds
    \/ \E effect \in BOOLEAN : UndoFails(effect)
    \/ Killed

ReleaseSpec == ReleaseInit /\ [][ReleaseNext]_releaseVars

----------------------------------------------------------------------------
\* The state's shape: what is deployed and where the execution stands.
ReleaseTypeOK ==
    /\ live \in [Parts -> Versions]
    /\ exec.action \in {"apply", "rollback"}
    /\ exec.phase \in {"none", "steps", "undo", "succeeded", "failed",
                       "compensated", "lost"}
    /\ exec.compensate \in BOOLEAN
    /\ exec.at \in 1..Len(Steps)
    /\ exec.next \in 1..3
    /\ exec.done \in Seq(1..Len(Steps))
    /\ exec.failed \in 0..Len(Steps)
    /\ releases \in 0..MaxReleases
    /\ trouble \in 0..MaxCommandFaults

\* Expand before use: whatever fails, is compensated, rolled back, killed or
\* started again, the target API or worker never runs on the previous
\* schema (the order of applySteps, and no step takes the schema back).
ExpandFirst ==
    \A p \in {"api", "console", "worker"} :
        live[p] = "target" => live["schema"] = "target"

\* An execution that reports success leaves the whole system at the version
\* of its action, whatever mixture of versions it was started on.
SuccessIsWhole ==
    exec.phase = "succeeded" =>
        \A p \in {"api", "console", "worker"} :
            live[p] = IF exec.action = "apply" THEN "target" ELSE "previous"

\* When compensation ended, everything that the steps before the failed one
\* deployed is back at the previous version.  (The failed step itself is
\* not compensated: what its commands already did stays.)
CompensatedBack ==
    exec.phase = "compensated" =>
        \A i \in 1..(exec.failed - 1) :
            \A u \in 1..Len(Steps[i].undo) :
                live[Steps[i].undo[u].part] = "previous"

\* No failure leaves a mixture of versions that cannot run or that is
\* reported as whole.
ReleaseSafe == ExpandFirst /\ SuccessIsWhole /\ CompensatedBack
=============================================================================
