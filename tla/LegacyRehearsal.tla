-------------------------- MODULE LegacyRehearsal --------------------------
(***************************************************************************)
(* packages/release-operations/src/legacy-rehearsal-executor.ts: the       *)
(* rehearsal of going back to the legacy server and worker, in a docker    *)
(* compose project of its own that is taken down whatever happens.         *)
(*                                                                         *)
(* `docker` is what exists under the project's label; a command may exit   *)
(* non-zero with or without having had its effect, a service may turn      *)
(* unhealthy, the identity or D1 check may refuse, the clock advances, and *)
(* the process may be killed.                                              *)
(***************************************************************************)
EXTENDS Integers, Sequences, SequencesExt

CONSTANTS
    RtoSeconds,      \* the RTO, in ticks of the model's clock
    MaxMoments,      \* bound: how far the clock runs
    MaxStepFaults    \* bound: faults

ASSUME RehearsalAssumption ==
    RtoSeconds \in Nat /\ MaxMoments \in Nat /\ MaxStepFaults \in Nat

VARIABLES
    docker,    \* things that exist: a subset of Things
    healthy,   \* the legacy services run and answer
    scratch,   \* the temporary directory exists
    drill,     \* where the executor is and what it recorded
    moment,    \* the clock
    faults     \* faults so far

drillVars == <<docker, healthy, scratch, drill, moment, faults>>

\* What the labels of the project list, in the order of the listings.
Things == {"containers", "networks", "volumes"}
Listings == <<"containers", "networks", "volumes">>

\* buildLegacyRehearsalPlan: the commands of each step, by what they make;
\* "check" commands and the two built-in checks make nothing.
PlanSteps ==
    << [id |-> "isolation-preflight", makes |-> <<{}, {}>>],
       [id |-> "identity-evidence", makes |-> <<{}>>],
       [id |-> "d1-compatibility", makes |-> <<{}>>],
       [id |-> "substitute-worker-stop",
        makes |-> <<{"containers", "networks"}, {}>>],
       [id |-> "legacy-compose-restore", makes |-> <<Things>>],
       [id |-> "reconciliation", makes |-> <<{}, {}>>] >>

StepAt(id) == CHOOSE i \in 1..Len(PlanSteps) : PlanSteps[i].id = id
Restore == StepAt("legacy-compose-restore")

IdleDrill ==
    [phase |-> "none", step |-> 1, next |-> 1, since |-> 0, rto |-> -1,
     records |-> << >>, failed |-> FALSE, trouble |-> FALSE,
     counts |-> << >>]

DrillInit ==
    /\ docker = {}
    /\ healthy = FALSE
    /\ scratch = FALSE
    /\ drill = IdleDrill
    /\ moment = 0
    /\ faults = 0

Fault == faults < MaxStepFaults /\ faults' = faults + 1

Noted(d, id, status) ==
    [d EXCEPT !.records = Append(@, [id |-> id, status |-> status])]

\* A step threw: it is recorded and no other step begins.
Broken(d) ==
    [Noted(d, PlanSteps[d.step].id, "failed")
       EXCEPT !.failed = TRUE, !.phase = "down"]

----------------------------------------------------------------------------
\* executeLegacyRehearsal, confirmed: mkdtemp, then the first step.
BeginDrill ==
    /\ drill.phase = "none"
    /\ drill' = [drill EXCEPT !.phase = "steps"]
    /\ scratch' = TRUE
    /\ UNCHANGED <<docker, healthy, moment, faults>>

\* The RTO is counted from the beginning of the substitute's step.
Started(d) ==
    IF d.next = 1 /\ d.step = StepAt("substitute-worker-stop")
    THEN [d EXCEPT !.since = moment] ELSE d

\* executeStep: the next command (or built-in check) of the step succeeds.
\* up --wait succeeds only with healthy services.
StepCommand ==
    /\ drill.phase = "steps"
    /\ drill.next <= Len(PlanSteps[drill.step].makes)
    /\ docker' = docker \union PlanSteps[drill.step].makes[drill.next]
    /\ healthy' = (healthy \/ drill.step = Restore)
    /\ drill' = [Started(drill) EXCEPT !.next = @ + 1]
    /\ UNCHANGED <<scratch, moment, faults>>

InTime(elapsed) == elapsed <= RtoSeconds

\* All commands exited zero: the restore is timed, the reconciliation looks
\* at the services as docker compose ps lists them now.
StepDone ==
    /\ drill.phase = "steps"
    /\ drill.next > Len(PlanSteps[drill.step].makes)
    /\ LET id == PlanSteps[drill.step].id
           elapsed == moment - drill.since
           timed == IF drill.step = Restore THEN [drill EXCEPT !.rto = elapsed]
                    ELSE drill
           good == /\ drill.step = Restore => InTime(elapsed)
                   /\ id = "reconciliation" => healthy
       IN drill' = IF good
                   THEN [Noted(timed, id, "succeeded") EXCEPT
                           !.step = IF @ < Len(PlanSteps) THEN @ + 1 ELSE @,
                           !.next = 1,
                           !.phase = IF drill.step < Len(PlanSteps) THEN @
                                     ELSE "down"]
                   ELSE Broken(timed)
    /\ UNCHANGED <<docker, healthy, scratch, moment, faults>>

\* A command exits non-zero or cannot be started, a built-in check refuses.
StepFails(made) ==
    /\ drill.phase = "steps"
    /\ drill.next <= Len(PlanSteps[drill.step].makes)
    /\ made \subseteq PlanSteps[drill.step].makes[drill.next]
    /\ Fault
    /\ docker' = docker \union made
    /\ drill' = Broken(Started(drill))
    /\ UNCHANGED <<healthy, scratch, moment>>

----------------------------------------------------------------------------
\* cleanupRehearsal: compose down.
Down ==
    /\ drill.phase = "down"
    /\ docker' = {}
    /\ healthy' = FALSE
    /\ drill' = [drill EXCEPT !.phase = "list"]
    /\ UNCHANGED <<scratch, moment, faults>>

\* down exits non-zero and leaves some of it; the listings still run.
DownFails(left) ==
    /\ drill.phase = "down"
    /\ left \subseteq docker
    /\ Fault
    /\ docker' = left
    /\ healthy' = FALSE
    /\ drill' = [drill EXCEPT !.phase = "list", !.trouble = TRUE]
    /\ UNCHANGED <<scratch, moment>>

\* resultCount of a listing that exits zero.
List ==
    /\ drill.phase = "list"
    /\ Len(drill.counts) < Len(Listings)
    /\ LET thing == Listings[Len(drill.counts) + 1] IN
       drill' = [drill EXCEPT
                   !.counts = Append(@, IF thing \in docker THEN 1 ELSE 0)]
    /\ UNCHANGED <<docker, healthy, scratch, moment, faults>>

\* mutant: a listing that fails found nothing
ListFailsAsNone ==
    /\ drill.phase = "list"
    /\ Len(drill.counts) < Len(Listings)
    /\ Fault
    /\ drill' = [drill EXCEPT !.counts = Append(@, 0), !.trouble = TRUE]
    /\ UNCHANGED <<docker, healthy, scratch, moment>>

ListFails ==
    /\ drill.phase = "list"
    /\ Len(drill.counts) < Len(Listings)
    /\ Fault
    /\ drill' = [drill EXCEPT !.counts = Append(@, -1), !.trouble = TRUE]
    /\ UNCHANGED <<docker, healthy, scratch, moment>>

\* The directory is removed, the residuals are judged, the outcome is that
\* of the first failure.
Judged ==
    LET broken == \/ drill.trouble
                  \/ \E i \in 1..Len(drill.counts) : drill.counts[i] # 0
    IN [Noted(drill, "cleanup", IF broken THEN "failed" ELSE "succeeded")
          EXCEPT !.failed = @ \/ broken,
                 !.phase = IF drill.failed \/ broken THEN "failed"
                           ELSE "completed"]

EndDrill ==
    /\ drill.phase = "list"
    /\ Len(drill.counts) = Len(Listings)
    /\ scratch' = FALSE
    /\ drill' = Judged
    /\ UNCHANGED <<docker, healthy, moment, faults>>

\* rm throws: nothing catches it, and the evidence is lost; or the process
\* is killed.
DrillLost ==
    /\ drill.phase \in {"steps", "down", "list"}
    /\ Fault
    /\ drill' = [drill EXCEPT !.phase = "lost"]
    /\ UNCHANGED <<docker, healthy, scratch, moment>>

\* A service dies after it was healthy.
ServiceDies ==
    /\ drill.phase = "steps"
    /\ healthy
    /\ Fault
    /\ healthy' = FALSE
    /\ UNCHANGED <<docker, scratch, drill, moment>>

Wait ==
    /\ drill.phase = "steps"
    /\ moment < MaxMoments
    /\ moment' = moment + 1
    /\ UNCHANGED <<docker, healthy, scratch, drill, faults>>

DrillNext ==
    \/ BeginDrill \/ StepCommand \/ StepDone
    \/ \E made \in SUBSET Things : StepFails(made)
    \/ Down \/ \E left \in SUBSET Things : DownFails(left)
    \/ List \/ ListFails \/ EndDrill \/ DrillLost
    \/ ServiceDies \/ Wait

DrillSpec == DrillInit /\ [][DrillNext]_drillVars

----------------------------------------------------------------------------
StepIds == {PlanSteps[i].id : i \in 1..Len(PlanSteps)} \union {"cleanup"}

\* The state's shape; an execution has failed when one of its records has.
DrillTypeOK ==
    /\ docker \subseteq Things
    /\ healthy \in BOOLEAN /\ scratch \in BOOLEAN
    /\ drill.phase \in {"none", "steps", "down", "list", "failed",
                        "completed", "lost"}
    /\ drill.step \in 1..Len(PlanSteps)
    /\ drill.next \in 1..3
    /\ drill.since \in 0..MaxMoments
    /\ drill.rto \in -1..MaxMoments
    /\ drill.records \in
          Seq([id : StepIds, status : {"succeeded", "failed"}])
    /\ drill.failed <=> \E i \in 1..Len(drill.records) :
                          drill.records[i].status = "failed"
    /\ drill.trouble \in BOOLEAN
    /\ drill.counts \in Seq(-1..1)
    /\ moment \in 0..MaxMoments
    /\ faults \in 0..MaxStepFaults

\* A rehearsal reported as completed went through every step in the plan's
\* order, met the RTO counted from the substitute's step, and left nothing:
\* no container, network, volume or file.
RehearsedIsClean ==
    drill.phase = "completed" =>
        /\ docker = {} /\ ~scratch
        /\ drill.rto \in 0..RtoSeconds
        /\ drill.records =
              [i \in 1..(Len(PlanSteps) + 1) |->
                  [id |-> IF i <= Len(PlanSteps) THEN PlanSteps[i].id
                          ELSE "cleanup",
                   status |-> "succeeded"]]

\* The residuals in the evidence, of a completed or a failed rehearsal, are
\* what is really there, or -1 where the listing failed.
ResidualsTrue ==
    drill.phase \in {"completed", "failed"} =>
        \A i \in 1..Len(Listings) :
            \/ drill.counts[i] = -1
            \/ (drill.counts[i] = 1) <=> (Listings[i] \in docker)

\* Whatever step broke, nothing after it ran but the cleanup.
NothingAfterFailure ==
    \A i \in 1..Len(drill.records) :
        drill.records[i].status = "failed" =>
            \A j \in (i + 1)..Len(drill.records) :
                drill.records[j].id = "cleanup"

\* The evidence of a rollback rehearsal is true, whatever failed in it.
RehearsalSafe == RehearsedIsClean /\ ResidualsTrue /\ NothingAfterFailure
=============================================================================
