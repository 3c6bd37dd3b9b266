-------------------------- MODULE OperationsProofs --------------------------
(***************************************************************************)
(* Proofs about the operator's tools: a release plan leaves no mixture of  *)
(* versions that cannot run, for any number of executions and failures,    *)
(* and the evidence of the two rehearsals is true, however long they take, *)
(* whatever fails in them.                                                 *)
(***************************************************************************)
EXTENDS Release, StateRestore, LegacyRehearsal, SequenceTheorems, TLAPS

(* The release plans, step by step *)

LEMMA ApplyPlan ==
    /\ Len(ApplySteps) = 8
    /\ \A i \in 1..8 : ApplySteps[i].mutates <=> i \in 3..6
    /\ ApplySteps[1].commands = <<Check>>
    /\ ApplySteps[2].commands = << >>
    /\ ApplySteps[3].commands = <<Deploy("schema", "target")>>
    /\ ApplySteps[4].commands = <<Deploy("api", "target")>>
    /\ ApplySteps[5].commands = <<Check, Deploy("console", "target")>>
    /\ ApplySteps[6].commands = <<Deploy("worker", "target"), Check>>
    /\ ApplySteps[7].commands = <<Check>>
    /\ ApplySteps[8].commands = <<Check, Check>>
    /\ \A i \in {1, 2, 3, 7, 8} : ApplySteps[i].undo = << >>
    /\ ApplySteps[4].undo = <<Deploy("api", "previous")>>
    /\ ApplySteps[5].undo = <<Deploy("console", "previous")>>
    /\ ApplySteps[6].undo = <<Deploy("worker", "previous")>>
BY DEF ApplySteps, PlanStep, Preflight, Backup, ExpandMigration, DeployApi

LEMMA RollbackPlan ==
    /\ Len(RollbackSteps) = 5
    /\ \A i \in 1..5 : RollbackSteps[i].mutates <=> i \in 2..4
    /\ RollbackSteps[1].commands = <<Check>>
    /\ RollbackSteps[2].commands = <<Deploy("api", "previous")>>
    /\ RollbackSteps[3].commands = <<Deploy("console", "previous")>>
    /\ RollbackSteps[4].commands = <<Deploy("worker", "previous"), Check>>
    /\ RollbackSteps[5].commands = <<Check>>
    /\ \A i \in 1..5 : RollbackSteps[i].undo = << >>
BY DEF RollbackSteps, PlanStep, Preflight

\* what the steps of a plan before its present one, and the commands that have
\* run of it, have deployed
Applied ==
    LET past(i, c) == exec.at > i \/ (exec.at = i /\ exec.next > c) IN
    /\ past(3, 1) => live["schema"] = "target"
    /\ past(4, 1) => live["api"] = "target"
    /\ past(5, 2) => live["console"] = "target"
    /\ past(6, 1) => live["worker"] = "target"

RolledBack ==
    LET past(i, c) == exec.at > i \/ (exec.at = i /\ exec.next > c) IN
    /\ past(2, 1) => live["api"] = "previous"
    /\ past(3, 1) => live["console"] = "previous"
    /\ past(4, 1) => live["worker"] = "previous"

\* The steps that mutate are next to each other in either plan, and those of them
\* that are remembered are the first, in order.
First(action)    == IF action = "apply" THEN 3 ELSE 2
Mutating(action) == IF action = "apply" THEN 4 ELSE 3
DoneInOrder ==
    \A n \in 1..Len(exec.done) : exec.done[n] = First(exec.action) + n - 1

\* how many of them come before a step
MutatingBefore(action, at) ==
    IF at <= First(action) THEN 0
    ELSE IF at - First(action) <= Mutating(action) THEN at - First(action)
    ELSE Mutating(action)

\* Of the steps before the one that failed, those that are no longer remembered
\* are undone, and the last one that is may be.
Compensated(i, part) ==
    LET last == First(exec.action) + Len(exec.done) - 1 IN
    i < exec.failed /\ (i > last \/ (i = last /\ exec.next > 1)) =>
        live[part] = "previous"

Undone ==
    exec.action = "apply" =>
        Compensated(4, "api") /\ Compensated(5, "console") /\ Compensated(6, "worker")

ExecPhases == {"none", "steps", "undo", "succeeded", "failed", "compensated", "lost"}
Execution ==
    [action : {"apply", "rollback"}, compensate : BOOLEAN, phase : ExecPhases,
     at : 1..8, next : 1..3, done : Seq(1..8), failed : 0..8]

ReleaseShape ==
    /\ live \in [Parts -> Versions] /\ exec \in Execution
    /\ exec.action = "rollback" => exec.at <= 5 /\ exec.failed <= 5
    /\ releases \in 0..MaxReleases /\ trouble \in 0..MaxCommandFaults

ReleaseInv ==
    /\ ReleaseShape /\ ExpandFirst
    /\ DoneInOrder /\ Len(exec.done) <= Mutating(exec.action)
    /\ exec.phase = "steps" =>
          /\ exec.action = "apply" => Applied
          /\ exec.action = "rollback" => RolledBack
          /\ Len(exec.done) = MutatingBefore(exec.action, exec.at)
    /\ SuccessIsWhole
    /\ exec.phase \in {"undo", "compensated"} => Undone
    /\ exec.phase = "compensated" => exec.done = << >>

LEMMA ReleaseInitInv == ReleaseInit => ReleaseInv
BY ReleaseAssumption
DEF ReleaseInit, ReleaseInv, ReleaseShape, Execution, ExecPhases, NoExec, Parts,
    Versions, ExpandFirst,
    DoneInOrder, Mutating, SuccessIsWhole

\* What the next command does to the system: nothing, or it deploys what its step
\* is for.
NextCommand == Steps[exec.at].commands[exec.next]
MayRun == exec.phase = "steps" /\ exec.next <= Len(Steps[exec.at].commands)

Deploys(i, c, part, to) ==
    exec.at = i /\ exec.next = c /\ live' = [live EXCEPT ![part] = to]

ApplyDoes(i, c, x) ==
    /\ c <= 2
    /\ \/ x = Check /\ i \notin {3, 4} /\ (i = 5 => c # 2) /\ (i = 6 => c # 1)
       \/ i = 3 /\ c = 1 /\ x = Deploy("schema", "target")
       \/ i = 4 /\ c = 1 /\ x = Deploy("api", "target")
       \/ i = 5 /\ c = 2 /\ x = Deploy("console", "target")
       \/ i = 6 /\ c = 1 /\ x = Deploy("worker", "target")

LEMMA ApplyTable ==
    ASSUME NEW i \in 1..8, NEW c \in 1..3, c <= Len(ApplySteps[i].commands),
           NEW x, x = ApplySteps[i].commands[c]
    PROVE  ApplyDoes(i, c, x)
<1> USE ApplyPlan DEF ApplyDoes
<1>1. CASE i \in {1, 7}  BY <1>1
<1>2. CASE i = 2  BY <1>2
<1>3. CASE i \in {3, 4}  BY <1>3
<1>4. CASE i = 5  BY <1>4
<1>5. CASE i = 6  BY <1>5
<1>6. CASE i = 8  BY <1>6
<1> QED  BY <1>1, <1>2, <1>3, <1>4, <1>5, <1>6

RollbackDoes(i, c, x) ==
    /\ c <= 2
    /\ \/ x = Check /\ i \notin {2, 3} /\ (i = 4 => c # 1)
       \/ i = 2 /\ c = 1 /\ x = Deploy("api", "previous")
       \/ i = 3 /\ c = 1 /\ x = Deploy("console", "previous")
       \/ i = 4 /\ c = 1 /\ x = Deploy("worker", "previous")

LEMMA RollbackTable ==
    ASSUME NEW i \in 1..5, NEW c \in 1..3, c <= Len(RollbackSteps[i].commands),
           NEW x, x = RollbackSteps[i].commands[c]
    PROVE  RollbackDoes(i, c, x)
<1> USE RollbackPlan DEF RollbackDoes
<1>1. CASE i \in {1, 5}  BY <1>1
<1>2. CASE i \in {2, 3}  BY <1>2
<1>3. CASE i = 4  BY <1>3
<1> QED  BY <1>1, <1>2, <1>3

LEMMA Afterwards ==
    /\ After(Check) = live
    /\ \A p \in Parts, to \in Versions :
          After(Deploy(p, to)) = [live EXCEPT ![p] = to]
BY DEF After, Check, Deploy, Parts

LEMMA ApplyCommand ==
    ASSUME ReleaseShape, MayRun, exec.action = "apply", live' = After(NextCommand)
    PROVE  /\ exec.next <= 2
           /\ \/ /\ live' = live /\ exec.at \notin {3, 4}
                 /\ exec.at = 5 => exec.next # 2
                 /\ exec.at = 6 => exec.next # 1
              \/ Deploys(3, 1, "schema", "target") \/ Deploys(4, 1, "api", "target")
              \/ Deploys(5, 2, "console", "target") \/ Deploys(6, 1, "worker", "target")
<1>0. PICK x : x = ApplySteps[exec.at].commands[exec.next]  OBVIOUS
<1>1. /\ exec.at \in 1..8 /\ exec.next \in 1..3
      /\ exec.next <= Len(ApplySteps[exec.at].commands) /\ live' = After(x)
  BY <1>0 DEF ReleaseShape, Execution, MayRun, NextCommand, Steps, Plan
<1>2. ApplyDoes(exec.at, exec.next, x)  BY <1>0, <1>1, ApplyTable
<1>3. /\ "schema" \in Parts /\ "api" \in Parts /\ "console" \in Parts
      /\ "worker" \in Parts /\ "target" \in Versions
  BY DEF Parts, Versions
<1>4. CASE x = Check /\ exec.at \notin {3, 4}
           /\ (exec.at = 5 => exec.next # 2) /\ (exec.at = 6 => exec.next # 1)
  BY <1>1, <1>2, <1>4, Afterwards DEF ApplyDoes
<1>5. CASE exec.at = 3 /\ exec.next = 1 /\ x = Deploy("schema", "target")
  BY <1>1, <1>3, <1>5, Afterwards DEF Deploys
<1>6. CASE exec.at = 4 /\ exec.next = 1 /\ x = Deploy("api", "target")
  BY <1>1, <1>3, <1>6, Afterwards DEF Deploys
<1>7. CASE exec.at = 5 /\ exec.next = 2 /\ x = Deploy("console", "target")
  BY <1>1, <1>3, <1>7, Afterwards DEF Deploys
<1>8. CASE exec.at = 6 /\ exec.next = 1 /\ x = Deploy("worker", "target")
  BY <1>1, <1>3, <1>8, Afterwards DEF Deploys
<1> QED  BY <1>2, <1>4, <1>5, <1>6, <1>7, <1>8 DEF ApplyDoes

LEMMA RollbackCommand ==
    ASSUME ReleaseShape, MayRun, exec.action = "rollback", live' = After(NextCommand)
    PROVE  /\ exec.next <= 2
           /\ \/ /\ live' = live /\ exec.at \notin {2, 3}
                 /\ exec.at = 4 => exec.next # 1
              \/ Deploys(2, 1, "api", "previous") \/ Deploys(3, 1, "console", "previous")
              \/ Deploys(4, 1, "worker", "previous")
<1>0. PICK x : x = RollbackSteps[exec.at].commands[exec.next]  OBVIOUS
<1>1. /\ exec.at \in 1..5 /\ exec.next \in 1..3
      /\ exec.next <= Len(RollbackSteps[exec.at].commands) /\ live' = After(x)
  BY <1>0 DEF ReleaseShape, Execution, MayRun, NextCommand, Steps, Plan
<1>2. RollbackDoes(exec.at, exec.next, x)  BY <1>0, <1>1, RollbackTable
<1>3. {"api", "console", "worker"} \subseteq Parts /\ "previous" \in Versions
  BY DEF Parts, Versions
<1>4. CASE x = Check /\ exec.at \notin {2, 3} /\ (exec.at = 4 => exec.next # 1)
  BY <1>1, <1>2, <1>4, Afterwards DEF RollbackDoes
<1>5. CASE exec.at = 2 /\ exec.next = 1 /\ x = Deploy("api", "previous")
  BY <1>1, <1>3, <1>5, Afterwards DEF Deploys
<1>6. CASE exec.at = 3 /\ exec.next = 1 /\ x = Deploy("console", "previous")
  BY <1>1, <1>3, <1>6, Afterwards DEF Deploys
<1>7. CASE exec.at = 4 /\ exec.next = 1 /\ x = Deploy("worker", "previous")
  BY <1>1, <1>3, <1>7, Afterwards DEF Deploys
<1> QED  BY <1>2, <1>4, <1>5, <1>6, <1>7 DEF RollbackDoes

\* A command that runs, or fails after it had its effect, is allowed on what is
\* deployed.
LEMMA CommandExpands ==
    ASSUME ReleaseInv, MayRun, live' = live \/ live' = After(NextCommand)
    PROVE  live' \in [Parts -> Versions] /\ ExpandFirst'
<1>1. ReleaseShape /\ ExpandFirst /\ exec.phase = "steps"
  BY DEF ReleaseInv, MayRun
<1>2. CASE live' = live  BY <1>1, <1>2 DEF ReleaseShape, ExpandFirst
<1>3. CASE live' = After(NextCommand) /\ exec.action = "apply"
  <2>1. Applied  BY <1>1, <1>3 DEF ReleaseInv
  <2>2. live["schema"] = "target" \/ exec.at <= 3
    BY <1>1, <2>1 DEF Applied, ReleaseShape, Execution
  <2>3. \/ live' = live
        \/ live' = [live EXCEPT !["schema"] = "target"]
        \/ \E p \in {"api", "console", "worker"} :
              live["schema"] = "target" /\ live' = [live EXCEPT ![p] = "target"]
    BY <1>1, <1>3, <2>2, ApplyCommand DEF Deploys
  <2> QED  BY <1>1, <2>3 DEF ReleaseShape, ExpandFirst, Parts, Versions
<1>4. CASE live' = After(NextCommand) /\ exec.action = "rollback"
  <2>1. \/ live' = live
        \/ \E p \in {"api", "console", "worker"} : live' = [live EXCEPT ![p] = "previous"]
    BY <1>1, <1>4, RollbackCommand DEF Deploys
  <2> QED  BY <1>1, <2>1 DEF ReleaseShape, ExpandFirst, Parts, Versions
<1> QED  BY <1>1, <1>2, <1>3, <1>4 DEF ReleaseShape, Execution

LEMMA RunCommandKeeps == ASSUME ReleaseInv, RunCommand PROVE ReleaseInv'
<1>1. MayRun /\ live' = After(NextCommand) /\ ReleaseShape
  BY DEF RunCommand, MayRun, NextCommand, ReleaseInv
<1>2. exec' = [exec EXCEPT !.next = @ + 1] /\ UNCHANGED <<releases, trouble>>
  BY DEF RunCommand
<1>3. live' \in [Parts -> Versions] /\ ExpandFirst'  BY <1>1, CommandExpands
<1>4. exec.next <= 2  BY <1>1, ApplyCommand, RollbackCommand DEF ReleaseShape, Execution
<1>5. /\ exec'.next = exec.next + 1 /\ exec'.at = exec.at /\ exec'.phase = "steps"
      /\ exec'.action = exec.action /\ exec'.done = exec.done
      /\ exec.phase = "steps"
  BY <1>1, <1>2 DEF ReleaseShape, Execution, MayRun
<1>6. ReleaseShape'
  BY <1>1, <1>2, <1>3, <1>4 DEF ReleaseShape, Execution
<1>7. ASSUME exec.action = "apply" PROVE Applied'
  <2>1. Applied  BY <1>5, <1>7 DEF ReleaseInv
  <2>2. /\ exec.at \in 1..8 /\ exec.next \in 1..3
        /\ live \in [Parts -> Versions] /\ {"schema", "api", "console", "worker"} = Parts
    BY <1>1 DEF ReleaseShape, Execution, Parts
  <2> QED  BY <1>1, <1>5, <1>7, <2>1, <2>2, ApplyCommand DEF Applied, Deploys
<1>8. ASSUME exec.action = "rollback" PROVE RolledBack'
  <2>1. RolledBack  BY <1>5, <1>8 DEF ReleaseInv
  <2>2. /\ exec.at \in 1..5 /\ exec.next \in 1..3
        /\ live \in [Parts -> Versions] /\ {"schema", "api", "console", "worker"} = Parts
    BY <1>1, <1>8 DEF ReleaseShape, Execution, Parts
  <2> QED  BY <1>1, <1>5, <1>8, <2>1, <2>2, RollbackCommand DEF RolledBack, Deploys
<1> QED
  BY <1>3, <1>5, <1>6, <1>7, <1>8
  DEF ReleaseInv, DoneInOrder, SuccessIsWhole, MutatingBefore, First, Mutating

\* All commands of the step have run.
LEMMA StepLength ==
    /\ Len(ApplySteps[3].commands) = 1 /\ Len(ApplySteps[4].commands) = 1
    /\ Len(ApplySteps[5].commands) = 2 /\ Len(ApplySteps[6].commands) = 2
    /\ Len(RollbackSteps[2].commands) = 1 /\ Len(RollbackSteps[3].commands) = 1
    /\ Len(RollbackSteps[4].commands) = 2
BY ApplyPlan, RollbackPlan

LEMMA StepSucceedsKeeps == ASSUME ReleaseInv, StepSucceeds PROVE ReleaseInv'
<1> DEFINE last == LastStep(exec.at)
           a    == exec.action
<1>1. /\ ReleaseShape /\ exec.phase = "steps" /\ exec.next > Len(Steps[exec.at].commands)
      /\ live' = live /\ UNCHANGED <<releases, trouble>>
  BY DEF StepSucceeds, ReleaseInv
<1>2. /\ exec.at \in 1..8 /\ exec.next \in 1..3 /\ exec.done \in Seq(1..8)
      /\ a \in {"apply", "rollback"} /\ (a = "rollback" => exec.at <= 5)
  BY <1>1 DEF ReleaseShape, Execution
<1>3. last <=> exec.at = (IF a = "apply" THEN 8 ELSE 5)
  BY <1>2, ApplyPlan, RollbackPlan DEF LastStep, Steps, Plan
<1>4. Steps[exec.at].mutates <=>
         exec.at \in First(a)..(First(a) + Mutating(a) - 1)
  BY <1>2, ApplyPlan, RollbackPlan DEF Steps, Plan, First, Mutating
<1>5. /\ exec'.done = Completed(exec.at)
      /\ exec'.at = (IF last THEN exec.at ELSE exec.at + 1)
      /\ exec'.next = 1 /\ exec'.phase = (IF last THEN "succeeded" ELSE "steps")
      /\ exec'.action = a /\ exec'.failed = exec.failed
      /\ exec'.compensate = exec.compensate
  BY <1>1 DEF StepSucceeds, ReleaseShape, Execution
<1>6. /\ Completed(exec.at) \in Seq(1..8)
      /\ Len(Completed(exec.at)) = MutatingBefore(a, exec.at + 1)
      /\ DoneInOrder' /\ Len(exec'.done) <= Mutating(a)
  <2>1. DoneInOrder /\ Len(exec.done) = MutatingBefore(a, exec.at)
    BY <1>1 DEF ReleaseInv
  <2>2. CASE Steps[exec.at].mutates
    <3>1. Completed(exec.at) = Append(exec.done, exec.at)  BY <2>2 DEF Completed
    <3>2. Len(exec.done) = exec.at - First(a)
      BY <1>2, <1>4, <2>1, <2>2 DEF MutatingBefore, First, Mutating
    <3>3. First(a) \in 2..3 /\ Mutating(a) \in 3..4 /\ exec.at - First(a) < Mutating(a)
      BY <1>2, <1>4, <2>2 DEF First, Mutating
    <3> DEFINE more == Append(exec.done, exec.at)
    <3>4. /\ more \in Seq(1..8) /\ Len(more) = exec.at - First(a) + 1
          /\ more[exec.at - First(a) + 1] = exec.at
          /\ \A i \in 1..(exec.at - First(a)) : more[i] = exec.done[i]
      BY <1>2, <3>2
    <3>5. MutatingBefore(a, exec.at + 1) = exec.at - First(a) + 1
      BY <1>2, <1>4, <2>2, <3>3 DEF MutatingBefore
    <3>6. ASSUME NEW i \in 1..(exec.at - First(a) + 1)
          PROVE  more[i] = First(a) + i - 1
      <4>1. CASE i = exec.at - First(a) + 1  BY <1>2, <3>3, <3>4, <4>1
      <4>2. CASE i # exec.at - First(a) + 1
        <5>1. i \in 1..(exec.at - First(a))  BY <1>2, <3>3, <4>2
        <5> QED  BY <2>1, <3>2, <3>4, <5>1 DEF DoneInOrder
      <4> QED  BY <4>1, <4>2
    <3>7. exec'.done = more  BY <1>5, <3>1
    <3> HIDE DEF more
    <3>8. DoneInOrder'  BY <1>5, <3>4, <3>6, <3>7 DEF DoneInOrder
    <3> QED  BY <1>2, <1>5, <3>1, <3>3, <3>4, <3>5, <3>7, <3>8
  <2>3. CASE ~Steps[exec.at].mutates
    <3>1. Completed(exec.at) = exec.done  BY <2>3 DEF Completed
    <3>2. First(a) \in 2..3 /\ Mutating(a) \in 3..4  BY <1>2 DEF First, Mutating
    <3>3. ~(exec.at >= First(a) /\ exec.at - First(a) < Mutating(a))
      <4>1. exec.at \notin First(a)..(First(a) + Mutating(a) - 1)  BY <1>4, <2>3
      <4> QED  BY <1>2, <3>2, <4>1
    <3>4. MutatingBefore(a, exec.at + 1) = MutatingBefore(a, exec.at)
      BY <1>2, <3>2, <3>3 DEF MutatingBefore
    <3>5. MutatingBefore(a, exec.at) <= Mutating(a)
      BY <1>2, <3>2 DEF MutatingBefore
    <3>6. DoneInOrder'  BY <1>5, <2>1, <3>1 DEF DoneInOrder
    <3> QED  BY <1>2, <1>5, <2>1, <3>1, <3>4, <3>5, <3>6
  <2> QED  BY <2>2, <2>3
<1>7. ReleaseShape'
  <2>1. exec' \in Execution
    <3>1. PICK at \in 1..8 : at = IF last THEN exec.at ELSE exec.at + 1
      BY <1>2, <1>3
    <3>2. PICK phase \in ExecPhases : phase = IF last THEN "succeeded" ELSE "steps"
      BY DEF ExecPhases
    <3>3. PICK done \in Seq(1..8) : done = Completed(exec.at)  BY <1>6
    <3>4. exec' = [exec EXCEPT !.done = done, !.at = at, !.next = 1, !.phase = phase]
      BY <1>1, <3>1, <3>2, <3>3 DEF StepSucceeds
    <3>5. exec \in Execution /\ 1 \in 1..3  BY <1>1 DEF ReleaseShape
    <3> HIDE DEF last
    <3> QED  BY <3>1, <3>2, <3>3, <3>4, <3>5 DEF Execution
  <2> QED  BY <1>1, <1>2, <1>3, <1>5, <2>1 DEF ReleaseShape, Execution
<1>8. ASSUME a = "apply" PROVE Applied' /\ (last => SuccessIsWhole')
  <2>1. Applied  BY <1>1, <1>8 DEF ReleaseInv
  <2>2. /\ exec.at = 3 => exec.next > 1
        /\ exec.at = 4 => exec.next > 1
        /\ exec.at = 5 => exec.next > 2
        /\ exec.at = 6 => exec.next > 2
    BY <1>1, <1>2, <1>8, StepLength DEF Steps, Plan
  <2>3. Applied'  BY <1>1, <1>2, <1>3, <1>5, <1>8, <2>1, <2>2 DEF Applied
  <2>4. last => SuccessIsWhole'
    BY <1>1, <1>2, <1>3, <1>5, <1>8, <2>1 DEF Applied, SuccessIsWhole
  <2> QED  BY <2>3, <2>4
<1>9. ASSUME a = "rollback" PROVE RolledBack' /\ (last => SuccessIsWhole')
  <2>1. RolledBack  BY <1>1, <1>9 DEF ReleaseInv
  <2>2. /\ exec.at = 2 => exec.next > 1
        /\ exec.at = 3 => exec.next > 1
        /\ exec.at = 4 => exec.next > 2
    BY <1>1, <1>2, <1>9, StepLength DEF Steps, Plan
  <2>3. RolledBack'  BY <1>1, <1>2, <1>3, <1>5, <1>9, <2>1, <2>2 DEF RolledBack
  <2>4. last => SuccessIsWhole'
    BY <1>1, <1>2, <1>3, <1>5, <1>9, <2>1 DEF RolledBack, SuccessIsWhole
  <2> QED  BY <2>3, <2>4
<1>10. ExpandFirst'  BY <1>1 DEF ReleaseInv, ExpandFirst
<1>11. exec'.phase = "steps" => Len(exec'.done) = MutatingBefore(exec'.action, exec'.at)
  BY <1>2, <1>3, <1>5, <1>6
<1>12. ~last => SuccessIsWhole'  BY <1>5 DEF SuccessIsWhole
<1> QED
  BY <1>2, <1>5, <1>6, <1>7, <1>8, <1>9, <1>10, <1>11, <1>12 DEF ReleaseInv

LEMMA CommandFailsKeeps ==
    ASSUME ReleaseInv, NEW effect \in BOOLEAN, CommandFails(effect) PROVE ReleaseInv'
<1>1. /\ ReleaseShape /\ MayRun /\ exec' = Halted(exec)
      /\ live' = live \/ live' = After(NextCommand)
      /\ trouble' = trouble + 1 /\ trouble < MaxCommandFaults /\ releases' = releases
  BY DEF CommandFails, MayRun, NextCommand, ReleaseInv
<1>2. live' \in [Parts -> Versions] /\ ExpandFirst'  BY <1>1, CommandExpands
<1>3. /\ exec'.phase \in {"undo", "failed"} /\ exec'.failed = exec.at
      /\ exec'.next = 1 /\ exec'.done = exec.done /\ exec'.action = exec.action
      /\ exec'.at = exec.at
  BY <1>1 DEF Halted, ReleaseShape, Execution
<1>4. ReleaseShape'
  <2>1. trouble' \in 0..MaxCommandFaults
    BY <1>1, ReleaseAssumption DEF ReleaseShape, Execution
  <2>2. exec' \in Execution
    <3>1. PICK phase \in ExecPhases : phase = IF exec.compensate THEN "undo" ELSE "failed"
      BY DEF ExecPhases
    <3>2. PICK failed \in 0..8 : failed = exec.at
      BY <1>1 DEF ReleaseShape, Execution
    <3>3. exec' = [exec EXCEPT !.failed = failed, !.next = 1, !.phase = phase]
      BY <1>1, <3>1, <3>2 DEF Halted
    <3>4. exec \in Execution /\ 1 \in 1..3  BY <1>1 DEF ReleaseShape
    <3> QED  BY <3>1, <3>2, <3>3, <3>4 DEF Execution
  <2> QED  BY <1>1, <1>2, <1>3, <2>1, <2>2 DEF ReleaseShape, Execution
<1>5. /\ exec.phase = "steps" /\ DoneInOrder /\ Len(exec.done) <= Mutating(exec.action)
      /\ Len(exec.done) = MutatingBefore(exec.action, exec.at)
  BY <1>1 DEF ReleaseInv, MayRun
<1>6. Undone'
  <2>1. SUFFICES ASSUME exec.action = "apply", NEW i \in {4, 5, 6}, i < exec.at
                 PROVE  i <= First("apply") + Len(exec.done) - 1
    BY <1>1, <1>3 DEF Undone, Compensated, First, Mutating, ReleaseShape, Execution
  <2>2. exec.at \in 1..8  BY <1>1 DEF ReleaseShape, Execution
  <2> QED  BY <1>5, <2>1, <2>2 DEF MutatingBefore, First, Mutating
<1> QED
  BY <1>2, <1>3, <1>4, <1>5, <1>6 DEF ReleaseInv, SuccessIsWhole, DoneInOrder

LEMMA BeginReleaseKeeps ==
    ASSUME ReleaseInv, NEW action \in {"apply", "rollback"}, NEW compensate \in BOOLEAN,
           BeginRelease(action, compensate)
    PROVE  ReleaseInv'
<1>1. /\ ReleaseShape /\ ExpandFirst /\ live' = live /\ trouble' = trouble
      /\ releases' = releases + 1 /\ releases < MaxReleases
      /\ exec' = [action |-> action, compensate |-> compensate, phase |-> "steps",
                  at |-> 1, next |-> 1, done |-> << >>, failed |-> 0]
  BY DEF BeginRelease, NoExec, ReleaseInv
<1>2. ReleaseShape'
  <2>1. exec' \in Execution  BY <1>1 DEF Execution, ExecPhases
  <2>2. releases' \in 0..MaxReleases  BY <1>1, ReleaseAssumption DEF ReleaseShape
  <2> QED  BY <1>1, <2>1, <2>2 DEF ReleaseShape
<1>3. /\ Len(exec'.done) = 0 /\ exec'.at = 1 /\ exec'.next = 1
      /\ exec'.phase = "steps" /\ exec'.action = action
  BY <1>1
<1>4. DoneInOrder' /\ Applied' /\ RolledBack'
  BY <1>3 DEF DoneInOrder, Applied, RolledBack
<1> QED
  BY <1>1, <1>2, <1>3, <1>4
  DEF ReleaseInv, ExpandFirst, MutatingBefore, First, Mutating, SuccessIsWhole

\* The step that is being undone, and what undoes it.
LEMMA UndoOfStep ==
    ASSUME ReleaseInv, exec.phase = "undo", exec.done # << >>
    PROVE  /\ exec.next \in 1..3
           /\ Len(exec.done) \in 1..Mutating(exec.action)
           /\ Undoing = First(exec.action) + Len(exec.done) - 1
           /\ Undoing \in 2..6 /\ (exec.action = "apply" => Undoing \in 3..6)
           /\ exec.action = "rollback" => Steps[Undoing].undo = << >>
           /\ exec.action = "apply" => Steps[Undoing].undo = ApplySteps[Undoing].undo
<1>1. /\ exec.done \in Seq(1..8) /\ exec.next \in 1..3
      /\ exec.action \in {"apply", "rollback"}
      /\ DoneInOrder /\ Len(exec.done) <= Mutating(exec.action)
  BY DEF ReleaseInv, ReleaseShape, Execution
<1>2. Len(exec.done) \in 1..Mutating(exec.action)
  BY <1>1 DEF Mutating
<1>3. Undoing = First(exec.action) + Len(exec.done) - 1
  BY <1>1, <1>2 DEF DoneInOrder, Undoing, Mutating
<1>6. /\ exec.action = "apply" => Undoing \in 3..6
      /\ exec.action = "rollback" => Undoing \in 2..4
  <2>1. PICK n \in Nat : n = Len(exec.done)  BY <1>1
  <2>2. CASE exec.action = "apply"
    <3>1. n \in 1..4 /\ Undoing = 3 + n - 1
      BY <1>2, <1>3, <2>1, <2>2 DEF First, Mutating
    <3> QED  BY <2>2, <3>1
  <2>3. CASE exec.action = "rollback"
    <3>1. n \in 1..3 /\ Undoing = 2 + n - 1
      BY <1>2, <1>3, <2>1, <2>3 DEF First, Mutating
    <3> QED  BY <2>3, <3>1
  <2> QED  BY <1>1, <2>2, <2>3
<1>4. exec.action = "rollback" => Steps[Undoing].undo = << >>
  <2>1. Undoing \in 1..5 => RollbackSteps[Undoing].undo = << >>  BY RollbackPlan
  <2> QED  BY <1>6, <2>1 DEF Steps, Plan
<1>5. exec.action = "apply" => Steps[Undoing].undo = ApplySteps[Undoing].undo
  BY DEF Steps, Plan
<1> QED  BY <1>1, <1>2, <1>3, <1>4, <1>5, <1>6

UndoDoes(i, c, x) ==
    /\ c = 1
    /\ \/ i = 4 /\ x = Deploy("api", "previous")
       \/ i = 5 /\ x = Deploy("console", "previous")
       \/ i = 6 /\ x = Deploy("worker", "previous")

LEMMA UndoTable ==
    ASSUME NEW i \in 3..6, NEW c \in 1..3, c <= Len(ApplySteps[i].undo),
           NEW x, x = ApplySteps[i].undo[c]
    PROVE  UndoDoes(i, c, x)
<1> USE ApplyPlan DEF UndoDoes
<1>1. CASE i = 3  BY <1>1
<1>2. CASE i = 4  BY <1>2
<1>3. CASE i = 5  BY <1>3
<1>4. CASE i = 6  BY <1>4
<1> QED  BY <1>1, <1>2, <1>3, <1>4

\* A command of a compensation takes the part of its step back.
LEMMA UndoCommand ==
    ASSUME ReleaseInv, exec.phase = "undo", exec.done # << >>,
           exec.next <= Len(Steps[Undoing].undo),
           live' = live \/ live' = After(Steps[Undoing].undo[exec.next])
    PROVE  /\ exec.action = "apply" /\ exec.next = 1 /\ Undoing \in 4..6
           /\ live' \in [Parts -> Versions] /\ ExpandFirst'
           /\ \A p \in Parts : live[p] = "previous" => live'[p] = "previous"
           /\ live' = After(Steps[Undoing].undo[exec.next]) =>
                 /\ Undoing = 4 => live'["api"] = "previous"
                 /\ Undoing = 5 => live'["console"] = "previous"
                 /\ Undoing = 6 => live'["worker"] = "previous"
<1>1. /\ live \in [Parts -> Versions] /\ ExpandFirst
      /\ exec.action \in {"apply", "rollback"}
  BY DEF ReleaseInv, ReleaseShape, Execution
<1>2. /\ exec.next \in 1..3 /\ Len(exec.done) \in 1..Mutating(exec.action)
      /\ Undoing = First(exec.action) + Len(exec.done) - 1
  BY UndoOfStep
<1>3. exec.action = "apply" /\ exec.next <= Len(ApplySteps[Undoing].undo)
  BY <1>1, <1>2, UndoOfStep
<1>4. Undoing \in 3..6  BY <1>3, UndoOfStep
<1>5. UndoDoes(Undoing, exec.next, ApplySteps[Undoing].undo[exec.next])
  BY <1>2, <1>3, <1>4, UndoTable
<1>6. /\ "api" \in Parts /\ "console" \in Parts /\ "worker" \in Parts
      /\ "previous" \in Versions /\ "schema" \in Parts
  BY DEF Parts, Versions
<1>7. ASSUME NEW p \in {"api", "console", "worker"}, live' = [live EXCEPT ![p] = "previous"]
      PROVE  /\ live' \in [Parts -> Versions] /\ ExpandFirst' /\ live'[p] = "previous"
             /\ \A q \in Parts : live[q] = "previous" => live'[q] = "previous"
  BY <1>1, <1>6, <1>7 DEF ExpandFirst
<1>8. CASE live' = After(Steps[Undoing].undo[exec.next])
  <2>1. Steps[Undoing].undo[exec.next] = ApplySteps[Undoing].undo[exec.next]
    BY <1>3, UndoOfStep
  <2>2. CASE Undoing = 4
    <3>1. live' = [live EXCEPT !["api"] = "previous"]
      BY <1>5, <1>6, <1>8, <2>1, <2>2, Afterwards DEF UndoDoes
    <3> QED  BY <1>3, <1>5, <1>7, <2>2, <3>1 DEF UndoDoes
  <2>3. CASE Undoing = 5
    <3>1. live' = [live EXCEPT !["console"] = "previous"]
      BY <1>5, <1>6, <1>8, <2>1, <2>3, Afterwards DEF UndoDoes
    <3> QED  BY <1>3, <1>5, <1>7, <2>3, <3>1 DEF UndoDoes
  <2>4. CASE Undoing = 6
    <3>1. live' = [live EXCEPT !["worker"] = "previous"]
      BY <1>5, <1>6, <1>8, <2>1, <2>4, Afterwards DEF UndoDoes
    <3> QED  BY <1>3, <1>5, <1>7, <2>4, <3>1 DEF UndoDoes
  <2> QED  BY <1>5, <2>2, <2>3, <2>4 DEF UndoDoes
<1>9. CASE live' = live /\ live' # After(Steps[Undoing].undo[exec.next])
  BY <1>1, <1>3, <1>5, <1>9 DEF ExpandFirst, UndoDoes
<1> QED  BY <1>8, <1>9

LEMMA RunUndoKeeps == ASSUME ReleaseInv, RunUndo PROVE ReleaseInv'
<1>1. /\ exec.phase = "undo" /\ exec.done # << >>
      /\ exec.next <= Len(Steps[Undoing].undo)
      /\ live' = After(Steps[Undoing].undo[exec.next])
      /\ exec' = [exec EXCEPT !.next = @ + 1] /\ UNCHANGED <<releases, trouble>>
  BY DEF RunUndo
<1>2. /\ exec.action = "apply" /\ exec.next = 1 /\ Undoing \in 4..6
      /\ live' \in [Parts -> Versions] /\ ExpandFirst'
      /\ \A p \in Parts : live[p] = "previous" => live'[p] = "previous"
      /\ Undoing = 4 => live'["api"] = "previous"
      /\ Undoing = 5 => live'["console"] = "previous"
      /\ Undoing = 6 => live'["worker"] = "previous"
  BY <1>1, UndoCommand
<1>3. Undoing = First("apply") + Len(exec.done) - 1  BY <1>1, <1>2, UndoOfStep
<1>4. ReleaseShape /\ exec \in Execution /\ 2 \in 1..3  BY DEF ReleaseInv, ReleaseShape
<1>5. /\ exec' = [exec EXCEPT !.next = 2] /\ exec' \in Execution
      /\ exec'.phase = "undo" /\ exec'.action = "apply" /\ exec'.done = exec.done
      /\ exec'.next = 2 /\ exec'.failed = exec.failed /\ exec'.at = exec.at
  BY <1>1, <1>2, <1>4 DEF Execution
<1>6. ReleaseShape'  BY <1>1, <1>2, <1>4, <1>5 DEF ReleaseShape
<1>7. Undone'
  <2>1. Undone  BY <1>1 DEF ReleaseInv
  <2>2. "api" \in Parts /\ "console" \in Parts /\ "worker" \in Parts  BY DEF Parts
  <2>3. exec.failed \in Nat /\ Len(exec.done) \in Nat  BY <1>4 DEF Execution
  <2> QED
    BY <1>2, <1>3, <1>5, <2>1, <2>2, <2>3 DEF Undone, Compensated
<1> QED
  BY <1>2, <1>5, <1>6, <1>7 DEF ReleaseInv, DoneInOrder, SuccessIsWhole

LEMMA UndoNextKeeps == ASSUME ReleaseInv, UndoNext PROVE ReleaseInv'
<1>1. /\ exec.phase = "undo" /\ exec.done # << >>
      /\ exec.next > Len(Steps[Undoing].undo)
      /\ exec' = [exec EXCEPT !.next = 1, !.done = SubSeq(exec.done, 1, Len(exec.done) - 1)]
      /\ UNCHANGED <<live, releases, trouble>>
  BY DEF UndoNext
<1>2. /\ ReleaseShape /\ ExpandFirst /\ exec \in Execution /\ 1 \in 1..3
      /\ exec.done \in Seq(1..8) /\ DoneInOrder /\ Undone
      /\ exec.action \in {"apply", "rollback"}
      /\ exec.failed \in Nat /\ exec.next \in 1..3
      /\ Len(exec.done) <= Mutating(exec.action)
  BY <1>1 DEF ReleaseInv, ReleaseShape, Execution
<1>3. PICK n \in Nat : n + 1 = Len(exec.done)
  <2>1. Len(exec.done) \in Nat /\ Len(exec.done) # 0  BY <1>1, <1>2
  <2> QED  BY <2>1
<1>4. PICK done \in Seq(1..8) : done = SubSeq(exec.done, 1, Len(exec.done) - 1)
  <2>1. Len(exec.done) - 1 = n /\ n <= Len(exec.done)  BY <1>2, <1>3
  <2>2. \A i \in 1..n : exec.done[i] \in 1..8  BY <1>2, <1>3
  <2>3. SubSeq(exec.done, 1, n) \in Seq(1..8)
    BY <1>2, <1>3, <2>1, <2>2, SubSeqProperties
  <2> QED  BY <2>1, <2>3
<1>5. Len(done) = n /\ \A i \in 1..n : done[i] = exec.done[i]
  BY <1>2, <1>3, <1>4
<1>6. /\ exec' \in Execution /\ exec'.phase = "undo" /\ exec'.action = exec.action
      /\ exec'.done = done /\ exec'.next = 1 /\ exec'.failed = exec.failed
      /\ exec'.at = exec.at
  <2>1. exec' = [exec EXCEPT !.next = 1, !.done = done]  BY <1>1, <1>4
  <2> QED  BY <1>1, <1>2, <2>1 DEF Execution
<1>7. ReleaseShape'  BY <1>1, <1>2, <1>6 DEF ReleaseShape
<1>8. DoneInOrder' /\ Len(exec'.done) <= Mutating(exec'.action)
  <2>1. Mutating(exec.action) \in Nat  BY DEF Mutating
  <2> QED  BY <1>2, <1>3, <1>5, <1>6, <2>1 DEF DoneInOrder
<1>9. Undone'
  <2> SUFFICES ASSUME exec.action = "apply" PROVE Undone'
    BY <1>6 DEF Undone
  <2>1. Undoing = n + 3 /\ Undoing \in 3..6
    BY <1>1, <1>3, UndoOfStep DEF First
  <2>2. Len(ApplySteps[Undoing].undo) = IF Undoing = 3 THEN 0 ELSE 1
    <3>1. CASE Undoing = 3  BY <3>1, ApplyPlan
    <3>2. CASE Undoing = 4  BY <3>2, ApplyPlan
    <3>3. CASE Undoing = 5  BY <3>3, ApplyPlan
    <3>4. CASE Undoing = 6  BY <3>4, ApplyPlan
    <3> QED  BY <2>1, <3>1, <3>2, <3>3, <3>4
  <2>3. Undoing > 3 => exec.next > 1
    BY <1>1, <2>1, <2>2, UndoOfStep
  <2> QED
    BY <1>1, <1>2, <1>3, <1>5, <1>6, <2>1, <2>3 DEF Undone, Compensated, First
<1> QED
  BY <1>1, <1>2, <1>6, <1>7, <1>8, <1>9 DEF ReleaseInv, ExpandFirst, SuccessIsWhole

\* The execution ends, or is lost; what is deployed may still change by the
\* command that failed.
LEMMA ReleaseEnds ==
    ASSUME ReleaseInv, NEW phase \in {"compensated", "lost"},
           exec' = [exec EXCEPT !.phase = phase],
           live' \in [Parts -> Versions], ExpandFirst',
           releases' = releases, trouble' \in 0..MaxCommandFaults,
           phase = "compensated" =>
              exec.phase = "undo" /\ exec.done = << >> /\ live' = live
    PROVE  ReleaseInv'
<1>1. ReleaseShape /\ exec \in Execution /\ phase \in ExecPhases
  BY DEF ReleaseInv, ReleaseShape, ExecPhases
<1>2. /\ exec' \in Execution /\ exec'.phase = phase /\ exec'.done = exec.done
      /\ exec'.action = exec.action /\ exec'.failed = exec.failed
      /\ exec'.next = exec.next /\ exec'.at = exec.at
  BY <1>1 DEF Execution
<1>3. ReleaseShape'  BY <1>1, <1>2 DEF ReleaseShape
<1>4. phase = "compensated" => Undone'
  BY <1>2 DEF ReleaseInv, Undone, Compensated
<1> QED
  BY <1>2, <1>3, <1>4 DEF ReleaseInv, DoneInOrder, SuccessIsWhole

LEMMA ReleaseStep == ReleaseInv /\ [ReleaseNext]_releaseVars => ReleaseInv'
<1> SUFFICES ASSUME ReleaseInv, [ReleaseNext]_releaseVars PROVE ReleaseInv'
  OBVIOUS
<1> USE DEF ReleaseNext
<1>1. ASSUME NEW action \in {"apply", "rollback"}, NEW compensate \in BOOLEAN,
             BeginRelease(action, compensate)
      PROVE  ReleaseInv'
  BY <1>1, BeginReleaseKeeps
<1>2. CASE RunCommand    BY <1>2, RunCommandKeeps
<1>3. CASE StepSucceeds  BY <1>3, StepSucceedsKeeps
<1>4. ASSUME NEW effect \in BOOLEAN, CommandFails(effect) PROVE ReleaseInv'
  BY <1>4, CommandFailsKeeps
<1>5. CASE RunUndo   BY <1>5, RunUndoKeeps
<1>6. CASE UndoNext  BY <1>6, UndoNextKeeps
<1>7. /\ live \in [Parts -> Versions] /\ ExpandFirst
      /\ trouble \in 0..MaxCommandFaults /\ MaxCommandFaults \in Nat
  BY ReleaseAssumption DEF ReleaseInv, ReleaseShape
<1>8. CASE UndoEnds
  <2>1. /\ exec' = [exec EXCEPT !.phase = "compensated"] /\ exec.phase = "undo"
        /\ exec.done = << >> /\ UNCHANGED <<live, releases, trouble>>
    BY <1>8 DEF UndoEnds
  <2> QED  BY <1>7, <2>1, ReleaseEnds DEF ExpandFirst
<1>9. ASSUME NEW effect \in BOOLEAN, UndoFails(effect) PROVE ReleaseInv'
  <2>1. /\ exec' = [exec EXCEPT !.phase = "lost"] /\ releases' = releases
        /\ trouble' = trouble + 1 /\ trouble < MaxCommandFaults
        /\ exec.phase = "undo" /\ exec.done # << >>
        /\ exec.next <= Len(Steps[Undoing].undo)
        /\ live' = live \/ live' = After(Steps[Undoing].undo[exec.next])
    BY <1>9 DEF UndoFails
  <2>2. live' \in [Parts -> Versions] /\ ExpandFirst'  BY <2>1, UndoCommand
  <2>3. trouble' \in 0..MaxCommandFaults  BY <1>7, <2>1
  <2> QED  BY <2>1, <2>2, <2>3, ReleaseEnds
<1>10. CASE Killed
  <2>1. /\ exec' = [exec EXCEPT !.phase = "lost"] /\ UNCHANGED <<live, releases>>
        /\ trouble' = trouble + 1 /\ trouble < MaxCommandFaults
    BY <1>10 DEF Killed
  <2>2. trouble' \in 0..MaxCommandFaults  BY <1>7, <2>1
  <2> QED  BY <1>7, <2>1, <2>2, ReleaseEnds DEF ExpandFirst
<1>11. CASE UNCHANGED releaseVars
  BY <1>11 DEF releaseVars, ReleaseInv, ReleaseShape, ExpandFirst, DoneInOrder, Applied,
     RolledBack, SuccessIsWhole, Undone, Compensated
<1> QED
  BY <1>1, <1>2, <1>3, <1>4, <1>5, <1>6, <1>8, <1>9, <1>10, <1>11

\* What compensation leaves of the steps before the failed one.
LEMMA UndoneIsBack == ReleaseInv => CompensatedBack
<1> SUFFICES ASSUME ReleaseInv, exec.phase = "compensated",
                    NEW i \in 1..(exec.failed - 1), NEW u \in 1..Len(Steps[i].undo)
             PROVE  live[Steps[i].undo[u].part] = "previous"
  BY DEF CompensatedBack
<1>1. /\ ReleaseShape /\ Undone /\ exec.done = << >> /\ exec.failed \in 0..8
      /\ exec.action \in {"apply", "rollback"}
      /\ exec.action = "rollback" => exec.failed <= 5
  BY DEF ReleaseInv, ReleaseShape, Execution
<1>2. exec.action = "apply"
  <2>1. i \in 1..5 => RollbackSteps[i].undo = << >>  BY RollbackPlan
  <2> QED  BY <1>1, <2>1 DEF Steps, Plan
<1>3. Steps[i] = ApplySteps[i] /\ i \in 1..7  BY <1>1, <1>2 DEF Steps, Plan
<1>4. /\ 4 < exec.failed => live["api"] = "previous"
      /\ 5 < exec.failed => live["console"] = "previous"
      /\ 6 < exec.failed => live["worker"] = "previous"
  BY <1>1, <1>2 DEF Undone, Compensated, First
<1>5. CASE i \in {1, 2, 3, 7}  BY <1>3, <1>5, ApplyPlan
<1>6. CASE i = 4  BY <1>1, <1>3, <1>4, <1>6, ApplyPlan DEF Deploy
<1>7. CASE i = 5  BY <1>1, <1>3, <1>4, <1>7, ApplyPlan DEF Deploy
<1>8. CASE i = 6  BY <1>1, <1>3, <1>4, <1>8, ApplyPlan DEF Deploy
<1> QED  BY <1>3, <1>5, <1>6, <1>7, <1>8

\* An operator may start as many executions as there are, apply or roll back, and
\* whatever command fails, whoever kills the process and however it is
\* compensated, the API and the worker never run on a schema they do not know, a
\* success is whole, and what is reported as compensated is back (applySteps
\* expands first, the executor remembers what it has changed).
THEOREM ReleaseIsSafe == ReleaseSpec => []ReleaseSafe
<1>1. ReleaseInv => ReleaseSafe
  BY UndoneIsBack DEF ReleaseInv, ReleaseSafe
<1> QED  BY <1>1, ReleaseInitInv, ReleaseStep, PTL DEF ReleaseSpec

(* The rehearsal of a restore *)

RehearsalRecord ==
    [step : Range(RestoreSteps) \union {"none"}, handled : 0..3,
     states : SUBSET Kinds, records : Seq(Records), failed : BOOLEAN,
     since : 0..MaxClockTicks, root : BOOLEAN, outcome : Outcomes,
     residual : {0, 1}]

RestoreShape ==
    /\ checkout \in [Kinds -> {"good", "bad"}]
    /\ temp \in {NoTemp} \union [Kinds -> {"absent", "good", "bad"}]
    /\ rehearsal \in RehearsalRecord
    /\ time \in 0..MaxClockTicks /\ slips \in 0..MaxIoFaults

Status(failed) == IF failed THEN "failed" ELSE "succeeded"

\* The evidence of the first n steps, in the plan's order: all of them, or all
\* but the last, succeeded.
Evidence(records, n, last) ==
    /\ Len(records) = n
    /\ \A i \in 1..n :
          /\ records[i].id = RestoreSteps[i]
          /\ records[i].status = IF i = n THEN last ELSE "succeeded"

\* Until the rehearsal ends (or forever, when it is killed) its evidence is that
\* of the steps before the active one; one that failed is in its cleanup.
UnderWay ==
    LET n == Len(rehearsal.records) IN
    /\ n \in 0..4 /\ Evidence(rehearsal.records, n, Status(rehearsal.failed))
    /\ rehearsal.failed => n > 0 /\ rehearsal.step = "cleanup"
    /\ ~rehearsal.failed =>
          IF rehearsal.step = "none" THEN n = 0 ELSE rehearsal.step = RestoreSteps[n + 1]
    /\ ~rehearsal.failed /\ rehearsal.step = "cleanup" => rehearsal.states = Kinds
    /\ rehearsal.step \in {"none", "snapshot-preflight"} => ~rehearsal.root

RestoreInv ==
    /\ RestoreShape /\ RestoreSafe
    /\ rehearsal.since <= MaxAge
    /\ rehearsal.step = "none" => rehearsal.outcome = "none"
    /\ temp # NoTemp => rehearsal.root
    /\ rehearsal.root =>
          /\ Len(rehearsal.records) >= 1
          /\ rehearsal.records[1] = [id |-> "snapshot-preflight", status |-> "succeeded"]
    /\ rehearsal.outcome \in {"none", "killed"} => UnderWay

LEMMA NoTempIsNone == \A t \in [Kinds -> {"absent", "good", "bad"}] : t # NoTemp
<1> SUFFICES ASSUME NEW t \in [Kinds -> {"absent", "good", "bad"}] PROVE t # NoTemp
  OBVIOUS
<1>1. "worker" \in DOMAIN t /\ "worker" \notin DOMAIN NoTemp  BY DEF Kinds, NoTemp
<1> QED  BY <1>1

LEMMA RestoreStepsAre ==
    /\ RestoreSteps[1] = "snapshot-preflight" /\ RestoreSteps[2] = "restore"
    /\ RestoreSteps[3] = "startup-gate" /\ RestoreSteps[4] = "reconciliation"
    /\ RestoreSteps[5] = "cleanup" /\ Len(RestoreSteps) = 5
    /\ Range(RestoreSteps) = {"snapshot-preflight", "restore", "startup-gate",
                              "reconciliation", "cleanup"}
<1>1. /\ RestoreSteps[1] = "snapshot-preflight" /\ RestoreSteps[2] = "restore"
      /\ RestoreSteps[3] = "startup-gate" /\ RestoreSteps[4] = "reconciliation"
      /\ RestoreSteps[5] = "cleanup" /\ Len(RestoreSteps) = 5
      /\ DOMAIN RestoreSteps = 1..5
  BY DEF RestoreSteps
<1> QED  BY <1>1 DEF Range

LEMMA RestoreInitInv == RestoreInit => RestoreInv
<1> SUFFICES ASSUME RestoreInit PROVE RestoreInv
  OBVIOUS
<1>1. RestoreShape
  <2>1. rehearsal \in RehearsalRecord
    BY RestoreAssumption DEF RestoreInit, IdleRehearsal, RehearsalRecord, Outcomes
  <2> QED  BY <2>1, RestoreAssumption DEF RestoreInit, RestoreShape
<1> QED
  BY <1>1, RestoreAssumption
  DEF RestoreInv, RestoreInit, IdleRehearsal, RestoreSafe, CompletedIsWhole,
      CleanupLast, VerifiedBeforeWritten, UnderWay, Evidence, Status

\* One more record: that of the step after those recorded so far.
LEMMA EvidenceGrows ==
    ASSUME NEW records \in Seq(Records), NEW n \in 0..4, Evidence(records, n, "succeeded"),
           NEW status \in {"failed", "succeeded"}
    PROVE  LET new == [id |-> RestoreSteps[n + 1], status |-> status]
               more == Append(records, new) IN
           /\ more \in Seq(Records) /\ Evidence(more, n + 1, status)
           /\ \A i \in 1..n : more[i] = records[i]
           /\ more[n + 1] = new
<1> DEFINE more == Append(records, [id |-> RestoreSteps[n + 1], status |-> status])
<1>1. [id |-> RestoreSteps[n + 1], status |-> status] \in Records
  <2>1. RestoreSteps[n + 1] \in Range(RestoreSteps)
    BY RestoreStepsAre
  <2> QED  BY <2>1 DEF Records
<1>2. Len(records) = n  BY DEF Evidence
<1>3. /\ more \in Seq(Records) /\ Len(more) = n + 1
      /\ \A i \in 1..n : more[i] = records[i]
      /\ more[n + 1] = [id |-> RestoreSteps[n + 1], status |-> status]
  BY <1>1, <1>2
<1> HIDE DEF more
<1>4. ASSUME NEW i \in 1..(n + 1)
      PROVE  /\ more[i].id = RestoreSteps[i]
             /\ more[i].status = IF i = n + 1 THEN status ELSE "succeeded"
  <2>1. CASE i = n + 1  BY <1>3, <2>1
  <2>2. CASE i # n + 1
    <3>1. i \in 1..n  BY <2>2
    <3> QED  BY <1>3, <2>2, <3>1 DEF Evidence
  <2> QED  BY <2>1, <2>2
<1>5. Evidence(more, n + 1, status)  BY <1>3, <1>4 DEF Evidence
<1> QED  BY <1>3, <1>5 DEF more

\* Before anything failed, the evidence is that of the steps before this one.
LEMMA StepsSoFar ==
    ASSUME RestoreInv, rehearsal.outcome = "none", ~rehearsal.failed
    PROVE  \E n \in 0..4 :
              /\ Len(rehearsal.records) = n
              /\ Evidence(rehearsal.records, n, "succeeded")
              /\ rehearsal.step = "none" => n = 0
              /\ rehearsal.step # "none" => rehearsal.step = RestoreSteps[n + 1]
<1>1. UnderWay  BY DEF RestoreInv
<1>2. Status(rehearsal.failed) = "succeeded"  BY DEF Status
<1> QED  BY <1>1, <1>2 DEF UnderWay

\* A step before the cleanup ends, well or badly.
Ends(failed, since) ==
    LET step == IF failed THEN "cleanup" ELSE RestoreSteps[Len(rehearsal.records) + 2]
        status == Status(failed) IN
    /\ rehearsal.outcome = "none" /\ rehearsal.step \notin {"none", "cleanup"}
    /\ since \in 0..MaxClockTicks /\ since <= MaxAge
    /\ rehearsal.step = "reconciliation" /\ ~failed => rehearsal.states = Kinds
    /\ rehearsal' = [rehearsal EXCEPT
                       !.records = Append(rehearsal.records,
                                          [id |-> rehearsal.step, status |-> status]),
                       !.step = step, !.handled = 0, !.failed = failed, !.since = since]
    /\ UNCHANGED <<checkout, temp>>
    /\ time' \in 0..MaxClockTicks /\ slips' \in 0..MaxIoFaults

LEMMA EndsKeeps ==
    ASSUME RestoreInv, NEW failed \in BOOLEAN, NEW since, Ends(failed, since)
    PROVE  RestoreInv'
<1>1. /\ UnderWay /\ RestoreShape /\ rehearsal \in RehearsalRecord
      /\ rehearsal.outcome = "none"
  BY DEF RestoreInv, RestoreShape, Ends
<1>2. PICK n \in 0..3 : /\ Len(rehearsal.records) = n /\ ~rehearsal.failed
                        /\ rehearsal.step = RestoreSteps[n + 1]
                        /\ Evidence(rehearsal.records, n, "succeeded")
  <2>1. ~rehearsal.failed  BY <1>1 DEF UnderWay, Ends
  <2>2. PICK n \in 0..4 : /\ Len(rehearsal.records) = n
                          /\ Evidence(rehearsal.records, n, "succeeded")
                          /\ rehearsal.step = RestoreSteps[n + 1]
    BY <2>1, StepsSoFar DEF Ends
  <2>3. n # 4
    <3>1. n = 4 => n + 1 = 5  OBVIOUS
    <3> QED  BY <2>2, <3>1, RestoreStepsAre DEF Ends
  <2>4. n \in 0..3  BY <2>2, <2>3
  <2> QED  BY <2>1, <2>2, <2>4
<1>3. PICK status \in {"failed", "succeeded"} : status = Status(failed)
  BY DEF Status
<1>4. PICK more \in Seq(Records) :
         /\ more = Append(rehearsal.records, [id |-> RestoreSteps[n + 1], status |-> status])
         /\ Evidence(more, n + 1, status)
         /\ \A i \in 1..n : more[i] = rehearsal.records[i]
         /\ more[n + 1] = [id |-> RestoreSteps[n + 1], status |-> status]
  <2>1. rehearsal.records \in Seq(Records) /\ n \in 0..4
    BY <1>1, <1>2 DEF RehearsalRecord
  <2> DEFINE new == Append(rehearsal.records,
                           [id |-> RestoreSteps[n + 1], status |-> status])
  <2>2. /\ new \in Seq(Records) /\ Evidence(new, n + 1, status)
        /\ \A i \in 1..n : new[i] = rehearsal.records[i]
        /\ new[n + 1] = [id |-> RestoreSteps[n + 1], status |-> status]
    BY <1>2, <1>3, <2>1, EvidenceGrows
  <2>3. new = Append(rehearsal.records, [id |-> RestoreSteps[n + 1], status |-> status])
    OBVIOUS
  <2> HIDE DEF new
  <2> QED  BY <2>2, <2>3
<1>5. PICK step \in Range(RestoreSteps) :
         step = IF failed THEN "cleanup" ELSE RestoreSteps[n + 2]
  BY <1>2, RestoreStepsAre
<1>6. /\ rehearsal' = [rehearsal EXCEPT !.records = more, !.step = step, !.handled = 0,
                                        !.failed = failed, !.since = since]
      /\ since \in 0..MaxClockTicks /\ since <= MaxAge /\ 0 \in 0..3
      /\ UNCHANGED <<checkout, temp>>
      /\ time' \in 0..MaxClockTicks /\ slips' \in 0..MaxIoFaults
  BY <1>2, <1>3, <1>4, <1>5 DEF Ends
<1>7. /\ rehearsal' \in RehearsalRecord /\ rehearsal'.records = more
      /\ rehearsal'.step = step /\ rehearsal'.failed = failed
      /\ rehearsal'.since = since /\ rehearsal'.outcome = "none"
      /\ rehearsal'.states = rehearsal.states /\ rehearsal'.root = rehearsal.root
  BY <1>1, <1>5, <1>6 DEF RehearsalRecord
<1>8. RestoreShape'  BY <1>1, <1>6, <1>7 DEF RestoreShape
<1>9. Len(more) = n + 1  BY <1>4 DEF Evidence
<1>10. UnderWay'
  <2>1. n + 1 \in 0..4 /\ (n + 1) + 1 = n + 2  BY <1>2
  <2>2. step \notin {"none", "snapshot-preflight"}
    BY <1>2, <1>5, RestoreStepsAre
  <2>3. ~failed /\ step = "cleanup" => rehearsal.states = Kinds
    BY <1>2, <1>5, RestoreStepsAre DEF Ends
  <2> QED
    BY <1>3, <1>4, <1>5, <1>7, <1>9, <2>1, <2>2, <2>3 DEF UnderWay
<1>11. rehearsal.root => /\ n >= 1 /\ Len(more) >= 1
                         /\ more[1] = [id |-> "snapshot-preflight", status |-> "succeeded"]
  BY <1>2, <1>4, <1>9 DEF RestoreInv
<1> QED
  BY <1>6, <1>7, <1>8, <1>10, <1>11
  DEF RestoreInv, RestoreSafe, CompletedIsWhole, CleanupLast, VerifiedBeforeWritten

\* A step goes on: what it is through with, or has made, changes.
LEMMA GoesOn ==
    ASSUME RestoreInv, rehearsal.outcome = "none", ~rehearsal.failed,
           NEW handled \in 0..3, NEW states \in SUBSET Kinds, NEW root \in BOOLEAN,
           rehearsal.step # "cleanup", rehearsal.root => root,
           rehearsal.step \in {"none", "snapshot-preflight"} => ~root,
           root /\ ~rehearsal.root => rehearsal.step = "restore",
           rehearsal' = [rehearsal EXCEPT !.handled = handled, !.states = states,
                                          !.root = root],
           temp' = temp \/ (root /\ temp' \in [Kinds -> {"absent", "good", "bad"}]),
           UNCHANGED <<checkout, time, slips>>
    PROVE  RestoreInv'
<1>1. RestoreShape /\ rehearsal \in RehearsalRecord /\ UnderWay
  BY DEF RestoreInv, RestoreShape
<1>2. /\ rehearsal' \in RehearsalRecord /\ rehearsal'.records = rehearsal.records
      /\ rehearsal'.step = rehearsal.step /\ rehearsal'.failed = rehearsal.failed
      /\ rehearsal'.since = rehearsal.since /\ rehearsal'.outcome = "none"
      /\ rehearsal'.states = states /\ rehearsal'.root = root
  BY <1>1 DEF RehearsalRecord
<1>3. RestoreShape'  BY <1>1, <1>2 DEF RestoreShape
<1>4. UnderWay'  BY <1>1, <1>2 DEF UnderWay
<1>5. root => /\ Len(rehearsal.records) >= 1
              /\ rehearsal.records[1] = [id |-> "snapshot-preflight", status |-> "succeeded"]
  <2>1. CASE rehearsal.root  BY <2>1 DEF RestoreInv
  <2>2. CASE root /\ ~rehearsal.root
    <3>1. PICK n \in 0..4 : /\ Len(rehearsal.records) = n
                            /\ Evidence(rehearsal.records, n, "succeeded")
                            /\ rehearsal.step = RestoreSteps[n + 1]
      BY <2>2, StepsSoFar
    <3>2. n = 1
      <4>1. n \in {0, 1, 2, 3, 4}  BY <3>1
      <4>2. /\ n = 0 => n + 1 = 1
            /\ n = 2 => n + 1 = 3
            /\ n = 3 => n + 1 = 4
            /\ n = 4 => n + 1 = 5
        OBVIOUS
      <4> QED  BY <2>2, <3>1, <4>1, <4>2, RestoreStepsAre
    <3>3. /\ rehearsal.records[1] \in Records
          /\ rehearsal.records[1].id = "snapshot-preflight"
          /\ rehearsal.records[1].status = "succeeded"
      BY <1>1, <3>1, <3>2, RestoreStepsAre DEF Evidence, RehearsalRecord
    <3> QED  BY <3>1, <3>2, <3>3 DEF Records
  <2> QED  BY <2>1, <2>2
<1>6. temp' # NoTemp => root  BY DEF RestoreInv
<1> QED
  BY <1>2, <1>3, <1>4, <1>5, <1>6
  DEF RestoreInv, RestoreSafe, CompletedIsWhole, CleanupLast, VerifiedBeforeWritten

\* A step that throws is recorded, and the cleanup is next; one that succeeds is
\* recorded, and the step after it is next.
LEMMA StepThrows ==
    ASSUME RestoreInv, rehearsal.outcome = "none",
           rehearsal.step \notin {"none", "cleanup"},
           rehearsal' = Thrown(rehearsal), UNCHANGED <<checkout, temp>>,
           time' \in 0..MaxClockTicks, slips' \in 0..MaxIoFaults
    PROVE  RestoreInv'
<1>1. /\ rehearsal \in RehearsalRecord /\ rehearsal.since <= MaxAge
      /\ rehearsal.since \in 0..MaxClockTicks
  BY DEF RestoreInv, RestoreShape, RehearsalRecord
<1>2. rehearsal' = [rehearsal EXCEPT
                      !.records = Append(rehearsal.records,
                                         [id |-> rehearsal.step, status |-> "failed"]),
                      !.step = "cleanup", !.handled = 0, !.failed = TRUE,
                      !.since = rehearsal.since]
  BY <1>1 DEF Thrown, Entering, Recorded, RehearsalRecord
<1>3. Status(TRUE) = "failed"  BY DEF Status
<1>4. Ends(TRUE, rehearsal.since)  BY <1>1, <1>2, <1>3 DEF Ends
<1> QED  BY <1>1, <1>4, EndsKeeps

LEMMA StepIsDone ==
    ASSUME RestoreInv, rehearsal.outcome = "none",
           NEW step, rehearsal.step # "none", rehearsal.step # "cleanup",
           \/ rehearsal.step = "snapshot-preflight" /\ step = "restore"
           \/ rehearsal.step = "restore" /\ step = "startup-gate"
           \/ rehearsal.step = "startup-gate" /\ step = "reconciliation"
           \/ /\ rehearsal.step = "reconciliation" /\ step = "cleanup"
              /\ rehearsal.states = Kinds,
           NEW since \in 0..MaxClockTicks, since <= MaxAge,
           rehearsal' = [Entering(Recorded(rehearsal, rehearsal.step, "succeeded"), step)
                            EXCEPT !.since = since],
           UNCHANGED <<checkout, temp, time, slips>>
    PROVE  RestoreInv'
<1>1. RestoreShape /\ rehearsal \in RehearsalRecord /\ UnderWay
  BY DEF RestoreInv, RestoreShape
<1>2. ~rehearsal.failed  BY <1>1 DEF UnderWay
<1>3. PICK n \in 0..4 : /\ Len(rehearsal.records) = n
                        /\ rehearsal.step = RestoreSteps[n + 1]
  BY <1>2, StepsSoFar
<1>4. step = RestoreSteps[n + 2]
  <2>1. n \in {0, 1, 2, 3, 4}  BY <1>3
  <2>2. /\ n = 0 => n + 1 = 1 /\ n + 2 = 2
        /\ n = 1 => n + 1 = 2 /\ n + 2 = 3
        /\ n = 2 => n + 1 = 3 /\ n + 2 = 4
        /\ n = 3 => n + 1 = 4 /\ n + 2 = 5
        /\ n = 4 => n + 1 = 5
    OBVIOUS
  <2> QED  BY <1>3, <2>1, <2>2, RestoreStepsAre
<1>5. rehearsal' = [rehearsal EXCEPT
                      !.records = Append(rehearsal.records,
                                         [id |-> rehearsal.step, status |-> "succeeded"]),
                      !.step = step, !.handled = 0, !.failed = FALSE, !.since = since]
  <2>1. rehearsal.failed = FALSE  BY <1>1, <1>2 DEF RehearsalRecord
  <2> QED  BY <1>1, <2>1 DEF Entering, Recorded, RehearsalRecord
<1>6. Status(FALSE) = "succeeded"  BY DEF Status
<1>7. time' \in 0..MaxClockTicks /\ slips' \in 0..MaxIoFaults
  BY <1>1 DEF RestoreShape
<1>8. Len(rehearsal.records) + 2 = n + 2  BY <1>3
<1>9. Ends(FALSE, since)
  BY <1>4, <1>5, <1>6, <1>7, <1>8 DEF Ends
<1> QED  BY <1>9, EndsKeeps

\* The cleanup, the last of the records, ends the rehearsal.
LEMMA CleanedKeeps ==
    ASSUME RestoreInv, Doing("cleanup"), NEW error \in BOOLEAN, NEW seen \in BOOLEAN,
           rehearsal' = Cleaned(error, seen),
           temp' = temp \/ temp' = NoTemp, temp' = NoTemp <=> ~(error \/ seen),
           UNCHANGED <<checkout, time>>, slips' \in 0..MaxIoFaults
    PROVE  RestoreInv'
<1>1. /\ RestoreShape /\ rehearsal \in RehearsalRecord /\ UnderWay
      /\ rehearsal.outcome = "none" /\ rehearsal.step = "cleanup"
  BY DEF RestoreInv, RestoreShape, Doing
<1>2. PICK status \in {"failed", "succeeded"} :
         status = IF error \/ seen THEN "failed" ELSE "succeeded"
  OBVIOUS
<1>3. PICK residual \in {0, 1} : residual = IF seen THEN 1 ELSE 0
  OBVIOUS
<1>4. PICK failed \in BOOLEAN : failed <=> rehearsal.failed \/ error \/ seen
  OBVIOUS
<1>5. PICK outcome \in {"failed", "completed"} :
         outcome = IF failed THEN "failed" ELSE "completed"
  OBVIOUS
<1>6. PICK n \in 0..4 : /\ Len(rehearsal.records) = n
                        /\ Evidence(rehearsal.records, n, Status(rehearsal.failed))
  BY <1>1 DEF UnderWay
<1>7. rehearsal.records \in Seq(Records)  BY <1>1 DEF RehearsalRecord
<1>8. PICK new \in Records : new = [id |-> "cleanup", status |-> status]
  BY RestoreStepsAre DEF Records
<1>9. PICK more \in Seq(Records) :
         /\ more = Append(rehearsal.records, new) /\ Len(more) = n + 1
         /\ more[n + 1] = new
         /\ \A i \in 1..n : more[i] = rehearsal.records[i]
  <2> DEFINE all == Append(rehearsal.records, new)
  <2>1. /\ all \in Seq(Records) /\ Len(all) = n + 1 /\ all[n + 1] = new
        /\ \A i \in 1..n : all[i] = rehearsal.records[i]
    BY <1>6, <1>7, <1>8
  <2>2. all = Append(rehearsal.records, new)  OBVIOUS
  <2> HIDE DEF all
  <2> QED  BY <2>1, <2>2
<1>10. rehearsal' = [rehearsal EXCEPT !.records = more, !.residual = residual,
                                      !.failed = failed, !.outcome = outcome]
  BY <1>1, <1>2, <1>3, <1>4, <1>5, <1>8, <1>9
  DEF Cleaned, Recorded, RehearsalRecord
<1>11. /\ rehearsal' \in RehearsalRecord /\ rehearsal'.records = more
       /\ rehearsal'.residual = residual /\ rehearsal'.outcome = outcome
       /\ rehearsal'.since = rehearsal.since /\ rehearsal'.root = rehearsal.root
       /\ rehearsal'.states = rehearsal.states /\ rehearsal'.step = "cleanup"
  BY <1>1, <1>10 DEF RehearsalRecord, Outcomes
<1>12. RestoreShape'  BY <1>1, <1>11 DEF RestoreShape
<1>13. CleanupLast'
  <2>1. ASSUME NEW i \in 1..(n + 1) PROVE more[i].id = "cleanup" <=> i = n + 1
    <3>1. CASE i = n + 1  BY <1>8, <1>9, <3>1
    <3>2. CASE i # n + 1
      <4>1. i \in 1..n /\ i \in {1, 2, 3, 4}  BY <3>2
      <4>2. more[i].id = RestoreSteps[i]  BY <1>6, <1>9, <4>1 DEF Evidence
      <4> QED  BY <3>2, <4>1, <4>2, RestoreStepsAre
    <3> QED  BY <3>1, <3>2
  <2> QED  BY <1>3, <1>4, <1>5, <1>9, <1>11, <2>1 DEF CleanupLast
<1>14. CompletedIsWhole'
  <2> SUFFICES ASSUME ~failed
               PROVE  /\ rehearsal.states = Kinds /\ rehearsal.since <= MaxAge
                      /\ more = [i \in 1..Len(RestoreSteps) |->
                                   [id |-> RestoreSteps[i], status |-> "succeeded"]]
                      /\ temp' = NoTemp
    BY <1>5, <1>11 DEF CompletedIsWhole
  <2>1. ~rehearsal.failed /\ ~error /\ ~seen  BY <1>4
  <2>2. n = 4
    <3>1. rehearsal.step = RestoreSteps[n + 1] /\ n \in {0, 1, 2, 3, 4}
      BY <1>1, <1>6, <2>1 DEF UnderWay
    <3>2. /\ n = 0 => n + 1 = 1
          /\ n = 1 => n + 1 = 2
          /\ n = 2 => n + 1 = 3
          /\ n = 3 => n + 1 = 4
      OBVIOUS
    <3> QED  BY <1>1, <3>1, <3>2, RestoreStepsAre
  <2>3. rehearsal.states = Kinds /\ rehearsal.since <= MaxAge
    BY <1>1, <2>1 DEF UnderWay, RestoreInv
  <2>4. Status(rehearsal.failed) = "succeeded" /\ status = "succeeded"
    BY <1>2, <2>1 DEF Status
  <2>5. ASSUME NEW i \in 1..5
        PROVE  more[i] = [id |-> RestoreSteps[i], status |-> "succeeded"]
    <3>1. CASE i = 5  BY <1>8, <1>9, <2>2, <2>4, <3>1, RestoreStepsAre
    <3>2. CASE i # 5
      <4>1. i \in 1..4  BY <3>2
      <4>2. /\ more[i] \in Records /\ more[i].id = RestoreSteps[i]
            /\ more[i].status = "succeeded"
        BY <1>6, <1>7, <1>9, <2>2, <2>4, <4>1 DEF Evidence
      <4> QED  BY <4>2 DEF Records
    <3> QED  BY <3>1, <3>2
  <2>6. Len(RestoreSteps) = 5 /\ Len(more) = 5  BY <1>9, <2>2, RestoreStepsAre
  <2> QED  BY <2>1, <2>3, <2>5, <2>6
<1>15. rehearsal.root => /\ n >= 1 /\ Len(more) >= 1
                         /\ more[1] = [id |-> "snapshot-preflight", status |-> "succeeded"]
  BY <1>6, <1>9 DEF RestoreInv
<1>16. temp' # NoTemp => rehearsal.root  BY DEF RestoreInv
<1>17. outcome \notin {"none", "killed"} /\ rehearsal.since <= MaxAge
  BY DEF RestoreInv
<1> QED
  BY <1>11, <1>12, <1>13, <1>14, <1>15, <1>16, <1>17
  DEF RestoreInv, RestoreSafe, VerifiedBeforeWritten

LEMMA RestoreStep == RestoreInv /\ [RestoreNext]_restoreVars => RestoreInv'
<1> SUFFICES ASSUME RestoreInv, [RestoreNext]_restoreVars PROVE RestoreInv'
  OBVIOUS
<1>1. /\ RestoreShape /\ rehearsal \in RehearsalRecord
      /\ checkout \in [Kinds -> {"good", "bad"}]
      /\ temp \in {NoTemp} \union [Kinds -> {"absent", "good", "bad"}]
      /\ time \in 0..MaxClockTicks /\ slips \in 0..MaxIoFaults
      /\ MaxClockTicks \in Nat /\ MaxIoFaults \in Nat /\ MaxAge \in Nat
      /\ rehearsal.since \in 0..MaxClockTicks /\ rehearsal.since <= MaxAge
      /\ rehearsal.handled \in 0..3 /\ rehearsal.states \in SUBSET Kinds
      /\ rehearsal.root \in BOOLEAN
      /\ rehearsal.outcome \in {"none", "killed"} => UnderWay
  BY RestoreAssumption DEF RestoreInv, RestoreShape, RehearsalRecord
<1>2. /\ Len(KindOrder) = 3 /\ \A n \in 0..2 : KindOrder[n + 1] \in Kinds
      /\ "good" \in {"absent", "good", "bad"} /\ "absent" \in {"absent", "good", "bad"}
  BY DEF KindOrder, Kinds
<1>3. ASSUME rehearsal.outcome = "none",
             rehearsal.step \in {"snapshot-preflight", "restore", "startup-gate",
                                 "reconciliation"}
      PROVE  ~rehearsal.failed
  BY <1>1, <1>3 DEF UnderWay
<1>4. CASE BeginRehearsal
  <2>1. rehearsal.step = "none" /\ rehearsal.outcome = "none" /\ UnderWay
    BY <1>1, <1>4 DEF RestoreInv, BeginRehearsal
  <2>2. /\ rehearsal' \in RehearsalRecord /\ rehearsal'.step = "snapshot-preflight"
        /\ rehearsal'.records = rehearsal.records /\ rehearsal'.outcome = "none"
        /\ rehearsal'.failed = rehearsal.failed /\ rehearsal'.since = rehearsal.since
        /\ rehearsal'.root = rehearsal.root
    <3>1. /\ rehearsal' = [rehearsal EXCEPT !.step = "snapshot-preflight", !.handled = 0]
          /\ 0 \in 0..3 /\ "snapshot-preflight" \in Range(RestoreSteps)
      BY <1>4, RestoreStepsAre DEF BeginRehearsal, Entering
    <3> QED  BY <1>1, <2>1, <3>1 DEF RehearsalRecord
  <2>3. RestoreShape'  BY <1>1, <1>4, <2>2 DEF BeginRehearsal, RestoreShape
  <2>4. ~rehearsal.failed /\ ~rehearsal.root /\ Len(rehearsal.records) = 0
    BY <2>1 DEF UnderWay
  <2>5. UnderWay'
    BY <2>1, <2>2, <2>4, RestoreStepsAre DEF UnderWay
  <2> QED
    BY <1>4, <2>1, <2>2, <2>3, <2>4, <2>5
    DEF BeginRehearsal, RestoreInv, RestoreSafe, CompletedIsWhole, CleanupLast,
        VerifiedBeforeWritten
<1>5. CASE ReadSource
  <2>1. /\ rehearsal.outcome = "none" /\ rehearsal.step = "snapshot-preflight"
        /\ rehearsal.handled < Len(KindOrder) /\ UNCHANGED <<checkout, temp, time, slips>>
        /\ rehearsal' = Thrown(rehearsal)
           \/ rehearsal' = [rehearsal EXCEPT !.handled = rehearsal.handled + 1]
    BY <1>5 DEF ReadSource, Doing
  <2>2. CASE rehearsal' = Thrown(rehearsal)  BY <1>1, <2>1, <2>2, StepThrows
  <2>3. CASE rehearsal' = [rehearsal EXCEPT !.handled = rehearsal.handled + 1]
    <3>1. rehearsal.handled + 1 \in 0..3 /\ ~rehearsal.root /\ ~rehearsal.failed
      BY <1>1, <1>2, <1>3, <2>1 DEF UnderWay
    <3>2. rehearsal' = [rehearsal EXCEPT !.handled = rehearsal.handled + 1,
                                         !.states = rehearsal.states,
                                         !.root = rehearsal.root]
      BY <1>1, <2>3 DEF RehearsalRecord
    <3> QED  BY <1>1, <2>1, <3>1, <3>2, GoesOn
  <2> QED  BY <2>1, <2>2, <2>3
<1>6. CASE PreflightEnds
  <2>1. /\ rehearsal.outcome = "none" /\ rehearsal.step = "snapshot-preflight"
        /\ UNCHANGED <<checkout, temp, time, slips>>
        /\ \/ rehearsal' = Thrown(rehearsal)
           \/ /\ ~(time > MaxAge)
              /\ rehearsal' = [Entering(Recorded(rehearsal, "snapshot-preflight",
                                                 "succeeded"), "restore")
                                 EXCEPT !.since = time]
    BY <1>6 DEF PreflightEnds, Doing
  <2>2. CASE rehearsal' = Thrown(rehearsal)  BY <1>1, <2>1, <2>2, StepThrows
  <2>3. CASE ~(time > MaxAge)
    <3>1. time <= MaxAge  BY <1>1, <2>3
    <3>2. CASE rehearsal' = [Entering(Recorded(rehearsal, "snapshot-preflight",
                                               "succeeded"), "restore")
                               EXCEPT !.since = time]
      BY <1>1, <2>1, <3>1, <3>2, StepIsDone
    <3> QED  BY <2>1, <2>2, <3>2
  <2> QED  BY <2>1, <2>2, <2>3
<1>7. CASE MakeRoot
  <2>1. /\ rehearsal.outcome = "none" /\ rehearsal.step = "restore" /\ ~rehearsal.root
        /\ temp' = [k \in Kinds |-> "absent"] /\ rehearsal' = [rehearsal EXCEPT !.root = TRUE]
        /\ UNCHANGED <<checkout, time, slips>>
    BY <1>7 DEF MakeRoot, Doing
  <2>2. rehearsal' = [rehearsal EXCEPT !.handled = rehearsal.handled,
                                       !.states = rehearsal.states, !.root = TRUE]
    BY <1>1, <2>1 DEF RehearsalRecord
  <2>3. temp' \in [Kinds -> {"absent", "good", "bad"}]  BY <1>2, <2>1
  <2>4. ~rehearsal.failed  BY <1>3, <2>1
  <2>5. PICK root \in BOOLEAN : root  OBVIOUS
  <2>6. rehearsal' = [rehearsal EXCEPT !.handled = rehearsal.handled,
                                       !.states = rehearsal.states, !.root = root]
    <3>1. root = TRUE  BY <2>5
    <3> QED  BY <2>2, <3>1
  <2>7. temp' = temp \/ (root /\ temp' \in [Kinds -> {"absent", "good", "bad"}])
    BY <2>3, <2>5
  <2>8. /\ rehearsal.step # "cleanup" /\ UNCHANGED <<checkout, time, slips>>
        /\ rehearsal.step \notin {"none", "snapshot-preflight"}
        /\ rehearsal.outcome = "none" /\ rehearsal.step = "restore"
    BY <2>1
  <2>9. /\ rehearsal.handled \in 0..3 /\ rehearsal.states \in SUBSET Kinds
        /\ rehearsal.root => root
    BY <1>1, <2>5
  <2> QED  BY <2>4, <2>6, <2>7, <2>8, <2>9, GoesOn
<1>8. CASE WriteState
  <2>1. /\ rehearsal.outcome = "none" /\ rehearsal.step = "restore" /\ rehearsal.root
        /\ rehearsal.handled < Len(KindOrder)
        /\ temp' = [temp EXCEPT ![KindOrder[rehearsal.handled + 1]] = "good"]
        /\ rehearsal' = [rehearsal EXCEPT !.handled = rehearsal.handled + 1]
        /\ UNCHANGED <<checkout, time, slips>>
    BY <1>8 DEF WriteState, Doing
  <2>2. rehearsal.handled + 1 \in 0..3 /\ ~rehearsal.failed
    BY <1>1, <1>2, <1>3, <2>1
  <2>3. rehearsal' = [rehearsal EXCEPT !.handled = rehearsal.handled + 1,
                                       !.states = rehearsal.states,
                                       !.root = rehearsal.root]
    BY <1>1, <2>1 DEF RehearsalRecord
  <2>4. \/ temp' = temp
        \/ rehearsal.root /\ temp' \in [Kinds -> {"absent", "good", "bad"}]
    <3>1. CASE temp = NoTemp  BY <2>1, <3>1 DEF NoTemp
    <3>2. CASE temp \in [Kinds -> {"absent", "good", "bad"}]  BY <1>2, <2>1, <3>2
    <3> QED  BY <1>1, <2>1, <3>1, <3>2
  <2>5. /\ rehearsal.step # "cleanup" /\ UNCHANGED <<checkout, time, slips>>
        /\ rehearsal.step \notin {"none", "snapshot-preflight"}
        /\ rehearsal.outcome = "none"
    BY <2>1
  <2>6. rehearsal.states \in SUBSET Kinds /\ rehearsal.root \in BOOLEAN  BY <1>1
  <2> QED  BY <2>2, <2>3, <2>4, <2>5, <2>6, GoesOn
<1>9. CASE RestoreEnds
  <2>1. rehearsal' = [Entering(Recorded(rehearsal, "restore", "succeeded"), "startup-gate")
                         EXCEPT !.since = rehearsal.since]
    BY <1>1, <1>9 DEF RestoreEnds, Entering, Recorded, RehearsalRecord
  <2> QED  BY <1>1, <1>9, <2>1, StepIsDone DEF RestoreEnds, Doing
<1>10. CASE ReadRestored
  <2>1. PICK kind \in Kinds : kind = KindOrder[rehearsal.handled + 1]
    <3>1. rehearsal.handled \in 0..2  BY <1>1, <1>2, <1>10 DEF ReadRestored
    <3> QED  BY <1>2, <3>1
  <2>2. /\ rehearsal.outcome = "none" /\ rehearsal.step = "startup-gate"
        /\ rehearsal.handled < Len(KindOrder) /\ UNCHANGED <<checkout, temp, time, slips>>
        /\ \/ rehearsal' = Thrown(rehearsal)
           \/ rehearsal' = [rehearsal EXCEPT !.handled = rehearsal.handled + 1,
                                             !.states = rehearsal.states \union {kind}]
    BY <1>10, <2>1 DEF ReadRestored, Doing
  <2>3. CASE rehearsal' = Thrown(rehearsal)  BY <1>1, <2>2, <2>3, StepThrows
  <2>4. CASE rehearsal' = [rehearsal EXCEPT !.handled = rehearsal.handled + 1,
                                            !.states = rehearsal.states \union {kind}]
    <3>1. PICK states \in SUBSET Kinds : states = rehearsal.states \union {kind}
      BY <1>1
    <3>2. rehearsal.handled + 1 \in 0..3 /\ ~rehearsal.failed
      BY <1>1, <1>2, <1>3, <2>2
    <3>3. rehearsal' = [rehearsal EXCEPT !.handled = rehearsal.handled + 1,
                                         !.states = states, !.root = rehearsal.root]
      BY <1>1, <2>4, <3>1 DEF RehearsalRecord
    <3> QED  BY <1>1, <2>2, <3>1, <3>2, <3>3, GoesOn
  <2> QED  BY <2>2, <2>3, <2>4
<1>11. CASE GateEnds
  <2>1. rehearsal' = [Entering(Recorded(rehearsal, "startup-gate", "succeeded"),
                               "reconciliation")
                         EXCEPT !.since = rehearsal.since]
    BY <1>1, <1>11 DEF GateEnds, Entering, Recorded, RehearsalRecord
  <2> QED  BY <1>1, <1>11, <2>1, StepIsDone DEF GateEnds, Doing
<1>12. CASE Reconcile
  <2>1. /\ rehearsal.outcome = "none" /\ rehearsal.step = "reconciliation"
        /\ UNCHANGED <<checkout, temp, time, slips>>
        /\ \/ rehearsal' = Thrown(rehearsal)
           \/ /\ rehearsal.states = Kinds
              /\ rehearsal' = Entering(Recorded(rehearsal, "reconciliation", "succeeded"),
                                       "cleanup")
    BY <1>12 DEF Reconcile, Doing
  <2>2. CASE rehearsal' = Thrown(rehearsal)  BY <1>1, <2>1, <2>2, StepThrows
  <2>3. CASE /\ rehearsal.states = Kinds
             /\ rehearsal' = Entering(Recorded(rehearsal, "reconciliation", "succeeded"),
                                      "cleanup")
    <3>1. rehearsal' = [Entering(Recorded(rehearsal, "reconciliation", "succeeded"),
                                 "cleanup")
                           EXCEPT !.since = rehearsal.since]
      BY <1>1, <2>3 DEF Entering, Recorded, RehearsalRecord
    <3> QED  BY <1>1, <2>1, <2>3, <3>1, StepIsDone
  <2> QED  BY <2>1, <2>2, <2>3
<1>13. CASE Cleanup
  <2>1. /\ Doing("cleanup") /\ rehearsal' = Cleaned(FALSE, FALSE) /\ temp' = NoTemp
        /\ UNCHANGED <<checkout, time, slips>> /\ slips' \in 0..MaxIoFaults
    BY <1>1, <1>13 DEF Cleanup
  <2> QED  BY <2>1, CleanedKeeps
<1>14. ASSUME NEW seen \in BOOLEAN, CleanupFails(seen) PROVE RestoreInv'
  <2>1. /\ Doing("cleanup") /\ rehearsal' = Cleaned(TRUE, seen) /\ temp # NoTemp
        /\ UNCHANGED <<checkout, temp, time>> /\ slips' \in 0..MaxIoFaults
    BY <1>1, <1>14 DEF CleanupFails
  <2> QED  BY <2>1, CleanedKeeps
<1>15. CASE IoFails
  <2>1. slips' \in 0..MaxIoFaults  BY <1>1, <1>15 DEF IoFails
  <2> QED  BY <1>1, <1>15, <2>1, StepThrows DEF IoFails
<1>16. CASE KillRehearsal
  <2>1. /\ rehearsal.outcome = "none" /\ UNCHANGED <<checkout, temp, time>>
        /\ slips' \in 0..MaxIoFaults /\ rehearsal.step # "none"
        /\ rehearsal' = [rehearsal EXCEPT !.outcome = "killed"]
    BY <1>1, <1>16 DEF KillRehearsal
  <2>2. /\ rehearsal' \in RehearsalRecord /\ rehearsal'.outcome = "killed"
        /\ rehearsal'.records = rehearsal.records /\ rehearsal'.failed = rehearsal.failed
        /\ rehearsal'.step = rehearsal.step /\ rehearsal'.states = rehearsal.states
        /\ rehearsal'.root = rehearsal.root /\ rehearsal'.since = rehearsal.since
    BY <1>1, <2>1 DEF RehearsalRecord, Outcomes
  <2>3. RestoreShape'  BY <1>1, <2>1, <2>2 DEF RestoreShape
  <2>4. UnderWay'  BY <1>1, <2>1, <2>2 DEF UnderWay
  <2> QED
    BY <2>1, <2>2, <2>3, <2>4
    DEF RestoreInv, RestoreSafe, CompletedIsWhole, CleanupLast, VerifiedBeforeWritten
<1>17. ASSUME rehearsal' = rehearsal, checkout' \in [Kinds -> {"good", "bad"}],
              \/ temp' = temp
              \/ temp # NoTemp /\ temp' \in [Kinds -> {"absent", "good", "bad"}],
              time' \in 0..MaxClockTicks, slips' \in 0..MaxIoFaults
       PROVE  RestoreInv'
  <2>1. RestoreShape'  BY <1>1, <1>17 DEF RestoreShape
  <2>2. temp' = NoTemp <=> temp = NoTemp  BY <1>17, NoTempIsNone
  <2>3. rehearsal.outcome \in {"none", "killed"} => UnderWay'
    BY <1>1, <1>17 DEF UnderWay
  <2> QED
    BY <1>17, <2>1, <2>2, <2>3
    DEF RestoreInv, RestoreSafe, CompletedIsWhole, CleanupLast, VerifiedBeforeWritten
<1>18. CASE Tick
  <2>1. time' \in 0..MaxClockTicks  BY <1>1, <1>18 DEF Tick
  <2> QED  BY <1>1, <1>17, <1>18, <2>1 DEF Tick
<1>19. ASSUME NEW k \in Kinds, EditCheckout(k) PROVE RestoreInv'
  <2>1. slips' \in 0..MaxIoFaults /\ checkout' \in [Kinds -> {"good", "bad"}]
    BY <1>1, <1>19 DEF EditCheckout
  <2> QED  BY <1>1, <1>17, <1>19, <2>1 DEF EditCheckout
<1>20. ASSUME NEW k \in Kinds, EditRestored(k) PROVE RestoreInv'
  <2>1. slips' \in 0..MaxIoFaults  BY <1>1, <1>20 DEF EditRestored
  <2>2. temp # NoTemp /\ temp' \in [Kinds -> {"absent", "good", "bad"}]
    BY <1>1, <1>20 DEF EditRestored
  <2> QED  BY <1>1, <1>17, <1>20, <2>1, <2>2 DEF EditRestored
<1>21. CASE UNCHANGED restoreVars  BY <1>1, <1>17, <1>21 DEF restoreVars
<1> QED
  BY <1>4, <1>5, <1>6, <1>7, <1>8, <1>9, <1>10, <1>11, <1>12, <1>13, <1>14, <1>15,
     <1>16, <1>18, <1>19, <1>20, <1>21
  DEF RestoreNext

\* Whatever call of the file system fails in whatever step, whoever edits a
\* snapshot or a restored file, however slow it is and whenever it is killed, the
\* rehearsal writes nothing before every source was verified, ends with its one
\* cleanup, and its evidence says "completed" only of a restore that was whole, in
\* time and removed (executeStateRestoreRehearsal's steps, cleanupRestore).
THEOREM RestoreIsSafe == RestoreSpec => []RestoreSafe
<1>1. RestoreInv => RestoreSafe  BY DEF RestoreInv
<1> QED  BY <1>1, RestoreInitInv, RestoreStep, PTL DEF RestoreSpec

(* The rehearsal of going back to the legacy services *)

DrillPhases == {"none", "steps", "down", "list", "failed", "completed", "lost"}
DrillNote == [id : StepIds, status : {"succeeded", "failed"}]
DrillRecord ==
    [phase : DrillPhases, step : 1..6, next : 1..3, since : 0..MaxMoments,
     rto : -1..MaxMoments, records : Seq(DrillNote), failed : BOOLEAN,
     trouble : BOOLEAN, counts : Seq(-1..1)]

DrillShape ==
    /\ docker \in SUBSET Things /\ healthy \in BOOLEAN /\ scratch \in BOOLEAN
    /\ drill \in DrillRecord
    /\ moment \in 0..MaxMoments /\ faults \in 0..MaxStepFaults

\* The evidence of the plan's first n steps: all of them, or all but the last,
\* succeeded.
PlanEvidence(records, n, last) ==
    /\ Len(records) = n
    /\ \A i \in 1..n :
          /\ records[i].id = PlanSteps[i].id
          /\ records[i].status = IF i = n THEN last ELSE "succeeded"

\* What was counted is what is there, or could not be counted.
CountedRight ==
    /\ Len(drill.counts) <= 3
    /\ \A i \in 1..Len(drill.counts) :
          \/ drill.counts[i] = -1
          \/ drill.counts[i] = IF Listings[i] \in docker THEN 1 ELSE 0

RestoredInTime == drill.rto \in 0..RtoSeconds

\* Until a step breaks or the last is over, the evidence is that of the steps
\* before the active one, and the restore, when it is one of them, was in time.
DrillGoesOn ==
    /\ PlanEvidence(drill.records, drill.step - 1, "succeeded")
    /\ ~drill.failed /\ Len(drill.counts) = 0
    /\ drill.step = 6 => RestoredInTime

\* Then it ends with the step that broke, or it is whole.
DrillOver ==
    \E n \in 1..6 :
       /\ PlanEvidence(drill.records, n, Status(drill.failed))
       /\ ~drill.failed => n = 6 /\ RestoredInTime

DrillInv ==
    /\ DrillShape /\ RehearsalSafe
    /\ drill.since <= moment
    /\ drill.phase \in {"none", "steps"} => DrillGoesOn
    /\ drill.phase \in {"down", "list"} => DrillOver
    /\ drill.phase = "down" => Len(drill.counts) = 0
    /\ drill.phase = "list" => CountedRight

LEMMA PlanIs ==
    /\ Len(PlanSteps) = 6 /\ Restore = 5 /\ StepAt("substitute-worker-stop") = 4
    /\ PlanSteps[1].id = "isolation-preflight" /\ PlanSteps[2].id = "identity-evidence"
    /\ PlanSteps[3].id = "d1-compatibility" /\ PlanSteps[4].id = "substitute-worker-stop"
    /\ PlanSteps[5].id = "legacy-compose-restore" /\ PlanSteps[6].id = "reconciliation"
    /\ \A i \in 1..6 :
          /\ PlanSteps[i].id \in StepIds /\ PlanSteps[i].id # "cleanup"
          /\ PlanSteps[i].id = "reconciliation" <=> i = 6
          /\ Len(PlanSteps[i].makes) \in 1..2
          /\ \A c \in 1..Len(PlanSteps[i].makes) : PlanSteps[i].makes[c] \subseteq Things
    /\ "cleanup" \in StepIds
<1>1. /\ Len(PlanSteps) = 6
      /\ PlanSteps[1].id = "isolation-preflight" /\ PlanSteps[2].id = "identity-evidence"
      /\ PlanSteps[3].id = "d1-compatibility" /\ PlanSteps[4].id = "substitute-worker-stop"
      /\ PlanSteps[5].id = "legacy-compose-restore" /\ PlanSteps[6].id = "reconciliation"
  BY DEF PlanSteps
<1>2. ASSUME NEW i \in 1..6 PROVE PlanSteps[i].id \in StepIds
  BY <1>1 DEF StepIds
<1>3. \A i \in 1..6 : i \in {1, 2, 3, 4, 5, 6}  OBVIOUS
<1>4. \A i \in 1..6 : /\ PlanSteps[i].id # "cleanup"
                      /\ PlanSteps[i].id = "reconciliation" <=> i = 6
                      /\ PlanSteps[i].id = "legacy-compose-restore" <=> i = 5
                      /\ PlanSteps[i].id = "substitute-worker-stop" <=> i = 4
  BY <1>1, <1>3
<1>5. Restore = 5
  <2>1. \A i \in 1..Len(PlanSteps) : PlanSteps[i].id = "legacy-compose-restore" <=> i = 5
    BY <1>1, <1>4
  <2>2. 5 \in 1..Len(PlanSteps)  BY <1>1
  <2> QED  BY <2>1, <2>2 DEF Restore, StepAt
<1>6. StepAt("substitute-worker-stop") = 4
  <2>1. \A i \in 1..Len(PlanSteps) : PlanSteps[i].id = "substitute-worker-stop" <=> i = 4
    BY <1>1, <1>4
  <2>2. 4 \in 1..Len(PlanSteps)  BY <1>1
  <2> QED  BY <2>1, <2>2 DEF StepAt
<1>7. /\ PlanSteps[1].makes = <<{}, {}>> /\ PlanSteps[2].makes = <<{}>>
      /\ PlanSteps[3].makes = <<{}>>
      /\ PlanSteps[4].makes = <<{"containers", "networks"}, {}>>
      /\ PlanSteps[5].makes = <<Things>> /\ PlanSteps[6].makes = <<{}, {}>>
  BY DEF PlanSteps
<1> DEFINE Making(m) == Len(m) \in 1..2 /\ \A c \in 1..Len(m) : m[c] \subseteq Things
<1>8. \A i \in 1..6 : Making(PlanSteps[i].makes)
  <2>1. ASSUME NEW A \in SUBSET Things, NEW B \in SUBSET Things
        PROVE  Making(<<A>>) /\ Making(<<A, B>>)
    <3>1. Making(<<A>>)
      <4>1. Len(<<A>>) = 1 /\ <<A>>[1] = A  OBVIOUS
      <4> QED  BY <4>1
    <3>2. Making(<<A, B>>)
      <4>1. Len(<<A, B>>) = 2 /\ <<A, B>>[1] = A /\ <<A, B>>[2] = B  OBVIOUS
      <4>2. \A c \in 1..2 : c = 1 \/ c = 2  OBVIOUS
      <4> QED  BY <4>1, <4>2
    <3> QED  BY <3>1, <3>2
  <2>2. /\ {} \in SUBSET Things /\ Things \in SUBSET Things
        /\ {"containers", "networks"} \in SUBSET Things
    BY DEF Things
  <2>3. /\ Making(<<{}, {}>>) /\ Making(<<{}>>) /\ Making(<<Things>>)
        /\ Making(<<{"containers", "networks"}, {}>>)
    BY <2>1, <2>2
  <2> HIDE DEF Making
  <2> QED  BY <1>3, <1>7, <2>3
<1>9. "cleanup" \in StepIds  BY DEF StepIds
<1> QED  BY <1>1, <1>2, <1>4, <1>5, <1>6, <1>8, <1>9

\* One more record: that of the plan's next step.
LEMMA PlanEvidenceGrows ==
    ASSUME NEW records \in Seq(DrillNote), NEW n \in 0..5,
           PlanEvidence(records, n, "succeeded"), NEW status \in {"failed", "succeeded"}
    PROVE  LET new == [id |-> PlanSteps[n + 1].id, status |-> status]
               more == Append(records, new) IN
           more \in Seq(DrillNote) /\ PlanEvidence(more, n + 1, status)
<1> DEFINE new == [id |-> PlanSteps[n + 1].id, status |-> status]
           more == Append(records, new)
<1>1. new \in DrillNote
  <2>1. n + 1 \in 1..6  OBVIOUS
  <2>2. PlanSteps[n + 1].id \in StepIds  BY <2>1, PlanIs
  <2> QED  BY <2>2 DEF DrillNote
<1>2. new.id = PlanSteps[n + 1].id /\ new.status = status  OBVIOUS
<1> HIDE DEF new
<1>3. Len(records) = n  BY DEF PlanEvidence
<1>4. /\ more \in Seq(DrillNote) /\ Len(more) = n + 1
      /\ \A i \in 1..n : more[i] = records[i]
      /\ more[n + 1] = new
  BY <1>1, <1>3
<1> HIDE DEF more
<1>5. ASSUME NEW i \in 1..(n + 1)
      PROVE  /\ more[i].id = PlanSteps[i].id
             /\ more[i].status = IF i = n + 1 THEN status ELSE "succeeded"
  <2>1. CASE i = n + 1  BY <1>2, <1>4, <2>1
  <2>2. CASE i # n + 1
    <3>1. i \in 1..n  BY <2>2
    <3> QED  BY <1>4, <2>2, <3>1 DEF PlanEvidence
  <2> QED  BY <2>1, <2>2
<1>6. PlanEvidence(more, n + 1, status)  BY <1>4, <1>5 DEF PlanEvidence
<1> QED  BY <1>4, <1>6 DEF more, new

\* Nothing comes after a failed step in evidence of this form.
LEMMA EvidenceStops ==
    ASSUME DrillShape, NEW n \in 0..6, NEW last, PlanEvidence(drill.records, n, last)
    PROVE  NothingAfterFailure
<1> SUFFICES ASSUME NEW i \in 1..Len(drill.records),
                    drill.records[i].status = "failed",
                    NEW j \in (i + 1)..Len(drill.records)
             PROVE  FALSE
  BY DEF NothingAfterFailure
<1>1. Len(drill.records) = n  BY DEF PlanEvidence
<1>2. i \in 1..n /\ i # n  BY <1>1
<1>3. drill.records[i].status = "succeeded"  BY <1>2 DEF PlanEvidence
<1> QED  BY <1>3

LEMMA DrillInitInv == DrillInit => DrillInv
<1> SUFFICES ASSUME DrillInit PROVE DrillInv
  OBVIOUS
<1>1. drill \in DrillRecord
  BY RehearsalAssumption DEF DrillInit, IdleDrill, DrillRecord, DrillPhases
<1>2. DrillShape
  <2>1. docker \in SUBSET Things /\ healthy \in BOOLEAN /\ scratch \in BOOLEAN
    BY DEF DrillInit
  <2>2. moment \in 0..MaxMoments /\ faults \in 0..MaxStepFaults
    BY RehearsalAssumption DEF DrillInit
  <2> QED  BY <1>1, <2>1, <2>2 DEF DrillShape
<1> QED
  BY <1>2, RehearsalAssumption
  DEF DrillInv, DrillInit, IdleDrill, RehearsalSafe, RehearsedIsClean, ResidualsTrue,
      NothingAfterFailure, DrillGoesOn, PlanEvidence

\* where a drill that goes on is
LEMMA DrillSoFar ==
    ASSUME DrillInv, drill.phase \in {"none", "steps"}
    PROVE  \E n \in 0..5 :
              /\ drill.step = n + 1 /\ PlanEvidence(drill.records, n, "succeeded")
              /\ Len(drill.records) = n
<1>1. drill.step \in 1..6  BY DEF DrillInv, DrillShape, DrillRecord
<1>2. PICK n \in 0..5 : drill.step = n + 1  BY <1>1
<1>3. drill.step - 1 = n  BY <1>2
<1> QED  BY <1>2, <1>3 DEF DrillInv, DrillGoesOn, PlanEvidence

\* A step of the plan is over: it broke, or the next one begins, or it was the
\* last.
LEMMA StepIsOver ==
    ASSUME DrillInv, drill.phase = "steps", NEW broke \in BOOLEAN,
           NEW phase \in {"steps", "down"}, NEW step \in 1..6, NEW next \in 1..3,
           NEW since \in 0..MaxMoments, since <= moment, NEW rto \in -1..MaxMoments,
           broke => phase = "down",
           ~broke => /\ drill.step \in {5, 6} => rto \in 0..RtoSeconds
                     /\ drill.step < 6 => step = drill.step + 1 /\ phase = "steps"
                     /\ drill.step = 6 => phase = "down",
           drill' = [drill EXCEPT
                       !.records = Append(drill.records,
                                          [id |-> PlanSteps[drill.step].id,
                                           status |-> Status(broke)]),
                       !.failed = broke, !.phase = phase, !.step = step, !.next = next,
                       !.since = since, !.rto = rto],
           docker' \in SUBSET Things, UNCHANGED <<healthy, scratch, moment>>,
           faults' \in 0..MaxStepFaults
    PROVE  DrillInv'
<1>1. DrillShape /\ drill \in DrillRecord /\ DrillGoesOn
  BY DEF DrillInv, DrillShape
<1>2. PICK n \in 0..5 : /\ drill.step = n + 1
                        /\ PlanEvidence(drill.records, n, "succeeded")
                        /\ Len(drill.records) = n
  BY DrillSoFar
<1>3. Status(broke) \in {"failed", "succeeded"}  BY DEF Status
<1>4. PICK more \in Seq(DrillNote) :
         /\ more = Append(drill.records, [id |-> PlanSteps[drill.step].id,
                                          status |-> Status(broke)])
         /\ PlanEvidence(more, n + 1, Status(broke))
  <2>1. drill.records \in Seq(DrillNote)  BY <1>1 DEF DrillRecord
  <2> DEFINE all == Append(drill.records, [id |-> PlanSteps[n + 1].id,
                                           status |-> Status(broke)])
  <2>2. all \in Seq(DrillNote) /\ PlanEvidence(all, n + 1, Status(broke))
    BY <1>2, <1>3, <2>1, PlanEvidenceGrows
  <2>3. all = Append(drill.records, [id |-> PlanSteps[drill.step].id,
                                     status |-> Status(broke)])
    BY <1>2
  <2> HIDE DEF all
  <2> QED  BY <2>2, <2>3
<1>5. drill' = [drill EXCEPT !.records = more, !.failed = broke, !.phase = phase,
                             !.step = step, !.next = next, !.since = since, !.rto = rto]
  BY <1>4
<1>6. /\ drill' \in DrillRecord /\ drill'.records = more /\ drill'.failed = broke
      /\ drill'.phase = phase /\ drill'.step = step /\ drill'.since = since
      /\ drill'.rto = rto /\ drill'.counts = drill.counts
  <2>1. phase \in DrillPhases  BY DEF DrillPhases
  <2>2. /\ more \in Seq(DrillNote) /\ broke \in BOOLEAN /\ step \in 1..6 /\ next \in 1..3
        /\ since \in 0..MaxMoments /\ rto \in -1..MaxMoments
    BY <1>4
  <2>3. PICK noted \in DrillRecord :
           noted = [drill EXCEPT !.records = more, !.failed = broke, !.phase = phase]
    <3>1. [drill EXCEPT !.records = more, !.failed = broke, !.phase = phase] \in DrillRecord
      BY <1>1, <2>1, <2>2 DEF DrillRecord
    <3> QED  BY <3>1
  <2>4. drill' = [noted EXCEPT !.step = step, !.next = next, !.since = since, !.rto = rto]
    BY <1>1, <1>5, <2>3 DEF DrillRecord
  <2>5. drill' \in DrillRecord
    <3>1. step \in 1..6 /\ next \in 1..3 /\ since \in 0..MaxMoments /\ rto \in -1..MaxMoments
      OBVIOUS
    <3>2. [noted EXCEPT !.step = step, !.next = next, !.since = since, !.rto = rto]
             \in DrillRecord
      BY <3>1 DEF DrillRecord
    <3> QED  BY <2>4, <3>2
  <2> QED  BY <1>1, <1>5, <2>5 DEF DrillRecord
<1>7. DrillShape'  BY <1>1, <1>6 DEF DrillShape
<1>8. n + 1 \in 0..6 /\ n + 1 \in 1..6  BY <1>2
<1>9. NothingAfterFailure'
  <2>1. PlanEvidence(drill'.records, n + 1, Status(broke))  BY <1>4, <1>6
  <2> SUFFICES ASSUME NEW i \in 1..Len(drill'.records),
                      drill'.records[i].status = "failed",
                      NEW j \in (i + 1)..Len(drill'.records)
               PROVE  FALSE
    BY DEF NothingAfterFailure
  <2>2. Len(drill'.records) = n + 1  BY <2>1 DEF PlanEvidence
  <2>3. i \in 1..(n + 1) /\ i # n + 1  BY <1>8, <2>2
  <2>4. drill'.records[i].status = "succeeded"  BY <2>1, <2>3 DEF PlanEvidence
  <2> QED  BY <2>4
<1>10. CASE phase = "steps"
  <2>1. ~broke /\ step = n + 2 /\ drill.step < 6 /\ Status(broke) = "succeeded"
    BY <1>2, <1>10 DEF Status
  <2>2. step - 1 = n + 1  BY <1>2, <2>1
  <2>3. step = 6 => rto \in 0..RtoSeconds
    <3>1. step = 6 => drill.step = 5  BY <1>2, <2>1
    <3> QED  BY <2>1, <3>1
  <2>4. PlanEvidence(more, step - 1, "succeeded")  BY <1>4, <2>1, <2>2
  <2>5. DrillGoesOn'
    BY <1>1, <1>6, <2>1, <2>3, <2>4 DEF DrillGoesOn, RestoredInTime
  <2> QED
    BY <1>6, <1>7, <1>9, <1>10, <2>5
    DEF DrillInv, RehearsalSafe, RehearsedIsClean, ResidualsTrue
<1>11. CASE phase = "down"
  <2>1. ~broke => n + 1 = 6 /\ rto \in 0..RtoSeconds
    <3>1. ~broke => drill.step = 6  BY <1>2, <1>11
    <3> QED  BY <1>2, <3>1
  <2>2. DrillOver'  BY <1>4, <1>6, <1>8, <2>1 DEF DrillOver, RestoredInTime
  <2> QED
    BY <1>1, <1>6, <1>7, <1>9, <1>11, <2>2
    DEF DrillInv, RehearsalSafe, RehearsedIsClean, ResidualsTrue, DrillGoesOn
<1> QED  BY <1>10, <1>11

\* What is neither evidence nor outcome changes.
LEMMA EvidenceKept ==
    ASSUME DrillInv, drill.phase \notin {"completed", "failed"}, DrillShape',
           drill'.phase \notin {"completed", "failed"},
           drill'.records = drill.records, drill'.failed = drill.failed,
           drill'.rto = drill.rto, drill'.step = drill.step, drill'.since <= moment',
           drill'.phase \in {"none", "steps"} =>
              drill.phase \in {"none", "steps"} /\ drill'.counts = drill.counts,
           drill'.phase \in {"down", "list"} => drill.phase \in {"down", "list"},
           drill'.phase = "down" => drill.phase = "down" /\ drill'.counts = drill.counts,
           drill'.phase = "list" => CountedRight'
    PROVE  DrillInv'
<1>1. drill'.phase \in {"none", "steps"} => DrillGoesOn'
  BY DEF DrillInv, DrillGoesOn, RestoredInTime
<1>2. drill'.phase \in {"down", "list"} => DrillOver'
  BY DEF DrillInv, DrillOver, RestoredInTime
<1>3. NothingAfterFailure'
  BY DEF DrillInv, RehearsalSafe, NothingAfterFailure
<1> QED
  BY <1>1, <1>2, <1>3 DEF DrillInv, RehearsalSafe, RehearsedIsClean, ResidualsTrue

LEMMA StepDoneKeeps == ASSUME DrillInv, StepDone PROVE DrillInv'
<1>1. /\ drill.phase = "steps" /\ drill \in DrillRecord /\ drill.since <= moment
      /\ drill.since \in 0..MaxMoments /\ moment \in 0..MaxMoments
      /\ drill.step \in 1..6 /\ drill.next \in 1..3 /\ drill.rto \in -1..MaxMoments
      /\ docker \in SUBSET Things /\ faults \in 0..MaxStepFaults /\ 1 \in 1..3
      /\ MaxMoments \in Nat /\ RtoSeconds \in Nat
      /\ UNCHANGED <<docker, healthy, scratch, moment, faults>>
      /\ DrillGoesOn
  BY RehearsalAssumption DEF DrillInv, DrillShape, DrillRecord, StepDone
<1>2. drill.failed = FALSE  BY <1>1 DEF DrillGoesOn, DrillRecord
<1>3. PICK elapsed \in 0..MaxMoments : elapsed = moment - drill.since  BY <1>1
<1>4. PICK rto \in -1..MaxMoments : rto = IF drill.step = 5 THEN elapsed ELSE drill.rto
  BY <1>1
<1>5. PICK timed \in DrillRecord :
         /\ timed = IF drill.step = 5 THEN [drill EXCEPT !.rto = elapsed] ELSE drill
         /\ timed = [drill EXCEPT !.rto = rto]
  <2>1. CASE drill.step = 5
    <3>1. [drill EXCEPT !.rto = rto] \in DrillRecord  BY <1>1 DEF DrillRecord
    <3> QED  BY <1>4, <2>1, <3>1
  <2>2. CASE drill.step # 5
    <3>1. [drill EXCEPT !.rto = rto] = drill  BY <1>1, <1>4, <2>2 DEF DrillRecord
    <3> QED  BY <1>1, <2>2, <3>1
  <2> QED  BY <2>1, <2>2
<1>6. PICK good \in BOOLEAN :
         good <=> /\ drill.step = 5 => InTime(elapsed)
                  /\ PlanSteps[drill.step].id = "reconciliation" => healthy
  OBVIOUS
<1>7. drill' = IF good
               THEN [Noted(timed, PlanSteps[drill.step].id, "succeeded") EXCEPT
                       !.step = IF @ < 6 THEN @ + 1 ELSE @, !.next = 1,
                       !.phase = IF drill.step < 6 THEN @ ELSE "down"]
               ELSE Broken(timed)
  BY <1>3, <1>5, <1>6, PlanIs DEF StepDone
<1>8. ~good => drill' = [drill EXCEPT
                   !.records = Append(drill.records, [id |-> PlanSteps[drill.step].id,
                                                      status |-> Status(TRUE)]),
                   !.failed = TRUE, !.phase = "down", !.step = drill.step,
                   !.next = drill.next, !.since = drill.since, !.rto = rto]
  <2>1. Status(TRUE) = "failed"  BY DEF Status
  <2> DEFINE note == [id |-> PlanSteps[drill.step].id, status |-> "failed"]
             more == Append(drill.records, note)
  <2>2. SUFFICES ASSUME ~good
                 PROVE  drill' = [drill EXCEPT
                   !.records = more, !.failed = TRUE, !.phase = "down",
                   !.step = drill.step, !.next = drill.next, !.since = drill.since,
                   !.rto = rto]
    BY <2>1
  <2>3. /\ timed.records = drill.records /\ timed.step = drill.step
        /\ timed = [drill EXCEPT !.rto = rto]
    BY <1>1, <1>5 DEF DrillRecord
  <2>4. drill' = Broken(timed)  BY <1>7, <2>2
  <2>5. drill' = [[timed EXCEPT !.records = more] EXCEPT !.failed = TRUE, !.phase = "down"]
    BY <2>3, <2>4 DEF Broken, Noted
  <2> HIDE DEF more
  <2> QED  BY <1>1, <2>3, <2>5 DEF DrillRecord
<1>9. CASE ~good
  <2>1. PICK broke \in BOOLEAN : broke  OBVIOUS
  <2>2. broke = TRUE  BY <2>1
  <2>3. drill' = [drill EXCEPT
                    !.records = Append(drill.records, [id |-> PlanSteps[drill.step].id,
                                                       status |-> Status(broke)]),
                    !.failed = broke, !.phase = "down", !.step = drill.step,
                    !.next = drill.next, !.since = drill.since, !.rto = rto]
    BY <1>8, <1>9, <2>2
  <2> QED  BY <1>1, <2>1, <2>3, StepIsOver
<1>10. CASE good
  <2>1. PICK step \in 1..6 : step = IF drill.step < 6 THEN drill.step + 1 ELSE drill.step
    BY <1>1
  <2>2. PICK phase \in {"steps", "down"} :
           phase = IF drill.step < 6 THEN "steps" ELSE "down"
    OBVIOUS
  <2>3. drill' = [drill EXCEPT
                   !.records = Append(drill.records, [id |-> PlanSteps[drill.step].id,
                                                      status |-> Status(FALSE)]),
                   !.failed = FALSE, !.phase = phase, !.step = step, !.next = 1,
                   !.since = drill.since, !.rto = rto]
    <3>1. Status(FALSE) = "succeeded"  BY DEF Status
    <3>2. drill' = [Noted(timed, PlanSteps[drill.step].id, "succeeded") EXCEPT
                      !.step = step, !.next = 1, !.phase = phase]
      BY <1>1, <1>5, <1>7, <1>10, <2>1, <2>2 DEF Noted, DrillRecord
    <3> QED  BY <1>1, <1>2, <1>5, <3>1, <3>2 DEF Noted, DrillRecord
  <2>4. drill.step \in {5, 6} => rto \in 0..RtoSeconds
    <3>1. drill.step = 5 => rto \in 0..RtoSeconds
      BY <1>1, <1>3, <1>4, <1>6, <1>10 DEF InTime
    <3>2. drill.step = 6 => rto \in 0..RtoSeconds
      BY <1>1, <1>4 DEF DrillGoesOn, RestoredInTime
    <3> QED  BY <3>1, <3>2
  <2>5. /\ drill.step < 6 => step = drill.step + 1 /\ phase = "steps"
        /\ drill.step = 6 => phase = "down"
    BY <2>1, <2>2
  <2> QED  BY <1>1, <2>3, <2>4, <2>5, StepIsOver
<1> QED  BY <1>9, <1>10

LEMMA StepCommandKeeps == ASSUME DrillInv, StepCommand PROVE DrillInv'
<1>1. /\ drill.phase = "steps" /\ DrillShape /\ drill \in DrillRecord
      /\ drill.since <= moment /\ drill.since \in 0..MaxMoments
      /\ moment \in 0..MaxMoments /\ drill.next \in 1..3 /\ drill.step \in 1..6
      /\ drill.next <= Len(PlanSteps[drill.step].makes)
      /\ docker' = docker \union PlanSteps[drill.step].makes[drill.next]
      /\ healthy' = (healthy \/ drill.step = Restore)
      /\ drill' = [Started(drill) EXCEPT !.next = drill.next + 1]
      /\ UNCHANGED <<scratch, moment, faults>> /\ MaxMoments \in Nat
  <2>1. drill' = [Started(drill) EXCEPT !.next = drill.next + 1]
    BY DEF StepCommand, Started, DrillInv, DrillShape, DrillRecord
  <2> QED
    BY <2>1, RehearsalAssumption DEF DrillInv, DrillShape, DrillRecord, StepCommand
<1>2. /\ drill.next \in 1..Len(PlanSteps[drill.step].makes)
      /\ Len(PlanSteps[drill.step].makes) \in 1..2
  BY <1>1, PlanIs
<1>3. docker' \in SUBSET Things  BY <1>1, <1>2, PlanIs DEF DrillShape
<1>4. PICK next \in 1..3 : next = drill.next + 1
  <2>1. PICK length \in 1..2 : Len(PlanSteps[drill.step].makes) = length  BY <1>2
  <2>2. drill.next <= length  BY <1>1, <2>1
  <2>3. drill.next + 1 \in 1..3  BY <1>1, <2>1, <2>2
  <2> QED  BY <2>3
<1>5. PICK since \in 0..MaxMoments :
         /\ since <= moment
         /\ drill' = [drill EXCEPT !.since = since, !.next = next]
  <2>1. Started(drill) = drill \/ Started(drill) = [drill EXCEPT !.since = moment]
    BY DEF Started
  <2>2. CASE Started(drill) = drill
    <3>1. drill' = [drill EXCEPT !.since = drill.since, !.next = next]
      BY <1>1, <1>4, <2>2 DEF DrillRecord
    <3> QED  BY <1>1, <3>1
  <2>3. CASE Started(drill) = [drill EXCEPT !.since = moment]
    <3>1. PICK since \in 0..MaxMoments : since = moment /\ since <= moment  BY <1>1
    <3>2. drill' = [drill EXCEPT !.since = since, !.next = next]
      BY <1>1, <1>4, <2>3, <3>1 DEF DrillRecord
    <3> QED  BY <3>1, <3>2
  <2> QED  BY <2>1, <2>2, <2>3
<1>6. /\ drill' \in DrillRecord /\ drill'.phase = "steps" /\ drill'.since = since
      /\ drill'.records = drill.records /\ drill'.failed = drill.failed
      /\ drill'.rto = drill.rto /\ drill'.step = drill.step
      /\ drill'.counts = drill.counts
  BY <1>1, <1>5 DEF DrillRecord
<1>7. DrillShape'
  <2>1. healthy' \in BOOLEAN  BY <1>1
  <2> QED  BY <1>1, <1>3, <1>6, <2>1 DEF DrillShape
<1> QED  BY <1>1, <1>5, <1>6, <1>7, EvidenceKept

LEMMA StepFailsKeeps ==
    ASSUME DrillInv, NEW made \in SUBSET Things, StepFails(made) PROVE DrillInv'
<1>1. /\ drill.phase = "steps" /\ drill \in DrillRecord /\ drill.since <= moment
      /\ drill.since \in 0..MaxMoments /\ moment \in 0..MaxMoments
      /\ drill.step \in 1..6 /\ drill.next \in 1..3 /\ drill.rto \in -1..MaxMoments
      /\ docker' \in SUBSET Things /\ faults' \in 0..MaxStepFaults
      /\ drill' = Broken(Started(drill))
      /\ UNCHANGED <<healthy, scratch, moment>>
  BY RehearsalAssumption DEF DrillInv, DrillShape, DrillRecord, StepFails, Fault
<1>2. PICK since \in 0..MaxMoments :
         since <= moment /\ Started(drill) = [drill EXCEPT !.since = since]
  <2>1. drill = [drill EXCEPT !.since = drill.since]  BY <1>1 DEF DrillRecord
  <2>2. Started(drill) = drill \/ Started(drill) = [drill EXCEPT !.since = moment]
    BY DEF Started
  <2>3. CASE Started(drill) = drill  BY <1>1, <2>1, <2>3
  <2>4. CASE Started(drill) = [drill EXCEPT !.since = moment]  BY <1>1, <2>4
  <2> QED  BY <2>2, <2>3, <2>4
<1>3. drill' = [drill EXCEPT
                  !.records = Append(drill.records, [id |-> PlanSteps[drill.step].id,
                                                     status |-> Status(TRUE)]),
                  !.failed = TRUE, !.phase = "down", !.step = drill.step,
                  !.next = drill.next, !.since = since, !.rto = drill.rto]
  <2>1. Status(TRUE) = "failed"  BY DEF Status
  <2> QED  BY <1>1, <1>2, <2>1 DEF Broken, Noted, DrillRecord
<1>4. PICK broke \in BOOLEAN : broke  OBVIOUS
<1>5. broke = TRUE  BY <1>4
<1>6. drill' = [drill EXCEPT
                  !.records = Append(drill.records, [id |-> PlanSteps[drill.step].id,
                                                     status |-> Status(broke)]),
                  !.failed = broke, !.phase = "down", !.step = drill.step,
                  !.next = drill.next, !.since = since, !.rto = drill.rto]
  BY <1>3, <1>5
<1>7. /\ drill.phase = "steps" /\ drill.step \in 1..6 /\ drill.next \in 1..3
      /\ drill.rto \in -1..MaxMoments /\ docker' \in SUBSET Things
      /\ faults' \in 0..MaxStepFaults /\ UNCHANGED <<healthy, scratch, moment>>
  BY <1>1
<1> QED  BY <1>2, <1>4, <1>6, <1>7, StepIsOver

\* The listings do not change what they list.
LEMMA CountKeeps ==
    ASSUME DrillInv, drill.phase = "list", Len(drill.counts) < Len(Listings),
           NEW bad \in BOOLEAN, NEW count \in -1..1,
           count = -1 \/ count = IF Listings[Len(drill.counts) + 1] \in docker THEN 1 ELSE 0,
           drill' = [drill EXCEPT !.counts = Append(drill.counts, count),
                                  !.trouble = bad],
           UNCHANGED <<docker, healthy, scratch, moment>>, faults' \in 0..MaxStepFaults
    PROVE  DrillInv'
<1>1. DrillShape /\ drill \in DrillRecord /\ drill.counts \in Seq(-1..1) /\ CountedRight
  BY DEF DrillInv, DrillShape, DrillRecord
<1>2. PICK n \in 0..2 : Len(drill.counts) = n
  <2>1. Len(Listings) = 3  BY DEF Listings
  <2>2. PICK n \in Nat : Len(drill.counts) = n  BY <1>1
  <2>3. n < 3  BY <2>1, <2>2
  <2>4. n \in 0..2  BY <2>3
  <2> QED  BY <2>2, <2>4
<1>3. PICK counts \in Seq(-1..1) :
         /\ counts = Append(drill.counts, count) /\ Len(counts) = n + 1
         /\ counts[n + 1] = count /\ \A i \in 1..n : counts[i] = drill.counts[i]
  <2> DEFINE all == Append(drill.counts, count)
  <2>1. /\ all \in Seq(-1..1) /\ Len(all) = n + 1 /\ all[n + 1] = count
        /\ \A i \in 1..n : all[i] = drill.counts[i]
    BY <1>1, <1>2
  <2>2. all = Append(drill.counts, count)  OBVIOUS
  <2> HIDE DEF all
  <2> QED  BY <2>1, <2>2
<1>4. drill' = [drill EXCEPT !.counts = counts, !.trouble = bad]  BY <1>3
<1>5. /\ drill' \in DrillRecord /\ drill'.phase = "list" /\ drill'.counts = counts
      /\ drill'.records = drill.records /\ drill'.failed = drill.failed
      /\ drill'.rto = drill.rto /\ drill'.step = drill.step /\ drill'.since = drill.since
  BY <1>1, <1>4 DEF DrillRecord
<1>6. DrillShape'  BY <1>1, <1>5 DEF DrillShape
<1>7. CountedRight'
  <2>1. ASSUME NEW i \in 1..(n + 1)
        PROVE  counts[i] = -1 \/ counts[i] = IF Listings[i] \in docker THEN 1 ELSE 0
    <3>1. CASE i = n + 1
      <4>1. Listings[Len(drill.counts) + 1] = Listings[i]  BY <1>2, <3>1
      <4>2. counts[i] = count  BY <1>3, <3>1
      <4> QED  BY <4>1, <4>2
    <3>2. CASE i # n + 1
      <4>1. i \in 1..n  BY <3>2
      <4> QED  BY <1>1, <1>2, <1>3, <4>1 DEF CountedRight
    <3> QED  BY <3>1, <3>2
  <2>2. Len(counts) = n + 1 /\ n + 1 <= 3  BY <1>3
  <2> QED  BY <1>5, <2>1, <2>2 DEF CountedRight
<1>8. drill.since <= moment  BY DEF DrillInv
<1> QED  BY <1>5, <1>6, <1>7, <1>8, EvidenceKept

LEMMA DownKeeps ==
    ASSUME DrillInv, drill.phase = "down", NEW bad \in BOOLEAN,
           drill' = [drill EXCEPT !.phase = "list", !.trouble = bad],
           docker' \in SUBSET Things, healthy' = FALSE, UNCHANGED <<scratch, moment>>,
           faults' \in 0..MaxStepFaults
    PROVE  DrillInv'
<1>1. DrillShape /\ drill \in DrillRecord /\ Len(drill.counts) = 0 /\ drill.since <= moment
  BY DEF DrillInv, DrillShape
<1>2. "list" \in DrillPhases  BY DEF DrillPhases
<1>3. /\ drill' \in DrillRecord /\ drill'.phase = "list" /\ drill'.counts = drill.counts
      /\ drill'.records = drill.records /\ drill'.failed = drill.failed
      /\ drill'.rto = drill.rto /\ drill'.step = drill.step /\ drill'.since = drill.since
  BY <1>1, <1>2 DEF DrillRecord
<1>4. DrillShape'
  <2>1. healthy' \in BOOLEAN  OBVIOUS
  <2> QED  BY <1>1, <1>3, <2>1 DEF DrillShape
<1>5. CountedRight'  BY <1>1, <1>3 DEF CountedRight
<1> QED  BY <1>1, <1>3, <1>4, <1>5, EvidenceKept

\* The outcome is judged from the residuals and the first failure.
LEMMA JudgedKeeps == ASSUME DrillInv, EndDrill PROVE DrillInv'
<1>1. /\ drill.phase = "list" /\ DrillShape /\ drill \in DrillRecord /\ DrillOver
      /\ CountedRight /\ drill.counts \in Seq(-1..1) /\ drill.since <= moment
      /\ drill.records \in Seq(DrillNote)
      /\ Len(drill.counts) = Len(Listings) /\ scratch' = FALSE /\ drill' = Judged
      /\ UNCHANGED <<docker, healthy, moment, faults>>
  BY DEF DrillInv, DrillShape, DrillRecord, EndDrill
<1>2. /\ Len(Listings) = 3 /\ Len(drill.counts) = 3
      /\ Listings[1] = "containers" /\ Listings[2] = "networks" /\ Listings[3] = "volumes"
  BY <1>1 DEF Listings
<1>3. PICK broken \in BOOLEAN :
         broken <=> \/ drill.trouble
                    \/ \E i \in 1..Len(drill.counts) : drill.counts[i] # 0
  OBVIOUS
<1>4. PICK status \in {"failed", "succeeded"} :
         status = IF broken THEN "failed" ELSE "succeeded"
  OBVIOUS
<1>5. PICK failed \in BOOLEAN : failed <=> drill.failed \/ broken
  OBVIOUS
<1>6. PICK phase \in {"failed", "completed"} :
         phase = IF failed THEN "failed" ELSE "completed"
  OBVIOUS
<1>7. PICK n \in 1..6 : /\ PlanEvidence(drill.records, n, Status(drill.failed))
                        /\ ~drill.failed => n = 6 /\ RestoredInTime
  BY <1>1 DEF DrillOver
<1>8. PICK new \in DrillNote : new = [id |-> "cleanup", status |-> status]
  BY PlanIs DEF DrillNote
<1>9. PICK more \in Seq(DrillNote) :
         /\ more = Append(drill.records, new) /\ Len(more) = n + 1 /\ more[n + 1] = new
         /\ \A i \in 1..n : more[i] = drill.records[i]
  <2> DEFINE all == Append(drill.records, new)
  <2>1. Len(drill.records) = n  BY <1>7 DEF PlanEvidence
  <2>2. /\ all \in Seq(DrillNote) /\ Len(all) = n + 1 /\ all[n + 1] = new
        /\ \A i \in 1..n : all[i] = drill.records[i]
    BY <1>1, <1>8, <2>1
  <2>3. all = Append(drill.records, new)  OBVIOUS
  <2> HIDE DEF all
  <2> QED  BY <2>2, <2>3
<1>10. drill' = [drill EXCEPT !.records = more, !.failed = failed, !.phase = phase]
  <2>1. drill' = [Noted(drill, "cleanup", status) EXCEPT !.failed = failed,
                                                         !.phase = phase]
    BY <1>1, <1>3, <1>4, <1>5, <1>6 DEF Judged, Noted, DrillRecord
  <2> QED  BY <1>1, <1>8, <1>9, <2>1 DEF Noted, DrillRecord
<1>11. /\ drill' \in DrillRecord /\ drill'.records = more /\ drill'.phase = phase
       /\ drill'.rto = drill.rto /\ drill'.counts = drill.counts
       /\ drill'.since = drill.since
  <2>1. phase \in DrillPhases  BY DEF DrillPhases
  <2> QED  BY <1>1, <1>10, <2>1 DEF DrillRecord
<1>12. DrillShape'
  <2>1. scratch' \in BOOLEAN  BY <1>1
  <2> QED  BY <1>1, <1>11, <2>1 DEF DrillShape
<1>13. NothingAfterFailure'
  <2> SUFFICES ASSUME NEW i \in 1..(n + 1), more[i].status = "failed",
                      NEW j \in (i + 1)..(n + 1)
               PROVE  more[j].id = "cleanup"
    BY <1>9, <1>11 DEF NothingAfterFailure
  <2>1. i \in 1..n  OBVIOUS
  <2>2. ~(i # n)
    <3>1. i # n => drill.records[i].status = "succeeded"
      BY <1>7, <2>1 DEF PlanEvidence
    <3> QED  BY <1>9, <2>1, <3>1
  <2>3. j = n + 1  BY <2>1, <2>2
  <2> QED  BY <1>8, <1>9, <2>3
<1>14. ResidualsTrue'
  <2>1. \A i \in 1..3 : \/ drill.counts[i] = -1
                        \/ drill.counts[i] = IF Listings[i] \in docker THEN 1 ELSE 0
    BY <1>1, <1>2 DEF CountedRight
  <2> QED  BY <1>1, <1>2, <1>11, <2>1 DEF ResidualsTrue
<1>15. RehearsedIsClean'
  <2> SUFFICES ASSUME ~failed
               PROVE  /\ docker = {} /\ drill.rto \in 0..RtoSeconds
                      /\ more = [i \in 1..(Len(PlanSteps) + 1) |->
                                   [id |-> IF i <= Len(PlanSteps) THEN PlanSteps[i].id
                                           ELSE "cleanup",
                                    status |-> "succeeded"]]
    BY <1>1, <1>6, <1>11 DEF RehearsedIsClean
  <2>1. ~drill.failed /\ ~broken  BY <1>5
  <2>2. docker = {}
    <3>1. drill.counts[1] = 0 /\ drill.counts[2] = 0 /\ drill.counts[3] = 0
      BY <1>2, <1>3, <2>1
    <3>2. \A i \in 1..3 : \/ drill.counts[i] = -1
                          \/ drill.counts[i] = IF Listings[i] \in docker THEN 1 ELSE 0
      BY <1>1, <1>2 DEF CountedRight
    <3>3. Listings[1] \notin docker /\ Listings[2] \notin docker /\ Listings[3] \notin docker
      BY <3>1, <3>2
    <3> QED  BY <1>1, <1>2, <3>3 DEF DrillShape, Things
  <2>3. n = 6 /\ drill.rto \in 0..RtoSeconds  BY <1>7, <2>1 DEF RestoredInTime
  <2>4. Status(drill.failed) = "succeeded" /\ status = "succeeded"
    BY <1>4, <2>1 DEF Status
  <2>5. ASSUME NEW i \in 1..7
        PROVE  more[i] = [id |-> IF i <= 6 THEN PlanSteps[i].id ELSE "cleanup",
                          status |-> "succeeded"]
    <3>1. CASE i = 7  BY <1>8, <1>9, <2>3, <2>4, <3>1
    <3>2. CASE i # 7
      <4>1. i \in 1..6  BY <3>2
      <4>2. more[i] = drill.records[i] /\ i \in 1..Len(drill.records)
        BY <1>7, <1>9, <2>3, <4>1 DEF PlanEvidence
      <4>3. more[i].id = PlanSteps[i].id /\ more[i].status = "succeeded"
        BY <1>7, <2>3, <2>4, <4>1, <4>2 DEF PlanEvidence
      <4>4. more[i] \in DrillNote  BY <1>1, <4>2
      <4> QED  BY <4>1, <4>3, <4>4 DEF DrillNote
    <3> QED  BY <3>1, <3>2
  <2>6. Len(PlanSteps) = 6 /\ Len(more) = 7  BY <1>9, <2>3, PlanIs
  <2> QED  BY <2>2, <2>3, <2>5, <2>6
<1> QED
  BY <1>1, <1>11, <1>12, <1>13, <1>14, <1>15 DEF DrillInv, RehearsalSafe

LEMMA DrillStep == DrillInv /\ [DrillNext]_drillVars => DrillInv'
<1> SUFFICES ASSUME DrillInv, [DrillNext]_drillVars PROVE DrillInv'
  OBVIOUS
<1>1. /\ DrillShape /\ drill \in DrillRecord /\ drill.since <= moment
      /\ docker \in SUBSET Things /\ healthy \in BOOLEAN /\ scratch \in BOOLEAN
      /\ moment \in 0..MaxMoments /\ faults \in 0..MaxStepFaults
      /\ drill.since \in 0..MaxMoments /\ drill.trouble \in BOOLEAN
      /\ MaxMoments \in Nat /\ MaxStepFaults \in Nat
  BY RehearsalAssumption DEF DrillInv, DrillShape, DrillRecord
<1>2. CASE BeginDrill
  <2>1. /\ drill.phase = "none" /\ drill' = [drill EXCEPT !.phase = "steps"]
        /\ UNCHANGED <<docker, healthy, moment, faults>> /\ scratch' \in BOOLEAN
    BY <1>2 DEF BeginDrill
  <2>2. /\ drill' \in DrillRecord /\ drill'.phase = "steps" /\ drill'.since = drill.since
        /\ drill'.records = drill.records /\ drill'.failed = drill.failed
        /\ drill'.rto = drill.rto /\ drill'.step = drill.step
        /\ drill'.counts = drill.counts
    BY <1>1, <2>1 DEF DrillRecord, DrillPhases
  <2>3. DrillShape'  BY <1>1, <2>1, <2>2 DEF DrillShape
  <2> QED  BY <1>1, <2>1, <2>2, <2>3, EvidenceKept
<1>3. CASE StepCommand  BY <1>3, StepCommandKeeps
<1>4. CASE StepDone     BY <1>4, StepDoneKeeps
<1>5. ASSUME NEW made \in SUBSET Things, StepFails(made) PROVE DrillInv'
  BY <1>5, StepFailsKeeps
<1>6. CASE Down
  <2>1. /\ drill.phase = "down" /\ docker' \in SUBSET Things /\ healthy' = FALSE
        /\ drill' = [drill EXCEPT !.phase = "list", !.trouble = drill.trouble]
        /\ UNCHANGED <<scratch, moment>> /\ faults' \in 0..MaxStepFaults
    BY <1>1, <1>6 DEF Down, DrillRecord
  <2> QED  BY <1>1, <2>1, DownKeeps
<1>7. ASSUME NEW left \in SUBSET Things, DownFails(left) PROVE DrillInv'
  <2>1. /\ drill.phase = "down" /\ docker' \in SUBSET Things /\ healthy' = FALSE
        /\ drill' = [drill EXCEPT !.phase = "list", !.trouble = TRUE]
        /\ UNCHANGED <<scratch, moment>> /\ faults' \in 0..MaxStepFaults
    BY <1>1, <1>7 DEF DownFails, Fault
  <2> QED  BY <2>1, DownKeeps
<1>8. CASE List
  <2>1. PICK count \in -1..1 :
           count = IF Listings[Len(drill.counts) + 1] \in docker THEN 1 ELSE 0
    OBVIOUS
  <2>2. /\ drill.phase = "list" /\ Len(drill.counts) < Len(Listings)
        /\ UNCHANGED <<docker, healthy, scratch, moment>> /\ faults' \in 0..MaxStepFaults
        /\ drill' = [drill EXCEPT !.counts = Append(drill.counts, count),
                                  !.trouble = drill.trouble]
    BY <1>1, <1>8, <2>1 DEF List, DrillRecord
  <2> QED  BY <1>1, <2>1, <2>2, CountKeeps
<1>9. CASE ListFails
  <2>1. PICK count \in -1..1 : count = -1  OBVIOUS
  <2>2. /\ drill.phase = "list" /\ Len(drill.counts) < Len(Listings)
        /\ UNCHANGED <<docker, healthy, scratch, moment>> /\ faults' \in 0..MaxStepFaults
        /\ drill' = [drill EXCEPT !.counts = Append(drill.counts, count),
                                  !.trouble = TRUE]
    BY <1>1, <1>9, <2>1 DEF ListFails, Fault
  <2> QED  BY <2>1, <2>2, CountKeeps
<1>10. CASE EndDrill  BY <1>10, JudgedKeeps
<1>11. CASE DrillLost
  <2>1. /\ drill.phase \in {"steps", "down", "list"}
        /\ drill' = [drill EXCEPT !.phase = "lost"]
        /\ UNCHANGED <<docker, healthy, scratch, moment>> /\ faults' \in 0..MaxStepFaults
    BY <1>1, <1>11 DEF DrillLost, Fault
  <2>2. /\ drill' \in DrillRecord /\ drill'.phase = "lost" /\ drill'.since = drill.since
        /\ drill'.records = drill.records /\ drill'.failed = drill.failed
        /\ drill'.rto = drill.rto /\ drill'.step = drill.step
    BY <1>1, <2>1 DEF DrillRecord, DrillPhases
  <2>3. DrillShape'  BY <1>1, <2>1, <2>2 DEF DrillShape
  <2> QED  BY <1>1, <2>1, <2>2, <2>3, EvidenceKept
<1>12. ASSUME drill' = drill, drill.phase = "steps", docker' = docker, scratch' = scratch,
              healthy' \in BOOLEAN, moment' \in 0..MaxMoments, moment <= moment',
              faults' \in 0..MaxStepFaults
       PROVE  DrillInv'
  <2>1. DrillShape'  BY <1>1, <1>12 DEF DrillShape
  <2>2. drill'.since <= moment'  BY <1>1, <1>12
  <2> QED  BY <1>12, <2>1, <2>2, EvidenceKept
<1>13. CASE ServiceDies
  <2>1. faults' \in 0..MaxStepFaults /\ healthy' = FALSE
    BY <1>1, <1>13 DEF ServiceDies, Fault
  <2>2. moment' \in 0..MaxMoments /\ moment <= moment'  BY <1>1, <1>13 DEF ServiceDies
  <2>3. healthy' \in BOOLEAN  BY <2>1
  <2> QED  BY <1>12, <1>13, <2>1, <2>2, <2>3 DEF ServiceDies
<1>14. CASE Wait
  <2>1. moment' \in 0..MaxMoments /\ moment <= moment'  BY <1>1, <1>14 DEF Wait
  <2> QED  BY <1>1, <1>12, <1>14, <2>1 DEF Wait
<1>15. CASE UNCHANGED drillVars
  BY <1>15
  DEF drillVars, DrillInv, DrillShape, RehearsalSafe, RehearsedIsClean, ResidualsTrue,
      NothingAfterFailure, DrillGoesOn, DrillOver, CountedRight, RestoredInTime
<1> QED
  BY <1>2, <1>3, <1>4, <1>5, <1>6, <1>7, <1>8, <1>9, <1>10, <1>11, <1>13, <1>14, <1>15
  DEF DrillNext

\* Whatever command fails with or without its effect, whatever service dies,
\* however long it takes and whenever the process is lost, a rehearsal reported as
\* completed went through the whole plan, in time, and left nothing; the residuals
\* it reports are there; and after a step that broke nothing ran but the cleanup
\* (executeLegacyRehearsal, cleanupRehearsal).
THEOREM RehearsalIsSafe == DrillSpec => []RehearsalSafe
<1>1. DrillInv => RehearsalSafe  BY DEF DrillInv
<1> QED  BY <1>1, DrillInitInv, DrillStep, PTL DEF DrillSpec

-----------------------------------------------------------------------------
(* What a release remembers and fails at are steps of its plan. *)

LEMMA ReleaseTyped == ReleaseInv => ReleaseTypeOK
<1> SUFFICES ASSUME ReleaseInv PROVE ReleaseTypeOK  OBVIOUS
<1>1. /\ live \in [Parts -> Versions] /\ exec \in Execution
      /\ exec.action = "rollback" => exec.at <= 5 /\ exec.failed <= 5
      /\ releases \in 0..MaxReleases /\ trouble \in 0..MaxCommandFaults
      /\ DoneInOrder /\ Len(exec.done) <= Mutating(exec.action)
  BY DEF ReleaseInv, ReleaseShape
<1>2. /\ exec.action \in {"apply", "rollback"} /\ exec.compensate \in BOOLEAN
      /\ exec.phase \in ExecPhases /\ exec.at \in 1..8 /\ exec.next \in 1..3
      /\ exec.done \in Seq(1..8) /\ exec.failed \in 0..8
  BY <1>1 DEF Execution
<1>3. CASE exec.action = "apply"
  <2>1. Len(Steps) = 8  BY <1>3, ApplyPlan DEF Steps, Plan
  <2> QED  BY <1>1, <1>2, <2>1 DEF ReleaseTypeOK, ExecPhases
<1>4. CASE exec.action = "rollback"
  <2>1. Len(Steps) = 5  BY <1>4, RollbackPlan DEF Steps, Plan
  <2>2. \A n \in 1..Len(exec.done) : exec.done[n] \in 1..5
    <3> SUFFICES ASSUME NEW n \in 1..Len(exec.done) PROVE exec.done[n] \in 1..5  OBVIOUS
    <3>1. First(exec.action) = 2 /\ Mutating(exec.action) = 3
      BY <1>4 DEF First, Mutating
    <3>2. n \in Nat /\ 1 <= n /\ n <= 3 /\ exec.done[n] = 2 + n - 1
      BY <1>1, <1>2, <3>1, LenProperties DEF DoneInOrder
    <3> QED  BY <3>2
  <2>3. exec.done \in Seq(1..5)  BY <1>2, <2>2, SeqDef, LenProperties
  <2>4. exec.at \in 1..5 /\ exec.failed \in 0..5  BY <1>1, <1>2, <1>4
  <2> QED  BY <1>1, <1>2, <2>1, <2>3, <2>4 DEF ReleaseTypeOK, ExecPhases
<1> QED  BY <1>2, <1>3, <1>4

\* A release stays within its plan, however many commands fail and however often
\* it is started (createReleaseActivationPlan).
THEOREM ReleaseTypeCorrect == ReleaseSpec => []ReleaseTypeOK
BY ReleaseTyped, ReleaseInitInv, ReleaseStep, PTL DEF ReleaseSpec

-----------------------------------------------------------------------------
(* A rehearsal has failed when one of its records has. *)

HasFailed(records) == \E i \in 1..Len(records) : records[i].status = "failed"

LEMMA FailureAppended ==
    ASSUME NEW S, NEW records \in Seq(S), NEW note
    PROVE  HasFailed(Append(records, note)) <=>
             HasFailed(records) \/ note.status = "failed"
<1>1. /\ Len(records) \in Nat /\ Len(Append(records, note)) = Len(records) + 1
      /\ Append(records, note)[Len(records) + 1] = note
      /\ \A i \in 1..Len(records) : Append(records, note)[i] = records[i]
  BY AppendProperties, LenProperties
<1> QED  BY <1>1 DEF HasFailed

RestoreTold == rehearsal.failed <=> HasFailed(rehearsal.records)

\* A step of the rehearsal records nothing, or what becomes of its step.
RestoreQuiet ==
    rehearsal'.records = rehearsal.records /\ rehearsal'.failed = rehearsal.failed

RestoreTells(id, status) ==
    /\ rehearsal'.records = Append(rehearsal.records, [id |-> id, status |-> status])
    /\ rehearsal'.failed <=> rehearsal.failed \/ status = "failed"

LEMMA ThrownTells ==
    ASSUME rehearsal \in RehearsalRecord, rehearsal' = Thrown(rehearsal)
    PROVE  RestoreTells(rehearsal.step, "failed")
BY DEF RehearsalRecord, Thrown, Entering, Recorded, RestoreTells

LEMMA DoneTells ==
    ASSUME rehearsal \in RehearsalRecord, NEW id, NEW next,
           rehearsal' = Entering(Recorded(rehearsal, id, "succeeded"), next)
    PROVE  RestoreTells(id, "succeeded")
BY DEF RehearsalRecord, Entering, Recorded, RestoreTells

LEMMA CleanedTells ==
    ASSUME rehearsal \in RehearsalRecord, NEW error \in BOOLEAN, NEW seen \in BOOLEAN,
           rehearsal' = Cleaned(error, seen)
    PROVE  \E status : RestoreTells("cleanup", status)
<1>1. CASE error \/ seen
  <2>1. RestoreTells("cleanup", "failed")
    BY <1>1 DEF RehearsalRecord, Cleaned, Recorded, RestoreTells
  <2> QED  BY <2>1
<1>2. CASE ~(error \/ seen)
  <2>1. RestoreTells("cleanup", "succeeded")
    BY <1>2 DEF RehearsalRecord, Cleaned, Recorded, RestoreTells
  <2> QED  BY <2>1
<1> QED  BY <1>1, <1>2

LEMMA RestoreRecords ==
    ASSUME RestoreInv, [RestoreNext]_restoreVars
    PROVE  RestoreQuiet \/ \E id, status : RestoreTells(id, status)
<1>1. rehearsal \in RehearsalRecord  BY DEF RestoreInv, RestoreShape
<1>2. CASE BeginRehearsal
  BY <1>1, <1>2 DEF BeginRehearsal, Entering, RehearsalRecord, RestoreQuiet
<1>3. CASE ReadSource
  BY <1>1, <1>3, ThrownTells DEF ReadSource, RehearsalRecord, RestoreQuiet
<1>4. CASE PreflightEnds
  <2>1. CASE time > MaxAge  BY <1>1, <1>4, <2>1, ThrownTells DEF PreflightEnds
  <2>2. CASE ~(time > MaxAge)
    <3>1. RestoreTells("snapshot-preflight", "succeeded")
      BY <1>1, <1>4, <2>2
      DEF PreflightEnds, RehearsalRecord, Entering, Recorded, RestoreTells
    <3> QED  BY <3>1
  <2> QED  BY <2>1, <2>2
<1>5. CASE MakeRoot \/ WriteState \/ KillRehearsal
  BY <1>1, <1>5 DEF MakeRoot, WriteState, KillRehearsal, RehearsalRecord, RestoreQuiet
<1>6. CASE RestoreEnds  BY <1>1, <1>6, DoneTells DEF RestoreEnds
<1>7. CASE ReadRestored
  BY <1>1, <1>7, ThrownTells DEF ReadRestored, RehearsalRecord, RestoreQuiet
<1>8. CASE GateEnds  BY <1>1, <1>8, DoneTells DEF GateEnds
<1>9. CASE Reconcile  BY <1>1, <1>9, ThrownTells, DoneTells DEF Reconcile
<1>10. CASE Cleanup  BY <1>1, <1>10, CleanedTells DEF Cleanup
<1>11. ASSUME NEW seen \in BOOLEAN, CleanupFails(seen)
       PROVE  \E id, status : RestoreTells(id, status)
  BY <1>1, <1>11, CleanedTells DEF CleanupFails
<1>12. CASE IoFails  BY <1>1, <1>12, ThrownTells DEF IoFails
<1>13. CASE Tick \/ UNCHANGED restoreVars \/ \E k \in Kinds : EditCheckout(k) \/ EditRestored(k)
  BY <1>13 DEF Tick, restoreVars, EditCheckout, EditRestored, RestoreQuiet
<1> QED
  BY <1>2, <1>3, <1>4, <1>5, <1>6, <1>7, <1>8, <1>9, <1>10, <1>11, <1>12, <1>13
  DEF RestoreNext

\* The evidence and the verdict of a restore rehearsal are of their types, and it
\* has failed when a step of it has (executeStateRestoreRehearsal).
THEOREM RestoreTypeCorrect == RestoreSpec => []RestoreTypeOK
<1>1. RestoreInit => RestoreInv /\ RestoreTold
  BY RestoreInitInv DEF RestoreInit, IdleRehearsal, RestoreTold, HasFailed
<1>2. RestoreInv /\ RestoreTold /\ [RestoreNext]_restoreVars => (RestoreInv /\ RestoreTold)'
  <2> SUFFICES ASSUME RestoreInv, RestoreTold, [RestoreNext]_restoreVars PROVE RestoreTold'
    BY RestoreStep
  <2>1. rehearsal.records \in Seq(Records)
    BY DEF RestoreInv, RestoreShape, RehearsalRecord
  <2>2. CASE RestoreQuiet  BY <2>2 DEF RestoreQuiet, RestoreTold
  <2>3. ASSUME NEW id, NEW status, RestoreTells(id, status) PROVE RestoreTold'
    <3> DEFINE note == [id |-> id, status |-> status]
    <3>1. HasFailed(Append(rehearsal.records, note)) <=>
             HasFailed(rehearsal.records) \/ note.status = "failed"
      BY <2>1, FailureAppended
    <3> QED  BY <2>3, <3>1 DEF RestoreTells, RestoreTold
  <2> QED  BY <2>2, <2>3, RestoreRecords
<1>3. RestoreInv /\ RestoreTold => RestoreTypeOK
  <2>1. Len(KindOrder) = 3  BY DEF KindOrder
  <2> QED
    BY <2>1 DEF RestoreInv, RestoreShape, RehearsalRecord, RestoreTold, HasFailed,
                RestoreTypeOK
<1> QED  BY <1>1, <1>2, <1>3, PTL DEF RestoreSpec

-----------------------------------------------------------------------------
DrillTold == drill.failed <=> HasFailed(drill.records)

DrillQuiet == drill'.records = drill.records /\ drill'.failed = drill.failed

DrillTells(id, status) ==
    /\ drill'.records = Append(drill.records, [id |-> id, status |-> status])
    /\ drill'.failed <=> drill.failed \/ status = "failed"

LEMMA DrillRecords ==
    ASSUME DrillInv, [DrillNext]_drillVars
    PROVE  DrillQuiet \/ \E id, status : DrillTells(id, status)
<1>1. drill \in DrillRecord  BY DEF DrillInv, DrillShape
<1>2. CASE BeginDrill \/ Down \/ List \/ ListFails \/ DrillLost
  BY <1>1, <1>2 DEF BeginDrill, Down, List, ListFails, DrillLost, DrillRecord, DrillQuiet
<1>3. CASE StepCommand
  BY <1>1, <1>3 DEF StepCommand, Started, DrillRecord, DrillQuiet
<1>4. CASE StepDone
  <2> DEFINE id == PlanSteps[drill.step].id
             elapsed == moment - drill.since
             timed == IF drill.step = Restore THEN [drill EXCEPT !.rto = elapsed] ELSE drill
  <2>1. timed.records = drill.records /\ timed.failed = drill.failed
        /\ DOMAIN timed = DOMAIN drill
    BY <1>1 DEF DrillRecord
  <2>2. \/ drill' = Broken(timed)
        \/ \E step, phase : drill' = [Noted(timed, id, "succeeded") EXCEPT
                                        !.step = step, !.next = 1, !.phase = phase]
    BY <1>4 DEF StepDone
  <2>3. CASE drill' = Broken(timed)
    <3>1. DrillTells(PlanSteps[timed.step].id, "failed")
      BY <1>1, <2>3 DEF Broken, Noted, DrillRecord, DrillTells
    <3> QED  BY <3>1
  <2>4. ASSUME NEW step, NEW phase,
               drill' = [Noted(timed, id, "succeeded") EXCEPT
                           !.step = step, !.next = 1, !.phase = phase]
        PROVE  DrillTells(id, "succeeded")
    BY <1>1, <2>4 DEF Noted, DrillRecord, DrillTells
  <2> QED  BY <2>2, <2>3, <2>4
<1>5. ASSUME NEW made \in SUBSET Things, StepFails(made)
      PROVE  \E id, status : DrillTells(id, status)
  <2>1. DrillTells(PlanSteps[Started(drill).step].id, "failed")
    BY <1>1, <1>5 DEF StepFails, Broken, Noted, Started, DrillRecord, DrillTells
  <2> QED  BY <2>1
<1>6. ASSUME NEW left \in SUBSET Things, DownFails(left) PROVE DrillQuiet
  BY <1>1, <1>6 DEF DownFails, DrillRecord, DrillQuiet
<1>7. CASE EndDrill
  <2> DEFINE broken == \/ drill.trouble
                       \/ \E i \in 1..Len(drill.counts) : drill.counts[i] # 0
  <2>1. drill' = Judged  BY <1>7 DEF EndDrill
  <2>2. CASE broken
    <3>1. DrillTells("cleanup", "failed")
      BY <1>1, <2>1, <2>2 DEF Judged, Noted, DrillRecord, DrillTells
    <3> QED  BY <3>1
  <2>3. CASE ~broken
    <3>1. DrillTells("cleanup", "succeeded")
      BY <1>1, <2>1, <2>3 DEF Judged, Noted, DrillRecord, DrillTells
    <3> QED  BY <3>1
  <2> QED  BY <2>2, <2>3
<1>8. CASE ServiceDies \/ Wait \/ UNCHANGED drillVars
  BY <1>8 DEF ServiceDies, Wait, drillVars, DrillQuiet
<1> QED  BY <1>2, <1>3, <1>4, <1>5, <1>6, <1>7, <1>8 DEF DrillNext

\* The evidence and the verdict of a rollback rehearsal are of their types, and it
\* has failed when a step of it, or its cleanup, has (executeLegacyRehearsal).
THEOREM DrillTypeCorrect == DrillSpec => []DrillTypeOK
<1>1. DrillInit => DrillInv /\ DrillTold
  BY DrillInitInv DEF DrillInit, IdleDrill, DrillTold, HasFailed
<1>2. DrillInv /\ DrillTold /\ [DrillNext]_drillVars => (DrillInv /\ DrillTold)'
  <2> SUFFICES ASSUME DrillInv, DrillTold, [DrillNext]_drillVars PROVE DrillTold'
    BY DrillStep
  <2>1. drill.records \in Seq(DrillNote)
    BY DEF DrillInv, DrillShape, DrillRecord
  <2>2. CASE DrillQuiet  BY <2>2 DEF DrillQuiet, DrillTold
  <2>3. ASSUME NEW id, NEW status, DrillTells(id, status) PROVE DrillTold'
    <3> DEFINE note == [id |-> id, status |-> status]
    <3>1. HasFailed(Append(drill.records, note)) <=>
             HasFailed(drill.records) \/ note.status = "failed"
      BY <2>1, FailureAppended
    <3> QED  BY <2>3, <3>1 DEF DrillTells, DrillTold
  <2> QED  BY <2>2, <2>3, DrillRecords
<1>3. DrillInv /\ DrillTold => DrillTypeOK
  BY PlanIs DEF DrillInv, DrillShape, DrillRecord, DrillPhases, DrillNote, DrillTold,
                HasFailed, DrillTypeOK
<1> QED  BY <1>1, <1>2, <1>3, PTL DEF DrillSpec
=============================================================================
