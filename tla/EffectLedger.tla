---------------------------- MODULE EffectLedger ----------------------------
(***************************************************************************)
(* The ledger of external side effects: table worker_effects with          *)
(* claimEffect and finishEffect                                            *)
(* (apps/api/src/control-plane-postgres-effects.ts).  An effect is one     *)
(* item sent to one destination; its key is dedupeKey:destination.         *)
(***************************************************************************)
EXTENDS Naturals

CONSTANTS
    Effects,      \* effect keys
    JobIds,       \* job ids
    NoJob,        \* no job id
    Stale         \* ticks after which a processing effect may be taken over

VARIABLE effects  \* worker_effects

\* job: the job id that inserted the row; a later claim leaves it there
EffectRow ==
    [status : {"absent", "processing", "done", "failed", "uncertain"},
     job    : JobIds \cup {NoJob},
     age    : 0..(Stale + 1)]

NoEffect == [status |-> "absent", job |-> NoJob, age |-> 0]

EffectTypeOK == effects \in [Effects -> EffectRow]
EffectInit   == effects = [e \in Effects |-> NoEffect]

\* the answers of claimEffect that leave the row alone
EffectDone(e)      == effects[e].status = "done"
EffectUncertain(e) == effects[e].status = "uncertain"
EffectBusy(e)      == effects[e].status = "processing" /\ effects[e].age <= Stale

\* ticks to the retryAt of a busy answer, updated_at plus ten minutes
EffectWait(e) == IF effects[e].age < Stale THEN Stale - effects[e].age ELSE 0

ClaimUnrefreshed(e, j) ==
    /\ ~EffectDone(e) /\ ~EffectUncertain(e) /\ ~EffectBusy(e)
    /\ effects' = [effects EXCEPT ![e] =
                      [status |-> "processing", age |-> @.age,
                       job |-> IF @.status = "absent" THEN j ELSE @.job]]

ClaimEffect(e, j) ==
    /\ ~EffectDone(e) /\ ~EffectUncertain(e) /\ ~EffectBusy(e)
    /\ effects' = [effects EXCEPT ![e] =
                      [status |-> "processing", age |-> 0,
                       job |-> IF @.status = "absent" THEN j ELSE @.job]]

\* UPDATE ... WHERE effect_key = $6: whoever calls it, whatever the row says
FinishEffect(e, status) ==
    effects' = [effects EXCEPT ![e] = [@ EXCEPT !.status = status, !.age = 0]]

EffectTick ==
    effects' = [e \in Effects |->
                  [effects[e] EXCEPT !.age =
                      IF effects[e].status = "processing" /\ @ <= Stale THEN @ + 1 ELSE @]]
=============================================================================
