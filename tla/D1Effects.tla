----------------------------- MODULE D1Effects -----------------------------
(***************************************************************************)
(* The effect ledger of the D1 backend (apps/api/src/control-plane.ts) on  *)
(* the table of EffectLedger.  claimEffect reads the row and writes it     *)
(* later without looking again; only a first claim is safe, because the    *)
(* key of the table refuses the second row.                                *)
(***************************************************************************)
EXTENDS EffectLedger

CONSTANTS
    Writers,      \* workers that claim an effect and write to its destination
    MaxWrites     \* bound on the writes of an effect

ASSUME D1EffectAssumption ==
    /\ "none" \notin Effects
    /\ NoJob \notin JobIds
    /\ Stale \in Nat /\ MaxWrites \in Nat

VARIABLES
    claims,       \* claims[w]: phase, effect, and the status that was read
    writes,       \* history: writes[e], what arrived at the destination
    takenOver     \* history: effects claimed after their first claim

d1EffectVars == <<effects, claims, writes, takenOver>>

NoClaim == [phase |-> "none", effect |-> "none", seen |-> "none"]

D1EffectInit ==
    /\ EffectInit
    /\ claims = [w \in Writers |-> NoClaim]
    /\ writes = [e \in Effects |-> 0]
    /\ takenOver = {}

\* the SELECT of claimEffect; done, uncertain and busy are answered
ReadEffect(w, e) ==
    /\ claims[w].phase = "none"
    /\ ~EffectDone(e) /\ ~EffectUncertain(e) /\ ~EffectBusy(e)
    /\ claims' = [claims EXCEPT ![w] =
                    [phase |-> "read", effect |-> e,
                     seen |-> effects[e].status]]
    /\ UNCHANGED <<effects, writes, takenOver>>

Processing(e) ==
    [effects EXCEPT ![e] = [@ EXCEPT !.status = "processing", !.age = 0]]

\* mutant: INSERT OR REPLACE
FirstRefusedNever(w) == FALSE

\* the key of the table: a second row is not inserted
FirstRefused(w) ==
    /\ claims[w].seen = "absent"
    /\ effects[claims[w].effect].status # "absent"

\* the UPDATE, whatever has become of the row; or the INSERT, which fails
\* when there is one
WriteClaim(w, j) ==
    LET e     == claims[w].effect
        first == claims[w].seen = "absent"
    IN  /\ claims[w].phase = "read"
        /\ IF FirstRefused(w)
           THEN /\ claims' = [claims EXCEPT ![w] = NoClaim]
                /\ UNCHANGED <<effects, takenOver>>
           ELSE /\ claims' = [claims EXCEPT ![w].phase = "claimed"]
                /\ effects' = IF first
                              THEN [Processing(e) EXCEPT ![e].job = j]
                              ELSE Processing(e)
                /\ takenOver' = IF first THEN takenOver
                                ELSE takenOver \cup {e}
        /\ UNCHANGED writes

\* the destination is written, the answer may be lost
Deliver(w, arrived) ==
    LET e == claims[w].effect
    IN  /\ claims[w].phase = "claimed"
        /\ writes[e] < MaxWrites
        /\ writes' = [writes EXCEPT ![e] = IF arrived THEN @ + 1 ELSE @]
        /\ claims' = [claims EXCEPT ![w].phase = "written"]
        /\ UNCHANGED <<effects, takenOver>>

D1FinishEffect(w, status) ==
    /\ claims[w].phase = "written"
    /\ FinishEffect(claims[w].effect, status)
    /\ claims' = [claims EXCEPT ![w] = NoClaim]
    /\ UNCHANGED <<writes, takenOver>>

CrashWriter(w) ==
    /\ claims[w].phase # "none"
    /\ claims' = [claims EXCEPT ![w] = NoClaim]
    /\ UNCHANGED <<effects, writes, takenOver>>

AgeEffects ==
    /\ EffectTick
    /\ UNCHANGED <<claims, writes, takenOver>>

D1EffectNext ==
    \/ \E w \in Writers :
         \/ \E e \in Effects : ReadEffect(w, e)
         \/ \E j \in JobIds : WriteClaim(w, j)
         \/ \E arrived \in BOOLEAN : Deliver(w, arrived)
         \/ \E status \in {"done", "uncertain", "failed"} :
              D1FinishEffect(w, status)
         \/ CrashWriter(w)
    \/ AgeEffects

D1EffectSpec == D1EffectInit /\ [][D1EffectNext]_d1EffectVars

-----------------------------------------------------------------------------
(* Properties *)

\* Types of the variables.
D1EffectTypeOK ==
    /\ EffectTypeOK
    /\ claims \in [Writers ->
         [phase : {"none", "read", "claimed", "written"},
          effect : Effects \cup {"none"},
          seen : {"none", "absent", "processing", "failed"}]]
    /\ \A w \in Writers : claims[w].effect \in Effects <=> claims[w] # NoClaim
    /\ writes \in [Effects -> 0..MaxWrites]
    /\ takenOver \subseteq Effects

Working(w, e) ==
    claims[w].phase \in {"claimed", "written"} /\ claims[w].effect = e

\* An effect that nobody has taken over is written at most once, and one
\* worker at most is at it: two workers that both find no row do not both
\* get the claim.
FirstClaimExclusive ==
    \A e \in Effects \ takenOver :
      /\ writes[e] <= 1
      /\ \A v, w \in Writers : Working(v, e) /\ Working(w, e) => v = w
=============================================================================
