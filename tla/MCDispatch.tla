----------------------------- MODULE MCDispatch -----------------------------
(***************************************************************************)
(* Instances of the dispatch pipeline.  Solo: an article with one job id.  *)
(* Twin: the same article published under two job ids.  Chain: a link, its *)
(* follow-up article, and the two job ids the follow-up can be published   *)
(* under.                                                                  *)
(***************************************************************************)
EXTENDS Dispatch, TLC

CONSTANTS j1, j2, j3, link, article, cubox, archive

Submits(js) == {SentMessage(j) : j \in js}
Replays(js) == {ReplayMessage(j, o) : j \in js, o \in ReplayKeys}

OneKeys     == {article}
OneEffects  == {<<article, archive>>}
OneFollowUp == [k \in OneKeys |-> NoKey]

SoloJobIds   == {j1}
SoloKeyOf    == [j \in SoloJobIds |-> article]
SoloMessages == Submits(SoloJobIds) \cup Replays(SoloJobIds)

TwinJobIds   == {j1, j2}
TwinKeyOf    == [j \in TwinJobIds |-> article]
TwinMessages == Submits(TwinJobIds) \cup Replays(TwinJobIds)

ChainKeys      == {link, article}
ChainJobIds    == {j1, j2, j3}
ChainKeyOf     == [j \in ChainJobIds |-> IF j = j1 THEN link ELSE article]
ChainEffects   == {<<link, cubox>>, <<article, archive>>}
ChainFollowUp  == [k \in ChainKeys |-> IF k = link THEN article ELSE NoKey]
ChainSubmitted == {j1}
ChainMessages  == Submits(ChainJobIds) \cup Replays(ChainJobIds)

Articles == {article}

\* bound on the faults and refusals of one behaviour
MaxMishaps == 2

\* Faults and refusals, or a claim that is outlived, but not both; it is an
\* external write that outlives it, and every request is answered in its tick.
MishapsApart ==
    /\ overran' => faults' = 0 /\ refusals' = 0
    /\ faults' + refusals' <= MaxMishaps
    /\ Tick => \A w \in Workers : worker[w].pc \in {"idle", "deliver"}

\* workers and lease ids are only ever compared for equality
Symmetry == Permutations(Workers) \cup Permutations(Leases)
=============================================================================
