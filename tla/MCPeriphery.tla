---------------------------- MODULE MCPeriphery ----------------------------
(***************************************************************************)
(* What runs around the control plane, one part at a time as in            *)
(* MCControlPlane:                                                         *)
(*   archive  articles of one title saved by the pod's worker or by two    *)
(*            instances of the cloud;                                      *)
(*   mirror   three articles of a month mirrored by two workers;           *)
(*   collect  two collectors of one source with three saved items;         *)
(*   life     a worker process, its wake-ups and two staged messages;      *)
(*   effect   an effect that three workers claim from the D1 ledger;       *)
(*   beat     the heartbeat and its cache, read by two requests;           *)
(*   alerts   one alert policy and two captures, on either backend;        *)
(*   release, restore, drill   the operator's release plans and the two    *)
(*            rehearsals.                                                  *)
(***************************************************************************)
EXTENDS ArticleArchive, ImaMirror, Collection, WorkerLifecycle,
        D1Effects, HeartbeatCache, Alerts,
        Release, StateRestore, LegacyRehearsal, TLC

CONSTANTS i1, i2, u1, u2, title, a1, a2, a3, month, name, other

VARIABLE part

workVars  == <<archiveVars, imaVars, collectVars, lifeVars>>
cloudVars == <<d1EffectVars, heartbeatVars, alertVars>>
opsVars   == <<releaseVars, restoreVars, drillVars>>
planeVars == <<workVars, cloudVars, opsVars, part>>

MCArticleTitle == u1 :> title @@ u2 :> title
MCMonthOf == a1 :> month @@ a2 :> month @@ a3 :> month
MCNameOf  == a1 :> name @@ a2 :> name @@ a3 :> other
MCTitleOf == <<1, 2, 1>>

\* bound on the mishaps of one life of a worker
MaxMishaps == 2

\* after it no heartbeat is sent, and the readers watch the last one age
LastBeat == 3

\* the initial choices of the parts that stand still are fixed
PlaneInit ==
    /\ ArchiveInit /\ ImaInit /\ CollectInit /\ LifeInit
    /\ D1EffectInit /\ HeartbeatInit /\ AlertsInit
    /\ ReleaseInit /\ RestoreInit /\ DrillInit
    /\ part \in {"archive", "mirror", "collect", "life", "effect", "beat",
                 "alerts", "release", "restore", "drill"}
    /\ part # "archive" => deployment = "pod"
    /\ part # "collect" => source = "stars"
    /\ part # "life" => mode = "webhook"
    /\ part # "alerts" => backend = "d1"
    /\ part # "restore" => \A k \in Kinds : checkout[k] = "good"

ArchivePart ==
    /\ part = "archive"
    /\ ArchiveNext
    /\ deployment = "instances" => notes' = 0
    /\ Cardinality(shared') <= 1
    /\ day' = 0 \/ gitFaults' = 0
    /\ UNCHANGED <<imaVars, collectVars, lifeVars, cloudVars, opsVars>>

MirrorPart ==
    /\ part = "mirror"
    /\ ImaNext
    /\ bases' = 1 \/ imaFaults' = 0
    /\ UNCHANGED <<archiveVars, collectVars, lifeVars, cloudVars, opsVars>>

CollectPart ==
    /\ part = "collect"
    /\ CollectNext
    /\ torn' => collectFaults' = 0
    /\ UNCHANGED <<archiveVars, imaVars, lifeVars, cloudVars, opsVars>>

LifePart ==
    /\ part = "life"
    /\ LifeNext
    /\ mishaps'.kills + mishaps'.stops + mishaps'.hangUps + mishaps'.errors
          <= MaxMishaps
    /\ UNCHANGED <<archiveVars, imaVars, collectVars, cloudVars, opsVars>>

EffectPart ==
    /\ part = "effect"
    /\ D1EffectNext
    /\ UNCHANGED <<workVars, heartbeatVars, alertVars, opsVars>>

BeatPart ==
    /\ part = "beat"
    /\ HeartbeatNext
    /\ \A r \in Requests : asks'[r].phase = "upsert" => clock' <= LastBeat
    /\ UNCHANGED <<workVars, d1EffectVars, alertVars, opsVars>>

AlertsPart ==
    /\ part = "alerts"
    /\ AlertsNext
    /\ UNCHANGED <<workVars, d1EffectVars, heartbeatVars, opsVars>>

ReleasePart ==
    /\ part = "release"
    /\ ReleaseNext
    /\ UNCHANGED <<workVars, cloudVars, restoreVars, drillVars>>

RestorePart ==
    /\ part = "restore"
    /\ RestoreNext
    /\ UNCHANGED <<workVars, cloudVars, releaseVars, drillVars>>

DrillPart ==
    /\ part = "drill"
    /\ DrillNext
    /\ UNCHANGED <<workVars, cloudVars, releaseVars, restoreVars>>

PlaneNext ==
    /\ \/ ArchivePart \/ MirrorPart \/ CollectPart \/ LifePart
       \/ EffectPart \/ BeatPart \/ AlertsPart
       \/ ReleasePart \/ RestorePart \/ DrillPart
    /\ UNCHANGED part

PlaneSpec == PlaneInit /\ [][PlaneNext]_planeVars

\* The types of the ten parts' variables.
PeripheryTypeOK ==
    /\ ArchiveTypeOK /\ ImaTypeOK /\ CollectTypeOK /\ LifeTypeOK
    /\ D1EffectTypeOK /\ HeartbeatTypeOK /\ AlertsTypeOK
    /\ ReleaseTypeOK /\ RestoreTypeOK /\ DrillTypeOK
=============================================================================
