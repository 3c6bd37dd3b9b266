---------------------------- MODULE MCRateLimits ----------------------------
(***************************************************************************)
(* The two rate limits of an article, with requests that arrive a tick     *)
(* late: a day of six ticks and windows of two.                            *)
(***************************************************************************)
EXTENDS RateLimits, TLC

CONSTANTS daily, window

MCLength   == [s \in Scopes |-> IF s = daily THEN 6 ELSE 2]
MCLimit    == [s \in Scopes |-> IF s = daily THEN 3 ELSE 2]
MCBuckets  == 0..(MaxTime \div 2)
MCBucketOf == [s \in Scopes |-> [t \in 0..MaxTime |-> t \div MCLength[s]]]
MCEndOf    == [s \in Scopes |-> [b \in MCBuckets |-> (b + 1) * MCLength[s]]]

Symmetry == Permutations(Callers)
=============================================================================
