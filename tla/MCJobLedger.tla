----------------------------- MODULE MCJobLedger -----------------------------
(***************************************************************************)
(* The job ledger alone: one article published under two job ids and one   *)
(* other item.                                                             *)
(***************************************************************************)
EXTENDS JobLedger, TLC

CONSTANTS a1, a2, b1, article, link

MCKeys     == {article, link}
MCJobIds   == {a1, a2, b1}
MCKeyOf    == a1 :> article @@ a2 :> article @@ b1 :> link
MCArticles == {article}
=============================================================================
