--------------------------- MODULE MCCollection ---------------------------
(***************************************************************************)
(* The task list alone: three tasks, two of them with one title, and no    *)
(* fault, so that what is seen is what one undisturbed collector does.     *)
(***************************************************************************)
EXTENDS Collection

MCTitleOf == <<1, 2, 1>>
=============================================================================
