------------------------------- MODULE MCWebUi -------------------------------
(***************************************************************************)
(* Instances of WebUi for TLC.                                             *)
(***************************************************************************)
EXTENDS WebUi, TLC

\* The pages that list jobs; the page of a job opened by its address; the others
\* alone, with the pages of jobs that they lead to.  The page of trusted access is
\* left out: it is that of delegated admins, but for its notifications.
SomeMenus ==
  {{"/", "/jobs"}, Jobs, {"/delegated-admin"}, {"/resource-based-policy"}, {"/policy-explorer"}}

Symmetry == Permutations(Jobs) \cup Permutations(Searches) \cup Permutations(Slots)
=============================================================================
