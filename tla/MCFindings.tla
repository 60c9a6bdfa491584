----------------------------- MODULE MCFindings -----------------------------
(***************************************************************************)
(* Instances of Findings for TLC.                                          *)
(***************************************************************************)
EXTENDS Findings, TLC

CONSTANT NumJobs

MCJobs == 1 .. NumJobs

Symmetry == Permutations(Deleters) \cup Permutations(Keys)
=============================================================================
