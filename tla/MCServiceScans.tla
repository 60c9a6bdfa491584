--------------------------- MODULE MCServiceScans ---------------------------
(***************************************************************************)
(* Instances of ServiceScans for TLC: every scanner, one after the other.  *)
(***************************************************************************)
EXTENDS ServiceScans, TLC

AllServices == DOMAIN ScanPolicyStrategy

Symmetry == Permutations(Things) \cup Permutations(Regions)
=============================================================================
