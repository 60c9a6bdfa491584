---------------------------- MODULE MCPolicyScan ----------------------------
(***************************************************************************)
(* Instances of PolicyScan for TLC: iam is scanned once per account, sqs   *)
(* and kms region by region, and polly is not supported.                   *)
(***************************************************************************)
EXTENDS PolicyScan, TLC

CONSTANTS iam, sqs, kms, polly

MCSupported == Services \ {polly}
MCGlobal    == Services \cap {iam}

Symmetry == Permutations(Accounts) \cup Permutations(Regions)
=============================================================================
