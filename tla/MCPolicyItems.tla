--------------------------- MODULE MCPolicyItems ---------------------------
(***************************************************************************)
(* Instances of PolicyItems for TLC: a document of two statements, one of  *)
(* one, and one whose only statement is not in a list.                     *)
(***************************************************************************)
EXTENDS PolicyItems, TLC

CONSTANTS long, short, single

MCSize == (long :> 2) @@ (short :> 1) @@ (single :> 1)

\* Searches for everything, for one document, and for one statement of it.
MCFilters == {Documents \X (1 .. MaxSize), {<<short, 1>>, <<long, 2>>}, {<<long, 2>>}}
=============================================================================
