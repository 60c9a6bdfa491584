------------------------------ MODULE TaskScan ------------------------------
(***************************************************************************)
(* What one scan of a service in an account promises, whichever scanner    *)
(* does it, and what PolicyScan takes for a task: places (the regions, or  *)
(* the one place of a service without regions) are visited one by one,     *)
(* none twice.  All policies of a place are kept, or it is recorded as     *)
(* failed and none is; a scan that cannot go on drops everything; and one  *)
(* that returns has visited every place.                                   *)
(***************************************************************************)
CONSTANT Scopes \* the sets of places a scan may be asked to visit

VARIABLES
  left,    \* places that are not settled
  found,   \* places whose policies the scan holds
  failed,  \* places recorded as failed
  outcome  \* how the scan ended, or "running"

vars == <<left, found, failed, outcome>>

Init ==
  /\ left \in Scopes
  /\ found = {}
  /\ failed = {}
  /\ outcome = "running"

\* In the next three p is one of the places left.  The place has policies or none.
Examine(p) ==
  /\ outcome = "running"
  /\ left' = left \ {p}
  /\ found' \in {found, found \cup {p}}
  /\ UNCHANGED <<failed, outcome>>

Record(p) ==
  /\ outcome = "running"
  /\ left' = left \ {p}
  /\ failed' = failed \cup {p}
  /\ UNCHANGED <<found, outcome>>

\* The caller records a failed task for all places, or goes down as well.
GiveUp(p) ==
  /\ outcome = "running"
  /\ left' = left \ {p}
  /\ found' = {}
  /\ outcome' \in {"recorded", "crashed"}
  /\ UNCHANGED failed

Return ==
  /\ outcome = "running"
  /\ left = {}
  /\ outcome' = "returned"
  /\ UNCHANGED <<left, found, failed>>

Next == (\E p \in left : Examine(p) \/ Record(p) \/ GiveUp(p)) \/ Return

Spec == Init /\ [][Next]_vars
=============================================================================
