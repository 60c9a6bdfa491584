-------------------------- MODULE MCAssessmentJobs --------------------------
(***************************************************************************)
(* Instances of AssessmentJobs for TLC.  The type of a job follows from    *)
(* the set it is in: sync jobs are scans of the synchronous type, async    *)
(* jobs scans of the policy explorer.                                      *)
(***************************************************************************)
EXTENDS AssessmentJobs, TLC

CONSTANTS SyncJobs, AsyncJobs, SyncType, AsyncType

MCJobs   == SyncJobs \cup AsyncJobs
MCTypeOf == [i \in MCJobs |-> IF i \in SyncJobs THEN SyncType ELSE AsyncType]
MCTypes  == {MCTypeOf[i] : i \in MCJobs}
MCSyncTypes == {SyncType} \cap MCTypes

Symmetry == Permutations(SyncJobs) \cup Permutations(AsyncJobs)
              \cup Permutations(Deleters)

\* Scans of different types work on different items, so that a run explores the
\* types one by one and not the product of their steps.  Only StartScan, of
\* which no fairness is assumed, is restricted by it.
OtherTypesIdle(i) == \A j \in Jobs : TypeOf[j] # TypeOf[i] => pc[j] = "idle"

OneTypeNext == (\E i \in Jobs : OtherTypesIdle(i) /\ StartScan(i)) \/ Continue

OneTypeSpec == Init /\ [][OneTypeNext]_vars

OneTypeFairSpec == OneTypeSpec /\ Fairness

\* The behaviours in which no two windows meet, so that a counterexample has
\* another reason than the race of two start requests.
ApartSpec == Init /\ [][Next /\ UNCHANGED overlapped]_vars
=============================================================================
