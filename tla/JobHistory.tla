----------------------------- MODULE JobHistory -----------------------------
(***************************************************************************)
(* What the job history promises its readers, whatever calls implement it: *)
(* a job appears once, as ACTIVE and only while no other job of its type   *)
(* is; it then gets an outcome, may be deleted afterwards, and never comes *)
(* back.  Two things limit the promise.  A job whose scan is lost stays    *)
(* ACTIVE without keeping others out, until it expires.  And once two      *)
(* requests of a type have raced, two of its jobs may be ACTIVE at once    *)
(* and a deleted one may come back with its outcome.  AssessmentJobs       *)
(* implements it for the synchronous types.                                *)
(***************************************************************************)
CONSTANTS
  Jobs,     \* job ids
  TypeOf,   \* assessment type of each job
  Outcomes  \* statuses of a finished job

VARIABLES
  view,     \* status of each job as listed, "absent" when it is not
  created,  \* job ids that are used up
  lost,     \* jobs whose scan has been given up
  raced     \* types two requests of which have met

vars == <<view, created, lost, raced>>

Init ==
  /\ view = [i \in Jobs |-> "absent"]
  /\ created = {}
  /\ lost = {}
  /\ raced = {}

Alone(i) == \A j \in Jobs : TypeOf[j] = TypeOf[i] /\ view[j] = "ACTIVE" => j \in lost

Create(i) ==
  /\ i \notin created
  /\ Alone(i) \/ TypeOf[i] \in raced
  /\ view' = [view EXCEPT ![i] = "ACTIVE"]
  /\ created' = created \cup {i}
  /\ UNCHANGED <<lost, raced>>

Finish(i) ==
  /\ view[i] = "ACTIVE"
  /\ i \notin lost
  /\ \E s \in Outcomes : view' = [view EXCEPT ![i] = s]
  /\ UNCHANGED <<created, lost, raced>>

\* A job already listed as succeeded may still turn out to have failed, when
\* an exception follows its last write.
Revoke(i) ==
  /\ view[i] = "SUCCEEDED"
  /\ view' = [view EXCEPT ![i] = "FAILED"]
  /\ UNCHANGED <<created, lost, raced>>

\* A deletion, or the expiry of a finished or lost job.
Remove(i) ==
  /\ view[i] \in Outcomes \/ (view[i] = "ACTIVE" /\ i \in lost)
  /\ view' = [view EXCEPT ![i] = "absent"]
  /\ UNCHANGED <<created, lost, raced>>

Return(i) ==
  /\ view[i] = "absent"
  /\ i \in created
  /\ TypeOf[i] \in raced
  /\ \E s \in Outcomes : view' = [view EXCEPT ![i] = s]
  /\ UNCHANGED <<created, lost, raced>>

Lose(i) ==
  /\ i \notin lost
  /\ created' = created \cup {i}
  /\ lost' = lost \cup {i}
  /\ UNCHANGED <<view, raced>>

Meet(t) ==
  /\ raced' = raced \cup {t}
  /\ UNCHANGED <<view, created, lost>>

Next ==
  \/ \E i \in Jobs :
       Create(i) \/ Finish(i) \/ Revoke(i) \/ Remove(i) \/ Return(i) \/ Lose(i)
  \/ \E i \in Jobs : Meet(TypeOf[i])

\* Every job that is not lost gets an outcome.
Fairness == \A i \in Jobs : WF_vars(Finish(i))

Spec == Init /\ [][Next]_vars /\ Fairness
=============================================================================
