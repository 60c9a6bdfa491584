--------------------------- MODULE AssessmentJobs ---------------------------
(***************************************************************************)
(* The life of an assessment job in the job history table.                 *)
(*                                                                         *)
(* Every scan of an assessment type is a job.  The table holds one item    *)
(* per job and, per assessment type, one "last job marker" that names the  *)
(* latest job and repeats its status; a start request is rejected while    *)
(* the marker says ACTIVE.  Four kinds of Lambda invocation work on the    *)
(* table, each a process here whose every DynamoDB call is a step:         *)
(*   - AssessmentRunner.run_assessment (pc, status), one per job;          *)
(*   - the state machine an asynchronous job starts, with the FinishJob or *)
(*     FailJob Lambda at its end (exec, result, verdict, attempts);        *)
(*   - JobsService.delete_job (del);                                       *)
(*   - DynamoDB's own expiry of items.                                     *)
(* DynamoDB.put_item writes the same item twice, so every put is two steps.*)
(***************************************************************************)
EXTENDS Naturals, FiniteSets

CONSTANTS
  Types,        \* assessment types
  SyncTypes,    \* those scanned within the request (SynchronousScanStrategy)
  Jobs,         \* job ids; a runner invocation draws its own (uuid4)
  TypeOf,       \* the assessment type of each job
  Deleters,     \* concurrent DELETE requests
  NoJob,        \* "no marker stored", not a job id
  MaxAttempts,  \* invocations of FinishJob per execution (6 retries in AWS)
  Faults        \* what the environment may do, see FaultKinds

\* "crash": an invocation may time out, run out of memory or fail outside its
\* try block at any step.  "retry": Step Functions may invoke the finish
\* handler again.  "expire": DynamoDB removes items past their ExpiresAt.
\* "lag": a query may not show what was written last.
FaultKinds == {"crash", "retry", "expire", "lag"}

ASSUME ConstantsAssumption ==
  /\ SyncTypes \subseteq Types
  /\ TypeOf \in [Jobs -> Types]
  /\ NoJob \notin Jobs
  /\ MaxAttempts \in Nat \ {0}
  /\ Faults \subseteq FaultKinds

VARIABLES
  jobs,      \* stored job item: its JobStatus, or "absent"
  marker,    \* stored last job marker of each type
  failures,  \* jobs with a stored task failure
  findings,  \* how much of a job's findings is stored (see Findings for those
             \* that a later job takes over)
  pc,        \* next step of each runner invocation
  status,    \* JobStatus the runner is about to write
  exec,      \* next step of the job's state machine execution
  result,    \* Result the state machine passes to its finish handler
  verdict,   \* JobStatus the finish handler is about to write
  attempts,  \* invocations of the finish handler so far
  del,       \* next step and job of each delete request
  \* What the properties refer to and no action reads:
  overlapped, \* types in whose windows two invocations have met
  expired,    \* jobs whose item DynamoDB has removed
  missed      \* jobs whose findings a deletion was not shown

table      == <<jobs, marker, failures, findings>>
notes      == <<overlapped, expired, missed>>
runnerVars == <<pc, status>>
execVars   == <<exec, result, verdict, attempts>>
vars       == <<table, runnerVars, execVars, del, notes>>

JobStatus == {"ACTIVE", "SUCCEEDED", "SUCCEEDED_WITH_FAILED_TASKS", "FAILED"}
Finished  == JobStatus \ {"ACTIVE"}
Marker    == [JobId : Jobs, JobStatus : JobStatus]
NoMarker  == [JobId |-> NoJob, JobStatus |-> "absent"]

\* Mutant of JobPuts: _finish_job forgets put_last_job_marker.
JobPutsNoMarker ==
  {<<"job1", "job2">>, <<"job2", "mark1">>, <<"fjob1", "fjob2">>, <<"fjob2", "end">>}

\* put_item calls table.put_item twice: the two steps of each put.
JobPuts    == {<<"job1", "job2">>, <<"job2", "mark1">>,
               <<"fjob1", "fjob2">>, <<"fjob2", "fmark1">>}
MarkerPuts == {<<"mark1", "mark2">>, <<"mark2", "scan">>,
               <<"fmark1", "fmark2">>, <<"fmark2", "end">>}

CreateSteps == {"job1", "job2", "mark1", "mark2"}
FinishSteps == {"fjob1", "fjob2", "fmark1", "fmark2"}
ScanSteps   == {"scan", "write", "scp", "scpFailed"}
RunnerSteps == {"idle", "rejected", "end", "crashed"}
                 \cup CreateSteps \cup ScanSteps \cup FinishSteps
ExecSteps   == {"none", "running", "read", "end", "dead"} \cup FinishSteps
DelSteps    == {"idle", "findings", "marker", "delMarker", "delJob"}

TypeOK ==
  /\ jobs \in [Jobs -> JobStatus \cup {"absent"}]
  /\ marker \in [Types -> Marker \cup {NoMarker}]
  /\ failures \subseteq Jobs
  /\ findings \in [Jobs -> {"none", "partial", "complete"}]
  /\ pc \in [Jobs -> RunnerSteps]
  /\ status \in [Jobs -> JobStatus]
  /\ exec \in [Jobs -> ExecSteps]
  /\ result \in [Jobs -> {"SUCCEEDED", "FAILED"}]
  /\ verdict \in [Jobs -> JobStatus]
  /\ attempts \in [Jobs -> Nat]
  /\ del \in [Deleters -> [step : DelSteps, job : Jobs \cup {NoJob}]]
  /\ overlapped \subseteq Types
  /\ expired \subseteq Jobs
  /\ missed \subseteq Jobs

Init ==
  /\ jobs = [i \in Jobs |-> "absent"]
  /\ marker = [t \in Types |-> NoMarker]
  /\ failures = {}
  /\ findings = [i \in Jobs |-> "none"]
  /\ pc = [i \in Jobs |-> "idle"]
  /\ status = [i \in Jobs |-> "ACTIVE"]
  /\ exec = [i \in Jobs |-> "none"]
  /\ result = [i \in Jobs |-> "SUCCEEDED"]
  /\ verdict = [i \in Jobs |-> "SUCCEEDED"]
  /\ attempts = [i \in Jobs |-> 0]
  /\ del = [d \in Deleters |-> [step |-> "idle", job |-> NoJob]]
  /\ overlapped = {}
  /\ expired = {}
  /\ missed = {}

(***************************************************************************)
(* The windows in which an invocation reads and rewrites the items of a    *)
(* type, a few milliseconds each.  Nothing in the code keeps two windows   *)
(* apart; overlapped remembers the types where two have been open at once. *)
(* A window begins with a read.  An eventually consistent read counts as   *)
(* made when its answer was current, so that a read that lags behind a     *)
(* write opens its window before that write.                               *)
(***************************************************************************)
InWindow(i) == pc[i] \in CreateSteps \cup FinishSteps
ExecInWindow(i) == exec[i] \in FinishSteps
Deleting(d) == del[d].step # "idle"

NoWindow(t) ==
  /\ \A i \in Jobs : TypeOf[i] = t => ~InWindow(i) /\ ~ExecInWindow(i)
  /\ \A d \in Deleters : Deleting(d) => TypeOf[del[d].job] # t

Enters(t) == overlapped' = IF NoWindow(t) THEN overlapped ELSE overlapped \cup {t}

IsSync(i)  == TypeOf[i] \in SyncTypes
MarkerFor(i, s) == [JobId |-> i, JobStatus |-> s]

(***************************************************************************)
(* AssessmentRunner.run_assessment of job i.                               *)
(***************************************************************************)

\* Mutant of StartScan: the marker is not consulted.
StartScanUnguarded(i) ==
  /\ pc[i] = "idle"
  /\ Enters(TypeOf[i])
  /\ pc' = [pc EXCEPT ![i] = "job1"]
  /\ UNCHANGED <<table, status, execVars, del, expired, missed>>

\* _raise_if_active_job: the marker alone decides.  An admitted request goes
\* on to create_job with a fresh id.
StartScan(i) ==
  /\ pc[i] = "idle"
  /\ \/ /\ marker[TypeOf[i]].JobStatus = "ACTIVE"
        /\ pc' = [pc EXCEPT ![i] = "rejected"]
        /\ UNCHANGED overlapped
     \/ /\ marker[TypeOf[i]].JobStatus # "ACTIVE"
        /\ pc' = [pc EXCEPT ![i] = "job1"]
        /\ Enters(TypeOf[i])
  /\ UNCHANGED <<table, status, execVars, del, expired, missed>>

\* One of the two writes of put_item on the job item.
PutJob(i) ==
  /\ \E put \in JobPuts :
       /\ pc[i] = put[1]
       /\ pc' = [pc EXCEPT ![i] = put[2]]
  /\ jobs' = [jobs EXCEPT ![i] = status[i]]
  /\ UNCHANGED <<marker, failures, findings, status, execVars, del, notes>>

\* One of the two writes of put_item on the marker of the type.
PutMarker(i) ==
  /\ \E put \in MarkerPuts :
       /\ pc[i] = put[1]
       /\ pc' = [pc EXCEPT ![i] = put[2]]
  /\ marker' = [marker EXCEPT ![TypeOf[i]] = MarkerFor(i, status[i])]
  /\ UNCHANGED <<jobs, failures, findings, status, execVars, del, notes>>

\* scan() of a synchronous strategy returns the items to write.
ScanReturns(i) ==
  /\ pc[i] = "scan"
  /\ IsSync(i)
  /\ pc' = [pc EXCEPT ![i] = "write"]
  /\ UNCHANGED <<table, status, execVars, del, notes>>

\* write(): put_items stores batches of 25, so the findings may be partly
\* stored for a while; when all are, _finish_job(SUCCEEDED) begins.
WriteBatch(i) ==
  /\ pc[i] = "write"
  /\ findings[i] = "none"
  /\ findings' = [findings EXCEPT ![i] = "partial"]
  /\ UNCHANGED <<jobs, marker, failures, runnerVars, execVars, del, notes>>

\* Mutants of WriteLastBatch: the last, incomplete batch is dropped; the
\* status is not one of the enumeration.
WriteLastBatchDropped(i) ==
  /\ pc[i] = "write"
  /\ Enters(TypeOf[i])
  /\ status' = [status EXCEPT ![i] = "SUCCEEDED"]
  /\ pc' = [pc EXCEPT ![i] = "fjob1"]
  /\ UNCHANGED <<table, execVars, del, expired, missed>>

WriteLastBatchMisspelt(i) ==
  /\ pc[i] = "write"
  /\ Enters(TypeOf[i])
  /\ findings' = [findings EXCEPT ![i] = "complete"]
  /\ status' = [status EXCEPT ![i] = "SUCCESS"]
  /\ pc' = [pc EXCEPT ![i] = "fjob1"]
  /\ UNCHANGED <<jobs, marker, failures, execVars, del, expired, missed>>

WriteLastBatch(i) ==
  /\ pc[i] = "write"
  /\ Enters(TypeOf[i])
  /\ findings' = [findings EXCEPT ![i] = "complete"]
  /\ status' = [status EXCEPT ![i] = "SUCCEEDED"]
  /\ pc' = [pc EXCEPT ![i] = "fjob1"]
  /\ UNCHANGED <<jobs, marker, failures, execVars, del, expired, missed>>

\* scan() of the policy explorer starts the state machine first and only then
\* scans the service control policies, in the same invocation.
StartExecution(i) ==
  /\ pc[i] = "scan"
  /\ ~IsSync(i)
  /\ exec' = [exec EXCEPT ![i] = "running"]
  /\ pc' = [pc EXCEPT ![i] = "scp"]
  /\ UNCHANGED <<table, status, result, verdict, attempts, del, notes>>

ScpScanReturns(i) ==
  /\ pc[i] = "scp"
  /\ pc' = [pc EXCEPT ![i] = "end"]
  /\ UNCHANGED <<table, status, execVars, del, notes>>

\* A ClientError in the service control policy scan becomes a task failure of
\* the job, at a time of its own.
ScpScanFails(i) ==
  /\ pc[i] = "scp"
  /\ pc' = [pc EXCEPT ![i] = "scpFailed"]
  /\ UNCHANGED <<table, status, execVars, del, notes>>

WriteScpFailure(i) ==
  /\ pc[i] = "scpFailed"
  /\ failures' = failures \cup {i}
  /\ pc' = [pc EXCEPT ![i] = "end"]
  /\ UNCHANGED <<jobs, marker, findings, status, execVars, del, notes>>

\* Mutant of ScanRaises: the exception leaves without _finish_job(FAILED).
ScanRaisesUnhandled(i) ==
  /\ pc[i] \in ScanSteps
  /\ pc' = [pc EXCEPT ![i] = "end"]
  /\ UNCHANGED <<table, status, execVars, del, notes>>

\* An exception inside the try block, the writes of _finish_job(SUCCEEDED)
\* included: _finish_job(FAILED), then the exception is raised again.
ScanRaises(i) ==
  /\ \/ /\ pc[i] \in ScanSteps
        /\ Enters(TypeOf[i])
     \/ /\ pc[i] \in FinishSteps
        /\ status[i] = "SUCCEEDED"
        /\ UNCHANGED overlapped
  /\ status' = [status EXCEPT ![i] = "FAILED"]
  /\ pc' = [pc EXCEPT ![i] = "fjob1"]
  /\ UNCHANGED <<table, execVars, del, expired, missed>>

\* A time-out, or an exception outside the try block or in its handler.
RunnerCrashes(i) ==
  /\ "crash" \in Faults
  /\ pc[i] \in CreateSteps \cup ScanSteps \cup FinishSteps
  /\ pc' = [pc EXCEPT ![i] = "crashed"]
  /\ UNCHANGED <<table, status, execVars, del, notes>>

(***************************************************************************)
(* The state machine of an asynchronous job: it scans, records failures of *)
(* tasks and ends by invoking the finish handler with a Result.            *)
(***************************************************************************)
TaskFails(i) ==
  /\ exec[i] = "running"
  /\ i \notin failures
  /\ failures' = failures \cup {i}
  /\ UNCHANGED <<jobs, marker, findings, runnerVars, execVars, del, notes>>

\* Mutant of ScanEnds: the account map has no Catch, no handler is invoked.
ScanEndsUncaught(i, r) ==
  /\ exec[i] = "running"
  /\ exec' = [exec EXCEPT ![i] = IF r = "FAILED" THEN "end" ELSE "read"]
  /\ result' = [result EXCEPT ![i] = r]
  /\ attempts' = [attempts EXCEPT ![i] = 1]
  /\ UNCHANGED <<table, runnerVars, verdict, del, notes>>

ScanEnds(i, r) ==
  /\ exec[i] = "running"
  /\ exec' = [exec EXCEPT ![i] = "read"]
  /\ result' = [result EXCEPT ![i] = r]
  /\ attempts' = [attempts EXCEPT ![i] = 1]
  /\ UNCHANGED <<table, runnerVars, verdict, del, notes>>

\* The statuses that finish() may choose: a failure that was written a moment
\* ago may not show in its query.
FinishVerdicts(i) ==
  IF result[i] = "FAILED" THEN {"FAILED"}
  ELSE (IF i \in failures THEN {"SUCCEEDED_WITH_FAILED_TASKS"} ELSE {})
         \cup (IF i \notin failures \/ "lag" \in Faults THEN {"SUCCEEDED"} ELSE {})

\* finish(): find_task_failures_by_job_id, then get_job ...
FinishReads(i) ==
  /\ exec[i] = "read"
  /\ jobs[i] # "absent"
  /\ Enters(TypeOf[i])
  /\ exec' = [exec EXCEPT ![i] = "fjob1"]
  /\ \E v \in FinishVerdicts(i) : verdict' = [verdict EXCEPT ![i] = v]
  /\ UNCHANGED <<table, runnerVars, result, attempts, del, expired, missed>>

\* Mutant of FinishFindsNoJob: an absent job is stored like one that was read.
FinishStoresNoJob(i) ==
  /\ exec[i] = "read"
  /\ jobs[i] = "absent"
  /\ Enters(TypeOf[i])
  /\ exec' = [exec EXCEPT ![i] = "fjob1"]
  /\ \E v \in FinishVerdicts(i) : verdict' = [verdict EXCEPT ![i] = v]
  /\ UNCHANGED <<table, runnerVars, result, attempts, del, expired, missed>>

\* ... whose exception for an absent job is not retried and ends the execution.
FinishFindsNoJob(i) ==
  /\ exec[i] = "read"
  /\ jobs[i] = "absent"
  /\ exec' = [exec EXCEPT ![i] = "dead"]
  /\ UNCHANGED <<table, runnerVars, result, verdict, attempts, del, notes>>

\* Mutant of FinishPutsJob: the last write stores the job as it was read.
FinishPutsJobStale(i) ==
  /\ \E put \in JobPuts :
       /\ exec[i] = put[1]
       /\ exec' = [exec EXCEPT ![i] = put[2]]
  /\ jobs' = [jobs EXCEPT ![i] = IF exec[i] = "fjob2" THEN "ACTIVE" ELSE verdict[i]]
  /\ UNCHANGED <<marker, failures, findings, runnerVars, result, verdict,
                 attempts, del, notes>>

FinishPutsJob(i) ==
  /\ \E put \in JobPuts :
       /\ exec[i] = put[1]
       /\ exec' = [exec EXCEPT ![i] = put[2]]
  /\ jobs' = [jobs EXCEPT ![i] = verdict[i]]
  /\ UNCHANGED <<marker, failures, findings, runnerVars, result, verdict,
                 attempts, del, notes>>

\* The marker is overwritten whichever job it names.
FinishPutsMarker(i) ==
  /\ \E put \in MarkerPuts :
       /\ exec[i] = put[1]
       /\ exec' = [exec EXCEPT ![i] = put[2]]
  /\ marker' = [marker EXCEPT ![TypeOf[i]] = MarkerFor(i, verdict[i])]
  /\ UNCHANGED <<jobs, failures, findings, runnerVars, result, verdict,
                 attempts, del, notes>>

\* LambdaInvoke retries a finish handler whose invocation failed in the Lambda
\* service, even when the handler had done some or all of its writes.
FinishRetried(i) ==
  /\ "retry" \in Faults
  /\ exec[i] \in FinishSteps \cup {"end"}
  /\ attempts[i] < MaxAttempts
  /\ exec' = [exec EXCEPT ![i] = "read"]
  /\ attempts' = [attempts EXCEPT ![i] = @ + 1]
  /\ UNCHANGED <<table, runnerVars, result, verdict, del, notes>>

\* FinishJob and FailJob have no Catch: a timed-out handler ends everything.
FinishCrashes(i) ==
  /\ "crash" \in Faults
  /\ exec[i] \in FinishSteps \cup {"read"}
  /\ exec' = [exec EXCEPT ![i] = "dead"]
  /\ UNCHANGED <<table, runnerVars, result, verdict, attempts, del, notes>>

(***************************************************************************)
(* JobsService.delete_job.                                                 *)
(***************************************************************************)
\* Mutants of DeleteGetsJob: any stored job may be deleted; the job item goes
\* first.
DeleteGetsAnyJob(d, i) ==
  /\ ~Deleting(d)
  /\ jobs[i] # "absent"
  /\ Enters(TypeOf[i])
  /\ del' = [del EXCEPT ![d] = [step |-> "findings", job |-> i]]
  /\ UNCHANGED <<table, runnerVars, execVars, expired, missed>>

DeleteItemFirst(d, i) ==
  /\ ~Deleting(d)
  /\ jobs[i] \in Finished
  /\ Enters(TypeOf[i])
  /\ jobs' = [jobs EXCEPT ![i] = "absent"]
  /\ del' = [del EXCEPT ![d] = [step |-> "findings", job |-> i]]
  /\ UNCHANGED <<marker, failures, findings, runnerVars, execVars, expired, missed>>

DeleteGetsJob(d, i) ==
  /\ ~Deleting(d)
  /\ jobs[i] \in Finished
  /\ Enters(TypeOf[i])
  /\ del' = [del EXCEPT ![d] = [step |-> "findings", job |-> i]]
  /\ UNCHANGED <<table, runnerVars, execVars, expired, missed>>

GoTo(d, step) == del' = [del EXCEPT ![d].step = step]
EndDelete(d)  == del' = [del EXCEPT ![d] = [step |-> "idle", job |-> NoJob]]

\* One delete_item after the other for the items found by JobId.
DeleteSomeFindings(d) ==
  /\ del[d].step = "findings"
  /\ findings[del[d].job] = "complete"
  /\ findings' = [findings EXCEPT ![del[d].job] = "partial"]
  /\ UNCHANGED <<jobs, marker, failures, runnerVars, execVars, del, notes>>

\* The index on JobId lags too: what it has not listed stays (see Findings).
DeleteLastFindings(d) ==
  /\ del[d].step = "findings"
  /\ \/ /\ findings' = [findings EXCEPT ![del[d].job] = "none"]
        /\ missed' = missed \ {del[d].job}
     \/ /\ "lag" \in Faults
        /\ missed' = missed \cup {del[d].job}
        /\ UNCHANGED findings
  /\ GoTo(d, "marker")
  /\ UNCHANGED <<jobs, marker, failures, runnerVars, execVars, overlapped, expired>>

\* The index query raises when it exceeds a page (see Findings), and any call
\* when DynamoDB refuses it: the request ends there.
DeleteRaises(d) ==
  /\ del[d].step = "findings"
  /\ EndDelete(d)
  /\ UNCHANGED <<table, runnerVars, execVars, notes>>

\* Mutant of DeleteReadsMarker: the marker of a deleted job stays.
DeleteIgnoresMarker(d) ==
  /\ del[d].step = "marker"
  /\ GoTo(d, "delJob")
  /\ UNCHANGED <<table, runnerVars, execVars, notes>>

DeleteReadsMarker(d) ==
  /\ del[d].step = "marker"
  /\ GoTo(d, IF marker[TypeOf[del[d].job]].JobId = del[d].job
               THEN "delMarker" ELSE "delJob")
  /\ UNCHANGED <<table, runnerVars, execVars, notes>>

\* By type: whichever marker is stored now goes.
DeleteMarker(d) ==
  /\ del[d].step = "delMarker"
  /\ marker' = [marker EXCEPT ![TypeOf[del[d].job]] = NoMarker]
  /\ GoTo(d, "delJob")
  /\ UNCHANGED <<jobs, failures, findings, runnerVars, execVars, notes>>

DeleteItem(d) ==
  /\ del[d].step = "delJob"
  /\ jobs' = [jobs EXCEPT ![del[d].job] = "absent"]
  /\ EndDelete(d)
  /\ UNCHANGED <<marker, failures, findings, runnerVars, execVars, notes>>

DeleteCrashes(d) ==
  /\ "crash" \in Faults
  /\ Deleting(d)
  /\ EndDelete(d)
  /\ UNCHANGED <<table, runnerVars, execVars, notes>>

(***************************************************************************)
(* Expiry, 90 days after the item was written: by then every invocation    *)
(* for the job (15 minutes at most) is over.  A job keeps the ExpiresAt of *)
(* its creation while each put of the marker sets a later one, and         *)
(* DynamoDB removes expired items in any order.                            *)
(***************************************************************************)
Quiet(i) ==
  /\ pc[i] \in {"idle", "rejected", "end", "crashed"}
  /\ exec[i] \in {"none", "end", "dead"}

ExpireJob(i) ==
  /\ "expire" \in Faults
  /\ Quiet(i)
  /\ jobs[i] # "absent"
  /\ jobs' = [jobs EXCEPT ![i] = "absent"]
  /\ expired' = expired \cup {i}
  /\ UNCHANGED <<marker, failures, findings, runnerVars, execVars, del, overlapped, missed>>

ExpireFindings(i) ==
  /\ "expire" \in Faults
  /\ Quiet(i)
  /\ findings[i] # "none"
  /\ \E rest \in {"none", "partial"} : findings' = [findings EXCEPT ![i] = rest]
  /\ UNCHANGED <<jobs, marker, failures, runnerVars, execVars, del, notes>>

\* Mutant of ExpireMarker: the marker of a new job is put without ExpiresAt.
ExpireFinishedMarker(t) ==
  /\ "expire" \in Faults
  /\ marker[t] # NoMarker
  /\ Quiet(marker[t].JobId)
  /\ marker[t].JobStatus # "ACTIVE"
  /\ marker' = [marker EXCEPT ![t] = NoMarker]
  /\ UNCHANGED <<jobs, failures, findings, runnerVars, execVars, del, notes>>

ExpireMarker(t) ==
  /\ "expire" \in Faults
  /\ marker[t] # NoMarker
  /\ Quiet(marker[t].JobId)
  /\ marker' = [marker EXCEPT ![t] = NoMarker]
  /\ UNCHANGED <<jobs, failures, findings, runnerVars, execVars, del, notes>>

RunnerStep(i) ==
  \/ PutJob(i) \/ PutMarker(i)
  \/ ScanReturns(i) \/ WriteBatch(i) \/ WriteLastBatch(i)
  \/ StartExecution(i)
  \/ ScpScanReturns(i) \/ ScpScanFails(i) \/ WriteScpFailure(i)
  \/ ScanRaises(i)

ExecStep(i) ==
  \/ TaskFails(i)
  \/ \E r \in {"SUCCEEDED", "FAILED"} : ScanEnds(i, r)
  \/ FinishReads(i) \/ FinishFindsNoJob(i)
  \/ FinishPutsJob(i) \/ FinishPutsMarker(i)

DeleteStep(d) ==
  \/ DeleteSomeFindings(d) \/ DeleteLastFindings(d)
  \/ DeleteReadsMarker(d) \/ DeleteMarker(d) \/ DeleteItem(d)

Continue ==
  \/ \E i \in Jobs :
       \/ RunnerStep(i) \/ RunnerCrashes(i)
       \/ ExecStep(i) \/ FinishRetried(i) \/ FinishCrashes(i)
       \/ ExpireJob(i) \/ ExpireFindings(i)
  \/ \E d \in Deleters :
       \/ \E i \in Jobs : DeleteGetsJob(d, i)
       \/ DeleteStep(d) \/ DeleteRaises(d) \/ DeleteCrashes(d)
  \/ \E t \in Types : ExpireMarker(t)

Next == (\E i \in Jobs : StartScan(i)) \/ Continue

Spec == Init /\ [][Next]_vars

\* Lambda and Step Functions run an invocation they have begun, and DynamoDB
\* removes expired items; nobody has to ask for a scan or a deletion.
Fairness ==
  /\ \A i \in Jobs : WF_vars(RunnerStep(i)) /\ WF_vars(ExecStep(i))
  /\ \A d \in Deleters : WF_vars(DeleteStep(d))
  /\ \A t \in Types : WF_vars(ExpireMarker(t))

-----------------------------------------------------------------------------
(***************************************************************************)
(* Properties that hold however requests interleave.                       *)
(***************************************************************************)

\* A job that delete_job is removing is not being scanned under an ACTIVE
\* status: the status check at the start of delete_job stays valid until its
\* last call, although nothing protects the job in between.
DeletingOnlyFinished ==
  \A d \in Deleters : Deleting(d) => jobs[del[d].job] # "ACTIVE"

\* Whatever crashes, retries or races happen, the item and the marker of a
\* finished job never say ACTIVE again: no second write of put_item, retried
\* finish handler or late exception brings the job back to life.
FinishedNeverReactivated ==
  [][\A i \in Jobs :
       /\ jobs[i] \in Finished => jobs'[i] # "ACTIVE"
       /\ marker[TypeOf[i]].JobId = i /\ marker[TypeOf[i]].JobStatus \in Finished
            => marker'[TypeOf[i]] # MarkerFor(i, "ACTIVE")]_vars

\* An ACTIVE job has an invocation or an execution that will still finish it,
\* unless that one crashed: run_assessment and the state machine leave no job
\* behind on any other path.
ActiveJobHasOwner ==
  \A i \in Jobs : jobs[i] = "ACTIVE" =>
    \/ pc[i] \in (CreateSteps \cup ScanSteps \cup FinishSteps) \cup {"crashed"}
    \/ exec[i] \in FinishSteps \cup {"running", "read", "dead"}

\* A synchronous job is reported SUCCEEDED only once write() stored all of its
\* findings, failing batches included.
SucceededAfterWrite ==
  [][\A i \in Jobs :
       IsSync(i) /\ jobs[i] \in {"ACTIVE", "FAILED"} /\ jobs'[i] = "SUCCEEDED"
         => findings[i] = "complete"]_vars

\* delete_job removes the job item last, so that findings outlive their job in
\* two cases only: the index did not show them to the deletion, or the job has
\* expired.  A deletion that crashes or raises half-way, or meets another one
\* of the same job, leaves the job to be deleted again.
NoOrphanFindings ==
  \A i \in Jobs : jobs[i] = "absent" /\ findings[i] # "none" => i \in missed \cup expired

(***************************************************************************)
(* Properties that the races between two windows of one type break.        *)
(***************************************************************************)
Working(i) == pc[i] \in CreateSteps \cup {"scan", "write"} \cup FinishSteps

\* The marker works as a lock: two scans of a synchronous type are under way
\* at once only if two of the type's short windows have met.  Crashes, expiry
\* and deletions during a scan do not break the lock.
OneScanAtATime ==
  \A i, j \in Jobs :
    IsSync(i) /\ TypeOf[i] = TypeOf[j] /\ Working(i) /\ Working(j)
      => i = j \/ TypeOf[i] \in overlapped

\* GET /jobs?selection=latest reads the job of every marker and fails as a
\* whole when one is missing.  Outside the windows a marker's job is missing
\* only if it has expired before its marker or windows of the type have met.
LatestListable ==
  \A t \in Types :
    NoWindow(t) /\ marker[t] # NoMarker /\ jobs[marker[t].JobId] = "absent"
      => marker[t].JobId \in expired \/ t \in overlapped

\* Outside the windows the marker repeats the status of the job it names, so
\* that a start request is refused exactly while that job is ACTIVE.  The
\* exceptions are an expired job, a writer of the job that crashed or that is
\* about to be retried, and a type whose windows have met.
Crashed(i) == pc[i] = "crashed" \/ exec[i] = "dead"

MarkerAgreesWithJob ==
  \A t \in Types :
    NoWindow(t) /\ marker[t] # NoMarker =>
      LET i == marker[t].JobId IN
      \/ jobs[i] = marker[t].JobStatus
      \/ i \in expired \/ Crashed(i) \/ exec[i] = "read" \/ t \in overlapped

\* A job that was deleted or has expired is stored again in two cases only:
\* windows of its type have met (a second write of put_item, or a finish
\* handler that has read the job before), or the start invocation of a policy
\* explorer job raises after its execution has finished the job.  A retried
\* finish handler alone never does it.
DeletedStaysDeleted ==
  [][\A i \in Jobs : jobs[i] = "absent" /\ jobs'[i] # "absent" =>
       \/ pc[i] = "job1"
       \/ TypeOf[i] \in overlapped
       \/ ~IsSync(i) /\ pc[i] = "fjob1" /\ status[i] = "FAILED"]_vars

\* Every job is eventually finished, by its runner or by its state machine,
\* unless the one that has to do it crashes.
JobFinishes ==
  \A i \in Jobs : jobs[i] = "ACTIVE" ~> jobs[i] # "ACTIVE" \/ Crashed(i)

\* A type whose marker says ACTIVE can eventually be scanned again: by the
\* terminal write of some job or, after a crash that left the marker behind,
\* by the marker's expiry.
TypeIsFreed ==
  \A t \in Types : marker[t].JobStatus = "ACTIVE" ~> marker[t].JobStatus # "ACTIVE"

\* The stored items of synchronous jobs implement the abstract job history,
\* whatever crashes, meets, is deleted or expires.  A job counts as created
\* from its first put on, and as given up when its invocation has crashed.
SyncJobIds == {i \in Jobs : IsSync(i)}

History == INSTANCE JobHistory WITH
  Jobs     <- SyncJobIds,
  Outcomes <- Finished,
  view     <- [i \in SyncJobIds |-> jobs[i]],
  created  <- {i \in SyncJobIds : pc[i] \notin {"idle", "rejected", "job1"}},
  lost     <- {i \in SyncJobIds : pc[i] = "crashed"},
  raced    <- overlapped \cap SyncTypes

ImplementsJobHistory == History!Spec

(***************************************************************************)
(* What the repository says and the code does not keep.                    *)
(***************************************************************************)

\* "Cannot start another scan of type ... while there is already a scan of
\* this type running."
Scanning(i) == pc[i] \in ScanSteps \/ exec[i] = "running"

OneScanPerType ==
  \A i, j \in Jobs : TypeOf[i] = TypeOf[j] /\ Scanning(i) /\ Scanning(j) => i = j

\* write_task_failure: finish_async_job "will later check for such failures to
\* determine if the whole job finished with issues or without issues".
FailuresAreReported ==
  \A i \in Jobs : i \in failures => jobs[i] # "SUCCEEDED"
=============================================================================
