----------------------------- MODULE PolicyScan -----------------------------
(***************************************************************************)
(* One execution of the state machine ScanAllSpokeAccounts of the policy   *)
(* explorer: a distributed map over the accounts, whose iterations         *)
(* validate the access to the account and then map over the services; the  *)
(* Lambda function behind each service scans region after region.  What an *)
(* invocation writes (task failures, policies) stays written whether or    *)
(* not the state machine learns of its answer.                             *)
(*                                                                         *)
(* AssessmentJobs models the same execution as seen from the job items:    *)
(* its TaskFails and ScanEnds stand for everything below.                  *)
(***************************************************************************)
EXTENDS Naturals, FiniteSets

CONSTANTS
  Accounts,       \* Scan.AccountIds of the execution's input
  Services,       \* Scan.ServiceNames of the execution's input
  Supported,      \* the services the router finds in SUPPORTED_SERVICES
  Global,         \* the services scanned once per account: s3, iam
  Regions,        \* the enabled regions of an account
  None,           \* no region, no service, no verdict
  MaxConcurrency, \* maxConcurrency of both maps (10 in the code)
  MaxAttempts,    \* bound on the attempts of one Lambda invocation
  Faults          \* the faults that may happen: see below

(***************************************************************************)
(* "client_error": an AWS call fails with a ClientError that no region     *)
(*     handler knows.                                                      *)
(* "raise": an invocation ends with any other exception.                   *)
(* "lost": the Lambda service fails to deliver an answer, so that the      *)
(*     state machine invokes again (retryOnServiceExceptions).             *)
(* "late": an invocation given up in that way is still running.            *)
(* "lag": the query of the finish handler, an eventually consistent read,  *)
(*     may not show the failure records yet.                               *)
(***************************************************************************)
ASSUME ScanAssumption ==
  /\ None \notin Services \cup Regions \cup Accounts
  /\ None \notin {"SUCCEEDED", "SUCCEEDED_WITH_FAILED_TASKS", "FAILED"}
  /\ Supported \subseteq Services
  /\ Global \subseteq Services
  /\ MaxConcurrency \in Nat \ {0}
  /\ MaxAttempts \in Nat \ {0}
  /\ Faults \subseteq {"client_error", "raise", "lost", "late", "lag"}

Tasks == Accounts \X Services

\* The regions a task visits: a global service has one nameless region.
RegionsOf(s) == IF s \in Global THEN {None} ELSE Regions

Places == {p \in Accounts \X Services \X (Regions \cup {None}) :
             p[3] \in RegionsOf(p[2])}

\* JobTaskFailure items, without their time and text.  The one of the service
\* control policies names the management account and no region.
ScpFailure == <<None, None, None>>
Failure == {ScpFailure} \cup (Accounts \X (Services \cup {None}) \X (Regions \cup {None}))

VARIABLES
  machine,  \* where the execution stands
  access,   \* the iteration of each account
  task,     \* the invocation of each service of each account
  left,     \* regions the current invocation has not visited yet
  found,    \* regions in which it found policies
  tries,    \* attempts made at the invocation of each account and task
  late,     \* accounts and tasks with an invocation that was given up
  clean,    \* places that were examined and hold no policies
  failures, \* JobTaskFailure items of the job
  stored,   \* places whose policies are in the policies table
  verdict,  \* the JobStatus that the finish handler writes
  \* What the properties refer to and no action reads:
  missed,   \* failures that the query of the finish handler did not show
  tardy     \* failures that were written after it had shown none

scanVars == <<left, found, clean, stored>>
outcome == <<verdict, missed, tardy>>
vars == <<machine, access, task, tries, late, failures, outcome, scanVars>>

Init ==
  /\ machine = "mapping"
  /\ access = [a \in Accounts |-> "queued"]
  /\ task = [t \in Tasks |-> "queued"]
  /\ left = [t \in Tasks |-> {}]
  /\ found = [t \in Tasks |-> {}]
  /\ tries = [x \in Accounts \cup Tasks |-> 0]
  /\ late = {}
  /\ clean = {}
  /\ failures = {}
  /\ stored = {}
  /\ verdict = None
  /\ missed = {}
  /\ tardy = {}

-----------------------------------------------------------------------------
(* The account iterator and the access validation. *)

Iterating == {a \in Accounts :
                \/ access[a] = "validating"
                \/ access[a] = "granted" /\ \E s \in Services : task[<<a, s>>] # "done"}

\* The distributed map starts the iteration of the next account.
StartAccount(a) ==
  /\ machine = "mapping"
  /\ access[a] = "queued"
  /\ Cardinality(Iterating) < MaxConcurrency
  /\ access' = [access EXCEPT ![a] = "validating"]
  /\ tries' = [tries EXCEPT ![a] = 1]
  /\ UNCHANGED <<machine, task, late, failures, outcome, scanVars>>

\* The role could be assumed, the caller identity is the account's and its
\* regions could be listed: all services are to be scanned.
AccessGranted(a) ==
  /\ access[a] = "validating"
  /\ access' = [access EXCEPT ![a] = "granted"]
  /\ UNCHANGED <<machine, task, tries, late, failures, outcome, scanVars>>

\* Anything else, any exception included, is one failure record for the whole
\* account, and the iteration goes on with no services.
AccessRefused(a) ==
  /\ access[a] = "validating"
  /\ access' = [access EXCEPT ![a] = "refused"]
  /\ failures' = failures \cup {<<a, None, None>>}
  /\ UNCHANGED <<machine, task, tries, late, outcome, scanVars>>

\* Writing that record may raise in turn; this exception is not retried.
ValidationRaises(a) ==
  /\ "raise" \in Faults
  /\ access[a] = "validating"
  /\ access' = [access EXCEPT ![a] = "failed"]
  /\ UNCHANGED <<machine, task, tries, late, failures, outcome, scanVars>>

\* An invocation whose answer was lost may not have ended.
StillRunning(x) == IF "late" \in Faults THEN {x} ELSE {}

\* The answer is lost, before or after the record was written: the state
\* machine invokes again until the attempts are used up.
ValidationLost(a) ==
  /\ "lost" \in Faults
  /\ access[a] = "validating"
  /\ failures' \in {failures, failures \cup {<<a, None, None>>}}
  /\ IF tries[a] < MaxAttempts
       THEN /\ tries' = [tries EXCEPT ![a] = @ + 1]
            /\ UNCHANGED access
       ELSE /\ access' = [access EXCEPT ![a] = "failed"]
            /\ UNCHANGED tries
  /\ late' \in {late, late \cup StillRunning(a)}
  /\ UNCHANGED <<machine, task, outcome, scanVars>>

-----------------------------------------------------------------------------
(* The service iterator and the scan of one service in one account. *)

Running(a) == {s \in Services : task[<<a, s>>] = "running"}

BeginEverywhere(a, s) ==
  /\ left' = [left EXCEPT ![<<a, s>>] = Regions]
  /\ found' = [found EXCEPT ![<<a, s>>] = {}]

\* An attempt visits every region of the service, none of them twice.
Begin(a, s) ==
  /\ left' = [left EXCEPT ![<<a, s>>] = RegionsOf(s)]
  /\ found' = [found EXCEPT ![<<a, s>>] = {}]

StartTask(a, s) ==
  /\ machine = "mapping"
  /\ access[a] = "granted"
  /\ task[<<a, s>>] = "queued"
  /\ Cardinality(Running(a)) < MaxConcurrency
  /\ task' = [task EXCEPT ![<<a, s>>] = "running"]
  /\ tries' = [tries EXCEPT ![<<a, s>>] = 1]
  /\ Begin(a, s)
  /\ UNCHANGED <<machine, access, late, clean, failures, stored, outcome>>

\* The task ends normally after writing a failure record for the service.
EndsWithFailure(a, s) ==
  /\ task' = [task EXCEPT ![<<a, s>>] = "done"]
  /\ failures' = failures \cup {<<a, s, None>>}
  /\ UNCHANGED <<machine, access, tries, late, outcome, scanVars>>

UnsupportedService(a, s) ==
  /\ task[<<a, s>>] = "running"
  /\ s \notin Supported
  /\ EndsWithFailure(a, s)

\* scan_single_region returns: the region holds policies or it does not.
ScanRegion(a, s, r) ==
  /\ task[<<a, s>>] = "running"
  /\ s \in Supported
  /\ r \in left[<<a, s>>]
  /\ left' = [left EXCEPT ![<<a, s>>] = @ \ {r}]
  /\ \/ /\ found' = [found EXCEPT ![<<a, s>>] = @ \cup {r}]
        /\ UNCHANGED clean
     \/ /\ clean' = clean \cup {<<a, s, r>>}
        /\ UNCHANGED found
  /\ UNCHANGED <<machine, access, task, tries, late, failures, stored, outcome>>

RegionFailsSilently(a, s, r) ==
  /\ task[<<a, s>>] = "running"
  /\ s \in Supported \ Global
  /\ r \in left[<<a, s>>]
  /\ left' = [left EXCEPT ![<<a, s>>] = @ \ {r}]
  /\ UNCHANGED <<machine, access, task, found, tries, late, clean, failures,
                 stored, outcome>>

\* An exception that scan_regions handles: the region is recorded as failed
\* and the next one is visited.
RegionFails(a, s, r) ==
  /\ task[<<a, s>>] = "running"
  /\ s \in Supported \ Global
  /\ r \in left[<<a, s>>]
  /\ left' = [left EXCEPT ![<<a, s>>] = @ \ {r}]
  /\ failures' = failures \cup {<<a, s, r>>}
  /\ UNCHANGED <<machine, access, task, found, tries, late, clean, stored,
                 outcome>>

\* A ClientError reaches the router: what was found in other regions is
\* dropped, and one record stands for all regions of the task.
TaskClientError(a, s) ==
  /\ "client_error" \in Faults
  /\ task[<<a, s>>] = "running"
  /\ s \in Supported
  /\ EndsWithFailure(a, s)

\* Any other exception fails the invocation, and no record is written.
TaskRaises(a, s) ==
  /\ "raise" \in Faults
  /\ task[<<a, s>>] = "running"
  /\ task' = [task EXCEPT ![<<a, s>>] = "failed"]
  /\ UNCHANGED <<machine, access, tries, late, failures, outcome, scanVars>>

\* policy.JobId = ... on a policy, which is a dict and takes no attributes.
TaggingRaises(policies) == policies # {}

\* All regions are visited.  The router tags every policy with the job id
\* and stores them; its AttributeError handler records the failed tagging.
TaskReturns(a, s) ==
  /\ task[<<a, s>>] = "running"
  /\ s \in Supported
  /\ left[<<a, s>>] = {}
  /\ task' = [task EXCEPT ![<<a, s>>] = "done"]
  /\ IF TaggingRaises(found[<<a, s>>])
       THEN /\ failures' = failures \cup {<<a, s, None>>}
            /\ UNCHANGED stored
       ELSE /\ stored' = stored \cup {<<a, s, r>> : r \in found[<<a, s>>]}
            /\ UNCHANGED failures
  /\ UNCHANGED <<machine, access, left, found, tries, late, clean, outcome>>

TaskLostForever(a, s) ==
  /\ "lost" \in Faults
  /\ task[<<a, s>>] = "running"
  /\ Begin(a, s)
  /\ late' \in {late, late \cup StillRunning(<<a, s>>)}
  /\ UNCHANGED <<machine, access, task, tries, clean, failures, stored, outcome>>

TaskLostHalfway(a, s) ==
  /\ "lost" \in Faults
  /\ task[<<a, s>>] = "running"
  /\ tries[<<a, s>>] < MaxAttempts
  /\ tries' = [tries EXCEPT ![<<a, s>>] = @ + 1]
  /\ found' = [found EXCEPT ![<<a, s>>] = {}]
  /\ UNCHANGED <<machine, access, task, left, late, clean, failures, stored, outcome>>

\* The answer is lost anywhere in the scan.  The next attempt starts from the
\* first region; the records of the lost one stay.
TaskLost(a, s) ==
  /\ "lost" \in Faults
  /\ task[<<a, s>>] = "running"
  /\ IF tries[<<a, s>>] < MaxAttempts
       THEN /\ tries' = [tries EXCEPT ![<<a, s>>] = @ + 1]
            /\ Begin(a, s)
            /\ UNCHANGED task
       ELSE /\ task' = [task EXCEPT ![<<a, s>>] = "failed"]
            /\ UNCHANGED <<left, found, tries>>
  /\ late' \in {late, late \cup StillRunning(<<a, s>>)}
  /\ UNCHANGED <<machine, access, clean, failures, stored, outcome>>

\* A record of a writer whom the state machine does not wait for.
WritesBeside(failure) ==
  /\ failures' = failures \cup {failure}
  /\ tardy' = IF verdict = "SUCCEEDED" THEN tardy \cup {failure} ELSE tardy

\* An invocation that was given up writes one more record, and ends.
LateFailure(x) ==
  /\ x \in late
  /\ late' = late \ {x}
  /\ WritesBeside(IF x \in Accounts THEN <<x, None, None>> ELSE <<x[1], x[2], None>>)
  /\ UNCHANGED <<machine, access, task, tries, verdict, missed, scanVars>>

\* The start invocation scans the service control policies after it has started
\* the execution.  A ClientError is one failure record of the same job.  (What
\* any other exception does to the job is in AssessmentJobs.)
ScpScanFails ==
  /\ ScpFailure \notin failures
  /\ WritesBeside(ScpFailure)
  /\ UNCHANGED <<machine, access, task, tries, late, verdict, missed, scanVars>>

-----------------------------------------------------------------------------
(* The end of the execution. *)

MapEndsEarly ==
  /\ machine = "mapping"
  /\ \A a \in Accounts : access[a] \in {"refused", "granted"}
  /\ machine' = "finishing"
  /\ UNCHANGED <<access, task, tries, late, failures, outcome, scanVars>>

\* Every iteration has ended: a refused account has no services to scan.
MapEnds ==
  /\ machine = "mapping"
  /\ \A a \in Accounts :
       \/ access[a] = "refused"
       \/ access[a] = "granted" /\ \A s \in Services : task[<<a, s>>] = "done"
  /\ machine' = "finishing"
  /\ UNCHANGED <<access, task, tries, late, failures, outcome, scanVars>>

\* A failed iteration fails the map, whose Catch leads to FailJob.  No
\* invocation is started any more; those under way go on.
MapFails ==
  /\ machine = "mapping"
  /\ (\E a \in Accounts : access[a] = "failed") \/ (\E t \in Tasks : task[t] = "failed")
  /\ machine' = "failing"
  /\ UNCHANGED <<access, task, tries, late, failures, outcome, scanVars>>

StatusByFailures(result, recorded) ==
  IF recorded # {} THEN "SUCCEEDED_WITH_FAILED_TASKS" ELSE "SUCCEEDED"

\* The status that the finish handler derives from its input and from the
\* failure records it finds.
FinishStatus(result, recorded) ==
  IF result = "FAILED" THEN "FAILED"
  ELSE IF recorded # {} THEN "SUCCEEDED_WITH_FAILED_TASKS"
  ELSE "SUCCEEDED"

\* What the handler looks at is whether its query shows any record.
Hidden == IF "lag" \in Faults THEN {{}, failures} ELSE {{}}

FinishJob ==
  /\ machine = "finishing"
  /\ machine' = "succeeded"
  /\ missed' \in Hidden
  /\ verdict' = FinishStatus("SUCCEEDED", failures \ missed')
  /\ UNCHANGED <<access, task, tries, late, failures, tardy, scanVars>>

FailJob ==
  /\ machine = "failing"
  /\ machine' = "failed"
  /\ verdict' = FinishStatus("FAILED", failures)
  /\ UNCHANGED <<access, task, tries, late, failures, missed, tardy, scanVars>>

-----------------------------------------------------------------------------
Validation(a) ==
  \/ StartAccount(a) \/ AccessGranted(a) \/ AccessRefused(a)
  \/ ValidationRaises(a) \/ ValidationLost(a)

Service(a, s) ==
  \/ StartTask(a, s) \/ UnsupportedService(a, s)
  \/ \E r \in RegionsOf(s) : ScanRegion(a, s, r) \/ RegionFails(a, s, r)
  \/ TaskClientError(a, s) \/ TaskRaises(a, s)
  \/ TaskReturns(a, s) \/ TaskLost(a, s)

End == MapEnds \/ MapFails \/ FinishJob \/ FailJob

Next ==
  \/ \E a \in Accounts : Validation(a)
  \/ \E a \in Accounts, s \in Services : Service(a, s)
  \/ \E x \in Accounts \cup Tasks : LateFailure(x)
  \/ ScpScanFails
  \/ End

Spec == Init /\ [][Next]_vars

\* Step Functions goes on with every iteration it has started, and every
\* invocation ends, if only at the Lambda time-out.
Fairness ==
  /\ \A a \in Accounts : WF_vars(Validation(a))
  /\ \A a \in Accounts, s \in Services : WF_vars(Service(a, s))
  /\ WF_vars(End)

FairSpec == Spec /\ Fairness

-----------------------------------------------------------------------------
(* Properties. *)

\* Types of the variables; a task only ever visits regions of its service.
TypeOK ==
  /\ machine \in {"mapping", "finishing", "failing", "succeeded", "failed"}
  /\ access \in [Accounts -> {"queued", "validating", "granted", "refused", "failed"}]
  /\ task \in [Tasks -> {"queued", "running", "done", "failed"}]
  /\ left \in [Tasks -> SUBSET (Regions \cup {None})]
  /\ found \in [Tasks -> SUBSET (Regions \cup {None})]
  /\ \A a \in Accounts, s \in Services :
       left[<<a, s>>] \cup found[<<a, s>>] \subseteq RegionsOf(s)
  /\ tries \in [Accounts \cup Tasks -> 0 .. MaxAttempts]
  /\ late \subseteq Accounts \cup Tasks
  /\ clean \subseteq Places
  /\ stored \subseteq Places
  /\ failures \subseteq Failure
  /\ verdict \in {None, "SUCCEEDED", "SUCCEEDED_WITH_FAILED_TASKS", "FAILED"}
  /\ missed \subseteq Failure
  /\ tardy \subseteq Failure

\* A place is settled when its account was refused, or its task has ended and
\* it was found to hold no policies, or they are stored, or a failure record
\* tells the reader of the report that they may be missing.
Settled(p) ==
  \/ access[p[1]] = "refused" /\ <<p[1], None, None>> \in failures
  \/ /\ task[<<p[1], p[2]>>] = "done"
     /\ \/ p \in clean \cup stored \cup failures
        \/ <<p[1], p[2], None>> \in failures

\* Whenever the execution of the state machine succeeds, no account, service
\* or region was passed over in silence: not by the validation, not by an
\* exception in one region or one service, not by a retry, and not by an
\* iteration that ended while another one was still under way.
NothingSkippedSilently ==
  machine \in {"finishing", "succeeded"} => \A p \in Places : Settled(p)

(***************************************************************************)
(* Why nothing is skipped, and what the proofs use as inductive            *)
(* invariant: while a task runs, each of its regions is still to be        *)
(* visited, or found to hold policies, or settled; a task that ended       *)
(* settled all of them; refused accounts have their record; no task starts *)
(* before its account is granted; and the execution only ends well when    *)
(* all iterations have.                                                    *)
(***************************************************************************)
RunningAccounted ==
  \A a \in Accounts, s \in Services : task[<<a, s>>] = "running" =>
    \A r \in RegionsOf(s) :
      \/ r \in left[<<a, s>>] \cup found[<<a, s>>]
      \/ <<a, s, r>> \in clean \cup failures

DoneAccounted ==
  \A a \in Accounts, s \in Services : task[<<a, s>>] = "done" =>
    \A r \in RegionsOf(s) :
      \/ <<a, s, r>> \in clean \cup stored \cup failures
      \/ <<a, s, None>> \in failures

RefusedRecorded ==
  \A a \in Accounts : access[a] = "refused" => <<a, None, None>> \in failures

GrantedFirst ==
  \A a \in Accounts, s \in Services : access[a] # "granted" => task[<<a, s>>] = "queued"

IterationsEnded ==
  machine \in {"finishing", "succeeded"} =>
    \A a \in Accounts :
      \/ access[a] = "refused"
      \/ access[a] = "granted" /\ \A s \in Services : task[<<a, s>>] = "done"

ScanInv ==
  /\ TypeOK
  /\ RunningAccounted
  /\ DoneAccounted
  /\ RefusedRecorded
  /\ GrantedFirst
  /\ IterationsEnded

\* A job is only reported as succeeded without qualification while it has or
\* gets failure records if the query of the finish handler did not show them
\* yet, or if they were written later by somebody whom the state machine does
\* not wait for: the start invocation or an invocation that was given up.  No
\* invocation that an iteration waits for records a failure too late.
UnreportedFailures == verdict = "SUCCEEDED" => failures \subseteq missed \cup tardy

\* A job is only reported as failed when an exception or a loss that was not
\* recovered ended an iteration, and such an end is never reported otherwise.
FailedOnlyByError ==
  LET ended == \/ \E a \in Accounts : access[a] = "failed"
               \/ \E t \in Tasks : task[t] = "failed"
  IN  /\ verdict = "FAILED" => ended
      /\ verdict \in {"SUCCEEDED", "SUCCEEDED_WITH_FAILED_TASKS"} => ~ended

Report == INSTANCE ScanReport WITH
            open <- {p \in Places : ~Settled(p)},
            trouble <- failures \ {ScpFailure} # {},
            apart <- ScpFailure \in failures,
            report <- verdict

\* The state machine and its Lambda functions implement the abstract report,
\* and report every scan.  (False with the faults "late" and "lag".)
ImplementsScanReport == Report!Spec

\* CHANGELOG.md:12: the scan records all found policies in DynamoDB.
FoundPoliciesRecorded ==
  machine = "succeeded" =>
    \A a \in Accounts, s \in Services :
      {<<a, s, r>> : r \in found[<<a, s>>]} \subseteq stored
=============================================================================
