# Account Assessment for AWS Organizations: a TLA+ verification project

The repository is an AWS solution that assesses the accounts of an organization. A hub
account runs Python Lambda functions behind an API Gateway, a daily EventBridge rule, a
Step Functions state machine, DynamoDB tables and a React web UI. This project models the
parts with state and concurrency, model-checks them with TLC on small instances and
proves the most important results with TLAPS for every value of the constants.

`PROJECT.json` lists components, runs, mutants, the map from definitions to source lines,
findings, hazards and theorems. Source paths below are relative to
`src/source/lambda/` unless they start with `src/`.

## 1. Inventory

### Assessment runner and job history (`assessment_runner/`, `policy_explorer/finish_scan.py`)

* State: the DynamoDB table JobHistory. One item per job (`AssessmentType`, `JobId`,
  `JobStatus`, ...), one "last job marker" per assessment type that names the latest job
  and repeats its status, and task failure items, whose sort key begins with the `JobId` and
  which a query for this prefix finds (`assessment_runner/jobs_repository.py:110`).
* Operations: `AssessmentRunner.run_assessment` (refuse while the marker says ACTIVE,
  create job and marker, scan, write, finish job and marker);
  `FinishAsyncJob.finish` for asynchronous jobs; `JobsService.read_all_jobs`, `read_job`,
  `delete_job`; `write_task_failure`.
* Callers: two synchronous scan Lambdas (delegated admins, trusted access), the start
  Lambda of the policy explorer, the finish Lambda at the end of the state machine, the
  jobs API. All are separate invocations without transactions or conditional writes.
* Hard: check-then-act on the marker; every `put_item` writes twice
  (`aws/services/dynamodb.py:104` and `:107`); crashes and time-outs between calls;
  Step Functions retrying the finish handler; deletion as a sequence of calls; reads that
  lag behind writes; expiry, where a job goes before its marker.
* Correct when: no ACTIVE job is deleted or abandoned; no finished job becomes ACTIVE
  again; every job ends and frees its type; and only the races that the code leaves open, a
  crash or expiry let two scans in, part marker and job, keep findings without a job, or
  bring a deleted job back.

### Policy explorer scan (`policy_explorer/`, `src/source/infra/lib/components/policy-explorer-state-machine.ts`)

* State: a Step Functions execution (distributed map over accounts, inline map over
  services), the region loop of each scan invocation, task failure items, the policies
  table.
* Operations: validate the access to an account; scan one service of one account in all
  its regions; record task failures; finish or fail the job.
* Interaction: started by the start Lambda, which scans service control policies itself
  meanwhile; ends in the finish Lambda, which counts the failures.
* Hard: a failure at any of three levels (account, service, region); exceptions nobody
  catches; retries after lost answers; invocations that outlive their answer.
* Correct when: an execution that ends well has accounted for every account, service and
  region; the status says whether the failures known by then were any; every execution is reported.

### Findings tables (`delegated_admins/`, `trusted_access_enabled_services/`)

* State: one item per finding, under a key made of its content, with the `JobId` of the job
  that wrote it last.
* Operations: write all findings of a scan in batches of 25; delete the findings of a job
  (look up by the index on `JobId`, then delete key by key); read the partition.
* Hard: jobs share keys, also jobs whose scans overlap; a deletion works through a list that
  may be stale; the index lags behind the table; an index query that exceeds a page; partial
  batches; expiry.
* Correct when: a deleted job has left nothing behind; what other jobs lose has one of few causes.

### Policies table and policy search (`policy_explorer/read_policies.py`, `convert_policy_into_dynamodb_items.py`)

* State: one item per statement of a policy, under a key that ends in the number of the
  statement, with a time to live. No job owns it and no scan deletes an item.
* Operations: list the service control policies, describe them one by one, turn each
  document into items, store these in batches; search with a filter and a limit.
* Hard: policies change while they are scanned and between scans; a scan fails half way; two
  scans overlap; a policy shrinks; the limit counts items before the filter is applied.
* Correct when: what a complete scan has read is found until it changes; former contents
  vanish in the end; missing results are announced or explained.

### DynamoDB wrapper

`aws/services/dynamodb.py`, `utils/base_repository.py`, `utils/list_utils.py` are stateless
but decide on pages, batches and expiry. They are modelled where a component uses them.

### Per-service scanners and AWS wrappers

32 scan classes list the resources of a region and read their policies through one
wrapper class per AWS service (`aws/services/*.py`).

* State: none that outlives a call; within one, the items found in the regions so far.
* Operations: assume the role, list (following the pages), look up each policy, turn its
  statements into items. Two decorators decide what becomes of an error:
  `service_exception_handler` turns a region that refuses or cannot be connected to into an
  exception that `scan_regions` records, `resource_not_found_exception_handler` answers
  `{'Error': ...}` in place of a policy. Some calls have neither, and neither knows a
  connection that breaks or a read that times out.
* Hard: errors in each of several calls of several regions; what an earlier region found
  when a later one raises; a second page; resources that vanish between listing and lookup;
  policies of an unexpected form.
* Correct when: a region that refuses costs itself only; what is lost is recorded, but for what
  four calls leave out; the failures that end the execution for all accounts are few and known.

### Web UI (`src/source/webui/src`)

* State: a Redux store with one slice per resource (entities and IDLE, LOADING, SUCCEEDED
  or FAILED), notifications with ids, the current page, requests under way.
* Operations: open a page (its effect fetches what is missing), refresh, start a scan,
  search, delete a job, dismiss a notification; answers and lost answers.
* Interacts with the API only. The state of a job may have changed between two answers, and an
  answer may be older than the one before it.
* Hard: late answers for pages that are gone, answers out of order, error answers, effects
  that do not run because the component stays mounted.
* Correct when: a spinner waits for something; a list never goes back by the order of
  answers; a page shows what its address says; a job reported as deleted was.

### API, metrics, web UI deployment, infrastructure, legacy code

* `utils/api_gateway_lambda_handler.py`, `assessment_runner/api_router.py`: one request,
  one response; which exception becomes which status code.
* `metrics/`: anonymous counts, every error swallowed.
* `deploy_webui/`: CloudFormation custom resource that copies the UI into a bucket.
* `src/source/infra/lib`: CDK declarations.
* `resource_based_policy/`, `src/source/lib`: the predecessor of the policy explorer.
  The current stacks deploy only its table and reader; it starts no scans.
* `src/deployment`: build scripts.

## 2. Plan

| Step | Module | Status |
|---|---|---|
| 1 | `JobHistory`: what the job history promises (abstract) | done |
| 2 | `AssessmentJobs`: the calls on the jobs table; implements `JobHistory` | done |
| 3 | `AssessmentJobsProofs`: types, life cycle, what breaks the lock of the marker | done |
| 4 | `ScanReport`: what a scan report promises (abstract) | done |
| 5 | `PolicyScan`, `PolicyScanProofs`: the execution; implements `ScanReport` | done |
| 6 | `Findings`, `FindingsProofs`: items under scans, deletions and expiry | done |
| 7 | `AwsClients`, `ServiceScans`: the calls of every scanner and what becomes of each error | done |
| 8 | `WebUi`: pages, slices and thunks of the web UI with answers late, out of order and outdated | done |
| 9 | lagging `JobId` index in `Findings` | done |
| 10 | `PolicyItems`, `PolicyItemsProofs`: the policies table under scans, edits and expiry, and its search | done |
| 11 | `JobWindowsProofs`: when findings, markers and jobs disagree; `AssessmentJobs` implements the safety part of `JobHistory` | done |
| 12 | `WebUiProofs`: every property of the web UI for any number of jobs, requests and clicks | done |
| 13 | `TaskScan`: what one scan of a service promises (abstract); `ServiceScans` implements it | done |
| 14 | `ScannersProofs`, `ServiceScansProofs`: every property of `ServiceScans` for any regions, resources and services | done |

Composition: `AssessmentJobs!TaskFails` and `ScanEnds` stand for a whole execution of
`PolicyScan`; `AssessmentJobs!ScpScanFails` and `PolicyScan!ScpScanFails` are the same event, seen
from the job and from the execution; `AssessmentJobs!WriteBatch`, `DeleteSomeFindings` and
`DeleteRaises` stand for the items of `Findings`. No module takes from another that scans of a
type exclude each other: `Findings` and `PolicyItems` let them overlap. A module that runs two of
them together would have the product of their states and no property that either does not have
already.

## 3. The models

### AssessmentJobs

Every DynamoDB call is one step. An invocation of `run_assessment` is a program counter
per job: `job1`, `job2`, `mark1`, `mark2` are the double writes of job and marker at the
start (`PutJob`, `PutMarker`), then `scan` and `write` or the policy explorer's `scp`, then
`fjob1` to `fmark2` for `_finish_job`. `exec` is the state machine of an asynchronous job
with its finish handler, `del` the deletion requests. `findings` is the amount stored
(none, partly, all).

| Action | Code |
|---|---|
| `StartScan` | `_raise_if_active_job`, assessment_runner.py:109 |
| `PutJob`, `PutMarker` | `create_job`, `put_last_job_marker`, `_finish_job` through `put_item` |
| `ScanReturns`, `WriteBatch`, `WriteLastBatch`, `ScanRaises` | the try block of `run_assessment` |
| `StartExecution`, `ScpScanReturns`, `ScpScanFails`, `WriteScpFailure` | `PolicyExplorerStrategy.scan` |
| `TaskFails`, `ScanEnds` | the execution, as seen from the jobs table |
| `FinishReads`, `FinishFindsNoJob`, `FinishPutsJob`, `FinishPutsMarker` | `finish_scan.py` |
| `DeleteGetsJob` ... `DeleteItem`, `DeleteRaises` | `delete_job` |
| `RunnerCrashes`, `FinishCrashes`, `DeleteCrashes`, `FinishRetried` | time-outs, `LambdaInvoke` retries |
| `ExpireJob`, `ExpireFindings`, `ExpireMarker` | DynamoDB's time to live |

The constant `Faults` names what may go wrong: invocations that crash, finish handlers that are
retried, items that expire, and queries that do not show what was written last (the failures for
the finish handler, the findings for a deletion). Invocations interleave call by call in any case.
The code has no conditional writes and no transactions, so that two invocations may meet in the
short windows in which each reads and then rewrites the items of a type: at the start and the end
of a run, in the finish handler, during a deletion. `overlapped` remembers the types where that has
happened, `expired` the jobs that DynamoDB has removed, `missed` the jobs whose findings were
not all shown to their deletion. No action reads these three; the properties name them as the
causes, and the only ones, of what nothing in the code prevents. For `get_job` and the marker an
eventually consistent read is a read made earlier: it opens its window at the time of its answer.
Job ids are drawn fresh (uuid4), so that each runner has its own. A job that is absent makes
`get_job` raise; a deletion of such a job changes nothing and is left out.

### PolicyScan

One execution. `access` is the iteration of each account, `task` the invocation of each
service of it, `left` and `found` its region loop, `failures` the task failure items,
`stored` the places whose policies are in the table, `clean` the places known to hold none.
A place is an account, a service and a region; global services have one nameless region.
`TaskLost` and `ValidationLost` are answers that the Lambda service loses: the invocation's
records stay and the state machine invokes again, `MaxAttempts` times at most. With fault
"late" the invocation that was given up goes on, and `LateFailure` writes its record later.
`ScpScanFails` is the start Lambda, which stores a failure record of the same job at any time
beside the execution or after it. With fault "lag" the query of the finish handler may not show the
records yet. `missed` and `tardy` keep, for the properties only, the records that it was not shown
and those written after it had found none.
`MapFails` is an iteration that fails and with it the whole map (no tolerated failures
are declared); its Catch leads to `FailJob`.

`TaggingRaises` is the code as it is: `policy.JobId = ...` raises `AttributeError` on a
`dict`, which the router turns into a failure record (see findings).

### Findings

`table` maps each key to the job that owns the item. `Scan` starts the next job with any set
of keys as its result, `WriteBatch` stores a batch over whatever is there, `WriteFails` a part
of a batch before the exception, `Expire` removes an item at the end of its time to live.
`DeleteFinds` is `find_items_by_secondary_index`: one page is returned whole; for more, the code
continues with `table.scan` and the start key of the index. DynamoDB refuses such a key for the
base table, so the request ends in an error (external behaviour, modelled as `refused`).
`DeleteFinding` deletes by key. Scans of a type may overlap, since `AssessmentJobs` shows that
two starts may both be admitted, and an item belongs to whoever wrote it last. `overlap`, `beside`,
`stolen` and `expired` are history variables for the properties only. A scan that crashed without an
exception leaves its job ACTIVE and not deletable; its items behave like those of a scan that is
still under way.

DynamoDB promises only eventually that the index on `JobId` agrees with the table. `index`
holds for each key the present owner and the earlier ones that the index may still give;
`IndexCatchesUp` forgets the latter. A query answers with any set of keys that is possible
under it (`IndexAnswers`), so that a deletion may miss the newest items of its job or be given
items that are another job's by now. `lagged` remembers the deletions this happened to; the
properties name them as the exception, since nothing in the code waits for the index.

### PolicyItems

`org` is what AWS Organizations has now, `table` the stored statements with their age in
days, `step`, `listed`, `read` and `todo` the progress of each scan in a start Lambda. Nothing keeps two
of them apart: the next policy explorer job may be started as soon as the state machine of the
first has finished that job, or its start Lambda has failed (`restart`). Only service control policies reach the table (`TaggingRaises` keeps everything else out). A
document is a model value with a number of statements; `lost`, `since` and `settled` are history
variables: the policies of which another scan wrote over what a scan had stored, the days since
the last scan that stored all it had read, and the policies that this one read as they are, while
no scan beside it had read them otherwise.

| Action | Code |
|---|---|
| `ListPolicies`, `DescribePolicy` | `list_policies`, `describe_policies` in `scan_organizations_policy.py` |
| `CreateItems` | `scan`, with the sort keys of `create_items`; a policy with a single statement raises |
| `PutItem`, `EndScan` | `create_all` through `put_items`, item by item |
| `FailScan` | the except clause of the start Lambda, another exception, a time-out |
| `EditPolicy`, `Day`, `Expire` | an administrator, time, DynamoDB's time to live (external) |

A search changes nothing and is an operator on the table: `Examined` are the items that
the query reads, up to the limit or a full page, and `Results` those of them that match.
The reads of the base table are eventually consistent; a read that is somewhat old
returns what an earlier search would have returned, and the properties hold of every state.
A policy is the unit: `SettledFound` says nothing of a policy that was read in two versions by
two scans beside each other, where the slower may have stored the older one last.

Two consequences of the code that the model has but no property restates: one
service control policy whose `Statement` is an object makes every scan fail before it
stores anything; and the UI says "Too many results" when exactly 5000 are shown, be there
more or not. The `limit` of a search is a constant: one given in the query string arrives as
a string, which boto3 refuses, so that in practice it is the default of 5000.

### AwsClients and ServiceScans

`AwsClients` has one record per wrapper class: for each call the handler of its errors, a
function from what boto3 raises (`Errors`) to what the caller sees, and what it does with a
token for more pages. `ServiceScans` has one definition per scanner: the listings of
a region, the calls made for each result, and the exceptions over a value in place of
an answer. The machine runs any of the 32 through its regions.
For AWS Organizations the wrapper raises again what boto3 raises, and follows every token.
Among the errors, "unreachable" is a connection that cannot be made, which the listings turn into
the failure of a region, and "interrupted" every other error of the connection, such as a read that
times out, which no handler knows. Four calls leave out policies without a record (`SilentGaps`):
`iam/list_role_inline_policies` and `ssm_incidents/get_resource_policies` read the first page only,
`ram/get_resource_policy` keeps the first policy of the first page, and `sqs/list_queues` asks for
no page size and so gets no token.

| Action | Code |
|---|---|
| `StartRegion`, `EndRegion`, `Return` | the loop of `scan_regions`, or a scan without regions |
| `Connect` | the constructor of the wrapper, `assume_role_by_name` |
| `List` | a page of a listing, with or without another to follow |
| `ReadPolicy`, `ReadNothing`, `ReadSingleStatement`, `ReadNoJson`, `TripOverArn` | a policy and its conversion by `create_items` and `get_policy_details_from_arn` |
| `Fail`, `Raise` | an error, the handlers, the except clauses of `scan_regions`, the router and the start handler |

`PolicyScan` takes such a scan as a few steps: a region that yields (`ScanRegion`), a region
that fails with a record (`RegionFails`), `TaskClientError`, `TaskRaises` and `TaskReturns`.
`TaskScan` is this view of one invocation as a specification: `Examine`, `Record`, `GiveUp` (with
"recorded" or "crashed") and `Return`. `ServiceScans` implements it, with the region at
work counted among those left, and shows which calls of which services lead to each. Nothing of a region is kept before all its calls have
succeeded, so the order of calls cannot be observed and `pending` is a set. A listing has at
most two pages; the code for the second runs for all later ones. The sessions, the statement
numbers and the contents of items are left out.

### WebUi

A thunk is a record of its slice, the id of its notification and the field of the answer
that it checks; a page is a record of its thunk, when its effect dispatches it, and its
buttons. A request under way holds the backend's answer once there is one.

| Action | Code |
|---|---|
| `Navigate` (`GoTo`) | `SideNavigation`, `RouterLink`, the routes, the effect of the page |
| `Refresh`, `startScan`, `startSearch`, `deleteJob`, `onDismiss` | the buttons, as far as they are enabled |
| `Reads`, `ScansNow`, `Deletes`, `Refuses` | the backend's answers, reduced to the life of a job |
| `Elsewhere`, `Expires`, `StoredAgain` | other users, schedules and executions; expiry; a deleted job that a finish handler or a second put stores again |
| `FetchArrives`, `ScanArrives`, `DeleteArrives` | `get`, `post`, `deleteItem`, the rest of the thunk or callback, the reducers |

A job has no content but its state (none, ACTIVE, finished, deleted), so that a list is
what the backend's jobs were when it was read, and can be older or newer than another. The reads
are eventually consistent (`aws/services/dynamodb.py:79` and `:95`): `Reads` answers for each job
with its present state or any earlier one, whatever an earlier answer has shown.
`Route` gives the page of each address; `Requests` and `Answers` are all the requests and
answers there can be, for any jobs and searches. The errors of the backend are `{Error, Message}` (`api_gateway_lambda_handler.py`) while `get` and `post`
look for `error`: an error answer goes on as a result, to be stopped by the thunk's check of a
field, which `fetchResourceBasedPolicies` does not have. `JobPage` stays mounted when one
job's page follows another's, and then fetches nothing. `unfetched`, `refused`, `latest`,
`lagged` (jobs that the answer under way shows as of earlier) and `revived` (jobs stored again) are
history variables for the exceptions that the properties name.

### Abstract specifications

`JobHistory`: a job appears once, as ACTIVE and only while no other job of its type is,
gets an outcome, may be deleted, never returns. Two things limit this promise, as steps of their own:
a job whose scan is lost stays ACTIVE, keeps no one out and may be removed (`Lose`), and once two
requests of a type have raced (`Meet`), a second job may be created beside the first and a removed
one may return with an outcome. `AssessmentJobs` implements it for the synchronous types. `ScanReport`: places are settled one by
one, trouble is recorded, and the report that is finally given fits both. `TaskScan`: the
places of one service are visited one by one, none twice; each is kept or recorded as a whole;
a scan returns when none is left, or is given up with nothing.

## 4. Runs

| Run | Instance | Question |
|---|---|---|
| `jobs_races` | 2 synchronous jobs, or 1 policy explorer job; 2 deletions; 3 attempts; all faults | is a job ever revived, abandoned or deleted while active, and what else do races, crashes, lag and expiry do to jobs, markers and findings? |
| `jobs_liveness` | 2 synchronous jobs, or 1 policy explorer job; 1 deletion; 2 attempts; crashes, retries, expiry | implements `JobHistory`; does every job end, and is every type freed? |
| `restart` | 2 policy explorer jobs, no faults, no two windows meet | violated: two scans of one type |
| `late_failure` | 1 policy explorer job, no faults | violated: a failure that is not reported |
| `scan_faults` | 1 account, a global, a regional and an unsupported service, 2 regions, 2 attempts, all faults | is anything skipped in silence, and which failures does a success hide? |
| `scan_report` | 2 accounts side by side, 1 service, 3 attempts; client errors, exceptions, lost answers | implements `ScanReport`; is the report right? |
| `scan_find_recorded` | 1 place, no faults | violated: found policies are not recorded |
| `findings_races` | 2 keys, 2 jobs, 2 deletions, batches and pages of 1, an index that lags, expiry | what may deletions and scans do to each other's items? |
| `policy_items` | 2 policies, 2 scans that may overlap, documents of two, one and a single statement, a lifetime of 1 day, pages of 1, 2 and 4, a limit of 2 | what does a search find while policies change and scans fail? |
| `policy_items_vanish` | 1 policy, 2 scans that may overlap, a lifetime of 2 days | does outdated content vanish? |
| `web_ui` | 2 jobs, 2 searches, 2 requests at once, 4 clicks, on one of 5 sets of pages | what may a user rely on? |
| `service_scans` | each of 32 scanners, 2 regions, 2 resources, every error in every call | implements `TaskScan`; what does a failing call cost? |

What holds with exceptions. Several things that one would wish of this system do not hold, as
nothing in the code prevents a race, and a test would hardly show. The properties about them
name each cause that is possible, so that another one would be found:

| Property | Fails to hold for the reader only by |
|---|---|
| `OneScanAtATime` | windows of the type that meet (two starts; a deletion of the last job beside a start) |
| `DeletedStaysDeleted` | the same; a start invocation of the policy explorer that raises behind its execution |
| `LatestListable` | the same; a job that expires before its marker |
| `MarkerAgreesWithJob` | the same; an expired job; a crash; a finish handler about to be retried |
| `NoOrphanFindings` | an expired job; findings that the index did not show to the deletion |
| `UnreportedFailures` | records of the start invocation or of one given up that come later; a query that does not show a record |
| `DeletedWithFindings`, `StolenInOverlap` | an index that misled the deletion; for the second also a scan beside it |
| `LossesExplained` | a job that found the same, later or beside it; a deletion; expiry |
| `LossesAreKnown` | the four calls of `SilentGaps` |
| `ListsNeverGoBack` | an answer older than the table; a job that was stored again |
| `DeletedOrRefused` | a deletion that the backend refused; a job that was stored again. Of a deletion reported as failed, whose answer was lost, the property says nothing: it may have been done |

Without any exception hold `DeletingOnlyFinished`, `FinishedNeverReactivated`, `SucceededAfterWrite`,
`NothingSkippedSilently` and `FailedOnlyByError`, and of what is in the policies table
`SettledFound` and `FormerContentVanishes`.

Why these bounds are enough to show something. Races on the jobs table involve a reader and
a writer of one marker: two jobs and two deletions give every pair of roles, three attempts a
finish handler that is retried twice. The types share no item, so the runs of `AssessmentJobs`
explore the types one by one (`OneTypeNext` lets a scan start only when the other types are
idle; deletions need a job to delete). A policy explorer job alone has its start invocation,
its finish handler and two deletions against each other. In `restart` no two windows meet, so that
its counterexample has another reason than the race of two starts. A service with two regions
shows a region that fails between others; two attempts show a retry and its exhaustion. Two keys
with pages of one make the findings of a job exceed a page, and with batches of one a job can
stop between two of them. Two policies with up to four statements fill, exceed and stay below
limit and page, a policy that shrinks from two statements to one leaves an item behind, and two
scans can read two versions of a policy and store them in either order. Expiry of one policy does
not depend on others; a lifetime of two days has items that are outdated and not yet expired. Two
regions and two resources let a scanner fail after, before and between successes, and
scanners do not influence each other. In the UI two requests are the least whose answers
can be swapped; four clicks reach a second job's page by way of the first and of a list, delete it
and refresh the list; pages meet only in a slice, a scan or a job, so that a session with a few
of them shows each meeting; the page of trusted access, left out, is that of delegated admins but for
its notifications. `MaxAttempts` bounds Step Functions' retries (six more attempts in AWS),
`MaxConcurrency` is 10 in the code. No run uses any other bound. Sets of interchangeable jobs,
accounts, regions, deletions, keys and requests are symmetric in the runs without liveness.

Deadlock is not checked: each system may stop, when no one asks for another scan or
the user has nothing more to do.

Every property of a passing run has a mutant, a plausible mistake in one definition that
breaks it; the mutants stand before the definitions they change.

### Fairness

`AssessmentJobs!Fairness` says that Lambda goes on with an invocation it has begun, Step
Functions with its execution, a deletion with its calls, and that DynamoDB removes expired
markers in the end. `TypeIsFreed` rests on the latter after a crash: a marker that a dead invocation
has left ACTIVE blocks its type until its time to live is over. `JobFinishes` excepts the jobs whose
own finisher has crashed; an ACTIVE job of theirs stays until it expires. `PolicyScan!Fairness` says the same of iterations and invocations, which
end at the Lambda time-out at the latest. Nothing forces anybody to ask for a scan or
a deletion, and no fairness is assumed of faults. A scan itself is assumed to return or
to raise.

`PolicyItems!Fairness`: a scan that has begun ends, at the latest with its invocation; days go
by (weak fairness is enough, as each scan is started once a day at most, so that all have ended
in the end); DynamoDB removes what has expired in the end. Nobody is assumed to scan, so
`FormerContentVanishes` rests on expiry and on what later scans overwrite.

### Findings of the runs

* `restart`: the start Lambda starts the state machine before it scans service control
  policies. An exception other than `ClientError` in that scan marks job and marker FAILED
  while the execution goes on; the next start is admitted beside it. The run leaves out that two
  requests both read the marker before either writes it, which violates the same property.
* `late_failure`: the failure record of the service control policy scan can be written
  after the finish handler has counted failures; the job stays SUCCEEDED.
* `scan_find_recorded`: see `TaggingRaises` above. A service that finds policies is
  recorded as failed and nothing of it is stored.

That a deletion may take away a finding which a later scan has found again is not among
them, as no doc or test promises otherwise: it is the exception that `StolenInOverlap`
names.

## 5. Theorems

All for every value of the constants that satisfies the named assumptions
(`ConstantsAssumption`, `ScanAssumption`, `FindingsAssumption`, `ItemsAssumption`,
`ServiceScansAssumption`, `WebUiAssumption`).

* `AssessmentJobsProofs`. `TypeCorrect`. `LifeInv` is inductive under all faults: before a
  job is created nothing refers to it (`BeforeCreation`), finishers write finished statuses
  only (`StatusWritten`), and once a finisher has put the job it is not ACTIVE
  (`AfterFinishing`). `DeletingOnlyFinished` alone is not inductive: the second write of a put
  could revive the job unless one knows what the writer writes. From it follow
  `DeletionIsSafe`, `OwnedUntilFinished` and `NoReactivation` (an action property).
  `MarkerIsALock` adds `LockInv`, which holds of every type whose windows have not met: the working
  scan holds the ACTIVE marker, and a deletion removes only the marker it has read.
* `JobWindowsProofs` continues it; every theorem of it is about all faults and all interleavings.
  `SuccessAfterWrite`: `SuccessIsStored` says that between the last batch and the first SUCCEEDED
  the job is ACTIVE, so that by `DeletingOnlyFinished` nobody deletes its findings.
  `NoFindingsWithoutJob`: `FindingsGone` says that a deletion goes on to the marker without findings
  or without having been shown them, and `CreatedActive` that a writer's job is ACTIVE. For a type
  whose windows have not met, `WindowsExclude` gives one open window at a time, and `WindowStores`
  says what is stored inside it: the second write of a put repeats the first, and a finisher finds
  its job stored, unless it is the start invocation behind its own execution. From these follow `DeletedForGood`, for jobs of every type;
  `LatestIsListable` (`MarkerHasJob`: a marker names a stored or an expired job, and a deletion
  has removed the marker before the job); and `MarkersAgree` (`MarkerRepeats`). `HistoryIsKept` is the
  safety part of `ImplementsJobHistory`: each step on the jobs table is a step of `JobHistory` or leaves
  it alone, a crash being `Lose` and windows that meet `Meet`.
* `PolicyScanProofs`. `ScanInv` (`ScanInvariant`): while a task runs, each region is still to
  be visited, or found to hold policies, or settled; a finished task has settled all; accounts
  are refused with a record. `NothingSkipped` and `ScanTypes` follow, with every fault, and so
  does `FailureHasCause`, by `ErrorInv`: the machine fails only behind a failed iteration, and
  one that succeeds has none. `CleanSuccess`, by `VerdictInv`: no iteration is left to write a
  record once the finish handler has read, so that those of an unqualified success were not shown or
  come from somebody the machine does not wait for. With neither late invocations nor a lagging
  query `ReportsFaithfully` shows that every step is a step of `ScanReport` or leaves it alone.
* `FindingsProofs`. `FindingsInv` (`FindingsInvariant`): jobs begin in order, and one that still
  scans when a later one begins is known to run beside it; the index never loses sight of the
  present owner; a deletion that has listed its items, and was not misled, still has all of the
  job's items on the list (`AllListed`), because a finished job gets no more; whatever else is under
  those keys by then was written by a scan beside it (`TakenOverInOverlap`); a written finding is
  there or its loss has a cause (`WrittenExplained`). From it `DeletionIsComplete`,
  `LossesAreExplained` and `TheftNeedsOverlap`, for any batch and page size, any overlap of scans
  and however far the index lags.
* `PolicyItemsProofs`. `ItemsInv` (`ItemsInvariant`): `SettledStored` alone is not inductive, as
  scans under way write over the items of settled policies; what any of them has read of these is
  what they are (`SettledRead`), and a scan has stored whatever it no longer has to, unless another
  wrote over it (`ScanStores`, `TodoIsRead`). `SettledIsFound` shows with it that a table no
  larger than page and limit is read as a whole. `GapsAreExplained` holds for any table
  whatever, by the sizes of what is examined and of what results.
* `WebUiProofs`, for any number of jobs, searches, requests under way and clicks, and
  any menus. `UiTypes` adds to the types that each request fits its thunk. `SlotSteps` says what a
  step can do to the request in a slot: it stays, is answered, or arrives, and a new one waits.
  `Orderly` makes `LoadingIsReal` inductive: a list that is fetched is LOADING and fetched
  once at a time, since its buttons are disabled meanwhile. From these: `SpinnersEnd`;
  `ListsAdvance` (a list, the answer that would replace it and the backend are each as late as the
  one before, but for jobs stored again and for what the answer shows as of earlier, by
  `AnswerCurrent` and `OlderMore`); `DeletionsReported`, by what deletions have been
  answered and by the ways a job goes on (`JobSteps`); `LatestSearchShown`, by `LatestAlone` (every
  search under way is the last one when that began alone); `JobPagesFilled`.
* `ScannersProofs` and `ServiceScansProofs`. The first goes through the table of scanners
  once. `Sound` says what the 32 have in common: which exceptions a call can end in, that only
  listings over regions know an unreachable region, that no call knows an interrupted one, which
  calls ignore a page or trip over an answer, and who calls the scanner. `ScannersSound` is all
  that the second uses, so that its steps are not split by scanner; a scanner added to the table
  needs one lemma. `WalkInv` (`RegionsWalked`): a call is made only in a region at work; each
  policy seen is among the items, among what the region at work has yielded, in a recorded region, or
  lost in one of the `SilentGaps` (`PoliciesAccounted`; `LossesAreKnown` alone says nothing of
  a scan under way); a region with items is settled and not recorded (`VisitedOnce`). Every way
  a call fails has an excuse (`FailureExcused`, `TripExcused`), which is what `RegionsFailAlone`
  and `CrashesExplained` need. `ScannersAreTaskScans`: each step settles a region of `TaskScan`, ends
  it, or leaves it alone.

Only model-checked: whatever is about liveness. These are `JobFinishes`, `TypeIsFreed`,
`FormerContentVanishes` and the fairness of `JobHistory` and `ScanReport`, since liveness under
fairness is beyond the prover. The properties that the three runs with a
violation check are false of the code.

## 6. Not modelled

* The contents of findings, policies and messages; logging; authentication; the AWS
  services themselves, beyond how the code uses them; the rendering of the UI, the filters of
  its search form, its sign-in.
* The jobs API router and the API Gateway handler: stateless; each route calls one operation
  of `AssessmentJobs`, and each exception becomes one response. A model would be that table
  again. What matters of it to the UI, the shape of an error, is in `WebUi`.
* Metrics: every error is swallowed and no state depends on them.
* `deploy_webui/`: one sequential run per deployment, with no state that anything reads.
* CDK declarations other than the state machine, its time-outs and retries.
* The predecessor in `resource_based_policy/` and `src/source/lib`, which no current stack can
  start; its jobs can be listed and deleted as in `AssessmentJobs`.
* Tables of data: the supported regions and services are constants of `PolicyScan`.
* `update_item`, which nothing calls, and that the read of a partition for the lists of
  findings and jobs (`aws/services/dynamodb.py:79`) stops at the first page. That it may be outdated
  is in `WebUi`.
* Build and release scripts.
