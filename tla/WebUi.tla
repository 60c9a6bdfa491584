-------------------------------- MODULE WebUi --------------------------------
(***************************************************************************)
(* The web UI (src/source/webui): pages, the Redux store, and requests to  *)
(* the API whose answers arrive in any order, late, or not at all, while   *)
(* the user goes on and jobs come and go in the backend.                   *)
(***************************************************************************)
EXTENDS Naturals, FiniteSets

CONSTANTS
  Jobs,      \* job ids
  Searches,  \* what can be searched for in the policy explorer
  Menus,     \* sets of pages, of which a user visits one set (a bound)
  Slots,     \* requests that may be under way at once (a bound)
  MaxClicks, \* what the user does at most (a bound)
  None

(***************************************************************************)
(* The thunks.  notice: the id of its notification.  needs: the field      *)
(* without which a body is an error.                                       *)
(***************************************************************************)
Fetch(slice, notice, needs) == [slice |-> slice, notice |-> notice, needs |-> needs]

fetchJobs == Fetch("jobs", "get-jobs-status", "Results")
fetchJobDetails == Fetch("jobDetails", "get-job-details-status", "Job")
fetchDelegatedAdmins == Fetch("delegatedAdmins", "get-delegated-admins-status", "Results")
fetchTrustedAccess == Fetch("trustedAccess", "get-trusted-access-status", "Results")
fetchPolicyModels == Fetch("policyModels", "get-policy-models-status", "Results")

\* Only the presence of a body is tested.
fetchResourceBasedPolicies ==
  Fetch("resourceBasedPolicies", "get-resource-based-policies-status", "body")

\* unanswered: the id of the notification if there is no answer.
startDelegatedAdminsScan ==
  [notice |-> "post-delegated-admins-status", unanswered |-> "get-delegated-admins-status"]
startTrustedAccessScan ==
  [notice |-> "post-trusted-access-status", unanswered |-> "post-trusted-access-status"]

Fetches ==
  [fetchJobs |-> fetchJobs, fetchJobDetails |-> fetchJobDetails,
   fetchDelegatedAdmins |-> fetchDelegatedAdmins, fetchTrustedAccess |-> fetchTrustedAccess,
   fetchPolicyModels |-> fetchPolicyModels,
   fetchResourceBasedPolicies |-> fetchResourceBasedPolicies]

Scans ==
  [startDelegatedAdminsScan |-> startDelegatedAdminsScan,
   startTrustedAccessScan |-> startTrustedAccessScan]

\* The slices of rootReducer that hold a list which is replaced as a whole.
Lists == {"jobs", "delegatedAdmins", "trustedAccess", "resourceBasedPolicies"}
Slices == Lists \cup {"jobDetails", "policyModels"}

(***************************************************************************)
(* The pages.  fetch: the thunk of the page.  load: when its effect        *)
(* dispatches this thunk.  refresh: whether it has a button for it.        *)
(***************************************************************************)
Page(fetch, load, refresh, scan) ==
  [fetch |-> fetch, load |-> load, refresh |-> refresh, scan |-> scan]

LandingPage == Page("fetchJobs", "idle", FALSE, "")
JobHistoryPage == Page("fetchJobs", "idle", TRUE, "")
DelegatedAdminPage == Page("fetchDelegatedAdmins", "idle", TRUE, "startDelegatedAdminsScan")
TrustedAccessPage == Page("fetchTrustedAccess", "idle", TRUE, "startTrustedAccessScan")
ResourceBasedPoliciesPage == Page("fetchResourceBasedPolicies", "idle", TRUE, "")
PolicyExplorerPage == Page("fetchPolicyModels", "never", FALSE, "")

\* Mutant: the effect of the other pages.
JobPageWhenIdle == Page("fetchJobDetails", "idle", TRUE, "")

JobPage == Page("fetchJobDetails", "always", TRUE, "")

MainContentRoutes ==
  [p \in {"/", "/jobs", "/delegated-admin", "/trusted-access",
          "/resource-based-policy", "/policy-explorer"} |->
     CASE p = "/" -> LandingPage
       [] p = "/jobs" -> JobHistoryPage
       [] p = "/delegated-admin" -> DelegatedAdminPage
       [] p = "/trusted-access" -> TrustedAccessPage
       [] p = "/resource-based-policy" -> ResourceBasedPoliciesPage
       [] p = "/policy-explorer" -> PolicyExplorerPage]

\* The route of a job page is /jobs/:assessmentType/:id; the job stands for it.
Route(p) == IF p \in Jobs THEN JobPage ELSE MainContentRoutes[p]

(***************************************************************************)
(* What is under way: a request, and the answer of the backend to it.      *)
(***************************************************************************)
JobStates == {"none", "ACTIVE", "finished", "deleted"}

Thunks == DOMAIN Fetches \cup DOMAIN Scans \cup {"deleteItem"}

Waiting == [kind |-> "waiting"]

Answers ==
  {Waiting} \cup [kind : {"results", "error"},
                 body : [Jobs -> JobStates] \cup JobStates \cup BOOLEAN \cup Jobs \cup {None}]

\* own: the component that asked for it is still mounted.
Requests == [thunk : Thunks, of : Jobs \cup Searches \cup {None},
             answer : Answers, own : BOOLEAN]

ASSUME WebUiAssumption ==
  /\ None \notin Jobs \cup Searches
  /\ None \notin Requests
  /\ \A m \in Menus : m \subseteq Jobs \cup DOMAIN MainContentRoutes

VARIABLES
  job,      \* backend: "none", "ACTIVE", "finished" or "deleted"
  menu,     \* the pages this user visits
  page,     \* the current page, None before the app is opened
  status,   \* store: the status of each slice
  list,     \* store: for each list, the backend's jobs as of the answer shown
  details,  \* store: for each job, the state that its details show, or "none"
  policies, \* store: the search whose results are shown
  notices,  \* store: the notifications
  request,  \* what is under way in each slot
  latest,   \* history: the last search, and whether another was under way then
  unfetched,\* history: jobs without details for a reason
  refused,  \* history: jobs whose deletion the backend did not carry out
  revived,  \* history: jobs stored again after they were deleted
  lagged,   \* history: for each list, the jobs that the answer under way shows as of earlier
  clicks    \* what the user has done, up to MaxClicks

vars == <<job, menu, page, status, list, details, policies, notices, request,
          latest, unfetched, refused, revived, lagged, clicks>>

Nothing == [j \in Jobs |-> "none"]

Init ==
  /\ job \in [Jobs -> {"none", "ACTIVE", "finished"}]
  /\ menu \in Menus
  /\ page = None
  /\ status = [s \in Slices |-> "IDLE"]
  /\ list = [s \in Lists |-> Nothing]
  /\ details = Nothing
  /\ policies = None
  /\ notices = {}
  /\ request = [s \in Slots |-> None]
  /\ latest = [search |-> None, alone |-> TRUE]
  /\ unfetched = {}
  /\ refused = {}
  /\ revived = {}
  /\ lagged = [s \in Lists |-> {}]
  /\ clicks = 0

-----------------------------------------------------------------------------
(* Requests *)

New(thunk, of) == [thunk |-> thunk, of |-> of, answer |-> Waiting, own |-> TRUE]

UnderWay(thunk, of) ==
  \E s \in Slots : request[s] # None /\ request[s].thunk = thunk /\ request[s].of = of

\* A thunk is dispatched; that of a fetch sets the slice to LOADING.
Dispatch(requests, thunk, of) ==
  \E s \in Slots :
    /\ requests[s] = None
    /\ request' = [requests EXCEPT ![s] = New(thunk, of)]
    /\ status' = IF thunk \in DOMAIN Fetches
                   THEN [status EXCEPT ![Fetches[thunk].slice] = "LOADING"] ELSE status

\* Mutant: without the look for one that has the same id.
addNotificationAnyway(id, text) ==
  notices' = notices \cup {[id |-> id, of |-> None, text |-> text]}

\* A notification that has the id of one shown is dropped.
addNotification(id, text) ==
  notices' = IF \E n \in notices : n.id = id THEN notices
             ELSE notices \cup {[id |-> id, of |-> None, text |-> text]}

\* The id is a new uuid.  The same text twice is shown once here.
addNewNotification(of, text) ==
  notices' = notices \cup {[id |-> "uuid", of |-> of, text |-> text]}

-----------------------------------------------------------------------------
(* Navigation *)

Click ==
  /\ clicks < MaxClicks
  /\ clicks' = clicks + 1

Unmount(requests) ==
  [s \in Slots |-> IF requests[s] = None THEN None ELSE [requests[s] EXCEPT !.own = FALSE]]

\* One job page follows another in the same component: its effect does not run
\* again, and page and route are all that changes.
GoTo(p, requests) ==
  LET r == Route(p)
      stays == p = page \/ {p, page} \subseteq Jobs
      loads == r.load = "always" \/ (r.load = "idle" /\ status[Fetches[r.fetch].slice] = "IDLE")
      of == IF p \in Jobs THEN p ELSE None
  IN /\ page' = p
     /\ IF ~stays /\ loads THEN Dispatch(Unmount(requests), r.fetch, of)
          ELSE /\ request' = IF stays THEN requests ELSE Unmount(requests)
               /\ UNCHANGED status
     /\ unfetched' = IF p \notin Jobs \/ p = page THEN unfetched
                     ELSE IF stays THEN unfetched \cup {p} ELSE unfetched \ {p}

\* By the address bar when the app is opened, then by menu or by a link of a
\* list of jobs.
Navigate(p) ==
  /\ Click
  /\ p # page
  /\ \/ p \in menu \ Jobs
     \/ page = None /\ p \in menu
     \/ page \in {"/", "/jobs"} /\ p \in Jobs /\ list["jobs"][p] \notin {"none", "deleted"}
  /\ GoTo(p, request)
  /\ UNCHANGED <<job, menu, list, details, policies, notices, latest, refused, revived, lagged>>

-----------------------------------------------------------------------------
(* Buttons *)

loading == status[Fetches[Route(page).fetch].slice] = "LOADING"

\* Mutant: the button is enabled while the list is loading.
RefreshAnytime ==
  /\ Click
  /\ page # None
  /\ Route(page).refresh
  /\ Dispatch(request, Route(page).fetch, IF page \in Jobs THEN page ELSE None)
  /\ UNCHANGED <<job, menu, page, list, details, policies, notices, latest, unfetched, refused,
                 revived, lagged>>

Refresh ==
  /\ Click
  /\ page # None
  /\ Route(page).refresh
  /\ ~loading
  /\ Dispatch(request, Route(page).fetch, IF page \in Jobs THEN page ELSE None)
  /\ UNCHANGED <<job, menu, page, list, details, policies, notices, latest, unfetched, refused,
                 revived, lagged>>

startScan ==
  /\ Click
  /\ page # None
  /\ Route(page).scan # ""
  /\ ~loading
  /\ Dispatch(request, Route(page).scan, None)
  /\ UNCHANGED <<job, menu, page, list, details, policies, notices, latest, unfetched, refused,
                 revived, lagged>>

\* Mutant: the filters of the previous render.
startSearchStale(q) ==
  /\ Click
  /\ page = "/policy-explorer"
  /\ Dispatch(request, "fetchPolicyModels", IF latest.search = None THEN q ELSE latest.search)
  /\ latest' = [search |-> q,
                alone |-> \A other \in Searches : ~UnderWay("fetchPolicyModels", other)]
  /\ UNCHANGED <<job, menu, page, list, details, policies, notices, unfetched, refused, revived,
                 lagged>>

\* Nothing keeps the user from searching again before the answer is there.
startSearch(q) ==
  /\ Click
  /\ page = "/policy-explorer"
  /\ Dispatch(request, "fetchPolicyModels", q)
  /\ latest' = [search |-> q,
                alone |-> \A other \in Searches : ~UnderWay("fetchPolicyModels", other)]
  /\ UNCHANGED <<job, menu, page, list, details, policies, notices, unfetched, refused, revived,
                 lagged>>

deleting ==
  \E s \in Slots : request[s] # None /\ request[s].thunk = "deleteItem" /\ request[s].own

deleteJob ==
  /\ Click
  /\ page \in Jobs
  /\ ~deleting
  /\ Dispatch(request, "deleteItem", page)
  /\ UNCHANGED <<job, menu, page, list, details, policies, notices, latest, unfetched, refused,
                 revived, lagged>>

onDismiss(n) ==
  /\ Click
  /\ n \in notices
  /\ notices' = notices \ {n}
  /\ UNCHANGED <<job, menu, page, status, list, details, policies, request, latest,
                 unfetched, refused, revived, lagged>>

-----------------------------------------------------------------------------
(* The backend *)

Ready(s) == request[s] # None /\ request[s].answer = Waiting

Answer(s, kind, body) ==
  /\ request' = [request EXCEPT ![s].answer = [kind |-> kind, body |-> body]]
  /\ UNCHANGED <<menu, page, status, list, details, policies, notices, latest, unfetched, revived,
                 clicks>>

\* A body {'Error': ..., 'Message': ...}, with nothing changed: a request that is
\* refused, or for something that is not there, or that fails.
Refuses(s) ==
  /\ Ready(s)
  /\ Answer(s, "error", None)
  /\ refused' = IF request[s].thunk = "deleteItem" THEN refused \cup {request[s].of} ELSE refused
  /\ UNCHANGED <<job, lagged>>

\* How far a job has come.
Rank == [none |-> 0, ACTIVE |-> 1, finished |-> 2, deleted |-> 3]

\* Queries and get_item read with eventual consistency: they may show a job as it
\* has been before, whatever an earlier answer has shown.
Earlier(j) ==
  {st \in JobStates : Rank[st] <= Rank[job[j]] \/ (st = "deleted" /\ j \in revived)}

Reads(s) ==
  /\ Ready(s)
  /\ \/ /\ request[s].thunk \in DOMAIN Fetches
        /\ Fetches[request[s].thunk].slice \in Lists
        /\ \E view \in [Jobs -> JobStates] :
             /\ \A j \in Jobs : view[j] \in Earlier(j)
             /\ Answer(s, "results", view)
             /\ lagged' = [lagged EXCEPT ![Fetches[request[s].thunk].slice] =
                             {j \in Jobs : view[j] # job[j]}]
     \/ /\ request[s].thunk = "fetchJobDetails"
        /\ \E st \in Earlier(request[s].of) \cap {"ACTIVE", "finished"} :
             Answer(s, "results", st)
        /\ UNCHANGED lagged
     \/ /\ request[s].thunk = "fetchPolicyModels"
        /\ \E many \in BOOLEAN : Answer(s, "results", many)
        /\ UNCHANGED lagged
  /\ UNCHANGED <<job, refused>>

\* A synchronous scan that fails ends in an error, with its job stored.
ScansNow(s, j) ==
  /\ Ready(s)
  /\ request[s].thunk \in DOMAIN Scans
  /\ job[j] = "none"
  /\ job' = [job EXCEPT ![j] = "finished"]
  /\ Answer(s, "results", j) \/ Answer(s, "error", None)
  /\ UNCHANGED <<refused, lagged>>

\* get_item may still show a job that is gone; delete_item may fail and be done.
Deletes(s) ==
  /\ Ready(s)
  /\ request[s].thunk = "deleteItem"
  /\ job[request[s].of] \in {"finished", "deleted"}
  /\ job' = [job EXCEPT ![request[s].of] = "deleted"]
  /\ Answer(s, "results", None) \/ Answer(s, "error", None)
  /\ UNCHANGED <<refused, lagged>>

\* What other sessions, schedules, executions and DynamoDB do to a job.
Becomes(j, st) ==
  /\ job' = [job EXCEPT ![j] = st]
  /\ UNCHANGED <<menu, page, status, list, details, policies, notices, request, latest,
                 unfetched, refused, lagged, clicks>>

\* A scheduled scan, or a scan or deletion of another user.
Elsewhere(j) ==
  /\ \/ job[j] = "none" /\ Becomes(j, "ACTIVE")
     \/ job[j] = "ACTIVE" /\ Becomes(j, "finished")
     \/ job[j] = "finished" /\ Becomes(j, "deleted")
  /\ UNCHANGED revived

\* The time to live of a job ends.
Expires(j) ==
  /\ job[j] \in {"ACTIVE", "finished"}
  /\ Becomes(j, "deleted")
  /\ UNCHANGED revived

\* The job is put again after its deletion: by a finish handler or a run that has
\* read it before, or is retried.
StoredAgain(j) ==
  /\ job[j] = "deleted"
  /\ Becomes(j, "finished")
  /\ revived' = revived \cup {j}

-----------------------------------------------------------------------------
(* Answers *)

Done(s) == [request EXCEPT ![s] = None]

\* kind "lost": no answer, or one that fetch() or response.json() cannot take.
Arrives(s, kind) ==
  /\ request[s] # None
  /\ kind \in {"lost", request[s].answer.kind} \ {"waiting"}

\* Mutant: no reducer for rejected.
RejectedUnseen(t) ==
  /\ UNCHANGED status
  /\ addNotification(t.notice, "error")

Rejected(t) ==
  /\ status' = [status EXCEPT ![t.slice] = "FAILED"]
  /\ addNotification(t.notice, "error")

\* get() takes error for the name of the field, so that the body of an error
\* goes to the thunk as a result.
FetchArrives(s, kind) ==
  LET r == request[s]
      t == Fetches[r.thunk]
      body == r.answer.body
  IN /\ Arrives(s, kind)
     /\ r.thunk \in DOMAIN Fetches
     /\ request' = Done(s)
     /\ lagged' = IF t.slice \in Lists THEN [lagged EXCEPT ![t.slice] = {}] ELSE lagged
     /\ \/ /\ kind = "lost" \/ (kind = "error" /\ t.needs # "body")
           /\ Rejected(t)
           /\ unfetched' = IF r.thunk = "fetchJobDetails" THEN unfetched \cup {r.of} ELSE unfetched
           /\ UNCHANGED <<list, details, policies>>
        \/ /\ kind = "error" /\ t.needs = "body"
           \* setAll(state, undefined) throws in the reducer of fulfilled.
           /\ UNCHANGED <<status, notices, list, details, policies, unfetched>>
        \/ /\ kind = "results"
           /\ status' = [status EXCEPT ![t.slice] = "SUCCEEDED"]
           /\ IF t.slice \in Lists THEN list' = [list EXCEPT ![t.slice] = body] ELSE UNCHANGED list
           /\ IF t.slice = "jobDetails" THEN details' = [details EXCEPT ![r.of] = body]
                ELSE UNCHANGED details
           /\ IF t.slice = "policyModels" THEN policies' = r.of ELSE UNCHANGED policies
           /\ IF t.slice = "policyModels" /\ body = TRUE
                THEN addNotification(t.notice, "info") ELSE UNCHANGED notices
           /\ UNCHANGED unfetched
     /\ UNCHANGED <<job, menu, page, latest, refused, revived, clicks>>

\* On success the UI goes to the page of the new job, wherever the user is.
ScanArrives(s, kind) ==
  LET t == Scans[request[s].thunk]
      body == request[s].answer.body
  IN /\ Arrives(s, kind)
     /\ request[s].thunk \in DOMAIN Scans
     /\ \/ /\ kind = "lost"
           /\ addNotification(t.unanswered, "error")
           /\ request' = Done(s)
           /\ UNCHANGED <<page, status, unfetched>>
        \/ /\ kind = "error"
           /\ addNotification(t.notice, "info")
           /\ request' = Done(s)
           /\ UNCHANGED <<page, status, unfetched>>
        \/ /\ kind = "results"
           /\ addNotification(t.notice, "success")
           /\ GoTo(body, Done(s))
     /\ UNCHANGED <<job, menu, list, details, policies, latest, refused, revived, lagged, clicks>>

\* Mutant: without the test of state.error.
DeleteArrivesAnyhow(s, kind) ==
  /\ Arrives(s, kind)
  /\ request[s].thunk = "deleteItem"
  /\ addNewNotification(request[s].of, "deleted")
  /\ GoTo("/jobs", Done(s))
  /\ UNCHANGED <<job, menu, list, details, policies, latest, refused, revived, lagged, clicks>>

\* deleteItem does not look at the answer.  The id of the notification is new.
DeleteArrives(s, kind) ==
  LET j == request[s].of
  IN /\ Arrives(s, kind)
     /\ request[s].thunk = "deleteItem"
     /\ IF kind = "lost"
          THEN /\ addNewNotification(j, "not deleted")
               /\ request' = Done(s)
               /\ UNCHANGED <<page, status, unfetched>>
          ELSE /\ addNewNotification(j, "deleted")
               /\ GoTo("/jobs", Done(s))
     /\ UNCHANGED <<job, menu, list, details, policies, latest, refused, revived, lagged, clicks>>

Next ==
  \/ \E p \in menu \cup Jobs : Navigate(p)
  \/ Refresh
  \/ startScan
  \/ \E q \in Searches : startSearch(q)
  \/ deleteJob
  \/ \E n \in notices : onDismiss(n)
  \/ \E s \in Slots : Refuses(s) \/ Reads(s) \/ Deletes(s)
  \/ \E s \in Slots, j \in Jobs : ScansNow(s, j)
  \/ \E j \in Jobs : Elsewhere(j) \/ Expires(j) \/ StoredAgain(j)
  \/ \E s \in Slots, kind \in {"results", "error", "lost"} :
       FetchArrives(s, kind) \/ ScanArrives(s, kind) \/ DeleteArrives(s, kind)

Spec == Init /\ [][Next]_vars

-----------------------------------------------------------------------------

\* Types; among them, every notification has an id of its own.
TypeOK ==
  /\ job \in [Jobs -> JobStates]
  /\ page \in menu \cup Jobs \cup {"/jobs", None}
  /\ status \in [Slices -> {"IDLE", "LOADING", "SUCCEEDED", "FAILED"}]
  /\ list \in [Lists -> [Jobs -> JobStates]]
  /\ details \in [Jobs -> JobStates]
  /\ policies \in Searches \cup {None}
  /\ \A m, n \in notices : m.id = n.id => m = n \/ m.id = "uuid"
  /\ unfetched \cup refused \cup revived \subseteq Jobs
  /\ lagged \in [Lists -> SUBSET Jobs]

\* A page that shows a spinner, and whose buttons are disabled, waits for an
\* answer that is still to come.  The exception is the page of resource-based
\* policies, which an error answer leaves LOADING for good.
LoadingIsReal ==
  \A r \in DOMAIN Fetches :
    status[Fetches[r].slice] = "LOADING" /\ Fetches[r].needs # "body" =>
      \E s \in Slots : request[s] # None /\ request[s].thunk = r

\* A list never goes back by the order of answers: a job that it has shown as
\* finished is not ACTIVE again, one that it has dropped does not return, however
\* late answers are (the pages fetch a list only when no answer for it is under
\* way); unless the answer itself was older than the table when it was read, or
\* the job has been stored again.
ListsNeverGoBack ==
  [][\A s \in Lists, j \in Jobs :
       Rank[list[s][j]] <= Rank[list'[s][j]] \/ j \in lagged[s] \cup revived]_vars

\* The page of a job has its details, or they are under way, or the user has been
\* told that they could not be had; unless the page took the place of the page of
\* another job, when nothing fetches them (JobPage's effect and the keyed details).
JobPageIsFilled ==
  page \in Jobs /\ details[page] = "none" =>
    page \in unfetched \/ UnderWay("fetchJobDetails", page)

\* A job whose deletion is reported has been deleted, and is gone or has been
\* stored again; or the backend has refused to delete it: deleteItem does not look
\* at the answer.  Of a deletion reported as failed, whose answer was lost, nothing
\* follows: it may have been done.
DeletedOrRefused ==
  \A j \in Jobs :
    [id |-> "uuid", of |-> j, text |-> "deleted"] \in notices =>
      job[j] = "deleted" \/ j \in refused \cup revived

\* When the last search is over and no other was under way when it began, the
\* policies shown are its results (nothing else orders the answers).
SearchShowsLatest ==
  /\ status["policyModels"] = "SUCCEEDED"
  /\ latest.alone
  /\ ~UnderWay("fetchPolicyModels", latest.search)
  => policies = latest.search
=============================================================================
