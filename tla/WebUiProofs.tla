---------------------------- MODULE WebUiProofs ----------------------------
(***************************************************************************)
(* Theorems about the web UI for any number of jobs, searches, requests    *)
(* under way and clicks, and for every set of pages a user visits.         *)
(***************************************************************************)
EXTENDS WebUi, TLAPS

(***************************************************************************)
(* The thunks and the pages.                                               *)
(***************************************************************************)
ListFetches == {r \in DOMAIN Fetches : Fetches[r].slice \in Lists}

\* Each thunk has a slice of its own.
LEMMA FetchFacts ==
  /\ \A r \in DOMAIN Fetches : Fetches[r].slice \in Slices
  /\ \A r, q \in DOMAIN Fetches : Fetches[r].slice = Fetches[q].slice => r = q
  /\ DOMAIN Fetches \cap DOMAIN Scans = {}
  /\ "deleteItem" \notin DOMAIN Fetches \cup DOMAIN Scans
  /\ "fetchJobDetails" \in DOMAIN Fetches /\ "fetchPolicyModels" \in DOMAIN Fetches
  /\ Fetches["fetchJobDetails"].slice = "jobDetails"
  /\ Fetches["fetchPolicyModels"].slice = "policyModels"
  /\ {"jobDetails", "policyModels"} \cap Lists = {}
  /\ \A r \in DOMAIN Fetches :
       r \in ListFetches \/ r \in {"fetchJobDetails", "fetchPolicyModels"}
BY DEF Fetches, Scans, Slices, Lists, ListFetches, Fetch, fetchJobs, fetchJobDetails,
   fetchDelegatedAdmins, fetchTrustedAccess, fetchPolicyModels, fetchResourceBasedPolicies

Pages == Jobs \cup DOMAIN MainContentRoutes

\* Only the pages of jobs fetch the details of a job, and they always do; the
\* policy explorer neither loads nor refreshes by itself.
LEMMA RouteFacts ==
  /\ "/jobs" \in Pages
  /\ \A p \in Pages :
       /\ Route(p).fetch \in DOMAIN Fetches
       /\ Route(p).fetch = "fetchJobDetails" <=> p \in Jobs
       /\ Route(p).load = "always" <=> p \in Jobs
       /\ Route(p).fetch = "fetchPolicyModels" => Route(p).load = "never" /\ ~Route(p).refresh
       /\ Route(p).scan = "" \/ Route(p).scan \in DOMAIN Scans
<1>1. "/jobs" \in Pages
  BY DEF Pages, MainContentRoutes
<1>2. ASSUME NEW p \in Pages, p \in Jobs
      PROVE  /\ Route(p).fetch = "fetchJobDetails" /\ Route(p).load = "always"
             /\ Route(p).scan = ""
  BY <1>2 DEF Route, JobPage, Page
<1>3. ASSUME NEW p \in Pages, p \notin Jobs
      PROVE  /\ Route(p).fetch \in DOMAIN Fetches /\ Route(p).fetch # "fetchJobDetails"
             /\ Route(p).load # "always"
             /\ Route(p).fetch = "fetchPolicyModels" => Route(p).load = "never" /\ ~Route(p).refresh
             /\ Route(p).scan = "" \/ Route(p).scan \in DOMAIN Scans
  BY <1>3 DEF Pages, Route, MainContentRoutes, Page, Fetches, Scans, LandingPage,
     JobHistoryPage, DelegatedAdminPage, TrustedAccessPage, ResourceBasedPoliciesPage,
     PolicyExplorerPage
<1> QED BY <1>1, <1>2, <1>3, FetchFacts

(***************************************************************************)
(* Requests.  A property of the requests under way is an operator of them, *)
(* as a step may unmount a page, take an answer and dispatch in one.       *)
(***************************************************************************)
RequestsOK(rs) ==
  /\ rs \in [Slots -> Requests \cup {None}]
  /\ \A s \in Slots : rs[s] # None =>
       /\ rs[s].thunk = "fetchPolicyModels" => rs[s].of \in Searches
       /\ rs[s].thunk \in {"fetchJobDetails", "deleteItem"} => rs[s].of \in Jobs
       /\ rs[s].answer.kind = "results" =>
            /\ rs[s].thunk \in ListFetches => rs[s].answer.body \in [Jobs -> JobStates]
            /\ rs[s].thunk = "fetchJobDetails" => rs[s].answer.body \in {"ACTIVE", "finished"}
            /\ rs[s].thunk \in DOMAIN Scans => rs[s].answer.body \in Jobs

\* The same requests, but for the pages that wait for them.
SameRequests(rs, qs) ==
  \A s \in Slots :
    /\ rs[s] = None <=> qs[s] = None
    /\ rs[s] # None => /\ qs[s].thunk = rs[s].thunk
                       /\ qs[s].of = rs[s].of
                       /\ qs[s].answer = rs[s].answer

\* Leaving a page keeps the requests.
LEMMA UnmountKeeps ==
  ASSUME NEW rs, RequestsOK(rs)
  PROVE  RequestsOK(Unmount(rs)) /\ SameRequests(rs, Unmount(rs))
<1>1. ASSUME NEW s \in Slots, rs[s] # None
      PROVE  /\ Unmount(rs)[s] = [rs[s] EXCEPT !.own = FALSE]
             /\ Unmount(rs)[s] \in Requests
  BY <1>1 DEF RequestsOK, Requests, Unmount
<1>2. \A s \in Slots : rs[s] = None => Unmount(rs)[s] = None
  BY DEF Unmount
<1>3. SameRequests(rs, Unmount(rs))
  BY <1>1, <1>2, WebUiAssumption DEF SameRequests, RequestsOK, Requests
<1>4. Unmount(rs) \in [Slots -> Requests \cup {None}]
  BY <1>1, <1>2 DEF Unmount
<1> QED BY <1>3, <1>4 DEF RequestsOK, SameRequests

\* A new request takes a free slot and waits for its answer.
LEMMA DispatchAdds ==
  ASSUME NEW rs, RequestsOK(rs), NEW thunk \in Thunks,
         NEW of \in Jobs \cup Searches \cup {None},
         thunk = "fetchPolicyModels" => of \in Searches,
         thunk \in {"fetchJobDetails", "deleteItem"} => of \in Jobs,
         Dispatch(rs, thunk, of)
  PROVE  /\ RequestsOK(request')
         /\ \E s \in Slots :
              /\ rs[s] = None
              /\ request'[s] # None
              /\ request'[s].thunk = thunk
              /\ request'[s].of = of
              /\ request'[s].answer = Waiting
              /\ \A q \in Slots \ {s} : request'[q] = rs[q]
         /\ status' = IF thunk \in DOMAIN Fetches
                        THEN [status EXCEPT ![Fetches[thunk].slice] = "LOADING"] ELSE status
<1>1. PICK s \in Slots :
        /\ rs[s] = None
        /\ request' = [rs EXCEPT ![s] = New(thunk, of)]
        /\ status' = IF thunk \in DOMAIN Fetches
                       THEN [status EXCEPT ![Fetches[thunk].slice] = "LOADING"] ELSE status
  BY DEF Dispatch
<1>2. New(thunk, of) \in Requests /\ New(thunk, of) # None
  <2>1. Waiting \in Answers
    BY DEF Answers
  <2>2. New(thunk, of) \in Requests
    BY <2>1 DEF New, Requests
  <2> QED BY <2>2, WebUiAssumption
<1>3. /\ New(thunk, of).thunk = thunk /\ New(thunk, of).of = of
      /\ New(thunk, of).answer = Waiting
  BY DEF New
<1>4. request' \in [Slots -> Requests \cup {None}]
  <2>1. rs \in [Slots -> Requests \cup {None}]
    BY DEF RequestsOK
  <2> QED BY <1>1, <1>2, <2>1
<1>5. request'[s] = New(thunk, of) /\ \A q \in Slots \ {s} : request'[q] = rs[q]
  BY <1>1 DEF RequestsOK
<1>6. Waiting.kind # "results"
  BY DEF Waiting
<1>7. RequestsOK(request')
  BY <1>2, <1>3, <1>4, <1>5, <1>6 DEF RequestsOK
<1> QED BY <1>1, <1>2, <1>3, <1>5, <1>7

\* An answer that has been dealt with is gone.
LEMMA DoneRemoves ==
  ASSUME RequestsOK(request), NEW s \in Slots
  PROVE  /\ RequestsOK(Done(s))
         /\ Done(s)[s] = None
         /\ \A q \in Slots \ {s} : Done(s)[q] = request[q]
BY DEF RequestsOK, Done

\* Going to a page dispatches its thunk, or nothing.
LEMMA GoToSends ==
  ASSUME NEW rs, RequestsOK(rs), NEW p \in Pages, GoTo(p, rs)
  PROVE  LET r == Route(p)
             of == IF p \in Jobs THEN p ELSE None
         IN \E kept :
              /\ RequestsOK(kept) /\ SameRequests(rs, kept)
              /\ \/ request' = kept /\ status' = status
                 \/ /\ Dispatch(kept, r.fetch, of)
                    /\ r.fetch = "fetchJobDetails" \/ status[Fetches[r.fetch].slice] = "IDLE"
                    /\ r.fetch # "fetchPolicyModels"
<1> DEFINE stays == p = page \/ {p, page} \subseteq Jobs
           loads == \/ Route(p).load = "always"
                    \/ Route(p).load = "idle" /\ status[Fetches[Route(p).fetch].slice] = "IDLE"
           of == IF p \in Jobs THEN p ELSE None
<1>1. CASE ~stays /\ loads
  <2>1. Dispatch(Unmount(rs), Route(p).fetch, of)
    BY <1>1 DEF GoTo
  <2>2. Route(p).load # "never"
    BY <1>1
  <2> QED BY <1>1, <2>1, <2>2, UnmountKeeps, RouteFacts
<1>2. CASE ~(~stays /\ loads) /\ stays
  <2>1. request' = rs /\ status' = status
    BY <1>2 DEF GoTo
  <2> QED BY <2>1 DEF SameRequests
<1>3. CASE ~(~stays /\ loads) /\ ~stays
  <2>1. request' = Unmount(rs) /\ status' = status
    BY <1>3 DEF GoTo
  <2> QED BY <2>1, UnmountKeeps
<1> QED BY <1>1, <1>2, <1>3

\* What going to a page does to the requests and to the spinners.
LEMMA GoToKeeps ==
  ASSUME NEW rs, RequestsOK(rs), NEW p \in Pages, GoTo(p, rs)
  PROVE  /\ RequestsOK(request')
         /\ page' = p
         /\ status \in [Slices -> {"IDLE", "LOADING", "SUCCEEDED", "FAILED"}]
              => status' \in [Slices -> {"IDLE", "LOADING", "SUCCEEDED", "FAILED"}]
         /\ unfetched \subseteq Jobs => unfetched' \subseteq Jobs
<1> DEFINE of == IF p \in Jobs THEN p ELSE None
<1>1. PICK kept :
        /\ RequestsOK(kept)
        /\ \/ request' = kept /\ status' = status
           \/ Dispatch(kept, Route(p).fetch, of) /\ Route(p).fetch # "fetchPolicyModels"
  BY GoToSends
<1>2. /\ Route(p).fetch \in DOMAIN Fetches
      /\ Route(p).fetch = "fetchJobDetails" <=> p \in Jobs
      /\ Route(p).fetch # "deleteItem"
  BY RouteFacts, FetchFacts
<1>3. Route(p).fetch \in Thunks /\ of \in Jobs \cup Searches \cup {None}
  BY <1>2 DEF Thunks
<1>4. CASE Dispatch(kept, Route(p).fetch, of) /\ Route(p).fetch # "fetchPolicyModels"
  <2>1. /\ RequestsOK(request')
        /\ status' = [status EXCEPT ![Fetches[Route(p).fetch].slice] = "LOADING"]
    BY <1>1, <1>2, <1>3, <1>4, DispatchAdds
  <2> QED BY <1>4, <2>1 DEF GoTo
<1>5. CASE request' = kept /\ status' = status
  BY <1>1, <1>5 DEF GoTo
<1> QED BY <1>1, <1>4, <1>5

(***************************************************************************)
(* Types.                                                                  *)
(***************************************************************************)
UiTypes ==
  /\ TypeOK
  /\ menu \in Menus
  /\ RequestsOK(request)

\* A user visits pages.
LEMMA PagesOfMenus ==
  ASSUME menu \in Menus
  PROVE  menu \subseteq Pages
BY WebUiAssumption DEF Pages

LEMMA UiTypesInit == Init => UiTypes
<1> SUFFICES ASSUME Init PROVE UiTypes
  OBVIOUS
<1>1. request \in [Slots -> Requests \cup {None}] /\ \A s \in Slots : request[s] = None
  BY DEF Init
<1>2. RequestsOK(request)
  BY <1>1 DEF RequestsOK
<1>3. Nothing \in [Jobs -> JobStates]
  BY DEF Nothing, JobStates
<1> QED BY <1>2, <1>3 DEF Init, UiTypes, TypeOK, JobStates

\* Clicks send well-formed requests and touch nothing else.
LEMMA ClickTypes ==
  ASSUME UiTypes, NEW thunk \in Thunks, NEW of \in Jobs \cup Searches \cup {None},
         thunk = "fetchPolicyModels" => of \in Searches,
         thunk \in {"fetchJobDetails", "deleteItem"} => of \in Jobs,
         Dispatch(request, thunk, of),
         UNCHANGED <<job, menu, page, list, details, policies, notices, unfetched, refused,
                     revived, lagged>>
  PROVE  UiTypes'
<1>1. /\ RequestsOK(request')
      /\ status' = IF thunk \in DOMAIN Fetches
                     THEN [status EXCEPT ![Fetches[thunk].slice] = "LOADING"] ELSE status
  BY DispatchAdds DEF UiTypes
<1>2. status' \in [Slices -> {"IDLE", "LOADING", "SUCCEEDED", "FAILED"}]
  BY <1>1 DEF UiTypes, TypeOK
<1> QED BY <1>1, <1>2 DEF UiTypes, TypeOK

\* The backend answers with what it holds.
LEMMA AnswerTypes ==
  ASSUME UiTypes, NEW s \in Slots, NEW kind \in {"results", "error"}, NEW body,
         body \in [Jobs -> JobStates] \cup JobStates \cup BOOLEAN \cup Jobs \cup {None},
         kind = "results" =>
            /\ request[s].thunk \in ListFetches => body \in [Jobs -> JobStates]
            /\ request[s].thunk = "fetchJobDetails" => body \in {"ACTIVE", "finished"}
            /\ request[s].thunk \in DOMAIN Scans => body \in Jobs,
         Ready(s), Answer(s, kind, body)
  PROVE  /\ RequestsOK(request')
         /\ request'[s] # None
         /\ request'[s].thunk = request[s].thunk
         /\ request'[s].of = request[s].of
         /\ request'[s].answer = [kind |-> kind, body |-> body]
         /\ \A q \in Slots \ {s} : request'[q] = request[q]
<1> DEFINE a == [kind |-> kind, body |-> body]
<1>1. a \in Answers
  BY DEF Answers
<1>2. request \in [Slots -> Requests \cup {None}] /\ request[s] \in Requests
  BY DEF UiTypes, RequestsOK, Ready
<1>3. request' = [request EXCEPT ![s].answer = a]
  BY DEF Answer
<1>4. request'[s] = [request[s] EXCEPT !.answer = a]
  BY <1>2, <1>3
<1>5. /\ request'[s] \in Requests
      /\ request'[s].thunk = request[s].thunk
      /\ request'[s].of = request[s].of
      /\ request'[s].answer = a
  BY <1>1, <1>2, <1>4 DEF Requests
<1>6. request'[s] # None
  BY <1>5, WebUiAssumption
<1>7. \A q \in Slots \ {s} : request'[q] = request[q]
  BY <1>2, <1>3
<1>8. request' \in [Slots -> Requests \cup {None}]
  BY <1>2, <1>3, <1>5
<1>9. a.kind = kind /\ a.body = body
  OBVIOUS
<1>10. RequestsOK(request')
  <2>1. \A q \in Slots : request[q] # None =>
       /\ request[q].thunk = "fetchPolicyModels" => request[q].of \in Searches
       /\ request[q].thunk \in {"fetchJobDetails", "deleteItem"} => request[q].of \in Jobs
    BY DEF UiTypes, RequestsOK
  <2>2. request[s] # None
    BY DEF Ready
  <2> HIDE DEF a
  <2>3. ASSUME NEW q \in Slots, q # s, request'[q] # None
        PROVE  /\ request'[q].thunk = "fetchPolicyModels" => request'[q].of \in Searches
               /\ request'[q].thunk \in {"fetchJobDetails", "deleteItem"} => request'[q].of \in Jobs
               /\ request'[q].answer.kind = "results" =>
                    /\ request'[q].thunk \in ListFetches => request'[q].answer.body \in [Jobs -> JobStates]
                    /\ request'[q].thunk = "fetchJobDetails" => request'[q].answer.body \in {"ACTIVE", "finished"}
                    /\ request'[q].thunk \in DOMAIN Scans => request'[q].answer.body \in Jobs
    BY <1>7, <2>3 DEF UiTypes, RequestsOK
  <2> QED BY <1>5, <1>8, <1>9, <2>1, <2>2, <2>3 DEF RequestsOK
<1> QED BY <1>5, <1>6, <1>7, <1>10

\* A read that may lag.
Shows(view) == view \in [Jobs -> JobStates] /\ \A j \in Jobs : view[j] \in Earlier(j)

\* What the backend may answer, and what is true of it then.
LEMMA BackendAnswers ==
  ASSUME UiTypes, NEW s \in Slots,
         Refuses(s) \/ Reads(s) \/ Deletes(s) \/ \E j \in Jobs : ScansNow(s, j)
  PROVE  /\ request[s] # None
         /\ RequestsOK(request')
         /\ request'[s] # None
         /\ request'[s].thunk = request[s].thunk
         /\ request'[s].of = request[s].of
         /\ \A q \in Slots \ {s} : request'[q] = request[q]
         /\ request[s].thunk \in ListFetches /\ request'[s].answer.kind = "results" =>
              /\ job' = job
              /\ Shows(request'[s].answer.body)
              /\ lagged' = [lagged EXCEPT ![Fetches[request[s].thunk].slice] =
                              {j \in Jobs : request'[s].answer.body[j] # job[j]}]
         /\ request[s].thunk \in ListFetches \/ lagged' = lagged
         /\ request[s].thunk = "deleteItem" =>
              job'[request[s].of] = "deleted" \/ request[s].of \in refused'
         /\ UNCHANGED <<menu, page, status, list, details, policies, notices, latest, unfetched,
                        revived>>
<1>0. request[s] # None
  BY DEF Refuses, Reads, Deletes, ScansNow, Ready
<1>1. CASE Refuses(s)
  <2>1. Ready(s) /\ Answer(s, "error", None)
    BY <1>1 DEF Refuses
  <2>2. /\ RequestsOK(request')
        /\ request'[s] # None
        /\ request'[s].thunk = request[s].thunk
        /\ request'[s].of = request[s].of
        /\ request'[s].answer = [kind |-> "error", body |-> None]
        /\ \A q \in Slots \ {s} : request'[q] = request[q]
    BY <2>1, AnswerTypes
  <2>3. request[s].thunk = "deleteItem" => request[s].of \in refused'
    BY <1>1 DEF Refuses
  <2>4. request'[s].answer.kind = "error"
    BY <2>2
  <2>5. UNCHANGED <<menu, page, status, list, details, policies, notices, latest, unfetched,
                   revived>>
    BY <2>1 DEF Answer
  <2>6. lagged' = lagged
    BY <1>1 DEF Refuses
  <2> QED BY <1>0, <2>2, <2>3, <2>4, <2>5, <2>6
<1>2. CASE Reads(s)
  <2> DEFINE r == request[s]
             Late(body) == {j \in Jobs : body[j] # job[j]}
  <2>1. PICK body : /\ Answer(s, "results", body)
                    /\ body \in [Jobs -> JobStates] \cup JobStates \cup BOOLEAN
                    /\ r.thunk \in ListFetches =>
                         /\ Shows(body)
                         /\ lagged' = [lagged EXCEPT ![Fetches[r.thunk].slice] = Late(body)]
                    /\ r.thunk \in ListFetches \/ lagged' = lagged
                    /\ r.thunk = "fetchJobDetails" => body \in {"ACTIVE", "finished"}
                    /\ r.thunk \notin DOMAIN Scans
                    /\ r.thunk # "deleteItem"
    <3>1. CASE /\ r.thunk \in DOMAIN Fetches
               /\ Fetches[r.thunk].slice \in Lists
               /\ \E view \in [Jobs -> JobStates] :
                    /\ \A j \in Jobs : view[j] \in Earlier(j)
                    /\ Answer(s, "results", view)
                    /\ lagged' = [lagged EXCEPT ![Fetches[r.thunk].slice] = Late(view)]
      <4>1. PICK view \in [Jobs -> JobStates] :
              /\ \A j \in Jobs : view[j] \in Earlier(j)
              /\ Answer(s, "results", view)
              /\ lagged' = [lagged EXCEPT ![Fetches[r.thunk].slice] = Late(view)]
        BY <3>1
      <4>2. r.thunk \in ListFetches /\ r.thunk # "fetchJobDetails" /\ r.thunk \notin DOMAIN Scans
            /\ r.thunk # "deleteItem"
        BY <3>1, FetchFacts DEF ListFetches
      <4> HIDE DEF Late
      <4> QED BY <4>1, <4>2 DEF Shows
    <3>2. CASE /\ r.thunk = "fetchJobDetails"
               /\ \E st \in Earlier(r.of) \cap {"ACTIVE", "finished"} : Answer(s, "results", st)
               /\ lagged' = lagged
      <4>1. r.thunk \notin ListFetches /\ r.thunk \notin DOMAIN Scans /\ r.thunk # "deleteItem"
        BY <3>2, FetchFacts DEF ListFetches
      <4> HIDE DEF Late
      <4> QED BY <3>2, <4>1 DEF JobStates
    <3>3. CASE /\ r.thunk = "fetchPolicyModels"
               /\ \E many \in BOOLEAN : Answer(s, "results", many)
               /\ lagged' = lagged
      <4>1. r.thunk \notin ListFetches /\ r.thunk \notin DOMAIN Scans /\ r.thunk # "deleteItem"
            /\ r.thunk # "fetchJobDetails"
        BY <3>3, FetchFacts DEF ListFetches
      <4> HIDE DEF Late
      <4> QED BY <3>3, <4>1
    <3> QED BY <1>2, <3>1, <3>2, <3>3 DEF Reads
  <2>2. r.thunk \in ListFetches => body \in [Jobs -> JobStates]
    BY <2>1 DEF Shows
  <2> HIDE DEF Late
  <2>3. /\ RequestsOK(request')
        /\ request'[s] # None
        /\ request'[s].thunk = request[s].thunk
        /\ request'[s].of = request[s].of
        /\ request'[s].answer = [kind |-> "results", body |-> body]
        /\ \A q \in Slots \ {s} : request'[q] = request[q]
    BY <1>2, <2>1, <2>2, AnswerTypes DEF Reads
  <2>4. request'[s].answer.body = body
    BY <2>3
  <2>5. UNCHANGED <<menu, page, status, list, details, policies, notices, latest, unfetched,
                   revived>>
    BY <2>1 DEF Answer
  <2>6. job' = job
    BY <1>2 DEF Reads
  <2> QED BY <1>0, <2>1, <2>3, <2>4, <2>5, <2>6 DEF Late
<1>3. CASE Deletes(s)
  <2>1. PICK kind \in {"results", "error"} :
          Ready(s) /\ Answer(s, kind, None) /\ request[s].thunk = "deleteItem"
    BY <1>3 DEF Deletes
  <2>2. "deleteItem" \notin ListFetches
    BY FetchFacts DEF ListFetches
  <2>3. /\ RequestsOK(request')
        /\ request'[s] # None
        /\ request'[s].thunk = request[s].thunk
        /\ request'[s].of = request[s].of
        /\ \A q \in Slots \ {s} : request'[q] = request[q]
    <3>1. request[s].thunk \notin DOMAIN Scans /\ request[s].thunk # "fetchJobDetails"
      BY <2>1, FetchFacts
    <3>2. None \in [Jobs -> JobStates] \cup JobStates \cup BOOLEAN \cup Jobs \cup {None}
      OBVIOUS
    <3>3. CASE Answer(s, "results", None)
      BY <2>1, <2>2, <3>1, <3>2, <3>3, AnswerTypes
    <3>4. CASE Answer(s, "error", None)
      BY <2>1, <2>2, <3>1, <3>2, <3>4, AnswerTypes
    <3> QED BY <2>1, <3>3, <3>4
  <2>4. job'[request[s].of] = "deleted" /\ lagged' = lagged
    <3>1. request[s].of \in Jobs
      BY <1>0, <2>1 DEF UiTypes, RequestsOK
    <3> QED BY <1>3, <3>1 DEF Deletes, UiTypes, TypeOK
  <2> QED BY <1>0, <2>1, <2>2, <2>3, <2>4 DEF Answer
<1>4. ASSUME NEW j \in Jobs, ScansNow(s, j), NEW kind \in {"results", "error"},
             NEW body \in Jobs \cup {None}, kind = "results" => body \in Jobs,
             Answer(s, kind, body)
      PROVE  /\ RequestsOK(request')
             /\ request'[s] # None
             /\ request'[s].thunk = request[s].thunk
             /\ request'[s].of = request[s].of
             /\ \A q \in Slots \ {s} : request'[q] = request[q]
             /\ request[s].thunk \notin ListFetches /\ request[s].thunk # "deleteItem"
             /\ lagged' = lagged
             /\ UNCHANGED <<menu, page, status, list, details, policies, notices, latest, unfetched,
                   revived>>
  <2>1. Ready(s) /\ request[s].thunk \in DOMAIN Scans
    BY <1>4 DEF ScansNow
  <2>2. /\ request[s].thunk \notin ListFetches /\ request[s].thunk # "deleteItem"
        /\ request[s].thunk # "fetchJobDetails"
    BY <2>1, FetchFacts DEF ListFetches
  <2>3. lagged' = lagged
    BY <1>4 DEF ScansNow
  <2> QED BY <1>4, <2>1, <2>2, <2>3, AnswerTypes DEF Answer
<1>5. ASSUME NEW j \in Jobs, ScansNow(s, j)
      PROVE  Answer(s, "results", j) \/ Answer(s, "error", None)
  BY <1>5 DEF ScansNow
<1> QED BY <1>0, <1>1, <1>2, <1>3, <1>4, <1>5

\* A notification never gets an id that another one has.
LEMMA NoticesTypes ==
  ASSUME TypeOK, NEW id, NEW text, NEW of,
         addNotification(id, text) \/ addNewNotification(of, text) \/ notices' \subseteq notices
  PROVE  \A m, n \in notices' : m.id = n.id => m = n \/ m.id = "uuid"
<1>1. CASE addNotification(id, text)
  BY <1>1 DEF TypeOK, addNotification
<1>2. CASE addNewNotification(of, text)
  BY <1>2 DEF TypeOK, addNewNotification
<1>3. CASE notices' \subseteq notices
  BY <1>3 DEF TypeOK
<1> QED BY <1>1, <1>2, <1>3

\* An answer reaches the slice of its thunk.
LEMMA FetchTypes ==
  ASSUME UiTypes, NEW s \in Slots, NEW kind, FetchArrives(s, kind)
  PROVE  UiTypes'
<1> DEFINE r == request[s]
           t == Fetches[r.thunk]
<1>1. /\ r # None /\ r.thunk \in DOMAIN Fetches /\ request' = Done(s)
      /\ kind = "results" => r.answer.kind = "results"
      /\ UNCHANGED <<job, menu, page, refused, revived>>
      /\ lagged' = IF t.slice \in Lists THEN [lagged EXCEPT ![t.slice] = {}] ELSE lagged
  BY DEF FetchArrives, Arrives
<1>2. RequestsOK(request')
  BY <1>1, DoneRemoves DEF UiTypes
<1>3. /\ t.slice \in Lists => r.thunk \in ListFetches
      /\ t.slice = "jobDetails" => r.thunk = "fetchJobDetails"
      /\ t.slice = "policyModels" => r.thunk = "fetchPolicyModels"
  BY <1>1, FetchFacts DEF ListFetches
<1>4. /\ r.thunk = "fetchPolicyModels" => r.of \in Searches
      /\ r.thunk = "fetchJobDetails" => r.of \in Jobs
      /\ kind = "results" =>
           /\ t.slice \in Lists => r.answer.body \in [Jobs -> JobStates]
           /\ t.slice = "jobDetails" => r.answer.body \in {"ACTIVE", "finished"}
  BY <1>1, <1>3 DEF UiTypes, RequestsOK
<1>5. CASE kind = "lost" \/ (kind = "error" /\ t.needs # "body")
  <2>1. /\ Rejected(t)
        /\ unfetched' = IF r.thunk = "fetchJobDetails" THEN unfetched \cup {r.of} ELSE unfetched
        /\ UNCHANGED <<list, details, policies>>
    BY <1>5 DEF FetchArrives
  <2>2. \A m, n \in notices' : m.id = n.id => m = n \/ m.id = "uuid"
    BY <2>1, NoticesTypes DEF Rejected, UiTypes
  <2>3. status' \in [Slices -> {"IDLE", "LOADING", "SUCCEEDED", "FAILED"}]
    BY <2>1 DEF Rejected, UiTypes, TypeOK
  <2> QED BY <1>1, <1>2, <1>4, <2>1, <2>2, <2>3 DEF UiTypes, TypeOK
<1>6. CASE kind = "error" /\ t.needs = "body"
  <2>1. UNCHANGED <<status, notices, list, details, policies, unfetched>>
    BY <1>6 DEF FetchArrives
  <2> QED BY <1>1, <1>2, <2>1 DEF UiTypes, TypeOK
<1>7. CASE kind = "results"
  <2>1. /\ status' = [status EXCEPT ![t.slice] = "SUCCEEDED"]
        /\ list' = IF t.slice \in Lists THEN [list EXCEPT ![t.slice] = r.answer.body] ELSE list
        /\ details' = IF t.slice = "jobDetails"
                        THEN [details EXCEPT ![r.of] = r.answer.body] ELSE details
        /\ policies' = IF t.slice = "policyModels" THEN r.of ELSE policies
        /\ addNotification(t.notice, "info") \/ notices' = notices
        /\ unfetched' = unfetched
    BY <1>7 DEF FetchArrives
  <2>2. \A m, n \in notices' : m.id = n.id => m = n \/ m.id = "uuid"
    BY <2>1, NoticesTypes DEF UiTypes
  <2>3. status' \in [Slices -> {"IDLE", "LOADING", "SUCCEEDED", "FAILED"}]
    BY <2>1 DEF UiTypes, TypeOK
  <2>4. list' \in [Lists -> [Jobs -> JobStates]]
    BY <1>4, <1>7, <2>1 DEF UiTypes, TypeOK
  <2>5. details' \in [Jobs -> JobStates]
    BY <1>4, <1>7, <2>1 DEF UiTypes, TypeOK, JobStates
  <2>6. policies' \in Searches \cup {None}
    BY <1>3, <1>4, <2>1 DEF UiTypes, TypeOK
  <2> QED BY <1>1, <1>2, <2>1, <2>2, <2>3, <2>4, <2>5, <2>6 DEF UiTypes, TypeOK
<1>8. kind \in {"lost", "error", "results"}
  BY DEF FetchArrives
<1> QED BY <1>5, <1>6, <1>7, <1>8

\* The answer to a scan or a deletion may lead to another page.
LEMMA ArrivalGoesTo ==
  ASSUME UiTypes, NEW s \in Slots, NEW kind, ScanArrives(s, kind) \/ DeleteArrives(s, kind)
  PROVE  \/ request' = Done(s) /\ UNCHANGED <<page, status, unfetched>>
         \/ \E p \in Jobs \cup {"/jobs"} : GoTo(p, Done(s))
<1>1. CASE ScanArrives(s, kind)
  <2>1. kind = "results" => request[s].answer.body \in Jobs
    BY <1>1 DEF ScanArrives, Arrives, UiTypes, RequestsOK
  <2> QED BY <1>1, <2>1 DEF ScanArrives
<1>2. CASE DeleteArrives(s, kind)
  BY <1>2 DEF DeleteArrives
<1> QED BY <1>1, <1>2

\* Nor do the other answers break anything.
LEMMA ArrivalTypes ==
  ASSUME UiTypes, NEW s \in Slots, NEW kind, ScanArrives(s, kind) \/ DeleteArrives(s, kind)
  PROVE  UiTypes'
<1> DEFINE r == request[s]
<1>1. /\ r # None
      /\ kind = "results" => r.answer.kind = "results"
      /\ UNCHANGED <<job, menu, list, details, policies, refused, revived, lagged>>
  BY DEF ScanArrives, DeleteArrives, Arrives
<1>2. RequestsOK(Done(s))
  BY DoneRemoves DEF UiTypes
<1>3. \A m, n \in notices' : m.id = n.id => m = n \/ m.id = "uuid"
  BY NoticesTypes DEF ScanArrives, DeleteArrives, UiTypes
<1>4. \/ request' = Done(s) /\ UNCHANGED <<page, status, unfetched>>
      \/ \E p \in Jobs \cup {"/jobs"} : GoTo(p, Done(s))
  BY ArrivalGoesTo
<1>5. CASE request' = Done(s) /\ UNCHANGED <<page, status, unfetched>>
  BY <1>1, <1>2, <1>3, <1>5 DEF UiTypes, TypeOK
<1>6. ASSUME NEW p \in Jobs \cup {"/jobs"}, GoTo(p, Done(s)) PROVE UiTypes'
  <2>1. p \in Pages
    BY RouteFacts DEF Pages
  <2>2. /\ RequestsOK(request') /\ page' = p /\ unfetched' \subseteq Jobs
        /\ status' \in [Slices -> {"IDLE", "LOADING", "SUCCEEDED", "FAILED"}]
    BY <1>2, <1>6, <2>1, GoToKeeps DEF UiTypes, TypeOK
  <2> QED BY <1>1, <1>3, <2>2 DEF UiTypes, TypeOK
<1> QED BY <1>4, <1>5, <1>6

\* Every step keeps the types.
LEMMA UiTypesStep == UiTypes /\ [Next]_vars => UiTypes'
<1> SUFFICES ASSUME UiTypes, [Next]_vars PROVE UiTypes'
  OBVIOUS
<1>1. ASSUME NEW p \in menu \cup Jobs, Navigate(p) PROVE UiTypes'
  <2>1. p \in Pages /\ GoTo(p, request)
    BY <1>1, PagesOfMenus DEF UiTypes, Navigate, Pages
  <2>2. /\ RequestsOK(request') /\ page' = p /\ unfetched' \subseteq Jobs
        /\ status' \in [Slices -> {"IDLE", "LOADING", "SUCCEEDED", "FAILED"}]
    BY <2>1, GoToKeeps DEF UiTypes, TypeOK
  <2> QED BY <1>1, <2>2 DEF Navigate, UiTypes, TypeOK
<1>2. CASE Refresh
  <2>1. page \in Pages
    BY <1>2, PagesOfMenus, RouteFacts DEF Refresh, UiTypes, TypeOK, Pages
  <2>2. /\ Route(page).fetch \in Thunks /\ Route(page).fetch # "fetchPolicyModels"
        /\ Route(page).fetch # "deleteItem"
        /\ Route(page).fetch = "fetchJobDetails" => page \in Jobs
    BY <1>2, <2>1, RouteFacts, FetchFacts DEF Refresh, Thunks
  <2> QED BY <1>2, <2>2, ClickTypes DEF Refresh
<1>3. CASE startScan
  <2>1. page \in Pages
    BY <1>3, PagesOfMenus, RouteFacts DEF startScan, UiTypes, TypeOK, Pages
  <2>2. Route(page).scan \in DOMAIN Scans
    BY <1>3, <2>1, RouteFacts DEF startScan
  <2>3. /\ Route(page).scan \in Thunks
        /\ Route(page).scan \notin {"fetchPolicyModels", "fetchJobDetails", "deleteItem"}
    BY <2>2, FetchFacts DEF Thunks
  <2> QED BY <1>3, <2>3, ClickTypes DEF startScan
<1>4. ASSUME NEW q \in Searches, startSearch(q) PROVE UiTypes'
  BY <1>4, FetchFacts, ClickTypes DEF startSearch, Thunks
<1>5. CASE deleteJob
  BY <1>5, FetchFacts, ClickTypes DEF deleteJob, Thunks
<1>6. ASSUME NEW n \in notices, onDismiss(n) PROVE UiTypes'
  <2>1. notices' \subseteq notices
    BY <1>6 DEF onDismiss
  <2>2. \A m, k \in notices' : m.id = k.id => m = k \/ m.id = "uuid"
    BY <2>1, NoticesTypes DEF UiTypes
  <2> QED BY <1>6, <2>2 DEF onDismiss, UiTypes, TypeOK
<1>7. ASSUME NEW s \in Slots,
             Refuses(s) \/ Reads(s) \/ Deletes(s) \/ \E j \in Jobs : ScansNow(s, j)
      PROVE  UiTypes'
  <2>1. /\ request[s] # None /\ RequestsOK(request')
        /\ UNCHANGED <<menu, page, status, list, details, policies, notices, latest, unfetched,
                   revived>>
    BY <1>7, BackendAnswers
  <2>2. refused' \subseteq Jobs /\ revived' = revived
    <3>1. request[s].thunk = "deleteItem" => request[s].of \in Jobs
      BY <2>1 DEF UiTypes, RequestsOK
    <3> QED BY <1>7, <3>1, BackendAnswers DEF Refuses, Reads, Deletes, ScansNow, UiTypes, TypeOK
  <2>3. job' \in [Jobs -> JobStates]
    BY <1>7 DEF Refuses, Reads, Deletes, ScansNow, UiTypes, TypeOK, JobStates
  <2>4. lagged' \in [Lists -> SUBSET Jobs]
    BY <1>7 DEF Refuses, Reads, Deletes, ScansNow, UiTypes, TypeOK
  <2> QED BY <2>1, <2>2, <2>3, <2>4 DEF UiTypes, TypeOK
<1>8. ASSUME NEW j \in Jobs, Elsewhere(j) \/ Expires(j) \/ StoredAgain(j) PROVE UiTypes'
  <2>1. job' \in [Jobs -> JobStates] /\ revived' \subseteq Jobs
    BY <1>8 DEF Elsewhere, Expires, StoredAgain, Becomes, UiTypes, TypeOK, JobStates
  <2>2. UNCHANGED <<menu, page, status, list, details, policies, notices, request, latest,
                   unfetched, refused, lagged, clicks>>
    BY <1>8 DEF Elsewhere, Expires, StoredAgain, Becomes
  <2> QED BY <2>1, <2>2 DEF UiTypes, TypeOK
<1>9. ASSUME NEW s \in Slots, NEW kind,
             FetchArrives(s, kind) \/ ScanArrives(s, kind) \/ DeleteArrives(s, kind)
      PROVE  UiTypes'
  BY <1>9, FetchTypes, ArrivalTypes
<1>10. CASE UNCHANGED vars
  BY <1>10 DEF vars, UiTypes, TypeOK
<1> QED
  BY <1>1, <1>2, <1>3, <1>4, <1>5, <1>6, <1>7, <1>8, <1>9, <1>10 DEF Next

LEMMA UiTypesInvariant == Spec => []UiTypes
BY UiTypesInit, UiTypesStep, PTL DEF Spec

\* The store, the pages and the notifications keep their types, and no two
\* notifications of a thunk are ever shown (addNotification looks for its id).
THEOREM UiTypeCorrect == Spec => []TypeOK
<1>1. UiTypes => TypeOK
  BY DEF UiTypes
<1> QED BY UiTypesInvariant, <1>1, PTL

(***************************************************************************)
(* What a step does to the request in each slot.                           *)
(***************************************************************************)
Stays(r, q) == q # None /\ q.thunk = r.thunk /\ q.of = r.of /\ q.answer = r.answer

\* Going to a page keeps the requests, and may add one that waits.
LEMMA GoToSlots ==
  ASSUME NEW rs, RequestsOK(rs), NEW p \in Pages, GoTo(p, rs), NEW s \in Slots
  PROVE  /\ rs[s] # None => Stays(rs[s], request'[s])
         /\ rs[s] = None /\ request'[s] # None =>
              request'[s].answer = Waiting /\ request'[s].thunk # "fetchPolicyModels"
<1> DEFINE of == IF p \in Jobs THEN p ELSE None
<1>1. PICK kept :
        /\ RequestsOK(kept) /\ SameRequests(rs, kept)
        /\ \/ request' = kept
           \/ Dispatch(kept, Route(p).fetch, of) /\ Route(p).fetch # "fetchPolicyModels"
  BY GoToSends
<1>2. /\ Route(p).fetch \in Thunks /\ of \in Jobs \cup Searches \cup {None}
      /\ Route(p).fetch \in {"fetchJobDetails", "deleteItem"} => of \in Jobs
  BY RouteFacts, FetchFacts DEF Thunks
<1>3. CASE request' = kept
  BY <1>1, <1>3 DEF SameRequests, Stays
<1>4. CASE Dispatch(kept, Route(p).fetch, of) /\ Route(p).fetch # "fetchPolicyModels"
  <2> HIDE DEF of
  <2>1. PICK n \in Slots :
          /\ kept[n] = None
          /\ request'[n].answer = Waiting /\ request'[n].thunk = Route(p).fetch
          /\ \A q \in Slots \ {n} : request'[q] = kept[q]
    BY <1>1, <1>2, <1>4, DispatchAdds
  <2> QED BY <1>1, <1>4, <2>1 DEF SameRequests, Stays
<1> QED BY <1>1, <1>3, <1>4

Arrival(s) ==
  \E kind : FetchArrives(s, kind) \/ ScanArrives(s, kind) \/ DeleteArrives(s, kind)

Answered(s) ==
  Refuses(s) \/ Reads(s) \/ Deletes(s) \/ \E j \in Jobs : ScansNow(s, j)

\* A request stays until its answer arrives; a new one waits; only the
\* backend answers, and only a search searches.
SlotStep(s) ==
  /\ request[s] # None =>
       \/ Stays(request[s], request'[s])
       \/ Answered(s)
       \/ /\ Arrival(s)
          /\ request'[s] # None =>
               request'[s].answer = Waiting /\ request'[s].thunk # "fetchPolicyModels"
  /\ request[s] = None /\ request'[s] # None =>
       /\ request'[s].answer = Waiting
       /\ request'[s].thunk = "fetchPolicyModels" => startSearch(request'[s].of)

LEMMA SlotSteps ==
  ASSUME UiTypes, [Next]_vars, NEW s \in Slots
  PROVE  SlotStep(s)
<1>1. ASSUME NEW p \in menu \cup Jobs, Navigate(p) PROVE SlotStep(s)
  <2>1. p \in Pages /\ GoTo(p, request)
    BY <1>1, PagesOfMenus DEF UiTypes, Navigate, Pages
  <2> QED BY <2>1, GoToSlots DEF UiTypes, SlotStep
<1>2. ASSUME NEW thunk \in Thunks, NEW of \in Jobs \cup Searches \cup {None},
             thunk = "fetchPolicyModels" => of \in Searches /\ startSearch(of),
             thunk \in {"fetchJobDetails", "deleteItem"} => of \in Jobs,
             Dispatch(request, thunk, of)
      PROVE  SlotStep(s)
  <2>1. PICK n \in Slots :
          /\ request[n] = None
          /\ request'[n].answer = Waiting /\ request'[n].thunk = thunk /\ request'[n].of = of
          /\ \A q \in Slots \ {n} : request'[q] = request[q]
    BY <1>2, DispatchAdds DEF UiTypes
  <2> QED BY <1>2, <2>1 DEF SlotStep, Stays
<1>3. CASE Refresh
  <2>1. page \in Pages
    BY <1>3, PagesOfMenus, RouteFacts DEF Refresh, UiTypes, TypeOK, Pages
  <2>2. /\ Route(page).fetch \in Thunks /\ Route(page).fetch # "fetchPolicyModels"
        /\ Route(page).fetch # "deleteItem"
        /\ Route(page).fetch = "fetchJobDetails" => page \in Jobs
    BY <1>3, <2>1, RouteFacts, FetchFacts DEF Refresh, Thunks
  <2> QED BY <1>2, <1>3, <2>2 DEF Refresh
<1>4. CASE startScan
  <2>1. page \in Pages
    BY <1>4, PagesOfMenus, RouteFacts DEF startScan, UiTypes, TypeOK, Pages
  <2>2. Route(page).scan \in DOMAIN Scans
    BY <1>4, <2>1, RouteFacts DEF startScan
  <2>3. /\ Route(page).scan \in Thunks
        /\ Route(page).scan \notin {"fetchPolicyModels", "fetchJobDetails", "deleteItem"}
    BY <2>2, FetchFacts DEF Thunks
  <2> QED BY <1>2, <1>4, <2>3 DEF startScan
<1>5. ASSUME NEW q \in Searches, startSearch(q) PROVE SlotStep(s)
  <2>1. "fetchPolicyModels" \in Thunks /\ Dispatch(request, "fetchPolicyModels", q)
    BY <1>5, FetchFacts DEF startSearch, Thunks
  <2> QED BY <1>2, <1>5, <2>1
<1>6. CASE deleteJob
  <2>1. "deleteItem" \in Thunks /\ Dispatch(request, "deleteItem", page) /\ page \in Jobs
    BY <1>6 DEF deleteJob, Thunks
  <2> QED BY <1>2, <2>1
<1>7. ASSUME NEW n \in Slots, Answered(n) PROVE SlotStep(s)
  <2>1. request[n] # None /\ \A q \in Slots \ {n} : request'[q] = request[q]
    BY <1>7, BackendAnswers DEF Answered
  <2> QED BY <1>7, <2>1 DEF SlotStep, Stays
<1>8. ASSUME NEW n \in Slots, NEW kind, FetchArrives(n, kind) PROVE SlotStep(s)
  <2>1. request[n] # None /\ request' = Done(n)
    BY <1>8 DEF FetchArrives, Arrives
  <2>2. request'[n] = None /\ \A q \in Slots \ {n} : request'[q] = request[q]
    BY <2>1, DoneRemoves DEF UiTypes
  <2> QED BY <1>8, <2>1, <2>2 DEF SlotStep, Stays, Arrival
<1>9. ASSUME NEW n \in Slots, NEW kind, ScanArrives(n, kind) \/ DeleteArrives(n, kind)
      PROVE  SlotStep(s)
  <2>1. request[n] # None
    BY <1>9 DEF ScanArrives, DeleteArrives, Arrives
  <2>2. /\ RequestsOK(Done(n))
        /\ Done(n)[n] = None /\ \A q \in Slots \ {n} : Done(n)[q] = request[q]
    BY DoneRemoves DEF UiTypes
  <2>3. \/ request' = Done(n)
        \/ \E p \in Pages : GoTo(p, Done(n))
    BY <1>9, ArrivalGoesTo, RouteFacts DEF Pages
  <2>4. CASE request' = Done(n)
    BY <1>9, <2>1, <2>2, <2>4 DEF SlotStep, Stays, Arrival
  <2>5. ASSUME NEW p \in Pages, GoTo(p, Done(n)) PROVE SlotStep(s)
    <3>1. /\ Done(n)[s] # None => Stays(Done(n)[s], request'[s])
          /\ Done(n)[s] = None /\ request'[s] # None =>
               request'[s].answer = Waiting /\ request'[s].thunk # "fetchPolicyModels"
      BY <2>2, <2>5, GoToSlots
    <3>2. Arrival(n)
      BY <1>9 DEF Arrival
    <3> QED BY <2>1, <2>2, <3>1, <3>2 DEF SlotStep
  <2> QED BY <2>3, <2>4, <2>5
<1>10. CASE request' = request
  BY <1>10 DEF SlotStep, Stays
<1> QED
  BY <1>1, <1>3, <1>4, <1>5, <1>6, <1>7, <1>8, <1>9, <1>10
  DEF Next, vars, onDismiss, Elsewhere, Expires, StoredAgain, Becomes, Answered

(***************************************************************************)
(* Spinners and requests.                                                  *)
(***************************************************************************)
SpinnersWait(rs, st) ==
  \A r \in DOMAIN Fetches :
    st[Fetches[r].slice] = "LOADING" /\ Fetches[r].needs # "body" =>
      \E s \in Slots : rs[s] # None /\ rs[s].thunk = r

\* A list that is being fetched is LOADING, and fetched once at a time.
FetchedOnce(rs, st) ==
  \A s \in Slots : rs[s] # None /\ rs[s].thunk \in ListFetches =>
    /\ st[Fetches[rs[s].thunk].slice] = "LOADING"
    /\ \A q \in Slots : rs[q] # None /\ rs[q].thunk = rs[s].thunk => q = s

Orderly(rs, st) == SpinnersWait(rs, st) /\ FetchedOnce(rs, st)

\* Leaving a page changes nothing of this.
LEMMA OrderlySame ==
  ASSUME NEW rs, NEW qs, NEW st, SameRequests(rs, qs), Orderly(rs, st)
  PROVE  Orderly(qs, st)
BY DEF SameRequests, Orderly, SpinnersWait, FetchedOnce

\* A thunk may be dispatched when its list is not being fetched.
LEMMA OrderlyDispatch ==
  ASSUME UiTypes, NEW rs, RequestsOK(rs), Orderly(rs, status),
         NEW thunk \in Thunks, NEW of \in Jobs \cup Searches \cup {None},
         thunk = "fetchPolicyModels" => of \in Searches,
         thunk \in {"fetchJobDetails", "deleteItem"} => of \in Jobs,
         thunk \in ListFetches => status[Fetches[thunk].slice] # "LOADING",
         Dispatch(rs, thunk, of)
  PROVE  Orderly(request', status')
<1>1. PICK s \in Slots :
        /\ rs[s] = None /\ request'[s] # None /\ request'[s].thunk = thunk
        /\ \A q \in Slots \ {s} : request'[q] = rs[q]
  BY DispatchAdds
<1>2. status' = IF thunk \in DOMAIN Fetches
                  THEN [status EXCEPT ![Fetches[thunk].slice] = "LOADING"] ELSE status
  BY DispatchAdds
<1>3. /\ \A r \in DOMAIN Fetches : status'[Fetches[r].slice] =
                IF r = thunk THEN "LOADING" ELSE status[Fetches[r].slice]
  BY <1>2, FetchFacts DEF UiTypes, TypeOK
<1>4. SpinnersWait(request', status')
  BY <1>1, <1>3 DEF Orderly, SpinnersWait
<1>5. FetchedOnce(request', status')
  <2>1. ASSUME NEW q \in Slots, rs[q] # None, thunk \in ListFetches PROVE rs[q].thunk # thunk
    BY <2>1 DEF Orderly, FetchedOnce
  <2>2. \A r \in ListFetches : r \in DOMAIN Fetches
    BY DEF ListFetches
  <2> QED BY <1>1, <1>3, <2>1, <2>2 DEF Orderly, FetchedOnce
<1> QED BY <1>4, <1>5 DEF Orderly

\* Pages fetch a list that is IDLE only.
LEMMA OrderlyGoTo ==
  ASSUME UiTypes, NEW rs, RequestsOK(rs), Orderly(rs, status), NEW p \in Pages, GoTo(p, rs)
  PROVE  Orderly(request', status')
<1> DEFINE of == IF p \in Jobs THEN p ELSE None
<1>1. PICK kept :
        /\ RequestsOK(kept) /\ SameRequests(rs, kept)
        /\ \/ request' = kept /\ status' = status
           \/ /\ Dispatch(kept, Route(p).fetch, of)
              /\ \/ Route(p).fetch = "fetchJobDetails"
                 \/ status[Fetches[Route(p).fetch].slice] = "IDLE"
              /\ Route(p).fetch # "fetchPolicyModels"
  BY GoToSends
<1>2. Orderly(kept, status)
  BY <1>1, OrderlySame
<1>3. /\ Route(p).fetch \in DOMAIN Fetches
      /\ Route(p).fetch = "fetchJobDetails" <=> p \in Jobs
      /\ Route(p).fetch # "deleteItem"
      /\ "fetchJobDetails" \notin ListFetches
  BY RouteFacts, FetchFacts DEF ListFetches
<1>4. CASE request' = kept /\ status' = status
  BY <1>2, <1>4
<1>5. CASE /\ Dispatch(kept, Route(p).fetch, of)
           /\ \/ Route(p).fetch = "fetchJobDetails"
              \/ status[Fetches[Route(p).fetch].slice] = "IDLE"
           /\ Route(p).fetch # "fetchPolicyModels"
  <2>1. Route(p).fetch \in Thunks /\ of \in Jobs \cup Searches \cup {None}
    BY <1>3 DEF Thunks
  <2>2. Route(p).fetch \in ListFetches => status[Fetches[Route(p).fetch].slice] # "LOADING"
    BY <1>3, <1>5
  <2>3. Route(p).fetch \in {"fetchJobDetails", "deleteItem"} => of \in Jobs
    BY <1>3
  <2> HIDE DEF of
  <2> QED BY <1>1, <1>2, <1>5, <2>1, <2>2, <2>3, OrderlyDispatch
<1> QED BY <1>1, <1>4, <1>5

\* The answer for a list ends its loading; other answers are not waited for.
LEMMA OrderlyFetch ==
  ASSUME UiTypes, Orderly(request, status), NEW s \in Slots, NEW kind, FetchArrives(s, kind)
  PROVE  Orderly(request', status')
<1> DEFINE r == request[s]
           t == Fetches[r.thunk]
<1>1. /\ r # None /\ r.thunk \in DOMAIN Fetches /\ request' = Done(s)
      /\ kind \in {"lost", "error", "results"}
  BY DEF FetchArrives, Arrives
<1>2. /\ request'[s] = None
      /\ \A q \in Slots \ {s} : request'[q] = request[q]
  BY <1>1, DoneRemoves DEF UiTypes
<1>3. \/ \E v \in {"SUCCEEDED", "FAILED"} : status' = [status EXCEPT ![t.slice] = v]
      \/ t.needs = "body" /\ status' = status
  <2>1. CASE kind = "error" /\ t.needs = "body"
    BY <2>1 DEF FetchArrives
  <2>2. CASE kind = "lost" \/ (kind = "error" /\ t.needs # "body")
    BY <2>2 DEF FetchArrives, Rejected
  <2>3. CASE kind = "results"
    BY <2>3 DEF FetchArrives
  <2> QED BY <1>1, <2>1, <2>2, <2>3
<1>4. /\ \A q \in DOMAIN Fetches \ {r.thunk} : status'[Fetches[q].slice] = status[Fetches[q].slice]
      /\ t.needs = "body" \/ status'[t.slice] # "LOADING"
  BY <1>1, <1>3, FetchFacts DEF UiTypes, TypeOK
<1>5. SpinnersWait(request', status')
  BY <1>1, <1>2, <1>4 DEF Orderly, SpinnersWait
<1>6. FetchedOnce(request', status')
  <2>1. ASSUME NEW q \in Slots, request'[q] # None, request'[q].thunk \in ListFetches
        PROVE  q # s /\ request[q].thunk \in DOMAIN Fetches \ {r.thunk}
    BY <1>1, <1>2, <2>1 DEF Orderly, FetchedOnce, ListFetches
  <2> QED BY <1>2, <1>4, <2>1 DEF Orderly, FetchedOnce
<1> QED BY <1>5, <1>6 DEF Orderly

LEMMA OrderlyStep ==
  ASSUME UiTypes, Orderly(request, status), [Next]_vars
  PROVE  Orderly(request', status')
<1>1. ASSUME NEW p \in menu \cup Jobs, Navigate(p) PROVE Orderly(request', status')
  <2>1. p \in Pages /\ GoTo(p, request)
    BY <1>1, PagesOfMenus DEF UiTypes, Navigate, Pages
  <2> QED BY <2>1, OrderlyGoTo DEF UiTypes
<1>2. CASE Refresh
  <2>1. page \in Pages
    BY <1>2, PagesOfMenus, RouteFacts DEF Refresh, UiTypes, TypeOK, Pages
  <2>2. /\ Route(page).fetch \in Thunks /\ Route(page).fetch # "fetchPolicyModels"
        /\ Route(page).fetch # "deleteItem"
        /\ Route(page).fetch = "fetchJobDetails" => page \in Jobs
    BY <1>2, <2>1, RouteFacts, FetchFacts DEF Refresh, Thunks
  <2>3. /\ Dispatch(request, Route(page).fetch, IF page \in Jobs THEN page ELSE None)
        /\ status[Fetches[Route(page).fetch].slice] # "LOADING"
    BY <1>2 DEF Refresh, loading
  <2> QED BY <2>2, <2>3, OrderlyDispatch DEF UiTypes
<1>3. CASE startScan
  <2>1. page \in Pages
    BY <1>3, PagesOfMenus, RouteFacts DEF startScan, UiTypes, TypeOK, Pages
  <2>2. Route(page).scan \in DOMAIN Scans
    BY <1>3, <2>1, RouteFacts DEF startScan
  <2>3. /\ Route(page).scan \in Thunks
        /\ Route(page).scan \notin {"fetchPolicyModels", "fetchJobDetails", "deleteItem"}
        /\ Route(page).scan \notin ListFetches
    BY <2>2, FetchFacts DEF Thunks, ListFetches
  <2> QED BY <1>3, <2>3, OrderlyDispatch DEF UiTypes, startScan
<1>4. ASSUME NEW q \in Searches, startSearch(q) PROVE Orderly(request', status')
  <2>1. "fetchPolicyModels" \in Thunks \ ListFetches
    BY FetchFacts DEF Thunks, ListFetches
  <2> QED BY <1>4, <2>1, OrderlyDispatch DEF UiTypes, startSearch
<1>5. CASE deleteJob
  <2>1. "deleteItem" \in Thunks \ ListFetches
    BY FetchFacts DEF Thunks, ListFetches
  <2> QED BY <1>5, <2>1, OrderlyDispatch DEF UiTypes, deleteJob
<1>6. ASSUME NEW s \in Slots, Refuses(s) \/ Reads(s) \/ Deletes(s) \/ \E j \in Jobs : ScansNow(s, j)
      PROVE  Orderly(request', status')
  <2>1. /\ request[s] # None /\ request'[s] # None /\ request'[s].thunk = request[s].thunk
        /\ \A q \in Slots \ {s} : request'[q] = request[q]
        /\ status' = status
    BY <1>6, BackendAnswers
  <2> QED BY <2>1 DEF Orderly, SpinnersWait, FetchedOnce
<1>7. ASSUME NEW s \in Slots, NEW kind, FetchArrives(s, kind) PROVE Orderly(request', status')
  BY <1>7, OrderlyFetch
<1>8. ASSUME NEW s \in Slots, NEW kind, ScanArrives(s, kind) \/ DeleteArrives(s, kind)
      PROVE  Orderly(request', status')
  <2>1. request[s] # None /\ request[s].thunk \notin DOMAIN Fetches
    BY <1>8, FetchFacts DEF ScanArrives, DeleteArrives, Arrives
  <2>2. Orderly(Done(s), status) /\ RequestsOK(Done(s))
    BY <2>1, DoneRemoves DEF UiTypes, Orderly, SpinnersWait, FetchedOnce, ListFetches
  <2>3. \/ request' = Done(s) /\ status' = status
        \/ \E p \in Jobs \cup {"/jobs"} : GoTo(p, Done(s))
    BY <1>8, ArrivalGoesTo
  <2>4. Jobs \cup {"/jobs"} \subseteq Pages
    BY RouteFacts DEF Pages
  <2> QED BY <2>2, <2>3, <2>4, OrderlyGoTo
<1>9. CASE UNCHANGED <<request, status>>
  BY <1>9
<1> QED
  BY <1>1, <1>2, <1>3, <1>4, <1>5, <1>6, <1>7, <1>8, <1>9 DEF Next, vars, onDismiss, Elsewhere,
     Expires, StoredAgain, Becomes

LEMMA OrderlyInvariant == Spec => []Orderly(request, status)
<1>1. Init => Orderly(request, status)
  <2> SUFFICES ASSUME Init PROVE Orderly(request, status)
    OBVIOUS
  <2>1. /\ \A s \in Slots : request[s] = None
        /\ \A r \in DOMAIN Fetches : status[Fetches[r].slice] # "LOADING"
    BY FetchFacts DEF Init
  <2> QED BY <2>1 DEF Orderly, SpinnersWait, FetchedOnce
<1>2. UiTypes /\ Orderly(request, status) /\ [Next]_vars => Orderly(request, status)'
  BY OrderlyStep
<1> QED BY UiTypesInvariant, <1>1, <1>2, PTL DEF Spec

\* A spinner waits for an answer that is still to come, on all pages but that
\* of resource-based policies, whatever other answers arrive and are lost.
THEOREM SpinnersEnd == Spec => []LoadingIsReal
<1>1. Orderly(request, status) => LoadingIsReal
  BY DEF Orderly, SpinnersWait, LoadingIsReal
<1> QED BY OrderlyInvariant, <1>1, PTL

(***************************************************************************)
(* Deletions.                                                              *)
(***************************************************************************)
\* What a deletion has been answered is true: in the answer and once reported.
AnswersTrue(rs) ==
  \A s \in Slots : rs[s] # None /\ rs[s].thunk = "deleteItem" /\ rs[s].answer # Waiting =>
    job[rs[s].of] = "deleted" \/ rs[s].of \in refused \cup revived

\* What the steps of a job beside the requests do.
LEMMA JobSteps ==
  ASSUME UiTypes, NEW i \in Jobs, Elsewhere(i) \/ Expires(i) \/ StoredAgain(i)
  PROVE  /\ UNCHANGED <<list, refused, lagged, request, notices>>
         /\ revived \subseteq revived'
         /\ \A j \in Jobs : j = i \/ job'[j] = job[j]
         /\ Rank[job[i]] <= Rank[job'[i]] \/ i \in revived'
         /\ job[i] = "deleted" => job'[i] = "deleted" \/ i \in revived'
BY DEF Elsewhere, Expires, StoredAgain, Becomes, UiTypes, TypeOK, Rank

\* Deleted jobs stay deleted until they are stored again, and nothing is forgotten.
LEMMA DeletedStays ==
  ASSUME UiTypes, [Next]_vars
  PROVE  /\ \A j \in Jobs : job[j] = "deleted" => job'[j] = "deleted" \/ j \in revived'
         /\ refused \subseteq refused'
         /\ revived \subseteq revived'
<1>1. ASSUME NEW s \in Slots, NEW i \in Jobs, ScansNow(s, i)
      PROVE  /\ \A j \in Jobs : job[j] = "deleted" => job'[j] = "deleted"
             /\ refused' = refused /\ revived' = revived
  BY <1>1 DEF ScansNow, Answer, UiTypes, TypeOK
<1>2. ASSUME NEW s \in Slots, Refuses(s) \/ Reads(s)
      PROVE  job' = job /\ refused \subseteq refused' /\ revived' = revived
  BY <1>2 DEF Refuses, Reads, Answer
<1>3. ASSUME NEW s \in Slots, Deletes(s)
      PROVE  /\ \A j \in Jobs : job[j] = "deleted" => job'[j] = "deleted"
             /\ refused' = refused /\ revived' = revived
  BY <1>3 DEF Deletes, Answer, UiTypes, TypeOK
<1>4. ASSUME NEW i \in Jobs, Elsewhere(i) \/ Expires(i) \/ StoredAgain(i)
      PROVE  /\ \A j \in Jobs : job[j] = "deleted" => job'[j] = "deleted" \/ j \in revived'
             /\ refused' = refused /\ revived \subseteq revived'
  BY <1>4, JobSteps
<1>5. CASE UNCHANGED <<job, refused, revived>>
  BY <1>5
<1> QED
  BY <1>1, <1>2, <1>3, <1>4, <1>5
  DEF Next, vars, Navigate, Refresh, startScan, startSearch, deleteJob, onDismiss,
      FetchArrives, ScanArrives, DeleteArrives

LEMMA AnswersTrueStep ==
  ASSUME UiTypes, AnswersTrue(request), [Next]_vars
  PROVE  AnswersTrue(request)'
<1> SUFFICES ASSUME NEW s \in Slots, request'[s] # None, request'[s].thunk = "deleteItem",
                    request'[s].answer # Waiting
             PROVE  job'[request'[s].of] = "deleted" \/ request'[s].of \in refused' \cup revived'
  BY DEF AnswersTrue
<1>1. SlotStep(s)
  BY SlotSteps
<1>2. CASE Answered(s)
  BY <1>2, BackendAnswers DEF Answered
<1>3. CASE request[s] # None /\ Stays(request[s], request'[s])
  <2>1. request[s].of \in Jobs
    BY <1>3 DEF UiTypes, RequestsOK, Stays
  <2> QED BY <1>3, <2>1, DeletedStays DEF AnswersTrue, Stays
<1> QED BY <1>1, <1>2, <1>3 DEF SlotStep

\* Only the answer to a deletion is reported as one.
LEMMA ReportsTrueStep ==
  ASSUME UiTypes, AnswersTrue(request), DeletedOrRefused, [Next]_vars
  PROVE  DeletedOrRefused'
<1> DEFINE Report(j) == [id |-> "uuid", of |-> j, text |-> "deleted"]
<1>1. ASSUME \A j \in Jobs : Report(j) \in notices' => Report(j) \in notices
      PROVE  DeletedOrRefused'
  BY <1>1, DeletedStays DEF DeletedOrRefused
<1>2. ASSUME NEW id, NEW text, text # "deleted", addNotification(id, text)
      PROVE  DeletedOrRefused'
  BY <1>1, <1>2 DEF addNotification
<1>3. ASSUME NEW s \in Slots, NEW kind, DeleteArrives(s, kind) PROVE DeletedOrRefused'
  <2>1. /\ request[s] # None /\ request[s].thunk = "deleteItem"
        /\ kind = "lost" \/ request[s].answer.kind = kind
        /\ kind # "waiting"
        /\ job' = job /\ refused' = refused /\ revived' = revived
    BY <1>3 DEF DeleteArrives, Arrives
  <2>2. CASE kind = "lost"
    <3>1. addNewNotification(request[s].of, "not deleted")
      BY <1>3, <2>2 DEF DeleteArrives
    <3> QED BY <1>1, <3>1 DEF addNewNotification
  <2>3. CASE kind # "lost"
    <3>1. addNewNotification(request[s].of, "deleted")
      BY <1>3, <2>3 DEF DeleteArrives
    <3>2. job[request[s].of] = "deleted" \/ request[s].of \in refused \cup revived
      BY <2>1, <2>3 DEF AnswersTrue, Waiting
    <3> QED BY <2>1, <3>1, <3>2 DEF addNewNotification, DeletedOrRefused
  <2> QED BY <2>2, <2>3
<1>4. ASSUME NEW s \in Slots, NEW kind, FetchArrives(s, kind) PROVE DeletedOrRefused'
  <2>1. \/ \E id, text : text # "deleted" /\ addNotification(id, text)
        \/ notices' = notices
    BY <1>4 DEF FetchArrives, Rejected
  <2> QED BY <1>1, <1>2, <2>1
<1>5. ASSUME NEW s \in Slots, NEW kind, ScanArrives(s, kind) PROVE DeletedOrRefused'
  <2>1. \E id, text : text # "deleted" /\ addNotification(id, text)
    BY <1>5 DEF ScanArrives
  <2> QED BY <1>2, <2>1
<1>6. ASSUME NEW n \in notices, onDismiss(n) PROVE DeletedOrRefused'
  BY <1>1, <1>6 DEF onDismiss
<1>7. CASE UNCHANGED notices
  BY <1>1, <1>7
<1> QED
  BY <1>3, <1>4, <1>5, <1>6, <1>7
  DEF Next, vars, Navigate, Refresh, startScan, startSearch, deleteJob, Refuses, Reads,
      Deletes, ScansNow, Answer, Elsewhere, Expires, StoredAgain, Becomes

\* A job that the user is told has been deleted was deleted, and is gone but for
\* being stored again, or the backend has refused to delete it, however many
\* deletions are answered late or twice.
THEOREM DeletionsReported == Spec => []DeletedOrRefused
<1>1. Init => AnswersTrue(request) /\ DeletedOrRefused
  BY DEF Init, AnswersTrue, DeletedOrRefused
<1>2. UiTypes /\ AnswersTrue(request) /\ [Next]_vars => AnswersTrue(request)'
  BY AnswersTrueStep
<1>3. UiTypes /\ AnswersTrue(request) /\ DeletedOrRefused /\ [Next]_vars => DeletedOrRefused'
  BY ReportsTrueStep
<1> QED BY UiTypesInvariant, <1>1, <1>2, <1>3, PTL DEF Spec

(***************************************************************************)
(* Searches.                                                               *)
(***************************************************************************)
\* If no other search was under way at the start of the latest, there is none since,
\* and only its results can have been shown.
LatestAlone ==
  latest.alone =>
    /\ \A s \in Slots : request[s] # None /\ request[s].thunk = "fetchPolicyModels"
                          => request[s].of = latest.search
    /\ status["policyModels"] = "SUCCEEDED" => policies = latest.search

LEMMA LatestAloneStep ==
  ASSUME UiTypes, LatestAlone, [Next]_vars
  PROVE  LatestAlone'
<1>1. ASSUME NEW q \in Searches, startSearch(q) PROVE LatestAlone'
  <2>1. SUFFICES ASSUME latest'.alone PROVE LatestAlone'
    BY DEF LatestAlone
  <2>2. latest'.search = q /\ \A other \in Searches : ~UnderWay("fetchPolicyModels", other)
    BY <1>1, <2>1 DEF startSearch
  <2>3. \A s \in Slots : request[s] # None => request[s].thunk # "fetchPolicyModels"
    BY <2>2 DEF UnderWay, UiTypes, RequestsOK
  <2>4. "fetchPolicyModels" \in Thunks /\ Dispatch(request, "fetchPolicyModels", q)
    BY <1>1, FetchFacts DEF startSearch, Thunks
  <2>5. PICK n \in Slots :
          /\ request'[n].of = q
          /\ \A s \in Slots \ {n} : request'[s] = request[s]
    BY <2>4, DispatchAdds DEF UiTypes
  <2>6. status' = [status EXCEPT !["policyModels"] = "LOADING"]
    BY <2>4, DispatchAdds, FetchFacts DEF UiTypes
  <2>7. status'["policyModels"] = "LOADING"
    BY <2>6 DEF UiTypes, TypeOK, Slices
  <2> QED BY <2>2, <2>3, <2>5, <2>7 DEF LatestAlone
<1> SUFFICES ASSUME \A q \in Searches : ~startSearch(q) PROVE LatestAlone'
  BY <1>1
<1>2. ASSUME latest' = latest,
             latest.alone => (status'["policyModels"] = "SUCCEEDED" => policies' = latest.search)
      PROVE  LatestAlone'
  <2>1. ASSUME NEW s \in Slots, latest.alone, request'[s] # None,
               request'[s].thunk = "fetchPolicyModels"
        PROVE  request'[s].of = latest.search
    <3>1. SlotStep(s)
      BY SlotSteps
    <3>2. request'[s].of \in Searches
      BY <2>1, UiTypesStep DEF UiTypes, RequestsOK
    <3>3. request[s] # None
      BY <2>1, <3>1, <3>2 DEF SlotStep
    <3>4. request'[s].thunk = request[s].thunk /\ request'[s].of = request[s].of
      <4>1. CASE Answered(s)
        BY <4>1, BackendAnswers DEF Answered
      <4>2. CASE Stays(request[s], request'[s])
        BY <4>2 DEF Stays
      <4> QED BY <2>1, <3>1, <3>3, <4>1, <4>2 DEF SlotStep
    <3> QED BY <2>1, <3>3, <3>4 DEF LatestAlone
  <2> QED BY <1>2, <2>1 DEF LatestAlone
<1>3. ASSUME NEW s \in Slots, NEW kind, FetchArrives(s, kind) PROVE LatestAlone'
  <2>1. /\ latest' = latest /\ request[s] # None /\ request[s].thunk \in DOMAIN Fetches
        /\ kind \in {"lost", "error", "results"}
    BY <1>3 DEF FetchArrives, Arrives
  <2>2. \/ status' = status /\ policies' = policies
        \/ /\ status' = [status EXCEPT ![Fetches[request[s].thunk].slice] = "FAILED"]
           /\ policies' = policies
        \/ /\ status' = [status EXCEPT ![Fetches[request[s].thunk].slice] = "SUCCEEDED"]
           /\ policies' = IF Fetches[request[s].thunk].slice = "policyModels"
                            THEN request[s].of ELSE policies
    <3>1. CASE kind = "results"
      BY <1>3, <3>1 DEF FetchArrives
    <3>2. CASE kind # "results"
      BY <1>3, <3>2 DEF FetchArrives, Rejected
    <3> QED BY <3>1, <3>2
  <2>3. Fetches[request[s].thunk].slice = "policyModels" => request[s].thunk = "fetchPolicyModels"
    BY <2>1, FetchFacts
  <2>4. status \in [Slices -> {"IDLE", "LOADING", "SUCCEEDED", "FAILED"}]
        /\ "policyModels" \in Slices /\ Fetches[request[s].thunk].slice \in Slices
    BY <2>1, FetchFacts DEF UiTypes, TypeOK
  <2>5. latest.alone => (status'["policyModels"] = "SUCCEEDED" => policies' = latest.search)
    BY <2>1, <2>2, <2>3, <2>4 DEF LatestAlone
  <2> QED BY <1>2, <2>1, <2>5
<1>4. ASSUME latest' = latest, policies' = policies,
             status'["policyModels"] \in {status["policyModels"], "LOADING"}
      PROVE  LatestAlone'
  BY <1>2, <1>4 DEF LatestAlone
<1>5. ASSUME NEW p, NEW rs, GoTo(p, rs)
      PROVE  status'["policyModels"] \in {status["policyModels"], "LOADING"}
  <2>1. status' = status \/ \E qs, thunk, of : Dispatch(qs, thunk, of)
    BY <1>5 DEF GoTo
  <2>2. \/ status' = status
        \/ \E slice : status' = [status EXCEPT ![slice] = "LOADING"]
    BY <2>1 DEF Dispatch
  <2>3. status \in [Slices -> {"IDLE", "LOADING", "SUCCEEDED", "FAILED"}] /\ "policyModels" \in Slices
    BY DEF UiTypes, TypeOK, Slices
  <2> QED BY <2>2, <2>3
<1>6. ASSUME NEW p, Navigate(p) PROVE LatestAlone'
  BY <1>4, <1>5, <1>6 DEF Navigate
<1>7. CASE Refresh \/ startScan \/ deleteJob
  <2>1. latest' = latest /\ policies' = policies
    BY <1>7 DEF Refresh, startScan, deleteJob
  <2>2. \E rs, thunk, of : Dispatch(rs, thunk, of)
    BY <1>7 DEF Refresh, startScan, deleteJob
  <2>3. status'["policyModels"] \in {status["policyModels"], "LOADING"}
    BY <2>2 DEF Dispatch, UiTypes, TypeOK
  <2> QED BY <1>4, <2>1, <2>3
<1>8. ASSUME NEW s \in Slots, Answered(s) PROVE LatestAlone'
  BY <1>4, <1>8, BackendAnswers DEF Answered
<1>9. ASSUME NEW s \in Slots, NEW kind, ScanArrives(s, kind) \/ DeleteArrives(s, kind)
      PROVE  LatestAlone'
  <2>1. latest' = latest /\ policies' = policies
    BY <1>9 DEF ScanArrives, DeleteArrives
  <2>2. status'["policyModels"] \in {status["policyModels"], "LOADING"}
    BY <1>5, <1>9, ArrivalGoesTo
  <2> QED BY <1>4, <2>1, <2>2
<1>10. CASE UNCHANGED <<latest, policies, status>>
  BY <1>4, <1>10
<1> QED
  BY <1>3, <1>6, <1>7, <1>8, <1>9, <1>10 DEF Next, vars, onDismiss, Elsewhere,
     Expires, StoredAgain, Becomes, Answered

\* After a search that began alone the policies shown are its results.
THEOREM LatestSearchShown == Spec => []SearchShowsLatest
<1>1. Init => LatestAlone
  BY DEF Init, LatestAlone, Slices
<1>2. UiTypes /\ LatestAlone /\ [Next]_vars => LatestAlone'
  BY LatestAloneStep
<1>3. LatestAlone => SearchShowsLatest
  BY DEF LatestAlone, SearchShowsLatest
<1> QED BY UiTypesInvariant, <1>1, <1>2, <1>3, PTL DEF Spec

(***************************************************************************)
(* The pages of jobs.                                                      *)
(***************************************************************************)
\* The page of a job has its details, or waits for them, or will not get them.
LEMMA JobPageStep ==
  ASSUME UiTypes, JobPageIsFilled, [Next]_vars
  PROVE  JobPageIsFilled'
<1> DEFINE Asked(j) == \E s \in Slots : /\ request[s] # None
                                        /\ request[s].thunk = "fetchJobDetails"
                                        /\ request[s].of = j
           Asked2(j) == \E s \in Slots : /\ request'[s] # None
                                         /\ request'[s].thunk = "fetchJobDetails"
                                         /\ request'[s].of = j
<1>1. /\ JobPageIsFilled <=> (page \in Jobs /\ details[page] = "none" =>
                                page \in unfetched \/ Asked(page))
      /\ JobPageIsFilled' <=> (page' \in Jobs /\ details'[page'] = "none" =>
                                 page' \in unfetched' \/ Asked2(page'))
  BY DEF JobPageIsFilled, UnderWay
<1>2. ASSUME NEW n \in Slots, NEW kind, FetchArrives(n, kind), page \in Jobs,
             details'[page] = "none"
      PROVE  page \in unfetched' \/ Asked2(page)
  <2>1. /\ request[n] # None /\ request[n].thunk \in DOMAIN Fetches /\ request' = Done(n)
        /\ kind \in {"lost", "error", "results"}
        /\ kind = "results" => request[n].answer.kind = "results"
    BY <1>2 DEF FetchArrives, Arrives
  <2>2. \A s \in Slots \ {n} : request'[s] = request[s]
    BY <2>1, DoneRemoves DEF UiTypes
  <2>3. unfetched \subseteq unfetched'
    <3>1. CASE kind = "results" \/ (kind = "error" /\ Fetches[request[n].thunk].needs = "body")
      BY <1>2, <3>1 DEF FetchArrives
    <3>2. CASE kind = "lost" \/ (kind = "error" /\ Fetches[request[n].thunk].needs # "body")
      BY <1>2, <3>2 DEF FetchArrives
    <3> QED BY <2>1, <3>1, <3>2
  <2>4. CASE request[n].thunk = "fetchJobDetails"
    <3>1. request[n].of \in Jobs /\ Fetches[request[n].thunk].needs = "Job"
      BY <2>1, <2>4 DEF UiTypes, RequestsOK, Fetches, fetchJobDetails, Fetch
    <3>2. CASE kind = "results"
      <4>1. details' = [details EXCEPT ![request[n].of] = request[n].answer.body]
        BY <1>2, <2>4, <3>2, FetchFacts DEF FetchArrives
      <4>2. request[n].answer.body \in {"ACTIVE", "finished"}
        BY <2>1, <2>4, <3>2 DEF UiTypes, RequestsOK
      <4>3. request[n].of # page /\ details[page] = "none"
        BY <1>2, <3>1, <4>1, <4>2 DEF UiTypes, TypeOK
      <4> QED BY <1>1, <1>2, <2>2, <2>3, <4>3
    <3>3. CASE kind # "results"
      <4>1. unfetched' = unfetched \cup {request[n].of} /\ details' = details
        BY <1>2, <2>1, <2>4, <3>1, <3>3 DEF FetchArrives
      <4> QED BY <1>1, <1>2, <2>2, <4>1
    <3> QED BY <3>2, <3>3
  <2>5. CASE request[n].thunk # "fetchJobDetails"
    <3>1. Fetches[request[n].thunk].slice # "jobDetails"
      BY <2>1, <2>5, FetchFacts
    <3>2. details' = details
      <4>1. CASE kind = "results"
        BY <1>2, <3>1, <4>1 DEF FetchArrives
      <4>2. CASE kind # "results"
        BY <1>2, <4>2 DEF FetchArrives
      <4> QED BY <4>1, <4>2
    <3> QED BY <1>1, <1>2, <2>2, <2>3, <2>5, <3>2
  <2> QED BY <2>4, <2>5
<1>3. CASE \E n \in Slots : \E kind : FetchArrives(n, kind)
  <2>1. page' = page
    BY <1>3 DEF FetchArrives
  <2> HIDE DEF Asked, Asked2
  <2> QED BY <1>1, <1>2, <1>3, <2>1
<1> SUFFICES ASSUME \A n \in Slots : \A kind : ~FetchArrives(n, kind) PROVE JobPageIsFilled'
  BY <1>3
<1>4. ASSUME NEW j, Asked(j) PROVE Asked2(j)
  <2>1. PICK s \in Slots : /\ request[s] # None
                           /\ request[s].thunk = "fetchJobDetails"
                           /\ request[s].of = j
    BY <1>4
  <2>2. SlotStep(s)
    BY SlotSteps
  <2>3. ~Arrival(s)
    BY <2>1, FetchFacts DEF Arrival, ScanArrives, DeleteArrives
  <2>4. request'[s] # None /\ request'[s].thunk = request[s].thunk /\ request'[s].of = request[s].of
    <3>1. CASE Answered(s)
      BY <3>1, BackendAnswers DEF Answered
    <3>2. CASE Stays(request[s], request'[s])
      BY <3>2 DEF Stays
    <3> QED BY <2>1, <2>2, <2>3, <3>1, <3>2 DEF SlotStep
  <2> QED BY <2>1, <2>4
<1>5. CASE page' = page /\ details' = details /\ unfetched' = unfetched
  <2> HIDE DEF Asked, Asked2
  <2> QED BY <1>1, <1>4, <1>5
<1>6. ASSUME NEW p \in Pages, NEW rs, RequestsOK(rs), GoTo(p, rs), details' = details
      PROVE  JobPageIsFilled'
  <2>1. page' = p
    BY <1>6 DEF GoTo
  <2>2. CASE p \in Jobs /\ p = page
    <3>1. unfetched' = unfetched
      BY <1>6, <2>2 DEF GoTo
    <3> QED BY <1>5, <1>6, <2>1, <2>2, <3>1
  <2>3. CASE p \in Jobs /\ p # page /\ page \in Jobs
    <3>1. p \in unfetched'
      BY <1>6, <2>3 DEF GoTo
    <3> QED BY <1>1, <2>1, <3>1
  <2>4. CASE p \in Jobs /\ page \notin Jobs
    <3>1. Dispatch(Unmount(rs), "fetchJobDetails", p)
      <4>1. Route(p).load = "always" /\ Route(p).fetch = "fetchJobDetails"
        BY <2>4, RouteFacts
      <4> QED BY <1>6, <2>4, <4>1 DEF GoTo
    <3>2. RequestsOK(Unmount(rs)) /\ "fetchJobDetails" \in Thunks
      BY <1>6, UnmountKeeps, FetchFacts DEF Thunks
    <3>3. Asked2(p)
      BY <2>4, <3>1, <3>2, DispatchAdds
    <3> HIDE DEF Asked, Asked2
    <3> QED BY <1>1, <2>1, <3>3
  <2>5. CASE p \notin Jobs
    BY <1>1, <2>1, <2>5
  <2> QED BY <2>2, <2>3, <2>4, <2>5
<1>7. ASSUME NEW p \in menu \cup Jobs, Navigate(p) PROVE JobPageIsFilled'
  <2>1. p \in Pages /\ GoTo(p, request) /\ details' = details
    BY <1>7, PagesOfMenus DEF UiTypes, Navigate, Pages
  <2> QED BY <1>6, <2>1 DEF UiTypes
<1>8. ASSUME NEW s \in Slots, NEW kind, ScanArrives(s, kind) \/ DeleteArrives(s, kind)
      PROVE  JobPageIsFilled'
  <2>1. details' = details
    BY <1>8 DEF ScanArrives, DeleteArrives
  <2>2. RequestsOK(Done(s)) /\ Jobs \cup {"/jobs"} \subseteq Pages
    BY DoneRemoves, RouteFacts DEF UiTypes, Pages
  <2> QED BY <1>5, <1>6, <1>8, <2>1, <2>2, ArrivalGoesTo
<1>9. ASSUME NEW s \in Slots, Answered(s) PROVE JobPageIsFilled'
  BY <1>5, <1>9, BackendAnswers DEF Answered
<1>10. CASE \/ Refresh \/ startScan \/ deleteJob \/ (\E q \in Searches : startSearch(q))
            \/ (\E n \in notices : onDismiss(n))
            \/ (\E j \in Jobs : Elsewhere(j) \/ Expires(j) \/ StoredAgain(j))
            \/ UNCHANGED vars
  BY <1>5, <1>10 DEF Refresh, startScan, deleteJob, startSearch, onDismiss, Elsewhere, Expires,
     StoredAgain, Becomes, vars
<1> QED BY <1>7, <1>8, <1>9, <1>10 DEF Next, Answered

\* No page of a job stays empty without a reason that the user has seen, or
\* that it took the place of another job's page.
THEOREM JobPagesFilled == Spec => []JobPageIsFilled
<1>1. Init /\ UiTypes => JobPageIsFilled
  BY WebUiAssumption DEF Init, JobPageIsFilled
<1>2. UiTypes /\ JobPageIsFilled /\ [Next]_vars => JobPageIsFilled'
  BY JobPageStep
<1> QED BY UiTypesInvariant, <1>1, <1>2, PTL DEF Spec
(***************************************************************************)
(* Lists.                                                                  *)
(***************************************************************************)
\* What the backend knew at b is as late as what it knew at a, but for some jobs.
Older(a, b, but) == \A j \in Jobs : Rank[a[j]] <= Rank[b[j]] \/ j \in but

LEMMA OlderTransitive ==
  ASSUME NEW a \in [Jobs -> JobStates], NEW b \in [Jobs -> JobStates],
         NEW c \in [Jobs -> JobStates], NEW some, NEW more,
         Older(a, b, some), Older(b, c, more)
  PROVE  Older(a, c, some \cup more)
<1>1. \A x \in JobStates : Rank[x] \in Nat
  BY DEF Rank, JobStates
<1> QED BY <1>1 DEF Older

LEMMA OlderReflexive ==
  ASSUME NEW a \in [Jobs -> JobStates], NEW but
  PROVE  Older(a, a, but)
<1>1. \A x \in JobStates : Rank[x] \in Nat
  BY DEF Rank, JobStates
<1> QED BY <1>1 DEF Older

LEMMA OlderMore ==
  ASSUME NEW a, NEW b, NEW some, NEW more, Older(a, b, some), some \subseteq more
  PROVE  Older(a, b, more)
BY DEF Older

SliceOf(s) == Fetches[request[s].thunk].slice

\* A list, an answer that would replace it, and the backend: each is as late as
\* the one before, but for jobs stored again, and for the answer those it lags with.
ListsCurrent ==
  /\ \A l \in Lists : Older(list[l], job, revived)
  /\ \A s \in Slots :
       request[s] # None /\ request[s].thunk \in ListFetches
         /\ request[s].answer.kind = "results" =>
           /\ Older(list[SliceOf(s)], request[s].answer.body, revived \cup lagged[SliceOf(s)])
           /\ Older(request[s].answer.body, job, revived)

\* Jobs only go on in the backend, or are stored again.
LEMMA JobsGoOn ==
  ASSUME UiTypes, [Next]_vars
  PROVE  Older(job, job', revived')
<1>1. /\ job \in [Jobs -> JobStates]
      /\ \A x \in JobStates : Rank[x] \in Nat
  BY DEF UiTypes, TypeOK, Rank, JobStates
<1>2. ASSUME NEW i \in Jobs, NEW x \in JobStates, job' = [job EXCEPT ![i] = x],
             Rank[job[i]] <= Rank[x]
      PROVE  Older(job, job', revived')
  BY <1>1, <1>2 DEF Older
<1>3. ASSUME NEW s \in Slots, NEW i \in Jobs, ScansNow(s, i) PROVE Older(job, job', revived')
  <2>1. job[i] = "none" /\ job' = [job EXCEPT ![i] = "finished"]
    BY <1>3 DEF ScansNow
  <2>2. Rank[job[i]] <= Rank["finished"] /\ "finished" \in JobStates
    BY <2>1 DEF Rank, JobStates
  <2> QED BY <1>2, <2>1, <2>2
<1>4. ASSUME NEW s \in Slots, Deletes(s) PROVE Older(job, job', revived')
  <2>1. request[s].of \in Jobs
    BY <1>4 DEF Deletes, Ready, UiTypes, RequestsOK
  <2>2. /\ job[request[s].of] \in {"finished", "deleted"}
        /\ job' = [job EXCEPT ![request[s].of] = "deleted"]
    BY <1>4 DEF Deletes
  <2>3. Rank[job[request[s].of]] <= Rank["deleted"] /\ "deleted" \in JobStates
    BY <2>2 DEF Rank, JobStates
  <2> QED BY <1>2, <2>1, <2>2, <2>3
<1>5. ASSUME NEW i \in Jobs, Elsewhere(i) \/ Expires(i) \/ StoredAgain(i)
      PROVE  Older(job, job', revived')
  <2>1. /\ \A j \in Jobs : j = i \/ job'[j] = job[j]
        /\ Rank[job[i]] <= Rank[job'[i]] \/ i \in revived'
    BY <1>5, JobSteps
  <2>2. \A j \in Jobs : Rank[job[j]] <= Rank[job[j]]
    BY <1>1
  <2> QED BY <2>1, <2>2 DEF Older
<1>6. CASE job' = job
  BY <1>1, <1>6, OlderReflexive
<1> QED
  BY <1>3, <1>4, <1>5, <1>6
  DEF Next, vars, Navigate, Refresh, startScan, startSearch, deleteJob, onDismiss,
      Refuses, Reads, FetchArrives, ScanArrives, DeleteArrives

\* Only an answer that has the list replaces a list; what an answer lags with is
\* known until it arrives.
LEMMA ListReplaced ==
  ASSUME UiTypes, [Next]_vars
  PROVE  \/ UNCHANGED <<list, lagged>>
         \/ \E s \in Slots : Answered(s) /\ list' = list
         \/ \E s \in Slots :
              /\ request[s] # None /\ request[s].thunk \in ListFetches
              /\ request' = Done(s)
              /\ \/ list' = list
                 \/ /\ request[s].answer.kind = "results"
                    /\ list' = [list EXCEPT ![SliceOf(s)] = request[s].answer.body]
              /\ lagged' = [lagged EXCEPT ![SliceOf(s)] = {}]
              /\ job' = job /\ revived' = revived
<1>1. ASSUME NEW s \in Slots, NEW kind, FetchArrives(s, kind), ~UNCHANGED <<list, lagged>>
      PROVE  /\ request[s] # None /\ request[s].thunk \in ListFetches
             /\ request' = Done(s)
             /\ \/ list' = list
                \/ /\ request[s].answer.kind = "results"
                   /\ list' = [list EXCEPT ![SliceOf(s)] = request[s].answer.body]
             /\ lagged' = [lagged EXCEPT ![SliceOf(s)] = {}]
             /\ job' = job /\ revived' = revived
  <2>1. /\ request[s] # None /\ request[s].thunk \in DOMAIN Fetches
        /\ request' = Done(s) /\ job' = job /\ revived' = revived
        /\ lagged' = IF SliceOf(s) \in Lists THEN [lagged EXCEPT ![SliceOf(s)] = {}] ELSE lagged
        /\ kind \in {"lost", request[s].answer.kind}
    BY <1>1 DEF FetchArrives, Arrives, SliceOf
  <2>2. CASE kind = "results"
    <3>1. IF SliceOf(s) \in Lists
            THEN list' = [list EXCEPT ![SliceOf(s)] = request[s].answer.body] ELSE list' = list
      BY <1>1, <2>2 DEF FetchArrives, SliceOf
    <3> QED BY <1>1, <2>1, <2>2, <3>1 DEF ListFetches, SliceOf
  <2>3. CASE kind # "results"
    <3>1. list' = list
      BY <1>1, <2>3 DEF FetchArrives
    <3> QED BY <1>1, <2>1, <3>1 DEF ListFetches, SliceOf
  <2> QED BY <2>2, <2>3
<1>2. CASE UNCHANGED <<list, lagged>>
  BY <1>2
<1>3. ASSUME NEW s \in Slots, Answered(s) PROVE list' = list
  BY <1>3, BackendAnswers DEF Answered
<1>4. ASSUME NEW i \in Jobs, Elsewhere(i) \/ Expires(i) \/ StoredAgain(i)
      PROVE  UNCHANGED <<list, lagged>>
  BY <1>4, JobSteps
<1>5. CASE Next
  <2>1. CASE \E s \in Slots, kind \in {"results", "error", "lost"} : FetchArrives(s, kind)
    BY <1>1, <1>2, <2>1
  <2>2. CASE \E s \in Slots : Answered(s)
    BY <1>3, <2>2
  <2> QED
    BY <1>2, <1>4, <1>5, <2>1, <2>2
    DEF Next, Navigate, Refresh, startScan, startSearch, deleteJob, onDismiss, Answered,
        ScanArrives, DeleteArrives
<1> QED BY <1>2, <1>5 DEF vars

\* The list, the answer under way and the backend, after the step of one request.
LEMMA AnswerCurrent ==
  ASSUME UiTypes, Orderly(request, status), ListsCurrent, [Next]_vars,
         NEW s \in Slots, request'[s] # None, request'[s].thunk \in ListFetches,
         request'[s].answer.kind = "results"
  PROVE  /\ Older(list'[SliceOf(s)'], request'[s].answer.body, revived' \cup lagged'[SliceOf(s)'])
         /\ Older(request'[s].answer.body, job', revived')
<1>1. /\ list \in [Lists -> [Jobs -> JobStates]] /\ job \in [Jobs -> JobStates]
      /\ lagged \in [Lists -> SUBSET Jobs]
      /\ job' \in [Jobs -> JobStates] /\ RequestsOK(request')
  BY UiTypesStep DEF UiTypes, TypeOK
<1>2. Older(job, job', revived') /\ revived \subseteq revived'
  BY JobsGoOn, DeletedStays
<1>3. request'[s].answer # Waiting /\ SliceOf(s)' \in Lists
  BY DEF Waiting, SliceOf, ListFetches
<1>4. CASE Answered(s)
  <2> DEFINE body == request'[s].answer.body
             l == SliceOf(s)
  <2>1. /\ request'[s].thunk = request[s].thunk /\ job' = job /\ list' = list
        /\ revived' = revived
        /\ Shows(body)
        /\ lagged' = [lagged EXCEPT ![l] = {j \in Jobs : body[j] # job[j]}]
    BY <1>4, BackendAnswers DEF Answered, SliceOf
  <2>2. SliceOf(s)' = l /\ l \in Lists
    BY <1>3, <2>1 DEF SliceOf
  <2>3. lagged'[l] = {j \in Jobs : body[j] # job[j]}
    BY <1>1, <2>1, <2>2
  <2>4. \A j \in Jobs : Rank[list[l][j]] <= Rank[job[j]] \/ j \in revived
    BY <2>2 DEF ListsCurrent, Older
  <2>5. Older(list'[l], body, revived' \cup lagged'[l])
    <3>1. ASSUME NEW j \in Jobs
          PROVE  Rank[list'[l][j]] <= Rank[body[j]] \/ j \in revived' \cup lagged'[l]
      <4>1. CASE body[j] = job[j]
        BY <2>1, <2>4, <4>1
      <4>2. CASE body[j] # job[j]
        BY <2>3, <4>2
      <4> QED BY <4>1, <4>2
    <3> QED BY <3>1 DEF Older
  <2>6. Older(body, job', revived')
    <3>1. ASSUME NEW j \in Jobs
          PROVE  Rank[body[j]] <= Rank[job'[j]] \/ j \in revived'
      BY <2>1 DEF Shows, Earlier
    <3> QED BY <3>1 DEF Older
  <2> QED BY <2>2, <2>5, <2>6
<1>5. CASE request[s] # None /\ Stays(request[s], request'[s])
  <2> DEFINE body == request[s].answer.body
             l == SliceOf(s)
  <2>1. /\ request[s].thunk = request'[s].thunk /\ body = request'[s].answer.body
        /\ request[s].answer.kind = "results" /\ SliceOf(s)' = l /\ l \in Lists
    BY <1>3, <1>5 DEF Stays, SliceOf
  <2>2. /\ Older(list[l], body, revived \cup lagged[l])
        /\ Older(body, job, revived)
        /\ body \in [Jobs -> JobStates]
    BY <1>5, <2>1 DEF ListsCurrent, UiTypes, RequestsOK
  <2>3. Older(body, job', revived')
    <3> HIDE DEF body
    <3>1. Older(body, job', revived \cup revived')
      BY <1>1, <1>2, <2>2, OlderTransitive
    <3> QED BY <1>2, <3>1, OlderMore
  <2>4. CASE ~Answered(s)
    <3>1. \A n \in Slots : Answered(n) => n # s
      BY <2>4
    <3>2. list'[l] = list[l] /\ lagged'[l] = lagged[l]
      <4>1. ASSUME NEW n \in Slots, n # s, request[n] # None, request[n].thunk \in ListFetches
            PROVE  SliceOf(n) # l
        <5>1. request[n].thunk # request[s].thunk
          BY <1>5, <2>1, <4>1 DEF Orderly, FetchedOnce
        <5> QED BY <2>1, <4>1, <5>1, FetchFacts DEF ListFetches, SliceOf
      <4>2. CASE UNCHANGED <<list, lagged>>
        BY <4>2
      <4>3. ASSUME NEW n \in Slots, Answered(n), list' = list PROVE lagged'[l] = lagged[l]
        <5>1. request[n] # None /\ n # s
          BY <3>1, <4>3, BackendAnswers DEF Answered
        <5>2. CASE request[n].thunk \notin ListFetches
          BY <4>3, <5>2, BackendAnswers DEF Answered
        <5>3. CASE request[n].thunk \in ListFetches
          <6>1. SliceOf(n) # l
            BY <4>1, <5>1, <5>3
          <6>2. lagged' = lagged \/ \E late : lagged' = [lagged EXCEPT ![SliceOf(n)] = late]
            BY <4>3, <5>3 DEF Answered, Refuses, Reads, Deletes, ScansNow, SliceOf
          <6> QED BY <1>1, <2>1, <6>1, <6>2
        <5> QED BY <5>2, <5>3
      <4>4. ASSUME NEW n \in Slots, request[n] # None, request[n].thunk \in ListFetches,
                   request' = Done(n),
                   list' = list \/ list' = [list EXCEPT ![SliceOf(n)] = request[n].answer.body],
                   lagged' = [lagged EXCEPT ![SliceOf(n)] = {}]
            PROVE  list'[l] = list[l] /\ lagged'[l] = lagged[l]
        <5>1. n # s
          BY <4>4, DoneRemoves DEF UiTypes
        <5>2. SliceOf(n) # l
          BY <4>1, <4>4, <5>1
        <5> QED BY <1>1, <2>1, <4>4, <5>2
      <4> QED BY <4>2, <4>3, <4>4, ListReplaced
    <3> QED BY <1>2, <2>1, <2>2, <2>3, <3>2, OlderMore
  <2> QED BY <1>4, <2>4
<1> QED BY <1>3, <1>4, <1>5, SlotSteps DEF SlotStep

\* What is true of the lists now is true of what the next step makes of them.
LEMMA ListsCurrentStep ==
  ASSUME UiTypes, Orderly(request, status), ListsCurrent, [Next]_vars
  PROVE  ListsCurrent' /\ \A l \in Lists : Older(list[l], list'[l], lagged[l] \cup revived)
<1>1. /\ list \in [Lists -> [Jobs -> JobStates]] /\ job \in [Jobs -> JobStates]
      /\ job' \in [Jobs -> JobStates]
  BY UiTypesStep DEF UiTypes, TypeOK
<1>2. Older(job, job', revived') /\ revived \subseteq revived'
  BY JobsGoOn, DeletedStays
<1>3. ASSUME NEW l \in Lists
      PROVE  /\ Older(list[l], list'[l], lagged[l] \cup revived)
             /\ Older(list'[l], job', revived')
  <2>1. Older(list[l], job, revived) /\ list[l] \in [Jobs -> JobStates]
    BY <1>1 DEF ListsCurrent
  <2>2. CASE list'[l] = list[l]
    <3>1. Older(list[l], job', revived \cup revived')
      BY <1>1, <1>2, <2>1, OlderTransitive
    <3>2. Older(list[l], job', revived')
      BY <1>2, <3>1, OlderMore
    <3> QED BY <2>1, <2>2, <3>2, OlderReflexive
  <2>3. ASSUME NEW s \in Slots, request[s] # None, request[s].thunk \in ListFetches,
               request[s].answer.kind = "results",
               list' = [list EXCEPT ![SliceOf(s)] = request[s].answer.body],
               job' = job, revived' = revived
        PROVE  /\ Older(list[l], list'[l], lagged[l] \cup revived)
               /\ Older(list'[l], job', revived')
    <3>1. CASE l # SliceOf(s)
      <4>1. list'[l] = list[l]
        BY <1>1, <2>3, <3>1
      <4> QED BY <2>2, <4>1
    <3>2. CASE l = SliceOf(s)
      <4>1. list'[l] = request[s].answer.body
        BY <1>1, <2>3, <3>2
      <4>2. /\ Older(list[l], request[s].answer.body, revived \cup lagged[l])
            /\ Older(request[s].answer.body, job, revived)
        BY <2>3, <3>2 DEF ListsCurrent
      <4> QED BY <2>3, <4>1, <4>2, OlderMore
    <3> QED BY <3>1, <3>2
  <2> QED BY <2>2, <2>3, ListReplaced
<1> QED BY <1>3, AnswerCurrent DEF ListsCurrent

\* However late answers are and in whatever order they come, no list goes back
\* to what it was before, but where the answer itself was older than the table it
\* was read from, or a deleted job has been stored again.
THEOREM ListsAdvance == Spec => ListsNeverGoBack
<1>1. Init /\ UiTypes => ListsCurrent
  <2> SUFFICES ASSUME Init, UiTypes PROVE ListsCurrent
    OBVIOUS
  <2>1. \A l \in Lists : list[l] = Nothing
    BY DEF Init
  <2>2. \A j \in Jobs : Rank[Nothing[j]] = 0 /\ Rank[job[j]] \in Nat
    BY DEF Nothing, Rank, UiTypes, TypeOK, JobStates
  <2>3. \A s \in Slots : request[s] = None
    BY DEF Init
  <2> QED BY <2>1, <2>2, <2>3 DEF ListsCurrent, Older
<1>2. /\ UiTypes /\ Orderly(request, status) /\ ListsCurrent /\ [Next]_vars => ListsCurrent'
      /\ UiTypes /\ Orderly(request, status) /\ ListsCurrent /\ [Next]_vars =>
           [\A s \in Lists, j \in Jobs :
              Rank[list[s][j]] <= Rank[list'[s][j]] \/ j \in lagged[s] \cup revived]_vars
  BY ListsCurrentStep DEF Older
<1> QED BY UiTypesInvariant, OrderlyInvariant, <1>1, <1>2, PTL DEF Spec, ListsNeverGoBack
=============================================================================
