-------------------------- MODULE PolicyScanProofs --------------------------
(***************************************************************************)
(* Theorems about PolicyScan for every number of accounts, services,       *)
(* regions and attempts.                                                   *)
(***************************************************************************)
EXTENDS PolicyScan, TLAPS

\* The initial state satisfies every part of the inductive invariant.
LEMMA ScanInvInit == Init => ScanInv
BY ScanAssumption DEF Init, ScanInv, TypeOK, Tasks, RunningAccounted, DoneAccounted,
   RefusedRecorded, GrantedFirst, IterationsEnded

\* Every step of the state machine and of its Lambda functions keeps the
\* variables in their types.
LEMMA ScanTypeStep == TypeOK /\ [Next]_vars => TypeOK'
<1> USE ScanAssumption
<1> SUFFICES ASSUME TypeOK, [Next]_vars PROVE TypeOK'
  OBVIOUS
<1> USE DEF TypeOK, scanVars, outcome
<1>1. ASSUME NEW a \in Accounts, Validation(a) PROVE TypeOK'
  <2>1. CASE StartAccount(a)
    BY <2>1 DEF StartAccount
  <2>2. CASE AccessGranted(a)
    BY <2>2 DEF AccessGranted
  <2>3. CASE AccessRefused(a)
    BY <2>3 DEF AccessRefused, Failure
  <2>4. CASE ValidationRaises(a)
    BY <2>4 DEF ValidationRaises
  <2>5. CASE ValidationLost(a)
    BY <2>5 DEF ValidationLost, StillRunning, Failure
  <2> QED BY <1>1, <2>1, <2>2, <2>3, <2>4, <2>5 DEF Validation
<1>2. ASSUME NEW a \in Accounts, NEW s \in Services, Service(a, s) PROVE TypeOK'
  <2> <<a, s>> \in Tasks
    BY DEF Tasks
  <2>1. CASE StartTask(a, s)
    BY <2>1 DEF StartTask, Begin, RegionsOf, Tasks
  <2>2. CASE UnsupportedService(a, s)
    BY <2>2 DEF UnsupportedService, EndsWithFailure, Failure
  <2>3. ASSUME NEW r \in RegionsOf(s), ScanRegion(a, s, r) PROVE TypeOK'
    <3>1. <<a, s, r>> \in Places
      BY DEF Places, RegionsOf
    <3>2. clean' \subseteq Places
      BY <2>3, <3>1 DEF ScanRegion
    <3>3. /\ left' \in [Tasks -> SUBSET (Regions \cup {None})]
          /\ found' \in [Tasks -> SUBSET (Regions \cup {None})]
      BY <2>3 DEF ScanRegion, RegionsOf
    <3>4. ASSUME NEW b \in Accounts, NEW q \in Services
          PROVE  left'[<<b, q>>] \cup found'[<<b, q>>] \subseteq RegionsOf(q)
      <4> <<b, q>> \in Tasks
        BY DEF Tasks
      <4>1. left'[<<b, q>>] \subseteq left[<<b, q>>]
        BY <2>3 DEF ScanRegion
      <4>2. CASE <<b, q>> = <<a, s>>
        <5>1. q = s /\ b = a
          BY <4>2
        <5>2. found'[<<b, q>>] \subseteq found[<<b, q>>] \cup {r}
          BY <2>3, <4>2 DEF ScanRegion
        <5> QED BY <4>1, <5>1, <5>2
      <4>3. CASE <<b, q>> # <<a, s>>
        BY <2>3, <4>1, <4>3 DEF ScanRegion
      <4> QED BY <4>2, <4>3
    <3> QED BY <2>3, <3>2, <3>3, <3>4 DEF ScanRegion
  <2>4. ASSUME NEW r \in RegionsOf(s), RegionFails(a, s, r) PROVE TypeOK'
    BY <2>4 DEF RegionFails, RegionsOf, Tasks, Failure
  <2>5. CASE TaskClientError(a, s)
    BY <2>5 DEF TaskClientError, EndsWithFailure, Failure
  <2>6. CASE TaskRaises(a, s)
    BY <2>6 DEF TaskRaises
  <2>7. CASE TaskReturns(a, s)
    BY <2>7 DEF TaskReturns, Failure, Places, RegionsOf
  <2>8. CASE TaskLost(a, s)
    <3>1. CASE tries[<<a, s>>] < MaxAttempts
      <4>1. tries' \in [Accounts \cup Tasks -> 0 .. MaxAttempts]
        BY <2>8, <3>1 DEF TaskLost
      <4>2. /\ left' \in [Tasks -> SUBSET (Regions \cup {None})]
            /\ found' \in [Tasks -> SUBSET (Regions \cup {None})]
        BY <2>8, <3>1 DEF TaskLost, Begin, RegionsOf
      <4>3. ASSUME NEW b \in Accounts, NEW q \in Services
            PROVE  left'[<<b, q>>] \cup found'[<<b, q>>] \subseteq RegionsOf(q)
        BY <2>8, <3>1 DEF TaskLost, Begin, Tasks
      <4> QED BY <2>8, <3>1, <4>1, <4>2, <4>3 DEF TaskLost, StillRunning
    <3>2. CASE ~(tries[<<a, s>>] < MaxAttempts)
      BY <2>8, <3>2 DEF TaskLost, StillRunning
    <3> QED BY <3>1, <3>2
  <2> QED BY <1>2, <2>1, <2>2, <2>3, <2>4, <2>5, <2>6, <2>7, <2>8 DEF Service
<1>3. ASSUME NEW x \in Accounts \cup Tasks, LateFailure(x) PROVE TypeOK'
  BY <1>3 DEF LateFailure, WritesBeside, Failure, Tasks
<1>6. CASE ScpScanFails
  BY <1>6 DEF ScpScanFails, WritesBeside, Failure
<1>4. CASE End
  BY <1>4 DEF End, MapEnds, MapFails, FinishJob, FailJob, FinishStatus, Hidden
<1>5. CASE UNCHANGED vars
  BY <1>5 DEF vars
<1> QED BY <1>1, <1>2, <1>3, <1>4, <1>5, <1>6 DEF Next

\* A running task accounts for each of its regions: a region leaves the list
\* of those to visit only into the findings, the clean places or the failure
\* records, and another attempt starts with all of them.
LEMMA RunningStep == ScanInv /\ [Next]_vars => RunningAccounted'
<1> SUFFICES ASSUME ScanInv, [Next]_vars,
                    NEW b \in Accounts, NEW q \in Services,
                    task'[<<b, q>>] = "running", NEW w \in RegionsOf(q)
             PROVE  \/ w \in left'[<<b, q>>] \cup found'[<<b, q>>]
                    \/ <<b, q, w>> \in clean' \cup failures'
  BY DEF RunningAccounted
<1> USE DEF ScanInv, TypeOK, scanVars, outcome, RunningAccounted
<1> <<b, q>> \in Tasks
  BY DEF Tasks
<1>1. ASSUME NEW a \in Accounts, Validation(a)
      PROVE  /\ UNCHANGED <<task, left, found, clean>>
             /\ failures \subseteq failures'
  BY <1>1 DEF Validation, StartAccount, AccessGranted, AccessRefused,
     ValidationRaises, ValidationLost
<1>2. ASSUME NEW a \in Accounts, NEW s \in Services, Service(a, s)
      PROVE  \/ w \in left'[<<b, q>>] \cup found'[<<b, q>>]
             \/ <<b, q, w>> \in clean' \cup failures'
  <2> <<a, s>> \in Tasks
    BY DEF Tasks
  <2>1. CASE StartTask(a, s)
    BY <2>1 DEF StartTask, Begin
  <2>2. CASE UnsupportedService(a, s) \/ TaskClientError(a, s)
    BY <2>2 DEF UnsupportedService, TaskClientError, EndsWithFailure
  <2>3. ASSUME NEW r \in RegionsOf(s), ScanRegion(a, s, r)
        PROVE  \/ w \in left'[<<b, q>>] \cup found'[<<b, q>>]
               \/ <<b, q, w>> \in clean' \cup failures'
    <3>1. /\ task[<<b, q>>] = "running"
          /\ clean \subseteq clean'
          /\ failures' = failures
          /\ found[<<b, q>>] \subseteq found'[<<b, q>>]
      BY <2>3 DEF ScanRegion
    <3>2. CASE <<b, q>> = <<a, s>>
      <4>1. b = a /\ q = s
        BY <3>2
      <4>2. left'[<<b, q>>] = left[<<b, q>>] \ {r}
        BY <2>3, <4>1 DEF ScanRegion
      <4>3. r \in found'[<<b, q>>] \/ <<b, q, r>> \in clean'
        BY <2>3, <4>1 DEF ScanRegion
      <4> QED BY <3>1, <4>2, <4>3
    <3>3. CASE <<b, q>> # <<a, s>>
      BY <2>3, <3>1, <3>3 DEF ScanRegion
    <3> QED BY <3>2, <3>3
  <2>4. ASSUME NEW r \in RegionsOf(s), RegionFails(a, s, r)
        PROVE  \/ w \in left'[<<b, q>>] \cup found'[<<b, q>>]
               \/ <<b, q, w>> \in clean' \cup failures'
    BY <2>4 DEF RegionFails
  <2>5. CASE TaskRaises(a, s)
    BY <2>5 DEF TaskRaises
  <2>6. CASE TaskReturns(a, s)
    BY <2>6 DEF TaskReturns
  <2>7. CASE TaskLost(a, s)
    <3>1. clean' = clean /\ failures' = failures
      BY <2>7 DEF TaskLost
    <3>2. CASE <<b, q>> = <<a, s>>
      <4>1. b = a /\ q = s
        BY <3>2
      <4>2. tries[<<a, s>>] < MaxAttempts
        BY <2>7, <4>1 DEF TaskLost
      <4>3. left'[<<b, q>>] = RegionsOf(q)
        BY <2>7, <4>1, <4>2 DEF TaskLost, Begin
      <4> QED BY <4>3
    <3>3. CASE <<b, q>> # <<a, s>>
      <4>1. /\ task'[<<b, q>>] = task[<<b, q>>]
            /\ left'[<<b, q>>] = left[<<b, q>>]
            /\ found'[<<b, q>>] = found[<<b, q>>]
        BY <2>7, <3>3 DEF TaskLost, Begin
      <4> QED BY <3>1, <4>1
    <3> QED BY <3>2, <3>3
  <2> QED BY <1>2, <2>1, <2>2, <2>3, <2>4, <2>5, <2>6, <2>7 DEF Service
<1>3. ASSUME NEW x \in Accounts \cup Tasks, LateFailure(x)
      PROVE  /\ UNCHANGED <<task, left, found, clean>>
             /\ failures \subseteq failures'
  BY <1>3 DEF LateFailure, WritesBeside
<1>6. ASSUME ScpScanFails
      PROVE  /\ UNCHANGED <<task, left, found, clean>>
             /\ failures \subseteq failures'
  BY <1>6 DEF ScpScanFails, WritesBeside
<1>4. CASE End
  BY <1>4 DEF End, MapEnds, MapFails, FinishJob, FailJob
<1>5. CASE UNCHANGED vars
  BY <1>5 DEF vars
<1> QED BY <1>1, <1>2, <1>3, <1>4, <1>5, <1>6 DEF Next

\* A task that ends has settled all its regions: it was not stopped by an
\* exception without a record, and it returns only when none is left.
LEMMA DoneStep == ScanInv /\ [Next]_vars => DoneAccounted'
<1> DEFINE Goal(b, q, w) == \/ <<b, q, w>> \in clean' \cup stored' \cup failures'
                            \/ <<b, q, None>> \in failures'
<1> SUFFICES ASSUME ScanInv, [Next]_vars,
                    NEW b \in Accounts, NEW q \in Services,
                    task'[<<b, q>>] = "done", NEW w \in RegionsOf(q)
             PROVE  Goal(b, q, w)
  BY DEF DoneAccounted
<1> USE DEF ScanInv, TypeOK, scanVars, outcome, DoneAccounted
<1> <<b, q>> \in Tasks
  BY DEF Tasks
<1>1. ASSUME NEW a \in Accounts, Validation(a)
      PROVE  /\ UNCHANGED <<task, clean, stored>>
             /\ failures \subseteq failures'
  BY <1>1 DEF Validation, StartAccount, AccessGranted, AccessRefused,
     ValidationRaises, ValidationLost
<1>2. ASSUME NEW a \in Accounts, NEW s \in Services, Service(a, s)
      PROVE  Goal(b, q, w)
  <2> <<a, s>> \in Tasks
    BY DEF Tasks
  <2>1. CASE StartTask(a, s)
    BY <2>1 DEF StartTask, Begin
  <2>2. CASE UnsupportedService(a, s) \/ TaskClientError(a, s)
    BY <2>2 DEF UnsupportedService, TaskClientError, EndsWithFailure
  <2>3. ASSUME NEW r \in RegionsOf(s), ScanRegion(a, s, r) \/ RegionFails(a, s, r)
        PROVE  Goal(b, q, w)
    BY <2>3 DEF ScanRegion, RegionFails
  <2>4. CASE TaskRaises(a, s) \/ TaskLost(a, s)
    BY <2>4 DEF TaskRaises, TaskLost, Begin
  <2>5. CASE TaskReturns(a, s)
    <3>1. CASE <<b, q>> = <<a, s>>
      <4>1. a = b /\ s = q /\ task[<<b, q>>] = "running" /\ left[<<b, q>>] = {}
        BY <2>5, <3>1 DEF TaskReturns
      <4>2. w \in found[<<b, q>>] \/ <<b, q, w>> \in clean \cup failures
        BY <4>1 DEF RunningAccounted
      <4>3. CASE found[<<a, s>>] # {}
        BY <2>5, <4>1, <4>3 DEF TaskReturns, TaggingRaises
      <4>4. CASE found[<<a, s>>] = {}
        BY <2>5, <4>1, <4>2, <4>4 DEF TaskReturns, TaggingRaises
      <4> QED BY <4>3, <4>4
    <3>2. CASE <<b, q>> # <<a, s>>
      <4>1. task[<<b, q>>] = "done"
        BY <2>5, <3>2 DEF TaskReturns
      <4>2. clean' = clean /\ stored \subseteq stored' /\ failures \subseteq failures'
        BY <2>5 DEF TaskReturns
      <4> QED BY <4>1, <4>2
    <3> QED BY <3>1, <3>2
  <2> QED BY <1>2, <2>1, <2>2, <2>3, <2>4, <2>5 DEF Service
<1>3. ASSUME NEW x \in Accounts \cup Tasks, LateFailure(x)
      PROVE  /\ UNCHANGED <<task, clean, stored>>
             /\ failures \subseteq failures'
  BY <1>3 DEF LateFailure, WritesBeside
<1>6. ASSUME ScpScanFails
      PROVE  /\ UNCHANGED <<task, clean, stored>>
             /\ failures \subseteq failures'
  BY <1>6 DEF ScpScanFails, WritesBeside
<1>4. CASE End
  BY <1>4 DEF End, MapEnds, MapFails, FinishJob, FailJob
<1>5. CASE UNCHANGED vars
  BY <1>5 DEF vars
<1> QED BY <1>1, <1>2, <1>3, <1>4, <1>5, <1>6 DEF Next

\* A refusal writes its record in the same invocation, and records stay.
LEMMA RefusedStep == ScanInv /\ [Next]_vars => RefusedRecorded'
<1> SUFFICES ASSUME ScanInv, [Next]_vars PROVE RefusedRecorded'
  OBVIOUS
<1> USE DEF ScanInv, TypeOK, scanVars, outcome, RefusedRecorded
<1>1. ASSUME NEW a \in Accounts, Validation(a) PROVE RefusedRecorded'
  BY <1>1 DEF Validation, StartAccount, AccessGranted, AccessRefused,
     ValidationRaises, ValidationLost
<1>2. ASSUME NEW a \in Accounts, NEW s \in Services, Service(a, s)
      PROVE  access' = access /\ failures \subseteq failures'
  BY <1>2 DEF Service, StartTask, UnsupportedService, ScanRegion, RegionFails,
     TaskClientError, TaskRaises, TaskReturns, TaskLost, EndsWithFailure
<1>3. ASSUME NEW x \in Accounts \cup Tasks, LateFailure(x)
      PROVE  access' = access /\ failures \subseteq failures'
  BY <1>3 DEF LateFailure, WritesBeside
<1>6. ASSUME ScpScanFails
      PROVE  access' = access /\ failures \subseteq failures'
  BY <1>6 DEF ScpScanFails, WritesBeside
<1>4. CASE End
  BY <1>4 DEF End, MapEnds, MapFails, FinishJob, FailJob
<1>5. CASE UNCHANGED vars
  BY <1>5 DEF vars
<1> QED BY <1>1, <1>2, <1>3, <1>4, <1>5, <1>6 DEF Next

\* Only an account whose access was granted has tasks under way, and a granted
\* account stays so.
LEMMA GrantedStep == ScanInv /\ [Next]_vars => GrantedFirst'
<1> SUFFICES ASSUME ScanInv, [Next]_vars PROVE GrantedFirst'
  OBVIOUS
<1> USE DEF ScanInv, TypeOK, scanVars, outcome, GrantedFirst
<1>1. ASSUME NEW a \in Accounts, Validation(a) PROVE GrantedFirst'
  <2>1. /\ task' = task
        /\ access[a] # "granted"
    BY <1>1 DEF Validation, StartAccount, AccessGranted, AccessRefused,
       ValidationRaises, ValidationLost
  <2>2. access' = [access EXCEPT ![a] = access'[a]]
    BY <1>1 DEF Validation, StartAccount, AccessGranted, AccessRefused,
       ValidationRaises, ValidationLost
  <2>3. \A b \in Accounts : access[b] = "granted" => access'[b] = "granted"
    BY <2>1, <2>2
  <2> QED BY <2>1, <2>3
<1>2. ASSUME NEW a \in Accounts, NEW s \in Services, Service(a, s) PROVE GrantedFirst'
  <2>1. access' = access
    BY <1>2 DEF Service, StartTask, UnsupportedService, ScanRegion, RegionFails,
       TaskClientError, TaskRaises, TaskReturns, TaskLost, EndsWithFailure
  <2>2. access[a] = "granted"
    BY <1>2 DEF Service, StartTask, UnsupportedService, ScanRegion, RegionFails,
       TaskClientError, TaskRaises, TaskReturns, TaskLost
  <2>3. \E p \in {"running", "done", "failed"} :
          task' = task \/ task' = [task EXCEPT ![<<a, s>>] = p]
    BY <1>2 DEF Service, StartTask, UnsupportedService, ScanRegion, RegionFails,
       TaskClientError, TaskRaises, TaskReturns, TaskLost, EndsWithFailure
  <2>4. ASSUME NEW b \in Accounts, NEW z \in Services, b # a
        PROVE  task'[<<b, z>>] = task[<<b, z>>]
    <3>1. <<b, z>> \in Tasks /\ <<b, z>> # <<a, s>>
      BY <2>4 DEF Tasks
    <3> QED BY <2>3, <3>1
  <2> QED BY <2>1, <2>2, <2>4
<1>3. ASSUME NEW x \in Accounts \cup Tasks, LateFailure(x) PROVE GrantedFirst'
  BY <1>3 DEF LateFailure, WritesBeside
<1>6. ASSUME ScpScanFails
      PROVE GrantedFirst'
  BY <1>6 DEF ScpScanFails, WritesBeside
<1>4. ASSUME End PROVE UNCHANGED <<access, task>>
  BY <1>4 DEF End, MapEnds, MapFails, FinishJob, FailJob
<1>5. CASE UNCHANGED vars
  BY <1>5 DEF vars
<1> QED BY <1>1, <1>2, <1>3, <1>4, <1>5, <1>6 DEF Next

\* Once the map has ended well no invocation is under way, so that nothing
\* disturbs the ended iterations.
LEMMA EndedStep == ScanInv /\ [Next]_vars => IterationsEnded'
<1> SUFFICES ASSUME ScanInv, [Next]_vars PROVE IterationsEnded'
  OBVIOUS
<1> USE DEF ScanInv, TypeOK, scanVars, outcome, IterationsEnded
<1>1. ASSUME NEW a \in Accounts, Validation(a) PROVE IterationsEnded'
  BY <1>1 DEF Validation, StartAccount, AccessGranted, AccessRefused,
     ValidationRaises, ValidationLost
<1>2. ASSUME NEW a \in Accounts, NEW s \in Services, Service(a, s) PROVE IterationsEnded'
  <2>1. UNCHANGED <<access, machine>>
    BY <1>2 DEF Service, StartTask, UnsupportedService, ScanRegion, RegionFails,
       TaskClientError, TaskRaises, TaskReturns, TaskLost, EndsWithFailure
  <2>2. \/ machine = "mapping"
        \/ task[<<a, s>>] = "running"
    BY <1>2 DEF Service, StartTask, UnsupportedService, ScanRegion, RegionFails,
       TaskClientError, TaskRaises, TaskReturns, TaskLost
  <2>3. CASE machine = "mapping"
    BY <2>1, <2>3
  <2>4. CASE task[<<a, s>>] = "running"
    <3>1. access[a] = "granted"
      BY <2>4 DEF GrantedFirst
    <3> QED BY <2>1, <2>4, <3>1
  <2> QED BY <2>2, <2>3, <2>4
<1>3. ASSUME NEW x \in Accounts \cup Tasks, LateFailure(x) PROVE IterationsEnded'
  BY <1>3 DEF LateFailure, WritesBeside
<1>6. ASSUME ScpScanFails
      PROVE IterationsEnded'
  BY <1>6 DEF ScpScanFails, WritesBeside
<1>4. CASE End
  BY <1>4 DEF End, MapEnds, MapFails, FinishJob, FailJob
<1>5. CASE UNCHANGED vars
  BY <1>5 DEF vars
<1> QED BY <1>1, <1>2, <1>3, <1>4, <1>5, <1>6 DEF Next

\* ScanInv is an inductive invariant of the execution: whatever faults happen,
\* each place a task is responsible for is accounted for at every moment.
THEOREM ScanInvariant == Spec => []ScanInv
<1>1. ScanInv /\ [Next]_vars => ScanInv'
  BY ScanTypeStep, RunningStep, DoneStep, RefusedStep, GrantedStep, EndedStep DEF ScanInv
<1> QED BY ScanInvInit, <1>1, PTL DEF Spec

\* Every variable keeps its type in every execution.
THEOREM ScanTypes == Spec => []TypeOK
<1>1. ScanInv => TypeOK
  BY DEF ScanInv
<1> QED BY ScanInvariant, <1>1, PTL

\* When all iterations have ended their accounts settle all places.
LEMMA EndedSettles == ScanInv => NothingSkippedSilently
BY DEF ScanInv, NothingSkippedSilently, IterationsEnded, DoneAccounted,
   RefusedRecorded, Settled, Places

\* Every place is settled when the execution has succeeded, whatever failed,
\* was retried or went on late.
THEOREM NothingSkipped == Spec => []NothingSkippedSilently
BY ScanInvariant, EndedSettles, PTL

\* An iteration that ended with an error.
IterationFailed ==
  \/ \E a \in Accounts : access[a] = "failed"
  \/ \E t \in Tasks : task[t] = "failed"

\* The execution is on its way to a failure only after such an iteration, and the
\* verdict is the one of its end.
ErrorInv ==
  /\ machine \in {"failing", "failed"} => IterationFailed
  /\ verdict = "FAILED" => machine = "failed"
  /\ verdict \in {"SUCCEEDED", "SUCCEEDED_WITH_FAILED_TASKS"} => machine = "succeeded"

\* A failed iteration stays failed, and only the end changes machine and verdict.
LEMMA ErrorInvStep ==
  ASSUME ScanInv, ErrorInv, [Next]_vars
  PROVE  ErrorInv'
<1> USE ScanAssumption DEF ScanInv, TypeOK, scanVars, outcome
<1>1. ASSUME UNCHANGED <<machine, verdict>>, IterationFailed => IterationFailed'
      PROVE  ErrorInv'
  BY <1>1 DEF ErrorInv
<1>2. ASSUME NEW a \in Accounts, Validation(a) PROVE ErrorInv'
  <2>1. UNCHANGED <<machine, verdict, task>>
    BY <1>2 DEF Validation, StartAccount, AccessGranted, AccessRefused,
       ValidationRaises, ValidationLost
  <2>2. \A b \in Accounts : access[b] = "failed" => access'[b] = "failed"
    BY <1>2 DEF Validation, StartAccount, AccessGranted, AccessRefused,
       ValidationRaises, ValidationLost
  <2> QED BY <1>1, <2>1, <2>2 DEF IterationFailed
<1>3. ASSUME NEW a \in Accounts, NEW s \in Services, Service(a, s) PROVE ErrorInv'
  <2>1. UNCHANGED <<machine, verdict, access>>
    BY <1>3 DEF Service, StartTask, UnsupportedService, ScanRegion, RegionFails,
       TaskClientError, TaskRaises, TaskReturns, TaskLost, EndsWithFailure
  <2>2. \A t \in Tasks : task[t] = "failed" => task'[t] = "failed"
    BY <1>3 DEF Service, StartTask, UnsupportedService, ScanRegion, RegionFails,
       TaskClientError, TaskRaises, TaskReturns, TaskLost, EndsWithFailure
  <2> QED BY <1>1, <2>1, <2>2 DEF IterationFailed
<1>4. ASSUME NEW x \in Accounts \cup Tasks, LateFailure(x) PROVE ErrorInv'
  BY <1>1, <1>4 DEF LateFailure, WritesBeside, IterationFailed
<1>7. CASE ScpScanFails
  BY <1>1, <1>7 DEF ScpScanFails, WritesBeside, IterationFailed
<1>5. CASE End
  <2>1. UNCHANGED <<access, task>>
    BY <1>5 DEF End, MapEnds, MapFails, FinishJob, FailJob
  <2>2. IterationFailed' <=> IterationFailed
    BY <2>1 DEF IterationFailed
  <2>3. CASE MapEnds
    BY <2>3 DEF MapEnds, ErrorInv
  <2>4. CASE MapFails
    BY <2>2, <2>4 DEF MapFails, ErrorInv, IterationFailed
  <2>5. CASE FinishJob
    BY <2>5 DEF FinishJob, FinishStatus, ErrorInv
  <2>6. CASE FailJob
    BY <2>2, <2>6 DEF FailJob, FinishStatus, ErrorInv
  <2> QED BY <1>5, <2>3, <2>4, <2>5, <2>6 DEF End
<1>6. CASE UNCHANGED vars
  BY <1>1, <1>6 DEF vars, IterationFailed
<1> QED BY <1>2, <1>3, <1>4, <1>5, <1>6, <1>7 DEF Next

\* A job is reported FAILED exactly when its execution ended because an iteration
\* failed, with every fault, late invocations included.
THEOREM FailureHasCause == Spec => []FailedOnlyByError
<1>1. Init => ErrorInv
  BY ScanAssumption DEF Init, ErrorInv
<1>2. ScanInv /\ ErrorInv => FailedOnlyByError
  <2> SUFFICES ASSUME ScanInv, ErrorInv PROVE FailedOnlyByError
    OBVIOUS
  <2>1. verdict = "FAILED" => IterationFailed
    BY DEF ErrorInv
  <2>2. verdict \in {"SUCCEEDED", "SUCCEEDED_WITH_FAILED_TASKS"} => ~IterationFailed
    <3> SUFFICES ASSUME machine = "succeeded" PROVE ~IterationFailed
      BY DEF ErrorInv
    <3>1. \A a \in Accounts : access[a] \in {"refused", "granted"}
      BY DEF ScanInv, IterationsEnded
    <3>2. \A a \in Accounts, s \in Services : task[<<a, s>>] \in {"queued", "done"}
      BY DEF ScanInv, IterationsEnded, GrantedFirst
    <3> QED BY <3>1, <3>2 DEF IterationFailed, Tasks
  <2> QED BY <2>1, <2>2 DEF FailedOnlyByError, IterationFailed
<1> QED BY ScanInvariant, ErrorInvStep, <1>1, <1>2, PTL DEF Spec

-----------------------------------------------------------------------------
(* What the verdict says of the failure records. *)

\* The verdict goes with the final state of the execution, and only writers beside
\* it add failure records to a clean report.
VerdictInv ==
  /\ machine = "failed" <=> verdict = "FAILED"
  /\ machine = "succeeded" <=> verdict \in {"SUCCEEDED", "SUCCEEDED_WITH_FAILED_TASKS"}
  /\ UnreportedFailures

\* Initially there is no verdict.
LEMMA VerdictInvInit == Init => VerdictInv
BY ScanAssumption DEF Init, VerdictInv, UnreportedFailures

\* No invocation that the execution waits for writes a failure record after the
\* finish handler has counted them.
LEMMA VerdictInvStep ==
  ASSUME ScanInv, VerdictInv, [Next]_vars
  PROVE  VerdictInv'
<1> USE ScanAssumption DEF ScanInv, TypeOK, scanVars, outcome, VerdictInv, UnreportedFailures
<1>1. ASSUME NEW a \in Accounts, Validation(a) PROVE VerdictInv'
  <2>1. UNCHANGED <<machine, outcome>>
    BY <1>1 DEF Validation, StartAccount, AccessGranted, AccessRefused,
       ValidationRaises, ValidationLost
  <2>3. machine = "mapping" \/ access[a] = "validating"
    BY <1>1 DEF Validation, StartAccount, AccessGranted, AccessRefused,
       ValidationRaises, ValidationLost
  <2>4. CASE machine = "mapping"
    BY <2>1, <2>4
  <2>5. CASE access[a] = "validating"
    <3>1. machine # "succeeded"
      BY <2>5 DEF IterationsEnded
    <3> QED BY <2>1, <3>1
  <2> QED BY <2>3, <2>4, <2>5
<1>2. ASSUME NEW a \in Accounts, NEW s \in Services, Service(a, s) PROVE VerdictInv'
  <2>1. UNCHANGED <<machine, outcome>>
    BY <1>2 DEF Service, StartTask, UnsupportedService, ScanRegion, RegionFails,
       TaskClientError, TaskRaises, TaskReturns, TaskLost, EndsWithFailure
  <2>3. machine = "mapping" \/ task[<<a, s>>] = "running"
    BY <1>2 DEF Service, StartTask, UnsupportedService, ScanRegion, RegionFails,
       TaskClientError, TaskRaises, TaskReturns, TaskLost
  <2>4. CASE machine = "mapping"
    BY <2>1, <2>4
  <2>5. CASE task[<<a, s>>] = "running"
    <3>1. machine # "succeeded"
      BY <2>5 DEF IterationsEnded, GrantedFirst
    <3> QED BY <2>1, <3>1
  <2> QED BY <2>3, <2>4, <2>5
<1>3. ASSUME NEW x \in Accounts \cup Tasks, LateFailure(x) PROVE VerdictInv'
  BY <1>3 DEF LateFailure, WritesBeside
<1>6. ASSUME ScpScanFails
      PROVE VerdictInv'
  BY <1>6 DEF ScpScanFails, WritesBeside
<1>4. CASE End
  <2>1. CASE MapEnds
    BY <2>1 DEF MapEnds
  <2>2. CASE MapFails
    BY <2>2 DEF MapFails
  <2>3. CASE FinishJob
    BY <2>3 DEF FinishJob, FinishStatus
  <2>4. CASE FailJob
    BY <2>4 DEF FailJob, FinishStatus
  <2> QED BY <1>4, <2>1, <2>2, <2>3, <2>4 DEF End
<1>5. CASE UNCHANGED vars
  BY <1>5 DEF vars
<1> QED BY <1>1, <1>2, <1>3, <1>4, <1>5, <1>6 DEF Next

\* What the report of a job does not say: a job is only reported as succeeded
\* without qualification beside failure records that the query did not show or that
\* were written beside the execution afterwards, with every fault.
THEOREM CleanSuccess == Spec => []UnreportedFailures
<1>1. ScanInv /\ VerdictInv /\ [Next]_vars => VerdictInv'
  BY VerdictInvStep
<1>2. VerdictInv => UnreportedFailures
  BY DEF VerdictInv
<1> QED BY ScanInvariant, VerdictInvInit, <1>1, <1>2, PTL DEF Spec

-----------------------------------------------------------------------------
(* With no invocation outliving its answer and no lagging query. *)

\* Nothing is late or missed, and only the scan beside the execution is tardy.
CurrentInv ==
  /\ late = {}
  /\ missed = {}
  /\ tardy \subseteq {ScpFailure}

\* Only the faults "late" and "lag" leave anything late or missed.
LEMMA CurrentStep ==
  ASSUME "late" \notin Faults, "lag" \notin Faults, CurrentInv, [Next]_vars
  PROVE  CurrentInv'
<1> USE DEF CurrentInv, scanVars, outcome
<1>1. ASSUME NEW a \in Accounts, Validation(a)
      PROVE  UNCHANGED <<late, missed, tardy>>
  BY <1>1 DEF Validation, StartAccount, AccessGranted, AccessRefused,
     ValidationRaises, ValidationLost, StillRunning
<1>2. ASSUME NEW a \in Accounts, NEW s \in Services, Service(a, s)
      PROVE  UNCHANGED <<late, missed, tardy>>
  BY <1>2 DEF Service, StartTask, UnsupportedService, ScanRegion, RegionFails,
     TaskClientError, TaskRaises, TaskReturns, TaskLost, EndsWithFailure, StillRunning
<1>3. ASSUME NEW x \in Accounts \cup Tasks, LateFailure(x) PROVE FALSE
  BY <1>3 DEF LateFailure
<1>4. CASE ScpScanFails
  BY <1>4 DEF ScpScanFails, WritesBeside
<1>5. CASE End
  BY <1>5 DEF End, MapEnds, MapFails, FinishJob, FailJob, Hidden
<1>6. CASE UNCHANGED vars
  BY <1>6 DEF vars
<1> QED BY <1>1, <1>2, <1>3, <1>4, <1>5, <1>6 DEF Next

\* A settled place stays settled.
LEMMA SettledStays ==
  ASSUME ScanInv, [Next]_vars, NEW p \in Places, Settled(p)
  PROVE  Settled(p)'
<1> USE DEF ScanInv, TypeOK, scanVars, outcome, Settled
<1> DEFINE a0 == p[1]
           t0 == <<p[1], p[2]>>
<1> a0 \in Accounts /\ t0 \in Tasks
  BY DEF Places, Tasks
<1> SUFFICES /\ access[a0] = "refused" => access'[a0] = "refused"
             /\ task[t0] = "done" => task'[t0] = "done"
             /\ clean \subseteq clean' /\ stored \subseteq stored'
             /\ failures \subseteq failures'
  OBVIOUS
<1>1. ASSUME NEW a \in Accounts, Validation(a)
      PROVE  /\ access[a0] = "refused" => access'[a0] = "refused"
             /\ UNCHANGED <<task, clean, stored>> /\ failures \subseteq failures'
  BY <1>1 DEF Validation, StartAccount, AccessGranted, AccessRefused,
     ValidationRaises, ValidationLost
<1>2. ASSUME NEW a \in Accounts, NEW s \in Services, Service(a, s)
      PROVE  /\ access' = access
             /\ task[t0] = "done" => task'[t0] = "done"
             /\ clean \subseteq clean' /\ stored \subseteq stored'
             /\ failures \subseteq failures'
  BY <1>2 DEF Service, StartTask, UnsupportedService, ScanRegion, RegionFails,
     TaskClientError, TaskRaises, TaskReturns, TaskLost, EndsWithFailure
<1>3. ASSUME NEW x \in Accounts \cup Tasks, LateFailure(x)
      PROVE  /\ UNCHANGED <<access, task, clean, stored>>
             /\ failures \subseteq failures'
  BY <1>3 DEF LateFailure, WritesBeside
<1>6. ASSUME ScpScanFails
      PROVE  /\ UNCHANGED <<access, task, clean, stored>>
             /\ failures \subseteq failures'
  BY <1>6 DEF ScpScanFails, WritesBeside
<1>4. ASSUME End PROVE UNCHANGED <<access, task, clean, stored, failures>>
  BY <1>4 DEF End, MapEnds, MapFails, FinishJob, FailJob
<1>5. CASE UNCHANGED vars
  BY <1>5 DEF vars
<1> QED BY <1>1, <1>2, <1>3, <1>4, <1>5, <1>6 DEF Next

\* Only the two invocations of the finish handler set the verdict, and no step
\* removes a failure record.
LEMMA VerdictStays ==
  ASSUME [Next]_vars, ~FinishJob, ~FailJob
  PROVE  verdict' = verdict /\ failures \subseteq failures'
<1> USE DEF scanVars, outcome
<1>1. ASSUME NEW a \in Accounts, Validation(a)
      PROVE  verdict' = verdict /\ failures \subseteq failures'
  BY <1>1 DEF Validation, StartAccount, AccessGranted, AccessRefused,
     ValidationRaises, ValidationLost
<1>2. ASSUME NEW a \in Accounts, NEW s \in Services, Service(a, s)
      PROVE  verdict' = verdict /\ failures \subseteq failures'
  BY <1>2 DEF Service, StartTask, UnsupportedService, ScanRegion, RegionFails,
     TaskClientError, TaskRaises, TaskReturns, TaskLost, EndsWithFailure
<1>3. ASSUME NEW x \in Accounts \cup Tasks, LateFailure(x)
      PROVE  verdict' = verdict /\ failures \subseteq failures'
  BY <1>3 DEF LateFailure, WritesBeside
<1>6. ASSUME ScpScanFails
      PROVE  verdict' = verdict /\ failures \subseteq failures'
  BY <1>6 DEF ScpScanFails, WritesBeside
<1>4. ASSUME End PROVE UNCHANGED <<verdict, failures>>
  BY <1>4 DEF End, MapEnds, MapFails
<1>5. CASE UNCHANGED vars
  BY <1>5 DEF vars
<1> QED BY <1>1, <1>2, <1>3, <1>4, <1>5, <1>6 DEF Next

\* The execution implements the abstract report: its places are settled and
\* never reopened, and its verdict is the one the report allows.
THEOREM ReportsFaithfully ==
  ASSUME "late" \notin Faults, "lag" \notin Faults
  PROVE  Spec => Report!Init /\ [][Report!Next]_(Report!vars)
<1>1. Init => Report!Init
  <2> SUFFICES ASSUME Init PROVE Report!Init
    OBVIOUS
  <2>1. \A p \in Places : ~Settled(p)
    BY DEF Init, Settled, Places, Tasks
  <2> QED BY <2>1 DEF Report!Init, Init
<1>2. ASSUME ScanInv, VerdictInv, CurrentInv, [Next]_vars
      PROVE  [Report!Next]_(Report!vars)
  <2> USE DEF ScanInv, TypeOK
  <2>1. {p \in Places : ~Settled(p)}' \subseteq {p \in Places : ~Settled(p)}
    BY <1>2, SettledStays
  <2>2. CASE FinishJob
    <3>1. {p \in Places : ~Settled(p)} = {}
      BY <1>2, <2>2, EndedSettles DEF FinishJob, NothingSkippedSilently
    <3>2. verdict = None
      BY <1>2, <2>2 DEF FinishJob, VerdictInv
    <3>3. {p \in Places : ~Settled(p)}' = {p \in Places : ~Settled(p)}
      BY <2>1, <3>1
    <3>4. failures' = failures
      BY <2>2 DEF FinishJob
    <3>5. verdict' = IF failures # {} THEN "SUCCEEDED_WITH_FAILED_TASKS" ELSE "SUCCEEDED"
      BY <1>2, <2>2 DEF FinishJob, FinishStatus, Hidden
    <3> QED BY <3>1, <3>2, <3>3, <3>4, <3>5 DEF Report!Next, Report!Report
  <2>3. CASE FailJob
    <3>1. verdict = None /\ verdict' = "FAILED" /\ failures' = failures
      BY <1>2, <2>3 DEF FailJob, VerdictInv, FinishStatus
    <3>2. {p \in Places : ~Settled(p)}' = {p \in Places : ~Settled(p)}
      BY <2>3 DEF FailJob, scanVars, Settled
    <3> QED BY <3>1, <3>2 DEF Report!Next, Report!Report
  <2>4. CASE ~FinishJob /\ ~FailJob
    <3>1. verdict' = verdict /\ failures \subseteq failures'
      BY <1>2, <2>4, VerdictStays
    <3>2. VerdictInv' /\ CurrentInv'
      BY <1>2, VerdictInvStep, CurrentStep
    <3>3. verdict = "SUCCEEDED" =>
            /\ failures \ {ScpFailure} = {}
            /\ failures' \ {ScpFailure} = {}
      BY <1>2, <3>1, <3>2 DEF VerdictInv, CurrentInv, UnreportedFailures
    <3> DEFINE trouble == failures \ {ScpFailure} # {}
               apart == ScpFailure \in failures
    <3>4. trouble => trouble'
      BY <3>1
    <3>5. apart => apart'
      BY <3>1
    <3>6. verdict = "SUCCEEDED" => trouble' = trouble
      BY <3>3
    <3>7. trouble \in BOOLEAN /\ trouble' \in BOOLEAN /\ apart \in BOOLEAN /\ apart' \in BOOLEAN
      OBVIOUS
    <3> QED BY <2>1, <3>1, <3>4, <3>5, <3>6, <3>7 DEF Report!Next, Report!Settle
  <2> QED BY <2>2, <2>3, <2>4
<1>3. ScanInv /\ VerdictInv /\ [Next]_vars => VerdictInv'
  BY VerdictInvStep
<1>4. CurrentInv /\ [Next]_vars => CurrentInv'
  BY CurrentStep
<1>5. Init => CurrentInv
  BY DEF Init, CurrentInv
<1> QED BY ScanInvariant, VerdictInvInit, <1>1, <1>2, <1>3, <1>4, <1>5, PTL DEF Spec
=============================================================================
