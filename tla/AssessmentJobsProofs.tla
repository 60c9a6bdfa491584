------------------------ MODULE AssessmentJobsProofs ------------------------
(***************************************************************************)
(* Theorems about AssessmentJobs for every number of types, jobs, deletion *)
(* requests and attempts.                                                  *)
(***************************************************************************)
EXTENDS AssessmentJobs, TLAPS

\* The empty table and the idle invocations are of their types.
LEMMA TypeOKInit == Init => TypeOK
BY ConstantsAssumption DEF Init, TypeOK, JobStatus, RunnerSteps, ExecSteps, DelSteps

\* A delete request in progress works on a job.
DeleteHasJob ==
  \A d \in Deleters : Deleting(d) => del[d].job \in Jobs

\* No call of an invocation, crash, retry or expiry leaves the types.
LEMMA TypeOKStep == TypeOK /\ DeleteHasJob /\ [Next]_vars => TypeOK'
<1> USE ConstantsAssumption
<1> SUFFICES ASSUME TypeOK, DeleteHasJob, [Next]_vars PROVE TypeOK'
  OBVIOUS
<1> USE DEF TypeOK, table, runnerVars, execVars, notes, Enters
<1>1. ASSUME NEW i \in Jobs, StartScan(i) PROVE TypeOK'
  BY <1>1 DEF StartScan, RunnerSteps, CreateSteps
<1>2. ASSUME NEW i \in Jobs, PutJob(i) PROVE TypeOK'
  BY <1>2 DEF PutJob, JobPuts, RunnerSteps, CreateSteps, FinishSteps, JobStatus
<1>3. ASSUME NEW i \in Jobs, PutMarker(i) PROVE TypeOK'
  BY <1>3 DEF PutMarker, MarkerPuts, RunnerSteps, CreateSteps, FinishSteps,
              ScanSteps, Marker, MarkerFor
<1>4. ASSUME NEW i \in Jobs, RunnerStep(i) PROVE TypeOK'
  <2>1. CASE ScanReturns(i)
    BY <2>1 DEF ScanReturns, RunnerSteps, ScanSteps
  <2>2. CASE WriteBatch(i)
    BY <2>2 DEF WriteBatch
  <2>3. CASE WriteLastBatch(i)
    BY <2>3 DEF WriteLastBatch, RunnerSteps, FinishSteps, JobStatus
  <2>4. CASE StartExecution(i)
    BY <2>4 DEF StartExecution, RunnerSteps, ScanSteps, ExecSteps
  <2>5. CASE ScpScanReturns(i) \/ ScpScanFails(i) \/ WriteScpFailure(i)
    BY <2>5 DEF ScpScanReturns, ScpScanFails, WriteScpFailure, RunnerSteps, ScanSteps
  <2>6. CASE ScanRaises(i)
    BY <2>6 DEF ScanRaises, RunnerSteps, FinishSteps, JobStatus
  <2> QED BY <1>2, <1>3, <1>4, <2>1, <2>2, <2>3, <2>4, <2>5, <2>6 DEF RunnerStep
<1>5. ASSUME NEW i \in Jobs, RunnerCrashes(i) PROVE TypeOK'
  BY <1>5 DEF RunnerCrashes, RunnerSteps
<1>6. ASSUME NEW i \in Jobs, ExecStep(i) PROVE TypeOK'
  <2>1. CASE TaskFails(i)
    BY <2>1 DEF TaskFails
  <2>2. ASSUME NEW r \in {"SUCCEEDED", "FAILED"}, ScanEnds(i, r) PROVE TypeOK'
    BY <2>2 DEF ScanEnds, ExecSteps
  <2>3. CASE FinishReads(i) \/ FinishFindsNoJob(i)
    BY <2>3 DEF FinishReads, FinishFindsNoJob, FinishVerdicts, ExecSteps, FinishSteps, JobStatus
  <2>4. CASE FinishPutsJob(i)
    BY <2>4 DEF FinishPutsJob, JobPuts, ExecSteps, FinishSteps, JobStatus
  <2>5. CASE FinishPutsMarker(i)
    BY <2>5 DEF FinishPutsMarker, MarkerPuts, ExecSteps, FinishSteps, Marker, MarkerFor
  <2> QED BY <1>6, <2>1, <2>2, <2>3, <2>4, <2>5 DEF ExecStep
<1>7. ASSUME NEW i \in Jobs, FinishRetried(i) \/ FinishCrashes(i) PROVE TypeOK'
  BY <1>7 DEF FinishRetried, FinishCrashes, ExecSteps
<1>8. ASSUME NEW i \in Jobs, ExpireJob(i) \/ ExpireFindings(i) PROVE TypeOK'
  BY <1>8 DEF ExpireJob, ExpireFindings
<1>9. ASSUME NEW d \in Deleters, NEW i \in Jobs, DeleteGetsJob(d, i) PROVE TypeOK'
  BY <1>9 DEF DeleteGetsJob, DelSteps
<1>10. ASSUME NEW d \in Deleters, DeleteStep(d) PROVE TypeOK'
  <2>1. CASE DeleteSomeFindings(d)
    BY <2>1 DEF DeleteSomeFindings, DelSteps
  <2>2. CASE DeleteLastFindings(d)
    <3>1. del[d].job \in Jobs
      BY <2>2 DEF DeleteLastFindings, DeleteHasJob, Deleting
    <3>2. findings' \in [Jobs -> {"none", "partial", "complete"}]
      BY <2>2 DEF DeleteLastFindings
    <3>3. missed' \subseteq Jobs
      BY <2>2, <3>1 DEF DeleteLastFindings
    <3>4. del' \in [Deleters -> [step : DelSteps, job : Jobs \cup {NoJob}]]
      BY <2>2 DEF DeleteLastFindings, GoTo, DelSteps
    <3> QED BY <2>2, <3>2, <3>3, <3>4 DEF DeleteLastFindings
  <2>3. CASE DeleteReadsMarker(d)
    BY <2>3 DEF DeleteReadsMarker, GoTo, DelSteps
  <2>4. CASE DeleteMarker(d)
    BY <2>4 DEF DeleteMarker, GoTo, DelSteps
  <2>5. CASE DeleteItem(d)
    BY <2>5 DEF DeleteItem, EndDelete, DelSteps
  <2> QED BY <1>10, <2>1, <2>2, <2>3, <2>4, <2>5 DEF DeleteStep
<1>11. ASSUME NEW d \in Deleters, DeleteRaises(d) \/ DeleteCrashes(d) PROVE TypeOK'
  BY <1>11 DEF DeleteRaises, DeleteCrashes, EndDelete, DelSteps
<1>12. ASSUME NEW t \in Types, ExpireMarker(t) PROVE TypeOK'
  BY <1>12 DEF ExpireMarker
<1>13. CASE UNCHANGED vars
  BY <1>13 DEF vars
<1> QED BY <1>1, <1>4, <1>5, <1>6, <1>7, <1>8, <1>9, <1>10, <1>11, <1>12, <1>13 DEF Next, Continue

-----------------------------------------------------------------------------
(***************************************************************************)
(* The life of one job, under every fault and interleaving.                *)
(***************************************************************************)
NotStarted == {"idle", "rejected"}

\* Until its runner has put the job item there is none, no execution, no
\* finished status anywhere, and no deletion can have got hold of it.
BeforeCreation ==
  \A i \in Jobs :
    /\ pc[i] \in NotStarted \cup {"job1"} => jobs[i] = "absent"
    /\ pc[i] \in NotStarted \cup CreateSteps =>
         /\ exec[i] = "none"
         /\ jobs[i] \notin Finished
         /\ ~ (marker[TypeOf[i]].JobId = i /\ marker[TypeOf[i]].JobStatus \in Finished)
         /\ \A d \in Deleters : del[d].job # i
    /\ pc[i] \in {"scan", "write"} => exec[i] = "none"

\* The runner writes ACTIVE while it creates the job and a finished status
\* afterwards; the finish handler writes finished statuses only.
StatusWritten ==
  \A i \in Jobs :
    /\ pc[i] \in NotStarted \cup CreateSteps => status[i] = "ACTIVE"
    /\ pc[i] \in FinishSteps => status[i] \in Finished
    /\ exec[i] \in FinishSteps => verdict[i] \in Finished

\* Once its finisher has put the job item, the job is not ACTIVE any more.
AfterFinishing ==
  \A i \in Jobs :
    /\ pc[i] \in {"scp", "scpFailed"} => exec[i] # "none"
    /\ pc[i] = "end" /\ exec[i] = "none" => jobs[i] # "ACTIVE"
    /\ pc[i] \in {"fjob2", "fmark1", "fmark2"} => jobs[i] # "ACTIVE"
    /\ exec[i] \in {"fjob2", "fmark1", "fmark2", "end"} => jobs[i] # "ACTIVE"

LifeInv ==
  /\ TypeOK
  /\ DeleteHasJob
  /\ BeforeCreation
  /\ StatusWritten
  /\ AfterFinishing
  /\ DeletingOnlyFinished
  /\ ActiveJobHasOwner

\* LifeInv holds in every state: what the theorems about one job rest on.
LEMMA LifeInvariant == Spec => []LifeInv
<1> USE ConstantsAssumption
<1>1. Init => LifeInv
  BY TypeOKInit DEF Init, LifeInv, DeleteHasJob, BeforeCreation, StatusWritten,
     AfterFinishing, DeletingOnlyFinished, ActiveJobHasOwner, Deleting,
     NotStarted, CreateSteps, ScanSteps, FinishSteps, Finished, JobStatus, NoMarker
<1>2. LifeInv /\ [Next]_vars => LifeInv'
  <2> SUFFICES ASSUME LifeInv, [Next]_vars PROVE LifeInv'
    OBVIOUS
  <2>0. TypeOK /\ TypeOK'
    BY TypeOKStep DEF LifeInv
  <2> USE <2>0 DEF LifeInv, TypeOK, table, runnerVars, execVars
  <2> USE DEF DeleteHasJob, BeforeCreation, StatusWritten, AfterFinishing,
              DeletingOnlyFinished, ActiveJobHasOwner, Deleting, NotStarted,
              CreateSteps, ScanSteps, FinishSteps, Finished, JobStatus
  <2>1. ASSUME NEW i \in Jobs, StartScan(i)
       PROVE  LifeInv'
    <3>1. DeleteHasJob'
      BY <2>1 DEF StartScan
    <3>2. BeforeCreation'
      BY <2>1 DEF StartScan
    <3>3. StatusWritten'
      BY <2>1 DEF StartScan
    <3>4. AfterFinishing'
      BY <2>1 DEF StartScan
    <3>5. DeletingOnlyFinished'
      BY <2>1 DEF StartScan
    <3>6. ActiveJobHasOwner'
      BY <2>1 DEF StartScan
    <3> QED BY <3>1, <3>2, <3>3, <3>4, <3>5, <3>6
  <2>2. ASSUME NEW i \in Jobs, PutJob(i)
       PROVE  LifeInv'
    BY <2>2 DEF PutJob, JobPuts
  <2>3. ASSUME NEW i \in Jobs, PutMarker(i)
       PROVE  LifeInv'
    BY <2>3 DEF PutMarker, MarkerPuts, MarkerFor
  <2>4. ASSUME NEW i \in Jobs, ScanReturns(i) \/ WriteBatch(i) \/ WriteLastBatch(i)
       PROVE  LifeInv'
    <3>1. CASE ScanReturns(i)
      BY <3>1 DEF ScanReturns
    <3>2. CASE WriteBatch(i)
      BY <3>2 DEF WriteBatch
    <3>3. CASE WriteLastBatch(i)
      BY <3>3 DEF WriteLastBatch
    <3> QED BY <2>4, <3>1, <3>2, <3>3
  <2>5. ASSUME NEW i \in Jobs, StartExecution(i)
       PROVE  LifeInv'
    BY <2>5 DEF StartExecution
  <2>6. ASSUME NEW i \in Jobs, ScpScanReturns(i) \/ ScpScanFails(i) \/ WriteScpFailure(i)
       PROVE  LifeInv'
    <3>1. CASE ScpScanReturns(i)
      BY <3>1 DEF ScpScanReturns, ExecSteps
    <3>2. CASE ScpScanFails(i)
      BY <3>2 DEF ScpScanFails, ExecSteps
    <3>3. CASE WriteScpFailure(i)
      BY <3>3 DEF WriteScpFailure, ExecSteps
    <3> QED BY <2>6, <3>1, <3>2, <3>3
  <2>7. ASSUME NEW i \in Jobs, ScanRaises(i) \/ RunnerCrashes(i)
       PROVE  LifeInv'
    <3>1. CASE ScanRaises(i)
      <4>1. /\ pc[i] \in ScanSteps \cup FinishSteps
            /\ pc' = [pc EXCEPT ![i] = "fjob1"] /\ status' = [status EXCEPT ![i] = "FAILED"]
            /\ UNCHANGED <<table, execVars, del>>
        BY <3>1 DEF ScanRaises
      <4> QED BY <4>1
    <3>2. CASE RunnerCrashes(i)
      BY <3>2 DEF RunnerCrashes
    <3> QED BY <2>7, <3>1, <3>2
  <2>8. ASSUME NEW i \in Jobs, TaskFails(i) \/ (\E r \in {"SUCCEEDED", "FAILED"} : ScanEnds(i, r))
       PROVE  LifeInv'
    BY <2>8 DEF TaskFails, ScanEnds
  <2>9. ASSUME NEW i \in Jobs, FinishReads(i) \/ FinishFindsNoJob(i)
       PROVE  LifeInv'
    BY <2>9 DEF FinishReads, FinishFindsNoJob, FinishVerdicts
  <2>10. ASSUME NEW i \in Jobs, FinishPutsJob(i)
       PROVE  LifeInv'
    <3>0. jobs' = [jobs EXCEPT ![i] = verdict[i]] /\ verdict[i] \in Finished /\ jobs'[i] # "ACTIVE"
      BY <2>10 DEF FinishPutsJob, JobPuts, ExecSteps
    <3>1. DeleteHasJob'
      BY <2>10 DEF FinishPutsJob, JobPuts
    <3>2. BeforeCreation'
      BY <2>10 DEF FinishPutsJob, JobPuts
    <3>3. StatusWritten'
      BY <2>10 DEF FinishPutsJob, JobPuts
    <3>4. AfterFinishing'
      BY <2>10, <3>0 DEF FinishPutsJob, JobPuts
    <3>5. DeletingOnlyFinished'
      BY <2>10, <3>0 DEF FinishPutsJob, JobPuts
    <3>6. ActiveJobHasOwner'
      BY <2>10, <3>0 DEF FinishPutsJob, JobPuts
    <3> QED BY <3>1, <3>2, <3>3, <3>4, <3>5, <3>6
  <2>11. ASSUME NEW i \in Jobs, FinishPutsMarker(i)
       PROVE  LifeInv'
    BY <2>11 DEF FinishPutsMarker, MarkerPuts, MarkerFor
  <2>12. ASSUME NEW i \in Jobs, FinishRetried(i) \/ FinishCrashes(i)
       PROVE  LifeInv'
    BY <2>12 DEF FinishRetried, FinishCrashes
  <2>13. ASSUME NEW i \in Jobs, ExpireJob(i) \/ ExpireFindings(i)
       PROVE  LifeInv'
    BY <2>13 DEF ExpireJob, ExpireFindings
  <2>14. ASSUME NEW d \in Deleters, NEW i \in Jobs, DeleteGetsJob(d, i)
       PROVE  LifeInv'
    BY <2>14 DEF DeleteGetsJob
  <2>15. ASSUME NEW d \in Deleters, DeleteSomeFindings(d) \/ DeleteLastFindings(d) \/ DeleteReadsMarker(d)
       PROVE  LifeInv'
    <3>1. CASE DeleteSomeFindings(d)
      BY <3>1 DEF DeleteSomeFindings
    <3>2. CASE DeleteLastFindings(d)
      BY <3>2 DEF DeleteLastFindings, GoTo
    <3>3. CASE DeleteReadsMarker(d)
      BY <3>3 DEF DeleteReadsMarker, GoTo
    <3> QED BY <2>15, <3>1, <3>2, <3>3
  <2>16. ASSUME NEW d \in Deleters, DeleteMarker(d)
       PROVE  LifeInv'
    BY <2>16 DEF DeleteMarker, GoTo, NoMarker
  <2>17. ASSUME NEW d \in Deleters, DeleteItem(d) \/ DeleteRaises(d) \/ DeleteCrashes(d)
       PROVE  LifeInv'
    <3>1. CASE DeleteItem(d)
      BY <3>1 DEF DeleteItem, EndDelete
    <3>2. CASE DeleteRaises(d)
      BY <3>2 DEF DeleteRaises, EndDelete
    <3>3. CASE DeleteCrashes(d)
      BY <3>3 DEF DeleteCrashes, EndDelete
    <3> QED BY <2>17, <3>1, <3>2, <3>3
  <2>18. ASSUME NEW t \in Types, ExpireMarker(t)
       PROVE  LifeInv'
    BY <2>18 DEF ExpireMarker, NoMarker
  <2>19. CASE UNCHANGED vars
    BY <2>19 DEF vars
  <2> QED BY <2>1, <2>2, <2>3, <2>4, <2>5, <2>6, <2>7, <2>8, <2>9, <2>10, <2>11, <2>12, <2>13, <2>14, <2>15, <2>16, <2>17, <2>18, <2>19
          DEF Next, Continue, RunnerStep, ExecStep, DeleteStep
<1> QED BY <1>1, <1>2, PTL DEF Spec

\* The stored items, counters and program counters keep their types.
THEOREM TypeCorrect == Spec => []TypeOK
BY LifeInvariant, PTL DEF LifeInv

\* No delete request ever works on a job whose item says ACTIVE.
THEOREM DeletionIsSafe == Spec => []DeletingOnlyFinished
BY LifeInvariant, PTL DEF LifeInv

\* An ACTIVE job always has a live finisher, or one that crashed.
THEOREM OwnedUntilFinished == Spec => []ActiveJobHasOwner
BY LifeInvariant, PTL DEF LifeInv

\* A finished job, and a marker that says so, never return to ACTIVE.
THEOREM NoReactivation == Spec => FinishedNeverReactivated
<1> DEFINE Kept(i) ==
      /\ jobs[i] \in Finished => jobs'[i] # "ACTIVE"
      /\ marker[TypeOf[i]].JobId = i /\ marker[TypeOf[i]].JobStatus \in Finished
           => marker'[TypeOf[i]] # MarkerFor(i, "ACTIVE")
<1>1. LifeInv /\ [Next]_vars => [\A i \in Jobs : Kept(i)]_vars
  <2> SUFFICES ASSUME LifeInv, Next, NEW i \in Jobs PROVE Kept(i)
    BY DEF vars
  <2> USE ConstantsAssumption DEF LifeInv, TypeOK
  <2>1. CASE UNCHANGED <<jobs, marker>>
    BY <2>1 DEF MarkerFor, Finished
  <2>2. ASSUME NEW j \in Jobs, PutJob(j) PROVE Kept(i)
    BY <2>2 DEF PutJob, JobPuts, BeforeCreation, StatusWritten, CreateSteps,
                FinishSteps, RunnerSteps, ScanSteps, Finished, MarkerFor
  <2>3. ASSUME NEW j \in Jobs, PutMarker(j) PROVE Kept(i)
    BY <2>3 DEF PutMarker, MarkerPuts, BeforeCreation, StatusWritten, CreateSteps,
                FinishSteps, RunnerSteps, ScanSteps, Finished, MarkerFor
  <2>4. ASSUME NEW j \in Jobs, FinishPutsJob(j) PROVE Kept(i)
    BY <2>4 DEF FinishPutsJob, JobPuts, StatusWritten, FinishSteps, ExecSteps,
                Finished, MarkerFor
  <2>5. ASSUME NEW j \in Jobs, FinishPutsMarker(j) PROVE Kept(i)
    BY <2>5 DEF FinishPutsMarker, MarkerPuts, StatusWritten, FinishSteps,
                ExecSteps, Finished, MarkerFor
  <2>6. ASSUME NEW j \in Jobs, ExpireJob(j) PROVE Kept(i)
    BY <2>6 DEF ExpireJob, Finished, MarkerFor
  <2>7. ASSUME NEW t \in Types, ExpireMarker(t) PROVE Kept(i)
    BY <2>7 DEF ExpireMarker, NoMarker, MarkerFor, Finished
  <2>8. ASSUME NEW d \in Deleters, DeleteMarker(d) PROVE Kept(i)
    BY <2>8 DEF DeleteMarker, NoMarker, MarkerFor, Finished
  <2>9. ASSUME NEW d \in Deleters, DeleteItem(d) PROVE Kept(i)
    BY <2>9 DEF DeleteItem, MarkerFor, Finished
  <2> QED
    BY <2>1, <2>2, <2>3, <2>4, <2>5, <2>6, <2>7, <2>8, <2>9
    DEF Next, Continue, RunnerStep, ExecStep, DeleteStep, table, execVars, runnerVars,
        StartScan, ScanReturns, WriteBatch, WriteLastBatch, StartExecution,
        ScpScanReturns, ScpScanFails, WriteScpFailure, ScanRaises, RunnerCrashes,
        TaskFails, ScanEnds, FinishReads, FinishFindsNoJob, FinishRetried, FinishCrashes,
        DeleteGetsJob, DeleteSomeFindings, DeleteLastFindings, DeleteRaises,
        DeleteReadsMarker, DeleteCrashes, ExpireFindings
<1> QED BY LifeInvariant, <1>1, PTL DEF Spec, FinishedNeverReactivated

-----------------------------------------------------------------------------
(***************************************************************************)
(* The marker as a lock of a synchronous type.  Each part speaks of the    *)
(* types in whose short windows no two invocations have met so far.        *)
(***************************************************************************)
Apart(t) == t \in SyncTypes /\ t \notin overlapped

\* Synchronous jobs have no execution, so only runners and deletions write
\* their items.
NoExecution == \A i \in Jobs : IsSync(i) => exec[i] = "none"

\* No invocation of a type is in a window of its own during a deletion.
DeletionAlone ==
  \A d \in Deleters, i \in Jobs :
    Apart(TypeOf[i]) /\ Deleting(d) /\ TypeOf[del[d].job] = TypeOf[i] => ~InWindow(i)

\* From its last marker write to the end of the scan the job holds the marker.
HoldsMarker ==
  \A i \in Jobs : Apart(TypeOf[i]) /\ pc[i] \in {"mark2", "scan", "write"}
                     => marker[TypeOf[i]] = MarkerFor(i, "ACTIVE")

\* Until its scan ends the job is ACTIVE, which keeps delete_job away.
ActiveWhileScanning ==
  \A i \in Jobs : IsSync(i) /\ pc[i] \in {"job2", "mark1", "mark2", "scan", "write"}
                     => jobs[i] = "ACTIVE"

\* The marker a deletion is about to remove is still the one it has read.
DeletesOwnMarker ==
  \A d \in Deleters :
    del[d].step = "delMarker" /\ Apart(TypeOf[del[d].job])
      => \/ marker[TypeOf[del[d].job]] = NoMarker
         \/ marker[TypeOf[del[d].job]].JobId = del[d].job

LockInv ==
  /\ NoExecution
  /\ DeletionAlone
  /\ HoldsMarker
  /\ ActiveWhileScanning
  /\ DeletesOwnMarker
  /\ OneScanAtATime

\* At the start nobody holds the marker of a type.
LEMMA LockInvInit == Init => LockInv
BY ConstantsAssumption
DEF Init, LockInv, Apart, NoExecution, DeletionAlone, HoldsMarker, ActiveWhileScanning,
    DeletesOwnMarker, OneScanAtATime, Deleting, Working, CreateSteps, FinishSteps

\* No step takes the marker from the scan that holds it, as long as no windows
\* of its type meet.
LEMMA LockInvStep ==
  ASSUME LifeInv, LockInv, [Next]_vars
  PROVE  LockInv'
<1> USE ConstantsAssumption
    DEF LockInv, NoExecution, DeletionAlone, HoldsMarker, ActiveWhileScanning,
        DeletesOwnMarker, OneScanAtATime, LifeInv, TypeOK, Deleting, IsSync,
        InWindow, Working, MarkerFor, table, runnerVars, execVars, notes, Apart, Enters,
        CreateSteps, FinishSteps
<1>1. ASSUME NEW i \in Jobs, StartScan(i) PROVE LockInv'
  <2>1. NoExecution'
    BY <1>1 DEF StartScan, NoWindow, ScanSteps
  <2>2. DeletionAlone'
    BY <1>1 DEF StartScan, NoWindow, ScanSteps
  <2>3. HoldsMarker'
    BY <1>1 DEF StartScan, NoWindow, ScanSteps
  <2>4. ActiveWhileScanning'
    BY <1>1 DEF StartScan, NoWindow, ScanSteps
  <2>5. DeletesOwnMarker'
    BY <1>1 DEF StartScan, NoWindow, ScanSteps
  <2>6. OneScanAtATime'
    <3>1. CASE marker[TypeOf[i]].JobStatus = "ACTIVE"
      BY <1>1, <3>1 DEF StartScan
    <3>2. CASE marker[TypeOf[i]].JobStatus # "ACTIVE"
      <4>1. ASSUME NEW j \in Jobs, IsSync(i), TypeOf[j] = TypeOf[i],
                   TypeOf[i] \notin overlapped'
            PROVE  ~Working(j)
        <5>0. TypeOf[i] \notin overlapped /\ NoWindow(TypeOf[i])
          BY <1>1, <3>2, <4>1 DEF StartScan
        <5>1. ~InWindow(j)
          BY <4>1, <5>0 DEF NoWindow
        <5>2. pc[j] \in {"scan", "write"} => marker[TypeOf[j]] = MarkerFor(j, "ACTIVE")
          BY <4>1, <5>0
        <5>3. pc[j] \notin {"scan", "write"}
          BY <3>2, <4>1, <5>2
        <5> QED BY <5>1, <5>3
      <4> QED BY <1>1, <4>1 DEF StartScan
    <3> QED BY <3>1, <3>2
  <2> QED BY <2>1, <2>2, <2>3, <2>4, <2>5, <2>6
<1>2. ASSUME NEW i \in Jobs, PutJob(i) PROVE LockInv'
  <2>1. NoExecution'
    BY <1>2 DEF PutJob, JobPuts, StatusWritten, RunnerSteps, ScanSteps, NotStarted
  <2>2. DeletionAlone'
    BY <1>2 DEF PutJob, JobPuts, StatusWritten, RunnerSteps, ScanSteps, NotStarted
  <2>3. HoldsMarker'
    BY <1>2 DEF PutJob, JobPuts, StatusWritten, RunnerSteps, ScanSteps, NotStarted
  <2>4. ActiveWhileScanning'
    BY <1>2 DEF PutJob, JobPuts, StatusWritten, RunnerSteps, ScanSteps, NotStarted
  <2>5. DeletesOwnMarker'
    BY <1>2 DEF PutJob, JobPuts, StatusWritten, RunnerSteps, ScanSteps, NotStarted
  <2>6. OneScanAtATime'
    BY <1>2 DEF PutJob, JobPuts, StatusWritten, RunnerSteps, ScanSteps, NotStarted
  <2> QED BY <2>1, <2>2, <2>3, <2>4, <2>5, <2>6
<1>3. ASSUME NEW i \in Jobs, PutMarker(i) PROVE LockInv'
  <2>1. NoExecution'
    BY <1>3 DEF PutMarker, MarkerPuts, StatusWritten, RunnerSteps, ScanSteps, NotStarted
  <2>2. DeletionAlone'
    BY <1>3 DEF PutMarker, MarkerPuts, StatusWritten, RunnerSteps, ScanSteps, NotStarted
  <2>3. HoldsMarker'
    BY <1>3 DEF PutMarker, MarkerPuts, StatusWritten, RunnerSteps, ScanSteps, NotStarted
  <2>4. ActiveWhileScanning'
    BY <1>3 DEF PutMarker, MarkerPuts, StatusWritten, RunnerSteps, ScanSteps, NotStarted
  <2>5. DeletesOwnMarker'
    BY <1>3 DEF PutMarker, MarkerPuts, StatusWritten, RunnerSteps, ScanSteps, NotStarted
  <2>6. OneScanAtATime'
    BY <1>3 DEF PutMarker, MarkerPuts, StatusWritten, RunnerSteps, ScanSteps, NotStarted
  <2> QED BY <2>1, <2>2, <2>3, <2>4, <2>5, <2>6
<1>4. ASSUME NEW i \in Jobs, ScanReturns(i) \/ WriteBatch(i) PROVE LockInv'
  BY <1>4 DEF ScanReturns, WriteBatch
<1>5. ASSUME NEW i \in Jobs, WriteLastBatch(i) PROVE LockInv'
  BY <1>5 DEF WriteLastBatch, NoWindow
<1>6. ASSUME NEW i \in Jobs, StartExecution(i) PROVE LockInv'
  BY <1>6 DEF StartExecution
<1>7. ASSUME NEW i \in Jobs, ScpScanReturns(i) \/ ScpScanFails(i) \/ WriteScpFailure(i) PROVE LockInv'
  BY <1>7 DEF ScpScanReturns, ScpScanFails, WriteScpFailure
<1>8. ASSUME NEW i \in Jobs, ScanRaises(i) PROVE LockInv'
  <2>1. NoExecution'
    BY <1>8 DEF ScanRaises, NoWindow, ScanSteps
  <2>2. DeletionAlone'
    BY <1>8 DEF ScanRaises, NoWindow, ScanSteps
  <2>3. HoldsMarker'
    BY <1>8 DEF ScanRaises, NoWindow, ScanSteps
  <2>4. ActiveWhileScanning'
    BY <1>8 DEF ScanRaises, NoWindow, ScanSteps
  <2>5. DeletesOwnMarker'
    BY <1>8 DEF ScanRaises, NoWindow, ScanSteps
  <2>6. OneScanAtATime'
    <3>1. IsSync(i) => Working(i)
      BY <1>8 DEF ScanRaises, ScanSteps, AfterFinishing
    <3> QED BY <1>8, <3>1 DEF ScanRaises
  <2> QED BY <2>1, <2>2, <2>3, <2>4, <2>5, <2>6
<1>9. ASSUME NEW i \in Jobs, RunnerCrashes(i) PROVE LockInv'
  BY <1>9 DEF RunnerCrashes
<1>10. ASSUME NEW i \in Jobs, TaskFails(i) \/ (\E r \in {"SUCCEEDED", "FAILED"} : ScanEnds(i, r)) PROVE LockInv'
  BY <1>10 DEF TaskFails, ScanEnds
<1>11. ASSUME NEW i \in Jobs, FinishReads(i) \/ FinishFindsNoJob(i) \/ FinishRetried(i) \/ FinishCrashes(i) PROVE LockInv'
  BY <1>11 DEF FinishReads, FinishFindsNoJob, FinishRetried, FinishCrashes
<1>12. ASSUME NEW i \in Jobs, FinishPutsJob(i) PROVE LockInv'
  BY <1>12 DEF FinishPutsJob, JobPuts
<1>13. ASSUME NEW i \in Jobs, FinishPutsMarker(i) PROVE LockInv'
  BY <1>13 DEF FinishPutsMarker, MarkerPuts
<1>14. ASSUME NEW i \in Jobs, ExpireJob(i) \/ ExpireFindings(i) PROVE LockInv'
  BY <1>14 DEF ExpireJob, ExpireFindings, Quiet
<1>15. ASSUME NEW d \in Deleters, NEW i \in Jobs, DeleteGetsJob(d, i) PROVE LockInv'
  BY <1>15 DEF DeleteGetsJob, NoWindow
<1>16. ASSUME NEW d \in Deleters, DeleteSomeFindings(d) PROVE LockInv'
  BY <1>16 DEF DeleteSomeFindings
<1>17. ASSUME NEW d \in Deleters, DeleteLastFindings(d) PROVE LockInv'
  BY <1>17 DEF DeleteLastFindings, GoTo
<1>18. ASSUME NEW d \in Deleters, DeleteReadsMarker(d) PROVE LockInv'
  BY <1>18 DEF DeleteReadsMarker, GoTo
<1>19. ASSUME NEW d \in Deleters, DeleteMarker(d) PROVE LockInv'
  <2>1. NoExecution'
    BY <1>19 DEF DeleteMarker, GoTo, NoMarker, DeletingOnlyFinished, DeleteHasJob
  <2>2. DeletionAlone'
    BY <1>19 DEF DeleteMarker, GoTo, NoMarker, DeletingOnlyFinished, DeleteHasJob
  <2>3. HoldsMarker'
    <3>1. /\ marker' = [marker EXCEPT ![TypeOf[del[d].job]] = NoMarker]
          /\ UNCHANGED <<pc, overlapped>> /\ del[d].step = "delMarker"
      BY <1>19 DEF DeleteMarker
    <3>2. del[d].job \in Jobs /\ jobs[del[d].job] # "ACTIVE"
      BY <3>1 DEF DeletingOnlyFinished, DeleteHasJob
    <3>3. SUFFICES ASSUME NEW i \in Jobs, Apart(TypeOf[i]), pc[i] \in {"mark2", "scan", "write"}
                   PROVE  TypeOf[i] # TypeOf[del[d].job]
      BY <3>1
    <3>4. jobs[i] = "ACTIVE" /\ marker[TypeOf[i]] = MarkerFor(i, "ACTIVE")
      BY <3>3
    <3> QED BY <3>1, <3>2, <3>3, <3>4 DEF NoMarker
  <2>4. ActiveWhileScanning'
    BY <1>19 DEF DeleteMarker, GoTo, NoMarker, DeletingOnlyFinished, DeleteHasJob
  <2>5. DeletesOwnMarker'
    BY <1>19 DEF DeleteMarker, GoTo, NoMarker, DeletingOnlyFinished, DeleteHasJob
  <2>6. OneScanAtATime'
    BY <1>19 DEF DeleteMarker, GoTo, NoMarker, DeletingOnlyFinished, DeleteHasJob
  <2> QED BY <2>1, <2>2, <2>3, <2>4, <2>5, <2>6
<1>20. ASSUME NEW d \in Deleters, DeleteItem(d) PROVE LockInv'
  <2>1. NoExecution'
    BY <1>20 DEF DeleteItem, EndDelete, DeletingOnlyFinished, DeleteHasJob
  <2>2. DeletionAlone'
    BY <1>20 DEF DeleteItem, EndDelete, DeletingOnlyFinished, DeleteHasJob
  <2>3. HoldsMarker'
    BY <1>20 DEF DeleteItem, EndDelete, DeletingOnlyFinished, DeleteHasJob
  <2>4. ActiveWhileScanning'
    BY <1>20 DEF DeleteItem, EndDelete, DeletingOnlyFinished, DeleteHasJob
  <2>5. DeletesOwnMarker'
    BY <1>20 DEF DeleteItem, EndDelete, DeletingOnlyFinished, DeleteHasJob
  <2>6. OneScanAtATime'
    BY <1>20 DEF DeleteItem, EndDelete, DeletingOnlyFinished, DeleteHasJob
  <2> QED BY <2>1, <2>2, <2>3, <2>4, <2>5, <2>6
<1>21. ASSUME NEW d \in Deleters, DeleteRaises(d) \/ DeleteCrashes(d) PROVE LockInv'
  BY <1>21 DEF DeleteRaises, DeleteCrashes, EndDelete
<1>22. ASSUME NEW t \in Types, ExpireMarker(t) PROVE LockInv'
  BY <1>22 DEF ExpireMarker, NoMarker, Quiet
<1>23. CASE UNCHANGED vars
  BY <1>23 DEF vars
<1> QED
  BY <1>1, <1>2, <1>3, <1>4, <1>5, <1>6, <1>7, <1>8, <1>9, <1>10, <1>11, <1>12, <1>13, <1>14, <1>15, <1>16, <1>17, <1>18, <1>19, <1>20, <1>21, <1>22, <1>23
  DEF Next, Continue, RunnerStep, ExecStep, DeleteStep

\* Two scans of a synchronous type are under way at once only if two short
\* windows of the type have met, whatever crashes, expires or is deleted.
THEOREM MarkerIsALock == Spec => []OneScanAtATime
<1>1. LifeInv /\ LockInv /\ [Next]_vars => LockInv'
  BY LockInvStep
<1>2. LockInv => OneScanAtATime
  BY DEF LockInv
<1> QED BY LockInvInit, LifeInvariant, <1>1, <1>2, PTL DEF Spec
=============================================================================
