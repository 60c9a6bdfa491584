-------------------------- MODULE JobWindowsProofs --------------------------
(***************************************************************************)
(* Theorems about what AssessmentJobs stores: findings, markers and jobs   *)
(* agree with one another, for every number of types, jobs, deletion       *)
(* requests and attempts, and under every fault.                           *)
(***************************************************************************)
EXTENDS AssessmentJobsProofs

(***************************************************************************)
(* Findings.                                                               *)
(***************************************************************************)

\* While a runner creates its job and scans, the stored job says ACTIVE.
CreatedActive ==
  \A i \in Jobs : pc[i] \in {"job2", "mark1", "mark2", "scan", "write"}
                    => jobs[i] = "ACTIVE"

\* A deletion goes on to the marker when no finding of its job is left, or it
\* was not shown those that are.
FindingsGone ==
  \A d \in Deleters : del[d].step \in {"marker", "delMarker", "delJob"}
                        => findings[del[d].job] = "none" \/ del[d].job \in missed

\* Nothing touches the item of a job that is being created or scanned but its runner.
LEMMA CreatedActiveStep ==
  ASSUME LifeInv, CreatedActive, [Next]_vars
  PROVE  CreatedActive'
<1> USE ConstantsAssumption DEF LifeInv, TypeOK, CreatedActive, table, runnerVars, execVars, notes
<1>1. ASSUME NEW i \in Jobs, StartScan(i) PROVE CreatedActive'
  BY <1>1 DEF StartScan
<1>2. ASSUME NEW i \in Jobs, PutJob(i) PROVE CreatedActive'
  BY <1>2 DEF PutJob, JobPuts, StatusWritten, CreateSteps
<1>3. ASSUME NEW i \in Jobs, PutMarker(i) PROVE CreatedActive'
  BY <1>3 DEF PutMarker, MarkerPuts
<1>4. ASSUME NEW i \in Jobs, ScanReturns(i) \/ WriteBatch(i) \/ WriteLastBatch(i)
      PROVE  CreatedActive'
  BY <1>4 DEF ScanReturns, WriteBatch, WriteLastBatch
<1>5. ASSUME NEW i \in Jobs, \/ StartExecution(i) \/ ScpScanReturns(i) \/ ScpScanFails(i)
                             \/ WriteScpFailure(i) \/ ScanRaises(i) \/ RunnerCrashes(i)
      PROVE  CreatedActive'
  BY <1>5 DEF StartExecution, ScpScanReturns, ScpScanFails, WriteScpFailure, ScanRaises,
              RunnerCrashes
<1>6. ASSUME NEW i \in Jobs, FinishPutsJob(i) PROVE CreatedActive'
  <2>1. UNCHANGED pc /\ \A j \in Jobs : j # i => jobs'[j] = jobs[j]
    BY <1>6 DEF FinishPutsJob
  <2>2. pc[i] \notin {"job2", "mark1", "mark2", "scan", "write"}
    BY <1>6 DEF FinishPutsJob, JobPuts, BeforeCreation, CreateSteps
  <2> QED BY <2>1, <2>2
<1>7. ASSUME NEW i \in Jobs, ExpireJob(i) PROVE CreatedActive'
  BY <1>7 DEF ExpireJob, Quiet
<1>8. ASSUME NEW d \in Deleters, DeleteItem(d) PROVE CreatedActive'
  <2>1. jobs[del[d].job] # "ACTIVE"
    BY <1>8 DEF DeleteItem, DeletingOnlyFinished, Deleting
  <2> QED BY <1>8, <2>1 DEF DeleteItem
<1>9. CASE UNCHANGED <<pc, jobs>>
  BY <1>9
<1> QED
  BY <1>1, <1>2, <1>3, <1>4, <1>5, <1>6, <1>7, <1>8, <1>9
  DEF Next, Continue, RunnerStep, ExecStep, DeleteStep, vars, TaskFails, ScanEnds,
      FinishReads, FinishFindsNoJob, FinishPutsMarker, FinishRetried, FinishCrashes, DeleteGetsJob,
      DeleteSomeFindings, DeleteLastFindings, DeleteReadsMarker, DeleteMarker,
      DeleteRaises, DeleteCrashes, ExpireFindings, ExpireMarker

\* Findings are only written for an ACTIVE job, which no deletion works on.
LEMMA FindingsGoneStep ==
  ASSUME LifeInv, CreatedActive, FindingsGone, [Next]_vars
  PROVE  FindingsGone'
<1> USE ConstantsAssumption DEF LifeInv, TypeOK, FindingsGone, table, runnerVars, execVars, notes
<1>1. ASSUME NEW i \in Jobs, WriteBatch(i) \/ WriteLastBatch(i) PROVE FindingsGone'
  <2>1. \A d \in Deleters : Deleting(d) => del[d].job # i
    BY <1>1 DEF WriteBatch, WriteLastBatch, CreatedActive, DeletingOnlyFinished
  <2>2. UNCHANGED <<del, missed>> /\ \A j \in Jobs : j # i => findings'[j] = findings[j]
    BY <1>1 DEF WriteBatch, WriteLastBatch
  <2> QED BY <2>1, <2>2 DEF Deleting, DeleteHasJob
<1>2. ASSUME NEW d \in Deleters, DeleteSomeFindings(d) PROVE FindingsGone'
  BY <1>2 DEF DeleteSomeFindings, Deleting, DeleteHasJob
<1>3. ASSUME NEW d \in Deleters, DeleteLastFindings(d) PROVE FindingsGone'
  BY <1>3 DEF DeleteLastFindings, GoTo, Deleting, DeleteHasJob
<1>4. ASSUME NEW d \in Deleters, NEW i \in Jobs, DeleteGetsJob(d, i) PROVE FindingsGone'
  BY <1>4 DEF DeleteGetsJob
<1>5. ASSUME NEW d \in Deleters, DeleteReadsMarker(d) \/ DeleteMarker(d) PROVE FindingsGone'
  BY <1>5 DEF DeleteReadsMarker, DeleteMarker, GoTo
<1>6. ASSUME NEW d \in Deleters, DeleteItem(d) \/ DeleteRaises(d) \/ DeleteCrashes(d) PROVE FindingsGone'
  BY <1>6 DEF DeleteItem, DeleteRaises, DeleteCrashes, EndDelete
<1>7. ASSUME NEW i \in Jobs, ExpireFindings(i) PROVE FindingsGone'
  BY <1>7 DEF ExpireFindings
<1>8. CASE UNCHANGED <<findings, del, missed>>
  BY <1>8
<1> QED
  BY <1>1, <1>2, <1>3, <1>4, <1>5, <1>6, <1>7, <1>8
  DEF Next, Continue, RunnerStep, ExecStep, DeleteStep, vars, StartScan, PutJob, PutMarker,
      ScanReturns, StartExecution, ScpScanReturns, ScpScanFails, WriteScpFailure,
      ScanRaises, RunnerCrashes, TaskFails, ScanEnds, FinishReads, FinishFindsNoJob, FinishPutsJob,
      FinishPutsMarker, FinishRetried, FinishCrashes, ExpireJob, ExpireFindings, ExpireMarker

\* Both parts hold at the start and in every state.
LEMMA FindingsInvariant == Spec => [](CreatedActive /\ FindingsGone)
<1>1. Init => CreatedActive /\ FindingsGone
  BY DEF Init, CreatedActive, FindingsGone
<1>2. LifeInv /\ CreatedActive /\ FindingsGone /\ [Next]_vars
        => CreatedActive' /\ FindingsGone'
  BY CreatedActiveStep, FindingsGoneStep
<1> QED BY LifeInvariant, <1>1, <1>2, PTL DEF Spec

\* Findings outlive their job only when the job has expired or its deletion was
\* not shown them: no crash, error or overlap of deletions has that effect.
THEOREM NoFindingsWithoutJob == Spec => []NoOrphanFindings
<1>1. Init => NoOrphanFindings
  BY DEF Init, NoOrphanFindings
<1>2. ASSUME LifeInv, CreatedActive, FindingsGone, NoOrphanFindings, [Next]_vars
      PROVE  NoOrphanFindings'
  <2> USE <1>2, ConstantsAssumption
      DEF LifeInv, TypeOK, NoOrphanFindings, table, runnerVars, execVars, notes
  <2>1. ASSUME NEW i \in Jobs, PutJob(i) PROVE NoOrphanFindings'
    <3>1. jobs' = [jobs EXCEPT ![i] = status[i]] /\ UNCHANGED <<findings, missed, expired>>
      BY <2>1 DEF PutJob
    <3> QED BY <3>1 DEF JobStatus
  <2>2. ASSUME NEW i \in Jobs, FinishPutsJob(i) PROVE NoOrphanFindings'
    <3>1. jobs' = [jobs EXCEPT ![i] = verdict[i]] /\ UNCHANGED <<findings, missed, expired>>
      BY <2>2 DEF FinishPutsJob
    <3> QED BY <3>1 DEF JobStatus
  <2>3. ASSUME NEW i \in Jobs, WriteBatch(i) \/ WriteLastBatch(i) PROVE NoOrphanFindings'
    BY <2>3 DEF WriteBatch, WriteLastBatch, CreatedActive
  <2>4. ASSUME NEW d \in Deleters, DeleteSomeFindings(d) PROVE NoOrphanFindings'
    BY <2>4 DEF DeleteSomeFindings, Deleting, DeleteHasJob
  <2>5. ASSUME NEW d \in Deleters, DeleteLastFindings(d) PROVE NoOrphanFindings'
    BY <2>5 DEF DeleteLastFindings
  <2>6. ASSUME NEW d \in Deleters, DeleteItem(d) PROVE NoOrphanFindings'
    BY <2>6 DEF DeleteItem, FindingsGone
  <2>7. ASSUME NEW i \in Jobs, ExpireJob(i) \/ ExpireFindings(i) PROVE NoOrphanFindings'
    BY <2>7 DEF ExpireJob, ExpireFindings
  <2>8. CASE UNCHANGED <<jobs, findings, missed, expired>>
    BY <2>8
  <2> QED
    BY <2>1, <2>2, <2>3, <2>4, <2>5, <2>6, <2>7, <2>8
    DEF Next, Continue, RunnerStep, ExecStep, DeleteStep, vars, StartScan, PutMarker,
        ScanReturns, StartExecution, ScpScanReturns, ScpScanFails, WriteScpFailure,
        ScanRaises, RunnerCrashes, TaskFails, ScanEnds, FinishReads, FinishFindsNoJob, FinishPutsMarker,
        FinishRetried, FinishCrashes, ExpireJob, ExpireFindings, ExpireMarker, DeleteGetsJob,
        DeleteReadsMarker, DeleteMarker, DeleteRaises, DeleteCrashes
<1> QED BY LifeInvariant, FindingsInvariant, <1>1, <1>2, PTL DEF Spec

(***************************************************************************)
(* Success, under every fault.                                             *)
(***************************************************************************)

\* The runner of a synchronous job that is about to say SUCCEEDED has stored
\* all findings, and nobody deletes them before it has said so.
SuccessIsStored ==
  \A i \in Jobs : IsSync(i) =>
    /\ exec[i] = "none"
    /\ status[i] = "SUCCEEDED" =>
         /\ pc[i] = "fjob1" => jobs[i] = "ACTIVE" /\ findings[i] = "complete"
         /\ pc[i] = "fjob2" => jobs[i] \in {"SUCCEEDED", "absent"}

\* Deletions only touch the findings of finished jobs.
LEMMA SuccessIsStoredStep ==
  ASSUME LifeInv, CreatedActive, SuccessIsStored, [Next]_vars
  PROVE  SuccessIsStored'
<1> USE ConstantsAssumption
    DEF LifeInv, TypeOK, SuccessIsStored, IsSync, table, runnerVars, execVars, notes
<1>1. ASSUME NEW i \in Jobs, StartScan(i) PROVE SuccessIsStored'
  BY <1>1 DEF StartScan
<1>2. ASSUME NEW i \in Jobs, PutJob(i) PROVE SuccessIsStored'
  BY <1>2 DEF PutJob, JobPuts
<1>3. ASSUME NEW i \in Jobs, PutMarker(i) PROVE SuccessIsStored'
  BY <1>3 DEF PutMarker, MarkerPuts
<1>4. ASSUME NEW i \in Jobs, ScanReturns(i) PROVE SuccessIsStored'
  BY <1>4 DEF ScanReturns
<1>5. ASSUME NEW i \in Jobs, WriteBatch(i) \/ WriteLastBatch(i) PROVE SuccessIsStored'
  BY <1>5 DEF WriteBatch, WriteLastBatch, CreatedActive
<1>6. ASSUME NEW i \in Jobs, \/ StartExecution(i) \/ ScpScanReturns(i) \/ ScpScanFails(i)
                             \/ WriteScpFailure(i) \/ ScanRaises(i) \/ RunnerCrashes(i)
      PROVE  SuccessIsStored'
  BY <1>6 DEF StartExecution, ScpScanReturns, ScpScanFails, WriteScpFailure, ScanRaises,
              RunnerCrashes
<1>7. ASSUME NEW i \in Jobs, \/ FinishReads(i) \/ FinishFindsNoJob(i) \/ FinishPutsJob(i) \/ FinishPutsMarker(i)
                             \/ FinishRetried(i) \/ FinishCrashes(i)
                             \/ (\E r \in {"SUCCEEDED", "FAILED"} : ScanEnds(i, r))
      PROVE  SuccessIsStored'
  <2>1. exec[i] # "none"
    BY <1>7 DEF FinishReads, FinishFindsNoJob, FinishPutsJob, FinishPutsMarker, FinishRetried, FinishCrashes,
                ScanEnds, JobPuts, MarkerPuts, FinishSteps
  <2>2. /\ UNCHANGED <<pc, status, findings>>
        /\ \A j \in Jobs : j # i => jobs'[j] = jobs[j] /\ exec'[j] = exec[j]
    BY <1>7 DEF FinishReads, FinishFindsNoJob, FinishPutsJob, FinishPutsMarker, FinishRetried, FinishCrashes,
                ScanEnds
  <2> QED BY <2>1, <2>2
<1>8. ASSUME NEW i \in Jobs, ExpireJob(i) \/ ExpireFindings(i) PROVE SuccessIsStored'
  BY <1>8 DEF ExpireJob, ExpireFindings, Quiet
<1>9. ASSUME NEW d \in Deleters, \/ DeleteSomeFindings(d) \/ DeleteLastFindings(d)
                                 \/ DeleteItem(d)
      PROVE  SuccessIsStored'
  <2>1. del[d].job \in Jobs /\ jobs[del[d].job] # "ACTIVE"
    BY <1>9 DEF DeleteSomeFindings, DeleteLastFindings, DeleteItem, Deleting, DeleteHasJob,
                DeletingOnlyFinished
  <2>2. /\ UNCHANGED <<pc, status, exec>>
        /\ \A j \in Jobs : j # del[d].job => jobs'[j] = jobs[j] /\ findings'[j] = findings[j]
        /\ jobs'[del[d].job] \in {jobs[del[d].job], "absent"}
    BY <1>9, <2>1 DEF DeleteSomeFindings, DeleteLastFindings, DeleteItem
  <2> QED BY <2>1, <2>2
<1>10. CASE UNCHANGED <<jobs, findings, pc, status, exec>>
  BY <1>10
<1> QED
  BY <1>1, <1>2, <1>3, <1>4, <1>5, <1>6, <1>7, <1>8, <1>9, <1>10
  DEF Next, Continue, RunnerStep, ExecStep, DeleteStep, vars, TaskFails, ExpireFindings, ExpireMarker,
      DeleteGetsJob, DeleteReadsMarker, DeleteMarker, DeleteRaises, DeleteCrashes

\* No synchronous job is reported SUCCEEDED before all batches of its findings
\* are stored, whatever crashes, overlaps or expires.
THEOREM SuccessAfterWrite == Spec => SucceededAfterWrite
<1>1. Init => SuccessIsStored
  BY DEF Init, SuccessIsStored
<1>2. LifeInv /\ CreatedActive /\ SuccessIsStored /\ [Next]_vars => SuccessIsStored'
  BY SuccessIsStoredStep
<1> DEFINE Stored(i) == IsSync(i) /\ jobs[i] \in {"ACTIVE", "FAILED"} /\ jobs'[i] = "SUCCEEDED"
                          => findings[i] = "complete"
<1>3. LifeInv /\ SuccessIsStored /\ [Next]_vars => [\A i \in Jobs : Stored(i)]_vars
  <2> SUFFICES ASSUME LifeInv, SuccessIsStored, Next, NEW i \in Jobs,
                      IsSync(i), jobs[i] \in {"ACTIVE", "FAILED"}, jobs'[i] = "SUCCEEDED"
               PROVE  findings[i] = "complete"
    BY DEF vars
  <2> USE ConstantsAssumption DEF LifeInv, TypeOK, SuccessIsStored
  <2>1. ASSUME NEW j \in Jobs, PutJob(j) PROVE findings[i] = "complete"
    BY <2>1 DEF PutJob, JobPuts, StatusWritten, CreateSteps
  <2>2. ASSUME NEW j \in Jobs, FinishPutsJob(j) PROVE findings[i] = "complete"
    BY <2>2 DEF FinishPutsJob, JobPuts
  <2>3. ASSUME NEW j \in Jobs, ExpireJob(j) PROVE findings[i] = "complete"
    BY <2>3 DEF ExpireJob
  <2>4. ASSUME NEW d \in Deleters, DeleteItem(d) PROVE findings[i] = "complete"
    BY <2>4 DEF DeleteItem
  <2>5. CASE UNCHANGED jobs
    BY <2>5
  <2> QED
    BY <2>1, <2>2, <2>3, <2>4, <2>5
    DEF Next, Continue, RunnerStep, ExecStep, DeleteStep, table, runnerVars, execVars, notes,
        StartScan, PutMarker, ScanReturns, WriteBatch, WriteLastBatch, StartExecution,
        ScpScanReturns, ScpScanFails, WriteScpFailure, ScanRaises, RunnerCrashes, TaskFails,
        ScanEnds, FinishReads, FinishFindsNoJob, FinishPutsMarker, FinishRetried, FinishCrashes, ExpireFindings, ExpireMarker,
        DeleteGetsJob, DeleteSomeFindings, DeleteLastFindings, DeleteReadsMarker,
        DeleteMarker, DeleteRaises, DeleteCrashes
<1> QED
  BY LifeInvariant, FindingsInvariant, <1>1, <1>2, <1>3, PTL DEF Spec, SucceededAfterWrite

(***************************************************************************)
(* Markers and jobs.  Each part speaks of the types in whose windows no    *)
(* two invocations have met so far.                                        *)
(***************************************************************************)

\* At most one invocation of a type is in its window.
WindowsExclude ==
  /\ \A i, j \in Jobs : TypeOf[i] = TypeOf[j] /\ TypeOf[i] \notin overlapped =>
       /\ InWindow(i) => ~ExecInWindow(j)
       /\ InWindow(i) /\ InWindow(j) => i = j
       /\ ExecInWindow(i) /\ ExecInWindow(j) => i = j
  /\ \A d \in Deleters : Deleting(d) /\ TypeOf[del[d].job] \notin overlapped =>
       /\ \A i \in Jobs : TypeOf[i] = TypeOf[del[d].job]
                            => ~InWindow(i) /\ ~ExecInWindow(i)
       /\ \A e \in Deleters : Deleting(e) /\ TypeOf[del[e].job] = TypeOf[del[d].job]
                                => d = e

\* The job that a window writes is stored, with the status being written once
\* the first of the writes is done.  The start invocation of an asynchronous
\* job may find it gone when it begins to write FAILED.
WindowStores ==
  \A i \in Jobs :
    /\ ~IsSync(i) /\ pc[i] \in FinishSteps => status[i] = "FAILED"
    /\ pc[i] = "write" => IsSync(i)
    /\ TypeOf[i] \notin overlapped =>
         /\ pc[i] \in {"job2", "mark1", "mark2", "fjob2", "fmark1", "fmark2"}
              => jobs[i] = status[i]
         /\ pc[i] \in FinishSteps /\ IsSync(i) => jobs[i] # "absent"
         /\ exec[i] \in FinishSteps => jobs[i] # "absent"
         /\ exec[i] \in {"fjob2", "fmark1", "fmark2"} => jobs[i] = verdict[i]

\* A marker names a job of its type.
MarkerOfType ==
  \A t \in Types : marker[t] # NoMarker =>
    /\ marker[t].JobId \in Jobs
    /\ TypeOf[marker[t].JobId] = t

\* A marker names a stored job unless that has expired, and a deletion that is
\* about to remove a job has removed its marker.
MarkerHasJob ==
  /\ \A t \in Types \ overlapped :
       marker[t] # NoMarker => jobs[marker[t].JobId] # "absent" \/ marker[t].JobId \in expired
  /\ \A d \in Deleters : del[d].step = "delJob" /\ TypeOf[del[d].job] \notin overlapped
       => marker[TypeOf[del[d].job]].JobId # del[d].job

\* A marker repeats the status of its job unless the job has expired, its writer
\* has crashed, or a window is about to write the job.
Unsettled(i) ==
  InWindow(i) \/ ExecInWindow(i) \/ exec[i] = "read" \/ Crashed(i) \/ i \in expired

MarkerRepeats ==
  \A t \in Types \ overlapped : marker[t] # NoMarker =>
    jobs[marker[t].JobId] = marker[t].JobStatus \/ Unsettled(marker[t].JobId)

\* A window opens only when no other of its type is open.
LEMMA WindowsExcludeStep ==
  ASSUME LifeInv, WindowsExclude, [Next]_vars
  PROVE  WindowsExclude'
<1> DEFINE RunnerKept(j) == InWindow(j)' => InWindow(j)
           ExecKept(j) == ExecInWindow(j)' => ExecInWindow(j)
           Grows == overlapped \subseteq overlapped'
           DelKept(d) == Deleting(d)' => Deleting(d) /\ del'[d].job = del[d].job
<1>1. ASSUME Grows, \A j \in Jobs : RunnerKept(j) /\ ExecKept(j), \A d \in Deleters : DelKept(d)
      PROVE  WindowsExclude'
  BY <1>1 DEF WindowsExclude
<1>2. ASSUME NEW i \in Jobs, Enters(TypeOf[i]),
             \A j \in Jobs \ {i} : RunnerKept(j), \A j \in Jobs : ExecKept(j),
             \A d \in Deleters : DelKept(d)
      PROVE  WindowsExclude'
  BY <1>2 DEF WindowsExclude, NoWindow, Enters
<1>3. ASSUME NEW i \in Jobs, Enters(TypeOf[i]),
             \A j \in Jobs : RunnerKept(j), \A j \in Jobs \ {i} : ExecKept(j),
             \A d \in Deleters : DelKept(d)
      PROVE  WindowsExclude'
  BY <1>3 DEF WindowsExclude, NoWindow, Enters
<1>4. ASSUME NEW i \in Jobs, NEW d \in Deleters, Enters(TypeOf[i]), del'[d].job = i,
             \A j \in Jobs : RunnerKept(j) /\ ExecKept(j),
             \A e \in Deleters \ {d} : DelKept(e)
      PROVE  WindowsExclude'
  BY <1>4 DEF WindowsExclude, NoWindow, Enters
<1> USE ConstantsAssumption
    DEF LifeInv, TypeOK, InWindow, ExecInWindow, Deleting, CreateSteps, FinishSteps,
        ScanSteps, table, runnerVars, execVars, notes
<1>5. ASSUME NEW i \in Jobs, StartScan(i) \/ WriteLastBatch(i) PROVE WindowsExclude'
  <2>1. CASE StartScan(i) /\ marker[TypeOf[i]].JobStatus = "ACTIVE"
    BY <1>1, <2>1 DEF StartScan
  <2>2. CASE WriteLastBatch(i) \/ (StartScan(i) /\ marker[TypeOf[i]].JobStatus # "ACTIVE")
    BY <1>2, <2>2 DEF StartScan, WriteLastBatch
  <2> QED BY <1>5, <2>1, <2>2
<1>6. ASSUME NEW i \in Jobs, ScanRaises(i) PROVE WindowsExclude'
  <2>1. CASE InWindow(i)
    BY <1>1, <1>6, <2>1 DEF ScanRaises
  <2>2. CASE ~InWindow(i)
    BY <1>2, <1>6, <2>2 DEF ScanRaises
  <2> QED BY <2>1, <2>2
<1>7. ASSUME NEW i \in Jobs, PutJob(i) \/ PutMarker(i) PROVE WindowsExclude'
  BY <1>1, <1>7 DEF PutJob, PutMarker, JobPuts, MarkerPuts
<1>8. ASSUME NEW i \in Jobs, \/ ScanReturns(i) \/ StartExecution(i) \/ ScpScanReturns(i)
                             \/ ScpScanFails(i) \/ WriteScpFailure(i) \/ RunnerCrashes(i)
      PROVE  WindowsExclude'
  BY <1>1, <1>8 DEF ScanReturns, StartExecution, ScpScanReturns, ScpScanFails,
     WriteScpFailure, RunnerCrashes
<1>9. ASSUME NEW i \in Jobs, FinishReads(i) PROVE WindowsExclude'
  BY <1>3, <1>9 DEF FinishReads
<1>10. ASSUME NEW i \in Jobs, FinishPutsJob(i) \/ FinishPutsMarker(i) PROVE WindowsExclude'
  BY <1>1, <1>10 DEF FinishPutsJob, FinishPutsMarker, JobPuts, MarkerPuts
<1>11. ASSUME NEW i \in Jobs, \/ (\E r \in {"SUCCEEDED", "FAILED"} : ScanEnds(i, r))
                              \/ FinishFindsNoJob(i) \/ FinishRetried(i) \/ FinishCrashes(i)
       PROVE  WindowsExclude'
  BY <1>1, <1>11 DEF ScanEnds, FinishFindsNoJob, FinishRetried, FinishCrashes
<1>12. ASSUME NEW d \in Deleters, NEW i \in Jobs, DeleteGetsJob(d, i) PROVE WindowsExclude'
  BY <1>4, <1>12 DEF DeleteGetsJob
<1>13. ASSUME NEW d \in Deleters, DeleteLastFindings(d) \/ DeleteReadsMarker(d) \/ DeleteMarker(d)
       PROVE  WindowsExclude'
  BY <1>1, <1>13 DEF DeleteLastFindings, DeleteReadsMarker, DeleteMarker, GoTo
<1>14. ASSUME NEW d \in Deleters, DeleteItem(d) \/ DeleteRaises(d) \/ DeleteCrashes(d) PROVE WindowsExclude'
  BY <1>1, <1>14 DEF DeleteItem, DeleteRaises, DeleteCrashes, EndDelete
<1>15. CASE UNCHANGED <<pc, exec, del, overlapped>>
  BY <1>1, <1>15
<1> QED
  BY <1>5, <1>6, <1>7, <1>8, <1>9, <1>10, <1>11, <1>12, <1>13, <1>14, <1>15
  DEF Next, Continue, RunnerStep, ExecStep, DeleteStep, vars, WriteBatch, TaskFails,
      ExpireJob, ExpireFindings, ExpireMarker, DeleteSomeFindings

\* What a window writes is what the item of the job says afterwards.
LEMMA WindowStoresStep ==
  ASSUME LifeInv, CreatedActive, LockInv, WindowsExclude,
         WindowStores, [Next]_vars
  PROVE  WindowStores'
<1> USE ConstantsAssumption
    DEF LifeInv, TypeOK, WindowStores, InWindow, ExecInWindow, CreateSteps, FinishSteps,
        ScanSteps, IsSync, table, runnerVars, execVars, notes
<1>1. ASSUME NEW i \in Jobs, StartScan(i) PROVE WindowStores'
  BY <1>1 DEF StartScan, Enters
<1>2. ASSUME NEW i \in Jobs, PutJob(i) PROVE WindowStores'
  <2>1. /\ jobs' = [jobs EXCEPT ![i] = status[i]] /\ jobs'[i] = status[i] /\ status[i] # "absent"
        /\ UNCHANGED <<status, exec, verdict, overlapped>>
    BY <1>2 DEF PutJob, JobStatus
  <2>2. \A j \in Jobs : j # i => pc'[j] = pc[j] /\ jobs'[j] = jobs[j]
    BY <1>2 DEF PutJob
  <2>3. TypeOf[i] \notin overlapped => exec[i] \notin FinishSteps
    BY <1>2 DEF PutJob, JobPuts, WindowsExclude
  <2>4. pc'[i] # "write" /\ (pc'[i] \in FinishSteps => pc[i] \in FinishSteps)
    BY <1>2 DEF PutJob, JobPuts
  <2> QED BY <2>1, <2>2, <2>3, <2>4
<1>3. ASSUME NEW i \in Jobs, PutMarker(i) PROVE WindowStores'
  BY <1>3 DEF PutMarker, MarkerPuts
<1>4. ASSUME NEW i \in Jobs, ScanReturns(i) \/ WriteBatch(i) \/ WriteLastBatch(i)
      PROVE  WindowStores'
  BY <1>4 DEF ScanReturns, WriteBatch, WriteLastBatch, CreatedActive, Enters
<1>5. ASSUME NEW i \in Jobs, \/ StartExecution(i) \/ ScpScanReturns(i) \/ ScpScanFails(i)
                             \/ WriteScpFailure(i) \/ RunnerCrashes(i)
      PROVE  WindowStores'
  BY <1>5 DEF StartExecution, ScpScanReturns, ScpScanFails, WriteScpFailure, RunnerCrashes
<1>6. ASSUME NEW i \in Jobs, ScanRaises(i) PROVE WindowStores'
  <2>1. /\ pc' = [pc EXCEPT ![i] = "fjob1"] /\ status' = [status EXCEPT ![i] = "FAILED"]
        /\ UNCHANGED <<jobs, exec, verdict>> /\ overlapped \subseteq overlapped'
        /\ pc[i] \in ScanSteps \cup FinishSteps
    BY <1>6 DEF ScanRaises, Enters
  <2>2. IsSync(i) /\ TypeOf[i] \notin overlapped => jobs[i] # "absent"
    BY <2>1 DEF CreatedActive, AfterFinishing, LockInv, NoExecution
  <2> QED BY <2>1, <2>2
<1>7. ASSUME NEW i \in Jobs, \E r \in {"SUCCEEDED", "FAILED"} : ScanEnds(i, r)
      PROVE  WindowStores'
  BY <1>7 DEF ScanEnds
<1>8. ASSUME NEW i \in Jobs, FinishReads(i) PROVE WindowStores'
  BY <1>8 DEF FinishReads, Enters
<1>9. ASSUME NEW i \in Jobs, FinishPutsJob(i) PROVE WindowStores'
  <2>1. /\ jobs' = [jobs EXCEPT ![i] = verdict[i]] /\ jobs'[i] = verdict[i] /\ verdict[i] # "absent"
        /\ UNCHANGED <<pc, status, verdict, overlapped>>
    BY <1>9 DEF FinishPutsJob, JobStatus
  <2>2. \A j \in Jobs : j # i => exec'[j] = exec[j] /\ jobs'[j] = jobs[j]
    BY <1>9 DEF FinishPutsJob
  <2>3. TypeOf[i] \notin overlapped => ~InWindow(i)
    <3>1. exec[i] \in FinishSteps
      BY <1>9 DEF FinishPutsJob, JobPuts, ExecSteps
    <3> QED BY <3>1 DEF WindowsExclude
  <2> QED BY <2>1, <2>2, <2>3
<1>10. ASSUME NEW i \in Jobs, FinishPutsMarker(i) PROVE WindowStores'
  BY <1>10 DEF FinishPutsMarker, MarkerPuts
<1>11. ASSUME NEW i \in Jobs, FinishFindsNoJob(i) \/ FinishRetried(i) \/ FinishCrashes(i) PROVE WindowStores'
  BY <1>11 DEF FinishFindsNoJob, FinishRetried, FinishCrashes
<1>12. ASSUME NEW i \in Jobs, ExpireJob(i) PROVE WindowStores'
  BY <1>12 DEF ExpireJob, Quiet
<1>13. ASSUME NEW d \in Deleters, DeleteItem(d) PROVE WindowStores'
  <2>1. del[d].job \in Jobs /\ Deleting(d)
    BY <1>13 DEF DeleteItem, Deleting, DeleteHasJob
  <2>2. TypeOf[del[d].job] \notin overlapped
          => ~InWindow(del[d].job) /\ ~ExecInWindow(del[d].job)
    BY <2>1 DEF WindowsExclude
  <2>3. /\ \A j \in Jobs : j # del[d].job => jobs'[j] = jobs[j]
        /\ UNCHANGED <<pc, status, exec, verdict, overlapped>>
    BY <1>13 DEF DeleteItem
  <2> QED BY <2>2, <2>3
<1>14. ASSUME NEW d \in Deleters, NEW i \in Jobs, DeleteGetsJob(d, i) PROVE WindowStores'
  BY <1>14 DEF DeleteGetsJob, Enters
<1>15. CASE UNCHANGED <<jobs, pc, status, exec, verdict, overlapped>>
  BY <1>15
<1> QED
  BY <1>1, <1>2, <1>3, <1>4, <1>5, <1>6, <1>7, <1>8, <1>9, <1>10, <1>11, <1>12, <1>13, <1>14, <1>15
  DEF Next, Continue, RunnerStep, ExecStep, DeleteStep, vars, TaskFails, ExpireFindings, ExpireMarker,
      DeleteSomeFindings, DeleteLastFindings, DeleteReadsMarker,
      DeleteMarker, DeleteRaises, DeleteCrashes

\* All of this holds in every state.
LEMMA WindowsInvariant ==
  Spec => [](LifeInv /\ CreatedActive /\ LockInv /\ WindowsExclude /\ WindowStores)
<1>1. Init => WindowsExclude /\ WindowStores
  BY DEF Init, WindowsExclude, WindowStores, InWindow, ExecInWindow, Deleting,
         CreateSteps, FinishSteps
<1>2. LifeInv /\ LockInv /\ [Next]_vars => LockInv'
  BY LockInvStep
<1>3. LifeInv /\ WindowsExclude /\ [Next]_vars => WindowsExclude'
  BY WindowsExcludeStep
<1>4. LifeInv /\ CreatedActive /\ LockInv /\ WindowsExclude /\ WindowStores /\ [Next]_vars
        => WindowStores'
  BY WindowStoresStep
<1> QED BY LifeInvariant, FindingsInvariant, LockInvInit, <1>1, <1>2, <1>3, <1>4, PTL DEF Spec

\* A job that was deleted or has expired is stored again only after two windows
\* of its type have met, or by a start invocation that raises behind its
\* execution: no crash, expiry or retried finish handler does it otherwise.
THEOREM DeletedForGood == Spec => DeletedStaysDeleted
<1> DEFINE Stays(i) == jobs[i] = "absent" /\ jobs'[i] # "absent" =>
                         \/ pc[i] = "job1"
                         \/ TypeOf[i] \in overlapped
                         \/ ~IsSync(i) /\ pc[i] = "fjob1" /\ status[i] = "FAILED"
<1>1. CreatedActive /\ LockInv /\ WindowStores /\ LifeInv /\ [Next]_vars
        => [\A i \in Jobs : Stays(i)]_vars
  <2> SUFFICES ASSUME CreatedActive, LockInv, WindowStores, LifeInv, Next, NEW i \in Jobs
               PROVE  Stays(i)
    BY DEF vars
  <2> USE DEF LifeInv, TypeOK
  <2>1. ASSUME NEW j \in Jobs, PutJob(j) PROVE Stays(i)
    <3>1. CASE j = i
      BY <2>1, <3>1 DEF PutJob, JobPuts, CreatedActive, WindowStores, FinishSteps
    <3>2. CASE j # i
      BY <2>1, <3>2 DEF PutJob
    <3> QED BY <3>1, <3>2
  <2>2. ASSUME NEW j \in Jobs, FinishPutsJob(j) PROVE Stays(i)
    <3>1. exec[j] \in FinishSteps
      BY <2>2 DEF FinishPutsJob, JobPuts, ExecSteps, FinishSteps, CreateSteps
    <3> QED BY <2>2, <3>1 DEF FinishPutsJob, WindowStores
  <2>3. ASSUME NEW j \in Jobs, ExpireJob(j) PROVE Stays(i)
    BY <2>3 DEF ExpireJob
  <2>4. ASSUME NEW d \in Deleters, DeleteItem(d) PROVE Stays(i)
    BY <2>4 DEF DeleteItem
  <2>5. CASE UNCHANGED jobs
    BY <2>5
  <2> QED
    BY <2>1, <2>2, <2>3, <2>4, <2>5
    DEF Next, Continue, RunnerStep, ExecStep, DeleteStep, table, execVars, runnerVars, notes,
        StartScan, PutMarker, ScanReturns, WriteBatch, WriteLastBatch, StartExecution,
        ScpScanReturns, ScpScanFails, WriteScpFailure, ScanRaises, RunnerCrashes,
        TaskFails, ScanEnds, FinishReads, FinishFindsNoJob, FinishPutsMarker, FinishRetried, FinishCrashes,
        DeleteGetsJob, DeleteSomeFindings, DeleteLastFindings, DeleteReadsMarker,
        DeleteMarker, DeleteRaises, DeleteCrashes, ExpireFindings, ExpireMarker
<1> QED BY WindowsInvariant, <1>1, PTL DEF Spec, DeletedStaysDeleted

\* Runners and finish handlers write markers for jobs of the type only.
LEMMA MarkerOfTypeInvariant == Spec => []MarkerOfType
<1>1. Init => MarkerOfType
  BY DEF Init, MarkerOfType
<1>2. ASSUME LifeInv, MarkerOfType, [Next]_vars PROVE MarkerOfType'
  <2> USE <1>2, ConstantsAssumption
      DEF LifeInv, TypeOK, MarkerOfType, table, runnerVars, execVars, notes
  <2>1. ASSUME NEW i \in Jobs, PutMarker(i) \/ FinishPutsMarker(i) PROVE MarkerOfType'
    BY <2>1 DEF PutMarker, FinishPutsMarker, MarkerFor
  <2>2. ASSUME NEW d \in Deleters, DeleteMarker(d) PROVE MarkerOfType'
    BY <2>2 DEF DeleteMarker
  <2>3. ASSUME NEW t \in Types, ExpireMarker(t) PROVE MarkerOfType'
    BY <2>3 DEF ExpireMarker
  <2>4. CASE UNCHANGED marker
    BY <2>4
  <2> QED
    BY <2>1, <2>2, <2>3, <2>4
    DEF Next, Continue, RunnerStep, ExecStep, DeleteStep, vars, StartScan, PutJob,
        ScanReturns, WriteBatch, WriteLastBatch, StartExecution, ScpScanReturns,
        ScpScanFails, WriteScpFailure, ScanRaises, RunnerCrashes, TaskFails, ScanEnds,
        FinishReads, FinishFindsNoJob, FinishPutsJob, FinishRetried, FinishCrashes, ExpireFindings, ExpireJob,
        DeleteGetsJob, DeleteSomeFindings, DeleteLastFindings, DeleteReadsMarker,
        DeleteItem, DeleteRaises, DeleteCrashes
<1> QED BY LifeInvariant, <1>1, <1>2, PTL DEF Spec

\* Markers are written while their job is stored, and removed before it.
LEMMA MarkerHasJobStep ==
  ASSUME LifeInv, WindowsExclude, WindowStores, MarkerOfType, MarkerHasJob, [Next]_vars
  PROVE  MarkerHasJob'
<1> USE ConstantsAssumption
    DEF LifeInv, TypeOK, MarkerHasJob, table, runnerVars, execVars, notes
<1>1. ASSUME NEW i \in Jobs, NEW s \in JobStatus, jobs' = [jobs EXCEPT ![i] = s],
             UNCHANGED <<marker, del, overlapped, expired>>
      PROVE  MarkerHasJob'
  BY <1>1 DEF JobStatus, MarkerOfType
<1>2. ASSUME NEW i \in Jobs, NEW s \in JobStatus, InWindow(i) \/ ExecInWindow(i),
             TypeOf[i] \notin overlapped => jobs[i] # "absent",
             marker' = [marker EXCEPT ![TypeOf[i]] = MarkerFor(i, s)],
             UNCHANGED <<jobs, del, overlapped, expired>>
      PROVE  MarkerHasJob'
  <2>1. ASSUME NEW t \in Types \ overlapped, marker'[t] # NoMarker
        PROVE  jobs'[marker'[t].JobId] # "absent" \/ marker'[t].JobId \in expired'
    BY <1>2, <2>1 DEF MarkerFor
  <2>2. ASSUME NEW d \in Deleters, del'[d].step = "delJob", TypeOf[del'[d].job] \notin overlapped
        PROVE  marker'[TypeOf[del'[d].job]].JobId # del'[d].job
    <3>1. TypeOf[del[d].job] # TypeOf[i]
      BY <1>2, <2>2 DEF WindowsExclude, Deleting
    <3> QED BY <1>2, <2>2, <3>1
  <2> QED BY <1>2, <2>1, <2>2
<1>3. ASSUME NEW i \in Jobs, PutJob(i) PROVE MarkerHasJob'
  BY <1>1, <1>3 DEF PutJob
<1>4. ASSUME NEW i \in Jobs, FinishPutsJob(i) PROVE MarkerHasJob'
  BY <1>1, <1>4 DEF FinishPutsJob
<1>5. ASSUME NEW i \in Jobs, PutMarker(i) PROVE MarkerHasJob'
  <2>1. InWindow(i) /\ (TypeOf[i] \notin overlapped => jobs[i] # "absent")
    BY <1>5 DEF PutMarker, MarkerPuts, InWindow, CreateSteps, FinishSteps, WindowStores,
       JobStatus
  <2> QED BY <1>2, <1>5, <2>1 DEF PutMarker
<1>6. ASSUME NEW i \in Jobs, FinishPutsMarker(i) PROVE MarkerHasJob'
  <2>1. ExecInWindow(i)
    BY <1>6 DEF FinishPutsMarker, MarkerPuts, ExecInWindow, FinishSteps, ExecSteps, CreateSteps
  <2>2. TypeOf[i] \notin overlapped => jobs[i] # "absent"
    BY <2>1 DEF WindowStores, ExecInWindow
  <2> QED BY <1>2, <1>6, <2>1, <2>2 DEF FinishPutsMarker
<1>7. ASSUME NEW d \in Deleters, DeleteReadsMarker(d) PROVE MarkerHasJob'
  BY <1>7 DEF DeleteReadsMarker, GoTo
<1>8. ASSUME NEW d \in Deleters, DeleteMarker(d) PROVE MarkerHasJob'
  <2>1. /\ \A t \in Types : marker'[t] \in {marker[t], NoMarker}
        /\ marker'[TypeOf[del[d].job]] = NoMarker /\ UNCHANGED <<jobs, overlapped, expired>>
        /\ \A e \in Deleters : del'[e].job = del[e].job /\ (e # d => del'[e] = del[e])
    BY <1>8 DEF DeleteMarker, GoTo, DeleteHasJob, Deleting
  <2>2. \A e \in Deleters : Deleting(e) => del[e].job \in Jobs /\ TypeOf[del[e].job] \in Types
    BY DEF DeleteHasJob
  <2>3. Deleting(d)
    BY <1>8 DEF DeleteMarker, Deleting
  <2> QED BY <2>1, <2>2, <2>3 DEF NoMarker, Deleting
<1>9. ASSUME NEW d \in Deleters, DeleteItem(d) PROVE MarkerHasJob'
  <2>1. /\ del[d].job \in Jobs
        /\ TypeOf[del[d].job] \in overlapped \/ marker[TypeOf[del[d].job]].JobId # del[d].job
        /\ jobs' = [jobs EXCEPT ![del[d].job] = "absent"]
        /\ UNCHANGED <<marker, overlapped, expired>>
        /\ \A e \in Deleters : e # d => del'[e] = del[e]
        /\ del'[d].step = "idle"
    BY <1>9 DEF DeleteItem, EndDelete, DeleteHasJob, Deleting
  <2>2. \A t \in Types \ overlapped : marker[t] # NoMarker => marker[t].JobId # del[d].job
    BY <2>1 DEF MarkerOfType
  <2> QED BY <2>1, <2>2
<1>10. ASSUME NEW d \in Deleters, \/ DeleteSomeFindings(d) \/ DeleteLastFindings(d)
                                  \/ DeleteRaises(d) \/ DeleteCrashes(d) \/ (\E i \in Jobs : DeleteGetsJob(d, i))
       PROVE  MarkerHasJob'
  BY <1>10 DEF DeleteSomeFindings, DeleteLastFindings, DeleteRaises, DeleteCrashes, DeleteGetsJob, GoTo,
     EndDelete, Enters
<1>11. ASSUME NEW i \in Jobs, ExpireJob(i) PROVE MarkerHasJob'
  BY <1>11 DEF ExpireJob, MarkerOfType
<1>12. ASSUME NEW t \in Types, ExpireMarker(t) PROVE MarkerHasJob'
  <2>1. /\ marker' = [marker EXCEPT ![t] = NoMarker]
        /\ UNCHANGED <<jobs, del, overlapped, expired>>
    BY <1>12 DEF ExpireMarker
  <2>2. \A d \in Deleters : Deleting(d) => del[d].job \in Jobs /\ TypeOf[del[d].job] \in Types
    BY DEF DeleteHasJob
  <2> QED BY <2>1, <2>2 DEF NoMarker, Deleting
<1>13. CASE UNCHANGED <<jobs, marker, del, expired>> /\ overlapped \subseteq overlapped'
  BY <1>13
<1> QED
  BY <1>3, <1>4, <1>5, <1>6, <1>7, <1>8, <1>9, <1>10, <1>11, <1>12, <1>13
  DEF Next, Continue, RunnerStep, ExecStep, DeleteStep, vars, StartScan, ScanReturns,
      WriteBatch, WriteLastBatch, StartExecution, ScpScanReturns, ScpScanFails,
      WriteScpFailure, ScanRaises, RunnerCrashes, TaskFails, ScanEnds, FinishReads, FinishFindsNoJob,
      FinishRetried, FinishCrashes, ExpireFindings, Enters

\* The latest jobs can always be listed but when a job has expired before its
\* marker, or windows of its type have met: every other marker has its job,
\* whatever invocations crash or are retried.
THEOREM LatestIsListable == Spec => []LatestListable
<1>1. Init => MarkerHasJob
  BY DEF Init, MarkerHasJob
<1>2. LifeInv /\ WindowsExclude /\ WindowStores /\ MarkerOfType /\ MarkerHasJob /\ [Next]_vars
        => MarkerHasJob'
  BY MarkerHasJobStep
<1>3. MarkerHasJob => LatestListable
  BY DEF MarkerHasJob, LatestListable
<1> QED BY WindowsInvariant, MarkerOfTypeInvariant, <1>1, <1>2, <1>3, PTL DEF Spec

\* A marker and its job are rewritten in one window, or their writer has crashed.
LEMMA MarkerRepeatsStep ==
  ASSUME LifeInv, WindowsExclude, WindowStores, MarkerOfType, MarkerHasJob,
         MarkerRepeats, [Next]_vars
  PROVE  MarkerRepeats'
<1> DEFINE Kept(j) == Unsettled(j) => Unsettled(j)'
<1>1. ASSUME UNCHANGED <<jobs, marker>>, overlapped \subseteq overlapped',
             \A j \in Jobs : Kept(j)
      PROVE  MarkerRepeats'
  BY <1>1 DEF MarkerRepeats, MarkerOfType
<1>2. ASSUME NEW i \in Jobs, Unsettled(i)', UNCHANGED <<marker, overlapped>>,
             \A j \in Jobs : j # i => jobs'[j] = jobs[j] /\ Kept(j)
      PROVE  MarkerRepeats'
  BY <1>2 DEF MarkerRepeats, MarkerOfType
<1> USE ConstantsAssumption DEF LifeInv, TypeOK, table, runnerVars, execVars, notes
<1>3. ASSUME NEW i \in Jobs, UNCHANGED <<jobs, overlapped>>, NEW s \in JobStatus,
             marker' = [marker EXCEPT ![TypeOf[i]] = MarkerFor(i, s)],
             TypeOf[i] \notin overlapped => s = jobs[i],
             \A j \in Jobs : j # i => Kept(j)
      PROVE  MarkerRepeats'
  <2>1. ASSUME NEW t \in Types \ overlapped, t # TypeOf[i], marker'[t] # NoMarker
        PROVE  (jobs[marker[t].JobId] = marker[t].JobStatus \/ Unsettled(marker[t].JobId))'
    <3>1. marker'[t] = marker[t] /\ marker[t].JobId \in Jobs /\ marker[t].JobId # i
      BY <1>3, <2>1 DEF MarkerOfType
    <3> QED BY <1>3, <2>1, <3>1 DEF MarkerRepeats
  <2>2. ASSUME TypeOf[i] \notin overlapped
        PROVE  jobs'[marker'[TypeOf[i]].JobId] = marker'[TypeOf[i]].JobStatus
    BY <1>3, <2>2 DEF MarkerFor
  <2> QED BY <1>3, <2>1, <2>2 DEF MarkerRepeats
<1> USE DEF Unsettled, InWindow, ExecInWindow, Crashed, CreateSteps, FinishSteps, ScanSteps
<1>4. ASSUME NEW i \in Jobs, StartScan(i) \/ WriteLastBatch(i) PROVE MarkerRepeats'
  BY <1>1, <1>4 DEF StartScan, WriteLastBatch, Enters
<1>5. ASSUME NEW i \in Jobs, ScanRaises(i) PROVE MarkerRepeats'
  BY <1>1, <1>5 DEF ScanRaises, Enters
<1>6. ASSUME NEW i \in Jobs, \/ ScanReturns(i) \/ WriteBatch(i) \/ ScpScanReturns(i)
                             \/ ScpScanFails(i) \/ WriteScpFailure(i) \/ RunnerCrashes(i)
      PROVE  MarkerRepeats'
  BY <1>1, <1>6 DEF ScanReturns, WriteBatch, ScpScanReturns, ScpScanFails,
     WriteScpFailure, RunnerCrashes
<1>7. ASSUME NEW i \in Jobs, StartExecution(i) PROVE MarkerRepeats'
  BY <1>1, <1>7 DEF StartExecution, BeforeCreation
<1>8. ASSUME NEW i \in Jobs, PutJob(i) PROVE MarkerRepeats'
  <2>1. pc'[i] \in CreateSteps \cup FinishSteps
    BY <1>8 DEF PutJob, JobPuts
  <2> QED BY <1>2, <1>8, <2>1 DEF PutJob
<1>9. ASSUME NEW i \in Jobs, FinishPutsJob(i) PROVE MarkerRepeats'
  <2>1. exec[i] \in {"fjob1", "fjob2"} /\ exec'[i] \in {"fjob2", "fmark1"}
    BY <1>9 DEF FinishPutsJob, JobPuts, ExecSteps
  <2> QED BY <1>2, <1>9, <2>1 DEF FinishPutsJob
<1>10. ASSUME NEW i \in Jobs, PutMarker(i) PROVE MarkerRepeats'
  <2>1. TypeOf[i] \notin overlapped => status[i] = jobs[i]
    BY <1>10 DEF PutMarker, MarkerPuts, WindowStores
  <2>2. \A j \in Jobs : j # i => pc'[j] = pc[j]
    BY <1>10 DEF PutMarker
  <2> QED BY <1>3, <1>10, <2>1, <2>2 DEF PutMarker
<1>11. ASSUME NEW i \in Jobs, FinishPutsMarker(i) PROVE MarkerRepeats'
  <2>1. exec[i] \in {"fmark1", "fmark2"} /\ \A j \in Jobs : j # i => exec'[j] = exec[j]
    BY <1>11 DEF FinishPutsMarker, MarkerPuts, ExecSteps
  <2>2. TypeOf[i] \notin overlapped => verdict[i] = jobs[i]
    BY <2>1 DEF WindowStores
  <2> QED BY <1>3, <1>11, <2>1, <2>2 DEF FinishPutsMarker
<1>12. ASSUME NEW i \in Jobs, \/ TaskFails(i) \/ FinishFindsNoJob(i) \/ FinishReads(i)
                              \/ FinishRetried(i) \/ FinishCrashes(i)
                              \/ (\E r \in {"SUCCEEDED", "FAILED"} : ScanEnds(i, r))
       PROVE  MarkerRepeats'
  BY <1>1, <1>12 DEF TaskFails, FinishReads, FinishFindsNoJob, FinishRetried,
     FinishCrashes, ScanEnds, Enters
<1>13. ASSUME NEW d \in Deleters, DeleteMarker(d) PROVE MarkerRepeats'
  BY <1>13 DEF DeleteMarker, MarkerRepeats, MarkerOfType
<1>14. ASSUME NEW d \in Deleters, DeleteItem(d) PROVE MarkerRepeats'
  <2>1. /\ del[d].job \in Jobs
        /\ TypeOf[del[d].job] \in overlapped \/ marker[TypeOf[del[d].job]].JobId # del[d].job
        /\ jobs' = [jobs EXCEPT ![del[d].job] = "absent"]
        /\ UNCHANGED <<marker, pc, exec, overlapped, expired>>
    BY <1>14 DEF DeleteItem, DeleteHasJob, Deleting, MarkerHasJob
  <2>2. \A t \in Types \ overlapped :
          marker[t] # NoMarker => jobs'[marker[t].JobId] = jobs[marker[t].JobId]
    BY <2>1 DEF MarkerOfType
  <2> QED BY <2>1, <2>2 DEF MarkerRepeats
<1>15. ASSUME NEW i \in Jobs, ExpireJob(i) PROVE MarkerRepeats'
  BY <1>2, <1>15 DEF ExpireJob
<1>16. ASSUME NEW t \in Types, ExpireMarker(t) PROVE MarkerRepeats'
  BY <1>16 DEF ExpireMarker, MarkerRepeats, MarkerOfType
<1>17. ASSUME NEW d \in Deleters, NEW i \in Jobs, DeleteGetsJob(d, i) PROVE MarkerRepeats'
  BY <1>1, <1>17 DEF DeleteGetsJob, Enters
<1>18. CASE UNCHANGED <<jobs, marker, pc, exec, overlapped, expired>>
  BY <1>1, <1>18
<1> QED
  BY <1>4, <1>5, <1>6, <1>7, <1>8, <1>9, <1>10, <1>11, <1>12, <1>13, <1>14, <1>15, <1>16,
     <1>17, <1>18
  DEF Next, Continue, RunnerStep, ExecStep, DeleteStep, vars, DeleteSomeFindings,
      DeleteLastFindings, DeleteReadsMarker, DeleteRaises, DeleteCrashes, ExpireFindings

\* A start request is refused exactly while the latest job is ACTIVE, unless
\* that job has expired, its writer has crashed or is about to be retried, or
\* windows of the type have met.
THEOREM MarkersAgree == Spec => []MarkerAgreesWithJob
<1>1. Init => MarkerHasJob /\ MarkerRepeats
  BY DEF Init, MarkerHasJob, MarkerRepeats
<1>2. LifeInv /\ WindowsExclude /\ WindowStores /\ MarkerOfType /\ MarkerHasJob /\ [Next]_vars
        => MarkerHasJob'
  BY MarkerHasJobStep
<1>3. LifeInv /\ WindowsExclude /\ WindowStores /\ MarkerOfType /\ MarkerHasJob
        /\ MarkerRepeats /\ [Next]_vars => MarkerRepeats'
  BY MarkerRepeatsStep
<1>4. MarkerOfType /\ MarkerRepeats => MarkerAgreesWithJob
  BY DEF MarkerOfType, MarkerRepeats, MarkerAgreesWithJob, NoWindow, Unsettled
<1> QED BY WindowsInvariant, MarkerOfTypeInvariant, <1>1, <1>2, <1>3, <1>4, PTL DEF Spec

(***************************************************************************)
(* JobHistory.                                                             *)
(***************************************************************************)

\* A runner writes one outcome, or replaces its SUCCEEDED by FAILED after an
\* exception.  The item is gone meanwhile only if it was deleted in a window of
\* the runner.
OutcomeWritten ==
  \A i \in Jobs : IsSync(i) =>
    /\ pc[i] \in FinishSteps => status[i] \in {"SUCCEEDED", "FAILED"}
    /\ pc[i] = "fjob1" /\ status[i] = "FAILED"
         => jobs[i] \in {"ACTIVE", "SUCCEEDED"} \/ (jobs[i] = "absent" /\ TypeOf[i] \in overlapped)
    /\ pc[i] \in {"fjob2", "fmark1", "fmark2"}
         => jobs[i] = status[i] \/ (jobs[i] = "absent" /\ TypeOf[i] \in overlapped)

\* Nobody but the runner and a deletion it has met touches the item meanwhile.
LEMMA OutcomeWrittenStep ==
  ASSUME LifeInv, CreatedActive, SuccessIsStored, LockInv, WindowsExclude, OutcomeWritten,
         [Next]_vars
  PROVE  OutcomeWritten'
<1> USE ConstantsAssumption
    DEF LifeInv, TypeOK, OutcomeWritten, IsSync, table, runnerVars, execVars, notes
<1>1. ASSUME NEW i \in Jobs, StartScan(i) PROVE OutcomeWritten'
  BY <1>1 DEF StartScan, FinishSteps, Enters
<1>2. ASSUME NEW i \in Jobs, PutJob(i) PROVE OutcomeWritten'
  BY <1>2 DEF PutJob, JobPuts, FinishSteps
<1>3. ASSUME NEW i \in Jobs, PutMarker(i) PROVE OutcomeWritten'
  BY <1>3 DEF PutMarker, MarkerPuts, FinishSteps
<1>4. ASSUME NEW i \in Jobs, ScanReturns(i) \/ WriteBatch(i) \/ WriteLastBatch(i)
      PROVE  OutcomeWritten'
  BY <1>4 DEF ScanReturns, WriteBatch, WriteLastBatch, CreatedActive, FinishSteps, Enters
<1>5. ASSUME NEW i \in Jobs, \/ StartExecution(i) \/ ScpScanReturns(i) \/ ScpScanFails(i)
                             \/ WriteScpFailure(i) \/ RunnerCrashes(i)
      PROVE  OutcomeWritten'
  BY <1>5 DEF StartExecution, ScpScanReturns, ScpScanFails, WriteScpFailure, RunnerCrashes,
     FinishSteps
<1>6. ASSUME NEW i \in Jobs, ScanRaises(i) PROVE OutcomeWritten'
  <2>1. /\ pc' = [pc EXCEPT ![i] = "fjob1"] /\ status' = [status EXCEPT ![i] = "FAILED"]
        /\ UNCHANGED jobs /\ overlapped \subseteq overlapped'
        /\ pc[i] \in ScanSteps \/ (pc[i] \in FinishSteps /\ status[i] = "SUCCEEDED")
    BY <1>6 DEF ScanRaises, Enters
  <2>2. CASE IsSync(i)
    <3>1. pc[i] \in ScanSteps => jobs[i] = "ACTIVE"
      BY <2>2 DEF ScanSteps, CreatedActive, AfterFinishing, LockInv, NoExecution
    <3>2. pc[i] \in FinishSteps /\ status[i] = "SUCCEEDED"
            => \/ jobs[i] \in {"ACTIVE", "SUCCEEDED"}
               \/ jobs[i] = "absent" /\ TypeOf[i] \in overlapped
      BY <2>2 DEF FinishSteps, SuccessIsStored
    <3> QED BY <2>1, <3>1, <3>2 DEF FinishSteps
  <2>3. CASE ~IsSync(i)
    BY <2>1, <2>3
  <2> QED BY <2>2, <2>3
<1>7. ASSUME NEW i \in Jobs, FinishPutsJob(i) PROVE OutcomeWritten'
  <2>1. ~IsSync(i)
    BY <1>7 DEF FinishPutsJob, JobPuts, LockInv, NoExecution
  <2> QED BY <1>7, <2>1 DEF FinishPutsJob
<1>8. ASSUME NEW i \in Jobs, ExpireJob(i) PROVE OutcomeWritten'
  BY <1>8 DEF ExpireJob, Quiet, FinishSteps
<1>9. ASSUME NEW d \in Deleters, DeleteItem(d) PROVE OutcomeWritten'
  <2>1. del[d].job \in Jobs /\ Deleting(d)
    BY <1>9 DEF DeleteItem, Deleting, DeleteHasJob
  <2>2. TypeOf[del[d].job] \notin overlapped => pc[del[d].job] \notin FinishSteps
    BY <2>1 DEF WindowsExclude, InWindow
  <2> QED BY <1>9, <2>2 DEF DeleteItem, FinishSteps
<1>10. CASE UNCHANGED <<jobs, pc, status>> /\ overlapped \subseteq overlapped'
  BY <1>10
<1> QED
  BY <1>1, <1>2, <1>3, <1>4, <1>5, <1>6, <1>7, <1>8, <1>9, <1>10
  DEF Next, Continue, RunnerStep, ExecStep, DeleteStep, vars, TaskFails, ScanEnds,
      FinishReads, FinishFindsNoJob, FinishPutsMarker, FinishRetried, FinishCrashes,
      ExpireFindings, ExpireMarker, DeleteGetsJob, DeleteSomeFindings, DeleteLastFindings,
      DeleteReadsMarker, DeleteMarker, DeleteRaises, DeleteCrashes, Enters

\* The view of the job history: the stored items of the synchronous jobs, the
\* jobs that have been put, those whose runner has crashed, and the types in
\* whose windows two invocations have met.
View    == [i \in SyncJobIds |-> jobs[i]]
Created == {i \in SyncJobIds : pc[i] \notin {"idle", "rejected", "job1"}}
Lost    == {i \in SyncJobIds : pc[i] = "crashed"}
Raced   == overlapped \cap SyncTypes

\* A put of a runner creates, finishes, revokes or restores a job, or repeats
\* itself.
LEMMA PutJobMaps ==
  ASSUME LifeInv, CreatedActive, SuccessIsStored, LockInv, OutcomeWritten,
         NEW i \in SyncJobIds, PutJob(i)
  PROVE  [History!Next]_(History!vars)
<1> USE DEF LifeInv, TypeOK, SyncJobIds, PutJob, notes
<1>1. /\ jobs' = [jobs EXCEPT ![i] = status[i]]
      /\ View' = [View EXCEPT ![i] = status[i]]
      /\ Raced' = Raced
      /\ UNCHANGED overlapped
  BY DEF View, Raced
<1>2. Lost' = Lost /\ i \notin Lost
  BY DEF JobPuts, Lost
<1>3. CASE pc[i] = "job1"
  <2>1. pc' = [pc EXCEPT ![i] = "job2"] /\ status[i] = "ACTIVE" /\ jobs[i] = "absent"
    <3>1. pc' = [pc EXCEPT ![i] = "job2"]
      <4>1. PICK put \in JobPuts : pc[i] = put[1] /\ pc' = [pc EXCEPT ![i] = put[2]]
        OBVIOUS
      <4>2. put = <<"job1", "job2">>
        BY <1>3, <4>1 DEF JobPuts
      <4> QED BY <4>1, <4>2
    <3>2. status[i] = "ACTIVE" /\ jobs[i] = "absent"
      BY <1>3 DEF StatusWritten, BeforeCreation, CreateSteps
    <3> QED BY <3>1, <3>2
  <2>2. i \notin Created /\ Created' = Created \cup {i}
    BY <1>3, <2>1 DEF Created
  <2>3. ASSUME NEW j \in SyncJobIds, TypeOf[j] = TypeOf[i], View[j] = "ACTIVE",
               TypeOf[i] \notin Raced
        PROVE  j \in Lost
    <3>1. jobs[j] = "ACTIVE" /\ exec[j] = "none" /\ TypeOf[i] \notin overlapped
      BY <2>3 DEF View, LockInv, NoExecution, Raced, IsSync
    <3>2. Working(j) \/ pc[j] = "crashed"
      BY <3>1 DEF ActiveJobHasOwner, Working, ScanSteps, FinishSteps, AfterFinishing
    <3>3. Working(i)
      BY <1>3 DEF Working, CreateSteps
    <3>4. i # j
      BY <2>1, <3>1
    <3> QED BY <2>3, <3>1, <3>2, <3>3, <3>4 DEF LockInv, OneScanAtATime, Lost
  <2>4. History!Create(i)
    BY <1>1, <1>2, <2>1, <2>2, <2>3
    DEF History!Create, History!Alone, View, Created, Lost, Raced
  <2> QED BY <2>4 DEF History!Next
<1>4. CASE pc[i] = "fjob1"
  <2>1. Created' = Created
    BY <1>4 DEF JobPuts, Created
  <2>2. status[i] \in Finished /\ i \in Created
    BY <1>4 DEF StatusWritten, FinishSteps, Created
  <2>3. CASE View[i] = "ACTIVE"
    <3>1. History!Finish(i)
      BY <1>1, <1>2, <2>1, <2>2, <2>3 DEF History!Finish, View, Created, Lost, Raced
    <3> QED BY <3>1 DEF History!Next
  <2>4. CASE View[i] = "SUCCEEDED" /\ status[i] = "FAILED"
    <3>1. History!Revoke(i)
      BY <1>1, <1>2, <2>1, <2>4 DEF History!Revoke, View, Created, Lost, Raced
    <3> QED BY <3>1 DEF History!Next
  <2>5. CASE View[i] = "absent" /\ TypeOf[i] \in Raced
    <3>1. History!Return(i)
      BY <1>1, <1>2, <2>1, <2>2, <2>5 DEF History!Return, View, Created, Lost, Raced
    <3> QED BY <3>1 DEF History!Next
  <2>6. status[i] \in {"SUCCEEDED", "FAILED"}
    BY <1>4 DEF OutcomeWritten, FinishSteps
  <2>7. \/ jobs[i] = "ACTIVE"
        \/ jobs[i] = "SUCCEEDED" /\ status[i] = "FAILED"
        \/ jobs[i] = "absent" /\ TypeOf[i] \in overlapped
    BY <1>4, <2>6 DEF OutcomeWritten, SuccessIsStored
  <2> QED BY <2>3, <2>4, <2>5, <2>7 DEF View, Raced, IsSync
<1>5. CASE pc[i] = "job2"
  <2>1. jobs[i] = "ACTIVE" /\ status[i] = "ACTIVE"
    BY <1>5 DEF CreatedActive, StatusWritten, CreateSteps
  <2>2. View' = View
    BY <1>1, <2>1 DEF View
  <2>3. Created' = Created
    BY <1>5 DEF JobPuts, Created
  <2> QED BY <1>1, <1>2, <2>2, <2>3 DEF History!vars, View, Created, Lost, Raced
<1>6. CASE pc[i] = "fjob2"
  <2>1. Created' = Created /\ i \in Created
    BY <1>6 DEF JobPuts, Created
  <2>2. CASE jobs[i] = status[i]
    <3>1. View' = View
      BY <1>1, <2>2 DEF View
    <3> QED BY <1>1, <1>2, <2>1, <3>1 DEF History!vars, View, Created, Lost, Raced
  <2>3. CASE jobs[i] = "absent" /\ TypeOf[i] \in overlapped
    <3>1. status[i] \in Finished /\ View[i] = "absent" /\ TypeOf[i] \in Raced
      BY <1>6, <2>3 DEF StatusWritten, FinishSteps, View, Raced, IsSync
    <3>2. History!Return(i)
      BY <1>1, <1>2, <2>1, <3>1 DEF History!Return, View, Created, Lost, Raced
    <3> QED BY <3>2 DEF History!Next
  <2> QED BY <1>6, <2>2, <2>3 DEF OutcomeWritten
<1> QED BY <1>3, <1>4, <1>5, <1>6 DEF JobPuts

\* A deletion or an expiry removes a job that has an outcome or whose runner has
\* crashed, or finds it gone.
LEMMA RemovalMaps ==
  ASSUME TypeOK, NEW i \in Jobs, jobs[i] = "ACTIVE" /\ IsSync(i) => pc[i] = "crashed",
         jobs' = [jobs EXCEPT ![i] = "absent"], UNCHANGED <<pc, overlapped>>
  PROVE  [History!Next]_(History!vars)
<1> USE DEF TypeOK, SyncJobIds
<1>1. Created' = Created /\ Lost' = Lost /\ Raced' = Raced
  BY DEF Created, Lost, Raced
<1>2. CASE i \in SyncJobIds /\ jobs[i] # "absent"
  <2>1. History!Remove(i)
    BY <1>1, <1>2 DEF History!Remove, View, Created, Lost, Raced, Finished
  <2> QED BY <1>2, <2>1 DEF History!Next
<1>3. CASE ~(i \in SyncJobIds /\ jobs[i] # "absent")
  <2>1. View' = View
    BY <1>3 DEF View
  <2> QED BY <1>1, <2>1 DEF History!vars, View, Created, Lost, Raced
<1> QED BY <1>2, <1>3

\* An invocation that opens its window shows in the history, if at all, as the
\* meeting of two requests of its type.
LEMMA EntryMaps ==
  ASSUME TypeOK, NEW i \in Jobs, Enters(TypeOf[i]), View' = View, Created' = Created,
         Lost' = Lost
  PROVE  [History!Next]_(History!vars)
<1>1. CASE Raced' = Raced
  BY <1>1 DEF History!vars, View, Created, Lost, Raced
<1>2. CASE Raced' # Raced
  <2>1. overlapped' = overlapped \cup {TypeOf[i]}
    BY <1>2 DEF Enters, Raced
  <2>2. IsSync(i)
    BY <1>2, <2>1 DEF IsSync, Raced
  <2>3. Raced' = Raced \cup {TypeOf[i]}
    BY <2>1, <2>2 DEF IsSync, Raced
  <2>4. i \in SyncJobIds /\ History!Meet(TypeOf[i])
    BY <2>2, <2>3 DEF SyncJobIds, History!Meet, View, Created, Lost, Raced
  <2> QED BY <2>4 DEF History!Next
<1> QED BY <1>1, <1>2

\* Every step of the calls on the table is a step of the history or none.
LEMMA StepMaps ==
  ASSUME LifeInv, CreatedActive, SuccessIsStored, LockInv, OutcomeWritten, [Next]_vars
  PROVE  [History!Next]_(History!vars)
<1> USE ConstantsAssumption DEF LifeInv, TypeOK, table, runnerVars, execVars, notes
<1>0. ASSUME View' = View, Created' = Created, Lost' = Lost, Raced' = Raced
      PROVE  [History!Next]_(History!vars)
  BY <1>0 DEF History!vars, View, Created, Lost, Raced
<1>1. ASSUME NEW i \in Jobs, PutJob(i) PROVE [History!Next]_(History!vars)
  <2>1. CASE i \in SyncJobIds
    BY <1>1, <2>1, PutJobMaps
  <2>2. CASE i \notin SyncJobIds
    <3>1. View' = View /\ Created' = Created /\ Lost' = Lost /\ Raced' = Raced
      BY <1>1, <2>2 DEF PutJob, View, Created, Lost, Raced, SyncJobIds
    <3> QED BY <1>0, <3>1
  <2> QED BY <2>1, <2>2
<1>2. ASSUME NEW i \in Jobs, FinishPutsJob(i) PROVE [History!Next]_(History!vars)
  <2>1. i \notin SyncJobIds
    BY <1>2 DEF FinishPutsJob, JobPuts, LockInv, NoExecution, SyncJobIds
  <2>2. View' = View /\ Created' = Created /\ Lost' = Lost /\ Raced' = Raced
    BY <1>2, <2>1 DEF FinishPutsJob, View, Created, Lost, Raced, SyncJobIds
  <2> QED BY <1>0, <2>2
<1>3. ASSUME NEW d \in Deleters, DeleteItem(d) PROVE [History!Next]_(History!vars)
  <2>1. Deleting(d) /\ del[d].job \in Jobs /\ jobs[del[d].job] # "ACTIVE"
    BY <1>3 DEF DeleteItem, Deleting, DeleteHasJob, DeletingOnlyFinished
  <2> QED BY <1>3, <2>1, RemovalMaps DEF DeleteItem
<1>4. ASSUME NEW i \in Jobs, ExpireJob(i) PROVE [History!Next]_(History!vars)
  <2>1. jobs[i] = "ACTIVE" /\ IsSync(i) => pc[i] = "crashed"
    BY <1>4 DEF ExpireJob, Quiet, ActiveJobHasOwner, LockInv, NoExecution, CreateSteps,
       ScanSteps, FinishSteps
  <2> QED BY <1>4, <2>1, RemovalMaps DEF ExpireJob
<1>5. ASSUME NEW i \in Jobs, \/ StartScan(i) /\ marker[TypeOf[i]].JobStatus # "ACTIVE"
                             \/ WriteLastBatch(i)
                             \/ ScanRaises(i) /\ Enters(TypeOf[i])
                             \/ FinishReads(i)
                             \/ (\E d \in Deleters : DeleteGetsJob(d, i))
      PROVE  [History!Next]_(History!vars)
  <2>1. Enters(TypeOf[i]) /\ UNCHANGED jobs /\ Created' = Created /\ Lost' = Lost
    BY <1>5 DEF StartScan, WriteLastBatch, ScanRaises, FinishReads, DeleteGetsJob,
       ScanSteps, FinishSteps, Created, Lost, SyncJobIds
  <2>2. View' = View
    BY <2>1 DEF View
  <2> QED BY <2>1, <2>2, EntryMaps
<1>6. ASSUME NEW i \in Jobs, \/ StartScan(i) /\ marker[TypeOf[i]].JobStatus = "ACTIVE"
                             \/ ScanRaises(i) /\ UNCHANGED overlapped
                             \/ ScanReturns(i) \/ StartExecution(i) \/ ScpScanReturns(i)
                             \/ ScpScanFails(i) \/ WriteScpFailure(i)
      PROVE  [History!Next]_(History!vars)
  <2>1. /\ UNCHANGED <<jobs, overlapped>> /\ Created' = Created /\ Lost' = Lost
    BY <1>6 DEF StartScan, ScanReturns, StartExecution, ScpScanReturns, ScpScanFails,
       WriteScpFailure, ScanRaises, ScanSteps, FinishSteps, Created, Lost, SyncJobIds
  <2> QED BY <1>0, <2>1 DEF View, Raced
<1>7. ASSUME NEW i \in Jobs, PutMarker(i) PROVE [History!Next]_(History!vars)
  <2>1. UNCHANGED <<jobs, overlapped>> /\ Created' = Created /\ Lost' = Lost
    BY <1>7 DEF PutMarker, MarkerPuts, Created, Lost, SyncJobIds
  <2> QED BY <1>0, <2>1 DEF View, Raced
<1>8. ASSUME NEW i \in Jobs, RunnerCrashes(i) PROVE [History!Next]_(History!vars)
  <2>1. /\ UNCHANGED <<jobs, overlapped>> /\ pc' = [pc EXCEPT ![i] = "crashed"]
        /\ pc[i] # "crashed"
    BY <1>8 DEF RunnerCrashes, CreateSteps, ScanSteps, FinishSteps
  <2>2. CASE i \in SyncJobIds
    <3>1. History!Lose(i)
      BY <2>1, <2>2 DEF History!Lose, SyncJobIds, View, Created, Lost, Raced
    <3> QED BY <2>2, <3>1 DEF History!Next
  <2>3. CASE i \notin SyncJobIds
    BY <1>0, <2>1, <2>3 DEF View, Created, Lost, Raced, SyncJobIds
  <2> QED BY <2>2, <2>3
<1>9. CASE UNCHANGED <<jobs, pc, overlapped>>
  BY <1>0, <1>9 DEF View, Created, Lost, Raced
<1>10. ASSUME NEW i \in Jobs, ScanRaises(i) PROVE Enters(TypeOf[i]) \/ UNCHANGED overlapped
  BY <1>10 DEF ScanRaises
<1> QED
  BY <1>1, <1>2, <1>3, <1>4, <1>5, <1>6, <1>7, <1>8, <1>9, <1>10
  DEF Next, Continue, RunnerStep, ExecStep, DeleteStep, vars, WriteBatch, TaskFails,
      ScanEnds, FinishFindsNoJob, FinishPutsMarker, FinishRetried, FinishCrashes,
      ExpireFindings, ExpireMarker, DeleteSomeFindings, DeleteLastFindings,
      DeleteReadsMarker, DeleteMarker, DeleteRaises, DeleteCrashes

\* What readers see of the synchronous jobs is the history that JobHistory
\* promises, whatever crashes, meets, is deleted or expires (the safety part of
\* ImplementsJobHistory).
THEOREM HistoryIsKept == Spec => History!Init /\ [][History!Next]_(History!vars)
<1>1. Init => History!Init
  BY DEF Init, History!Init, SyncJobIds
<1>2. Init => OutcomeWritten
  BY DEF Init, OutcomeWritten, FinishSteps
<1>3. Init => SuccessIsStored
  BY DEF Init, SuccessIsStored
<1>4. LifeInv /\ CreatedActive /\ SuccessIsStored /\ [Next]_vars => SuccessIsStored'
  BY SuccessIsStoredStep
<1>5. LifeInv /\ CreatedActive /\ SuccessIsStored /\ LockInv /\ WindowsExclude
        /\ OutcomeWritten /\ [Next]_vars => OutcomeWritten'
  BY OutcomeWrittenStep
<1>6. LifeInv /\ CreatedActive /\ SuccessIsStored /\ LockInv /\ OutcomeWritten /\ [Next]_vars
        => [History!Next]_(History!vars)
  BY StepMaps
<1> QED BY WindowsInvariant, <1>1, <1>2, <1>3, <1>4, <1>5, <1>6, PTL DEF Spec
=============================================================================
