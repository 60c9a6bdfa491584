\* Finding: a task failure written after the finish handler read them.
SPECIFICATION Spec
CONSTANTS
  Types <- MCTypes
  SyncTypes <- MCSyncTypes
  Jobs <- MCJobs
  TypeOf <- MCTypeOf
  SyncType = DELEGATED_ADMIN
  AsyncType = POLICY_EXPLORER
  SyncJobs = {}
  AsyncJobs = {a1}
  Deleters = {d1}
  NoJob = NoJob
  MaxAttempts = 1
  Faults = {}
INVARIANT FailuresAreReported

CHECK_DEADLOCK FALSE
