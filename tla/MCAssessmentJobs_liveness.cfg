\* Refinement of JobHistory and liveness, with every fault.
SPECIFICATION OneTypeFairSpec
CONSTANTS
  Types <- MCTypes
  SyncTypes <- MCSyncTypes
  Jobs <- MCJobs
  TypeOf <- MCTypeOf
  SyncType = DELEGATED_ADMIN
  AsyncType = POLICY_EXPLORER
  SyncJobs = {i1, i2}
  AsyncJobs = {a1}
  Deleters = {d1}
  NoJob = NoJob
  MaxAttempts = 2
  Faults = {"crash", "retry", "expire"}
PROPERTIES ImplementsJobHistory JobFinishes TypeIsFreed
CHECK_DEADLOCK FALSE
