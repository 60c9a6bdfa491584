\* Requests of one type interleave call by call, crash, are retried and expire.
SPECIFICATION OneTypeSpec
CONSTANTS
  Types <- MCTypes
  SyncTypes <- MCSyncTypes
  Jobs <- MCJobs
  TypeOf <- MCTypeOf
  SyncType = DELEGATED_ADMIN
  AsyncType = POLICY_EXPLORER
  SyncJobs = {i1, i2}
  AsyncJobs = {a1}
  Deleters = {d1, d2}
  NoJob = NoJob
  MaxAttempts = 3
  Faults = {"crash", "retry", "expire", "lag"}
SYMMETRY Symmetry
INVARIANTS TypeOK DeletingOnlyFinished ActiveJobHasOwner NoOrphanFindings
  OneScanAtATime LatestListable MarkerAgreesWithJob
PROPERTIES FinishedNeverReactivated SucceededAfterWrite DeletedStaysDeleted
CHECK_DEADLOCK FALSE
