\* Finding: a failed start leaves its state machine running beside the next scan,
\* without any two windows meeting.
SPECIFICATION ApartSpec
CONSTANTS
  Types <- MCTypes
  SyncTypes <- MCSyncTypes
  Jobs <- MCJobs
  TypeOf <- MCTypeOf
  SyncType = DELEGATED_ADMIN
  AsyncType = POLICY_EXPLORER
  SyncJobs = {}
  AsyncJobs = {a1, a2}
  Deleters = {d1}
  NoJob = NoJob
  MaxAttempts = 1
  Faults = {}
INVARIANT OneScanPerType

CHECK_DEADLOCK FALSE
