\* Refinement of ScanReport: two accounts side by side, two retries.
SPECIFICATION FairSpec
CONSTANTS
  iam = iam
  sqs = sqs
  kms = kms
  polly = polly
  Accounts = {a1, a2}
  Services = {sqs}
  Supported <- MCSupported
  Global <- MCGlobal
  Regions = {r1}
  None = None
  MaxConcurrency = 2
  MaxAttempts = 3
  Faults = {"client_error", "raise", "lost"}
INVARIANT FailedOnlyByError
PROPERTY ImplementsScanReport
CHECK_DEADLOCK FALSE
