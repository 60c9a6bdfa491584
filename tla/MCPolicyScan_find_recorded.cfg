\* The found policies are not recorded.
SPECIFICATION Spec
CONSTANTS
  iam = iam
  sqs = sqs
  kms = kms
  polly = polly
  Accounts = {a1}
  Services = {sqs}
  Supported <- MCSupported
  Global <- MCGlobal
  Regions = {r1}
  None = None
  MaxConcurrency = 1
  MaxAttempts = 1
  Faults = {}
INVARIANT FoundPoliciesRecorded
CHECK_DEADLOCK FALSE
