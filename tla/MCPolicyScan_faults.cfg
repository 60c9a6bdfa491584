\* One account, a global, a regional and an unsupported service, every fault, late invocations included.
SPECIFICATION Spec
CONSTANTS
  iam = iam
  sqs = sqs
  kms = kms
  polly = polly
  Accounts = {a1}
  Services = {iam, sqs, polly}
  Supported <- MCSupported
  Global <- MCGlobal
  Regions = {r1, r2}
  None = None
  MaxConcurrency = 2
  MaxAttempts = 2
  Faults = {"client_error", "raise", "lost", "late", "lag"}
SYMMETRY Symmetry
INVARIANTS TypeOK NothingSkippedSilently ScanInv UnreportedFailures
CHECK_DEADLOCK FALSE
