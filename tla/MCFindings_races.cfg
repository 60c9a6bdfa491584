\* Scans run beside each other and beside deletions, findings expire; the findings of
\* a job may exceed a batch and a page.
SPECIFICATION Spec
CONSTANTS
  NumJobs = 2
  Keys = {k1, k2}
  Jobs <- MCJobs
  Deleters = {d1, d2}
  NoJob = NoJob
  BatchSize = 1
  PageSize = 1
SYMMETRY Symmetry
INVARIANTS FindingsInv DeletedWithFindings LossesExplained StolenInOverlap
CHECK_DEADLOCK FALSE
