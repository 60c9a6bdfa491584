\* Every scanner over two regions with two resources each.
SPECIFICATION Spec
CONSTANTS
  Services <- AllServices
  Regions = {r1, r2}
  Things = {t1, t2}
  None = None
SYMMETRY Symmetry
INVARIANTS TypeOK LossesAreKnown RegionErrorsStayLocal CrashNeedsReason WalkInv
PROPERTIES ImplementsTaskScan
CHECK_DEADLOCK FALSE
