\* Two policies that change, scans that run beside each other and fail half way, items
\* that expire.
SPECIFICATION Spec
CONSTANTS
  long = long
  short = short
  single = single
  Scans = {s1, s2}
  Policies = {1, 2}
  Documents = {long, short, single}
  MaxSize = 2
  Size <- MCSize
  Single = {single}
  Absent = Absent
  Lifetime = 1
  Filters <- MCFilters
  Pages = {1, 2, 4}
  Limit = 2
INVARIANTS ItemsInv SettledFound SilentGapsExplained
CHECK_DEADLOCK FALSE
