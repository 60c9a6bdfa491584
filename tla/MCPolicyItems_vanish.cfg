\* One policy that changes and vanishes, two scans a day, items that live for two days.
SPECIFICATION FairSpec
CONSTANTS
  long = long
  short = short
  single = single
  Scans = {s1, s2}
  Policies = {1}
  Documents = {long, short, single}
  MaxSize = 2
  Size <- MCSize
  Single = {single}
  Absent = Absent
  Lifetime = 2
  Filters <- MCFilters
  Pages = {1, 2, 4}
  Limit = 2
PROPERTY FormerContentVanishes
CHECK_DEADLOCK FALSE
