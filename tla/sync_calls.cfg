SPECIFICATION LiveSpec
CONSTANTS
  Calls = {c1, c2}
  a = a
  b = b
  x = x
  s = s
  Artifacts = {a, b, s}
  Summaries = {s}
  Keys <- KeySet
  Key <- KeyOf
  Reviews = {r1, r2, r3}
  Batches <- WithSummary
  None = None
  Manual = Manual
  PageSize = 30
  MaxFaults = 1
  MaxRestarts = 1
  MaxUserActs = 2
CHECK_DEADLOCK FALSE
INVARIANT OneCopyPerFinding
INVARIANT StoreTellsTheTruth
PROPERTY EveryCallEnds
