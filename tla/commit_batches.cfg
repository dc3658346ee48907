SPECIFICATION BLiveSpec
CONSTANTS
  Calls = {c1, c2}
  Committers = {c1, c2}
  a = a
  x = x
  o = o
  c1 = c1
  c2 = c2
  r1 = r1
  Artifacts = {a, x, o}
  Summaries = {}
  Keys <- KeySet
  Key <- KeyOf
  Reviews = {r1, r2, r3}
  Batches <- NoBatches
  Plans <- AllPlans
  Session <- Drafts
  None = None
  Manual = Manual
  PageSize = 30
  MaxFaults = 1
  MaxRestarts = 1
  MaxUserActs = 1
CHECK_DEADLOCK FALSE
INVARIANT OneCopyPerFinding
PROPERTY CommitsOnce
PROPERTY EveryCommitEnds
