SPECIFICATION LiveSpec
CONSTANTS
  Calls = {c1, c2, c3}
  Valid = {c1, c2}
  Drafts = {d, h}
  Robot = {d}
  Batches = {b1, b2, b3}
  None = None
  MaxFaults = 1
CHECK_DEADLOCK FALSE
INVARIANT NothingAcceptedIsLost
INVARIANT ReviewKeepsItsWord
INVARIANT OneBatchPerComment
PROPERTY FileIsOneSession
PROPERTY EveryCallAnswered
