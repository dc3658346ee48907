SPECIFICATION Spec
CONSTANTS
  Runs = {r1, r2}
  r1 = r1
  r2 = r2
  Profiles <- TwoProfiles
  Interval = 1
  MaxTime = 2
  MaxFaults = 1
  OnMac = TRUE
SYMMETRY SymmetricRuns
INVARIANT UsedProfileIsPublished
INVARIANT OldProfileIsExcused
PROPERTY FailuresAreExplained
