SPECIFICATION LiveSpec
CONSTANTS
  MaxReviews = 3
  MaxArtifacts = 1
  MaxRetries = 2
  MaxFaults = 1
  MaxResets = 1
CHECK_DEADLOCK FALSE
INVARIANT NewIdsAreUnused
 
PROPERTY OldActivitiesGo
