SPECIFICATION LiveSpec
CONSTANTS
  PRs = {p, q}
  MaxHead = 2
  AutoReview = {TRUE, FALSE}
  MaxMishaps = 1
  MaxPushes = 1
  MaxUserActs = 1
CHECK_DEADLOCK FALSE
INVARIANT MarksAreEarned
INVARIANT RepeatsAreAccounted
 
PROPERTY ClosedCheckoutGoes
