SPECIFICATION Spec
INVARIANT NotReviewedAgain
CONSTANTS
  PRs = {p, q}
  MaxHead = 2
  AutoReview = {TRUE}
  MaxMishaps = 0
  MaxPushes = 1
  MaxUserActs = 0
CHECK_DEADLOCK FALSE
