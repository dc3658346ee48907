SPECIFICATION FairSpec
CONSTANTS
    MaxReviews = 1
    MaxActivities = 2
    MaxTasks = 2
    Kinds = {1}
    MaxEvents = 2
PROPERTY MenuCatchesUp
PROPERTY InterruptedAreDead
