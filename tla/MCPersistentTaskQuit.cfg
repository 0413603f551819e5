SPECIFICATION FairSpec
CONSTANT
    StepCount = 2
PROPERTIES
    CancelledSessionEnds
CHECK_DEADLOCK FALSE
