SPECIFICATION FairSpec
CONSTANT
    StepCount = 3
INVARIANTS
    TypeOK
    

    
CHECK_DEADLOCK FALSE
