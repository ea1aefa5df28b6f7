SPECIFICATION FairSpec
CONSTANTS
    MaxChange = 2
    MaxStamp = 2
    MaxAttempts = 2
    MaxKnownGood = 1
    MaxSnaps = 2
    MaxCrashes = 1
    MaxFails = 0
    MaxStops = 0
    MaxOps = 0
    MaxSignals = 1

    
PROPERTIES
    RollbacksStop
    InterruptedIsResumed
