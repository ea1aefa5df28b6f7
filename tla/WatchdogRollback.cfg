SPECIFICATION Spec
CONSTANTS
    MaxChange = 1
    MaxStamp = 2
    MaxAttempts = 2
    MaxKnownGood = 1
    MaxSnaps = 2
    MaxCrashes = 1
    MaxFails = 2
    MaxStops = 1
    MaxOps = 1
    MaxSignals = 0
INVARIANTS
    TypeOK
    StoppedHasMarker
    
    RollbackExcludesOperation
