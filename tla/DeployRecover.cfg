SPECIFICATION Spec
CONSTANTS
    MaxGen = 1
    MaxTime = 2
    Budget = 2
    MaxLease = 2
    MaxAge = 1
    InterruptMax = 1
    FailureThreshold = 1
    MaxArms = 1
    MaxVerifies = 0
    MaxRecovers = 1
    MaxFaults = 1
INVARIANTS
    RestoreIsFenced
    OneRestorer
    WriterHoldsLease
