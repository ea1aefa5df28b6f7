SPECIFICATION Spec
CONSTANTS
    MaxGen = 2
    MaxTime = 3
    Budget = 1
    MaxLease = 0
    MaxAge = 1
    InterruptMax = 1
    FailureThreshold = 1
    MaxArms = 2
    MaxVerifies = 0
    MaxRecovers = 0
    MaxFaults = 1
INVARIANTS
    OwnEvidence
PROPERTIES
    SettledIsFinal
