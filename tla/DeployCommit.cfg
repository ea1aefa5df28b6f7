SPECIFICATION Spec
CONSTANTS
    MaxGen = 1
    MaxTime = 2
    Budget = 2
    MaxLease = 1
    MaxAge = 1
    InterruptMax = 1
    FailureThreshold = 1
    MaxArms = 1
    MaxVerifies = 1
    MaxRecovers = 0
    MaxFaults = 1
INVARIANTS
    TypeOK
    
    IndInv
PROPERTIES
    ImplementsContract
