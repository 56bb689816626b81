CONSTANTS
    RotateAfter = 3
    Grace = 2
    Faults <- AllFaults
    MaxTime = 10
    MaxTokens = 5
SPECIFICATION FairSpec
INVARIANTS AtMostOneBehind NoLockout
PROPERTIES ImplementsHandover RotationAdopted
