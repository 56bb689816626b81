CONSTANTS
    RotateAfter = 3
    Grace = 2
    Faults <- OnlyLoss
    MaxTime = 8
    MaxTokens = 4
SPECIFICATION Spec
INVARIANTS Welcome
