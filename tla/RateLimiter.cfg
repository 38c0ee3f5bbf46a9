SPECIFICATION LimiterSpec
CONSTANTS
    Client = {c1, c2}
    Max = 2
    Window = 3
    MaxClock = 7
SYMMETRY MCSymmetry
INVARIANTS WindowBound RejectJustified
