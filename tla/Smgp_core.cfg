SPECIFICATION FairSpec
CONSTANTS
    Instruction <- MCInstruction
    MaxNnz = 1
    NodeCount = 1
    ArrayRows = 1
    HdBanks = 2
    Batch = 2
INVARIANTS
    OneAtWork
    StatusTellsWork
PROPERTIES
    WorkEnds
