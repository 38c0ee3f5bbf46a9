SPECIFICATION MCSpec
CONSTANTS
    ByteCount = {0, 1, 1024, 1025, 2500}
    BurstLen = {0, 1, 2, 4}
    Width = 3
    Here <- MCHere
    Dest <- MCDest
    Depth = 2
    Linked = {"local", "west"}
    MaxFlits = 4
    Entries = 3
    WordBits = 2
    Key = {2, 3}
    Vector = {1, 2}
    TileRows = 2
    TileCols = 2
    Conductance = {0, 2, 3}
    MaxProducts = 2
    Id = {a, b, c, d}
    TileSize = 2
    NumTiles = 2
    MaxRows = 6
    Instr = {i1, i2}
    NoInstr = NoInstr
    MaxPolls = 2
    Buffer = {x, y, z}
    Size <- MCSize
INVARIANTS TransferExact  LocalInOrder
    BestMatchFound FirstProductExact HandlerSeesDevice
    AnswerIsOwn BuffersTracked
PROPERTY FreshAddressFound
CHECK_DEADLOCK FALSE
