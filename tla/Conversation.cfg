SPECIFICATION Spec
CONSTANTS
    Entity = {e1}
    MaxTurns = 4
    Window = 2
    Torn = Torn
    NoFile = NoFile
    NoGraph = NoGraph
    Absent = Absent
INVARIANTS
    RecentRecalled
    RecallSound
    ThreadUnbroken
    ToolKeepsFacts
    CheckpointFaithful
