SPECIFICATION FairSpec
CONSTANTS
    Mail = {1, 2, 3}
    BatchMax = 2
    RepublishAfter = 3
    CycleMax = 2
    Laps = 2
    StreamMax = 1
    Slack = 1
    MaxFaults = 1
    None = None
INVARIANTS
    TypeOK
    NoneStarves
PROPERTIES
    KeepsComing
    EmptiedInTheEnd
