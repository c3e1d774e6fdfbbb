SPECIFICATION FairSpec
CONSTANTS
    Mail = {1, 2, 3}
    BatchMax = 1
    RepublishAfter = 2
    CycleMax = 1
    Laps = 2
    StreamMax = 1
    Slack = 0
    MaxFaults = 0
    None = None
PROPERTIES
    BacklogDrains
