SPECIFICATION FairSpec
CONSTANTS
    Interval = 2
    Slack = 3
    BeatEvery = 1
    RequestMax = 1
    PublishMax = 3
    MaxRetries = 1
    FolderMax = 2
    QuietMax = 3
    ShiftMax = 2
INVARIANTS
    TypeOK
    BeatsInTime
    ProbesTellLastOutcome
PROPERTIES
    HealthyNeverKilled
    WedgeNoticed
