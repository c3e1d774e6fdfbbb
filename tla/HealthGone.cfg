SPECIFICATION Spec
CONSTANTS
    Interval = 1
    Slack = 7
    BeatEvery = 1
    RequestMax = 3
    PublishMax = 3
    MaxRetries = 1
    FolderMax = 3
    QuietMax = 4
    ShiftMax = 0
INVARIANTS
    LongRescanNeverStale
