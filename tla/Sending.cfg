SPECIFICATION FairSpec
CONSTANTS
    small = small
    missing = missing
    large = large
    larger = larger
    None = None
    Attachment <- AllSizes
    Large <- LargeOnes
    Size <- Sizes
    ChunkSize = 2
    MaxRetries = 2
    Answers = {"200", "302", "404", "429", "500", "503", "lost"}
    Ambiguous = {"500", "503", "lost"}
    Unreadable <- MissingOne
INVARIANTS
    TypeOK
    Assembled
    SentIsComplete
    NeverLost
    DoneAsReported
    CopiesBounded
PROPERTIES
    CallEnds
    StepsCount
