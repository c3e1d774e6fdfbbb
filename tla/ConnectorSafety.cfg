SPECIFICATION Spec
CONSTANTS
    m1 = m1
    m2 = m2
    None = None
    Mail <- TwoMails
    ReceivedAt <- ReceivedLongAgo
    Shown <- Coarse
    Unstamped <- NoMail
    IgnoreReceivedBefore = None
    PageSize = 1
    MaxTime = 3
    BatchMax = None
    NewerHold = None
    ModifiedHold = None
    RepublishAfter = None
    IncludeMime = TRUE
    Unfetchable <- NoMail
    WithAttachments <- JustM1
    Unpublishable <- JustM2
    BusFaults <- LostOrUnacked
    MaxFaults = 1
INVARIANTS
    TypeOK
    SuppressedIsCurrent
    MemoryBounded
    SummaryHonest
    Consistent
    WithinListing
