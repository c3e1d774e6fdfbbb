SPECIFICATION FairSpec
CONSTANTS
    m1 = m1
    m2 = m2
    None = None
    Mail <- TwoMails
    ReceivedAt <- Received
    Shown <- Exact
    Unstamped <- NoMail
    IgnoreReceivedBefore = None
    PageSize = 1
    MaxTime = 2
    BatchMax = 1
    NewerHold = None
    ModifiedHold = 1
    RepublishAfter = None
    IncludeMime = TRUE
    Unfetchable <- NoMail
    WithAttachments <- JustM1
    Unpublishable <- NoMail
    BusFaults <- LostOrUnacked
    MaxFaults = 1
INVARIANTS
    BatchWithinMax
    OldestFirst
PROPERTIES
    CycleAdvances
    EventuallyDelivered
    QuietAtRest
