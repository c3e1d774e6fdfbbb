SPECIFICATION FairSpec
CONSTANTS
    m1 = m1
    m2 = m2
    None = None
    Mail <- TwoMails
    ReceivedAt <- Received
    Shown <- Exact
    Unstamped <- JustM2
    IgnoreReceivedBefore = 0
    PageSize = 2
    MaxTime = 3
    BatchMax = None
    NewerHold = 1
    ModifiedHold = None
    RepublishAfter = 2
    IncludeMime = FALSE
    Unfetchable <- NoMail
    WithAttachments <- NoMail
    Unpublishable <- NoMail
    BusFaults <- LostOrUnacked
    MaxFaults = 1
INVARIANTS
    Admitted
    AckedSettled
PROPERTIES
    PublishedOnce
    FetchedOnce
    OfferedAgain
    ImplementsBridge
