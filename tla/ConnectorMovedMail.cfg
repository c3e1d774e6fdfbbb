SPECIFICATION Spec
CONSTANTS
    m1 = m1
    m2 = m2
    None = None
    Mail <- TwoMails
    ReceivedAt <- Received
    Shown <- Exact
    Unstamped <- NoMail
    IgnoreReceivedBefore = None
    PageSize = 1
    MaxTime = 2
    BatchMax = None
    NewerHold = None
    ModifiedHold = None
    RepublishAfter = None
    IncludeMime = FALSE
    Unfetchable <- NoMail
    WithAttachments <- NoMail
    Unpublishable <- NoMail
    BusFaults <- LostOrUnacked
    MaxFaults = 1
PROPERTIES
    MovedMailIsSkipped
