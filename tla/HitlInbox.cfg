SPECIFICATION FairSpec
CONSTANTS
    i1 = i1  i2 = i2  h1 = h1  x1 = x1  x2 = x2
    NoSession = NoSession  Nothing = Nothing
    Item <- MemoryAndMission
    MemoryItem <- Memory
    AutoAction <- AutoApprove
    Human <- OneHuman
    Expirer <- TwoExpirers
    MaxRequests = 2
    MaxFaults = 1
INVARIANTS InboxInv DecidedTogether ApprovalSignalled
PROPERTIES ImplementsInbox ExpiryKeepsAnswers StaleItemsDecided
CHECK_DEADLOCK FALSE
