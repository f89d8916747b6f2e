CONSTANTS
    p1 = p1  p2 = p2
    Process <- TwoProcesses
    MaxMessages = 2
    QueueSize = 1
    InquirySize = 1
    Batch = 1
    MaxPicks = 1
    MaxFaults = 1
    Considered = {"unfetched", "unreadable", "manual", "limit", "crash", "second", "twin", "no_request"}
SPECIFICATION FairSpec
INVARIANTS TypeOK NoneSkipped StoredOnce
PROPERTIES ArrivesInTheEnd
