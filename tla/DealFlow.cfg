CONSTANTS
    l1 = l1  l2 = l2  c1 = c1  c2 = c2  r1 = r1  r2 = r2  None = None
    Lead <- TwoLeads
    Contact <- TwoContacts
    Reminder <- TwoReminders
    Worlds <- FourWorlds
    MaxFaults = 1
    Considered = {"other_kind", "cleared", "unlinked", "mismatch", "relinked", "attached_late", "dropped", "stale_hook", "reopened", "withdrawn", "orphan", "crash"}
SPECIFICATION FairSpec
CHECK_DEADLOCK FALSE
INVARIANTS TypeOK SameParty ActiveIsRelevant FlagMeansReminder
  
