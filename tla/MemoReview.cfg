CONSTANTS
    p1 = p1  p2 = p2  s1 = s1  o1 = o1  o2 = o2  f1 = f1  f2 = f2  None = None
    Person <- TwoPersons
    Subscriber <- OneSubscriber
    Outcome <- TwoOutcomes
    Form <- TwoForms
    Worlds <- ThreeWorlds
    MaxFaults = 1
    Considered = {"overlap", "stale_page", "readdressed", "answered", "by_hand"}
SPECIFICATION Spec
CHECK_DEADLOCK FALSE
INVARIANTS Told ReviewTold OutcomeLinked
PROPERTIES ReviewStands

SYMMETRY Perms
