CONSTANTS
    p1 = p1  p2 = p2  s1 = s1  s2 = s2  f1 = f1  f2 = f2
    Colleague <- TwoPersons
    Sub <- TwoSubs
    TaskForm <- TwoForms
    MaxTaskFaults = 1
    TaskConsidered = {"overlap", "stale_page", "mail", "outsider", "owner", "reassigned", "deleted"}
SPECIFICATION TaskSpec
SYMMETRY Alike
INVARIANTS ClosedMeansDone DoneMeansClosed ActiveColumn
