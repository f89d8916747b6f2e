CONSTANTS
    h1 = h1  s1 = s1  m1 = m1  m2 = m2  w1 = w1  w2 = w2
    NoAsset = NoAsset
    NoAssignment = NoAssignment
    Hardware <- OneHardware
    Software <- OneSoftware
    Assignment <- TwoAssignments
    Worker <- OneWorker
    Considered = {"overlap","stale_choice","crash","delete","staff","fix"}
    MaxFaults = 2
SPECIFICATION Spec
SYMMETRY Symmetry
CHECK_DEADLOCK FALSE
INVARIANTS HeldIsAssigned AssignedIsHeld OneHolder ConditionIsKept
