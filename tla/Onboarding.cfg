CONSTANTS
    a1 = a1  a2 = a2  h1 = h1  h2 = h2
    NoAccount = NoAccount
    Account <- TwoAccounts
    Handler <- TwoHandlers
    MaxMails = 2
    MaxFaults = 1
    Considered = {"overlap", "crash", "no_it", "leaver", "renamed"}
SPECIFICATION Spec
SYMMETRY Alike
INVARIANTS OffboardedIsOut EmployedIsIn  ErasedIsGone
