CONSTANTS
    m1 = m1  m2 = m2  r1 = r1  e1 = e1  e2 = e2  l1 = l1  l2 = l2
    NoAccount = NoAccount
    NoRecipient = NoRecipient
    NoMailing = NoMailing
    Mailing <- TwoMailings
    Letter <- TwoLetters
    Letterings <- BothLetterings
    Recipient <- OneRecipient
    Account <- TwoAccounts
    Main <- e1
    MaxSent = 2
    MaxRetries = 1
    MaxFaults = 2
    Considered <- ConsideredBoth
SPECIFICATION Spec
CHECK_DEADLOCK FALSE
INVARIANTS NobodyTwice SuccessMeansSent
PROPERTIES OptOutKept NobodyForgotten AccountsObeyAdmin ActiveFinishes
