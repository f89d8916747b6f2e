CONSTANTS
    w1 = w1  w2 = w2  a1 = a1
    Worker <- TwoWorkers
    Admin <- OneAdmin
    Considered = {"overlap","stale_form","staff_edit","crash","torn","mail_failure","delete"}
SPECIFICATION FairSpec
CHECK_DEADLOCK FALSE
INVARIANTS  ToldWhatStands 
 
