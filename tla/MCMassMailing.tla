---------------------------- MODULE MCMassMailing ----------------------------
\* A small instance of MassMailing for model checking.
EXTENDS MassMailing, TLC

CONSTANTS m1, m2, r1, e1, e2, l1, l2

TwoMailings == {m1, m2}
TwoLetters == {l1, l2}
SameLetter == [m \in TwoMailings |-> l1]
OwnLetter == m1 :> l1 @@ m2 :> l2
BothLetterings == {SameLetter, OwnLetter}
OwnLettering == {OwnLetter}

\* With two messages, only what bears on the opt-out is considered.
OptOutFaults == {"optout", "account_deleted", "account_off", "overlap", "crash"}
ConsideredBoth == SameLetter :> Fault @@ OwnLetter :> OptOutFaults
ConsideredOwn == OwnLetter :> {"optout", "account_deleted"}
OneRecipient == {r1}
TwoAccounts == {e1, e2}
=============================================================================
