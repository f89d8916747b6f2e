---------------------------- MODULE MCMemoReview ----------------------------
\* A small instance of MemoReview for model checking.
EXTENDS MemoReview, TLC

CONSTANTS p1, p2, s1, o1, o2, f1, f2

TwoPersons == {p1, p2}
OneSubscriber == {s1}
TwoOutcomes == {o1, o2}
TwoForms == {f1, f2}
Lettering == [persons |-> {p1, p2}, subscribers |-> {s1}, outcomes |-> {},
              roles |-> {"owner", "other"}, drafts |-> BOOLEAN]
Reviewing == [persons |-> {p1}, subscribers |-> {}, outcomes |-> {},
              roles |-> {"owner", "leader"}, drafts |-> BOOLEAN]
Answering == [persons |-> {p1}, subscribers |-> {}, outcomes |-> {o1, o2},
              roles |-> {"boss", "other"}, drafts |-> {FALSE}]
ThreeWorlds == {Lettering, Reviewing, Answering}

Perms == Permutations(TwoOutcomes) \cup Permutations(TwoForms)
=============================================================================
