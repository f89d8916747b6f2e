----------------------------- MODULE MCTaskTree -----------------------------
\* A small instance of TaskTree for model checking.
EXTENDS TaskTree, TLC

CONSTANTS p1, p2, s1, s2, f1, f2

TwoPersons == {p1, p2}
TwoSubs == {s1, s2}
TwoForms == {f1, f2}
OneForm == {f1}
Alike == Permutations(TwoPersons) \cup Permutations(TwoSubs)
         \cup Permutations(TwoForms)
=============================================================================
