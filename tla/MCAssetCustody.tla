--------------------------- MODULE MCAssetCustody ---------------------------
\* A small instance of AssetCustody for model checking.
EXTENDS AssetCustody, TLC

CONSTANTS h1, s1, m1, m2, w1, w2

OneHardware == {h1}
OneSoftware == {s1}
NoSoftware == {}
TwoAssignments == {m1, m2}
TwoWorkers == {w1, w2}
OneWorker == {w1}

Symmetry == Permutations(Assignment) \cup Permutations(Worker)
=============================================================================
