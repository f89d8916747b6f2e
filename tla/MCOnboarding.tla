---------------------------- MODULE MCOnboarding ----------------------------
\* A small instance of Onboarding for model checking.
EXTENDS Onboarding, TLC

CONSTANTS a1, a2, h1, h2

TwoAccounts == {a1, a2}
TwoHandlers == {h1, h2}
Alike == Permutations(TwoAccounts) \cup Permutations(TwoHandlers)
=============================================================================
