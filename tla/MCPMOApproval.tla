---------------------------- MODULE MCPMOApproval ----------------------------
\* A small instance of PMOApproval for model checking.
EXTENDS PMOApproval

CONSTANTS w1, w2, a1

TwoWorkers == {w1, w2}
OneAdmin == {a1}
=============================================================================
