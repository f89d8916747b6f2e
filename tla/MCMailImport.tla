---------------------------- MODULE MCMailImport ----------------------------
\* A small instance of MailImport for model checking.
EXTENDS MailImport

CONSTANTS p1, p2

TwoProcesses == {p1, p2}
=============================================================================
