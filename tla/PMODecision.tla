---------------------------- MODULE PMODecision ----------------------------
(***************************************************************************)
(* What the PMO is promised: a delivery request is opened once, decided    *)
(* once, and gets its requisition (the PMORequest with the RI number) if   *)
(* and only if it is approved.  The requisition is raised first, and from  *)
(* then on the request can only be approved, and will be.                  *)
(***************************************************************************)
VARIABLES decision, requisition

vars == <<decision, requisition>>

Init == decision = "UNBORN" /\ requisition = FALSE

Open ==
    decision = "UNBORN" /\ decision' = "PENDING" /\ UNCHANGED requisition

Raise ==
    /\ decision = "PENDING" /\ ~requisition
    /\ requisition' = TRUE /\ UNCHANGED decision

Approve ==
    /\ decision = "PENDING" /\ requisition
    /\ decision' = "APPROVED" /\ UNCHANGED requisition

Reject ==
    /\ decision = "PENDING" /\ ~requisition
    /\ decision' = "REJECTED" /\ UNCHANGED requisition

\* Others take the matter into their hands: nothing is promised from then on.
Void == decision # "VOID" /\ decision' = "VOID" /\ requisition' = FALSE

Next == Open \/ Raise \/ Approve \/ Reject \/ Void

Spec == Init /\ [][Next]_vars /\ WF_vars(Approve)
=============================================================================
