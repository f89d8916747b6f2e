-------------------------- MODULE MCAccessApproval --------------------------
\* A small instance of AccessApproval for model checking.
EXTENDS AccessApproval, FiniteSets, TLC

CONSTANTS w1, w2, a1, t1, t2, t3, p1, p2

OneWorker == {w1}
TwoWorkers == {w1, w2}
NoAdmin == {}
OneAdmin == {a1}
OneToken == {t1}
TwoTokens == {t1, t2}
ThreeTokens == {t1, t2, t3}
OneApprover == {p1}
TwoApprovers == {p1, p2}

\* The workers, tokens and approvers are interchangeable.
Symmetry == Permutations(Worker) \cup Permutations(Token)
                \cup Permutations(Approver)

\* The approvers that have been named so far.
Named == ({row.approver} \cup {obj[w].approver : w \in Worker}
              \cup {m[2] : m \in mailed}) \ {NoApprover}

\* Bound: a new employee's request has one handler at a time and the admin form,
\* three tokens and two approvers; one for IT, the only type that is routed, has
\* one handler; a repair's has two handlers at a time, two tokens and one approver.
Small ==
    /\ request_type # "ASSET_REPAIR" =>
           Cardinality({w \in Worker : pc[w] # "idle"}) <= 1
    /\ request_type # "NEW" => /\ \A a \in Admin : form[a].status \in Absent
                               /\ Cardinality(issued) <= 2
                               /\ Cardinality(Named) <= 1

\* Bound: the hazards are shared out to where they tell.
ConsideredEach ==
    [type \in Types |->
        CASE type = "NEW" -> {"crash"}
          [] type = "IT"  -> {"mail_failure", "delete"}
          [] OTHER        -> {"lost_update", "delete", "staff_edit"}]
ConsideredNew == [type \in Types |-> {"lost_update"}]
=============================================================================
