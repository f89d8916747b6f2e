----------------------------- MODULE MCDealFlow -----------------------------
\* A small instance of DealFlow for model checking.
EXTENDS DealFlow

CONSTANTS l1, l2, c1, c2, r1, r2

TwoLeads == {l1, l2}
TwoContacts == {c1, c2}
TwoReminders == {r1, r2}
Parties == [party |-> {l1, c1, c2}, edits |-> {"party"}, reminders |-> {},
            open |-> 2]
Statuses == [party |-> {l1, c1}, edits |-> {"status"}, reminders |-> {r1},
             open |-> 1]
Reminders == [party |-> {l1}, edits |-> {"status"}, reminders |-> {r1, r2},
              open |-> 1]
Leads == [party |-> {l1, l2}, edits |-> {}, reminders |-> {}, open |-> 1]
FourWorlds == {Parties, Statuses, Reminders, Leads}
=============================================================================
