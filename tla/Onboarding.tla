------------------------------ MODULE Onboarding ------------------------------
(***************************************************************************)
(* One employee between the first form and the last day: the record, the   *)
(* login account that follows it, and the mail that asks IT to equip the   *)
(* newcomer.                                                               *)
(*                                                                         *)
(* Every handler reads the record, changes its copy and saves the whole    *)
(* row; saving runs the signals that keep the account and mail IT.  A save *)
(* of a row that was deleted inserts it again.  The pages of the           *)
(* administration commit at once; restoring, erasing and the employee's    *)
(* own form commit after every save.                                       *)
(***************************************************************************)
EXTENDS FiniteSets, Naturals

CONSTANTS
    Account,      \* company e-mail addresses, each with its employee ID
    NoAccount,
    Handler,      \* bound: the requests served at one time
    MaxMails,     \* bound: how often IT is asked to equip the employee
    MaxFaults,    \* bound: how many kinds of hazardous events happen
    Considered    \* the hazardous events to consider, out of Fault

ASSUME OnboardingAssumption ==
    NoAccount \notin Account /\ MaxMails \in Nat /\ MaxFaults \in Nat

VARIABLES
    emp,       \* the Employee row
    user,      \* the User of each company e-mail address: none, on or off
    it,        \* whether there is an IT supporter and mails can be sent
    mails,     \* how often IT was asked to equip this employee
    handler,   \* what each request is doing
    left,      \* offboarded, and not restored since
    erased,    \* permanently deleted
    faults     \* the hazardous events so far

ghosts == <<left, erased>>
vars == <<emp, user, it, mails, handler, ghosts, faults>>

Fault == {"overlap",   \* a copy is written over a row that has changed or is
                       \* being erased, or somebody is offboarded while being
                       \* restored
          "crash",     \* a request dies between two commits
          "no_it",     \* IT cannot be mailed
          "leaver",    \* IT is mailed about an employee as he is deleted
          "renamed"}   \* an employee who has an account gets another one

\* del is is_deleted, own is is_self_submitted, told is it_notification_sent;
\* job says that department, position and type are complete, login is the
\* company e-mail address and the employee ID.
Row == [del : BOOLEAN, own : BOOLEAN, told : BOOLEAN, job : BOOLEAN,
        login : Account \cup {NoAccount}]
NoRow == [del |-> FALSE, none |-> TRUE]
Exists == emp # NoRow

\* copy is what a request will write, seen the row it has read or left.
Idle == [kind |-> "idle"]
Busy == [kind : {"own", "hr", "restore", "erase"},
         step : {"read", "saved", "again"}, copy : Row, seen : Row]

TypeOK ==
    /\ emp \in Row \cup {NoRow}
    /\ user \in [Account -> {"none", "on", "off"}]
    /\ it \in BOOLEAN
    /\ mails \in 0 .. MaxMails
    /\ handler \in [Handler -> Busy \cup {Idle}]
    /\ left \in BOOLEAN /\ erased \in BOOLEAN
    /\ faults \subseteq Fault

Init ==
    /\ emp = NoRow
    /\ user = [a \in Account |-> "none"]
    /\ it = TRUE
    /\ mails = 0
    /\ handler = [h \in Handler |-> Idle]
    /\ left = FALSE /\ erased = FALSE
    /\ faults = {}

-----------------------------------------------------------------------------
(***************************************************************************)
(* Saving the row, and the signals that follow.                            *)
(***************************************************************************)

\* sync_user_account: whoever has an ID and a company address has an account.
Sync(c) ==
    IF c.login # NoAccount /\ user[c.login] = "none"
    THEN [user EXCEPT ![c.login] = "on"] ELSE user

\* Mutant: the flag is not looked at.
NewsAlways(c) == c.job

\* send_it_asset_assignment_email is due once the details are complete.
News(c) == c.job /\ ~c.told

\* The flag is set in the row and not in the copy, and not in the row of a
\* deleted employee, which the manager does not see.
Stored(c) == IF News(c) /\ it /\ ~c.del THEN [c EXCEPT !.told = TRUE] ELSE c

\* save() of the copy c.
Save(c) ==
    /\ emp' = Stored(c)
    /\ user' = Sync(c)
    /\ News(c) /\ it => mails < MaxMails
    /\ mails' = IF News(c) /\ it THEN mails + 1 ELSE mails

Erasing == \E h \in Handler : handler[h].kind = "erase" /\ handler[h].step = "saved"

\* The hazards of writing c, which was made from the copy read.
Hazard(read, c) ==
    (IF read # emp \/ Erasing THEN {"overlap"} ELSE {})
    \cup (IF News(c) /\ ~it THEN {"no_it"} ELSE {})
    \cup (IF News(c) /\ it /\ c.del THEN {"leaver"} ELSE {})

-----------------------------------------------------------------------------
(***************************************************************************)
(* The employee.                                                           *)
(***************************************************************************)

\* The generic link, or no link: a new record, if the address is unknown.  Who
\* comes after an employee was erased is another employee.
SubmitNew ==
    /\ ~Exists /\ ~erased
    /\ Save([del |-> FALSE, own |-> TRUE, told |-> FALSE, job |-> FALSE,
             login |-> NoAccount])
    /\ UNCHANGED <<it, handler, ghosts, faults>>

\* The personal link leads to the form while the employee is neither deleted
\* nor through with it.
ReadOwn(h) ==
    /\ handler[h] = Idle
    /\ Exists /\ ~emp.del
    /\ ~emp.own
    /\ handler' = [handler EXCEPT ![h] =
                     [kind |-> "own", step |-> "read", copy |-> emp, seen |-> emp]]
    /\ UNCHANGED <<emp, user, it, mails, ghosts, faults>>

SaveOwn(h) ==
    /\ handler[h].kind = "own"
    /\ LET c == [handler[h].copy EXCEPT !.own = TRUE]
       IN  Save(c) /\ faults' = faults \cup Hazard(handler[h].seen, c)
    /\ handler' = [handler EXCEPT ![h] = Idle]
    /\ UNCHANGED <<it, ghosts>>

-----------------------------------------------------------------------------
(***************************************************************************)
(* The staff.                                                              *)
(***************************************************************************)

\* HR adds an employee.
Add(job, a) ==
    /\ ~Exists /\ ~erased
    /\ LET c == [del |-> FALSE, own |-> FALSE, told |-> FALSE, job |-> job,
                 login |-> a]
       IN  Save(c) /\ faults' = faults \cup Hazard(emp, c)
    /\ UNCHANGED <<it, handler, ghosts>>

ReadHR(h) ==
    /\ handler[h] = Idle
    /\ Exists /\ ~emp.del
    /\ handler' = [handler EXCEPT ![h] =
                     [kind |-> "hr", step |-> "read", copy |-> emp, seen |-> emp]]
    /\ UNCHANGED <<emp, user, it, mails, ghosts, faults>>

\* HR fills in the details, and may tick the box is_deleted.  The page of an
\* employee who is through with the own form is not sent while details miss.
SaveHR(h, job, a, del) ==
    /\ handler[h].kind = "hr"
    /\ handler[h].copy.own => job /\ a # NoAccount
    /\ LET r == handler[h].copy
           c == [r EXCEPT !.job = job, !.login = a, !.del = del]
       IN  /\ Save(c)
           /\ faults' = faults \cup Hazard(r, c)
                 \cup (IF r.login \notin {a, NoAccount} THEN {"renamed"} ELSE {})
    /\ handler' = [handler EXCEPT ![h] = Idle]
    /\ UNCHANGED <<it, ghosts>>

\* The delete button: a soft deletion, the account is left alone.
SoftDelete ==
    /\ Exists /\ ~emp.del
    /\ LET c == [emp EXCEPT !.del = TRUE]
       IN  Save(c) /\ faults' = faults \cup Hazard(emp, c)
    /\ UNCHANGED <<it, handler, ghosts>>

\* Mutant: the account is left alone, as by the delete button.
OffboardRecordOnly(a) ==
    /\ user[a] = "on"
    /\ IF Exists /\ ~emp.del /\ emp.login = a
       THEN LET c == [emp EXCEPT !.del = TRUE]
            IN  Save(c) /\ faults' = faults \cup Hazard(emp, c)
       ELSE UNCHANGED <<emp, user, mails, faults>>
    /\ left' = TRUE
    /\ UNCHANGED <<it, handler, erased>>

\* An offboarding record for a user who is active: the employee with the
\* address of the user is soft-deleted, the user deactivated.
Offboard(a) ==
    /\ user[a] = "on"
    /\ IF Exists /\ ~emp.del /\ emp.login = a
       THEN LET c == [emp EXCEPT !.del = TRUE]
            IN  /\ emp' = Stored(c)
                /\ News(c) /\ it => mails < MaxMails
                /\ mails' = IF News(c) /\ it THEN mails + 1 ELSE mails
                /\ faults' = faults \cup Hazard(emp, c)
                     \cup (IF \E h \in Handler : handler[h].kind = "restore"
                           THEN {"overlap"} ELSE {})
       ELSE /\ UNCHANGED <<emp, mails>>
            /\ faults' = faults
                 \cup (IF \E h \in Handler : handler[h].kind = "restore"
                       THEN {"overlap"} ELSE {})
    /\ user' = [user EXCEPT ![a] = "off"]
    /\ left' = TRUE
    /\ UNCHANGED <<it, handler, erased>>

\* restore_employee.
ReadRestore(h) ==
    /\ handler[h] = Idle
    /\ Exists /\ emp.del
    /\ handler' = [handler EXCEPT ![h] =
                     [kind |-> "restore", step |-> "read", copy |-> emp, seen |-> emp]]
    /\ UNCHANGED <<emp, user, it, mails, ghosts, faults>>

\* restore() saves, and the view saves the same copy once more.
SaveRestore(h) ==
    /\ handler[h].kind = "restore" /\ handler[h].step \in {"read", "saved"}
    /\ LET c == [handler[h].copy EXCEPT !.del = FALSE]
       IN  /\ Save(c)
           /\ faults' = faults \cup Hazard(handler[h].seen, c)
           /\ handler' = [handler EXCEPT ![h] =
                [@ EXCEPT !.step = IF handler[h].step = "read" THEN "saved"
                                                               ELSE "again",
                          !.copy = c, !.seen = Stored(c)]]
    /\ left' = FALSE
    /\ UNCHANGED <<it, erased>>

\* Mutant: the account stays as it is.
ReactivateNobody(h) ==
    /\ handler[h].kind = "restore" /\ handler[h].step = "again"
    /\ handler' = [handler EXCEPT ![h] = Idle]
    /\ UNCHANGED <<emp, user, it, mails, ghosts, faults>>

Reactivate(h) ==
    /\ handler[h].kind = "restore" /\ handler[h].step = "again"
    /\ LET a == handler[h].copy.login
       IN  user' = IF a # NoAccount /\ user[a] # "none"
                   THEN [user EXCEPT ![a] = "on"] ELSE user
    /\ handler' = [handler EXCEPT ![h] = Idle]
    /\ UNCHANGED <<emp, it, mails, ghosts, faults>>

\* permanent_delete_employee: first the account, then the record.
ReadErase(h) ==
    /\ handler[h] = Idle
    /\ Exists
    /\ handler' = [handler EXCEPT ![h] =
                     [kind |-> "erase", step |-> "read", copy |-> emp, seen |-> emp]]
    /\ UNCHANGED <<emp, user, it, mails, ghosts, faults>>

\* Mutant: the account outlives the record.
EraseNoUser(h) ==
    /\ handler[h].kind = "erase" /\ handler[h].step = "read"
    /\ handler' = [handler EXCEPT ![h].step = "saved"]
    /\ faults' = faults \cup IF handler[h].copy # emp THEN {"overlap"} ELSE {}
    /\ UNCHANGED <<emp, user, it, mails, ghosts>>

EraseUser(h) ==
    /\ handler[h].kind = "erase" /\ handler[h].step = "read"
    /\ LET a == handler[h].copy.login
       IN  user' = IF a # NoAccount THEN [user EXCEPT ![a] = "none"] ELSE user
    /\ handler' = [handler EXCEPT ![h].step = "saved"]
    /\ faults' = faults \cup IF handler[h].copy # emp THEN {"overlap"} ELSE {}
    /\ UNCHANGED <<emp, it, mails, ghosts>>

EraseEmployee(h) ==
    /\ handler[h].kind = "erase" /\ handler[h].step = "saved"
    /\ emp' = NoRow
    /\ mails' = 0
    /\ erased' = TRUE
    /\ left' = FALSE
    /\ handler' = [handler EXCEPT ![h] = Idle]
    /\ faults' = faults \cup IF handler[h].copy # emp THEN {"overlap"} ELSE {}
    /\ UNCHANGED <<user, it>>

\* The mail server, or the supporters, come and go.
Supporters ==
    /\ it' = ~it
    /\ UNCHANGED <<emp, user, mails, handler, ghosts, faults>>

\* A request dies, or fails, where it stands.
Crash(h) ==
    /\ handler[h] # Idle
    /\ handler' = [handler EXCEPT ![h] = Idle]
    /\ faults' = faults \cup IF handler[h].step = "read" THEN {} ELSE {"crash"}
    /\ UNCHANGED <<emp, user, it, mails, ghosts>>

\* The employee's own form dies when the row is saved and no signal has run.
Torn(h) ==
    /\ handler[h].kind = "own"
    /\ emp' = [handler[h].copy EXCEPT !.own = TRUE]
    /\ handler' = [handler EXCEPT ![h] = Idle]
    /\ faults' = faults \cup {"crash"}
         \cup IF handler[h].copy # emp THEN {"overlap"} ELSE {}
    /\ UNCHANGED <<user, it, mails, ghosts>>

-----------------------------------------------------------------------------
Tolerated == faults' \subseteq Considered /\ Cardinality(faults') <= MaxFaults

Next ==
    /\ \/ SubmitNew
       \/ \E h \in Handler : ReadOwn(h)
       \/ \E h \in Handler : SaveOwn(h)
       \/ \E job \in BOOLEAN, a \in Account \cup {NoAccount} : Add(job, a)
       \/ \E h \in Handler : ReadHR(h)
       \/ \E h \in Handler, job, del \in BOOLEAN,
             a \in Account \cup {NoAccount} : SaveHR(h, job, a, del)
       \/ SoftDelete
       \/ \E a \in Account : Offboard(a)
       \/ \E h \in Handler : ReadRestore(h)
       \/ \E h \in Handler : SaveRestore(h)
       \/ \E h \in Handler : Reactivate(h)
       \/ \E h \in Handler : ReadErase(h)
       \/ \E h \in Handler : EraseUser(h)
       \/ \E h \in Handler : EraseEmployee(h)
       \/ Supporters
       \/ \E h \in Handler : Crash(h)
       \/ \E h \in Handler : Torn(h)
    /\ Tolerated

Spec == Init /\ [][Next]_vars

-----------------------------------------------------------------------------
(***************************************************************************)
(* Properties.                                                             *)
(***************************************************************************)
NoFault(F) == faults \cap F = {}

\* Who was offboarded is out: the record is deleted and no account is active,
\* whichever form was under way, unless a stale copy was written or the account
\* was exchanged before.
OffboardedIsOut ==
    left /\ NoFault({"overlap", "renamed"}) =>
        /\ ~Exists \/ emp.del
        /\ \A a \in Account : user[a] # "on"

\* Who is employed can log in: the account is not left inactive by a deletion,
\* an offboarding and a restoration in any order, once the restoration is done.
EmployedIsIn ==
    /\ Exists /\ ~emp.del /\ emp.login # NoAccount
    /\ \A h \in Handler : handler[h].kind # "restore"
    /\ NoFault({"overlap", "renamed", "crash"})
    => user[emp.login] # "off"

\* 'IT notification hasn't been sent yet': IT is asked to equip an employee
\* once, however often the record is saved, deleted and restored, unless a stale
\* copy was written, IT could not be reached at first, or the details were
\* completed by the form that deleted the employee.
NotifiedOnce == NoFault({"overlap", "no_it", "leaver"}) => mails <= 1

\* A permanently deleted employee stays away with the account: no form that was
\* under way brings either back, unless its copy was stale.
ErasedIsGone ==
    erased /\ NoFault({"overlap", "renamed"}) =>
        ~Exists /\ \A a \in Account : user[a] = "none"
=============================================================================
