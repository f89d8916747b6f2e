----------------------------- MODULE PMOApproval -----------------------------
(***************************************************************************)
(* One delivery request and the link by which the PMO approves or rejects  *)
(* it.                                                                     *)
(*                                                                         *)
(* The request is inserted, a signal receiver mints its one token and      *)
(* mails the two links.  The link handler checks status and token, on      *)
(* approval inserts the PMORequest with the RI number, and then saves the  *)
(* whole row.  No transaction holds these steps together: the server may   *)
(* be killed between any two, and handlers of the two links may run at     *)
(* once.  The admin pages post the row back as they showed it.             *)
(***************************************************************************)
CONSTANTS
    Worker,      \* request handlers of the server
    Admin,       \* admin forms open at the same time
    Considered   \* the hazardous events to consider, out of Fault

VARIABLES
    parent,   \* the ResourceRequest exists
    status,   \* DeliveryRequest.status, or why there is no row
    token,    \* DeliveryRequest.approval_token is set
    pmo,      \* the PMORequest exists
    mailed,   \* the PMO has the links
    told,     \* the verdicts the requester was told
    job,      \* what each handler is doing
    form,     \* what each open admin form shows
    faults    \* the hazardous events so far

row == <<status, token>>
vars == <<parent, row, pmo, mailed, told, job, form, faults>>

Decided == {"APPROVED", "REJECTED"}
Exists == {"PENDING"} \cup Decided
Fault == {"overlap", "stale_form", "staff_edit", "crash", "torn",
          "mail_failure", "delete"}

Job == [step : {"idle", "insert", "mint", "mail"}, verdict : {"PENDING"}]
       \cup [step : {"raise", "save", "notify"}, verdict : Decided]
Idle == [step |-> "idle", verdict |-> "PENDING"]

Form == [status : Exists, token : BOOLEAN]
NoForm == [status |-> "NONE", token |-> FALSE]

TypeOK ==
    /\ parent \in BOOLEAN
    /\ status \in {"UNBORN", "DELETED"} \cup Exists
    /\ token \in BOOLEAN
    /\ pmo \in BOOLEAN
    /\ mailed \in BOOLEAN
    /\ told \subseteq Decided
    /\ job \in [Worker -> Job]
    /\ form \in [Admin -> Form \cup {NoForm}]
    /\ faults \subseteq Fault

Init ==
    /\ parent = FALSE
    /\ status = "UNBORN"
    /\ token = FALSE
    /\ pmo = FALSE
    /\ mailed = FALSE
    /\ told = {}
    /\ job = [w \in Worker |-> Idle]
    /\ form = [a \in Admin |-> NoForm]
    /\ faults = {}

-----------------------------------------------------------------------------
At(w, step) == job[w].step = step
Goto(w, step) == job' = [job EXCEPT ![w].step = step]
Stop(w) == job' = [job EXCEPT ![w] = Idle]

Deciding(w) == job[w].step \in {"raise", "save"}
Creating(w) == job[w].step \in {"insert", "mint", "mail"}

\* A handler has read the row to decide otherwise, and not saved it yet.
Overlap(verdicts) ==
    IF \E v \in Worker : Deciding(v) /\ job[v].verdict \in verdicts
    THEN {"overlap"} ELSE {}

-----------------------------------------------------------------------------
(***************************************************************************)
(* Creation.                                                               *)
(***************************************************************************)

\* form.save() of the ResourceRequest.
Create(w) ==
    /\ job[w] = Idle
    /\ ~parent /\ status = "UNBORN"
    /\ parent' = TRUE
    /\ Goto(w, "insert")
    /\ UNCHANGED <<row, pmo, mailed, told, form, faults>>

\* formset.save() inserts the DeliveryRequest.
Insert(w) ==
    /\ At(w, "insert")
    /\ parent
    /\ status' = "PENDING"
    /\ Goto(w, "mint")
    /\ UNCHANGED <<parent, token, pmo, mailed, told, form, faults>>

\* Mutant: the new token is not saved.
MintInMemory(w) ==
    /\ At(w, "mint")
    /\ status \in Exists
    /\ Goto(w, "mail")
    /\ UNCHANGED <<parent, row, pmo, mailed, told, form, faults>>

\* The receiver saves the new token with update_fields.
Mint(w) ==
    /\ At(w, "mint")
    /\ status \in Exists
    /\ token' = TRUE
    /\ Goto(w, "mail")
    /\ UNCHANGED <<parent, status, pmo, mailed, told, form, faults>>

\* send_pmo_approval_request swallows a failure of the mail server.
MailLink(w, ok) ==
    /\ At(w, "mail")
    /\ mailed' = ok
    /\ faults' = faults \cup (IF ok THEN {} ELSE {"mail_failure"})
    /\ Stop(w)
    /\ UNCHANGED <<parent, row, pmo, told, form>>

\* The admin pages insert the request, mint and mail in one transaction, with
\* the status chosen in the form.
AdminAdd(s, ok) ==
    /\ status = "UNBORN"
    /\ \A w \in Worker : ~Creating(w)
    /\ parent' = TRUE
    /\ status' = s
    /\ token' = TRUE
    /\ mailed' = ok
    /\ faults' = faults \cup (IF ok THEN {} ELSE {"mail_failure"})
                        \cup (IF s = "PENDING" THEN {} ELSE {"staff_edit"})
    /\ UNCHANGED <<pmo, told, job, form>>

-----------------------------------------------------------------------------
(***************************************************************************)
(* The links.                                                              *)
(***************************************************************************)

\* Mutant: neither the status nor the token is checked.
ClickUnchecked(w, verdict) ==
    /\ job[w] = Idle
    /\ mailed
    /\ status \in Exists
    /\ job' = [job EXCEPT ![w] =
                  [step |-> IF verdict = "APPROVED" THEN "raise" ELSE "save",
                   verdict |-> verdict]]
    /\ faults' = faults \cup Overlap(Decided \ {verdict})
    /\ UNCHANGED <<parent, row, pmo, mailed, told, form>>

\* The handler reads the row; the status and the token must fit.
Click(w, verdict) ==
    /\ job[w] = Idle
    /\ mailed
    /\ status = "PENDING" /\ token
    /\ job' = [job EXCEPT ![w] =
                  [step |-> IF verdict = "APPROVED" THEN "raise" ELSE "save",
                   verdict |-> verdict]]
    /\ faults' = faults \cup Overlap(Decided \ {verdict})
    /\ UNCHANGED <<parent, row, pmo, mailed, told, form>>

\* Mutant: a failure to raise the requisition is swallowed.
RaiseSwallowed(w) ==
    /\ At(w, "raise")
    /\ status \in Exists /\ ~pmo
    /\ pmo' \in BOOLEAN
    /\ Goto(w, "save")
    /\ UNCHANGED <<parent, row, mailed, told, form, faults>>

\* Mutant: the handler ends with the requisition.
RaiseAndStop(w) ==
    /\ At(w, "raise")
    /\ status \in Exists /\ ~pmo
    /\ pmo' = TRUE
    /\ Stop(w)
    /\ UNCHANGED <<parent, row, mailed, told, form, faults>>

\* PMORequest.objects.create(): one for each delivery request.
Raise(w) ==
    /\ At(w, "raise")
    /\ status \in Exists /\ ~pmo
    /\ pmo' = TRUE
    /\ Goto(w, "save")
    /\ UNCHANGED <<parent, row, mailed, told, form, faults>>

\* delivery_request.save() writes the whole row, and inserts it again when it
\* has been deleted since.
Save(w) ==
    /\ At(w, "save")
    /\ parent
    /\ status' = job[w].verdict
    /\ token' = FALSE
    /\ Goto(w, "notify")
    /\ UNCHANGED <<parent, pmo, mailed, told, form, faults>>

\* The requester and the team are told; failures are swallowed.
Notify(w, ok) ==
    /\ At(w, "notify")
    /\ told' = IF ok THEN told \cup {job[w].verdict} ELSE told
    /\ faults' = faults \cup (IF ok THEN {} ELSE {"mail_failure"})
    /\ Stop(w)
    /\ UNCHANGED <<parent, row, pmo, mailed, form>>

\* The database refuses a write, and the handler answers with an error.
Refused(w) ==
    /\ \/ At(w, "insert") /\ ~parent
       \/ At(w, "mint") /\ status \notin Exists
       \/ At(w, "raise") /\ ~(status \in Exists /\ ~pmo)
       \/ At(w, "save") /\ ~parent
    /\ Stop(w)
    /\ UNCHANGED <<parent, row, pmo, mailed, told, form, faults>>

\* The worker process is killed; an approval is torn when its requisition has
\* been raised and its row not saved.
Crash(w) ==
    /\ job[w] # Idle
    /\ Stop(w)
    /\ faults' = faults \cup
          {IF At(w, "save") /\ job[w].verdict = "APPROVED" THEN "torn"
                                                          ELSE "crash"}
    /\ UNCHANGED <<parent, row, pmo, mailed, told, form>>

-----------------------------------------------------------------------------
(***************************************************************************)
(* The admin pages.                                                        *)
(***************************************************************************)
OpenForm(a) ==
    /\ form[a] = NoForm
    /\ status \in Exists
    /\ form' = [form EXCEPT ![a] = [status |-> status, token |-> token]]
    /\ UNCHANGED <<parent, row, pmo, mailed, told, job, faults>>

\* The token is a hidden field of the form: it is posted back with the rest.
SubmitForm(a, s) ==
    /\ form[a] # NoForm
    /\ status \in Exists
    /\ status' = s
    /\ token' = form[a].token
    /\ form' = [form EXCEPT ![a] = NoForm]
    /\ faults' = faults
          \cup (IF form[a] = [status |-> status, token |-> token] THEN {}
                ELSE {"stale_form"})
          \cup (IF s = form[a].status THEN {} ELSE {"staff_edit"})
          \cup Overlap(Decided)
    /\ UNCHANGED <<parent, pmo, mailed, told, job>>

\* Deleting the delivery request takes its PMORequest with it, deleting the
\* resource request takes both.
Delete(whole) ==
    /\ parent /\ (whole \/ status \in Exists)
    /\ parent' = ~whole
    /\ status' = "DELETED"
    /\ token' = FALSE
    /\ pmo' = FALSE
    /\ faults' = faults \cup {"delete"}
    /\ UNCHANGED <<mailed, told, job, form>>

DeletePMO ==
    /\ pmo
    /\ pmo' = FALSE
    /\ faults' = faults \cup {"delete"}
    /\ UNCHANGED <<parent, row, mailed, told, job, form>>

-----------------------------------------------------------------------------
\* What a handler that has begun goes on to do.
Continue(w) ==
    \/ Insert(w)
    \/ Mint(w)
    \/ \E ok \in BOOLEAN : MailLink(w, ok)
    \/ Raise(w)
    \/ Save(w)
    \/ \E ok \in BOOLEAN : Notify(w, ok)
    \/ Refused(w)

Handler(w) ==
    \/ Create(w)
    \/ \E verdict \in Decided : Click(w, verdict)
    \/ Continue(w)
    \/ Crash(w)

AdminSite ==
    \/ \E s \in Exists, ok \in BOOLEAN : AdminAdd(s, ok)
    \/ \E a \in Admin : OpenForm(a)
    \/ \E a \in Admin, s \in Exists : SubmitForm(a, s)
    \/ \E whole \in BOOLEAN : Delete(whole)
    \/ DeletePMO

Next ==
    /\ \/ \E w \in Worker : Handler(w)
       \/ AdminSite
    /\ faults' \subseteq Considered

Spec == Init /\ [][Next]_vars

\* A handler runs to its end.
Fairness == \A w \in Worker : WF_vars(Continue(w) /\ faults' \subseteq Considered)

FairSpec == Spec /\ Fairness

-----------------------------------------------------------------------------
(***************************************************************************)
(* Properties.                                                             *)
(***************************************************************************)
NoFault(F) == faults \cap F = {}

\* An approved request has its requisition, whatever overlaps, crashes or
\* stale forms the server met.
ApprovedHasPMO ==
    NoFault({"staff_edit", "delete"}) => (status = "APPROVED" => pmo)

\* The requester is told one verdict, and the one that stands.
ToldWhatStands ==
    NoFault({"overlap", "stale_form", "staff_edit", "delete"}) =>
        told \subseteq {status}

\* A request waiting for the PMO can be answered: the links are in the mail
\* and open.
PendingIsAnswerable ==
    NoFault({"overlap", "stale_form", "staff_edit", "crash", "mail_failure"})
    => (status = "PENDING" =>
            (token /\ mailed) \/ \E w \in Worker : Creating(w))

\* The promise is void after opposite clicks at once, a torn approval, a stale
\* form, a decision by hand or a deletion.
Calm == faults \subseteq {"crash", "mail_failure"}

\* The approval implements the promise, failing mails and crashes included,
\* until something voids it: a request that is not void has its requisition if
\* and only if it is approved or just being approved, and then it will be.
Promise == INSTANCE PMODecision
           WITH decision <- IF Calm THEN status ELSE "VOID",
                requisition <- pmo /\ Calm
PMOPromise == Promise!Spec
=============================================================================
