--------------------------- MODULE AccessApproval ---------------------------
(***************************************************************************)
(* The life of one AccessRequest of the resource_management application.   *)
(*                                                                         *)
(* Three kinds of process write its database row.  API and e-mail-link     *)
(* handlers (Worker) are not transactions: each one reads the row, changes *)
(* its copy, writes ALL columns back, lets the post_save signal copy the   *)
(* status to the AssetRepair, logs the action and mails, and other         *)
(* handlers run between any two of these steps.  Admin forms (Admin) are   *)
(* opened, wait for a person, and are submitted in one transaction, with   *)
(* every field as the form showed it.                                      *)
(*                                                                         *)
(* faults records which of the hazardous events have happened, so that an  *)
(* invariant can say under which of them it does not hold.                 *)
(***************************************************************************)
EXTENDS Naturals

CONSTANTS
    Worker,      \* request handlers of the server
    Admin,       \* people with the admin change form open
    Token,       \* uuid4 values: the bound on how many are ever generated
    Approver,    \* e-mail addresses of approvers
    NoToken, NoApprover,
    Types,       \* the request types to consider
    Considered   \* the hazardous events to consider for each type, out of Fault

ASSUME NoTokenAssumption == NoToken \notin Token
ASSUME NoApproverAssumption == NoApprover \notin Approver
ASSUME TypesAssumption == Types \subseteq {"NEW", "IT", "ASSET_REPAIR"}
ASSUME ProcessAssumption == Worker \cap Admin = {}

VARIABLES
    row,           \* the database row of the request
    request_type,  \* its type, fixed when it is created
    repair,        \* the status of the AssetRepair with its ticket number
    history,       \* tokens whose link decision is in AccessHistory
    pc, op, obj,   \* of a handler: next step, operation, in-memory instance
    key,           \* the token a link handler was called with
    form,          \* the row as an open admin form shows it
    fresh,         \* processes whose copy of the row is still current
    issued,        \* tokens generated so far
    silent,        \* tokens save() generated, which nobody mails
    mailed,        \* links delivered, as <<token, approver>>
    spent,         \* tokens whose link has decided the request
    respent,       \* tokens whose link has decided it more than once
    faults         \* the hazardous events so far

rowVars == <<row, repair, issued, silent, history>>
handlerVars == <<pc, op, obj, key>>
linkVars == <<spent, respent>>
vars == <<rowVars, request_type, handlerVars, form, fresh, mailed, linkVars,
          faults>>

Open      == {"PENDING", "APPROVAL_REQUIRED"}
OwnerOpen == {"APPROVER_APPROVED", "APPROVER_REJECTED"}
Status    == Open \cup OwnerOpen \cup {"APPROVED", "REJECTED", "REVOKED"}
Absent    == {"UNBORN", "DELETED"}
Repair    == {"NONE", "REPORTED", "IN_REPAIR", "COMPLETED", "CANCELLED"}
Fault     == {"lost_update", "crash", "mail_failure", "overlap",
              "staff_edit", "delete"}
Process   == Worker \cup Admin

Row == [status   : Status \cup Absent,
        token    : Token \cup {NoToken},
        approver : Approver \cup {NoApprover}]

Blank(s) == [status |-> s, token |-> NoToken, approver |-> NoApprover]

Exists == row.status \in Status

TypeOK ==
    /\ row \in Row
    /\ request_type \in Types
    /\ repair \in Repair
    /\ history \subseteq Token
    /\ pc \in [Worker -> {"idle", "save", "sync", "route", "log",
                               "mail"}]
    /\ op \in [Worker -> {"none", "create", "reroute", "update",
                          "link", "review", "ask"}]
    /\ obj \in [Worker -> Row]
    /\ key \in [Worker -> Token \cup {NoToken}]
    /\ \A w \in Worker :
          /\ op[w] = "link" => key[w] \in Token
          /\ op[w] = "ask" => /\ obj[w].token \in Token
                              /\ obj[w].approver \in Approver
          /\ pc[w] = "mail" => op[w] = "ask"
    /\ form \in [Admin -> Row]
    /\ fresh \subseteq Process
    /\ issued \subseteq Token
    /\ silent \subseteq Token
    /\ mailed \subseteq Token \X Approver
    /\ spent \subseteq Token
    /\ respent \subseteq Token
    /\ faults \subseteq Fault

Init ==
    /\ row = Blank("UNBORN")
    /\ request_type \in Types
    /\ repair = "NONE"
    /\ history = {}
    /\ pc = [w \in Worker |-> "idle"]
    /\ op = [w \in Worker |-> "none"]
    /\ obj = [w \in Worker |-> Blank("UNBORN")]
    /\ key = [w \in Worker |-> NoToken]
    /\ form = [a \in Admin |-> Blank("UNBORN")]
    /\ fresh = {}
    /\ issued = {}
    /\ silent = {}
    /\ mailed = {}
    /\ spent = {}
    /\ respent = {}
    /\ faults = {}

-----------------------------------------------------------------------------
(***************************************************************************)
(* Writing the row.                                                        *)
(***************************************************************************)

\* AccessRequest.save() gives an APPROVAL_REQUIRED request without a token one.
NeedsToken(r) == r.status = "APPROVAL_REQUIRED" /\ r.token = NoToken

ModelSave(r) == IF NeedsToken(r)
                THEN {[r EXCEPT !.token = t] : t \in Token \ issued}
                ELSE {r}

\* What save() generates for r is known to nobody but the row.
Generated(r, saved) == IF NeedsToken(r) THEN {saved.token} ELSE {}

\* The post_save receiver's status_map.
RepairStatus(s) ==
    CASE s = "APPROVED" -> "IN_REPAIR"
      [] s \in {"REJECTED", "REVOKED", "APPROVER_REJECTED"} -> "CANCELLED"
      [] OTHER -> "REPORTED"

\* Mutant: the receiver runs for a created request only.
SyncRepairOnCreation(s) ==
    repair' = IF request_type = "ASSET_REPAIR" /\ repair = "NONE"
              THEN RepairStatus(s) ELSE repair

SyncRepair(s) ==
    repair' = IF request_type = "ASSET_REPAIR" THEN RepairStatus(s) ELSE repair

\* The faults a write by process p adds: it may overwrite a change p has not
\* seen, or come between another handler's write and that handler's signal.
WriteFaults(p) ==
    (IF p \notin fresh THEN {"lost_update"} ELSE {})
    \cup (IF \E w \in Worker \ {p} : pc[w] = "sync" THEN {"overlap"} ELSE {})

-----------------------------------------------------------------------------
(***************************************************************************)
(* API and link handlers.                                                  *)
(***************************************************************************)

\* A handler has read the row, changed its copy to r and is about to save it.
Begin(w, o, r, t) ==
    /\ pc[w] = "idle"
    /\ pc' = [pc EXCEPT ![w] = "save"]
    /\ op' = [op EXCEPT ![w] = o]
    /\ obj' = [obj EXCEPT ![w] = r]
    /\ key' = [key EXCEPT ![w] = t]
    /\ fresh' = fresh \cup {w}
    /\ UNCHANGED <<rowVars, request_type, form, mailed, linkVars, faults>>

\* A handler sends its notices and returns.
Finish(w) ==
    /\ pc' = [pc EXCEPT ![w] = "idle"]
    /\ op' = [op EXCEPT ![w] = "none"]
    /\ obj' = [obj EXCEPT ![w] = Blank("UNBORN")]
    /\ key' = [key EXCEPT ![w] = NoToken]
    /\ fresh' = fresh \ {w}

\* POST access-requests/: the serializer inserts a PENDING request.
Create(w) ==
    /\ pc[w] = "idle"
    /\ row.status = "UNBORN"
    /\ row' = Blank("PENDING")
    /\ pc' = [pc EXCEPT ![w] = "sync"]
    /\ op' = [op EXCEPT ![w] = "create"]
    /\ obj' = [obj EXCEPT ![w] = Blank("PENDING")]
    /\ fresh' = {w}
    /\ UNCHANGED <<request_type, repair, issued, silent, history, key, form,
                   mailed, linkVars, faults>>

\* Mutant: handle_approval leaves the token in the row.
LinkClickKeepsToken(w, verdict) ==
    /\ row.status \in Open
    /\ \E m \in mailed : m[1] = row.token
    /\ Begin(w, "link", [row EXCEPT !.status = verdict], row.token)

\* The person who received a link follows it.  A link that has expired is one
\* that is no longer followed with success, hence no step of its own.
LinkClick(w, verdict) ==
    /\ row.status \in Open
    /\ \E m \in mailed : m[1] = row.token
    /\ Begin(w, "link", [row EXCEPT !.status = verdict, !.token = NoToken],
             row.token)

\* The same with the resource owner's link, open after an approver's verdict.
OwnerLinkClick(w, verdict) ==
    /\ row.status \in OwnerOpen
    /\ \E m \in mailed : m[1] = row.token
    /\ Begin(w, "link", [row EXCEPT !.status = verdict, !.token = NoToken],
             row.token)

\* approve and reject of the API: no condition on the status, the token stays.
Review(w, verdict) ==
    /\ Exists
    /\ Begin(w, "review", [row EXCEPT !.status = verdict], NoToken)

\* request_approval of the API: a new token for the approver named.
Ask(w, p) ==
    /\ Exists
    /\ \E t \in Token \ issued :
          /\ pc[w] = "idle"
          /\ pc' = [pc EXCEPT ![w] = "save"]
          /\ op' = [op EXCEPT ![w] = "ask"]
          /\ obj' = [obj EXCEPT ![w] = [status |-> "APPROVAL_REQUIRED",
                                        token |-> t, approver |-> p]]
          /\ issued' = issued \cup {t}
          /\ fresh' = fresh \cup {w}
    /\ UNCHANGED <<row, repair, silent, history, request_type, key, form,
                   mailed, linkVars, faults>>

\* PUT or PATCH of descriptive fields: the row is written back as it was read.
Update(w) ==
    /\ Exists
    /\ Begin(w, "update", row, NoToken)

\* access_request.save(): every column is written, and a row that has been
\* deleted meanwhile is inserted again.
Save(w) ==
    /\ pc[w] = "save"
    /\ \E r \in ModelSave(obj[w]) :
          /\ row' = r
          /\ obj' = [obj EXCEPT ![w] = r]
          /\ issued' = issued \cup Generated(obj[w], r)
          /\ silent' = silent \cup Generated(obj[w], r)
    /\ faults' = faults \cup WriteFaults(w)
    /\ fresh' = {w}
    /\ pc' = [pc EXCEPT ![w] = "sync"]
    /\ spent' = IF op[w] = "link" THEN spent \cup {key[w]} ELSE spent
    /\ respent' = IF op[w] = "link" THEN respent \cup (spent \cap {key[w]})
                                    ELSE respent
    /\ UNCHANGED <<repair, history, request_type, op, key, form, mailed>>

\* post_save: the repair takes the status of the instance just saved.
Sync(w) ==
    /\ pc[w] = "sync"
    /\ SyncRepair(obj[w].status)
    /\ \/ /\ op[w] \in {"reroute", "update"}
          /\ Finish(w)
       \/ /\ op[w] = "create"
          /\ pc' = [pc EXCEPT ![w] = "route"]
          /\ UNCHANGED <<op, obj, key, fresh>>
       \/ /\ op[w] \in {"link", "review", "ask"}
          /\ pc' = [pc EXCEPT ![w] = "log"]
          /\ UNCHANGED <<op, obj, key, fresh>>
    /\ UNCHANGED <<row, issued, silent, history, request_type, form, mailed,
                   linkVars, faults>>

\* send_request_notification(): an IT request is given the IT resource with a
\* second save of the instance, if there is an active one.
Route(w) ==
    /\ pc[w] = "route"
    /\ \/ /\ request_type = "IT"
          /\ pc' = [pc EXCEPT ![w] = "save"]
          /\ op' = [op EXCEPT ![w] = "reroute"]
          /\ UNCHANGED <<obj, key, fresh>>
       \/ Finish(w)
    /\ UNCHANGED <<rowVars, request_type, form, mailed, linkVars, faults>>

\* Mutant: request_approval returns before its mail.
LogWithoutMail(w) ==
    /\ pc[w] = "log"
    /\ history' = IF Exists /\ op[w] = "link" THEN history \cup {key[w]}
                                              ELSE history
    /\ Finish(w)
    /\ UNCHANGED <<row, repair, issued, silent, request_type, form, mailed,
                   linkVars, faults>>

\* Mutant: a link decision is logged for reviews only.
LogReviewsOnly(w) ==
    /\ pc[w] = "log"
    /\ UNCHANGED history
    /\ IF Exists /\ op[w] = "ask"
       THEN /\ pc' = [pc EXCEPT ![w] = "mail"]
            /\ UNCHANGED <<op, obj, key, fresh>>
       ELSE Finish(w)
    /\ UNCHANGED <<row, repair, issued, silent, request_type, form, mailed,
                   linkVars, faults>>

\* AccessHistory.objects.create(): refused by its foreign key, which ends the
\* handler, when the request has been deleted.
Log(w) ==
    /\ pc[w] = "log"
    /\ history' = IF Exists /\ op[w] = "link" THEN history \cup {key[w]}
                                              ELSE history
    /\ IF Exists /\ op[w] = "ask"
       THEN /\ pc' = [pc EXCEPT ![w] = "mail"]
            /\ UNCHANGED <<op, obj, key, fresh>>
       ELSE Finish(w)
    /\ UNCHANGED <<row, repair, issued, silent, request_type, form, mailed,
                   linkVars, faults>>

\* send_approval_request_notification(), which reports failure and does not
\* undo the save.
Mail(w) ==
    /\ pc[w] = "mail"
    /\ \/ /\ mailed' = mailed \cup {<<obj[w].token, obj[w].approver>>}
          /\ UNCHANGED faults
       \/ /\ faults' = faults \cup {"mail_failure"}
          /\ UNCHANGED mailed
    /\ Finish(w)
    /\ UNCHANGED <<rowVars, request_type, form, linkVars>>

\* The worker process is killed between two steps of a handler.
Crash(w) ==
    /\ pc[w] # "idle"
    /\ faults' = faults \cup {"crash"}
    /\ Finish(w)
    /\ UNCHANGED <<rowVars, request_type, form, mailed, linkVars>>

-----------------------------------------------------------------------------
(***************************************************************************)
(* The admin site.                                                         *)
(***************************************************************************)

\* A change form is shown with the row's current values.
OpenForm(a) ==
    /\ Exists
    /\ form[a].status \in Absent
    /\ form' = [form EXCEPT ![a] = row]
    /\ fresh' = fresh \cup {a}
    /\ UNCHANGED <<rowVars, request_type, handlerVars, mailed, linkVars,
                   faults>>

\* Mutant: a new approver alone does not count as a change.
ApproverChangedByStatusOnly(posted) ==
    /\ posted.approver # NoApprover
    /\ posted.status = "APPROVAL_REQUIRED"

\* save_model compares the posted approver and status with the stored ones.
ApproverChanged(posted) ==
    /\ posted.approver # NoApprover
    /\ \/ posted.approver # row.approver
       \/ posted.status = "APPROVAL_REQUIRED"

\* save_model when it asks an approver: new token, mail inside the transaction.
SaveAndAsk(p, approver, committed) ==
    \E t \in Token \ issued :
       /\ issued' = issued \cup {t}
       /\ IF committed
          THEN /\ row' = [status |-> "APPROVAL_REQUIRED", token |-> t,
                          approver |-> approver]
               /\ SyncRepair("APPROVAL_REQUIRED")
          ELSE UNCHANGED <<row, repair>>
       /\ UNCHANGED silent
       /\ \/ /\ mailed' = mailed \cup {<<t, approver>>}
             /\ faults' = faults \cup (IF committed THEN WriteFaults(p)
                                       ELSE {"crash"})
          \/ /\ committed
             /\ faults' = faults \cup WriteFaults(p) \cup {"mail_failure"}
             /\ UNCHANGED mailed

\* The form is submitted: every field is written as posted.
SubmitForm(a, s, p) ==
    LET posted == [form[a] EXCEPT !.status = s, !.approver = p]
    IN  /\ Exists
        /\ form[a].status \in Status
        /\ \/ /\ ApproverChanged(posted)
              /\ SaveAndAsk(a, p, TRUE)
           \/ /\ ~ApproverChanged(posted)
              /\ \E r \in ModelSave(posted) :
                    /\ row' = r
                    /\ issued' = issued \cup Generated(posted, r)
                    /\ silent' = silent \cup Generated(posted, r)
                    /\ SyncRepair(r.status)
              /\ faults' = faults \cup WriteFaults(a)
              /\ UNCHANGED mailed
        /\ form' = [form EXCEPT ![a] = Blank("UNBORN")]
        /\ fresh' = {}
        /\ UNCHANGED <<history, request_type, handlerVars, linkVars>>

\* The transaction is rolled back after the approver's mail has gone out.
RollbackForm(a, s, p) ==
    LET posted == [form[a] EXCEPT !.status = s, !.approver = p]
    IN  /\ Exists
        /\ form[a].status \in Status
        /\ ApproverChanged(posted)
        /\ SaveAndAsk(a, p, FALSE)
        /\ form' = [form EXCEPT ![a] = Blank("UNBORN")]
        /\ fresh' = fresh \ {a}
        /\ UNCHANGED <<history, request_type, handlerVars, linkVars>>

\* The add form: any status, and no mail to the approver.
AddForm(s, p) ==
    /\ row.status = "UNBORN"
    /\ \E r \in ModelSave([Blank(s) EXCEPT !.approver = p]) :
          /\ row' = r
          /\ issued' = issued \cup Generated(Blank(s), r)
          /\ silent' = silent \cup Generated(Blank(s), r)
          /\ SyncRepair(r.status)
    /\ fresh' = {}
    /\ UNCHANGED <<history, request_type, handlerVars, form, mailed, linkVars,
                   faults>>

\* The requester's own form has none of these fields, but saving it while an
\* approver is being asked asks the approver again.
OwnerResave(a) ==
    /\ ApproverChanged(row) /\ Exists
    /\ form[a].status \in Absent
    /\ SaveAndAsk(a, row.approver, TRUE)
    /\ fresh' = {}
    /\ UNCHANGED <<history, request_type, handlerVars, form, linkVars>>

\* Deletion, by the admin site or the API: the history goes with the request,
\* the AssetRepair stays.
Delete ==
    /\ Exists
    /\ row' = Blank("DELETED")
    /\ history' = {}
    /\ fresh' = {}
    /\ faults' = faults \cup {"delete"}
    /\ UNCHANGED <<repair, issued, silent, request_type, handlerVars, form,
                   mailed, linkVars>>

\* Staff set the status of the repair by hand.
StaffEditRepair(s) ==
    /\ repair # "NONE"
    /\ repair' = s
    /\ faults' = faults \cup {"staff_edit"}
    /\ UNCHANGED <<row, issued, silent, history, request_type, handlerVars,
                   form, fresh, mailed, linkVars>>

-----------------------------------------------------------------------------
Verdict == {"APPROVED", "REJECTED"}

Handler(w) ==
    \/ Create(w)
    \/ \E v \in Verdict : LinkClick(w, v)
    \/ \E v \in Verdict : OwnerLinkClick(w, v)
    \/ \E v \in Verdict : Review(w, v)
    \/ \E p \in Approver : Ask(w, p)
    \/ Update(w)
    \/ Save(w)
    \/ Sync(w)
    \/ Route(w)
    \/ Log(w)
    \/ Mail(w)
    \/ Crash(w)

AdminSite(a) ==
    \/ OpenForm(a)
    \/ \E s \in Status, p \in Approver \cup {NoApprover} : SubmitForm(a, s, p)
    \/ \E s \in Status, p \in Approver : RollbackForm(a, s, p)
    \/ OwnerResave(a)

Next ==
    /\ \/ \E w \in Worker : Handler(w)
       \/ \E a \in Admin : AdminSite(a)
       \/ \E s \in Status, p \in Approver \cup {NoApprover} : AddForm(s, p)
       \/ Delete
       \/ \E s \in Repair \ {"NONE"} : StaffEditRepair(s)
    /\ faults' \subseteq Considered[request_type]

Spec == Init /\ [][Next]_vars

-----------------------------------------------------------------------------
(***************************************************************************)
(* Properties.                                                             *)
(***************************************************************************)

NoLostUpdate == "lost_update" \notin faults

\* One approver's link decides a request at most once, even when the request
\* is reopened: as long as no stale copy overwrites the row, the token cleared
\* by handle_approval never comes back.
TokenDecidesOnce == NoLostUpdate => respent = {}

\* A token whose link has been used is not in the row again.
SpentTokenIsDead == NoLostUpdate => row.token \notin spent

\* The link that can decide now was mailed to the approver the request names,
\* not to an approver it named before (unless the field has been emptied).
LinkBelongsToApprover ==
    NoLostUpdate =>
        \A m \in mailed : m[1] = row.token =>
                              row.approver \in {m[2], NoApprover}

\* A request that waits for an approver waits for someone who has been told:
\* its token was mailed, is about to be, or is one save() made up silently.
LiveLinkReachedApprover ==
    (NoLostUpdate /\ faults \cap {"crash", "mail_failure"} = {}
        /\ row.status = "APPROVAL_REQUIRED")
    => \/ row.token \in silent
       \/ \E m \in mailed : m[1] = row.token
       \/ \E w \in Worker : pc[w] # "idle" /\ obj[w].token = row.token

\* The repair created for an ASSET_REPAIR request follows its status.
RepairInStep ==
    (/\ request_type = "ASSET_REPAIR" /\ Exists
     /\ faults \cap {"crash", "staff_edit", "overlap"} = {}
     /\ \A w \in Worker : pc[w] # "sync")
    => repair = RepairStatus(row.status)

\* Every decision taken through a link has its AccessHistory entry.
DecisionLeavesTrail ==
    faults \cap {"crash", "delete"} = {} =>
        \A t \in spent : \/ t \in history
                         \/ \E w \in Worker : key[w] = t

\* The inductive form of the two token properties.  Without a lost update only
\* current copies are written, and a current copy holds the row's token unless
\* its handler is about to use that token up or to replace it by its own.
Deciding(w) == pc[w] = "save" /\ op[w] = "link"
Asking(w)   == pc[w] = "save" /\ op[w] = "ask"

RowToken     == row.token \in issued \cup {NoToken} /\ row.token \notin spent
SpentOnce    == spent \subseteq issued /\ respent = {}
DecidingCopy == \A w \in Worker \cap fresh :
                    Deciding(w) => /\ key[w] \in Token
                                   /\ key[w] = row.token
                                   /\ obj[w].token = NoToken
AskingCopy   == \A w \in Worker :
                    Asking(w) =>
                        /\ obj[w].token \in issued \ spent
                        /\ obj[w].token # row.token
                        /\ \A v \in Worker \ {w} :
                              Asking(v) => obj[v].token # obj[w].token
CurrentCopy  == \A w \in Worker \cap fresh :
                    pc[w] = "idle" \/ Deciding(w) \/ Asking(w)
                        \/ obj[w].token = row.token
CurrentForm  == \A a \in Admin \cap fresh :
                    form[a].status \in Status => form[a].token = row.token

TokenRules ==
    NoLostUpdate => /\ RowToken
                    /\ SpentOnce
                    /\ DecidingCopy
                    /\ AskingCopy
                    /\ CurrentCopy
                    /\ CurrentForm

\* "Clear the approval token after use": a link works once, whatever else runs.
TokenClearedAfterUse == respent = {}
=============================================================================
