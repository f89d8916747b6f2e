------------------------------- MODULE DealFlow -------------------------------
(***************************************************************************)
(* One inquiry on its way to a deal: the request a client has sent, the    *)
(* lead or contact it is taken to come from, the deal made of it, and the  *)
(* reminders set on the way.                                               *)
(*                                                                         *)
(* Forms are submitted in one step with any values a page may post.  What  *)
(* takes several steps is modelled as such: the conversion of a lead, one  *)
(* transaction that the others do not see before it commits; the removal   *)
(* of a duplicate, committed step by step; the web hook of the telephone   *)
(* exchange, which writes back a deal it has read; and the thread that     *)
(* sends reminders.                                                        *)
(***************************************************************************)
EXTENDS FiniteSets, Naturals

CONSTANTS
    Lead,         \* bound: the leads there may ever be
    Contact,      \* bound: the contacts there may ever be
    Reminder,     \* bound: the active reminders there may be at one time
    None,         \* no lead, no contact, no reminder
    Worlds,       \* bound: what there is, what the deal's form changes, and
                  \* how many of task and hook are under way at one time
    MaxFaults,    \* bound: how many kinds of hazardous events happen
    Considered    \* the hazardous events to consider, out of Fault

ASSUME DealAssumption ==
    /\ IsFiniteSet(Lead) /\ IsFiniteSet(Contact) /\ Lead \cap Contact = {}
    /\ None \notin Lead \cup Contact \cup Reminder
    /\ "deal" \notin Lead \cup {None}
    /\ Worlds \subseteq [party : SUBSET (Lead \cup Contact),
                        edits : SUBSET {"party", "status"},
                        reminders : SUBSET Reminder, open : Nat]
    /\ MaxFaults \in Nat

VARIABLES
    world,     \* the one of Worlds
    rows,      \* which leads and contacts there are
    req,       \* the request
    deal,      \* the deal made of it
    rem,       \* the active reminders and their objects
    task,      \* the conversion or removal of a duplicate under way
    hook,      \* the deal as the web hook has read it
    sender,    \* the thread that sends reminders
    faults     \* the hazardous events so far

vars == <<world, rows, req, deal, rem, task, hook, sender, faults>>

Fault == {"other_kind",    \* a request moves from a lead to a contact or back
          "cleared",       \* the lead or contact of a request is taken out
          "unlinked",      \* the deal is taken out of its request
          "mismatch",      \* a contact of another company is found
          "relinked",      \* the deal's own form names another party
          "attached_late", \* a form names a party that is being removed
          "dropped",       \* a lead is deleted by hand while it is removed
          "stale_hook",    \* the web hook writes back what has changed
          "reopened",      \* an irrelevant deal is reopened by its reason
          "withdrawn",     \* a reminder is deleted or set inactive
          "orphan",        \* the object of an active reminder is deleted
          "crash"}         \* the server stops

Party == Lead \cup Contact
Gone == [row |-> "gone"]
Unborn == [row |-> "unborn"]
Request == [row : {"here"}, pending : BOOLEAN, duplicate : BOOLEAN,
            lead : Lead \cup {None}, contact : Contact \cup {None},
            deal : BOOLEAN]
Deal == [row : {"here"}, lead : Lead \cup {None}, contact : Contact \cup {None},
         active : BOOLEAN, relevant : BOOLEAN, closed : BOOLEAN,
         remind : BOOLEAN]

Idle == [kind |-> "none"]
\* deal and req: whether the transaction has moved, and so locked, that row.
Conversion == [kind : {"convert"}, from : Lead, to : Contact,
               deal : BOOLEAN, req : BOOLEAN]
Removal == [kind : {"remove"}, from : Party, to : Party,
            step : {"deal", "request", "delete"}]
Asleep == [alive |-> TRUE, hand |-> None, flag |-> FALSE]
Sender == [alive : BOOLEAN, hand : Reminder \cup {None}, flag : BOOLEAN]

TypeOK ==
    /\ world \in Worlds
    /\ rows \in [Party -> {"unborn", "here", "gone"}]
    /\ req \in Request \cup {Gone}
    /\ deal \in Deal \cup {Unborn, Gone}
    /\ rem \in [Reminder -> {None, "deal"} \cup Lead]
    /\ task \in {Idle} \cup Conversion \cup Removal
    /\ hook \in Deal \cup {Gone}
    /\ sender \in Sender
    /\ faults \subseteq Fault

Here(S) == {p \in S : rows[p] = "here"}
HasReq == req # Gone
HasDeal == deal.row = "here"
Names(row, p) == row.row = "here" /\ p \in {row.lead, row.contact}

\* A request that has just arrived, with the party found for it, if any.
Init ==
    /\ world \in Worlds
    /\ rows \in [Party -> {"unborn", "here", "gone"}]
    /\ \A p \in Party : rows[p] = "gone" <=> p \notin world.party
    /\ req \in [row : {"here"}, pending : {TRUE}, duplicate : {FALSE},
                lead : Here(Lead) \cup {None},
                contact : Here(Contact) \cup {None}, deal : {FALSE}]
    /\ None \in {req.lead, req.contact}
    /\ deal = Unborn
    /\ rem = [r \in Reminder |-> None]
    /\ task = Idle /\ hook = Gone /\ sender = Asleep /\ faults = {}

-----------------------------------------------------------------------------
If(cond, fault) == IF cond THEN {fault} ELSE {}

DealLocked == task.kind = "convert" /\ task.deal
ReqLocked == task.kind = "convert" /\ task.req
Open == (IF task = Idle THEN 0 ELSE 1) + (IF hook = Gone THEN 0 ELSE 1)

\* A row is attached to a party whose rows are being moved to another.
Late(row) == task # Idle /\ Names(row, task.from)

\* With the rows R and the deal d a reminder has lost its object.
Orphans(R, d) ==
    \E r \in Reminder : \/ rem[r] = "deal" /\ d.row = "gone"
                        \/ rem[r] \in Lead /\ R[rem[r]] = "gone"

\* What deleting parties, with the rows R left, takes with it: a deal goes with
\* its lead or contact, a request with its contact or its deal, and a deal with
\* its request; a request outlives its lead.
Dead(R, p) == p # None /\ R[p] # "here"
DealDies(R, d) == d.row = "here" /\ (Dead(R, d.lead) \/ Dead(R, d.contact))
ReqAfter(R, q, d) ==
    IF q = Gone \/ Dead(R, q.contact) \/ (q.deal /\ DealDies(R, d)) THEN Gone
    ELSE [q EXCEPT !.lead = IF Dead(R, q.lead) THEN None ELSE q.lead]
DealAfter(R, q, d) ==
    IF d.row = "here" /\ (DealDies(R, d) \/ ReqAfter(R, q, d) = Gone)
    THEN Gone ELSE d

Delete(R, q, d) ==
    /\ rows' = R
    /\ req' = ReqAfter(R, q, d)
    /\ deal' = DealAfter(R, q, d)

-----------------------------------------------------------------------------
(***************************************************************************)
(* The request and its form.                                               *)
(***************************************************************************)
Post == [duplicate : BOOLEAN, create : BOOLEAN,
         lead : Here(Lead) \cup {None}, contact : Here(Contact) \cup {None},
         deal : IF HasDeal THEN BOOLEAN ELSE {FALSE}]

\* find_contact_or_lead: the client is somebody known.
Found(q) == {[q EXCEPT !.contact = c] : c \in Here(Contact)}
            \cup {[q EXCEPT !.lead = l] : l \in Here(Lead)}

\* get_or_create_contact_or_lead: nobody is found, and a contact of a known
\* company or a lead is created.
Created(q) == {[q EXCEPT !.contact = c] : c \in {p \in Contact : rows[p] = "unborn"}}
              \cup {[q EXCEPT !.lead = l] : l \in {p \in Lead : rows[p] = "unborn"}}

\* The request as it is saved.  A request that is pending may be left without
\* party; for another one q itself is left only when the contact found belongs
\* to another company than the request.
Saved(post) ==
    LET pending == /\ req.pending /\ ~post.create
                   /\ ~(post.duplicate /\ ~req.duplicate)
        q == [row |-> "here", pending |-> pending, duplicate |-> post.duplicate,
              lead |-> post.lead, contact |-> post.contact, deal |-> post.deal]
    IN  CASE {post.lead, post.contact} # {None} -> {q}
          [] {post.lead, post.contact} = {None} /\ pending -> Found(q) \cup {q}
          [] OTHER -> Found(q) \cup Created(q) \cup {q}

\* Mutant: the lead is written as the contact.
NewDealOfContact(q) ==
    [row |-> "here", lead |-> None,
     contact |-> IF q.contact = None THEN q.lead ELSE q.contact,
     active |-> TRUE, relevant |-> TRUE, closed |-> FALSE, remind |-> FALSE]

\* The deal of a new inquiry is with the contact or else with the lead.
NewDeal(q) ==
    [row |-> "here", lead |-> IF q.contact = None THEN q.lead ELSE None,
     contact |-> q.contact, active |-> TRUE, relevant |-> TRUE,
     closed |-> FALSE, remind |-> FALSE]

\* Mutant: a deal keeps its contact.
FollowLead(post, q, d) ==
    [d EXCEPT !.lead = IF post.lead # req.lead /\ q.lead # None
                       THEN q.lead ELSE d.lead]

\* A contact or lead changed in the form is copied to the deal, an empty one
\* is not.
Follow(post, q, d) ==
    [d EXCEPT !.contact = IF post.contact # req.contact /\ q.contact # None
                          THEN q.contact ELSE d.contact,
              !.lead = IF post.lead # req.lead /\ q.lead # None
                       THEN q.lead ELSE d.lead]

SubmitRequest(post, saved) ==
    LET makes == post.create /\ ~post.deal /\ ~post.duplicate
        q == [saved EXCEPT !.deal = post.deal \/ makes]
        d == IF makes /\ ~HasDeal THEN NewDeal(q) ELSE deal
        was == {req.lead, req.contact} \ {None}
    IN  /\ None \in {post.lead, post.contact}
        /\ ~ReqLocked /\ ~(DealLocked /\ q.deal)
        /\ makes => deal # Gone
        /\ req' = q
        /\ deal' = IF q.deal THEN Follow(post, q, d) ELSE d
        /\ rows' = [p \in Party |-> IF Names(q, p) THEN "here" ELSE rows[p]]
        /\ faults' = faults
             \cup If(was # {} /\ {post.lead, post.contact} = {None}, "cleared")
             \cup If(\/ req.lead # None /\ post.contact # None
                     \/ req.contact # None /\ post.lead # None, "other_kind")
             \cup If(req.deal /\ ~post.deal, "unlinked")
             \cup If(~q.pending /\ {q.lead, q.contact} = {None}, "mismatch")
             \cup If(Late(q) \/ Late(deal'), "attached_late")
        /\ UNCHANGED <<world, rem, task, hook, sender>>

DeleteRequest ==
    /\ HasReq /\ ~ReqLocked /\ ~DealLocked
    /\ req' = Gone
    /\ deal' = IF HasDeal THEN Gone ELSE deal
    /\ faults' = faults \cup If(Orphans(rows, deal'), "orphan")
    /\ UNCHANGED <<world, rows, rem, task, hook, sender>>

-----------------------------------------------------------------------------
(***************************************************************************)
(* The deal and its form.                                                  *)
(***************************************************************************)

\* What the form of the deal posts; in a world that leaves out a part of it,
\* that part as it is.
Status(d) == <<d.active, d.relevant, d.closed, d.remind>>
DealPost ==
    {d \in Deal :
        /\ {d.lead, d.contact} \subseteq Here(Party) \cup {None}
        /\ "party" \in world.edits
             \/ (d.lead = deal.lead /\ d.contact = deal.contact)
        /\ "status" \in world.edits \/ Status(d) = Status(deal)}

\* Mutant: a deal marked as irrelevant stays active.
ClosedByReason(post) ==
    LET activated == IF post.closed # deal.closed THEN ~post.closed
                     ELSE post.active
        rel == post.relevant \/ (post.active # deal.active /\ activated)
    IN  [post EXCEPT !.active = activated, !.relevant = rel]

\* A closing reason makes the deal inactive and its removal active; a deal
\* activated by hand is relevant, and an irrelevant one not active.
Closed(post) ==
    LET activated == IF post.closed # deal.closed THEN ~post.closed
                     ELSE post.active
        rel == post.relevant \/ (post.active # deal.active /\ activated)
        stays == activated /\ ~(post.relevant # deal.relevant /\ ~rel)
    IN  [post EXCEPT !.active = stays, !.relevant = rel]

Free == {r \in world.reminders : rem[r] = None /\ sender.hand # r}
Ticked(post) == post.remind /\ ~deal.remind
Unticked(post) == ~post.remind /\ deal.remind

\* Mutant: the box is ticked without a reminder.
NoRemindMe(post, R) ==
    IF Unticked(post) THEN R \subseteq {r \in Reminder : rem[r] = "deal"}
    ELSE R = {}

\* remind_me: the box ticked creates a reminder, unticked it deletes those with
\* the user's name and the next step now in the form; R are these.
RemindMe(post, R) ==
    IF Ticked(post) THEN R \subseteq Free /\ Cardinality(R) = 1
    ELSE IF Unticked(post) THEN R \subseteq {r \in Reminder : rem[r] = "deal"}
    ELSE R = {}

\* A reason taken out together with the relevance is an error of the page: it
\* asks the missing reason whether it stands for success.
SubmitDeal(post, R) ==
    LET d == Closed(post)
    IN  /\ ~DealLocked
        /\ RemindMe(post, R)
        /\ ~(deal.closed /\ ~post.closed /\ ~d.active)
        /\ deal' = d
        /\ rem' = [r \in Reminder |->
                     IF r \in R THEN IF post.remind THEN "deal" ELSE None
                     ELSE rem[r]]
        /\ faults' = faults
             \cup If(<<d.lead, d.contact>> # <<deal.lead, deal.contact>>, "relinked")
             \cup If(Late(d), "attached_late")
             \cup If(deal.closed /\ ~post.closed /\ ~deal.relevant, "reopened")
             \cup If(~post.remind /\ sender.hand \in R, "withdrawn")
        /\ UNCHANGED <<world, rows, req, task, hook, sender>>

DeleteDeal ==
    /\ HasDeal /\ ~DealLocked /\ ~ReqLocked
    /\ deal' = Gone
    /\ req' = IF HasReq /\ req.deal THEN Gone ELSE req
    /\ faults' = faults \cup If(Orphans(rows, deal'), "orphan")
    /\ UNCHANGED <<world, rows, rem, task, hook, sender>>

-----------------------------------------------------------------------------
(***************************************************************************)
(* Leads and contacts: deleted by hand, converted, removed as duplicates.  *)
(***************************************************************************)
\* The deals of a duplicate have been moved and its requests have not.
Halfway == task.kind = "remove" /\ task.step = "request"

DeleteParty(p) ==
    /\ rows[p] = "here"
    /\ task.kind = "convert" => p \notin {task.from, task.to}
    /\ ~(DealLocked /\ Names(deal, p)) /\ ~(ReqLocked /\ Names(req, p))
    /\ Delete([rows EXCEPT ![p] = "gone"], req, deal)
    /\ faults' = faults
         \cup If(Orphans(rows', deal'), "orphan")
         \cup If(Halfway /\ p = task.from, "dropped")
    /\ UNCHANGED <<world, rem, task, hook, sender>>

Moved(row, from, to) ==
    IF ~Names(row, from) THEN row
    ELSE IF from \in Lead /\ to \in Contact
         THEN [row EXCEPT !.lead = None, !.contact = to]
    ELSE IF from \in Lead THEN [row EXCEPT !.lead = to]
    ELSE [row EXCEPT !.contact = to]

\* The lead's form is saved with the button Convert: the rows of the lead are
\* moved to a contact, which was found or is created with it.
StartConvert(l, c) ==
    /\ task = Idle /\ Open < world.open
    /\ rows[l] = "here" /\ rows[c] # "gone"
    /\ task' = [kind |-> "convert", from |-> l, to |-> c,
                deal |-> Names(deal, l), req |-> Names(req, l)]
    /\ UNCHANGED <<world, rows, req, deal, rem, hook, sender, faults>>

\* Mutant: the deals stay with the lead.
ConvertRequestsOnly ==
    /\ task.kind = "convert"
    /\ LET q == IF task.req THEN Moved(req, task.from, task.to) ELSE req
       IN  Delete([rows EXCEPT ![task.from] = "gone", ![task.to] = "here"], q, deal)
    /\ task' = Idle
    /\ faults' = faults \cup If(Orphans(rows', deal'), "orphan")
    /\ UNCHANGED <<world, rem, hook, sender>>

\* The transaction deletes the lead, with whatever was attached to it after its
\* rows were moved, and commits.
FinishConvert ==
    /\ task.kind = "convert"
    /\ LET d == IF task.deal THEN Moved(deal, task.from, task.to) ELSE deal
           q == IF task.req THEN Moved(req, task.from, task.to) ELSE req
       IN  Delete([rows EXCEPT ![task.from] = "gone", ![task.to] = "here"], q, d)
    /\ task' = Idle
    /\ faults' = faults \cup If(Orphans(rows', deal'), "orphan")
    /\ UNCHANGED <<world, rem, hook, sender>>

\* A row attached at the last moment, or any error, rolls the transaction back.
AbortConvert ==
    /\ task.kind = "convert"
    /\ task' = Idle
    /\ UNCHANGED <<world, rows, req, deal, rem, hook, sender, faults>>

\* The page Delete duplicate, every step of which commits.
StartRemove(dup, orig) ==
    /\ task = Idle /\ Open < world.open
    /\ dup # orig /\ {dup, orig} \subseteq Here(Party)
    /\ {dup, orig} \subseteq Lead \/ {dup, orig} \subseteq Contact
    /\ task' = [kind |-> "remove", from |-> dup, to |-> orig, step |-> "deal"]
    /\ UNCHANGED <<world, rows, req, deal, rem, hook, sender, faults>>

\* A row cannot be moved to an original that was deleted meanwhile.
RelateDeal ==
    /\ task.kind = "remove" /\ task.step = "deal"
    /\ IF Names(deal, task.from) /\ rows[task.to] # "here"
       THEN deal' = deal /\ task' = Idle
       ELSE /\ deal' = Moved(deal, task.from, task.to)
            /\ task' = [task EXCEPT !.step = "request"]
    /\ UNCHANGED <<world, rows, req, rem, hook, sender, faults>>

RelateRequest ==
    /\ task.kind = "remove" /\ task.step = "request"
    /\ IF Names(req, task.from) /\ rows[task.to] # "here"
       THEN req' = req /\ task' = Idle
       ELSE /\ req' = Moved(req, task.from, task.to)
            /\ task' = [task EXCEPT !.step = "delete"]
    /\ UNCHANGED <<world, rows, deal, rem, hook, sender, faults>>

\* The original is saved with the details of the duplicate, which inserts it
\* again if it is gone, and the duplicate is deleted.
DeleteDuplicate ==
    /\ task.kind = "remove" /\ task.step = "delete"
    /\ Delete([rows EXCEPT ![task.from] = "gone", ![task.to] = "here"], req, deal)
    /\ task' = Idle
    /\ faults' = faults \cup If(Orphans(rows', deal'), "orphan")
    /\ UNCHANGED <<world, rem, hook, sender>>

-----------------------------------------------------------------------------
(***************************************************************************)
(* The web hook of the telephone exchange.                                 *)
(***************************************************************************)

\* A call of the deal's contact or lead has ended.
HookRead ==
    /\ hook = Gone /\ Open < world.open
    /\ HasDeal /\ deal.active /\ {deal.lead, deal.contact} # {None}
    /\ hook' = deal
    /\ UNCHANGED <<world, rows, req, deal, rem, task, sender, faults>>

\* The whole row is written, with one line more in its workflow, and inserted
\* again if it is gone, unless a row it refers to is missing.
HookSave ==
    /\ hook # Gone /\ ~DealLocked
    /\ deal' = IF HasReq /\ ~Dead(rows, hook.lead) /\ ~Dead(rows, hook.contact)
               THEN hook ELSE deal
    /\ hook' = Gone
    /\ faults' = faults \cup If(deal' # deal, "stale_hook")
                 \cup If(Late(deal') /\ deal' # deal, "attached_late")
    /\ UNCHANGED <<world, rows, req, rem, task, sender>>

-----------------------------------------------------------------------------
(***************************************************************************)
(* Reminders.                                                              *)
(***************************************************************************)

\* The pages of a deal and of a lead offer to add a reminder.
AddReminder(r, o) ==
    /\ r \in Free
    /\ IF o \in Lead THEN rows[o] = "here" ELSE HasDeal
    /\ rem' = [rem EXCEPT ![r] = o]
    /\ UNCHANGED <<world, rows, req, deal, task, hook, sender, faults>>

\* A reminder is deleted or set inactive on its own page, which does not open
\* when its object is gone.
Withdraw(r) ==
    /\ rem[r] # None
    /\ IF rem[r] \in Lead THEN rows[rem[r]] = "here" ELSE HasDeal
    /\ rem' = [rem EXCEPT ![r] = None]
    /\ faults' = faults \cup {"withdrawn"}
    /\ UNCHANGED <<world, rows, req, deal, task, hook, sender>>

\* The thread comes to a reminder that is due and tells its owner.  It has no
\* handler for errors: a missing object ends it.
Remind(r) ==
    /\ sender.alive /\ sender.hand = None
    /\ rem[r] # None
    /\ sender' =
         IF rem[r] = "deal" /\ HasDeal
         THEN [sender EXCEPT !.hand = r, !.flag = deal.remind]
         ELSE IF rem[r] \in Lead /\ rows[rem[r]] = "here"
         THEN [sender EXCEPT !.hand = r]
         ELSE [sender EXCEPT !.alive = FALSE]
    /\ UNCHANGED <<world, rows, req, deal, rem, task, hook, faults>>

Died == [Asleep EXCEPT !.alive = FALSE]

\* The box of the deal is unticked if it was ticked when the thread read it.
\* Saving the named columns of a row that is gone is an error.
Untick ==
    /\ sender.flag /\ ~DealLocked
    /\ deal' = IF HasDeal THEN [deal EXCEPT !.remind = FALSE] ELSE deal
    /\ sender' = IF HasDeal THEN [sender EXCEPT !.flag = FALSE] ELSE Died
    /\ UNCHANGED <<world, rows, req, rem, task, hook, faults>>

\* Mutant: the reminder stays active.
SetNothing ==
    /\ sender.hand # None /\ ~sender.flag
    /\ sender' = Asleep
    /\ UNCHANGED <<world, rows, req, deal, rem, task, hook, faults>>

\* The reminder is set inactive; one that was deleted meanwhile ends the thread.
SetInactive ==
    /\ sender.hand # None /\ ~sender.flag
    /\ rem' = [rem EXCEPT ![sender.hand] = None]
    /\ \/ sender' = Asleep
       \/ rem[sender.hand] = None /\ sender' = Died
    /\ UNCHANGED <<world, rows, req, deal, task, hook, faults>>

\* The server is started again after the thread has died, or stops in between.
Restart ==
    /\ ~sender.alive
    /\ sender' = Asleep
    /\ UNCHANGED <<world, rows, req, deal, rem, task, hook, faults>>

Crash ==
    /\ Open > 0 \/ sender.hand # None
    /\ task' = Idle /\ hook' = Gone
    /\ sender' = Asleep
    /\ faults' = faults \cup {"crash"}
    /\ UNCHANGED <<world, rows, req, deal, rem>>

-----------------------------------------------------------------------------
Tolerated == faults' \subseteq Considered /\ Cardinality(faults') <= MaxFaults

Next ==
    /\ \/ HasReq /\ \E post \in Post : \E q \in Saved(post) : SubmitRequest(post, q)
       \/ DeleteRequest
       \/ HasDeal /\ \E post \in DealPost, R \in SUBSET Reminder :
             SubmitDeal(post, R)
       \/ DeleteDeal
       \/ \E p \in Party : DeleteParty(p)
       \/ \E l \in Lead, c \in Contact : StartConvert(l, c)
       \/ FinishConvert
       \/ AbortConvert
       \/ \E dup, orig \in Party : StartRemove(dup, orig)
       \/ RelateDeal
       \/ RelateRequest
       \/ DeleteDuplicate
       \/ HookRead
       \/ HookSave
       \/ \E r \in Reminder, o \in Lead \cup {"deal"} : AddReminder(r, o)
       \/ \E r \in Reminder : Withdraw(r)
       \/ \E r \in Reminder : Remind(r)
       \/ Untick
       \/ SetInactive
       \/ Restart
       \/ Crash
    /\ Tolerated

Spec == Init /\ [][Next]_vars

\* What has begun goes on: a conversion ends, and the thread, which comes to
\* every due reminder in turn, is not kept from a row for ever.
FairSpec ==
    /\ Spec
    /\ WF_vars((FinishConvert \/ AbortConvert) /\ Tolerated)
    /\ SF_vars(Untick /\ Tolerated)
    /\ WF_vars(SetInactive /\ Tolerated)
    /\ \A r \in Reminder : SF_vars(Remind(r) /\ Tolerated)

-----------------------------------------------------------------------------
(***************************************************************************)
(* Properties.                                                             *)
(***************************************************************************)
NoFault(F) == faults \cap F = {}

\* The request and its deal name the same client, whom the deal's page shows
\* and cannot open without: whatever the two forms, conversions, removals of
\* duplicates and deletions do, outside the events named.
SameParty ==
    NoFault({"other_kind", "cleared", "unlinked", "mismatch", "relinked",
             "dropped", "stale_hook", "crash"})
    /\ task.kind # "remove" /\ HasReq /\ req.deal
        => /\ HasDeal
           /\ deal.lead = req.lead /\ deal.contact = req.contact
           /\ {deal.lead, deal.contact} # {None}

\* Converting a lead and removing a duplicate keep the deal.  Only deleting it
\* by hand, or the request, or the client the request names, deletes it, unless
\* a form names a party that is being removed, or one being removed is deleted.
DealKept ==
    [][HasDeal /\ deal'.row = "gone"
       /\ faults' \cap {"other_kind", "cleared", "unlinked", "relinked",
                        "attached_late", "dropped", "stale_hook", "crash"} = {}
         => /\ task' = task
            /\ \/ rows' = rows
               \/ Dead(rows', req.lead)
               \/ Dead(rows', req.contact)
               \/ task.kind = "remove" /\ Dead(rows', task.to)]_vars

\* A deal that is worked on is relevant, unless a deal given up was reopened by
\* taking out its closing reason.
ActiveIsRelevant ==
    HasDeal /\ deal.active /\ NoFault({"reopened"}) => deal.relevant

\* The box Remind me of a deal is ticked only while a reminder for it is active.
FlagMeansReminder ==
    HasDeal /\ deal.remind /\ NoFault({"withdrawn", "stale_hook"})
        => \E r \in Reminder : rem[r] = "deal"

\* Every active reminder is sent and done with, while no object of a reminder
\* and no reminder is deleted under the thread's hands.
Reminded ==
    \A r \in Reminder :
        rem[r] # None ~> rem[r] = None \/ ~NoFault({"orphan", "withdrawn", "crash"})
=============================================================================
