----------------------------- MODULE MassMailing -----------------------------
(***************************************************************************)
(* The mailings of one owner and the thread that sends them.               *)
(*                                                                         *)
(* A pass of the thread loads one active mailing of the owner, gives every *)
(* recipient without a mass contact an account of the owner's queue, and   *)
(* lets each account send one message.  The mailing and the accounts of a  *)
(* pass are copies in memory, and every save() of the thread writes the    *)
(* whole copy: what owners, administrators and recipients change meanwhile *)
(* is overwritten.  A pass takes minutes, for the thread sleeps between    *)
(* messages.                                                               *)
(***************************************************************************)
EXTENDS FiniteSets, Naturals

CONSTANTS
    Mailing,      \* the owner's mailings
    Letter,       \* the messages they send
    Letterings,   \* the assignments of messages to mailings to consider
    Recipient,    \* contacts, companies or leads
    Account,      \* the owner's mail accounts
    Main,         \* the main account, used for VIP recipients only
    NoAccount,
    NoRecipient,
    NoMailing,
    MaxSent,      \* bound: how often a recipient is sent a message
    MaxRetries,   \* bound: how often failed recipients are sent again
    MaxFaults,    \* bound: how many kinds of hazardous events happen
    Considered    \* the hazardous events to consider with each lettering

ASSUME MailingAssumption ==
    /\ Main \in Account /\ NoAccount \notin Account
    /\ NoRecipient \notin Recipient /\ NoMailing \notin Mailing
    /\ Letterings \subseteq [Mailing -> Letter]
    /\ DOMAIN Considered = Letterings
    /\ MaxSent \in Nat /\ MaxRetries \in Nat /\ MaxFaults \in Nat

VARIABLES
    letterOf,   \* the message of each mailing, fixed at the start
    row,        \* the MailingOut rows
    contact,    \* the MassContact of each recipient
    party,      \* the recipient: in, out (massmail = False) or gone
    account,    \* EmailAccount.massmail, or gone
    queue,      \* EmlAccountsQueue of the owner, as a set
    th,         \* the sending thread
    sent,       \* how often each recipient was sent each message
    link,       \* the unsubscribe link in the last mail: it may be dead
    optedOut,   \* the recipients who have followed their link
    retries,    \* how often failed recipients were sent again
    faults      \* the hazardous events so far

world == <<letterOf, party, optedOut, retries>>
vars == <<row, contact, account, queue, th, sent, link, world, faults>>

Fault == {"overlap", "torn", "crash", "lost_reply", "mail_error", "auth_error",
          "account_off", "account_deleted", "optout"}
Active == {"A", "E"}
Row == [status : {"A", "E", "P", "D", "none"}, rec : SUBSET Recipient,
        succ : SUBSET Recipient, fail : SUBSET Recipient]
NoRow == [status |-> "none", rec |-> {}, succ |-> {}, fail |-> {}]

NoContact == [acct |-> NoAccount, on |-> FALSE]
Contact == [acct : Account, on : BOOLEAN] \cup {NoContact}

\* copy is the thread's copy of mailing m, pass the recipients it began with,
\* todo the accounts still to send, e and r the account and the recipient at
\* hand, live whether the mass contact named in the message still exists.
Thread == [step : {"idle", "plan", "pick", "send", "sent", "count", "failed",
                   "off"},
           m : Mailing \cup {NoMailing}, copy : Row, pass : SUBSET Recipient,
           todo : SUBSET Account, e : Account \cup {NoAccount},
           r : Recipient \cup {NoRecipient}, live : BOOLEAN]
Sleeping == [step |-> "idle", m |-> NoMailing, copy |-> NoRow, pass |-> {},
             todo |-> {}, e |-> NoAccount, r |-> NoRecipient,
             live |-> FALSE]

TypeOK ==
    /\ letterOf \in Letterings
    /\ row \in [Mailing -> Row]
    /\ contact \in [Recipient -> Contact]
    /\ party \in [Recipient -> {"in", "out", "gone"}]
    /\ account \in [Account -> {"on", "off", "gone"}]
    /\ queue \subseteq Account
    /\ th \in Thread
    /\ sent \in [Letter -> [Recipient -> 0 .. MaxSent]]
    /\ link \in [Recipient -> {"none", "live", "dead"}]
    /\ optedOut \subseteq Recipient
    /\ retries \in 0 .. MaxRetries
    /\ faults \subseteq Fault

Init ==
    /\ letterOf \in Letterings
    /\ row = [m \in Mailing |-> NoRow]
    /\ contact = [r \in Recipient |-> NoContact]
    /\ party = [r \in Recipient |-> "in"]
    /\ account = [e \in Account |-> "on"]
    /\ queue = Account \ {Main}
    /\ th = Sleeping
    /\ sent = [l \in Letter |-> [r \in Recipient |-> 0]]
    /\ link = [r \in Recipient |-> "none"]
    /\ optedOut = {}
    /\ retries = 0
    /\ faults = {}

-----------------------------------------------------------------------------
Exists(m) == row[m].status # "none"
Names(m) == row[m].rec \cup row[m].succ \cup row[m].fail
Listed(l) == UNION {Names(m) : m \in {k \in Mailing : letterOf[k] = l}}

\* What get_next may return that can be stored in a mass contact.
Usable == {e \in queue : account[e] # "gone"}

\* EmlAccountsQueue.add_id and remove_id.
AddId(e)    == queue' = queue \cup {e}
RemoveId(e) == queue' = queue \ {e}

\* The thread has a copy of mailing m in hand.
Overlap(m) == IF th.m = m THEN {"overlap"} ELSE {}

\* A mass contact is deleted: links that name it lead nowhere.
Unlink(R) == link' = [r \in Recipient |->
                         IF r \in R /\ link[r] = "live" THEN "dead" ELSE link[r]]

-----------------------------------------------------------------------------
(***************************************************************************)
(* The thread.                                                             *)
(***************************************************************************)

\* An active mailing of the owner is loaded; of several, any.
Load(m) ==
    /\ th.step = "idle"
    /\ row[m].status \in Active
    /\ th' = [Sleeping EXCEPT !.step = "plan", !.m = m, !.copy = row[m]]
    /\ UNCHANGED <<row, contact, account, queue, sent, link, world, faults>>

\* Nobody is left to be mailed: the mailing is done.
Finish ==
    /\ th.step = "plan"
    /\ th.copy.rec = {}
    /\ row' = [row EXCEPT ![th.m] = [th.copy EXCEPT !.status = "D"]]
    /\ th' = Sleeping
    /\ UNCHANGED <<contact, account, queue, sent, link, world, faults>>

Missing == {r \in th.copy.rec : contact[r].acct = NoAccount}

\* Mutant: accounts switched off are used as well.
PlanAllAccounts ==
    /\ th.step = "plan"
    /\ th.copy.rec # {}
    /\ \E f \in [Missing -> queue] :
          contact' = [r \in Recipient |->
                        IF r \in Missing THEN [acct |-> f[r], on |-> TRUE]
                                         ELSE contact[r]]
    /\ th' = [th EXCEPT !.step = "pick", !.pass = th.copy.rec,
                        !.todo = {e \in Account : account[e] # "gone"}]
    /\ UNCHANGED <<row, account, queue, sent, link, world, faults>>

\* fix_masscontacts gives each recipient without a mass contact an account of
\* the queue, and the accounts allowed to send are loaded.
Plan ==
    /\ th.step = "plan"
    /\ th.copy.rec # {}
    /\ \/ \E f \in [Missing -> Usable] :
             contact' = [r \in Recipient |->
                           IF r \in Missing THEN [acct |-> f[r], on |-> TRUE]
                                            ELSE contact[r]]
       \/ queue = {} /\ Missing # {} /\ contact' = contact
    /\ th' = [th EXCEPT !.step = "pick", !.pass = th.copy.rec,
                        !.todo = {e \in Account : account[e] = "on"}]
    /\ UNCHANGED <<row, account, queue, sent, link, world, faults>>

\* The queue names an account that was deleted: the pass ends with an error at
\* the first recipient it falls to, those before have their mass contacts.
PlanFails ==
    /\ th.step = "plan"
    /\ \E e \in queue : account[e] = "gone"
    /\ \E R \in (SUBSET Missing) \ {Missing} :
          \E f \in [R -> Usable] :
             contact' = [r \in Recipient |->
                           IF r \in R THEN [acct |-> f[r], on |-> TRUE]
                                      ELSE contact[r]]
    /\ th' = Sleeping
    /\ UNCHANGED <<row, account, queue, sent, link, world, faults>>

\* Mutant: the recipient's own choice is not looked at.
CandidatesRegardless(e) == {r \in th.pass : contact[r].acct = e}

\* _get_masscontact: recipients of the pass assigned to the account.
Candidates(e) ==
    {r \in th.pass : contact[r].acct = e /\ contact[r].on}

PickNobody(e) ==
    /\ th.step = "pick"
    /\ e \in th.todo
    /\ Candidates(e) = {}
    /\ th' = [th EXCEPT !.todo = @ \ {e}]
    /\ UNCHANGED <<row, contact, account, queue, sent, link, world, faults>>

Pick(e, r) ==
    /\ th.step = "pick"
    /\ e \in th.todo
    /\ r \in Candidates(e)
    /\ party[r] # "gone"
    /\ th' = [th EXCEPT !.step = "send", !.todo = @ \ {e}, !.e = e, !.r = r,
                        !.live = TRUE]
    /\ UNCHANGED <<row, contact, account, queue, sent, link, world, faults>>

\* What the thread goes on with when the copy c has been saved.
NextAccount(c) ==
    th' = [th EXCEPT !.step = "pick", !.copy = c, !.e = NoAccount,
                     !.r = NoRecipient, !.live = FALSE]

SaveCopy(c) == row' = [row EXCEPT ![th.m] = c]

\* The recipient no longer exists: it is struck from the list, with its mass
\* contact; list.remove raises when it is not in the list any more.
PickGone(e, r) ==
    /\ th.step = "pick"
    /\ e \in th.todo
    /\ r \in Candidates(e)
    /\ party[r] = "gone"
    /\ IF r \in th.copy.rec
       THEN LET c == [th.copy EXCEPT !.rec = @ \ {r}]
            IN  /\ SaveCopy(c)
                /\ th' = [th EXCEPT !.copy = c, !.todo = @ \ {e}]
                /\ contact' = [contact EXCEPT ![r] = NoContact]
                /\ Unlink({r})
       ELSE th' = Sleeping /\ UNCHANGED <<row, contact, link>>
    /\ UNCHANGED <<account, queue, sent, world, faults>>

\* msg.send(): the server takes the message or refuses it, refuses the
\* account, or takes the message and its answer is lost.
Send(outcome) ==
    /\ th.step = "send"
    /\ LET taken == outcome \in {"sent", "lost_reply"}
           l == letterOf[th.m]
       IN  /\ taken => sent[l][th.r] < MaxSent
           /\ sent' = IF taken THEN [sent EXCEPT ![l][th.r] = @ + 1] ELSE sent
           /\ link' = IF taken THEN [link EXCEPT ![th.r] =
                                       IF th.live THEN "live" ELSE "dead"]
                               ELSE link
    /\ th' = [th EXCEPT !.step = CASE outcome = "sent" -> "sent"
                                   [] outcome = "auth_error" -> "off"
                                   [] OTHER -> "failed"]
    /\ faults' = faults \cup (IF outcome = "sent" THEN {} ELSE {outcome})
    /\ UNCHANGED <<row, contact, account, queue, world>>

\* Mutant: the recipient stays on the list.
RecordInSuccessOnly ==
    /\ th.step = "sent"
    /\ LET c == [th.copy EXCEPT !.succ = @ \cup {th.r}]
       IN  SaveCopy(c) /\ th' = [th EXCEPT !.step = "count", !.copy = c]
    /\ UNCHANGED <<contact, account, queue, sent, link, world, faults>>

\* move_to_successful_ids; a recipient that is not on the list any more ends
\* the pass with an error.
Record ==
    /\ th.step = "sent"
    /\ IF th.r \in th.copy.rec
       THEN LET c == [th.copy EXCEPT !.rec = @ \ {th.r},
                                     !.succ = @ \cup {th.r}]
            IN  SaveCopy(c) /\ th' = [th EXCEPT !.step = "count", !.copy = c]
       ELSE row' = row /\ th' = Sleeping
    /\ UNCHANGED <<contact, account, queue, sent, link, world, faults>>

\* counter_increment saves the copies of the account and of the mailing.
Count ==
    /\ th.step = "count"
    /\ account' = [account EXCEPT ![th.e] = "on"]
    /\ SaveCopy(th.copy)
    /\ NextAccount(th.copy)
    /\ UNCHANGED <<contact, queue, sent, link, world, faults>>

\* Mutant: the report of an error counts the recipient as mailed.
FailedAsSuccess ==
    /\ th.step = "failed"
    /\ th.r \in th.copy.rec
    /\ LET c == [th.copy EXCEPT !.status = "E", !.rec = @ \ {th.r},
                                !.succ = @ \cup {th.r}]
       IN  SaveCopy(c) /\ NextAccount(c)
    /\ UNCHANGED <<contact, account, queue, sent, link, world, faults>>

\* Mutant: the recipient is struck from the list and not kept as failed.
FailedDropped ==
    /\ th.step = "failed"
    /\ th.r \in th.copy.rec
    /\ LET c == [th.copy EXCEPT !.status = "E", !.rec = @ \ {th.r}]
       IN  SaveCopy(c) /\ NextAccount(c)
    /\ UNCHANGED <<contact, account, queue, sent, link, world, faults>>

\* Mutant: the recipient is left on the list, to be tried again.
FailedKept ==
    /\ th.step = "failed"
    /\ LET c == [th.copy EXCEPT !.status = "E"]
       IN  SaveCopy(c) /\ NextAccount(c)
    /\ UNCHANGED <<contact, account, queue, sent, link, world, faults>>

\* report() and move_to_failed_ids.
Failed ==
    /\ th.step = "failed"
    /\ IF th.r \in th.copy.rec
       THEN LET c == [th.copy EXCEPT !.status = "E", !.rec = @ \ {th.r},
                                     !.fail = @ \cup {th.r}]
            IN  SaveCopy(c) /\ NextAccount(c)
       ELSE row' = row /\ th' = Sleeping
    /\ UNCHANGED <<contact, account, queue, sent, link, world, faults>>

\* report(off=True): the account is switched off, the recipient waits.
SwitchOff ==
    /\ th.step = "off"
    /\ account' = [account EXCEPT ![th.e] = "off"]
    /\ LET c == [th.copy EXCEPT !.status = "E"]
       IN  SaveCopy(c) /\ NextAccount(c)
    /\ UNCHANGED <<contact, queue, sent, link, world, faults>>

EndPass ==
    /\ th.step = "pick"
    /\ th.todo = {}
    /\ th' = Sleeping
    /\ UNCHANGED <<row, contact, account, queue, sent, link, world, faults>>

\* The server is killed; a sending is torn when the message is out and the
\* list still names its recipient.
Crash ==
    /\ th # Sleeping
    /\ th' = Sleeping
    /\ faults' = faults \cup {IF th.step = "sent" THEN "torn" ELSE "crash"}
    /\ UNCHANGED <<row, contact, account, queue, sent, link, world>>

-----------------------------------------------------------------------------
(***************************************************************************)
(* The owner, the recipients and the administrator.                        *)
(***************************************************************************)

\* make_mailing_out and make_massmail leave out who has unsubscribed.  Here no
\* recipient is listed for one message twice.
Create(m, R) ==
    /\ ~Exists(m)
    /\ \E e \in Account : account[e] = "on"
    /\ R # {}
    /\ R \cap Listed(letterOf[m]) = {}
    /\ \A r \in R : party[r] = "in" /\ sent[letterOf[m]][r] = 0
    /\ th.m # m
    /\ row' = [row EXCEPT ![m] = [NoRow EXCEPT !.status = "P", !.rec = R]]
    /\ UNCHANGED <<contact, account, queue, th, sent, link, world, faults>>

\* The mailing's form; "P" stands for every status that is not sent.
SetStatus(m, s) ==
    /\ Exists(m)
    /\ row' = [row EXCEPT ![m].status = s]
    /\ faults' = faults \cup Overlap(m)
    /\ UNCHANGED <<contact, account, queue, th, sent, link, world>>

\* send_failed_recipients: the failed are put back on the list.
SendFailed(m) ==
    /\ Exists(m)
    /\ retries < MaxRetries
    /\ row' = [row EXCEPT ![m] = [@ EXCEPT !.status = "A",
                                           !.rec = row[m].rec \cup row[m].fail,
                                           !.fail = {}]]
    /\ retries' = retries + 1
    /\ faults' = faults \cup Overlap(m)
    /\ UNCHANGED <<contact, account, queue, th, sent, link, letterOf, party,
                   optedOut>>

\* merge_mailing_outs: a new mailing takes the lists and the status of one of
\* those merged, which are deleted.
Merge(M, n, f) ==
    /\ f \in M
    /\ \A m \in M : Exists(m) /\ letterOf[m] = letterOf[n]
    /\ ~Exists(n) /\ th.m # n
    /\ row' = [m \in Mailing |->
                 IF m \in M THEN NoRow
                 ELSE IF m = n
                 THEN [status |-> row[f].status,
                       rec  |-> UNION {row[k].rec : k \in M},
                       succ |-> UNION {row[k].succ : k \in M},
                       fail |-> UNION {row[k].fail : k \in M}]
                 ELSE row[m]]
    /\ faults' = faults \cup UNION {Overlap(m) : m \in M}
    /\ UNCHANGED <<contact, account, queue, th, sent, link, world>>

\* specify_vip_recipients: the main account takes the recipient.
MakeVIP(r) ==
    /\ party[r] # "gone"
    /\ account[Main] # "gone"
    /\ contact[r].acct # Main
    /\ contact' = [contact EXCEPT ![r] =
                     [acct |-> Main,
                      on |-> IF @ = NoContact THEN TRUE ELSE @.on]]
    /\ faults' = faults \cup (IF r \in th.pass THEN {"overlap"} ELSE {})
    /\ UNCHANGED <<row, account, queue, th, sent, link, world>>

\* Mutant: the recipient is marked, the mass contact is not.
UnsubscribePartyOnly(r) ==
    /\ link[r] # "none"
    /\ optedOut' = optedOut \cup {r}
    /\ link[r] = "live" => party[r] # "gone"
    /\ party' = IF link[r] = "live" THEN [party EXCEPT ![r] = "out"] ELSE party
    /\ faults' = faults \cup {"optout"}
    /\ UNCHANGED <<row, contact, account, queue, th, sent, link, letterOf,
                   retries>>

\* The recipient follows the link of the last mail: a link to a mass contact
\* that is no more leads to the same page and changes nothing; a recipient that
\* is no more cannot be marked, its mass contact can.
Unsubscribe(r) ==
    /\ link[r] # "none"
    /\ optedOut' = optedOut \cup {r}
    /\ IF link[r] = "live"
       THEN /\ contact' = [contact EXCEPT ![r].on = FALSE]
            /\ party' = [party EXCEPT ![r] = IF @ = "gone" THEN @ ELSE "out"]
       ELSE UNCHANGED <<contact, party>>
    /\ faults' = faults \cup {"optout"}
    /\ UNCHANGED <<row, account, queue, th, sent, link, letterOf,
                   retries>>

\* A contact, company or lead is deleted: with its mass contact, unless it is
\* deleted from the list, which does not call delete().
DeleteParty(r, bulk) ==
    /\ party[r] # "gone"
    /\ party' = [party EXCEPT ![r] = "gone"]
    /\ IF bulk THEN UNCHANGED <<contact, link, th>>
               ELSE /\ contact' = [contact EXCEPT ![r] = NoContact]
                    /\ Unlink({r})
                    /\ th' = [th EXCEPT !.live = @ /\ th.r # r]
    /\ UNCHANGED <<row, account, queue, sent, letterOf, optedOut,
                   retries, faults>>

InPass(e) == e \in th.todo \/ e = th.e

\* The account's form: what may send mass mail enters the queue.
SwitchAccount(e, s) ==
    /\ account[e] \notin {"gone", s}
    /\ account' = [account EXCEPT ![e] = s]
    /\ IF s = "on" /\ e # Main THEN AddId(e) ELSE UNCHANGED queue
    /\ faults' = faults \cup (IF s = "off" THEN {"account_off"} ELSE {})
                        \cup (IF InPass(e) THEN {"overlap"} ELSE {})
    /\ UNCHANGED <<row, contact, th, sent, link, world>>

\* Deleting an account deletes its mass contacts, and takes it from the queue
\* unless it is deleted from the list, which does not call delete().
DeleteAccount(e, bulk) ==
    /\ account[e] # "gone"
    /\ account' = [account EXCEPT ![e] = "gone"]
    /\ IF bulk THEN UNCHANGED queue ELSE RemoveId(e)
    /\ LET R == {r \in Recipient : contact[r].acct = e}
       IN  /\ contact' = [r \in Recipient |->
                            IF r \in R THEN NoContact ELSE contact[r]]
           /\ Unlink(R)
           /\ th' = [th EXCEPT !.live = @ /\ th.r \notin R]
    /\ faults' = faults \cup {"account_deleted"}
                        \cup (IF InPass(e) THEN {"overlap"} ELSE {})
    /\ UNCHANGED <<row, sent, world>>

-----------------------------------------------------------------------------
Outcome == {"sent", "lost_reply", "mail_error", "auth_error"}

\* What the thread does once a pass has begun.
Work ==
    \/ Finish
    \/ Plan
    \/ PlanFails
    \/ \E e \in Account : PickNobody(e)
    \/ \E e \in Account, r \in Recipient : Pick(e, r)
    \/ \E e \in Account, r \in Recipient : PickGone(e, r)
    \/ \E outcome \in Outcome : Send(outcome)
    \/ Record
    \/ Count
    \/ Failed
    \/ SwitchOff
    \/ EndPass

Others ==
    \/ Crash
    \/ \E m \in Mailing, R \in SUBSET Recipient : Create(m, R)
    \/ \E m \in Mailing, s \in {"A", "P"} : SetStatus(m, s)
    \/ \E m \in Mailing : SendFailed(m)
    \/ \E M \in SUBSET Mailing, n, f \in Mailing : Merge(M, n, f)
    \/ \E r \in Recipient : MakeVIP(r)
    \/ \E r \in Recipient : Unsubscribe(r)
    \/ \E r \in Recipient, bulk \in BOOLEAN : DeleteParty(r, bulk)
    \/ \E e \in Account, s \in {"on", "off"} : SwitchAccount(e, s)
    \/ \E e \in Account, bulk \in BOOLEAN : DeleteAccount(e, bulk)

Tolerated ==
    faults' \subseteq Considered[letterOf] /\ Cardinality(faults') <= MaxFaults

Next ==
    /\ \/ \E m \in Mailing : Load(m)
       \/ Work
       \/ Others
    /\ Tolerated

\* The thread never stops for good, and the random order of the mailings lets
\* each have its turn.
Fairness == /\ WF_vars(Work /\ Tolerated)
            /\ \A m \in Mailing : SF_vars(Load(m) /\ Tolerated)

Spec == Init /\ [][Next]_vars /\ Fairness

-----------------------------------------------------------------------------
(***************************************************************************)
(* Properties.                                                             *)
(***************************************************************************)
NoFault(F) == faults \cap F = {}

\* Nobody gets the message twice, unless the thread's copy was overtaken, the
\* server was killed between sending and saving, or an answer was lost.
NobodyTwice ==
    NoFault({"overlap", "torn", "lost_reply"}) =>
        \A l \in Letter, r \in Recipient : sent[l][r] <= 1

\* Whoever is listed as mailed was mailed, whatever happened.
SuccessMeansSent ==
    \A m \in Mailing : \A r \in row[m].succ : sent[letterOf[m]][r] > 0

\* Who is on a list of a mailing stays on one until deleted: no overwritten
\* copy, merge, retry, error or crash makes a recipient disappear.
NobodyForgotten ==
    [][\A l \in Letter : \A r \in Listed(l) :
          party[r] # "gone" => r \in Listed(l)']_vars

\* A recipient who has opted out is not picked again, unless the account that
\* wrote to him was deleted.
OptOutKept ==
    [][NoFault({"account_deleted"})' /\ th'.step = "send" /\ th.step = "pick"
          => th'.r \notin optedOut]_vars

\* An account that is off or gone is put to use again by the administrator
\* only, unless it was changed under the thread's hands.
AccountsObeyAdmin ==
    [][\A e \in Account :
          account[e] # "on" /\ account'[e] = "on"
          => SwitchAccount(e, "on") \/ ~NoFault({"overlap"})']_vars

\* An active mailing comes to an end, as long as every recipient's account may
\* send and nobody has opted out.
ActiveFinishes ==
    \A m \in Mailing :
        row[m].status \in Active ~>
            \/ row[m].status \notin Active
            \/ ~NoFault({"overlap", "torn", "crash", "auth_error", "optout",
                         "account_off", "account_deleted"})

\* 'Uninterested recipients have the opportunity to unsubscribe from receiving
\* further mailings': who has opted out is not picked again.
OptOutIsFinal ==
    [][th'.step = "send" /\ th.step = "pick" => th'.r \notin optedOut]_vars
=============================================================================
