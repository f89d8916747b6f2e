----------------------------- MODULE MailImport -----------------------------
(***************************************************************************)
(* How the e-mails of one IMAP box reach the CRM.  Every server process    *)
(* runs three threads joined by bounded queues: the importer asks the mail *)
(* server for messages that carry a ticket, the storer stores each one and *)
(* moves the row's start uid past it, and the last thread turns an inquiry *)
(* into a request.  Users visit pages, which wakes the importer, and       *)
(* import chosen messages by hand, through the same queue.                 *)
(*                                                                         *)
(* Messages are numbered in the order they arrive, which is their uid: the *)
(* box keeps its UIDVALIDITY.  The processes share nothing but the mail    *)
(* server and the database.                                                *)
(***************************************************************************)
EXTENDS FiniteSets, Naturals, Sequences

CONSTANTS
    Process,
    MaxMessages,  \* bound: how many messages arrive
    QueueSize,    \* of eml_queue, 4 in the code
    InquirySize,  \* of inq_eml_queue, 2 in the code
    Batch,        \* how many messages one import takes, 51 in the code
    MaxPicks,     \* bound: how many messages are imported by hand
    MaxFaults,    \* bound: how many kinds of hazardous events happen
    Considered    \* the hazardous events to consider, out of Fault

\* The messages that the server's search for a ticket matches.  Any other can
\* only be picked by a user, and is then treated as one without a ticket is.
Kind == {"ticket",    \* carries a ticket
         "untagged",  \* no ticket is found in it
         "ours"}      \* was sent by the CRM itself

ASSUME MailImportAssumption ==
    /\ IsFiniteSet(Process)
    /\ MaxMessages \in Nat /\ MaxPicks \in Nat /\ MaxFaults \in Nat
    /\ QueueSize \in Nat \ {0} /\ InquirySize \in Nat \ {0}
    /\ Batch \in Nat \ {0}

VARIABLES
    box,        \* the kinds of the messages that arrived
    row,        \* the EmailAccount row: start_incoming_uid and inbox_uidnext
    importer,   \* what the ImportEmails thread of each process is doing
    queue,      \* its eml_queue
    storer,     \* what its RestoreImapEmails thread is doing
    inquiries,  \* its inq_eml_queue
    stored,     \* how many CrmEmail rows each message has
    inquiry,    \* the messages stored as inquiries
    asked,      \* the inquiries that became a Request
    picks,      \* how many messages were imported by hand
    faults      \* the hazardous events so far

kept == <<stored, inquiry, asked>>
vars == <<box, row, importer, queue, storer, inquiries, kept, picks, faults>>

Fault == {"unfetched",  \* the server does not answer, or not with a message
          "unreadable", \* a message can not be decoded or stored
          "manual",     \* a message is imported by hand for a deal
          "limit",      \* an import leaves messages for the next one
          "crash",      \* a server process restarts
          "second",     \* two processes work for the account at a time
          "twin",       \* they are about to store one message
          "no_request"} \* an inquiry does not become a request

\* A message's number is its uid.
Message == 1 .. MaxMessages
Arrived == 1 .. Len(box)
Account == [start : 1 .. MaxMessages + 1, next : 0 .. MaxMessages + 1]
\* An item of the queue, and where it is from.
Item == [m : Message, how : {"incoming", "by_hand", "inquiry"}]

Rest == [step |-> "idle"]
Import == [step : {"begun"}, ea : Account]
          \cup [step : {"fetching"}, next : 0 .. MaxMessages + 1, todo : Seq(Message)]

TypeOK ==
    /\ box \in Seq(Kind) /\ Len(box) <= MaxMessages
    /\ row \in Account
    /\ importer \in [Process -> Import \cup {Rest}]
    /\ queue \in [Process -> Seq(Item)]
    /\ \A p \in Process : Len(queue[p]) <= QueueSize
    /\ storer \in [Process -> [step : {"checked", "saved"}, item : Item] \cup {Rest}]
    /\ inquiries \in [Process -> Seq(Message)]
    /\ \A p \in Process : Len(inquiries[p]) <= InquirySize
    /\ stored \in [Message -> 0 .. Cardinality(Process)]
    /\ inquiry \subseteq Message /\ asked \subseteq Message
    /\ picks \in 0 .. MaxPicks
    /\ faults \subseteq Fault

Init ==
    /\ box = <<>>
    /\ row = [start |-> 1, next |-> 0]
    /\ importer = [p \in Process |-> Rest]
    /\ queue = [p \in Process |-> <<>>]
    /\ storer = [p \in Process |-> Rest]
    /\ inquiries = [p \in Process |-> <<>>]
    /\ stored = [m \in Message |-> 0]
    /\ inquiry = {} /\ asked = {}
    /\ picks = 0
    /\ faults = {}

Fail(F) == faults' = faults \cup F

Works(p) == \/ importer[p] # Rest \/ queue[p] # <<>>
            \/ storer[p] # Rest \/ inquiries[p] # <<>>

\* The hazard of p starting something.
Second(p) == IF \E q \in Process \ {p} : Works(q) THEN {"second"} ELSE {}

-----------------------------------------------------------------------------
(***************************************************************************)
(* The mail server, and the importer.                                      *)
(***************************************************************************)
Arrive(k) ==
    /\ Len(box) < MaxMessages
    /\ box' = Append(box, k)
    /\ UNCHANGED <<picks, row, importer, queue, storer, inquiries, kept, faults>>

\* A page is served: the account is read and queued.  The importer drops it if
\* its last import, or storing a message of it, is less than the control period
\* ago: an account queued again while it is imported comes to nothing.
Visit(p) ==
    /\ importer[p] = Rest
    /\ importer' = [importer EXCEPT ![p] = [step |-> "begun", ea |-> row]]
    /\ Fail(Second(p))
    /\ UNCHANGED <<picks, box, row, queue, storer, inquiries, kept>>

\* The messages from the first one on, in their order.
Onwards(first) == [i \in 1 .. Len(box) + 1 - first |-> first + i - 1]

\* Mutant: the search starts behind the start uid.
FoundAfter(start) ==
    IF box = <<>> THEN <<>>
    ELSE Onwards(IF start < Len(box) THEN start + 1 ELSE Len(box))

\* What UID start:* matches: the last message is in the range whatever its uid.
Found(start) ==
    IF box = <<>> THEN <<>>
    ELSE Onwards(IF start <= Len(box) THEN start ELSE Len(box))

\* check_box_status and the search, if the server answers.  A message that comes
\* between them is found, and looked for once more the next time.
Look(p) ==
    /\ importer[p].step = "begun"
    /\ LET next == Len(box) + 1
           all  == Found(importer[p].ea.start)
           some == SubSeq(all, 1, IF Len(all) < Batch THEN Len(all) ELSE Batch)
           Fetching(s) == importer' = [importer EXCEPT ![p] =
                             [step |-> "fetching", next |-> next, todo |-> s]]
       IN  \/ /\ importer[p].ea.next = next
              /\ importer' = [importer EXCEPT ![p] = Rest]
              /\ UNCHANGED faults
           \/ /\ importer[p].ea.next # next
              /\ Fetching(some)
              /\ Fail(IF some = all THEN {} ELSE {"limit"})
           \/ Fail({"unfetched"}) /\ importer' = [importer EXCEPT ![p] = Rest]
           \/ /\ importer[p].ea.next # next
              /\ Fail({"unfetched"})
              /\ Fetching(<<>>)
    /\ UNCHANGED <<picks, box, row, queue, storer, inquiries, kept>>

\* Mutant: the queue is not bounded.
FetchAhead(p) ==
    /\ importer[p].step = "fetching"
    /\ importer[p].todo # <<>>
    /\ importer' = [importer EXCEPT ![p].todo = Tail(@)]
    /\ queue' = [queue EXCEPT ![p] =
          Append(@, [m |-> Head(importer[p].todo), how |-> "incoming"])]
    /\ UNCHANGED <<picks, box, row, storer, inquiries, kept, faults>>

\* One message is fetched and queued; one that can not be is left out.
Fetch(p) ==
    /\ importer[p].step = "fetching"
    /\ importer[p].todo # <<>>
    /\ importer' = [importer EXCEPT ![p].todo = Tail(@)]
    /\ \/ /\ Len(queue[p]) < QueueSize
          /\ queue' = [queue EXCEPT ![p] =
                Append(@, [m |-> Head(importer[p].todo), how |-> "incoming"])]
          /\ UNCHANGED faults
       \/ UNCHANGED queue /\ Fail({"unfetched"})
    /\ UNCHANGED <<picks, box, row, storer, inquiries, kept>>

\* Mutant: the start uid is moved as soon as the messages are queued.
FinishMovesStart(p) ==
    /\ importer[p].step = "fetching"
    /\ importer[p].todo = <<>>
    /\ row' = [start |-> importer[p].next, next |-> importer[p].next]
    /\ importer' = [importer EXCEPT ![p] = Rest]
    /\ UNCHANGED <<picks, box, queue, storer, inquiries, kept, faults>>

\* The uidnext is saved, whether the messages before it are stored or not.
Finish(p) ==
    /\ importer[p].step = "fetching"
    /\ importer[p].todo = <<>>
    /\ row' = [row EXCEPT !.next = importer[p].next]
    /\ importer' = [importer EXCEPT ![p] = Rest]
    /\ UNCHANGED <<picks, box, queue, storer, inquiries, kept, faults>>

-----------------------------------------------------------------------------
(***************************************************************************)
(* By hand.                                                                *)
(***************************************************************************)

\* A user picks a message in the box, for a deal or a request ("by_hand") or as
\* a new inquiry.
Pick(p, m, how) ==
    /\ picks < MaxPicks /\ picks' = picks + 1
    /\ m \in Arrived
    /\ Len(queue[p]) < QueueSize
    /\ queue' = [queue EXCEPT ![p] = Append(@, [m |-> m, how |-> how])]
    /\ Fail(Second(p) \cup IF how = "by_hand" THEN {"manual"} ELSE {})
    /\ UNCHANGED <<box, row, importer, storer, inquiries, kept>>

-----------------------------------------------------------------------------
(***************************************************************************)
(* The storer.                                                             *)
(***************************************************************************)

\* update_ea.
Advance(m) == row' = [row EXCEPT !.start = m + 1]

\* Mutant: what is stored is not looked up.
CheckNothing(p) ==
    /\ storer[p] = Rest
    /\ queue[p] # <<>>
    /\ queue' = [queue EXCEPT ![p] = Tail(@)]
    /\ storer' = [storer EXCEPT ![p] = [step |-> "checked", item |-> Head(queue[p])]]
    /\ UNCHANGED <<picks, box, row, importer, inquiries, kept, faults>>

\* A message is read and looked up.  One of ours is skipped; whether the start
\* moves depends on the copy of the account, which may have moved since it was
\* read.  One without a ticket is skipped too.
Check(p) ==
    /\ storer[p] = Rest
    /\ queue[p] # <<>>
    /\ LET it == Head(queue[p])
           k  == box[it.m]
           drop == storer' = storer /\ faults' = faults
           again == \E q \in Process : /\ storer[q].step = "checked"
                                       /\ storer[q].item.m = it.m
       IN  \/ k = "ours" /\ drop /\ UNCHANGED row
           \/ /\ k = "ours" /\ it.how = "incoming"
              /\ drop /\ Advance(it.m)
           \/ /\ k = "untagged" /\ it.how = "incoming"
              /\ drop /\ Advance(it.m)
           \/ k # "ours" /\ storer' = storer /\ Fail({"unreadable"}) /\ UNCHANGED row
           \/ /\ k = "ticket" \/ (k # "ours" /\ it.how # "incoming")
              /\ UNCHANGED row
              /\ IF stored[it.m] > 0
                 THEN drop
                 ELSE /\ storer' = [storer EXCEPT ![p] =
                                      [step |-> "checked", item |-> it]]
                      /\ Fail(IF again THEN {"twin"} ELSE {})
    /\ queue' = [queue EXCEPT ![p] = Tail(@)]
    /\ UNCHANGED <<picks, box, importer, inquiries, kept>>

\* crm_eml_save: the e-mail and the start uid are saved together.
StoreMail(p) ==
    /\ storer[p].step = "checked"
    /\ LET it == storer[p].item
       IN  /\ stored' = [stored EXCEPT ![it.m] = @ + 1]
           /\ IF it.how = "inquiry"
              THEN /\ inquiry' = inquiry \cup {it.m}
                   /\ storer' = [storer EXCEPT ![p].step = "saved"]
                   /\ UNCHANGED row
              ELSE /\ Advance(it.m)
                   /\ storer' = [storer EXCEPT ![p] = Rest]
                   /\ UNCHANGED inquiry
    /\ UNCHANGED <<picks, box, importer, queue, inquiries, asked, faults>>

\* Saving the e-mail fails, or saving its attachments before it is passed on.
StoreFails(p) ==
    /\ storer[p] # Rest
    /\ Fail(IF storer[p].step = "saved" THEN {"no_request"} ELSE {"unreadable"})
    /\ storer' = [storer EXCEPT ![p] = Rest]
    /\ UNCHANGED <<picks, box, row, importer, queue, inquiries, kept>>

PassOn(p) ==
    /\ storer[p].step = "saved"
    /\ Len(inquiries[p]) < InquirySize
    /\ inquiries' = [inquiries EXCEPT ![p] = Append(@, storer[p].item.m)]
    /\ storer' = [storer EXCEPT ![p] = Rest]
    /\ UNCHANGED <<picks, box, row, importer, queue, kept, faults>>

\* create_email_request: an exception is mailed and forgotten.
Ask(p) ==
    /\ inquiries[p] # <<>>
    /\ inquiries' = [inquiries EXCEPT ![p] = Tail(@)]
    /\ \/ asked' = asked \cup {Head(inquiries[p])} /\ UNCHANGED faults
       \/ Fail({"no_request"}) /\ UNCHANGED asked
    /\ UNCHANGED <<picks, box, row, importer, queue, storer, stored, inquiry>>

-----------------------------------------------------------------------------
\* A server process is restarted: its threads and queues are lost.
Crash(p) ==
    /\ Works(p)
    /\ importer' = [importer EXCEPT ![p] = Rest]
    /\ queue' = [queue EXCEPT ![p] = <<>>]
    /\ storer' = [storer EXCEPT ![p] = Rest]
    /\ inquiries' = [inquiries EXCEPT ![p] = <<>>]
    /\ Fail({"crash"})
    /\ UNCHANGED <<picks, box, row, kept>>

\* The limit is no failure, and twin comes with second: they do not count.
Tolerated ==
    /\ faults' \subseteq Considered
    /\ Cardinality(faults' \ {"limit", "twin"}) <= MaxFaults

Next ==
    /\ \/ \E k \in Kind : Arrive(k)
       \/ \E p \in Process : Visit(p)
       \/ \E p \in Process : Look(p)
       \/ \E p \in Process : Fetch(p)
       \/ \E p \in Process : Finish(p)
       \/ \E p \in Process, m \in Message, how \in {"by_hand", "inquiry"} :
             Pick(p, m, how)
       \/ \E p \in Process : Check(p)
       \/ \E p \in Process : StoreMail(p)
       \/ \E p \in Process : StoreFails(p)
       \/ \E p \in Process : PassOn(p)
       \/ \E p \in Process : Ask(p)
       \/ \E p \in Process : Crash(p)
    /\ Tolerated

Importer(p) == (Visit(p) \/ Look(p) \/ Fetch(p) \/ Finish(p)) /\ Tolerated
Storer(p) == (Check(p) \/ StoreMail(p) \/ PassOn(p)) /\ Tolerated
Inquirer(p) == Ask(p) /\ Tolerated

\* Each thread runs, and a page is visited now and then after the control period.
Fairness ==
    \A p \in Process :
        WF_vars(Importer(p)) /\ WF_vars(Storer(p)) /\ WF_vars(Inquirer(p))

Spec == Init /\ [][Next]_vars
FairSpec == Spec /\ Fairness

-----------------------------------------------------------------------------
(***************************************************************************)
(* Properties.                                                             *)
(***************************************************************************)
NoFault(F) == faults \cap F = {}

\* The start uid is never moved past a message that carries a ticket and is not
\* stored, whatever the processes read and write of the row, unless messages
\* were unfetched, unreadable or picked by hand.
NoneSkipped ==
    NoFault({"unfetched", "unreadable", "manual"}) =>
        \A m \in Arrived :
            box[m] = "ticket" /\ m < row.start => stored[m] > 0

\* A message is stored once, by whichever thread and however often it is found
\* or picked, unless two processes look it up at the same time.
StoredOnce == NoFault({"twin"}) => \A m \in Message : stored[m] <= 1

Losing == {"unfetched", "unreadable", "manual", "limit", "crash", "no_request"}

\* A message with a ticket is in the CRM in the end, and an inquiry a request,
\* as long as nothing that loses one happens: with no more messages to come,
\* nothing is left that has arrived and is not stored.
ArrivesInTheEnd ==
    []<>(NoFault(Losing) =>
           /\ \A m \in Arrived : box[m] = "ticket" => stored[m] > 0
           /\ inquiry \subseteq asked)
=============================================================================
