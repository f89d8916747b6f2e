-------------------------- MODULE MassMailing_proofs --------------------------
(***************************************************************************)
(* For any number of mailings, messages, recipients and accounts: every    *)
(* variable keeps its type; whoever is listed as mailed was mailed, and    *)
(* nobody disappears from the lists, whatever the thread, the server and   *)
(* the users do; and, unless a hazard that the property names has          *)
(* happened, nobody is mailed twice, opt-outs are kept, and no account is  *)
(* switched on again but by the administrator.                             *)
(***************************************************************************)
EXTENDS MassMailing, TLAPS

-----------------------------------------------------------------------------
(***************************************************************************)
(* Types.  TypeOK is not inductive: a thread at work has a mailing, and    *)
(* one that sends has an account and a recipient.                          *)
(***************************************************************************)
AtHand == {"send", "sent", "count", "failed", "off"}

ThreadFits ==
    /\ th.step # "idle" => th.m \in Mailing
    /\ th.step \in AtHand => th.e \in Account /\ th.r \in Recipient

Typed == TypeOK /\ ThreadFits

LEMMA SleepingTyped == Sleeping \in Thread /\ Sleeping.step = "idle"
  BY DEF Sleeping, Thread, NoRow, Row

LEMMA ContactTyped ==
    /\ NoContact \in Contact
    /\ \A e \in Account, b \in BOOLEAN : [acct |-> e, on |-> b] \in Contact
  BY DEF Contact, NoContact

\* Steps of the thread that keep its mailing.
LEMMA NextAccountTyped ==
    ASSUME TypeOK, NEW c \in Row, NextAccount(c)
    PROVE  /\ th' \in Thread /\ th'.step = "pick" /\ th'.m = th.m
           /\ th'.copy = c
  BY DEF NextAccount, TypeOK, Thread

LEMMA SaveCopyTyped ==
    ASSUME TypeOK, NEW c \in Row, SaveCopy(c)
    PROVE  row' \in [Mailing -> Row]
  BY DEF SaveCopy, TypeOK

LEMMA CopyTyped ==
    ASSUME TypeOK
    PROVE  /\ th.copy \in Row /\ th.copy.rec \subseteq Recipient
           /\ \A R \in SUBSET Recipient :
                 /\ [th.copy EXCEPT !.rec = R] \in Row
                 /\ \A S \in SUBSET Recipient :
                       /\ [th.copy EXCEPT !.rec = R, !.succ = S] \in Row
                       /\ [th.copy EXCEPT !.status = "E", !.rec = R, !.fail = S] \in Row
           /\ [th.copy EXCEPT !.status = "E"] \in Row
           /\ [th.copy EXCEPT !.status = "D"] \in Row
  BY DEF TypeOK, Thread, Row

LEMMA UnlinkTyped ==
    ASSUME TypeOK, NEW R, Unlink(R)
    PROVE  link' \in [Recipient -> {"none", "live", "dead"}]
  BY DEF Unlink, TypeOK

\* The contacts that fix_masscontacts adds.
LEMMA FixTyped ==
    ASSUME TypeOK, NEW R \in SUBSET Missing, NEW f \in [R -> Usable],
           contact' = [r \in Recipient |->
                         IF r \in R THEN [acct |-> f[r], on |-> TRUE]
                                    ELSE contact[r]]
    PROVE  contact' \in [Recipient -> Contact]
<1>1. \A r \in R : f[r] \in Account
  BY DEF Usable, TypeOK
<1> QED
  BY <1>1, ContactTyped DEF TypeOK

LEMMA WorkTyped == Typed /\ Work => Typed'
<1> SUFFICES ASSUME TypeOK, ThreadFits, Work PROVE TypeOK' /\ ThreadFits'
  BY DEF Typed
<1> USE DEF AtHand
<1>1. CASE Finish
  BY <1>1, SleepingTyped, CopyTyped DEF Finish, TypeOK, ThreadFits, world
<1>2. CASE Plan
  <2>1. contact' \in [Recipient -> Contact]
    <3>1. CASE contact' = contact
      BY <3>1 DEF TypeOK
    <3>2. CASE contact' # contact
      <4>1. PICK f \in [Missing -> Usable] :
               contact' = [r \in Recipient |->
                             IF r \in Missing THEN [acct |-> f[r], on |-> TRUE]
                                              ELSE contact[r]]
        BY <1>2, <3>2 DEF Plan
      <4> QED
        BY <4>1, FixTyped
    <3> QED
      BY <3>1, <3>2
  <2>2. /\ th.step = "plan"
        /\ th' = [th EXCEPT !.step = "pick", !.pass = th.copy.rec,
                            !.todo = {e \in Account : account[e] = "on"}]
        /\ UNCHANGED <<row, account, queue, sent, link, world, faults>>
    BY <1>2 DEF Plan
  <2>3. th' \in Thread /\ th'.step = "pick" /\ th'.m = th.m
    BY <2>2, CopyTyped DEF TypeOK, Thread
  <2> QED
    BY <2>1, <2>2, <2>3 DEF TypeOK, ThreadFits, world
<1>3. CASE PlanFails
  <2>1. contact' \in [Recipient -> Contact]
    BY <1>3, FixTyped DEF PlanFails
  <2> QED
    BY <1>3, <2>1, SleepingTyped DEF PlanFails, TypeOK, ThreadFits, world
<1>4. ASSUME NEW e \in Account, PickNobody(e)
      PROVE  TypeOK' /\ ThreadFits'
  <2>1. th' \in Thread /\ th'.step = "pick" /\ th'.m = th.m /\ th.step = "pick"
    BY <1>4 DEF PickNobody, TypeOK, Thread
  <2> QED
    BY <1>4, <2>1 DEF PickNobody, TypeOK, ThreadFits, world
<1>5. ASSUME NEW e \in Account, NEW r \in Recipient, Pick(e, r)
      PROVE  TypeOK' /\ ThreadFits'
  <2>1. /\ th' \in Thread /\ th'.step = "send" /\ th'.m = th.m /\ th.step = "pick"
        /\ th'.e = e /\ th'.r = r
    BY <1>5 DEF Pick, TypeOK, Thread
  <2> QED
    BY <1>5, <2>1 DEF Pick, TypeOK, ThreadFits, world
<1>6. ASSUME NEW e \in Account, NEW r \in Recipient, PickGone(e, r)
      PROVE  TypeOK' /\ ThreadFits'
  <2>1. UNCHANGED <<account, queue, sent, letterOf, party, optedOut, retries, faults>>
        /\ th.step = "pick"
    BY <1>6 DEF PickGone, world
  <2>2. CASE r \in th.copy.rec
    <3> DEFINE c == [th.copy EXCEPT !.rec = @ \ {r}]
    <3>1. c \in Row
      BY CopyTyped
    <3>2. /\ SaveCopy(c) /\ th' = [th EXCEPT !.copy = c, !.todo = @ \ {e}]
          /\ contact' = [contact EXCEPT ![r] = NoContact] /\ Unlink({r})
      BY <1>6, <2>2 DEF PickGone
    <3> HIDE DEF c
    <3>3. th' \in Thread /\ th'.step = "pick" /\ th'.m = th.m
      BY <2>1, <3>1, <3>2 DEF TypeOK, Thread
    <3> QED
      BY <2>1, <3>1, <3>2, <3>3, SaveCopyTyped, UnlinkTyped, ContactTyped
         DEF TypeOK, ThreadFits
  <2>3. CASE r \notin th.copy.rec
    <3>1. th' = Sleeping /\ UNCHANGED <<row, contact, link>>
      BY <1>6, <2>3 DEF PickGone
    <3> QED
      BY <2>1, <3>1, SleepingTyped DEF TypeOK, ThreadFits
  <2> QED
    BY <2>2, <2>3
<1>7. ASSUME NEW outcome \in Outcome, Send(outcome)
      PROVE  TypeOK' /\ ThreadFits'
  <2> DEFINE taken == outcome \in {"sent", "lost_reply"}
             l == letterOf[th.m]
  <2>1. /\ th.step = "send" /\ UNCHANGED <<row, contact, account, queue, world>>
        /\ th.m \in Mailing /\ th.r \in Recipient /\ th.e \in Account
    BY <1>7 DEF Send, ThreadFits
  <2>2. l \in Letter
    BY <2>1, MailingAssumption DEF TypeOK
  <2>3. /\ taken => sent[l][th.r] < MaxSent
        /\ sent' = IF taken THEN [sent EXCEPT ![l][th.r] = @ + 1] ELSE sent
        /\ link' = IF taken THEN [link EXCEPT ![th.r] =
                                     IF th.live THEN "live" ELSE "dead"]
                            ELSE link
    BY <1>7 DEF Send
  <2>4. /\ th' \in Thread /\ th'.step \in {"sent", "off", "failed"}
        /\ th'.m = th.m /\ th'.e = th.e /\ th'.r = th.r
    BY <1>7 DEF Send, TypeOK, Thread
  <2>5. faults' \subseteq Fault
    BY <1>7 DEF Send, Outcome, Fault, TypeOK
  <2> HIDE DEF taken, l
  <2>6. sent' \in [Letter -> [Recipient -> 0 .. MaxSent]]
    <3>1. sent[l] \in [Recipient -> 0 .. MaxSent]
      BY <2>2 DEF TypeOK
    <3>2. taken => sent[l][th.r] + 1 \in 0 .. MaxSent
      BY <2>1, <2>3, <3>1, MailingAssumption
    <3> QED
      BY <2>1, <2>2, <2>3, <3>1, <3>2 DEF TypeOK
  <2>7. link' \in [Recipient -> {"none", "live", "dead"}]
    BY <2>1, <2>3 DEF TypeOK
  <2> QED
    BY <2>1, <2>4, <2>5, <2>6, <2>7 DEF TypeOK, ThreadFits, world
<1>8. CASE Record
  <2>1. UNCHANGED <<contact, account, queue, sent, link, world, faults>>
        /\ th.step = "sent" /\ th.m \in Mailing /\ th.e \in Account /\ th.r \in Recipient
    BY <1>8 DEF Record, ThreadFits
  <2>2. CASE th.r \in th.copy.rec
    <3> DEFINE c == [th.copy EXCEPT !.rec = @ \ {th.r}, !.succ = @ \cup {th.r}]
    <3>1. c \in Row
      BY <2>1 DEF TypeOK, Thread, Row
    <3>2. SaveCopy(c) /\ th' = [th EXCEPT !.step = "count", !.copy = c]
      BY <1>8, <2>2 DEF Record
    <3> HIDE DEF c
    <3>3. /\ th' \in Thread /\ th'.step = "count" /\ th'.m = th.m
          /\ th'.e = th.e /\ th'.r = th.r
      BY <3>1, <3>2 DEF TypeOK, Thread
    <3> QED
      BY <2>1, <3>1, <3>2, <3>3, SaveCopyTyped DEF TypeOK, ThreadFits, world
  <2>3. CASE th.r \notin th.copy.rec
    BY <1>8, <2>1, <2>3, SleepingTyped DEF Record, TypeOK, ThreadFits, world
  <2> QED
    BY <2>2, <2>3
<1>9. CASE Count
  <2>1. /\ UNCHANGED <<contact, queue, sent, link, world, faults>>
        /\ th.m \in Mailing /\ account' = [account EXCEPT ![th.e] = "on"]
        /\ SaveCopy(th.copy) /\ NextAccount(th.copy)
    BY <1>9 DEF Count, ThreadFits
  <2> QED
    BY <2>1, CopyTyped, SaveCopyTyped, NextAccountTyped DEF TypeOK, ThreadFits, world
<1>10. CASE Failed
  <2>1. UNCHANGED <<contact, account, queue, sent, link, world, faults>>
        /\ th.m \in Mailing /\ th.r \in Recipient
    BY <1>10 DEF Failed, ThreadFits
  <2>2. CASE th.r \in th.copy.rec
    <3> DEFINE c == [th.copy EXCEPT !.status = "E", !.rec = @ \ {th.r},
                                    !.fail = @ \cup {th.r}]
    <3>1. c \in Row
      BY <2>1 DEF TypeOK, Thread, Row
    <3>2. SaveCopy(c) /\ NextAccount(c)
      BY <1>10, <2>2 DEF Failed
    <3> HIDE DEF c
    <3> QED
      BY <2>1, <3>1, <3>2, SaveCopyTyped, NextAccountTyped DEF TypeOK, ThreadFits, world
  <2>3. CASE th.r \notin th.copy.rec
    BY <1>10, <2>1, <2>3, SleepingTyped DEF Failed, TypeOK, ThreadFits, world
  <2> QED
    BY <2>2, <2>3
<1>11. CASE SwitchOff
  <2> DEFINE c == [th.copy EXCEPT !.status = "E"]
  <2>1. /\ UNCHANGED <<contact, queue, sent, link, world, faults>>
        /\ th.m \in Mailing /\ account' = [account EXCEPT ![th.e] = "off"]
        /\ SaveCopy(c) /\ NextAccount(c)
    BY <1>11 DEF SwitchOff, ThreadFits
  <2>2. c \in Row
    BY CopyTyped
  <2> HIDE DEF c
  <2> QED
    BY <2>1, <2>2, SaveCopyTyped, NextAccountTyped DEF TypeOK, ThreadFits, world
<1>12. CASE EndPass
  BY <1>12, SleepingTyped DEF EndPass, TypeOK, ThreadFits, world
<1> QED
  BY <1>1, <1>2, <1>3, <1>4, <1>5, <1>6, <1>7, <1>8, <1>9, <1>10, <1>11, <1>12 DEF Work

LEMMA OverlapTyped == \A m : Overlap(m) \subseteq Fault
  BY DEF Overlap, Fault

LEMMA RowTyped ==
    ASSUME NEW x \in Row
    PROVE  /\ \A t \in {"A", "P"} : [x EXCEPT !.status = t] \in Row
           /\ \A R, S \in SUBSET Recipient :
                 [x EXCEPT !.status = "A", !.rec = R, !.fail = S] \in Row
           /\ x.rec \cup x.fail \in SUBSET Recipient
  BY DEF Row

LEMMA OthersTyped == Typed /\ Others => Typed'
<1> SUFFICES ASSUME TypeOK, ThreadFits, Others PROVE TypeOK' /\ ThreadFits'
  BY DEF Typed
<1> USE DEF world
<1>1. CASE Crash
  BY <1>1, SleepingTyped DEF Crash, TypeOK, ThreadFits, AtHand, Fault
<1>2. ASSUME NEW m \in Mailing, NEW R \in SUBSET Recipient, Create(m, R)
      PROVE  TypeOK' /\ ThreadFits'
  <2>1. [NoRow EXCEPT !.status = "P", !.rec = R] \in Row
    BY DEF NoRow, Row
  <2> QED
    BY <1>2, <2>1 DEF Create, TypeOK, ThreadFits
<1>3. ASSUME NEW m \in Mailing, NEW s \in {"A", "P"}, SetStatus(m, s)
      PROVE  TypeOK' /\ ThreadFits'
  <2>1. row[m] \in Row /\ row' = [row EXCEPT ![m] = [row[m] EXCEPT !.status = s]]
    BY <1>3 DEF SetStatus, TypeOK
  <2>2. row' \in [Mailing -> Row]
    BY <2>1, RowTyped DEF TypeOK
  <2> QED
    BY <1>3, <2>2, OverlapTyped DEF SetStatus, TypeOK, ThreadFits
<1>4. ASSUME NEW m \in Mailing, SendFailed(m)
      PROVE  TypeOK' /\ ThreadFits'
  <2>1. [row[m] EXCEPT !.status = "A", !.rec = row[m].rec \cup row[m].fail,
                       !.fail = {}] \in Row
    <3>1. row[m] \in Row /\ {} \in SUBSET Recipient
      BY DEF TypeOK
    <3> QED
      BY <3>1, RowTyped
  <2>2. row' \in [Mailing -> Row]
    BY <1>4, <2>1 DEF SendFailed, TypeOK
  <2>3. retries' \in 0 .. MaxRetries
    BY <1>4, MailingAssumption DEF SendFailed, TypeOK
  <2> QED
    BY <1>4, <2>2, <2>3, OverlapTyped DEF SendFailed, TypeOK, ThreadFits
<1>5. ASSUME NEW M \in SUBSET Mailing, NEW n \in Mailing, NEW f \in Mailing,
             Merge(M, n, f)
      PROVE  TypeOK' /\ ThreadFits'
  <2> DEFINE u == [status |-> row[f].status,
                   rec  |-> UNION {row[k].rec : k \in M},
                   succ |-> UNION {row[k].succ : k \in M},
                   fail |-> UNION {row[k].fail : k \in M}]
  <2>1. /\ row' = [m \in Mailing |-> IF m \in M THEN NoRow
                                     ELSE IF m = n THEN u ELSE row[m]]
        /\ faults' = faults \cup UNION {Overlap(m) : m \in M}
        /\ UNCHANGED <<contact, account, queue, th, sent, link, world>>
    BY <1>5 DEF Merge
  <2>2. \A k \in Mailing : /\ row[k].rec \subseteq Recipient
                           /\ row[k].succ \subseteq Recipient
                           /\ row[k].fail \subseteq Recipient
                           /\ row[k].status \in {"A", "E", "P", "D", "none"}
    BY DEF TypeOK, Row
  <2>3. u \in Row /\ NoRow \in Row
    BY <2>2 DEF Row, NoRow
  <2> HIDE DEF u
  <2>4. faults' \subseteq Fault /\ row' \in [Mailing -> Row]
    BY <2>1, <2>3, OverlapTyped DEF TypeOK
  <2> QED
    BY <2>1, <2>4 DEF TypeOK, ThreadFits
<1>6. ASSUME NEW r \in Recipient, MakeVIP(r)
      PROVE  TypeOK' /\ ThreadFits'
  <2>1. contact[r] # NoContact => contact[r].on \in BOOLEAN
    BY DEF TypeOK, Contact
  <2>2. [acct |-> Main, on |-> IF contact[r] = NoContact THEN TRUE ELSE contact[r].on]
           \in Contact
    BY <2>1, ContactTyped, MailingAssumption
  <2>3. contact' \in [Recipient -> Contact]
    BY <1>6, <2>2 DEF MakeVIP, TypeOK
  <2> QED
    BY <1>6, <2>3 DEF MakeVIP, TypeOK, ThreadFits, Fault
<1>7. ASSUME NEW r \in Recipient, Unsubscribe(r)
      PROVE  TypeOK' /\ ThreadFits'
  <2>1. contact' \in [Recipient -> Contact]
    <3>1. CASE contact' = contact
      BY <3>1 DEF TypeOK
    <3>2. CASE contact' # contact
      <4>1. contact' = [contact EXCEPT ![r].on = FALSE]
        BY <1>7, <3>2 DEF Unsubscribe
      <4>2. \A c \in Contact : [c EXCEPT !.on = FALSE] \in Contact
        <5>1. [NoContact EXCEPT !.on = FALSE] = NoContact
          <6> DEFINE x == [NoContact EXCEPT !.on = FALSE]
          <6>1. x \in [acct : {NoAccount}, on : {FALSE}]
            BY DEF NoContact
          <6> HIDE DEF x
          <6>2. x = [acct |-> x.acct, on |-> x.on]
            BY <6>1
          <6>3. x.acct = NoAccount /\ x.on = FALSE
            BY <6>1, Zenon
          <6>4. x = NoContact
            BY <6>2, <6>3, Zenon DEF NoContact
          <6> QED
            BY <6>4 DEF x
        <5>2. \A c \in [acct : Account, on : BOOLEAN] :
                 [c EXCEPT !.on = FALSE] \in [acct : Account, on : BOOLEAN]
          OBVIOUS
        <5> QED
          BY <5>1, <5>2 DEF Contact
      <4> QED
        BY <4>1, <4>2 DEF TypeOK
    <3> QED
      BY <3>1, <3>2
  <2>2. party' \in [Recipient -> {"in", "out", "gone"}]
    BY <1>7 DEF Unsubscribe, TypeOK
  <2> QED
    BY <1>7, <2>1, <2>2 DEF Unsubscribe, TypeOK, ThreadFits, Fault
<1>8. ASSUME NEW r \in Recipient, NEW bulk \in BOOLEAN, DeleteParty(r, bulk)
      PROVE  TypeOK' /\ ThreadFits'
  <2>1. /\ UNCHANGED <<row, account, queue, sent, letterOf, optedOut, retries, faults>>
        /\ party' = [party EXCEPT ![r] = "gone"]
        /\ \/ UNCHANGED <<contact, link>>
           \/ contact' = [contact EXCEPT ![r] = NoContact] /\ Unlink({r})
        /\ th' = th \/ th' = [th EXCEPT !.live = @ /\ th.r # r]
    BY <1>8 DEF DeleteParty
  <2>2. contact' \in [Recipient -> Contact]
    BY <2>1, ContactTyped DEF TypeOK
  <2>3. link' \in [Recipient -> {"none", "live", "dead"}]
    BY <2>1, UnlinkTyped DEF TypeOK
  <2>4. (th.live /\ th.r # r) \in BOOLEAN
    OBVIOUS
  <2>5. /\ th' \in Thread /\ th'.step = th.step /\ th'.m = th.m
        /\ th'.e = th.e /\ th'.r = th.r
    BY <2>1, <2>4 DEF TypeOK, Thread
  <2> QED
    BY <2>1, <2>2, <2>3, <2>5 DEF TypeOK, ThreadFits
<1>9. ASSUME NEW e \in Account, NEW s \in {"on", "off"}, SwitchAccount(e, s)
      PROVE  TypeOK' /\ ThreadFits'
  BY <1>9 DEF SwitchAccount, AddId, TypeOK, ThreadFits, Fault
<1>10. ASSUME NEW e \in Account, NEW bulk \in BOOLEAN, DeleteAccount(e, bulk)
       PROVE  TypeOK' /\ ThreadFits'
  <2> DEFINE R == {r \in Recipient : contact[r].acct = e}
  <2>1. /\ account' = [account EXCEPT ![e] = "gone"]
        /\ queue' \subseteq queue
        /\ contact' = [r \in Recipient |-> IF r \in R THEN NoContact ELSE contact[r]]
        /\ Unlink(R)
        /\ th' = [th EXCEPT !.live = @ /\ th.r \notin R]
        /\ faults' \subseteq faults \cup {"account_deleted", "overlap"}
        /\ UNCHANGED <<row, sent, world>>
    BY <1>10 DEF DeleteAccount, RemoveId
  <2> HIDE DEF R
  <2>2. (th.live /\ th.r \notin R) \in BOOLEAN
    OBVIOUS
  <2>3. th' \in Thread /\ th'.step = th.step /\ th'.m = th.m /\ th'.e = th.e /\ th'.r = th.r
    BY <2>1, <2>2 DEF TypeOK, Thread
  <2>4. contact' \in [Recipient -> Contact]
    BY <2>1, ContactTyped DEF TypeOK
  <2> QED
    BY <2>1, <2>3, <2>4, UnlinkTyped DEF TypeOK, ThreadFits, Fault
<1> QED
  BY <1>1, <1>2, <1>3, <1>4, <1>5, <1>6, <1>7, <1>8, <1>9, <1>10 DEF Others

LEMMA StepTyped == Typed /\ [Next]_vars => Typed'
<1>1. ASSUME TypeOK, ThreadFits, NEW m \in Mailing, Load(m)
      PROVE  TypeOK' /\ ThreadFits'
  <2>1. row[m] \in Row
    BY <1>1 DEF TypeOK
  <2>2. th' \in Thread /\ th'.step = "plan" /\ th'.m = m
    BY <1>1, <2>1 DEF Load, Sleeping, Thread
  <2> QED
    BY <1>1, <2>2 DEF Load, TypeOK, ThreadFits, AtHand, world
<1>2. Typed /\ UNCHANGED vars => Typed'
  BY DEF vars, world, Typed, TypeOK, ThreadFits
<1> QED
  BY <1>1, <1>2, WorkTyped, OthersTyped DEF Next, Typed

LEMMA TypedAlways == Spec => []Typed
<1>1. ASSUME Init PROVE Typed
  <2>1. /\ sent \in [Letter -> [Recipient -> 0 .. MaxSent]]
        /\ retries \in 0 .. MaxRetries
    BY <1>1, MailingAssumption DEF Init
  <2> QED
    BY <1>1, <2>1, SleepingTyped, ContactTyped
       DEF Init, Typed, TypeOK, ThreadFits, AtHand, NoRow, Row
<1> QED
  BY <1>1, StepTyped, PTL DEF Spec

\* Type correctness; no recipient is ever given an account that is not one,
\* whatever the queue returns.
THEOREM TypeCorrect == Spec => []TypeOK
<1>1. Typed => TypeOK
  BY DEF Typed
<1> QED
  BY <1>1, TypedAlways, PTL

-----------------------------------------------------------------------------
(***************************************************************************)
(* Who is listed was mailed.  SuccessMeansSent is not inductive: the       *)
(* thread writes its copy of the lists, and the recipient at hand, over    *)
(* the row.                                                                *)
(***************************************************************************)
Mailed(l, r) == sent[l][r] > 0

CopyIsTrue ==
    th.step # "idle" => \A r \in th.copy.succ : Mailed(letterOf[th.m], r)

HandIsTrue == th.step = "sent" => Mailed(letterOf[th.m], th.r)

ListsTrue == SuccessMeansSent /\ CopyIsTrue /\ HandIsTrue

\* What has been mailed stays so.
LEMMA SentGrows ==
    ASSUME Typed, [Next]_vars
    PROVE  \A l \in Letter, r \in Recipient : Mailed(l, r) => Mailed(l, r)'
<1>1. ASSUME NEW outcome \in Outcome, Send(outcome)
      PROVE  \A l \in Letter, r \in Recipient : Mailed(l, r) => Mailed(l, r)'
  <2>1. th.m \in Mailing /\ th.r \in Recipient
    BY <1>1 DEF Typed, ThreadFits, AtHand, Send
  <2>2. /\ letterOf[th.m] \in Letter
        /\ \A l \in Letter, r \in Recipient : sent[l][r] \in Nat
        /\ sent \in [Letter -> [Recipient -> 0 .. MaxSent]]
    BY <2>1, MailingAssumption DEF Typed, TypeOK
  <2>3. \/ sent' = sent
        \/ sent' = [sent EXCEPT ![letterOf[th.m]][th.r] = @ + 1]
    BY <1>1 DEF Send
  <2> QED
    BY <2>1, <2>2, <2>3 DEF Mailed
<1>2. Work /\ (~\E outcome \in Outcome : Send(outcome)) => sent' = sent
  BY DEF Work, Finish, Plan, PlanFails, PickNobody, Pick, PickGone, Record, Count,
         Failed, SwitchOff, EndPass
<1>3. Others => sent' = sent
  BY DEF Others, Crash, Create, SetStatus, SendFailed, Merge, MakeVIP, Unsubscribe,
         DeleteParty, SwitchAccount, DeleteAccount
<1>4. (\E m \in Mailing : Load(m)) \/ UNCHANGED vars => sent' = sent
  BY DEF Load, vars
<1>5. sent' = sent => \A l \in Letter, r \in Recipient : Mailed(l, r) => Mailed(l, r)'
  BY DEF Mailed
<1> QED
  BY <1>1, <1>2, <1>3, <1>4, <1>5 DEF Next

LEMMA LettersStay == [Next]_vars => letterOf' = letterOf
<1>1. Work => letterOf' = letterOf
  BY DEF Work, Finish, Plan, PlanFails, PickNobody, Pick, PickGone, Send, Record,
         Count, Failed, SwitchOff, EndPass, world
<1>2. Others => letterOf' = letterOf
  BY DEF Others, Crash, Create, SetStatus, SendFailed, Merge, MakeVIP, Unsubscribe,
         DeleteParty, SwitchAccount, DeleteAccount, world
<1> QED
  BY <1>1, <1>2 DEF Next, Load, vars, world

\* A row or a copy whose list of those mailed is no longer than before, or
\* longer by the recipient at hand.
LEMMA SavedIsTrue ==
    ASSUME Typed, ListsTrue, [Next]_vars, NEW c \in Row, th.step # "idle",
           SaveCopy(c), \A r \in c.succ : Mailed(letterOf[th.m], r)
    PROVE  /\ SuccessMeansSent'
           /\ \A r \in c.succ : sent'[letterOf[th.m]][r] > 0
<1>1. th.m \in Mailing /\ letterOf \in [Mailing -> Letter] /\ c.succ \subseteq Recipient
  BY MailingAssumption DEF Typed, ThreadFits, TypeOK, Row
<1>2. \A r \in c.succ : sent'[letterOf[th.m]][r] > 0
  BY <1>1, SentGrows DEF Mailed
<1>3. ASSUME NEW m \in Mailing, NEW r \in row'[m].succ
      PROVE  Mailed(letterOf[m], r)'
  <2>1. CASE m = th.m
    <3>1. row'[m] = c
      BY <1>1, <2>1 DEF SaveCopy, Typed, TypeOK
    <3> QED
      BY <1>2, <1>3, <2>1, <3>1, LettersStay DEF Mailed
  <2>2. CASE m # th.m
    <3>1. row'[m] = row[m] /\ row[m].succ \subseteq Recipient
      BY <2>2 DEF SaveCopy, Typed, TypeOK, Row
    <3>2. Mailed(letterOf[m], r)
      BY <1>3, <3>1 DEF ListsTrue, SuccessMeansSent, Mailed
    <3> QED
      BY <1>1, <1>3, <3>1, <3>2, SentGrows, LettersStay
  <2> QED
    BY <2>1, <2>2
<1> QED
  BY <1>2, <1>3 DEF SuccessMeansSent, Mailed

\* Rows that stay, or lose their lists.
LEMMA RowsStayTrue ==
    ASSUME Typed, ListsTrue, [Next]_vars,
           \A m \in Mailing : row'[m].succ \subseteq row[m].succ
    PROVE  SuccessMeansSent'
<1> SUFFICES ASSUME NEW m \in Mailing, NEW r \in row'[m].succ
             PROVE  Mailed(letterOf[m], r)'
  BY DEF SuccessMeansSent, Mailed
<1>1. r \in Recipient /\ letterOf[m] \in Letter
  BY MailingAssumption DEF Typed, TypeOK, Row
<1>2. Mailed(letterOf[m], r)
  BY DEF ListsTrue, SuccessMeansSent, Mailed
<1> QED
  BY <1>1, <1>2, SentGrows, LettersStay

\* The thread keeps its mailing and its list of those mailed, or sleeps.
LEMMA CopyStaysTrue ==
    ASSUME Typed, ListsTrue, [Next]_vars,
           \/ th'.step = "idle"
           \/ /\ th.step # "idle" /\ th'.m = th.m /\ th'.copy.succ = th.copy.succ
    PROVE  CopyIsTrue'
<1>1. CASE th'.step = "idle"
  BY <1>1 DEF CopyIsTrue
<1>2. CASE th.step # "idle" /\ th'.m = th.m /\ th'.copy.succ = th.copy.succ
  <2>1. th.copy.succ \subseteq Recipient /\ letterOf[th.m] \in Letter
    BY <1>2, MailingAssumption DEF Typed, TypeOK, ThreadFits, Thread, Row
  <2> QED
    BY <1>2, <2>1, SentGrows, LettersStay DEF ListsTrue, CopyIsTrue
<1> QED
  BY <1>1, <1>2

\* A step of the thread that writes no row, and whose recipient at hand is not
\* yet to be recorded.
LEMMA WorkListsTrue ==
    ASSUME Typed, ListsTrue, [Next]_vars, Work
    PROVE  ListsTrue'
<1>0. /\ th.step # "idle" => \A r \in th.copy.succ : Mailed(letterOf[th.m], r)
      /\ th.step = "sent" => Mailed(letterOf[th.m], th.r)
      /\ TypeOK /\ ThreadFits
  BY DEF ListsTrue, CopyIsTrue, HandIsTrue, Typed
<1>1. CASE Finish
  <2> DEFINE c == [th.copy EXCEPT !.status = "D"]
  <2>1. th.step # "idle" /\ SaveCopy(c) /\ th'.step = "idle"
    BY <1>1, SleepingTyped DEF Finish, SaveCopy
  <2>2. c \in Row /\ c.succ = th.copy.succ
    BY <1>0 DEF TypeOK, Thread, Row
  <2> HIDE DEF c
  <2> QED
    BY <1>0, <2>1, <2>2, SavedIsTrue DEF ListsTrue, CopyIsTrue, HandIsTrue
<1>2. CASE Plan \/ (\E e \in Account : PickNobody(e))
             \/ (\E e \in Account, r \in Recipient : Pick(e, r))
  <2>1. /\ th.step # "idle" /\ row' = row /\ th'.m = th.m
        /\ th'.copy = th.copy /\ th'.step # "sent"
    BY <1>0, <1>2 DEF Plan, PickNobody, Pick, TypeOK, Thread
  <2> QED
    BY <2>1, RowsStayTrue, CopyStaysTrue DEF ListsTrue, HandIsTrue
<1>3. CASE PlanFails \/ EndPass
  <2>1. row' = row /\ th'.step = "idle"
    BY <1>3, SleepingTyped DEF PlanFails, EndPass
  <2> QED
    BY <2>1, RowsStayTrue, CopyStaysTrue DEF ListsTrue, HandIsTrue
<1>4. ASSUME NEW e \in Account, NEW r \in Recipient, PickGone(e, r)
      PROVE  ListsTrue'
  <2>1. CASE r \in th.copy.rec
    <3> DEFINE c == [th.copy EXCEPT !.rec = @ \ {r}]
    <3>1. c \in Row /\ c.succ = th.copy.succ
      BY <1>0 DEF TypeOK, Thread, Row
    <3>2. /\ SaveCopy(c) /\ th' = [th EXCEPT !.copy = c, !.todo = @ \ {e}]
          /\ th.step = "pick"
      BY <1>4, <2>1 DEF PickGone
    <3> HIDE DEF c
    <3>3. th'.step = "pick" /\ th'.m = th.m /\ th'.copy = c
      BY <1>0, <3>2 DEF TypeOK, Thread
    <3> QED
      BY <1>0, <3>1, <3>2, <3>3, SavedIsTrue, CopyStaysTrue DEF ListsTrue, HandIsTrue
  <2>2. CASE r \notin th.copy.rec
    <3>1. th'.step = "idle" /\ row' = row
      BY <1>4, <2>2, SleepingTyped DEF PickGone
    <3> QED
      BY <3>1, RowsStayTrue, CopyStaysTrue DEF ListsTrue, HandIsTrue
  <2> QED
    BY <2>1, <2>2
<1>5. ASSUME NEW outcome \in Outcome, Send(outcome)
      PROVE  ListsTrue'
  <2>1. /\ th.step = "send" /\ row' = row /\ th'.m = th.m /\ th'.r = th.r
        /\ th'.copy = th.copy /\ (th'.step = "sent" => outcome = "sent")
        /\ th.m \in Mailing /\ th.r \in Recipient
    BY <1>0, <1>5 DEF Send, TypeOK, Thread, ThreadFits, AtHand
  <2>2. outcome = "sent" => Mailed(letterOf[th.m], th.r)'
    <3>1. ASSUME outcome = "sent"
          PROVE  sent'[letterOf[th.m]][th.r] > 0
      <4>1. sent' = [sent EXCEPT ![letterOf[th.m]][th.r] = @ + 1]
        BY <1>5, <3>1 DEF Send
      <4>2. /\ letterOf[th.m] \in Letter /\ sent[letterOf[th.m]][th.r] \in Nat
            /\ sent[letterOf[th.m]] \in [Recipient -> 0 .. MaxSent]
        BY <1>0, <2>1, MailingAssumption DEF TypeOK
      <4> QED
        BY <1>0, <2>1, <4>1, <4>2 DEF TypeOK
    <3> QED
      BY <2>1, <3>1, LettersStay DEF Mailed
  <2>3. HandIsTrue'
    BY <2>1, <2>2, LettersStay DEF HandIsTrue
  <2> QED
    BY <2>1, <2>3, RowsStayTrue, CopyStaysTrue DEF ListsTrue
<1>6. CASE Record
  <2>1. th.step = "sent" /\ th.r \in Recipient
    BY <1>0, <1>6 DEF Record, ThreadFits, AtHand
  <2>2. CASE th.r \in th.copy.rec
    <3> DEFINE c == [th.copy EXCEPT !.rec = @ \ {th.r}, !.succ = @ \cup {th.r}]
    <3>1. c \in Row /\ c.succ = th.copy.succ \cup {th.r}
      BY <1>0, <2>1 DEF TypeOK, Thread, Row
    <3>2. SaveCopy(c) /\ th' = [th EXCEPT !.step = "count", !.copy = c]
      BY <1>6, <2>2 DEF Record
    <3> HIDE DEF c
    <3>3. th'.step = "count" /\ th'.m = th.m /\ th'.copy = c
      BY <1>0, <3>2 DEF TypeOK, Thread
    <3>4. \A r \in c.succ : Mailed(letterOf[th.m], r)
      BY <1>0, <2>1, <3>1
    <3>5. SuccessMeansSent' /\ \A r \in c.succ : sent'[letterOf[th.m]][r] > 0
      BY <2>1, <3>1, <3>2, <3>4, SavedIsTrue
    <3>6. CopyIsTrue'
      BY <3>3, <3>5, LettersStay DEF CopyIsTrue, Mailed
    <3> QED
      BY <3>3, <3>5, <3>6 DEF ListsTrue, HandIsTrue
  <2>3. CASE th.r \notin th.copy.rec
    <3>1. row' = row /\ th'.step = "idle"
      BY <1>6, <2>3, SleepingTyped DEF Record
    <3> QED
      BY <3>1, RowsStayTrue, CopyStaysTrue DEF ListsTrue, HandIsTrue
  <2> QED
    BY <2>2, <2>3
<1>7. ASSUME NEW c \in Row, c.succ = th.copy.succ, th.step # "idle", SaveCopy(c),
             NextAccount(c)
      PROVE  ListsTrue'
  <2>1. th'.step = "pick" /\ th'.m = th.m /\ th'.copy = c
    BY <1>0, <1>7, NextAccountTyped
  <2>2. SuccessMeansSent'
    BY <1>0, <1>7, SavedIsTrue
  <2>3. CopyIsTrue'
    BY <1>7, <2>1, CopyStaysTrue
  <2> QED
    BY <2>1, <2>2, <2>3 DEF ListsTrue, HandIsTrue
<1>8. CASE Count
  BY <1>0, <1>7, <1>8, CopyTyped DEF Count
<1>9. CASE Failed
  <2>1. th.step = "failed" /\ th.r \in Recipient
    BY <1>0, <1>9 DEF Failed, ThreadFits, AtHand
  <2>2. CASE th.r \in th.copy.rec
    <3> DEFINE c == [th.copy EXCEPT !.status = "E", !.rec = @ \ {th.r},
                                    !.fail = @ \cup {th.r}]
    <3>1. c \in Row /\ c.succ = th.copy.succ
      BY <1>0, <2>1 DEF TypeOK, Thread, Row
    <3>2. SaveCopy(c) /\ NextAccount(c)
      BY <1>9, <2>2 DEF Failed
    <3> HIDE DEF c
    <3> QED
      BY <1>7, <2>1, <3>1, <3>2
  <2>3. CASE th.r \notin th.copy.rec
    <3>1. row' = row /\ th'.step = "idle"
      BY <1>9, <2>3, SleepingTyped DEF Failed
    <3> QED
      BY <3>1, RowsStayTrue, CopyStaysTrue DEF ListsTrue, HandIsTrue
  <2> QED
    BY <2>2, <2>3
<1>10. CASE SwitchOff
  <2> DEFINE c == [th.copy EXCEPT !.status = "E"]
  <2>1. c \in Row /\ c.succ = th.copy.succ
    BY <1>0 DEF TypeOK, Thread, Row
  <2>2. th.step = "off" /\ SaveCopy(c) /\ NextAccount(c)
    BY <1>10 DEF SwitchOff
  <2> HIDE DEF c
  <2> QED
    BY <1>7, <2>1, <2>2
<1> QED
  BY <1>1, <1>2, <1>3, <1>4, <1>5, <1>6, <1>8, <1>9, <1>10 DEF Work

LEMMA OthersListsTrue ==
    ASSUME Typed, ListsTrue, [Next]_vars, Others
    PROVE  ListsTrue'
<1>0. /\ TypeOK /\ ThreadFits /\ HandIsTrue
      /\ \A m \in Mailing : row[m] \in Row
      /\ letterOf \in [Mailing -> Letter]
  BY MailingAssumption DEF Typed, TypeOK, ListsTrue
<1>1. CASE Crash
  <2>1. row' = row /\ th'.step = "idle"
    BY <1>1, SleepingTyped DEF Crash
  <2> QED
    BY <2>1, RowsStayTrue, CopyStaysTrue DEF ListsTrue, HandIsTrue
<1>2. ASSUME th'.step = th.step, th'.m = th.m, th'.r = th.r, th'.copy = th.copy
      PROVE  CopyIsTrue' /\ HandIsTrue'
  <2>1. th.step = "sent" => th.m \in Mailing /\ th.r \in Recipient
    BY <1>0 DEF ThreadFits, AtHand
  <2>2. HandIsTrue'
    BY <1>0, <1>2, <2>1, SentGrows, LettersStay DEF HandIsTrue
  <2>3. CopyIsTrue'
    <3>1. CASE th.step = "idle"
      BY <1>2, <3>1 DEF CopyIsTrue
    <3>2. CASE th.step # "idle"
      BY <1>2, <3>2, CopyStaysTrue
    <3> QED
      BY <3>1, <3>2
  <2> QED
    BY <2>2, <2>3
<1>3. ASSUME NEW m \in Mailing, NEW R \in SUBSET Recipient, Create(m, R)
      PROVE  ListsTrue'
  <2>1. /\ row' = [row EXCEPT ![m] = [NoRow EXCEPT !.status = "P", !.rec = R]]
        /\ th' = th
    BY <1>3 DEF Create
  <2>2. [NoRow EXCEPT !.status = "P", !.rec = R].succ = {}
    BY DEF NoRow
  <2>3. \A k \in Mailing : row'[k].succ \subseteq row[k].succ
    BY <1>0, <2>1, <2>2 DEF TypeOK
  <2> QED
    BY <1>2, <2>1, <2>3, RowsStayTrue DEF ListsTrue
<1>4. ASSUME NEW m \in Mailing, NEW s \in {"A", "P"}, SetStatus(m, s)
      PROVE  ListsTrue'
  <2>1. row' = [row EXCEPT ![m] = [row[m] EXCEPT !.status = s]] /\ th' = th
    BY <1>4 DEF SetStatus
  <2>2. \A x \in Row : [x EXCEPT !.status = s].succ = x.succ
    BY DEF Row
  <2>3. \A k \in Mailing : row'[k].succ \subseteq row[k].succ
    BY <1>0, <2>1, <2>2 DEF TypeOK
  <2> QED
    BY <1>2, <2>1, <2>3, RowsStayTrue DEF ListsTrue
<1>5. ASSUME NEW m \in Mailing, SendFailed(m)
      PROVE  ListsTrue'
  <2>1. /\ row' = [row EXCEPT ![m] = [row[m] EXCEPT !.status = "A",
                                          !.rec = row[m].rec \cup row[m].fail,
                                          !.fail = {}]]
        /\ th' = th
    BY <1>5 DEF SendFailed
  <2>2. \A x \in Row : \A R :
            [x EXCEPT !.status = "A", !.rec = R, !.fail = {}].succ = x.succ
    BY DEF Row
  <2>3. \A k \in Mailing : row'[k].succ \subseteq row[k].succ
    BY <1>0, <2>1, <2>2 DEF TypeOK
  <2> QED
    BY <1>2, <2>1, <2>3, RowsStayTrue DEF ListsTrue
<1>6. ASSUME NEW M \in SUBSET Mailing, NEW n \in Mailing, NEW f \in Mailing,
             Merge(M, n, f)
      PROVE  ListsTrue'
  <2>1. /\ row' = [m \in Mailing |->
                     IF m \in M THEN NoRow
                     ELSE IF m = n
                     THEN [status |-> row[f].status,
                           rec  |-> UNION {row[k].rec : k \in M},
                           succ |-> UNION {row[k].succ : k \in M},
                           fail |-> UNION {row[k].fail : k \in M}]
                     ELSE row[m]]
        /\ th' = th /\ \A k \in M : letterOf[k] = letterOf[n]
    BY <1>6 DEF Merge
  <2>2. ASSUME NEW m \in Mailing, NEW r \in row'[m].succ
        PROVE  Mailed(letterOf[m], r)'
    <3>1. PICK k \in Mailing : r \in row[k].succ /\ letterOf[k] = letterOf[m]
      <4>1. m \notin M
        BY <2>1, <2>2 DEF NoRow
      <4>2. CASE m = n
        BY <2>1, <2>2, <4>1, <4>2
      <4>3. CASE m # n
        BY <2>1, <2>2, <4>1, <4>3
      <4> QED
        BY <4>2, <4>3
    <3>2. Mailed(letterOf[m], r) /\ r \in Recipient /\ letterOf[m] \in Letter
      BY <1>0, <3>1 DEF ListsTrue, SuccessMeansSent, Mailed, Row
    <3> QED
      BY <3>2, SentGrows, LettersStay
  <2>3. SuccessMeansSent'
    BY <2>2 DEF SuccessMeansSent, Mailed
  <2> QED
    BY <1>2, <2>1, <2>3 DEF ListsTrue
<1>7. ASSUME NEW r \in Recipient, MakeVIP(r) \/ Unsubscribe(r)
      PROVE  ListsTrue'
  <2>1. row' = row /\ th' = th
    BY <1>7 DEF MakeVIP, Unsubscribe
  <2> QED
    BY <1>2, <2>1, RowsStayTrue DEF ListsTrue
<1>8. ASSUME NEW e \in Account, NEW s \in {"on", "off"}, SwitchAccount(e, s)
      PROVE  ListsTrue'
  <2>1. row' = row /\ th' = th
    BY <1>8 DEF SwitchAccount
  <2> QED
    BY <1>2, <2>1, RowsStayTrue DEF ListsTrue
<1>9. ASSUME \/ \E e \in Account, bulk \in BOOLEAN : DeleteAccount(e, bulk)
             \/ \E r \in Recipient, bulk \in BOOLEAN : DeleteParty(r, bulk)
      PROVE  ListsTrue'
  <2>1. row' = row /\ (th' = th \/ \E b : th' = [th EXCEPT !.live = b])
    BY <1>9 DEF DeleteAccount, DeleteParty
  <2>2. th'.step = th.step /\ th'.m = th.m /\ th'.r = th.r /\ th'.copy = th.copy
    BY <1>0, <2>1 DEF TypeOK, Thread
  <2> QED
    BY <1>2, <2>1, <2>2, RowsStayTrue DEF ListsTrue
<1> QED
  BY <1>1, <1>3, <1>4, <1>5, <1>6, <1>7, <1>8, <1>9 DEF Others

LEMMA ListsTrueStep == Typed /\ ListsTrue /\ [Next]_vars => ListsTrue'
<1>1. ASSUME Typed, ListsTrue, [Next]_vars, NEW m \in Mailing, Load(m)
      PROVE  ListsTrue'
  <2>1. /\ row' = row /\ sent' = sent /\ letterOf' = letterOf
        /\ th'.m = m /\ th'.copy = row[m] /\ th'.step = "plan"
    BY <1>1 DEF Load, Sleeping, world
  <2> QED
    BY <1>1, <2>1 DEF ListsTrue, SuccessMeansSent, CopyIsTrue, HandIsTrue, Mailed
<1>2. ListsTrue /\ UNCHANGED vars => ListsTrue'
  BY DEF vars, world, ListsTrue, SuccessMeansSent, CopyIsTrue, HandIsTrue, Mailed
<1> QED
  BY <1>1, <1>2, WorkListsTrue, OthersListsTrue DEF Next

\* Whoever a mailing lists as mailed was sent its message, whatever copies the
\* thread overwrites, merges, retries, errors and crashes.
THEOREM ListedWasMailed == Spec => []SuccessMeansSent
<1>1. Init => ListsTrue
  BY SleepingTyped DEF Init, ListsTrue, SuccessMeansSent, CopyIsTrue, HandIsTrue, NoRow
<1>2. ListsTrue => SuccessMeansSent
  BY DEF ListsTrue
<1> QED
  BY <1>1, <1>2, ListsTrueStep, TypedAlways, PTL DEF Spec

-----------------------------------------------------------------------------
(***************************************************************************)
(* What the thread is left with after each of its steps.                   *)
(***************************************************************************)
LEMMA ThreadSleeps ==
    th' = Sleeping => th'.step = "idle" /\ th'.todo = {} /\ th'.pass = {}
  BY DEF Sleeping

LEMMA AfterLoad ==
    ASSUME NEW m \in Mailing, Load(m)
    PROVE  /\ th.step = "idle" /\ th'.step = "plan" /\ th'.m = m
           /\ th'.copy = row[m] /\ th'.todo = {}
           /\ row[m].status \in Active
           /\ UNCHANGED <<row, contact, account, sent, link, party, optedOut,
                          letterOf, faults>>
  BY DEF Load, Sleeping, world

\* A pass gives contacts to recipients that have none.
Given(r) ==
    \/ contact'[r] = contact[r]
    \/ contact[r].acct = NoAccount /\ contact'[r].acct \in Account

LEMMA FixGives ==
    ASSUME TypeOK, NEW R \in SUBSET Missing, NEW f \in [R -> Usable],
           contact' = [r \in Recipient |->
                         IF r \in R THEN [acct |-> f[r], on |-> TRUE]
                                    ELSE contact[r]]
    PROVE  \A r \in Recipient : Given(r)
<1>1. \A r \in R : f[r] \in Account /\ contact[r].acct = NoAccount
  BY DEF Usable, Missing, TypeOK
<1> QED
  BY <1>1 DEF Given

LEMMA AfterPlan ==
    ASSUME TypeOK, Plan
    PROVE  /\ th.step = "plan" /\ th'.step = "pick" /\ th'.m = th.m
           /\ th'.copy = th.copy /\ th'.pass = th.copy.rec
           /\ th'.todo = {e \in Account : account[e] = "on"}
           /\ \A r \in Recipient : Given(r)
           /\ UNCHANGED <<row, account, sent, link, party, optedOut, letterOf,
                          faults>>
<1>1. \A r \in Recipient : Given(r)
  <2>1. CASE contact' = contact
    BY <2>1 DEF Given
  <2>2. CASE contact' # contact
    <3>1. PICK f \in [Missing -> Usable] :
             contact' = [r \in Recipient |->
                           IF r \in Missing THEN [acct |-> f[r], on |-> TRUE]
                                            ELSE contact[r]]
      BY <2>2 DEF Plan
    <3> QED
      BY <3>1, FixGives
  <2> QED
    BY <2>1, <2>2
<1> QED
  BY <1>1 DEF Plan, TypeOK, Thread, world

LEMMA AfterPlanFails ==
    ASSUME TypeOK, PlanFails
    PROVE  /\ th.step = "plan" /\ th' = Sleeping
           /\ \A r \in Recipient : Given(r)
           /\ UNCHANGED <<row, account, sent, link, party, optedOut, letterOf,
                          faults>>
<1>1. PICK R \in SUBSET Missing : \E f \in [R -> Usable] :
         contact' = [r \in Recipient |->
                       IF r \in R THEN [acct |-> f[r], on |-> TRUE] ELSE contact[r]]
  BY DEF PlanFails
<1> QED
  BY <1>1, FixGives DEF PlanFails, world

\* The thread at its choice of the next recipient.
LEMMA AfterPickNobody ==
    ASSUME TypeOK, NEW e \in Account, PickNobody(e)
    PROVE  /\ th.step = "pick" /\ th'.step = "pick" /\ th'.m = th.m
           /\ th'.copy = th.copy /\ th'.pass = th.pass /\ th'.todo = th.todo \ {e}
           /\ UNCHANGED <<row, contact, account, sent, link, party, optedOut,
                          letterOf, faults>>
  BY DEF PickNobody, TypeOK, Thread, world

LEMMA AfterPick ==
    ASSUME TypeOK, NEW e \in Account, NEW r \in Recipient, Pick(e, r)
    PROVE  /\ th.step = "pick" /\ th'.step = "send" /\ th'.m = th.m
           /\ th'.copy = th.copy /\ th'.pass = th.pass /\ th'.todo = th.todo \ {e}
           /\ th'.e = e /\ th'.r = r /\ th'.live = TRUE
           /\ e \in th.todo /\ r \in th.pass /\ contact[r].acct = e /\ contact[r].on
           /\ party[r] # "gone"
           /\ UNCHANGED <<row, contact, account, sent, link, party, optedOut,
                          letterOf, faults>>
  BY DEF Pick, Candidates, TypeOK, Thread, world

LEMMA CopyWithout ==
    ASSUME TypeOK, NEW r
    PROVE  LET c == [th.copy EXCEPT !.rec = @ \ {r}]
           IN  /\ c \in Row /\ c.rec = th.copy.rec \ {r}
               /\ c.succ = th.copy.succ /\ c.fail = th.copy.fail
               /\ c.status = th.copy.status
  BY DEF TypeOK, Thread, Row

LEMMA AfterPickGone ==
    ASSUME TypeOK, NEW e \in Account, NEW r \in Recipient, PickGone(e, r)
    PROVE  /\ th.step = "pick" /\ e \in th.todo /\ r \in th.pass
           /\ contact[r].acct = e /\ party[r] = "gone"
           /\ UNCHANGED <<account, sent, party, optedOut, letterOf, faults>>
           /\ \/ /\ r \in th.copy.rec
                 /\ \E c \in Row :
                       /\ c.rec = th.copy.rec \ {r} /\ c.succ = th.copy.succ
                       /\ c.fail = th.copy.fail /\ c.status = th.copy.status
                       /\ SaveCopy(c) /\ th'.copy = c
                 /\ th'.step = "pick" /\ th'.m = th.m /\ th'.pass = th.pass
                 /\ th'.todo = th.todo \ {e}
                 /\ contact' = [contact EXCEPT ![r] = NoContact] /\ Unlink({r})
              \/ /\ r \notin th.copy.rec /\ th' = Sleeping
                 /\ UNCHANGED <<row, contact, link>>
<1>1. /\ th.step = "pick" /\ e \in th.todo /\ r \in th.pass
      /\ contact[r].acct = e /\ party[r] = "gone"
      /\ UNCHANGED <<account, sent, party, optedOut, letterOf, faults>>
  BY DEF PickGone, Candidates, world
<1>2. CASE r \in th.copy.rec
  <2> DEFINE c == [th.copy EXCEPT !.rec = @ \ {r}]
  <2>1. /\ c \in Row /\ c.rec = th.copy.rec \ {r} /\ c.succ = th.copy.succ
        /\ c.fail = th.copy.fail /\ c.status = th.copy.status
    BY CopyWithout
  <2>2. /\ SaveCopy(c) /\ th' = [th EXCEPT !.copy = c, !.todo = @ \ {e}]
        /\ contact' = [contact EXCEPT ![r] = NoContact] /\ Unlink({r})
    BY <1>2 DEF PickGone
  <2> HIDE DEF c
  <2>3. /\ th'.copy = c /\ th'.step = "pick" /\ th'.m = th.m /\ th'.pass = th.pass
        /\ th'.todo = th.todo \ {e}
    BY <1>1, <2>1, <2>2 DEF TypeOK, Thread
  <2> QED
    BY <1>1, <1>2, <2>1, <2>2, <2>3
<1>3. CASE r \notin th.copy.rec
  BY <1>1, <1>3 DEF PickGone
<1> QED
  BY <1>2, <1>3

LEMMA AfterSend ==
    ASSUME TypeOK, NEW outcome \in Outcome, Send(outcome)
    PROVE  /\ th.step = "send" /\ th'.step \in {"sent", "off", "failed"}
           /\ th'.step = "sent" <=> outcome = "sent"
           /\ th'.m = th.m /\ th'.copy = th.copy /\ th'.pass = th.pass
           /\ th'.todo = th.todo /\ th'.e = th.e /\ th'.r = th.r
           /\ outcome \in faults' \cup {"sent"} /\ faults \subseteq faults'
           /\ UNCHANGED <<row, contact, account, party, optedOut, letterOf>>
           /\ IF outcome \in {"sent", "lost_reply"}
              THEN /\ sent' = [sent EXCEPT ![letterOf[th.m]][th.r] = @ + 1]
                   /\ link' = [link EXCEPT ![th.r] =
                                 IF th.live THEN "live" ELSE "dead"]
              ELSE UNCHANGED <<sent, link>>
<1>1. /\ th.step = "send"
      /\ th' = [th EXCEPT !.step = CASE outcome = "sent" -> "sent"
                                     [] outcome = "auth_error" -> "off"
                                     [] OTHER -> "failed"]
      /\ faults' = faults \cup (IF outcome = "sent" THEN {} ELSE {outcome})
      /\ UNCHANGED <<row, contact, account, party, optedOut, letterOf>>
  BY DEF Send, world
<1>2. IF outcome \in {"sent", "lost_reply"}
      THEN /\ sent' = [sent EXCEPT ![letterOf[th.m]][th.r] = @ + 1]
           /\ link' = [link EXCEPT ![th.r] = IF th.live THEN "live" ELSE "dead"]
      ELSE UNCHANGED <<sent, link>>
  BY DEF Send
<1>3. /\ th'.step \in {"sent", "off", "failed"}
      /\ th'.step = "sent" <=> outcome = "sent"
      /\ th'.m = th.m /\ th'.copy = th.copy /\ th'.pass = th.pass
      /\ th'.todo = th.todo /\ th'.e = th.e /\ th'.r = th.r
  BY <1>1 DEF TypeOK, Thread
<1> QED
  BY <1>1, <1>2, <1>3

\* The recipient at hand is moved from the list to another, or is not on it.
LEMMA AfterRecord ==
    ASSUME TypeOK, Record
    PROVE  /\ th.step = "sent"
           /\ UNCHANGED <<contact, account, sent, link, party, optedOut,
                          letterOf, faults>>
           /\ \/ /\ th.r \in th.copy.rec
                 /\ \E c \in Row :
                       /\ c.rec = th.copy.rec \ {th.r}
                       /\ c.succ = th.copy.succ \cup {th.r}
                       /\ c.fail = th.copy.fail /\ c.status = th.copy.status
                       /\ SaveCopy(c) /\ th'.copy = c
                 /\ th'.step = "count" /\ th'.m = th.m /\ th'.pass = th.pass
                 /\ th'.todo = th.todo /\ th'.e = th.e /\ th'.r = th.r
              \/ th.r \notin th.copy.rec /\ th' = Sleeping /\ row' = row
<1>1. /\ th.step = "sent"
      /\ UNCHANGED <<contact, account, sent, link, party, optedOut, letterOf, faults>>
  BY DEF Record, world
<1>2. CASE th.r \in th.copy.rec
  <2> DEFINE c == [th.copy EXCEPT !.rec = @ \ {th.r}, !.succ = @ \cup {th.r}]
  <2>1. /\ c \in Row /\ c.rec = th.copy.rec \ {th.r}
        /\ c.succ = th.copy.succ \cup {th.r}
        /\ c.fail = th.copy.fail /\ c.status = th.copy.status
    BY <1>2 DEF TypeOK, Thread, Row
  <2>2. SaveCopy(c) /\ th' = [th EXCEPT !.step = "count", !.copy = c]
    BY <1>2 DEF Record
  <2> HIDE DEF c
  <2>3. /\ th'.copy = c /\ th'.step = "count" /\ th'.m = th.m /\ th'.pass = th.pass
        /\ th'.todo = th.todo /\ th'.e = th.e /\ th'.r = th.r
    BY <2>1, <2>2 DEF TypeOK, Thread
  <2> QED
    BY <1>1, <1>2, <2>1, <2>2, <2>3
<1>3. CASE th.r \notin th.copy.rec
  BY <1>1, <1>3 DEF Record
<1> QED
  BY <1>2, <1>3

LEMMA AfterNextAccount ==
    ASSUME TypeOK, NEW c \in Row, NextAccount(c)
    PROVE  /\ th'.step = "pick" /\ th'.m = th.m /\ th'.copy = c
           /\ th'.pass = th.pass /\ th'.todo = th.todo
  BY DEF NextAccount, TypeOK, Thread

LEMMA AfterFailed ==
    ASSUME TypeOK, Failed
    PROVE  /\ th.step = "failed"
           /\ UNCHANGED <<contact, account, sent, link, party, optedOut,
                          letterOf, faults>>
           /\ \/ /\ th.r \in th.copy.rec
                 /\ \E c \in Row :
                       /\ c.rec = th.copy.rec \ {th.r} /\ c.succ = th.copy.succ
                       /\ c.fail = th.copy.fail \cup {th.r} /\ c.status = "E"
                       /\ SaveCopy(c) /\ th'.copy = c
                 /\ th'.step = "pick" /\ th'.m = th.m /\ th'.pass = th.pass
                 /\ th'.todo = th.todo
              \/ th.r \notin th.copy.rec /\ th' = Sleeping /\ row' = row
<1>1. /\ th.step = "failed"
      /\ UNCHANGED <<contact, account, sent, link, party, optedOut, letterOf, faults>>
  BY DEF Failed, world
<1>2. CASE th.r \in th.copy.rec
  <2> DEFINE c == [th.copy EXCEPT !.status = "E", !.rec = @ \ {th.r},
                                  !.fail = @ \cup {th.r}]
  <2>1. /\ c \in Row /\ c.rec = th.copy.rec \ {th.r} /\ c.succ = th.copy.succ
        /\ c.fail = th.copy.fail \cup {th.r} /\ c.status = "E"
    BY <1>2 DEF TypeOK, Thread, Row
  <2>2. SaveCopy(c) /\ NextAccount(c)
    BY <1>2 DEF Failed
  <2> HIDE DEF c
  <2> QED
    BY <1>1, <1>2, <2>1, <2>2, AfterNextAccount
<1>3. CASE th.r \notin th.copy.rec
  BY <1>1, <1>3 DEF Failed
<1> QED
  BY <1>2, <1>3

\* The lists are saved as they are.
LEMMA AfterCount ==
    ASSUME TypeOK, Count
    PROVE  /\ th.step = "count"
           /\ UNCHANGED <<contact, sent, link, party, optedOut, letterOf, faults>>
           /\ account' = [account EXCEPT ![th.e] = "on"]
           /\ SaveCopy(th.copy)
           /\ th'.step = "pick" /\ th'.m = th.m /\ th'.copy = th.copy
           /\ th'.pass = th.pass /\ th'.todo = th.todo
<1>1. th.copy \in Row /\ NextAccount(th.copy)
  BY CopyTyped DEF Count
<1> QED
  BY <1>1, AfterNextAccount DEF Count, world

LEMMA AfterSwitchOff ==
    ASSUME TypeOK, SwitchOff
    PROVE  /\ th.step = "off"
           /\ UNCHANGED <<contact, sent, link, party, optedOut, letterOf, faults>>
           /\ account' = [account EXCEPT ![th.e] = "off"]
           /\ \E c \in Row :
                 /\ c.rec = th.copy.rec /\ c.succ = th.copy.succ
                 /\ c.fail = th.copy.fail /\ c.status = "E"
                 /\ SaveCopy(c) /\ th'.copy = c
           /\ th'.step = "pick" /\ th'.m = th.m
           /\ th'.pass = th.pass /\ th'.todo = th.todo
<1> DEFINE c == [th.copy EXCEPT !.status = "E"]
<1>1. /\ c \in Row /\ c.rec = th.copy.rec /\ c.succ = th.copy.succ
      /\ c.fail = th.copy.fail /\ c.status = "E"
  BY DEF TypeOK, Thread, Row
<1>2. SaveCopy(c) /\ NextAccount(c)
  BY DEF SwitchOff
<1> HIDE DEF c
<1> QED
  BY <1>1, <1>2, AfterNextAccount DEF SwitchOff, world

LEMMA AfterFinish ==
    ASSUME TypeOK, Finish
    PROVE  /\ th.step = "plan" /\ th' = Sleeping
           /\ UNCHANGED <<contact, account, sent, link, party, optedOut,
                          letterOf, faults>>
           /\ \E c \in Row :
                 /\ c.rec = th.copy.rec /\ c.succ = th.copy.succ
                 /\ c.fail = th.copy.fail /\ c.status = "D" /\ SaveCopy(c)
<1> DEFINE c == [th.copy EXCEPT !.status = "D"]
<1>1. /\ c \in Row /\ c.rec = th.copy.rec /\ c.succ = th.copy.succ
      /\ c.fail = th.copy.fail /\ c.status = "D"
  BY DEF TypeOK, Thread, Row
<1>2. SaveCopy(c)
  BY DEF Finish, SaveCopy
<1> HIDE DEF c
<1> QED
  BY <1>1, <1>2 DEF Finish, world

\* A delete may take the mass contact that the thread has named in a message.
LEMMA AfterDelete ==
    ASSUME TypeOK, \E b \in BOOLEAN : th' = [th EXCEPT !.live = b]
    PROVE  /\ th'.step = th.step /\ th'.m = th.m /\ th'.copy = th.copy
           /\ th'.pass = th.pass /\ th'.todo = th.todo
           /\ th'.e = th.e /\ th'.r = th.r
  BY DEF TypeOK, Thread

LEMMA FaultsGrow == [Next]_vars => faults \subseteq faults'
<1>1. Work => faults \subseteq faults'
  BY DEF Work, Finish, Plan, PlanFails, PickNobody, Pick, PickGone, Send, Record,
         Count, Failed, SwitchOff, EndPass
<1>2. Others => faults \subseteq faults'
  BY DEF Others, Crash, Create, SetStatus, SendFailed, Merge, MakeVIP, Unsubscribe,
         DeleteParty, SwitchAccount, DeleteAccount
<1> QED
  BY <1>1, <1>2 DEF Next, Load, vars

LEMMA NoFaultBefore ==
    ASSUME [Next]_vars, NEW F, NoFault(F)'
    PROVE  NoFault(F)
  BY FaultsGrow DEF NoFault

-----------------------------------------------------------------------------
(***************************************************************************)
(* What saving the thread's copy may lose.  The row may have changed since *)
(* the copy was loaded, or be gone in a merge; but whoever it still names, *)
(* the copy names.                                                         *)
(***************************************************************************)
Named(x) == x.rec \cup x.succ \cup x.fail

CopyNamesAll ==
    /\ \A m \in Mailing : row[m].status = "none" => Names(m) = {}
    /\ th.step # "idle" =>
          th.copy.status # "none" /\ Names(th.m) \subseteq Named(th.copy)

(***************************************************************************)
(* The accounts of a pass are on, unless somebody changed them under the   *)
(* thread's hands; the one at hand is not among those to come.             *)
(***************************************************************************)
PassIsOn ==
    /\ \A e \in th.todo : account[e] = "on"
    /\ th.step \in AtHand => account[th.e] = "on" /\ th.e \notin th.todo

AccountsTrue == NoFault({"overlap"}) => PassIsOn

(***************************************************************************)
(* A link is good as long as its recipient exists and its account does:    *)
(* then it names a mass contact, and who has followed it is switched off   *)
(* there.                                                                  *)
(***************************************************************************)
HasContact(r) == contact[r].acct \in Account

LinkIsTrue(r) ==
    party[r] # "gone" =>
       /\ link[r] # "dead"
       /\ link[r] = "live" => HasContact(r)
       /\ r \in optedOut => HasContact(r) /\ ~contact[r].on
       /\ th.step = "send" /\ th.r = r => th.live /\ HasContact(r)

LinksTrue == NoFault({"account_deleted"}) => \A r \in Recipient : LinkIsTrue(r)

(***************************************************************************)
(* Who waits for a message has not been sent it.  The thread's copy is the *)
(* row; nobody is picked twice in a pass, for a recipient whose account is *)
(* still to come is still on the list.                                     *)
(***************************************************************************)
Waits(m) == row[m].rec \cup row[m].fail

InHand(m, r) == th.step = "sent" /\ th.m = m /\ th.r = r

Unsent(m, r) ==
    \/ sent[letterOf[m]][r] = 0
    \/ sent[letterOf[m]][r] = 1 /\ InHand(m, r)

CopyInStep == th.step # "idle" => row[th.m] = th.copy

PassInStep ==
    /\ th.step \notin {"idle", "plan"} =>
          \A r \in th.pass : contact[r].acct \in th.todo => r \in th.copy.rec
    /\ th.step \in AtHand => th.r \in th.pass /\ contact[th.r].acct \notin th.todo
    /\ th.step \in AtHand \ {"count"} => th.r \in th.copy.rec

WaitApart ==
    /\ \A m \in Mailing : row[m].rec \cap row[m].fail = {}
    /\ \A m, k \in Mailing :
          m # k /\ letterOf[m] = letterOf[k] => Waits(m) \cap Waits(k) = {}

WaitUnsent == \A m \in Mailing : \A r \in Waits(m) : Unsent(m, r)

AtMostOnce == \A l \in Letter, r \in Recipient : sent[l][r] <= 1

Once == /\ CopyInStep
        /\ PassInStep
        /\ WaitApart
        /\ WaitUnsent
        /\ AtMostOnce

OnceTrue == NoFault({"overlap", "torn", "lost_reply"}) => Once

-----------------------------------------------------------------------------
(***************************************************************************)
(* Nobody is forgotten: every step keeps CopyNamesAll, and whoever a       *)
(* mailing names and still exists is named by one of the same message.     *)
(***************************************************************************)
Remembered ==
    \A m \in Mailing : \A r \in Names(m) :
        party[r] # "gone" =>
            \E k \in Mailing : letterOf[k] = letterOf[m] /\ r \in Names(k)'

\* The thread saves a copy that names everybody its copy named.
LEMMA SavingRemembers ==
    ASSUME Typed, CopyNamesAll, th.step # "idle",
           NEW c \in Row, SaveCopy(c), c.status # "none",
           \A r \in Named(th.copy) : party[r] # "gone" => r \in Named(c),
           \/ th'.step = "idle"
           \/ th'.m = th.m /\ th'.copy = c
    PROVE  CopyNamesAll' /\ Remembered
<1>1. /\ th.m \in Mailing /\ row'[th.m] = c
      /\ \A m \in Mailing \ {th.m} : row'[m] = row[m]
  BY DEF Typed, TypeOK, ThreadFits, SaveCopy
<1>2. CopyNamesAll'
  BY <1>1 DEF CopyNamesAll, Names, Named
<1>3. ASSUME NEW m \in Mailing, NEW r \in Names(m), party[r] # "gone"
      PROVE  r \in Names(m)'
  <2>1. CASE m = th.m
    BY <1>1, <1>3, <2>1 DEF CopyNamesAll, Names, Named
  <2>2. CASE m # th.m
    BY <1>1, <1>3, <2>2 DEF Names
  <2> QED
    BY <2>1, <2>2
<1> QED
  BY <1>2, <1>3 DEF Remembered

\* Rows whose names stay, and a thread that keeps its copy or sleeps.
LEMMA NamesStay ==
    ASSUME CopyNamesAll,
           \A m \in Mailing :
              /\ Names(m)' = Names(m)
              /\ row'[m].status = "none" => row[m].status = "none",
           th.m \in Mailing \/ th.step = "idle",
           \/ th'.step = "idle"
           \/ th.step # "idle" /\ th'.m = th.m /\ th'.copy = th.copy
    PROVE  CopyNamesAll' /\ Remembered
<1>1. Remembered
  BY DEF Remembered
<1>2. CopyNamesAll'
  BY DEF CopyNamesAll
<1> QED
  BY <1>1, <1>2

LEMMA WorkRemembers ==
    ASSUME Typed, CopyNamesAll, Work
    PROVE  CopyNamesAll' /\ Remembered
<1>0. /\ TypeOK /\ ThreadFits
      /\ th.step # "idle" => th.copy.status # "none" /\ th.m \in Mailing
  BY DEF Typed, ThreadFits, CopyNamesAll
<1>1. CASE Finish
  <2>1. PICK c \in Row : /\ c.rec = th.copy.rec /\ c.succ = th.copy.succ
                         /\ c.fail = th.copy.fail /\ c.status = "D" /\ SaveCopy(c)
    BY <1>0, <1>1, AfterFinish
  <2> QED
    BY <1>0, <1>1, <2>1, AfterFinish, ThreadSleeps, SavingRemembers DEF Named
<1>2. ASSUME row' = row, th.step # "idle",
             \/ th'.step = "idle"
             \/ th'.m = th.m /\ th'.copy = th.copy
      PROVE  CopyNamesAll' /\ Remembered
  BY <1>0, <1>2, NamesStay DEF Names
<1>3. CASE Plan
  BY <1>0, <1>2, <1>3, AfterPlan
<1>4. CASE PlanFails \/ EndPass
  BY <1>0, <1>2, <1>4, AfterPlanFails, ThreadSleeps DEF EndPass
<1>5. ASSUME NEW e \in Account, PickNobody(e)
      PROVE  CopyNamesAll' /\ Remembered
  BY <1>0, <1>2, <1>5, AfterPickNobody
<1>6. ASSUME NEW e \in Account, NEW r \in Recipient, Pick(e, r)
      PROVE  CopyNamesAll' /\ Remembered
  BY <1>0, <1>2, <1>6, AfterPick
<1>7. ASSUME NEW e \in Account, NEW r \in Recipient, PickGone(e, r)
      PROVE  CopyNamesAll' /\ Remembered
  <2>1. th.step = "pick" /\ party[r] = "gone"
    BY <1>0, <1>7, AfterPickGone
  <2>2. CASE th' = Sleeping /\ row' = row
    BY <1>2, <2>1, <2>2, ThreadSleeps
  <2>3. ASSUME NEW c \in Row, c.rec = th.copy.rec \ {r}, c.succ = th.copy.succ,
               c.fail = th.copy.fail, c.status = th.copy.status, SaveCopy(c),
               th'.copy = c, th'.m = th.m
        PROVE  CopyNamesAll' /\ Remembered
    <3>1. \A x \in Named(th.copy) : party[x] # "gone" => x \in Named(c)
      BY <2>1, <2>3 DEF Named
    <3> QED
      BY <1>0, <2>1, <2>3, <3>1, SavingRemembers
  <2> QED
    BY <1>0, <1>7, <2>2, <2>3, AfterPickGone
<1>8. ASSUME NEW outcome \in Outcome, Send(outcome)
      PROVE  CopyNamesAll' /\ Remembered
  BY <1>0, <1>2, <1>8, AfterSend
<1>9. CASE Record
  <2>1. th.step = "sent"
    BY <1>0, <1>9, AfterRecord
  <2>2. CASE th' = Sleeping /\ row' = row
    BY <1>2, <2>1, <2>2, ThreadSleeps
  <2>3. ASSUME NEW c \in Row, c.rec = th.copy.rec \ {th.r},
               c.succ = th.copy.succ \cup {th.r}, c.fail = th.copy.fail,
               c.status = th.copy.status, SaveCopy(c), th'.copy = c, th'.m = th.m
        PROVE  CopyNamesAll' /\ Remembered
    <3>1. \A x \in Named(th.copy) : x \in Named(c)
      BY <2>3 DEF Named
    <3> QED
      BY <1>0, <2>1, <2>3, <3>1, SavingRemembers
  <2> QED
    BY <1>0, <1>9, <2>2, <2>3, AfterRecord
<1>10. CASE Count
  <2>1. th.copy \in Row
    BY <1>0, CopyTyped
  <2> QED
    BY <1>0, <1>10, <2>1, AfterCount, SavingRemembers
<1>11. CASE Failed
  <2>1. th.step = "failed"
    BY <1>0, <1>11, AfterFailed
  <2>2. CASE th' = Sleeping /\ row' = row
    BY <1>2, <2>1, <2>2, ThreadSleeps
  <2>3. ASSUME NEW c \in Row, c.rec = th.copy.rec \ {th.r}, c.succ = th.copy.succ,
               c.fail = th.copy.fail \cup {th.r}, c.status = "E", SaveCopy(c),
               th'.copy = c, th'.m = th.m
        PROVE  CopyNamesAll' /\ Remembered
    <3>1. \A x \in Named(th.copy) : x \in Named(c)
      BY <2>3 DEF Named
    <3> QED
      BY <1>0, <2>1, <2>3, <3>1, SavingRemembers
  <2> QED
    BY <1>0, <1>11, <2>2, <2>3, AfterFailed
<1>12. CASE SwitchOff
  <2>1. PICK c \in Row : /\ c.rec = th.copy.rec /\ c.succ = th.copy.succ
                         /\ c.fail = th.copy.fail /\ c.status = "E"
                         /\ SaveCopy(c) /\ th'.copy = c
    BY <1>0, <1>12, AfterSwitchOff
  <2> QED
    BY <1>0, <1>12, <2>1, AfterSwitchOff, SavingRemembers DEF Named
<1> QED
  BY <1>1, <1>3, <1>4, <1>5, <1>6, <1>7, <1>8, <1>9, <1>10, <1>11, <1>12 DEF Work

LEMMA OthersRemember ==
    ASSUME Typed, CopyNamesAll, Others
    PROVE  CopyNamesAll' /\ Remembered
<1>0. /\ TypeOK /\ ThreadFits
      /\ th.m \in Mailing \/ th.step = "idle"
      /\ \A m \in Mailing : row[m] \in Row
  BY DEF Typed, TypeOK, ThreadFits
<1>1. ASSUME row' = row, \/ th'.step = "idle"
                         \/ /\ th'.step = th.step /\ th'.m = th.m
                            /\ th'.copy = th.copy
      PROVE  CopyNamesAll' /\ Remembered
  BY <1>0, <1>1, NamesStay DEF Names
<1>2. CASE Crash
  BY <1>1, <1>2, ThreadSleeps DEF Crash
<1>3. ASSUME NEW m \in Mailing, NEW R \in SUBSET Recipient, Create(m, R)
      PROVE  CopyNamesAll' /\ Remembered
  <2>1. /\ row[m].status = "none" /\ th.m # m /\ th' = th
        /\ row' = [row EXCEPT ![m] = [NoRow EXCEPT !.status = "P", !.rec = R]]
    BY <1>3 DEF Create, Exists
  <2>2. /\ row'[m].status = "P" /\ \A k \in Mailing \ {m} : row'[k] = row[k]
    BY <1>0, <2>1 DEF TypeOK, NoRow
  <2>3. Names(m) = {} /\ \A k \in Mailing \ {m} : Names(k)' = Names(k)
    BY <2>1, <2>2 DEF CopyNamesAll, Names
  <2>4. Remembered
    BY <2>3 DEF Remembered
  <2>5. CopyNamesAll'
    BY <1>0, <2>1, <2>2, <2>3 DEF CopyNamesAll
  <2> QED
    BY <2>4, <2>5
<1>4. ASSUME NEW m \in Mailing, NEW s \in {"A", "P"}, SetStatus(m, s)
      PROVE  CopyNamesAll' /\ Remembered
  <2>1. row' = [row EXCEPT ![m] = [row[m] EXCEPT !.status = s]] /\ th' = th
    BY <1>4 DEF SetStatus
  <2>2. \A k \in Mailing : /\ Names(k)' = Names(k)
                           /\ row'[k].status = "none" => row[k].status = "none"
    BY <1>0, <2>1 DEF TypeOK, Row, Names
  <2> QED
    BY <1>0, <2>1, <2>2, NamesStay
<1>5. ASSUME NEW m \in Mailing, SendFailed(m)
      PROVE  CopyNamesAll' /\ Remembered
  <2>1. /\ row' = [row EXCEPT ![m] = [row[m] EXCEPT !.status = "A",
                                          !.rec = row[m].rec \cup row[m].fail,
                                          !.fail = {}]]
        /\ th' = th
    BY <1>5 DEF SendFailed
  <2>2. \A k \in Mailing : /\ Names(k)' = Names(k)
                           /\ row'[k].status = "none" => row[k].status = "none"
    BY <1>0, <2>1 DEF TypeOK, Row, Names
  <2> QED
    BY <1>0, <2>1, <2>2, NamesStay
<1>6. ASSUME NEW M \in SUBSET Mailing, NEW n \in Mailing, NEW f \in Mailing,
             Merge(M, n, f)
      PROVE  CopyNamesAll' /\ Remembered
  <2>1. /\ f \in M /\ row[n].status = "none" /\ th.m # n /\ th' = th
        /\ \A m \in M : row[m].status # "none" /\ letterOf[m] = letterOf[n]
        /\ row' = [m \in Mailing |->
                     IF m \in M THEN NoRow
                     ELSE IF m = n
                     THEN [status |-> row[f].status,
                           rec  |-> UNION {row[k].rec : k \in M},
                           succ |-> UNION {row[k].succ : k \in M},
                           fail |-> UNION {row[k].fail : k \in M}]
                     ELSE row[m]]
    BY <1>6 DEF Merge, Exists
  <2>2. n \notin M /\ Names(n) = {}
    BY <2>1 DEF CopyNamesAll
  <2>3. \A m \in M : Names(m)' = {} /\ row'[m].status = "none"
    BY <2>1 DEF NoRow, Names
  <2>4. /\ \A m \in M : \A r \in Names(m) : r \in Names(n)'
        /\ row'[n].status = row[f].status
    BY <2>1, <2>2 DEF Names
  <2>5. \A m \in Mailing \ (M \cup {n}) : row'[m] = row[m] /\ Names(m)' = Names(m)
    BY <2>1 DEF Names
  <2>6. ASSUME NEW m \in Mailing, NEW r \in Names(m)
        PROVE  \E k \in Mailing : letterOf[k] = letterOf[m] /\ r \in Names(k)'
    BY <2>1, <2>2, <2>4, <2>5, <2>6
  <2>7. \A m \in Mailing : row'[m].status = "none" => Names(m)' = {}
    BY <2>1, <2>3, <2>4, <2>5 DEF CopyNamesAll
  <2>8. th.step # "idle" => Names(th.m)' \subseteq Names(th.m)
    BY <1>0, <2>1, <2>3, <2>5
  <2> QED
    BY <2>1, <2>6, <2>7, <2>8 DEF CopyNamesAll, Remembered
<1>7. ASSUME NEW r \in Recipient, MakeVIP(r) \/ Unsubscribe(r)
      PROVE  CopyNamesAll' /\ Remembered
  BY <1>1, <1>7 DEF MakeVIP, Unsubscribe
<1>8. ASSUME NEW e \in Account, NEW s \in {"on", "off"}, SwitchAccount(e, s)
      PROVE  CopyNamesAll' /\ Remembered
  BY <1>1, <1>8 DEF SwitchAccount
<1>9. ASSUME \/ \E e \in Account, bulk \in BOOLEAN : DeleteAccount(e, bulk)
             \/ \E r \in Recipient, bulk \in BOOLEAN : DeleteParty(r, bulk)
      PROVE  CopyNamesAll' /\ Remembered
  <2>1. row' = row /\ (th' = th \/ \E b \in BOOLEAN : th' = [th EXCEPT !.live = b])
    BY <1>9 DEF DeleteAccount, DeleteParty
  <2> QED
    BY <1>0, <1>1, <2>1, AfterDelete
<1> QED
  BY <1>2, <1>3, <1>4, <1>5, <1>6, <1>7, <1>8, <1>9 DEF Others

LEMMA StepRemembers ==
    ASSUME Typed, CopyNamesAll, [Next]_vars
    PROVE  CopyNamesAll' /\ (vars' # vars => Remembered)
<1>1. ASSUME NEW m \in Mailing, Load(m)
      PROVE  CopyNamesAll' /\ Remembered
  <2>1. /\ row' = row /\ th'.m = m /\ th'.copy = row[m]
        /\ row[m].status # "none"
    BY <1>1, AfterLoad DEF Active
  <2>2. CopyNamesAll'
    BY <2>1 DEF CopyNamesAll, Names, Named
  <2>3. Remembered
    BY <2>1 DEF Remembered, Names
  <2> QED
    BY <2>2, <2>3
<1>2. CASE UNCHANGED vars
  BY <1>2 DEF vars, CopyNamesAll, Names, Named
<1> QED
  BY <1>1, <1>2, WorkRemembers, OthersRemember DEF Next

\* Whoever a mailing names stays on the lists of a mailing of that message
\* until deleted, whatever the thread overwrites and users merge or retry.
THEOREM NobodyIsForgotten == Spec => NobodyForgotten
<1>1. Init => CopyNamesAll
  BY SleepingTyped DEF Init, CopyNamesAll, Names, NoRow
<1>2. ASSUME Typed, CopyNamesAll, [Next]_vars
      PROVE  [\A l \in Letter : \A r \in Listed(l) :
                 party[r] # "gone" => r \in Listed(l)']_vars
  <2>1. ASSUME vars' # vars, NEW l \in Letter, NEW r \in Listed(l), party[r] # "gone"
        PROVE  r \in Listed(l)'
    <3>1. PICK m \in Mailing : letterOf[m] = l /\ r \in Names(m)
      BY <2>1 DEF Listed
    <3>2. PICK k \in Mailing : letterOf[k] = l /\ r \in Names(k)'
      BY <1>2, <2>1, <3>1, StepRemembers DEF Remembered
    <3>3. letterOf' = letterOf
      BY <1>2, LettersStay
    <3> QED
      BY <3>2, <3>3 DEF Listed
  <2> QED
    BY <2>1
<1>3. Typed /\ CopyNamesAll /\ [Next]_vars => CopyNamesAll'
  BY StepRemembers
<1> QED
  BY <1>1, <1>2, <1>3, TypedAlways, PTL DEF Spec, NobodyForgotten

-----------------------------------------------------------------------------
(***************************************************************************)
(* The accounts obey the administrator.                                    *)
(***************************************************************************)
\* A step that switches accounts on by the administrator's form only, or after
\* somebody changed an account under the thread's hands.
Obeyed ==
    \A e \in Account :
        account[e] # "on" /\ account'[e] = "on"
        => SwitchAccount(e, "on") \/ ~NoFault({"overlap"})'

\* Nothing was saved over an account and none was added to the pass.
LEMMA AccountsKept ==
    ASSUME AccountsTrue, NoFault({"overlap"})' => NoFault({"overlap"}),
           account' = account, th'.todo \subseteq th.todo,
           \/ th'.step \notin AtHand
           \/ th.step \in AtHand /\ th'.e = th.e
    PROVE  AccountsTrue' /\ Obeyed
  BY DEF AccountsTrue, PassIsOn, Obeyed

LEMMA WorkObeys ==
    ASSUME Typed, AccountsTrue, [Next]_vars, Work
    PROVE  AccountsTrue' /\ Obeyed
<1>0. /\ TypeOK /\ ThreadFits /\ account \in [Account -> {"on", "off", "gone"}]
      /\ NoFault({"overlap"})' => NoFault({"overlap"})
  BY NoFaultBefore DEF Typed, TypeOK
<1> USE DEF AtHand
<1>1. CASE Plan
  BY <1>0, <1>1, AfterPlan DEF AccountsTrue, PassIsOn, Obeyed
<1>2. CASE Finish \/ PlanFails \/ EndPass
  <2>1. account' = account /\ th' = Sleeping
    BY <1>0, <1>2, AfterFinish, AfterPlanFails DEF EndPass
  <2> QED
    BY <1>0, <2>1, ThreadSleeps, AccountsKept
<1>3. ASSUME NEW e \in Account, PickNobody(e)
      PROVE  AccountsTrue' /\ Obeyed
  BY <1>0, <1>3, AfterPickNobody, AccountsKept
<1>4. ASSUME NEW e \in Account, NEW r \in Recipient, Pick(e, r)
      PROVE  AccountsTrue' /\ Obeyed
  <2>1. /\ th'.step = "send" /\ th'.todo = th.todo \ {e} /\ th'.e = e
        /\ e \in th.todo /\ account' = account
    BY <1>0, <1>4, AfterPick
  <2>2. PassIsOn => PassIsOn'
    BY <2>1 DEF PassIsOn
  <2> QED
    BY <1>0, <2>1, <2>2 DEF AccountsTrue, Obeyed
<1>5. ASSUME NEW e \in Account, NEW r \in Recipient, PickGone(e, r)
      PROVE  AccountsTrue' /\ Obeyed
  <2>1. CASE th' = Sleeping
    BY <1>0, <1>5, <2>1, AfterPickGone, ThreadSleeps, AccountsKept
  <2>2. CASE th' # Sleeping
    BY <1>0, <1>5, <2>2, AfterPickGone, AccountsKept
  <2> QED
    BY <2>1, <2>2
<1>6. ASSUME NEW outcome \in Outcome, Send(outcome)
      PROVE  AccountsTrue' /\ Obeyed
  BY <1>0, <1>6, AfterSend, AccountsKept
<1>7. CASE Record
  <2>1. CASE th' = Sleeping
    BY <1>0, <1>7, <2>1, AfterRecord, ThreadSleeps, AccountsKept
  <2>2. CASE th' # Sleeping
    BY <1>0, <1>7, <2>2, AfterRecord, AccountsKept
  <2> QED
    BY <2>1, <2>2
<1>8. CASE Failed
  <2>1. CASE th' = Sleeping
    BY <1>0, <1>8, <2>1, AfterFailed, ThreadSleeps, AccountsKept
  <2>2. CASE th' # Sleeping
    BY <1>0, <1>8, <2>2, AfterFailed, AccountsKept
  <2> QED
    BY <2>1, <2>2
<1>9. CASE Count
  <2>1. /\ account' = [account EXCEPT ![th.e] = "on"] /\ th.step \in AtHand
        /\ th'.step = "pick" /\ th'.todo = th.todo /\ th.e \in Account
    BY <1>0, <1>9, AfterCount DEF ThreadFits
  <2>2. AccountsTrue'
    BY <1>0, <2>1 DEF AccountsTrue, PassIsOn
  <2>3. Obeyed
    <3>1. faults' = faults
      BY <1>0, <1>9, AfterCount
    <3>2. NoFault({"overlap"}) => account' = account
      BY <1>0, <2>1 DEF AccountsTrue, PassIsOn
    <3> QED
      BY <3>1, <3>2 DEF Obeyed, NoFault
  <2> QED
    BY <2>2, <2>3
<1>10. CASE SwitchOff
  <2>1. /\ account' = [account EXCEPT ![th.e] = "off"] /\ th.step \in AtHand
        /\ th'.step = "pick" /\ th'.todo = th.todo /\ th.e \in Account
    BY <1>0, <1>10, AfterSwitchOff DEF ThreadFits
  <2>2. AccountsTrue'
    BY <1>0, <2>1 DEF AccountsTrue, PassIsOn, TypeOK, Thread
  <2>3. Obeyed
    BY <1>0, <2>1 DEF Obeyed
  <2> QED
    BY <2>2, <2>3
<1> QED
  BY <1>1, <1>2, <1>3, <1>4, <1>5, <1>6, <1>7, <1>8, <1>9, <1>10 DEF Work

LEMMA OthersObey ==
    ASSUME Typed, AccountsTrue, [Next]_vars, Others
    PROVE  AccountsTrue' /\ Obeyed
<1>0. /\ TypeOK /\ ThreadFits /\ account \in [Account -> {"on", "off", "gone"}]
      /\ NoFault({"overlap"})' => NoFault({"overlap"})
      /\ th.todo \subseteq Account
  BY NoFaultBefore DEF Typed, TypeOK, Thread
<1>1. CASE Crash
  BY <1>0, <1>1, ThreadSleeps, AccountsKept DEF Crash, AtHand
<1>2. ASSUME UNCHANGED <<account, th>>
      PROVE  AccountsTrue' /\ Obeyed
  BY <1>0, <1>2, AccountsKept
<1>3. ASSUME NEW m \in Mailing, NEW n \in Mailing,
             \/ \E R \in SUBSET Recipient : Create(m, R)
             \/ \E s \in {"A", "P"} : SetStatus(m, s)
             \/ SendFailed(m)
             \/ \E M \in SUBSET Mailing : Merge(M, n, m)
      PROVE  AccountsTrue' /\ Obeyed
  BY <1>2, <1>3 DEF Create, SetStatus, SendFailed, Merge
<1>4. ASSUME NEW r \in Recipient, MakeVIP(r) \/ Unsubscribe(r)
      PROVE  AccountsTrue' /\ Obeyed
  BY <1>2, <1>4 DEF MakeVIP, Unsubscribe
<1>5. ASSUME NEW r \in Recipient, NEW bulk \in BOOLEAN, DeleteParty(r, bulk)
      PROVE  AccountsTrue' /\ Obeyed
  <2>1. /\ account' = account
        /\ th' = th \/ \E b \in BOOLEAN : th' = [th EXCEPT !.live = b]
    BY <1>5 DEF DeleteParty
  <2>2. CASE th' = th
    BY <1>2, <2>1, <2>2
  <2>3. CASE \E b \in BOOLEAN : th' = [th EXCEPT !.live = b]
    BY <1>0, <2>1, <2>3, AfterDelete, AccountsKept
  <2> QED
    BY <2>1, <2>2, <2>3
<1>6. ASSUME NEW e \in Account, NEW s \in {"on", "off"}, SwitchAccount(e, s)
      PROVE  AccountsTrue' /\ Obeyed
  <2>1. /\ account' = [account EXCEPT ![e] = s] /\ th' = th
        /\ InPass(e) => "overlap" \in faults'
    BY <1>6 DEF SwitchAccount
  <2>2. AccountsTrue'
    BY <1>0, <2>1 DEF AccountsTrue, PassIsOn, InPass, NoFault, ThreadFits
  <2>3. Obeyed
    BY <1>0, <1>6, <2>1 DEF Obeyed
  <2> QED
    BY <2>2, <2>3
<1>7. ASSUME NEW e \in Account, NEW bulk \in BOOLEAN, DeleteAccount(e, bulk)
      PROVE  AccountsTrue' /\ Obeyed
  <2>1. /\ account' = [account EXCEPT ![e] = "gone"]
        /\ \E b \in BOOLEAN : th' = [th EXCEPT !.live = b]
        /\ InPass(e) => "overlap" \in faults'
    BY <1>7 DEF DeleteAccount
  <2>2. th'.step = th.step /\ th'.todo = th.todo /\ th'.e = th.e
    BY <1>0, <2>1, AfterDelete
  <2>3. AccountsTrue'
    BY <1>0, <2>1, <2>2 DEF AccountsTrue, PassIsOn, InPass, NoFault, ThreadFits
  <2>4. Obeyed
    BY <1>0, <2>1 DEF Obeyed
  <2> QED
    BY <2>3, <2>4
<1> QED
  BY <1>1, <1>3, <1>4, <1>5, <1>6, <1>7 DEF Others

LEMMA StepObeys ==
    ASSUME Typed, AccountsTrue, [Next]_vars
    PROVE  AccountsTrue' /\ Obeyed
<1>0. NoFault({"overlap"})' => NoFault({"overlap"})
  BY NoFaultBefore
<1>1. ASSUME NEW m \in Mailing, Load(m)
      PROVE  AccountsTrue' /\ Obeyed
  BY <1>0, <1>1, AfterLoad, AccountsKept DEF AtHand
<1>2. CASE UNCHANGED vars
  BY <1>0, <1>2, AccountsKept DEF vars
<1> QED
  BY <1>1, <1>2, WorkObeys, OthersObey DEF Next

\* An account that is off or gone sends again only after the administrator has
\* switched it on, unless it was changed while the thread had it in hand.
THEOREM AdminIsObeyed == Spec => AccountsObeyAdmin
<1>1. Init => AccountsTrue
  BY DEF Init, AccountsTrue, PassIsOn, Sleeping, AtHand
<1>2. Typed /\ AccountsTrue /\ [Next]_vars =>
         AccountsTrue' /\ [\A e \in Account :
                              account[e] # "on" /\ account'[e] = "on"
                              => SwitchAccount(e, "on")
                                 \/ ~NoFault({"overlap"})']_vars
  BY StepObeys DEF Obeyed
<1> QED
  BY <1>1, <1>2, TypedAlways, PTL DEF Spec, AccountsObeyAdmin

-----------------------------------------------------------------------------
(***************************************************************************)
(* Opting out is kept.                                                     *)
(***************************************************************************)
\* Links and opt-outs as they were, and contacts that were given only.
LEMMA LinksKept ==
    ASSUME LinksTrue, NoFault({"account_deleted"})' => NoFault({"account_deleted"}),
           UNCHANGED <<link, party, optedOut>>, \A r \in Recipient : Given(r),
           NoAccount \notin Account,
           \/ th'.step # "send"
           \/ th.step = "send" /\ th'.r = th.r /\ th'.live = th.live
    PROVE  LinksTrue'
<1>1. ASSUME NEW r \in Recipient, LinkIsTrue(r) PROVE LinkIsTrue(r)'
  <2>1. \/ contact'[r] = contact[r]
        \/ ~HasContact(r) /\ HasContact(r)'
    BY DEF Given, HasContact
  <2> QED
    BY <1>1, <2>1 DEF LinkIsTrue, HasContact
<1> QED
  BY <1>1 DEF LinksTrue

\* A recipient that is gone matters to nobody's link.
LEMMA LinksOfOthers ==
    ASSUME LinksTrue, NoFault({"account_deleted"})' => NoFault({"account_deleted"}),
           NEW r \in Recipient, party'[r] = "gone",
           \A x \in Recipient \ {r} :
              /\ contact'[x] = contact[x] /\ link'[x] = link[x]
              /\ party'[x] = party[x] /\ (x \in optedOut' <=> x \in optedOut),
           \/ th'.step # "send"
           \/ /\ th.step = "send" /\ th'.r = th.r
              /\ th.r # r => th'.live = th.live
    PROVE  LinksTrue'
<1>1. ASSUME NEW x \in Recipient, LinkIsTrue(x) PROVE LinkIsTrue(x)'
  BY <1>1 DEF LinkIsTrue, HasContact
<1> QED
  BY <1>1 DEF LinksTrue

LEMMA WorkKeepsLinks ==
    ASSUME Typed, LinksTrue, [Next]_vars, Work
    PROVE  LinksTrue'
<1>0. /\ TypeOK /\ ThreadFits /\ NoAccount \notin Account
      /\ NoFault({"account_deleted"})' => NoFault({"account_deleted"})
  BY NoFaultBefore, MailingAssumption DEF Typed
<1>1. ASSUME UNCHANGED <<link, party, optedOut>>, \A r \in Recipient : Given(r),
             th'.step # "send"
      PROVE  LinksTrue'
  BY <1>0, <1>1, LinksKept
<1>2. CASE Plan
  BY <1>0, <1>1, <1>2, AfterPlan
<1>3. CASE PlanFails
  BY <1>0, <1>1, <1>3, AfterPlanFails, ThreadSleeps
<1>4. CASE Finish \/ EndPass
  <2>1. UNCHANGED <<contact, link, party, optedOut>> /\ th' = Sleeping
    BY <1>0, <1>4, AfterFinish DEF EndPass, world
  <2> QED
    BY <1>1, <2>1, ThreadSleeps DEF Given
<1>5. ASSUME NEW e \in Account, PickNobody(e)
      PROVE  LinksTrue'
  BY <1>0, <1>1, <1>5, AfterPickNobody DEF Given
<1>6. ASSUME NEW e \in Account, NEW r \in Recipient, Pick(e, r)
      PROVE  LinksTrue'
  <2>1. /\ UNCHANGED <<contact, link, party, optedOut>>
        /\ th'.r = r /\ th'.live = TRUE /\ contact[r].acct = e
    BY <1>0, <1>6, AfterPick
  <2>2. ASSUME NEW x \in Recipient, LinkIsTrue(x) PROVE LinkIsTrue(x)'
    BY <1>6, <2>1, <2>2 DEF LinkIsTrue, HasContact
  <2> QED
    BY <1>0, <2>2 DEF LinksTrue
<1>7. ASSUME NEW e \in Account, NEW r \in Recipient, PickGone(e, r)
      PROVE  LinksTrue'
  <2>1. party[r] = "gone" /\ UNCHANGED <<party, optedOut>>
    BY <1>0, <1>7, AfterPickGone
  <2>2. CASE th' = Sleeping /\ UNCHANGED <<row, contact, link>>
    BY <1>1, <2>1, <2>2, ThreadSleeps DEF Given
  <2>3. CASE /\ th'.step = "pick" /\ contact' = [contact EXCEPT ![r] = NoContact]
             /\ Unlink({r})
    <3>1. \A x \in Recipient \ {r} : contact'[x] = contact[x] /\ link'[x] = link[x]
      BY <1>0, <2>3 DEF TypeOK, Unlink
    <3> QED
      BY <1>0, <2>1, <2>3, <3>1, LinksOfOthers
  <2> QED
    BY <1>0, <1>7, <2>2, <2>3, AfterPickGone
<1>8. ASSUME NEW outcome \in Outcome, Send(outcome)
      PROVE  LinksTrue'
  <2>1. /\ th.step = "send" /\ th'.step # "send" /\ th.r \in Recipient
        /\ UNCHANGED <<contact, party, optedOut>>
        /\ \/ link' = link
           \/ link' = [link EXCEPT ![th.r] = IF th.live THEN "live" ELSE "dead"]
    BY <1>0, <1>8, AfterSend DEF ThreadFits, AtHand
  <2>2. ASSUME NEW x \in Recipient, LinkIsTrue(x) PROVE LinkIsTrue(x)'
    BY <1>0, <2>1, <2>2 DEF LinkIsTrue, HasContact, TypeOK
  <2> QED
    BY <1>0, <2>2 DEF LinksTrue
<1>9. CASE Record
  <2>1. UNCHANGED <<contact, link, party, optedOut>>
    BY <1>0, <1>9, AfterRecord
  <2>2. th'.step # "send"
    BY <1>0, <1>9, AfterRecord, ThreadSleeps
  <2> QED
    BY <1>1, <2>1, <2>2 DEF Given
<1>10. CASE Failed
  <2>1. UNCHANGED <<contact, link, party, optedOut>>
    BY <1>0, <1>10, AfterFailed
  <2>2. th'.step # "send"
    BY <1>0, <1>10, AfterFailed, ThreadSleeps
  <2> QED
    BY <1>1, <2>1, <2>2 DEF Given
<1>11. CASE Count
  BY <1>0, <1>1, <1>11, AfterCount DEF Given
<1>12. CASE SwitchOff
  BY <1>0, <1>1, <1>12, AfterSwitchOff DEF Given
<1> QED
  BY <1>2, <1>3, <1>4, <1>5, <1>6, <1>7, <1>8, <1>9, <1>10, <1>11, <1>12 DEF Work

LEMMA OthersKeepLinks ==
    ASSUME Typed, LinksTrue, [Next]_vars, Others
    PROVE  LinksTrue'
<1>0. /\ TypeOK /\ ThreadFits /\ NoAccount \notin Account
      /\ NoFault({"account_deleted"})' => NoFault({"account_deleted"})
  BY NoFaultBefore, MailingAssumption DEF Typed
<1>1. ASSUME UNCHANGED <<contact, link, party, optedOut>>,
             th' = th \/ th'.step = "idle"
      PROVE  LinksTrue'
  BY <1>0, <1>1, LinksKept DEF Given
<1>2. CASE Crash
  BY <1>1, <1>2, ThreadSleeps DEF Crash, world
<1>3. ASSUME NEW m \in Mailing, NEW n \in Mailing,
             \/ \E R \in SUBSET Recipient : Create(m, R)
             \/ \E s \in {"A", "P"} : SetStatus(m, s)
             \/ SendFailed(m)
             \/ \E M \in SUBSET Mailing : Merge(M, n, m)
      PROVE  LinksTrue'
  BY <1>1, <1>3 DEF Create, SetStatus, SendFailed, Merge, world
<1>4. ASSUME NEW r \in Recipient, MakeVIP(r)
      PROVE  LinksTrue'
  <2>1. /\ contact' = [contact EXCEPT ![r] =
                         [acct |-> Main,
                          on |-> IF contact[r] = NoContact THEN TRUE
                                                           ELSE contact[r].on]]
        /\ UNCHANGED <<th, link, party, optedOut>>
    BY <1>4 DEF MakeVIP, world
  <2>2. HasContact(r) => contact[r] # NoContact
    BY <1>0 DEF HasContact, NoContact
  <2>3. contact'[r].acct = Main /\ (HasContact(r) => contact'[r].on = contact[r].on)
    BY <1>0, <2>1, <2>2 DEF TypeOK
  <2>4. \A x \in Recipient \ {r} : contact'[x] = contact[x]
    BY <1>0, <2>1 DEF TypeOK
  <2>5. ASSUME NEW x \in Recipient, LinkIsTrue(x) PROVE LinkIsTrue(x)'
    <3>1. CASE x = r
      BY <2>1, <2>3, <2>5, <3>1, MailingAssumption DEF LinkIsTrue, HasContact
    <3>2. CASE x # r
      BY <2>1, <2>4, <2>5, <3>2 DEF LinkIsTrue, HasContact
    <3> QED
      BY <3>1, <3>2
  <2> QED
    BY <1>0, <2>5 DEF LinksTrue
<1>5. ASSUME NEW r \in Recipient, Unsubscribe(r)
      PROVE  LinksTrue'
  <2>1. /\ optedOut' = optedOut \cup {r} /\ link[r] # "none" /\ UNCHANGED <<link, th>>
        /\ \/ /\ link[r] = "live" /\ contact' = [contact EXCEPT ![r].on = FALSE]
              /\ party' = [party EXCEPT ![r] = IF @ = "gone" THEN @ ELSE "out"]
           \/ link[r] # "live" /\ UNCHANGED <<contact, party>>
    BY <1>5 DEF Unsubscribe
  <2>2. \A x \in Recipient \ {r} : contact'[x] = contact[x] /\ party'[x] = party[x]
    BY <1>0, <2>1 DEF TypeOK
  <2>3. ASSUME LinkIsTrue(r) PROVE LinkIsTrue(r)'
    <3>1. CASE link[r] = "live"
      <4>1. /\ contact' = [contact EXCEPT ![r].on = FALSE]
            /\ party'[r] = "gone" <=> party[r] = "gone"
        BY <1>0, <2>1, <3>1 DEF TypeOK
      <4>2. HasContact(r) => contact[r] \in [acct : Account, on : BOOLEAN]
        BY <1>0 DEF TypeOK, Contact, NoContact, HasContact
      <4>3. HasContact(r) => contact'[r].acct = contact[r].acct /\ ~contact'[r].on
        BY <1>0, <4>1, <4>2 DEF TypeOK
      <4> QED
        BY <2>1, <2>3, <3>1, <4>1, <4>3 DEF LinkIsTrue, HasContact
    <3>2. CASE link[r] # "live"
      BY <1>0, <2>1, <2>3, <3>2 DEF LinkIsTrue, TypeOK
    <3> QED
      BY <3>1, <3>2
  <2>4. ASSUME NEW x \in Recipient \ {r}, LinkIsTrue(x) PROVE LinkIsTrue(x)'
    BY <2>1, <2>2, <2>4 DEF LinkIsTrue, HasContact
  <2> QED
    BY <1>0, <2>3, <2>4 DEF LinksTrue
<1>6. ASSUME NEW r \in Recipient, NEW bulk \in BOOLEAN, DeleteParty(r, bulk)
      PROVE  LinksTrue'
  <2>1. /\ party' = [party EXCEPT ![r] = "gone"] /\ optedOut' = optedOut
        /\ \/ UNCHANGED <<contact, link, th>>
           \/ /\ contact' = [contact EXCEPT ![r] = NoContact] /\ Unlink({r})
              /\ th' = [th EXCEPT !.live = @ /\ th.r # r]
    BY <1>6 DEF DeleteParty
  <2>2. \A x \in Recipient \ {r} : /\ party'[x] = party[x]
                                   /\ contact'[x] = contact[x] /\ link'[x] = link[x]
    BY <1>0, <2>1 DEF TypeOK, Unlink
  <2>3. /\ th'.step = th.step /\ th'.r = th.r
        /\ th.r # r => th'.live = th.live
    BY <1>0, <2>1 DEF TypeOK, Thread
  <2>4. party'[r] = "gone"
    BY <1>0, <2>1 DEF TypeOK
  <2> QED
    BY <1>0, <2>1, <2>2, <2>3, <2>4, LinksOfOthers
<1>7. ASSUME NEW e \in Account, NEW bulk \in BOOLEAN, DeleteAccount(e, bulk)
      PROVE  LinksTrue'
  BY <1>7 DEF DeleteAccount, LinksTrue, NoFault
<1>8. ASSUME NEW e \in Account, NEW s \in {"on", "off"}, SwitchAccount(e, s)
      PROVE  LinksTrue'
  BY <1>1, <1>8 DEF SwitchAccount, world
<1> QED
  BY <1>2, <1>3, <1>4, <1>5, <1>6, <1>7, <1>8 DEF Others

LEMMA StepKeepsLinks ==
    ASSUME Typed, LinksTrue, [Next]_vars
    PROVE  LinksTrue'
<1>0. /\ NoFault({"account_deleted"})' => NoFault({"account_deleted"})
      /\ NoAccount \notin Account
  BY NoFaultBefore, MailingAssumption
<1>1. ASSUME NEW m \in Mailing, Load(m)
      PROVE  LinksTrue'
  BY <1>0, <1>1, AfterLoad, LinksKept DEF Given
<1>2. CASE UNCHANGED vars
  BY <1>0, <1>2, LinksKept DEF vars, world, Given
<1> QED
  BY <1>1, <1>2, WorkKeepsLinks, OthersKeepLinks DEF Next

\* Only Pick takes the thread from its choice to a message.
LEMMA SendIsPicked ==
    ASSUME Typed, [Next]_vars, th.step = "pick", th'.step = "send"
    PROVE  \E e \in Account, r \in Recipient : Pick(e, r)
<1>0. TypeOK
  BY DEF Typed
<1>1. CASE Work
  <2>1. ~(Finish \/ Plan \/ PlanFails \/ Record \/ Count \/ Failed \/ SwitchOff
          \/ \E outcome \in Outcome : Send(outcome))
    BY DEF Finish, Plan, PlanFails, Record, Count, Failed, SwitchOff, Send
  <2>2. ~EndPass
    BY ThreadSleeps DEF EndPass
  <2>3. \A e \in Account : ~PickNobody(e)
    BY <1>0, AfterPickNobody
  <2>4. \A e \in Account, r \in Recipient : ~PickGone(e, r)
    BY <1>0, AfterPickGone, ThreadSleeps
  <2> QED
    BY <1>1, <2>1, <2>2, <2>3, <2>4 DEF Work
<1>2. CASE Others
  <2>1. ~Crash
    BY ThreadSleeps DEF Crash
  <2>2. th' = th => FALSE
    OBVIOUS
  <2>3. \A b \in BOOLEAN : th' # [th EXCEPT !.live = b]
    BY <1>0, AfterDelete
  <2> QED
    BY <1>2, <2>1, <2>2, <2>3
       DEF Others, Create, SetStatus, SendFailed, Merge, MakeVIP, Unsubscribe,
           DeleteParty, SwitchAccount, DeleteAccount
<1>3. CASE (\E m \in Mailing : Load(m)) \/ UNCHANGED vars
  BY <1>3 DEF Load, vars
<1> QED
  BY <1>1, <1>2, <1>3 DEF Next

\* A recipient who has opted out is not picked again, unless an account was
\* deleted, which deletes the record of his choice.
THEOREM OptOutsAreKept == Spec => OptOutKept
<1>1. Init => LinksTrue
  BY DEF Init, LinksTrue, LinkIsTrue, Sleeping
<1>2. ASSUME Typed, LinksTrue, [Next]_vars, NoFault({"account_deleted"})',
             th'.step = "send", th.step = "pick"
      PROVE  th'.r \notin optedOut
  <2>1. PICK e \in Account, r \in Recipient : Pick(e, r)
    BY <1>2, SendIsPicked
  <2>2. th'.r = r /\ contact[r].on /\ party[r] # "gone"
    BY <1>2, <2>1, AfterPick DEF Typed
  <2>3. LinkIsTrue(r)
    BY <1>2, NoFaultBefore DEF LinksTrue
  <2> QED
    BY <2>2, <2>3 DEF LinkIsTrue
<1>3. Typed /\ LinksTrue /\ [Next]_vars =>
         LinksTrue' /\ [NoFault({"account_deleted"})' /\ th'.step = "send"
                        /\ th.step = "pick" => th'.r \notin optedOut]_vars
  BY <1>2, StepKeepsLinks
<1> QED
  BY <1>1, <1>3, TypedAlways, PTL DEF Spec, OptOutKept

-----------------------------------------------------------------------------
(***************************************************************************)
(* Nobody gets a message twice.                                            *)
(***************************************************************************)
\* What Once says of the rows and of the messages sent.
OnLists == WaitApart /\ WaitUnsent /\ AtMostOnce

LEMMA ListsStay ==
    ASSUME OnLists, UNCHANGED <<row, sent, letterOf>>,
           \/ th.step # "sent"
           \/ th'.step = "sent" /\ th'.m = th.m /\ th'.r = th.r
    PROVE  OnLists'
<1>1. WaitApart' /\ AtMostOnce'
  BY DEF OnLists, WaitApart, Waits, AtMostOnce
<1>2. WaitUnsent'
  BY DEF OnLists, WaitUnsent, Waits, Unsent, InHand
<1> QED
  BY <1>1, <1>2 DEF OnLists

\* The thread saves lists on which nobody new waits, and the recipient it has
\* just mailed does not wait any more.
LEMMA ListsSaved ==
    ASSUME TypeOK, OnLists, CopyInStep, th.m \in Mailing, th.step # "idle",
           NEW c \in Row, SaveCopy(c), UNCHANGED <<sent, letterOf>>,
           c.rec \cup c.fail \subseteq th.copy.rec \cup th.copy.fail,
           c.rec \cap c.fail = {},
           th.step = "sent" => th.r \notin c.rec \cup c.fail
    PROVE  OnLists' /\ row'[th.m] = c
<1>1. /\ row'[th.m] = c /\ \A m \in Mailing \ {th.m} : row'[m] = row[m]
      /\ row[th.m] = th.copy
  BY DEF SaveCopy, TypeOK, CopyInStep
<1>2. \A m \in Mailing : Waits(m)' \subseteq Waits(m)
  BY <1>1 DEF Waits
<1>3. WaitApart' /\ AtMostOnce'
  BY <1>1, <1>2 DEF OnLists, WaitApart, AtMostOnce
<1>4. ASSUME NEW m \in Mailing, NEW r \in Waits(m)'
      PROVE  Unsent(m, r)'
  <2>1. r \in Waits(m) /\ Unsent(m, r)
    BY <1>2, <1>4 DEF OnLists, WaitUnsent
  <2>2. ~InHand(m, r)
    BY <1>1, <1>4 DEF InHand, Waits
  <2> QED
    BY <2>1, <2>2 DEF Unsent
<1> QED
  BY <1>1, <1>3, <1>4 DEF OnLists, WaitUnsent

\* The thread goes on with its pass.
LEMMA PassGoesOn ==
    ASSUME PassInStep, th.step \notin {"idle", "plan"},
           th'.step \in {"pick", "count"}, th'.pass = th.pass,
           th'.todo \subseteq th.todo,
           \A r \in th.pass : contact'[r].acct \in th'.todo =>
               /\ contact'[r].acct = contact[r].acct
               /\ r \in th.copy.rec => r \in th'.copy.rec,
           th'.step = "count" =>
               /\ th.step \in AtHand /\ th'.r = th.r /\ contact' = contact
    PROVE  PassInStep'
<1>1. \A r \in th'.pass : contact'[r].acct \in th'.todo => r \in th'.copy.rec
  BY DEF PassInStep
<1>2. th'.step \in AtHand => th'.r \in th'.pass /\ contact'[th'.r].acct \notin th'.todo
  BY DEF PassInStep, AtHand
<1> QED
  BY <1>1, <1>2 DEF PassInStep, AtHand

LEMMA Asleep ==
    th' = Sleeping => CopyInStep' /\ PassInStep'
  BY ThreadSleeps DEF CopyInStep, PassInStep, AtHand

\* The hazards that NobodyTwice names.
Doubling == {"overlap", "torn", "lost_reply"}

LEMMA WorkOnce ==
    ASSUME Typed, Once, Work, NoFault(Doubling)'
    PROVE  Once'
<1>0. /\ TypeOK /\ ThreadFits /\ OnLists /\ CopyInStep /\ PassInStep
      /\ th.copy.rec \cap th.copy.fail = {} \/ th.step = "idle"
      /\ th.m \in Mailing \/ th.step = "idle"
      /\ NoAccount \notin Account /\ th.todo \subseteq Account
  BY MailingAssumption
     DEF Typed, Once, OnLists, ThreadFits, WaitApart, CopyInStep, TypeOK, Thread
<1> SUFFICES OnLists' /\ CopyInStep' /\ PassInStep'
  BY DEF Once, OnLists
<1>1. CASE Finish
  <2>1. PICK c \in Row : /\ c.rec = th.copy.rec /\ c.succ = th.copy.succ
                         /\ c.fail = th.copy.fail /\ c.status = "D" /\ SaveCopy(c)
    BY <1>0, <1>1, AfterFinish
  <2>2. th.step = "plan" /\ UNCHANGED <<sent, letterOf>> /\ th' = Sleeping
    BY <1>0, <1>1, AfterFinish
  <2> QED
    BY <1>0, <2>1, <2>2, ListsSaved, Asleep
<1>2. CASE Plan
  <2>1. OnLists'
    BY <1>0, <1>2, AfterPlan, ListsStay
  <2>2. CopyInStep' /\ PassInStep'
    BY <1>0, <1>2, AfterPlan DEF CopyInStep, PassInStep, AtHand
  <2> QED
    BY <2>1, <2>2
<1>3. CASE PlanFails \/ EndPass
  <2>1. /\ UNCHANGED <<row, sent, letterOf>> /\ th' = Sleeping
        /\ th.step # "sent"
    BY <1>0, <1>3, AfterPlanFails DEF EndPass, world
  <2> QED
    BY <1>0, <2>1, ListsStay, Asleep
<1>4. ASSUME NEW e \in Account, PickNobody(e)
      PROVE  OnLists' /\ CopyInStep' /\ PassInStep'
  <2>1. OnLists'
    BY <1>0, <1>4, AfterPickNobody, ListsStay
  <2>2. PassInStep'
    BY <1>0, <1>4, AfterPickNobody, PassGoesOn
  <2>3. CopyInStep'
    BY <1>0, <1>4, AfterPickNobody DEF CopyInStep
  <2> QED
    BY <2>1, <2>2, <2>3
<1>5. ASSUME NEW e \in Account, NEW r \in Recipient, Pick(e, r)
      PROVE  OnLists' /\ CopyInStep' /\ PassInStep'
  <2>1. OnLists'
    BY <1>0, <1>5, AfterPick, ListsStay
  <2>2. PassInStep'
    <3>1. /\ th.step = "pick" /\ th'.step = "send" /\ th'.copy = th.copy
          /\ th'.pass = th.pass /\ th'.todo = th.todo \ {e} /\ th'.r = r
          /\ e \in th.todo /\ r \in th.pass /\ contact[r].acct = e
          /\ contact' = contact
      BY <1>0, <1>5, AfterPick
    <3>2. r \in th.copy.rec
      BY <1>0, <3>1 DEF PassInStep
    <3>3. \A x \in th.pass : contact[x].acct \in th.todo => x \in th.copy.rec
      BY <1>0, <3>1 DEF PassInStep
    <3> QED
      BY <3>1, <3>2, <3>3 DEF PassInStep
  <2>3. CopyInStep'
    BY <1>0, <1>5, AfterPick DEF CopyInStep
  <2> QED
    BY <2>1, <2>2, <2>3
<1>6. ASSUME NEW e \in Account, NEW r \in Recipient, PickGone(e, r)
      PROVE  OnLists' /\ CopyInStep' /\ PassInStep'
  <2>1. th.step = "pick" /\ UNCHANGED <<sent, letterOf>>
    BY <1>0, <1>6, AfterPickGone
  <2>2. CASE th' = Sleeping /\ row' = row
    BY <1>0, <2>1, <2>2, ListsStay, Asleep
  <2>3. ASSUME NEW c \in Row, c.rec = th.copy.rec \ {r}, c.succ = th.copy.succ,
               c.fail = th.copy.fail, SaveCopy(c), th'.copy = c,
               th'.step = "pick", th'.m = th.m, th'.pass = th.pass,
               th'.todo = th.todo \ {e}, contact' = [contact EXCEPT ![r] = NoContact]
        PROVE  OnLists' /\ CopyInStep' /\ PassInStep'
    <3>1. OnLists' /\ row'[th.m] = c
      BY <1>0, <2>1, <2>3, ListsSaved
    <3>2. \A x \in Recipient : contact'[x] = IF x = r THEN NoContact ELSE contact[x]
      BY <1>0, <2>3 DEF TypeOK
    <3>3. contact'[r].acct \notin th'.todo
      BY <1>0, <2>3, <3>2 DEF NoContact
    <3>4. th.pass \subseteq Recipient
      BY <1>0 DEF TypeOK, Thread
    <3>5. PassInStep'
      BY <1>0, <2>1, <2>3, <3>2, <3>3, <3>4, PassGoesOn
    <3> QED
      BY <2>3, <3>1, <3>5 DEF CopyInStep
  <2> QED
    BY <1>0, <1>6, <2>2, <2>3, AfterPickGone
<1>7. ASSUME NEW outcome \in Outcome, Send(outcome)
      PROVE  OnLists' /\ CopyInStep' /\ PassInStep'
  <2>1. /\ th.step = "send" /\ th'.step \in {"sent", "off", "failed"}
        /\ th'.m = th.m /\ th'.copy = th.copy /\ th'.pass = th.pass
        /\ th'.todo = th.todo /\ th'.r = th.r
        /\ UNCHANGED <<row, contact, letterOf>>
    BY <1>0, <1>7, AfterSend
  <2>2. CopyInStep' /\ PassInStep'
    BY <1>0, <2>1 DEF CopyInStep, PassInStep, AtHand
  <2>3. CASE outcome # "sent"
    <3>1. outcome # "lost_reply"
      BY <1>0, <1>7, AfterSend DEF NoFault, Doubling
    <3>2. sent' = sent
      BY <1>0, <1>7, <2>3, <3>1, AfterSend
    <3> QED
      BY <1>0, <2>1, <2>2, <3>2, ListsStay
  <2>4. CASE outcome = "sent"
    <3> DEFINE l == letterOf[th.m]
    <3>1. /\ sent' = [sent EXCEPT ![l][th.r] = @ + 1] /\ th'.step = "sent"
          /\ th.m \in Mailing /\ th.r \in Recipient
      BY <1>0, <1>7, <2>1, <2>4, AfterSend DEF ThreadFits, AtHand
    <3>2. l \in Letter /\ sent[l] \in [Recipient -> 0 .. MaxSent] /\ l = letterOf[th.m]
          /\ letterOf \in [Mailing -> Letter]
      BY <1>0, <3>1, MailingAssumption DEF TypeOK
    <3>3. th.r \in Waits(th.m) /\ ~InHand(th.m, th.r)
      BY <1>0, <2>1, <3>1 DEF CopyInStep, PassInStep, AtHand, Waits, InHand
    <3>4. sent[l][th.r] = 0
      BY <1>0, <3>1, <3>3 DEF OnLists, WaitUnsent, Unsent
    <3>5. \A m \in Mailing : Waits(m)' = Waits(m)
      BY <2>1 DEF Waits
    <3> HIDE DEF l
    <3>6. /\ sent'[l][th.r] = 1
          /\ \A k \in Letter, r \in Recipient :
                k # l \/ r # th.r => sent'[k][r] = sent[k][r]
      BY <1>0, <3>1, <3>2, <3>4 DEF TypeOK
    <3>7. AtMostOnce'
      BY <1>0, <3>1, <3>2, <3>6 DEF OnLists, AtMostOnce
    <3>8. ASSUME NEW m \in Mailing, NEW r \in Waits(m)
          PROVE  Unsent(m, r)'
      <4>0. letterOf[m] \in Letter /\ r \in Recipient
        BY <1>0, <3>2, <3>8 DEF Waits, TypeOK, Row
      <4>1. CASE m = th.m /\ r = th.r
        BY <2>1, <3>1, <3>2, <3>6, <4>1 DEF Unsent, InHand
      <4>2. CASE r # th.r \/ letterOf[m] # l
        <5>1. sent[letterOf[m]][r] = 0
          BY <1>0, <2>1, <3>8 DEF OnLists, WaitUnsent, Unsent, InHand
        <5> QED
          BY <2>1, <3>6, <4>0, <4>2, <5>1 DEF Unsent
      <4>3. r = th.r /\ letterOf[m] = l => m = th.m
        BY <1>0, <3>1, <3>2, <3>3, <3>8 DEF OnLists, WaitApart
      <4> QED
        BY <4>1, <4>2, <4>3
    <3>9. WaitApart' /\ WaitUnsent'
      BY <1>0, <2>1, <3>5, <3>8 DEF OnLists, WaitApart, WaitUnsent
    <3> QED
      BY <2>2, <3>7, <3>9 DEF OnLists
  <2> QED
    BY <2>3, <2>4
<1>8. CASE Record
  <2>1. th.step = "sent" /\ UNCHANGED <<contact, sent, letterOf>>
        /\ th.r \in th.copy.rec
    BY <1>0, <1>8, AfterRecord DEF PassInStep, AtHand
  <2>2. PICK c \in Row : /\ c.rec = th.copy.rec \ {th.r}
                         /\ c.fail = th.copy.fail
                         /\ SaveCopy(c) /\ th'.copy = c
    BY <1>0, <1>8, <2>1, AfterRecord
  <2>3. /\ th'.step = "count" /\ th'.m = th.m /\ th'.pass = th.pass
        /\ th'.todo = th.todo /\ th'.r = th.r
    BY <1>0, <1>8, <2>1, AfterRecord
  <2>4. OnLists' /\ row'[th.m] = c
    BY <1>0, <2>1, <2>2, ListsSaved
  <2>5. th.r \in th.pass /\ contact[th.r].acct \notin th.todo
    BY <1>0, <2>1 DEF PassInStep, AtHand
  <2>6. PassInStep'
    BY <1>0, <2>1, <2>2, <2>3, <2>5, PassGoesOn DEF AtHand
  <2> QED
    BY <2>2, <2>3, <2>4, <2>6 DEF CopyInStep
<1>9. CASE Count
  <2>1. th.copy \in Row
    BY <1>0, CopyTyped
  <2>2. OnLists' /\ row'[th.m] = th.copy
    <3>1. /\ th.step = "count" /\ UNCHANGED <<sent, letterOf>> /\ SaveCopy(th.copy)
      BY <1>0, <1>9, AfterCount
    <3> QED
      BY <1>0, <2>1, <3>1, ListsSaved
  <2>3. PassInStep'
    BY <1>0, <1>9, AfterCount, PassGoesOn
  <2> QED
    BY <1>0, <1>9, <2>2, <2>3, AfterCount DEF CopyInStep
<1>10. CASE Failed
  <2>1. th.step = "failed" /\ UNCHANGED <<contact, sent, letterOf>>
        /\ th.r \in th.copy.rec
    BY <1>0, <1>10, AfterFailed DEF PassInStep, AtHand
  <2>2. PICK c \in Row : /\ c.rec = th.copy.rec \ {th.r}
                         /\ c.fail = th.copy.fail \cup {th.r}
                         /\ SaveCopy(c) /\ th'.copy = c
    BY <1>0, <1>10, <2>1, AfterFailed
  <2>3. /\ th'.step = "pick" /\ th'.m = th.m /\ th'.pass = th.pass
        /\ th'.todo = th.todo
    BY <1>0, <1>10, <2>1, AfterFailed
  <2>4. OnLists' /\ row'[th.m] = c
    BY <1>0, <2>1, <2>2, ListsSaved
  <2>5. th.r \in th.pass /\ contact[th.r].acct \notin th.todo
    BY <1>0, <2>1 DEF PassInStep, AtHand
  <2>6. PassInStep'
    BY <1>0, <2>1, <2>2, <2>3, <2>5, PassGoesOn DEF AtHand
  <2> QED
    BY <2>2, <2>3, <2>4, <2>6 DEF CopyInStep
<1>11. CASE SwitchOff
  <2>1. PICK c \in Row : /\ c.rec = th.copy.rec /\ c.fail = th.copy.fail
                         /\ SaveCopy(c) /\ th'.copy = c
    BY <1>0, <1>11, AfterSwitchOff
  <2>2. th.step = "off" /\ UNCHANGED <<contact, sent, letterOf>>
        /\ th'.step = "pick" /\ th'.m = th.m /\ th'.pass = th.pass
        /\ th'.todo = th.todo
    BY <1>0, <1>11, AfterSwitchOff
  <2>3. OnLists' /\ row'[th.m] = c
    BY <1>0, <2>1, <2>2, ListsSaved
  <2>4. PassInStep'
    BY <1>0, <2>1, <2>2, PassGoesOn
  <2> QED
    BY <2>1, <2>2, <2>3, <2>4 DEF CopyInStep
<1> QED
  BY <1>1, <1>2, <1>3, <1>4, <1>5, <1>6, <1>7, <1>8, <1>9, <1>10, <1>11 DEF Work

\* Nobody changed the mailing in the thread's hands.
LEMMA NotInHand ==
    ASSUME NoFault({"overlap"})', NEW m, Overlap(m) \subseteq faults'
    PROVE  th.m # m
  BY DEF NoFault, Overlap

LEMMA OthersOnce ==
    ASSUME Typed, Once, Others, NoFault(Doubling)'
    PROVE  Once'
<1>0. /\ TypeOK /\ ThreadFits /\ OnLists /\ CopyInStep /\ PassInStep
      /\ th.m \in Mailing \/ th.step = "idle"
      /\ \A m \in Mailing : row[m] \in Row
      /\ th.todo \subseteq Account /\ NoAccount \notin Account
      /\ NoFault({"overlap"})' /\ "torn" \notin faults'
      /\ letterOf \in [Mailing -> Letter]
  BY MailingAssumption
     DEF Typed, Once, OnLists, ThreadFits, TypeOK, Thread, NoFault, Doubling
<1> SUFFICES OnLists' /\ CopyInStep' /\ PassInStep'
  BY DEF Once, OnLists
<1>1. ASSUME UNCHANGED <<th, contact>>, NEW m, th.m # m,
             \A k \in Mailing \ {m} : row'[k] = row[k]
      PROVE  CopyInStep' /\ PassInStep'
  BY <1>0, <1>1 DEF CopyInStep, PassInStep
<1>2. CASE Crash
  <2>1. th' = Sleeping /\ UNCHANGED <<row, sent, letterOf>> /\ th.step # "sent"
    BY <1>0, <1>2 DEF Crash, world
  <2> QED
    BY <1>0, <2>1, ListsStay, Asleep
<1>3. ASSUME NEW m \in Mailing, NEW R \in SUBSET Recipient, Create(m, R)
      PROVE  OnLists' /\ CopyInStep' /\ PassInStep'
  <2>1. /\ th.m # m /\ UNCHANGED <<th, contact, sent, letterOf>>
        /\ row' = [row EXCEPT ![m] = [NoRow EXCEPT !.status = "P", !.rec = R]]
        /\ R \cap Listed(letterOf[m]) = {}
        /\ \A r \in R : sent[letterOf[m]][r] = 0
    BY <1>3 DEF Create, world
  <2>2. /\ \A k \in Mailing \ {m} : row'[k] = row[k] /\ Waits(k)' = Waits(k)
        /\ row'[m].rec = R /\ row'[m].fail = {}
    BY <1>0, <2>1 DEF TypeOK, NoRow, Waits
  <2>3. \A k \in Mailing : letterOf[k] = letterOf[m] => R \cap Waits(k) = {}
    BY <2>1 DEF Listed, Names, Waits
  <2>4. WaitApart'
    BY <1>0, <2>1, <2>2, <2>3 DEF OnLists, WaitApart, Waits
  <2>5. WaitUnsent'
    BY <1>0, <2>1, <2>2 DEF OnLists, WaitUnsent, Waits, Unsent, InHand
  <2> QED
    BY <1>0, <1>1, <2>1, <2>2, <2>4, <2>5 DEF OnLists, AtMostOnce
<1>4. ASSUME NEW m \in Mailing, th.m # m, UNCHANGED <<th, contact, sent, letterOf>>,
             \A k \in Mailing \ {m} : row'[k] = row[k],
             Waits(m)' = Waits(m), row'[m].rec \cap row'[m].fail = {}
      PROVE  OnLists' /\ CopyInStep' /\ PassInStep'
  <2>1. \A k \in Mailing : Waits(k)' = Waits(k)
    BY <1>4 DEF Waits
  <2>2. WaitApart' /\ WaitUnsent' /\ AtMostOnce'
    BY <1>0, <1>4, <2>1
       DEF OnLists, WaitApart, WaitUnsent, AtMostOnce, Unsent, InHand
  <2> QED
    BY <1>1, <1>4, <2>2 DEF OnLists
<1>5. ASSUME NEW m \in Mailing, NEW s \in {"A", "P"}, SetStatus(m, s)
      PROVE  OnLists' /\ CopyInStep' /\ PassInStep'
  <2>1. /\ row' = [row EXCEPT ![m] = [row[m] EXCEPT !.status = s]]
        /\ UNCHANGED <<th, contact, sent, letterOf>> /\ Overlap(m) \subseteq faults'
    BY <1>5 DEF SetStatus, world
  <2>2. /\ row'[m].rec = row[m].rec /\ row'[m].fail = row[m].fail
        /\ \A k \in Mailing \ {m} : row'[k] = row[k]
    BY <1>0, <2>1 DEF TypeOK, Row
  <2> QED
    BY <1>0, <1>4, <2>1, <2>2, NotInHand DEF OnLists, WaitApart, Waits
<1>6. ASSUME NEW m \in Mailing, SendFailed(m)
      PROVE  OnLists' /\ CopyInStep' /\ PassInStep'
  <2>1. /\ row' = [row EXCEPT ![m] = [row[m] EXCEPT !.status = "A",
                                          !.rec = row[m].rec \cup row[m].fail,
                                          !.fail = {}]]
        /\ UNCHANGED <<th, contact, sent, letterOf>> /\ Overlap(m) \subseteq faults'
    BY <1>6 DEF SendFailed
  <2>2. /\ row'[m].rec = row[m].rec \cup row[m].fail /\ row'[m].fail = {}
        /\ \A k \in Mailing \ {m} : row'[k] = row[k]
    BY <1>0, <2>1 DEF TypeOK, Row
  <2> QED
    BY <1>0, <1>4, <2>1, <2>2, NotInHand DEF Waits
<1>7. ASSUME NEW M \in SUBSET Mailing, NEW n \in Mailing, NEW f \in Mailing,
             Merge(M, n, f)
      PROVE  OnLists' /\ CopyInStep' /\ PassInStep'
  <2>1. /\ th.m # n /\ UNCHANGED <<th, contact, sent, letterOf>>
        /\ \A m \in M : row[m].status # "none" /\ letterOf[m] = letterOf[n]
        /\ row[n].status = "none"
        /\ UNION {Overlap(m) : m \in M} \subseteq faults'
        /\ row' = [m \in Mailing |->
                     IF m \in M THEN NoRow
                     ELSE IF m = n
                     THEN [status |-> row[f].status,
                           rec  |-> UNION {row[k].rec : k \in M},
                           succ |-> UNION {row[k].succ : k \in M},
                           fail |-> UNION {row[k].fail : k \in M}]
                     ELSE row[m]]
    BY <1>7 DEF Merge, Exists, world
  <2>2. \A m \in M : th.m # m
    BY <1>0, <2>1, NotInHand
  <2>3. /\ n \notin M
        /\ \A k \in Mailing \ (M \cup {n}) : row'[k] = row[k]
        /\ \A m \in M : row'[m].rec = {} /\ row'[m].fail = {}
        /\ row'[n].rec = UNION {row[k].rec : k \in M}
        /\ row'[n].fail = UNION {row[k].fail : k \in M}
    BY <2>1 DEF NoRow
  <2>4. CopyInStep' /\ PassInStep'
    BY <1>0, <2>1, <2>2, <2>3 DEF CopyInStep, PassInStep
  <2>5. /\ \A k \in Mailing \ (M \cup {n}) : Waits(k)' = Waits(k)
        /\ \A m \in M : Waits(m)' = {}
        /\ \A r : r \in Waits(n)' <=> \E m \in M : r \in Waits(m)
    BY <2>3 DEF Waits
  <2>6. \A k \in Mailing : row'[k].rec \cap row'[k].fail = {}
    <3>1. ASSUME NEW a \in M, NEW b \in M
          PROVE  row[a].rec \cap row[b].fail = {}
      BY <1>0, <2>1, <3>1 DEF OnLists, WaitApart, Waits
    <3>2. row'[n].rec \cap row'[n].fail = {}
      BY <2>3, <3>1
    <3> QED
      BY <1>0, <2>3, <3>2 DEF OnLists, WaitApart
  <2>7. ASSUME NEW k \in Mailing \ (M \cup {n}), letterOf[k] = letterOf[n]
        PROVE  Waits(k)' \cap Waits(n)' = {}
    BY <1>0, <2>1, <2>5, <2>7 DEF OnLists, WaitApart
  <2>8. WaitApart'
    <3>1. ASSUME NEW a \in Mailing, NEW b \in Mailing, a # b,
                 letterOf[a] = letterOf[b]
          PROVE  Waits(a)' \cap Waits(b)' = {}
      <4>1. CASE a \in M \/ b \in M
        BY <2>5, <4>1
      <4>2. CASE a \notin M /\ b \notin M /\ (a = n \/ b = n)
        BY <2>7, <3>1, <4>2
      <4>3. CASE a \notin M \cup {n} /\ b \notin M \cup {n}
        BY <1>0, <2>5, <3>1, <4>3 DEF OnLists, WaitApart
      <4> QED
        BY <4>1, <4>2, <4>3
    <3> QED
      BY <2>1, <2>6, <3>1 DEF WaitApart
  <2>9. ASSUME NEW k \in Mailing, NEW r \in Waits(k)'
        PROVE  Unsent(k, r)'
    <3>1. CASE k = n
      <4>1. PICK m \in M : r \in Waits(m)
        BY <2>5, <2>9, <3>1
      <4>2. sent[letterOf[n]][r] = 0
        BY <1>0, <2>1, <2>2, <4>1 DEF OnLists, WaitUnsent, Unsent, InHand
      <4> QED
        BY <2>1, <3>1, <4>2 DEF Unsent
    <3>2. CASE k # n
      <4>1. r \in Waits(k) /\ Unsent(k, r)
        BY <1>0, <2>5, <2>9, <3>2 DEF OnLists, WaitUnsent
      <4> QED
        BY <2>1, <4>1 DEF Unsent, InHand
    <3> QED
      BY <3>1, <3>2
  <2>10. OnLists'
    BY <1>0, <2>1, <2>8, <2>9 DEF OnLists, WaitUnsent, AtMostOnce
  <2> QED
    BY <2>4, <2>10
<1>8. ASSUME UNCHANGED <<row, sent, letterOf>>,
             th'.step = th.step, th'.m = th.m, th'.copy = th.copy,
             th'.pass = th.pass, th'.todo = th.todo, th'.r = th.r,
             \A r \in th.pass : \/ contact'[r].acct = contact[r].acct
                                \/ contact'[r].acct \notin th.todo
      PROVE  OnLists' /\ CopyInStep' /\ PassInStep'
  <2>1. OnLists'
    BY <1>0, <1>8, ListsStay
  <2> QED
    BY <1>0, <1>8, <2>1 DEF CopyInStep, PassInStep
<1>9. ASSUME NEW r \in Recipient, MakeVIP(r)
      PROVE  OnLists' /\ CopyInStep' /\ PassInStep'
  <2>1. /\ UNCHANGED <<row, th, sent, letterOf>>
        /\ \A x \in Recipient \ {r} : contact'[x] = contact[x]
        /\ r \in th.pass => "overlap" \in faults'
    BY <1>0, <1>9 DEF MakeVIP, TypeOK, world
  <2>2. r \notin th.pass /\ th.pass \subseteq Recipient
    BY <1>0, <2>1 DEF NoFault, TypeOK, Thread
  <2> QED
    BY <1>8, <2>1, <2>2
<1>10. ASSUME NEW r \in Recipient, Unsubscribe(r)
       PROVE  OnLists' /\ CopyInStep' /\ PassInStep'
  <2>1. /\ UNCHANGED <<row, th, sent, letterOf>>
        /\ \/ contact' = contact
           \/ contact' = [contact EXCEPT ![r].on = FALSE]
    BY <1>10 DEF Unsubscribe
  <2>2. \A x \in Recipient : contact'[x].acct = contact[x].acct
    BY <1>0, <2>1 DEF TypeOK, Contact, NoContact
  <2>3. th.pass \subseteq Recipient
    BY <1>0 DEF TypeOK, Thread
  <2> QED
    BY <1>8, <2>1, <2>2, <2>3
<1>11. ASSUME NEW e \in Account, NEW s \in {"on", "off"}, SwitchAccount(e, s)
       PROVE  OnLists' /\ CopyInStep' /\ PassInStep'
  BY <1>8, <1>11 DEF SwitchAccount, world
<1>12. ASSUME UNCHANGED <<row, sent, letterOf>>,
              th' = th \/ \E b \in BOOLEAN : th' = [th EXCEPT !.live = b],
              \A r \in Recipient : contact'[r] \in {contact[r], NoContact}
       PROVE  OnLists' /\ CopyInStep' /\ PassInStep'
  <2>1. /\ th'.step = th.step /\ th'.m = th.m /\ th'.copy = th.copy
        /\ th'.pass = th.pass /\ th'.todo = th.todo /\ th'.r = th.r
    BY <1>0, <1>12, AfterDelete
  <2>2. NoContact.acct \notin th.todo /\ th.pass \subseteq Recipient
    BY <1>0 DEF NoContact, TypeOK, Thread
  <2> QED
    BY <1>8, <1>12, <2>1, <2>2
<1>13. ASSUME NEW r \in Recipient, NEW bulk \in BOOLEAN, DeleteParty(r, bulk)
       PROVE  OnLists' /\ CopyInStep' /\ PassInStep'
  <2>1. /\ UNCHANGED <<row, sent, letterOf>>
        /\ contact' = contact \/ contact' = [contact EXCEPT ![r] = NoContact]
        /\ th' = th \/ th' = [th EXCEPT !.live = @ /\ th.r # r]
    BY <1>13 DEF DeleteParty
  <2>2. \A x \in Recipient : contact'[x] \in {contact[x], NoContact}
    BY <1>0, <2>1 DEF TypeOK
  <2>3. (th.live /\ th.r # r) \in BOOLEAN
    OBVIOUS
  <2> QED
    BY <1>12, <2>1, <2>2, <2>3
<1>14. ASSUME NEW e \in Account, NEW bulk \in BOOLEAN, DeleteAccount(e, bulk)
       PROVE  OnLists' /\ CopyInStep' /\ PassInStep'
  <2> DEFINE R == {r \in Recipient : contact[r].acct = e}
  <2>1. /\ UNCHANGED <<row, sent, letterOf>>
        /\ contact' = [r \in Recipient |-> IF r \in R THEN NoContact ELSE contact[r]]
        /\ th' = [th EXCEPT !.live = @ /\ th.r \notin R]
    BY <1>14 DEF DeleteAccount, world
  <2> HIDE DEF R
  <2>2. (th.live /\ th.r \notin R) \in BOOLEAN
    OBVIOUS
  <2> QED
    BY <1>12, <2>1, <2>2
<1> QED
  BY <1>2, <1>3, <1>5, <1>6, <1>7, <1>9, <1>10, <1>11, <1>13, <1>14 DEF Others

LEMMA OnceStep == Typed /\ OnceTrue /\ [Next]_vars => OnceTrue'
<1> SUFFICES ASSUME Typed, OnceTrue, [Next]_vars, NoFault(Doubling)'
             PROVE  Once'
  BY DEF OnceTrue, Doubling
<1>0. Once
  BY NoFaultBefore DEF OnceTrue, Doubling
<1>1. ASSUME NEW m \in Mailing, Load(m)
      PROVE  Once'
  <2>1. OnLists'
    BY <1>0, <1>1, AfterLoad, ListsStay DEF Once, OnLists
  <2>2. CopyInStep' /\ PassInStep'
    BY <1>1, AfterLoad DEF CopyInStep, PassInStep, AtHand
  <2> QED
    BY <2>1, <2>2 DEF Once, OnLists
<1>2. CASE UNCHANGED vars
  <2>1. UNCHANGED <<row, contact, th, sent, letterOf>>
    BY <1>2 DEF vars, world
  <2>2. OnLists'
    BY <1>0, <2>1, ListsStay DEF Once, OnLists
  <2>3. CopyInStep' /\ PassInStep'
    BY <1>0, <2>1 DEF Once, CopyInStep, PassInStep
  <2> QED
    BY <2>2, <2>3 DEF Once, OnLists
<1> QED
  BY <1>0, <1>1, <1>2, WorkOnce, OthersOnce DEF Next

\* Nobody is sent a message twice, in any number of passes, retries, merges and
\* errors, unless the thread's copy was overtaken, the server was killed between
\* sending and saving, or an answer was lost.
THEOREM NobodyIsMailedTwice == Spec => []NobodyTwice
<1>1. Init => OnceTrue
  <2> SUFFICES ASSUME Init PROVE Once
    BY DEF OnceTrue
  <2>1. CopyInStep /\ PassInStep
    BY DEF Init, CopyInStep, PassInStep, Sleeping, AtHand
  <2>2. \A m \in Mailing : Waits(m) = {} /\ row[m].rec = {}
    BY DEF Init, Waits, NoRow
  <2>3. WaitApart /\ WaitUnsent
    BY <2>2 DEF WaitApart, WaitUnsent
  <2>4. AtMostOnce
    BY DEF Init, AtMostOnce
  <2> QED
    BY <2>1, <2>3, <2>4 DEF Once
<1>2. OnceTrue => NobodyTwice
  BY DEF OnceTrue, Once, AtMostOnce, NobodyTwice
<1> QED
  BY <1>1, <1>2, OnceStep, TypedAlways, PTL DEF Spec
=============================================================================
