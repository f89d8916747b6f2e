--------------------------- MODULE DealFlow_proofs ---------------------------
(***************************************************************************)
(* For any leads, contacts, reminders and worlds: every variable keeps its *)
(* type, a request and its deal stay with the same client, a deal is lost  *)
(* only to a deletion, a deal that is worked on is relevant, and a ticked  *)
(* box has an active reminder behind it, unless a hazard that the property *)
(* names has happened.                                                     *)
(***************************************************************************)
EXTENDS DealFlow, FiniteSetTheorems, TLAPS

-----------------------------------------------------------------------------
(***************************************************************************)
(* The inductive invariants.                                               *)
(***************************************************************************)

\* What the database keeps whatever happens: a deal has a request, a linked
\* request a deal, whom they name is there, a request names one client.
Integral ==
    /\ HasDeal => HasReq
    /\ HasReq /\ req.deal => HasDeal
    /\ \A p \in Party : Names(deal, p) \/ Names(req, p) => rows[p] = "here"
    /\ HasReq => None \in {req.lead, req.contact}

\* A duplicate and its original are two, of one kind.
Paired ==
    task.kind = "remove" =>
        /\ task.from # task.to
        /\ \/ task.from \in Lead /\ task.to \in Lead
           \/ task.from \in Contact /\ task.to \in Contact

Linked == NoFault({"unlinked", "stale_hook"}) /\ HasDeal => req.deal

Half(t) == t.kind = "remove" /\ t.step = "request"
Deleting(t) == t.kind = "remove" /\ t.step = "delete"

\* The request q as it will be when the removal t has moved it.
Due(t, q) == IF Half(t) THEN Moved(q, t.from, t.to) ELSE q

Agree(d, q) == /\ d.lead = q.lead /\ d.contact = q.contact
               /\ {d.lead, d.contact} # {None}

\* A deal attached late to the party that is about to be deleted: only the
\* request was moved, and both go with that party.
Stray(t, d, q) ==
    IF t.from \in Lead
    THEN d.lead = t.from /\ IF q.contact = None THEN d.contact = None
                            ELSE q.lead = None
    ELSE d.lead = None /\ d.contact = t.from /\ q.contact # None

\* Request and deal agree, or will when the removal has gone on; a conversion
\* moves both or none.
Together(t, d, q) ==
    /\ Agree(d, q) \/ Agree(d, Due(t, q)) \/ (Deleting(t) /\ Stray(t, d, q))
    /\ t.kind = "convert" => t.deal = t.req

PartyFault == {"other_kind", "cleared", "unlinked", "mismatch", "relinked",
               "dropped", "stale_hook", "crash"}

InStep == NoFault(PartyFault) /\ HasDeal => Together(task, deal, req)

Within(d, q) == d.lead \in {None, q.lead} /\ d.contact \in {None, q.contact}

\* The deal names nobody but whom its request names, or will name, and nothing
\* that is being removed is left behind.
Confined(t, d, q) ==
    /\ Within(d, Due(t, q))
    /\ Half(t) => ~Names(d, t.from)
    /\ Deleting(t) => ~Names(d, t.from) /\ ~Names(q, t.from)
    /\ t.kind = "convert" => /\ Names(d, t.from) => t.deal
                             /\ Names(q, t.from) => t.req

LossFault == {"other_kind", "cleared", "unlinked", "relinked",
              "attached_late", "dropped", "stale_hook", "crash"}

Safe == NoFault(LossFault) /\ HasDeal => Confined(task, deal, req)

\* The row the web hook holds is as good as the one it has read.
Reasoned ==
    NoFault({"reopened"}) =>
        /\ HasDeal /\ deal.active => deal.relevant
        /\ hook # Gone /\ hook.active => hook.relevant

\* Behind a ticked box is a reminder that the thread is not about to set
\* inactive without unticking the box first.
Backed ==
    HasDeal /\ deal.remind /\ NoFault({"withdrawn", "stale_hook"})
        => \E r \in Reminder : rem[r] = "deal" /\ (sender.hand = r => sender.flag)

-----------------------------------------------------------------------------
(***************************************************************************)
(* Types.                                                                  *)
(***************************************************************************)
LEMMA RowsTyped ==
    ASSUME TypeOK
    PROVE  /\ HasReq => req \in Request
           /\ HasDeal => deal \in Deal
           /\ hook # Gone => hook \in Deal
           /\ task.kind = "convert" => task \in Conversion
           /\ task.kind = "remove" => task \in Removal
           /\ Gone \notin Request /\ Gone \notin Deal /\ Unborn \notin Deal
           /\ Unborn # Gone
<1>1. /\ Gone.row = "gone" /\ Unborn.row = "unborn" /\ Idle.kind = "none"
      /\ \A q \in Request : q.row = "here"
      /\ \A d \in Deal : d.row = "here"
      /\ \A t \in Conversion : t.kind = "convert"
      /\ \A t \in Removal : t.kind = "remove"
  BY DEF Gone, Unborn, Idle, Request, Deal, Conversion, Removal
<1> QED
  BY <1>1 DEF TypeOK, HasReq, HasDeal

\* Where rows may be moved from and to.
Pair(from, to) ==
    \/ from \in Lead /\ to \in Party
    \/ from \in Contact /\ to \in Contact

LEMMA TaskPair ==
    ASSUME TypeOK, Paired, task.kind \in {"convert", "remove"}
    PROVE  /\ Pair(task.from, task.to)
           /\ task.from \in Party /\ task.to \in Party
           /\ task.from # task.to
<1>1. CASE task.kind = "convert"
  BY <1>1, RowsTyped, DealAssumption DEF Conversion, Pair, Party
<1>2. CASE task.kind = "remove"
  BY <1>2, RowsTyped DEF Removal, Pair, Party, Paired
<1> QED
  BY <1>1, <1>2

\* What moving a row does to it.
MovedAs(m, row, from, to) ==
    /\ ~Names(row, from) => m = row
    /\ Names(row, from) =>
         IF from \in Lead
         THEN IF to \in Contact THEN m.lead = None /\ m.contact = to
              ELSE m.lead = to /\ m.contact = row.contact
         ELSE m.lead = row.lead /\ m.contact = to

LEMMA MovedRequest ==
    ASSUME NEW q \in Request, NEW from, NEW to, Pair(from, to)
    PROVE  LET m == Moved(q, from, to)
           IN  m \in Request /\ m.deal = q.deal /\ MovedAs(m, q, from, to)
  BY DealAssumption DEF Moved, MovedAs, Pair, Party, Names, Request

LEMMA MovedDeal ==
    ASSUME NEW d \in Deal, NEW from, NEW to, Pair(from, to)
    PROVE  LET m == Moved(d, from, to)
           IN  /\ m \in Deal
               /\ m.active = d.active /\ m.relevant = d.relevant
               /\ m.remind = d.remind
               /\ MovedAs(m, d, from, to)
  BY DealAssumption DEF Moved, MovedAs, Pair, Party, Names, Deal

LEMMA RequestMoved ==
    ASSUME TypeOK, NEW from, NEW to, Pair(from, to)
    PROVE  LET m == Moved(req, from, to)
           IN  /\ m \in Request \cup {Gone}
               /\ m # Gone <=> HasReq
               /\ m.row = req.row
               /\ HasReq => m.deal = req.deal
               /\ MovedAs(m, req, from, to)
<1>1. CASE HasReq
  <2>1. req.row = "here" /\ Moved(req, from, to).row = "here"
    BY <1>1, RowsTyped, MovedRequest DEF Request
  <2> QED
    BY <1>1, <2>1, RowsTyped, MovedRequest
<1>2. CASE ~HasReq
  BY <1>2, RowsTyped DEF Moved, MovedAs, Names, HasReq, Gone
<1> QED
  BY <1>1, <1>2

LEMMA DealMoved ==
    ASSUME TypeOK, NEW from, NEW to, Pair(from, to)
    PROVE  LET m == Moved(deal, from, to)
           IN  /\ m \in Deal \cup {Unborn, Gone}
               /\ m \in Deal <=> HasDeal
               /\ m.row = deal.row
               /\ HasDeal => m.active = deal.active /\ m.relevant = deal.relevant
                             /\ m.remind = deal.remind
               /\ MovedAs(m, deal, from, to)
<1>1. CASE HasDeal
  <2>1. Moved(deal, from, to).row = "here" /\ deal.row = "here"
    BY <1>1, RowsTyped, MovedDeal DEF Deal
  <2> QED
    BY <1>1, <2>1, RowsTyped, MovedDeal
<1>2. CASE ~HasDeal
  <2>1. Moved(deal, from, to) = deal /\ ~Names(deal, from)
    BY <1>2 DEF Moved, Names, HasDeal
  <2> QED
    BY <1>2, <2>1 DEF MovedAs, TypeOK, HasDeal, Deal
<1> QED
  BY <1>1, <1>2

\* What a deletion leaves.
LEMMA Left ==
    ASSUME NEW R \in [Party -> {"unborn", "here", "gone"}],
           NEW q \in Request \cup {Gone}, NEW d \in Deal \cup {Unborn, Gone},
           Delete(R, q, d)
    PROVE  /\ rows' = R
           /\ req' \in Request \cup {Gone}
           /\ deal' \in {d, Gone}
           /\ req' # Gone => /\ q # Gone /\ req'.deal = q.deal
                             /\ req'.contact = q.contact /\ ~Dead(R, q.contact)
                             /\ req'.lead = IF Dead(R, q.lead) THEN None ELSE q.lead
                             /\ q.deal => ~DealDies(R, d)
           /\ deal'.row = "here" => deal' = d /\ ~DealDies(R, d) /\ req' # Gone
           /\ d.row = "here" /\ deal' = Gone => DealDies(R, d) \/ req' = Gone
           /\ req' = Gone => q = Gone \/ Dead(R, q.contact) \/ DealDies(R, d)
<1>1. Gone.row = "gone" /\ Unborn.row = "unborn" /\ \A c \in Deal : c.row = "here"
  BY DEF Gone, Unborn, Deal
<1>2. \A s \in Request : s.row = "here"
  BY DEF Request
<1> QED
  BY <1>1, <1>2 DEF Delete, ReqAfter, DealAfter, Request, DealDies

\* What the form of the request saves: who was posted, or one who was found.
LEMMA SavedTyped ==
    ASSUME TypeOK, HasReq, NEW post \in Post, NEW s \in Saved(post),
           None \in {post.lead, post.contact}
    PROVE  /\ s \in Request
           /\ None \in {s.lead, s.contact}
           /\ s.deal = post.deal
           /\ {post.lead, post.contact} # {None} =>
                s.lead = post.lead /\ s.contact = post.contact
           /\ post.create => ~s.pending
<1> DEFINE pending == /\ req.pending /\ ~post.create
                      /\ ~(post.duplicate /\ ~req.duplicate)
           q == [row |-> "here", pending |-> pending, duplicate |-> post.duplicate,
                 lead |-> post.lead, contact |-> post.contact, deal |-> post.deal]
<1>1. q \in Request
  <2>1. pending \in BOOLEAN
    OBVIOUS
  <2> HIDE DEF pending
  <2> QED
    BY <2>1 DEF Post, Request, Here
<1>2. s \in Found(q) \cup Created(q) \cup {q}
      /\ ({post.lead, post.contact} # {None} => s = q)
  BY DEF Saved
<1>3. q.deal = post.deal /\ q.lead = post.lead /\ q.contact = post.contact
      /\ (post.create => ~q.pending)
  OBVIOUS
<1> HIDE DEF q
<1>4. CASE s = q
  BY <1>1, <1>3, <1>4
<1>5. CASE {post.lead, post.contact} = {None}
  <2>1. q.lead = None /\ q.contact = None
    BY <1>3, <1>5
  <2>2. CASE \E c \in Contact : s = [q EXCEPT !.contact = c]
    BY <1>1, <1>3, <1>5, <2>1, <2>2 DEF Request
  <2>3. CASE \E l \in Lead : s = [q EXCEPT !.lead = l]
    BY <1>1, <1>3, <1>5, <2>1, <2>3 DEF Request
  <2> QED
    BY <1>2, <1>4, <2>2, <2>3 DEF Found, Created, Here
<1> QED
  BY <1>2, <1>4, <1>5

\* The request and the deal after the form of the request.
LEMMA RequestSubmitted ==
    ASSUME TypeOK, HasReq, NEW post \in Post, NEW s \in Saved(post),
           SubmitRequest(post, s)
    PROVE  LET makes == post.create /\ ~post.deal /\ ~post.duplicate
           IN  /\ req' \in Request /\ req'.lead = s.lead /\ req'.contact = s.contact
               /\ req'.pending = s.pending
               /\ req'.deal = (post.deal \/ makes)
               /\ HasDeal /\ req'.deal =>
                    /\ deal' \in Deal
                    /\ deal'.lead = IF post.lead # req.lead /\ s.lead # None
                                    THEN s.lead ELSE deal.lead
                    /\ deal'.contact = IF post.contact # req.contact /\ s.contact # None
                                       THEN s.contact ELSE deal.contact
                    /\ deal'.active = deal.active /\ deal'.relevant = deal.relevant
                    /\ deal'.remind = deal.remind
               /\ ~HasDeal /\ req'.deal =>
                    /\ makes /\ deal # Gone /\ deal' \in Deal
                    /\ deal'.lead = s.lead /\ deal'.contact = s.contact
                    /\ deal'.active /\ deal'.relevant /\ ~deal'.remind
               /\ ~req'.deal => deal' = deal
<1> DEFINE makes == post.create /\ ~post.deal /\ ~post.duplicate
           q == [s EXCEPT !.deal = post.deal \/ makes]
<1>1. /\ s \in Request /\ None \in {s.lead, s.contact} /\ s.deal = post.deal
  BY SavedTyped DEF SubmitRequest
<1>2. /\ post \in [duplicate : BOOLEAN, create : BOOLEAN, lead : Lead \cup {None},
                   contact : Contact \cup {None}, deal : BOOLEAN]
      /\ post.deal => HasDeal
  BY DEF Post, Here
<1>3. makes \in BOOLEAN /\ (post.deal \/ makes) \in BOOLEAN
  OBVIOUS
<1>4. q \in Request /\ q.lead = s.lead /\ q.contact = s.contact
      /\ q.pending = s.pending /\ q.deal = (post.deal \/ makes)
  <2> HIDE DEF makes
  <2> QED
    BY <1>1, <1>3 DEF Request
<1>5. req' = q /\ (makes => deal # Gone)
      /\ deal' = LET d == IF makes /\ ~HasDeal THEN NewDeal(q) ELSE deal
                 IN  IF q.deal THEN Follow(post, q, d) ELSE d
  BY DEF SubmitRequest
<1> HIDE DEF q, makes
<1>6. CASE HasDeal
  <2>1. deal \in Deal
    BY <1>6, RowsTyped
  <2> QED
    BY <1>2, <1>4, <1>5, <1>6, <2>1 DEF Follow, Deal, Request, makes
<1>7. CASE ~HasDeal /\ makes
  <2>1. /\ NewDeal(q) \in Deal /\ NewDeal(q).lead = q.lead
        /\ NewDeal(q).contact = q.contact /\ NewDeal(q).active
        /\ NewDeal(q).relevant /\ ~NewDeal(q).remind
    BY <1>1, <1>4 DEF NewDeal, Deal, Request
  <2> QED
    BY <1>4, <1>5, <1>7, <2>1 DEF Follow, Deal, Request, makes
<1>8. CASE ~HasDeal /\ ~makes
  BY <1>2, <1>4, <1>5, <1>8 DEF makes
<1> QED
  BY <1>6, <1>7, <1>8

\* The deal after its own form.
LEMMA DealSubmitted ==
    ASSUME TypeOK, HasDeal, NEW post \in DealPost, NEW R \in SUBSET Reminder,
           SubmitDeal(post, R)
    PROVE  /\ post \in Deal /\ deal' \in Deal
           /\ deal' = Closed(post)
           /\ deal'.lead = post.lead /\ deal'.contact = post.contact
           /\ deal'.remind = post.remind
           /\ \A p \in Party : Names(post, p) => rows[p] = "here"
<1>1. post \in Deal /\ deal \in Deal
      /\ {post.lead, post.contact} \subseteq Here(Party) \cup {None}
  BY RowsTyped DEF DealPost
<1>2. deal' = Closed(post)
  BY DEF SubmitDeal
<1>3. /\ Closed(post) \in Deal /\ Closed(post).lead = post.lead
      /\ Closed(post).contact = post.contact /\ Closed(post).remind = post.remind
  BY <1>1 DEF Closed, Deal
<1>4. ASSUME NEW p \in Party, Names(post, p)
      PROVE  rows[p] = "here"
  BY <1>1, <1>4, DealAssumption DEF Names, Here, Party
<1> QED
  BY <1>1, <1>2, <1>3, <1>4

\* The end of a conversion: the rows that were locked are moved, and what is
\* still attached to the lead goes with it.
ConvertedDeal == IF task.deal THEN Moved(deal, task.from, task.to) ELSE deal
ConvertedReq == IF task.req THEN Moved(req, task.from, task.to) ELSE req
WithoutDuplicate == [rows EXCEPT ![task.from] = "gone", ![task.to] = "here"]

LEMMA WithoutDuplicateTyped ==
    ASSUME TypeOK, Paired, task.kind \in {"convert", "remove"}
    PROVE  /\ WithoutDuplicate \in [Party -> {"unborn", "here", "gone"}]
           /\ WithoutDuplicate[task.from] = "gone" /\ WithoutDuplicate[task.to] = "here"
           /\ \A p \in Party \ {task.from, task.to} : WithoutDuplicate[p] = rows[p]
  BY TaskPair DEF WithoutDuplicate, TypeOK

LEMMA Converted ==
    ASSUME TypeOK, Paired, FinishConvert
    PROVE  /\ ConvertedReq \in Request \cup {Gone}
           /\ ConvertedDeal \in Deal \cup {Unborn, Gone}
           /\ Delete(WithoutDuplicate, ConvertedReq, ConvertedDeal)
           /\ task.kind = "convert" /\ task' = Idle
<1>1. Pair(task.from, task.to) /\ task.kind = "convert"
  BY TaskPair DEF FinishConvert
<1>2. req \in Request \cup {Gone} /\ deal \in Deal \cup {Unborn, Gone}
  BY DEF TypeOK
<1> QED
  BY <1>1, <1>2, RequestMoved, DealMoved
     DEF FinishConvert, ConvertedReq, ConvertedDeal, WithoutDuplicate

LEMMA SenderTyped == Asleep \in Sender /\ Died \in Sender
  BY DEF Asleep, Died, Sender

LEMMA FaultsTyped == TypeOK /\ [Next]_vars => faults' \subseteq Fault
<1> SUFFICES ASSUME TypeOK, [Next]_vars PROVE faults' \subseteq Fault
  OBVIOUS
<1>1. faults \subseteq Fault
  BY DEF TypeOK
<1>2. ASSUME NEW F, F \in Fault, NEW c PROVE If(c, F) \subseteq Fault
  BY <1>2 DEF If
<1>3. /\ "other_kind" \in Fault /\ "cleared" \in Fault /\ "unlinked" \in Fault
      /\ "mismatch" \in Fault /\ "relinked" \in Fault /\ "attached_late" \in Fault
      /\ "dropped" \in Fault /\ "stale_hook" \in Fault /\ "reopened" \in Fault
      /\ "withdrawn" \in Fault /\ "orphan" \in Fault /\ "crash" \in Fault
  BY DEF Fault
<1>4. ASSUME NEW post \in Post, NEW s \in Saved(post), SubmitRequest(post, s)
      PROVE  faults' \subseteq Fault
  BY <1>1, <1>2, <1>3, <1>4 DEF SubmitRequest
<1>5. ASSUME NEW post \in DealPost, NEW R \in SUBSET Reminder, SubmitDeal(post, R)
      PROVE  faults' \subseteq Fault
  BY <1>1, <1>2, <1>3, <1>5 DEF SubmitDeal
<1>6. CASE DeleteRequest \/ DeleteDeal \/ FinishConvert \/ DeleteDuplicate \/ HookSave
           \/ Crash
  BY <1>1, <1>2, <1>3, <1>6
     DEF DeleteRequest, DeleteDeal, FinishConvert, DeleteDuplicate, HookSave, Crash
<1>7. ASSUME NEW p \in Party, DeleteParty(p)
      PROVE  faults' \subseteq Fault
  BY <1>1, <1>2, <1>3, <1>7 DEF DeleteParty
<1>8. ASSUME NEW r \in Reminder, Withdraw(r)
      PROVE  faults' \subseteq Fault
  BY <1>1, <1>3, <1>8 DEF Withdraw
<1>9. CASE UNCHANGED faults
  BY <1>1, <1>9
<1> QED
  BY <1>4, <1>5, <1>6, <1>7, <1>8, <1>9
     DEF Next, StartConvert, AbortConvert, StartRemove, RelateDeal, RelateRequest,
         HookRead, AddReminder, Remind, Untick, SetInactive, Restart, vars

LEMMA StepTyped == TypeOK /\ Paired /\ [Next]_vars => TypeOK'
<1> SUFFICES ASSUME TypeOK, Paired, [Next]_vars PROVE TypeOK'
  OBVIOUS
<1> USE FaultsTyped
<1> DEFINE Rest == /\ world \in Worlds
                   /\ rows \in [Party -> {"unborn", "here", "gone"}]
                   /\ rem \in [Reminder -> {None, "deal"} \cup Lead]
                   /\ task \in {Idle} \cup Conversion \cup Removal
                   /\ hook \in Deal \cup {Gone}
                   /\ sender \in Sender
                   /\ req \in Request \cup {Gone}
                   /\ deal \in Deal \cup {Unborn, Gone}
<1>0. Rest
  BY DEF TypeOK
<1>1. ASSUME NEW post \in Post, NEW s \in Saved(post), HasReq, SubmitRequest(post, s)
      PROVE  TypeOK'
  <2>1. req' \in Request /\ deal' \in Deal \cup {Unborn, Gone}
    BY <1>1, RequestSubmitted, RowsTyped DEF TypeOK
  <2>2. rows' \in [Party -> {"unborn", "here", "gone"}]
    BY <1>0, <1>1 DEF SubmitRequest
  <2> QED
    BY <1>1, <2>1, <2>2 DEF SubmitRequest, TypeOK
<1>2. CASE DeleteRequest \/ DeleteDeal
  BY <1>2 DEF DeleteRequest, DeleteDeal, TypeOK
<1>3. ASSUME NEW post \in DealPost, NEW R \in SUBSET Reminder, HasDeal,
             SubmitDeal(post, R)
      PROVE  TypeOK'
  <2>1. deal' \in Deal
    BY <1>3, DealSubmitted
  <2>2. rem' \in [Reminder -> {None, "deal"} \cup Lead]
    BY <1>0, <1>3 DEF SubmitDeal
  <2> QED
    BY <1>3, <2>1, <2>2 DEF SubmitDeal, TypeOK
<1>4. ASSUME NEW p \in Party, DeleteParty(p)
      PROVE  TypeOK'
  <2>1. [rows EXCEPT ![p] = "gone"] \in [Party -> {"unborn", "here", "gone"}]
    BY <1>0
  <2> QED
    BY <1>0, <1>4, <2>1, Left DEF DeleteParty, TypeOK
<1>5. ASSUME NEW l \in Lead, NEW c \in Contact, StartConvert(l, c)
      PROVE  TypeOK'
  BY <1>5 DEF StartConvert, TypeOK, Conversion, Names
<1>6. CASE FinishConvert
  BY <1>0, <1>6, Converted, WithoutDuplicateTyped, Left DEF FinishConvert, TypeOK
<1>7. CASE AbortConvert
  BY <1>7 DEF AbortConvert, TypeOK
<1>8. ASSUME NEW dup \in Party, NEW orig \in Party, StartRemove(dup, orig)
      PROVE  TypeOK'
  BY <1>8 DEF StartRemove, TypeOK, Removal
<1>9. CASE RelateDeal \/ RelateRequest
  <2>1. task \in Removal /\ Pair(task.from, task.to)
    BY <1>9, RowsTyped, TaskPair DEF RelateDeal, RelateRequest
  <2>2. task' \in {Idle} \cup Removal
    BY <1>9, <2>1 DEF RelateDeal, RelateRequest, Removal
  <2>3. req' \in Request \cup {Gone} /\ deal' \in Deal \cup {Unborn, Gone}
    BY <1>0, <1>9, <2>1, RequestMoved, DealMoved DEF RelateDeal, RelateRequest
  <2> QED
    BY <1>0, <1>9, <2>2, <2>3 DEF RelateDeal, RelateRequest, TypeOK
<1>10. CASE DeleteDuplicate
  <2>1. /\ Delete(WithoutDuplicate, req, deal)
        /\ task.kind = "remove" /\ task' = Idle
    BY <1>10 DEF DeleteDuplicate, WithoutDuplicate
  <2> QED
    BY <1>0, <1>10, <2>1, WithoutDuplicateTyped, Left DEF DeleteDuplicate, TypeOK
<1>11. CASE HookRead
  BY <1>11, RowsTyped DEF HookRead, TypeOK
<1>12. CASE HookSave
  BY <1>12, RowsTyped DEF HookSave, TypeOK
<1>13. ASSUME NEW r \in Reminder, NEW o \in Lead \cup {"deal"}, AddReminder(r, o)
       PROVE  TypeOK'
  BY <1>13 DEF AddReminder, TypeOK
<1>14. ASSUME NEW r \in Reminder, Withdraw(r)
       PROVE  TypeOK'
  BY <1>14 DEF Withdraw, TypeOK
<1>15. ASSUME NEW r \in Reminder, Remind(r)
       PROVE  TypeOK'
  <2>1. HasDeal => deal.remind \in BOOLEAN
    BY RowsTyped DEF Deal
  <2>2. sender' \in Sender
    BY <1>0, <1>15, <2>1 DEF Remind, Sender
  <2> QED
    BY <1>15, <2>2 DEF Remind, TypeOK
<1>16. CASE Untick
  <2>1. deal' \in Deal \cup {Unborn, Gone}
    BY <1>0, <1>16, RowsTyped DEF Untick, Deal
  <2>2. sender' \in Sender
    BY <1>0, <1>16, SenderTyped DEF Untick, Sender
  <2> QED
    BY <1>16, <2>1, <2>2 DEF Untick, TypeOK
<1>17. CASE SetInactive
  <2>1. sender' \in Sender
    BY <1>17, SenderTyped DEF SetInactive
  <2> QED
    BY <1>17, <2>1 DEF SetInactive, TypeOK
<1>18. CASE Restart \/ Crash
  BY <1>18, SenderTyped DEF Restart, Crash, TypeOK
<1>19. CASE UNCHANGED vars
  BY <1>19 DEF vars, TypeOK
<1> QED
  BY <1>1, <1>2, <1>3, <1>4, <1>5, <1>6, <1>7, <1>8, <1>9, <1>10, <1>11, <1>12,
     <1>13, <1>14, <1>15, <1>16, <1>17, <1>18, <1>19 DEF Next

LEMMA StepPaired == TypeOK /\ Paired /\ [Next]_vars => Paired'
<1> SUFFICES ASSUME TypeOK, Paired, [Next]_vars PROVE Paired'
  OBVIOUS
<1>1. ASSUME NEW dup \in Party, NEW orig \in Party, StartRemove(dup, orig)
      PROVE  Paired'
  BY <1>1 DEF StartRemove, Paired
<1>2. CASE RelateDeal \/ RelateRequest
  BY <1>2, RowsTyped DEF RelateDeal, RelateRequest, Paired, Idle, Removal
<1>3. CASE task' \in {Idle, task} \/ task'.kind = "convert"
  BY <1>3 DEF Paired, Idle
<1>4. ASSUME NEW l \in Lead, NEW c \in Contact, StartConvert(l, c)
      PROVE  Paired'
  BY <1>3, <1>4 DEF StartConvert
<1>5. ASSUME NEW post, NEW s, SubmitRequest(post, s)
      PROVE  Paired'
  BY <1>3, <1>5 DEF SubmitRequest
<1>6. ASSUME NEW post, NEW R, SubmitDeal(post, R)
      PROVE  Paired'
  BY <1>3, <1>6 DEF SubmitDeal
<1> QED
  BY <1>1, <1>2, <1>3, <1>4, <1>5, <1>6
     DEF Next, DeleteRequest, DeleteDeal, DeleteParty, FinishConvert, AbortConvert,
         DeleteDuplicate, HookRead, HookSave, AddReminder, Withdraw, Remind, Untick,
         SetInactive, Restart, Crash, vars

\* Every variable keeps its type, and a removal has two parties of one kind,
\* for any leads, contacts, reminders and worlds.
THEOREM TypeCorrect == Spec => [](TypeOK /\ Paired)
<1>1. Init => TypeOK /\ Paired
  <2> SUFFICES ASSUME Init PROVE TypeOK /\ Paired
    OBVIOUS
  <2>1. req \in Request
    BY DEF Init, Request, Here
  <2>2. sender \in Sender
    BY DEF Init, Sender, Asleep
  <2> QED
    BY <2>1, <2>2 DEF Init, TypeOK, Paired, Idle
<1> QED
  BY <1>1, StepTyped, StepPaired, PTL DEF Spec

-----------------------------------------------------------------------------
(***************************************************************************)
(* What the database keeps.                                                *)
(***************************************************************************)
Ready == TypeOK /\ Paired /\ Integral

LEMMA AtMostOne ==
    ASSUME Ready, HasReq
    PROVE  /\ req \in Request
           /\ req.lead = None \/ req.contact = None
           /\ \A p \in Party : Names(req, p) <=> (p = req.lead \/ p = req.contact)
  BY RowsTyped DEF Ready, Integral, Names, Request

\* Who is named is there, so a party that is gone is named by nobody.
LEMMA NamedIsHere ==
    ASSUME Ready, NEW p \in Party, rows[p] # "here"
    PROVE  ~Names(deal, p) /\ ~Names(req, p)
  BY DEF Ready, Integral

\* A request that has been moved names one client still.
LEMMA MovedToOne ==
    ASSUME Ready, HasReq, NEW from \in Party, NEW to \in Party, Pair(from, to)
    PROVE  LET m == Moved(req, from, to) IN None \in {m.lead, m.contact}
<1> DEFINE m == Moved(req, from, to)
<1>1. MovedAs(m, req, from, to)
  BY RequestMoved DEF Ready
<1>2. req.lead \in Lead \cup {None} /\ req.contact \in Contact \cup {None}
      /\ (req.lead = None \/ req.contact = None)
      /\ (Names(req, from) <=> (from = req.lead \/ from = req.contact))
  BY AtMostOne DEF Request
<1> HIDE DEF m
<1>3. ~Names(req, from) => None \in {m.lead, m.contact}
  BY <1>1, <1>2 DEF MovedAs
<1>4. Names(req, from) => None \in {m.lead, m.contact}
  BY <1>1, <1>2, DealAssumption DEF MovedAs, Pair, Party
<1> QED
  BY <1>3, <1>4 DEF m

\* A deletion that leaves the parties R, after the rows were moved to q and d,
\* whose parties were there or are taken along.
LEMMA DeleteIntegral ==
    ASSUME NEW R \in [Party -> {"unborn", "here", "gone"}],
           NEW q \in Request \cup {Gone}, NEW d \in Deal \cup {Unborn, Gone},
           Delete(R, q, d),
           q # Gone /\ q.deal => d.row = "here",
           q # Gone => None \in {q.lead, q.contact}
    PROVE  Integral'
<1>0. /\ \A c \in Request : c.row = "here"
      /\ \A c \in Deal : c.row = "here"
      /\ Gone.row = "gone" /\ Unborn.row = "unborn"
      /\ None \notin Party
  BY DealAssumption DEF Request, Deal, Gone, Unborn, Party
<1>1. HasDeal' => HasReq'
  BY Left DEF HasDeal, HasReq
<1>2. HasReq' /\ req'.deal => HasDeal'
  BY <1>0, Left DEF HasDeal, HasReq
<1>3. ASSUME NEW p \in Party, Names(deal, p)' \/ Names(req, p)'
      PROVE  rows'[p] = "here"
  <2>1. CASE Names(deal, p)'
    BY <1>0, <2>1, Left DEF Names, DealDies, Dead
  <2>2. CASE Names(req, p)'
    BY <1>0, <2>2, Left DEF Names, Dead
  <2> QED
    BY <1>3, <2>1, <2>2
<1>4. HasReq' => None \in {req'.lead, req'.contact}
  BY Left DEF HasReq
<1> QED
  BY <1>1, <1>2, <1>3, <1>4 DEF Integral

LEMMA StepIntegral == Ready /\ [Next]_vars => Integral'
<1> SUFFICES ASSUME Ready, [Next]_vars PROVE Integral'
  OBVIOUS
<1>0. TypeOK /\ Paired /\ Integral /\ TypeOK'
  BY StepTyped DEF Ready
<1>a. Gone.row = "gone" /\ Unborn.row = "unborn" /\ None \notin Party
  BY DealAssumption DEF Gone, Unborn, Party
<1>b. req \in Request \cup {Gone} /\ deal \in Deal \cup {Unborn, Gone}
  BY <1>0 DEF TypeOK
<1>1. ASSUME NEW post \in Post, NEW s \in Saved(post), HasReq, SubmitRequest(post, s)
      PROVE  Integral'
  <2>1. /\ req' \in Request /\ HasReq' /\ None \in {req'.lead, req'.contact}
    <3>1. req' \in Request /\ req'.lead = s.lead /\ req'.contact = s.contact
      BY <1>0, <1>1, RequestSubmitted
    <3>2. None \in {s.lead, s.contact}
      BY <1>0, <1>1, SavedTyped DEF SubmitRequest
    <3> QED
      BY <1>0, <3>1, <3>2, RowsTyped DEF HasReq
  <2>2. req'.deal => HasDeal'
    BY <1>0, <1>1, RequestSubmitted DEF HasDeal, Deal
  <2>3. ASSUME NEW p \in Party, Names(req, p)'
        PROVE  rows'[p] = "here"
    BY <1>1, <2>3 DEF SubmitRequest, Names
  <2>4. ASSUME NEW p \in Party, Names(deal, p)'
        PROVE  rows'[p] = "here"
    <3>1. rows[p] = "here" => rows'[p] = "here"
      BY <1>1 DEF SubmitRequest
    <3>2. Names(deal, p) \/ p \in {s.lead, s.contact}
      BY <1>0, <1>1, <2>4, RequestSubmitted, RowsTyped DEF Names, HasDeal, Deal
    <3>3. p \in {s.lead, s.contact} => Names(req, p)'
      BY <1>0, <1>1, RequestSubmitted DEF Names, Request
    <3> QED
      BY <1>0, <2>3, <3>1, <3>2, <3>3 DEF Integral
  <2> QED
    BY <2>1, <2>2, <2>3, <2>4 DEF Integral
<1>2. CASE DeleteRequest \/ DeleteDeal
  BY <1>0, <1>a, <1>2, RowsTyped
     DEF DeleteRequest, DeleteDeal, Integral, HasReq, HasDeal, Names
<1>3. ASSUME NEW post \in DealPost, NEW R \in SUBSET Reminder, HasDeal,
             SubmitDeal(post, R)
      PROVE  Integral'
  <2>1. UNCHANGED <<rows, req>> /\ deal'.row = "here" /\ post.row = "here"
        /\ deal'.lead = post.lead /\ deal'.contact = post.contact
        /\ \A p \in Party : Names(post, p) => rows[p] = "here"
    BY <1>0, <1>3, DealSubmitted DEF SubmitDeal, Deal
  <2> QED
    BY <1>0, <1>3, <2>1 DEF Integral, HasReq, HasDeal, Names
<1>4. ASSUME NEW p \in Party, DeleteParty(p)
      PROVE  Integral'
  <2>1. [rows EXCEPT ![p] = "gone"] \in [Party -> {"unborn", "here", "gone"}]
    BY <1>0 DEF TypeOK
  <2> QED
    BY <1>0, <1>b, <1>4, <2>1, DeleteIntegral DEF DeleteParty, Integral, HasReq, HasDeal
<1>5. CASE FinishConvert
  <2>1. /\ Pair(task.from, task.to) /\ task.from \in Party /\ task.to \in Party
    BY <1>0, <1>5, TaskPair DEF FinishConvert
  <2>2. ConvertedReq # Gone => /\ HasReq /\ ConvertedReq.deal = req.deal
                               /\ None \in {ConvertedReq.lead, ConvertedReq.contact}
    BY <1>0, <2>1, RequestMoved, MovedToOne DEF ConvertedReq, Integral, HasReq
  <2>3. ConvertedDeal.row = deal.row
    BY <1>0, <2>1, DealMoved DEF ConvertedDeal
  <2> QED
    BY <1>0, <1>5, <2>2, <2>3, Converted, WithoutDuplicateTyped, DeleteIntegral
       DEF Integral, HasDeal, HasReq
<1>6. CASE RelateDeal
  <2>1. /\ Pair(task.from, task.to) /\ task.from \in Party /\ task.to \in Party
    BY <1>0, <1>6, TaskPair DEF RelateDeal
  <2>2. /\ UNCHANGED <<req, rows>> /\ deal'.row = deal.row
        /\ deal' = deal \/ (deal' = Moved(deal, task.from, task.to)
                            /\ (Names(deal, task.from) => rows[task.to] = "here"))
    BY <1>0, <1>6, <2>1, DealMoved DEF RelateDeal
  <2>3. ASSUME NEW p \in Party, Names(deal, p)'
        PROVE  Names(deal, p) \/ rows[p] = "here"
    BY <1>0, <1>a, <2>1, <2>2, <2>3, DealMoved DEF MovedAs, Names
  <2> QED
    BY <1>0, <2>2, <2>3 DEF Integral, HasDeal, HasReq, Names
<1>7. CASE RelateRequest
  <2>1. /\ Pair(task.from, task.to) /\ task.from \in Party /\ task.to \in Party
    BY <1>0, <1>7, TaskPair DEF RelateRequest
  <2>2. /\ UNCHANGED <<deal, rows>> /\ req'.row = req.row
        /\ HasReq' <=> HasReq
        /\ HasReq => req'.deal = req.deal
        /\ req' = req \/ (req' = Moved(req, task.from, task.to)
                            /\ (Names(req, task.from) => rows[task.to] = "here"))
    BY <1>0, <1>7, <2>1, RequestMoved DEF RelateRequest, HasReq
  <2>3. ASSUME NEW p \in Party, Names(req, p)'
        PROVE  Names(req, p) \/ rows[p] = "here"
    BY <1>0, <1>a, <2>1, <2>2, <2>3, RequestMoved DEF MovedAs, Names
  <2>4. HasReq => None \in {req'.lead, req'.contact}
    BY <1>0, <2>1, <2>2, MovedToOne DEF Integral
  <2> QED
    BY <1>0, <2>2, <2>3, <2>4 DEF Integral, HasDeal, HasReq, Names
<1>8. CASE DeleteDuplicate
  <2>1. /\ Delete(WithoutDuplicate, req, deal)
        /\ task.kind = "remove" /\ task' = Idle
    BY <1>8 DEF DeleteDuplicate, WithoutDuplicate
  <2> QED
    BY <1>0, <1>b, <2>1, WithoutDuplicateTyped, DeleteIntegral
       DEF Integral, HasReq, HasDeal
<1>9. CASE HookSave
  <2>1. CASE HasReq /\ ~Dead(rows, hook.lead) /\ ~Dead(rows, hook.contact)
    <3>1. deal' = hook /\ hook \in Deal /\ UNCHANGED <<rows, req>>
      BY <1>0, <1>9, <2>1, RowsTyped DEF HookSave
    <3>2. HasDeal'
      BY <3>1 DEF HasDeal, Deal
    <3> QED
      BY <1>0, <1>a, <2>1, <3>1, <3>2 DEF Integral, HasReq, Names, Dead
  <2>2. CASE ~(HasReq /\ ~Dead(rows, hook.lead) /\ ~Dead(rows, hook.contact))
    BY <1>0, <1>9, <2>2 DEF HookSave, Integral, HasReq, HasDeal, Names
  <2> QED
    BY <2>1, <2>2
<1>10. CASE Untick
  <2>1. UNCHANGED <<rows, req>> /\ deal'.row = deal.row
        /\ (HasDeal => deal'.lead = deal.lead /\ deal'.contact = deal.contact)
    BY <1>0, <1>10, RowsTyped DEF Untick, Deal, HasDeal
  <2> QED
    BY <1>0, <2>1 DEF Integral, HasReq, HasDeal, Names
<1>11. CASE UNCHANGED <<rows, req, deal>>
  BY <1>0, <1>11 DEF Integral, HasReq, HasDeal, Names
<1> QED
  BY <1>1, <1>2, <1>3, <1>4, <1>5, <1>6, <1>7, <1>8, <1>9, <1>10, <1>11
     DEF Next, StartConvert, AbortConvert, StartRemove, HookRead, AddReminder,
         Withdraw, Remind, SetInactive, Restart, Crash, vars

LEMMA InitIntegral == Init => Integral
<1> SUFFICES ASSUME Init PROVE Integral
  OBVIOUS
<1>1. deal.row = "unborn" /\ req.row = "here" /\ ~req.deal
  BY DEF Init, Unborn
<1>2. ASSUME NEW p \in Party, Names(req, p)
      PROVE  rows[p] = "here"
  BY <1>2, DealAssumption DEF Init, Names, Here, Party
<1> QED
  BY <1>1, <1>2 DEF Init, Integral, HasDeal, HasReq, Names

\* A deal has a request and a linked request a deal, whom they name is there,
\* and a request names one client, whatever is deleted, moved or written back.
THEOREM DatabaseIntegral == Spec => []Integral
<1>1. Ready /\ [Next]_vars => Integral'
  BY StepIntegral
<1>2. Ready <=> (TypeOK /\ Paired) /\ Integral
  BY DEF Ready
<1> QED
  BY <1>1, <1>2, InitIntegral, TypeCorrect, PTL DEF Spec

-----------------------------------------------------------------------------
(***************************************************************************)
(* Hazards that have not happened yet.                                     *)
(***************************************************************************)
LEMMA FaultsStay == [Next]_vars => faults \subseteq faults'
<1> SUFFICES ASSUME [Next]_vars PROVE faults \subseteq faults'
  OBVIOUS
<1>1. ASSUME NEW post, NEW s, SubmitRequest(post, s)
      PROVE  faults \subseteq faults'
  BY <1>1 DEF SubmitRequest
<1>2. ASSUME NEW post, NEW R, SubmitDeal(post, R)
      PROVE  faults \subseteq faults'
  BY <1>2 DEF SubmitDeal
<1> QED
  BY <1>1, <1>2
     DEF Next, DeleteRequest, DeleteDeal, DeleteParty, StartConvert, FinishConvert,
         AbortConvert, StartRemove, RelateDeal, RelateRequest, DeleteDuplicate,
         HookRead, HookSave, AddReminder, Withdraw, Remind, Untick, SetInactive,
         Restart, Crash, vars

LEMMA NotYet ==
    ASSUME [Next]_vars, NEW F, faults' \cap F = {}
    PROVE  NoFault(F)
  BY FaultsStay DEF NoFault

\* The hazards that the form of the request is answerable for.
LEMMA RequestFaults ==
    ASSUME NEW post, NEW s, SubmitRequest(post, s)
    PROVE  /\ req.deal /\ ~post.deal => "unlinked" \in faults'
           /\ {req.lead, req.contact} # {None} /\ {post.lead, post.contact} = {None}
                => "cleared" \in faults'
           /\ req.lead # None /\ post.contact # None => "other_kind" \in faults'
           /\ req.contact # None /\ post.lead # None => "other_kind" \in faults'
           /\ ~req'.pending /\ {req'.lead, req'.contact} = {None}
                => "mismatch" \in faults'
           /\ task # Idle /\ (Names(req', task.from) \/ Names(deal', task.from))
                => "attached_late" \in faults'
<1>1. {req.lead, req.contact} # {None} => {req.lead, req.contact} \ {None} # {}
  OBVIOUS
<1> QED
  BY <1>1 DEF SubmitRequest, If, Late

-----------------------------------------------------------------------------
(***************************************************************************)
(* A deal belongs to its request.                                          *)
(***************************************************************************)
LEMMA StepLinked == Ready /\ Linked /\ [Next]_vars => Linked'
<1> SUFFICES ASSUME Ready, Linked, [Next]_vars, HasDeal',
                    faults' \cap {"unlinked", "stale_hook"} = {}
             PROVE  req'.deal
  BY DEF Linked, NoFault
<1>0. TypeOK /\ Paired /\ Integral /\ (HasDeal => req.deal)
  BY NotYet DEF Ready, Linked
<1>a. req \in Request \cup {Gone} /\ deal \in Deal \cup {Unborn, Gone}
  BY <1>0 DEF TypeOK
<1>b. Gone.row = "gone"
  BY DEF Gone
<1>1. ASSUME NEW post \in Post, NEW s \in Saved(post), HasReq, SubmitRequest(post, s)
      PROVE  req'.deal
  <2>1. HasDeal => post.deal
    BY <1>0, <1>1, RequestFaults
  <2>2. post.deal => req'.deal
    BY <1>0, <1>1, RequestSubmitted
  <2>3. ~HasDeal /\ ~req'.deal => deal' = deal
    BY <1>0, <1>1, RequestSubmitted
  <2> QED
    BY <2>1, <2>2, <2>3 DEF HasDeal
<1>2. CASE DeleteRequest \/ DeleteDeal
  BY <1>2, <1>b DEF DeleteRequest, DeleteDeal, HasDeal
<1>3. ASSUME NEW post \in DealPost, NEW R \in SUBSET Reminder, HasDeal,
             SubmitDeal(post, R)
      PROVE  req'.deal
  BY <1>0, <1>3 DEF SubmitDeal
<1>4. ASSUME NEW p \in Party, DeleteParty(p)
      PROVE  req'.deal
  <2>1. [rows EXCEPT ![p] = "gone"] \in [Party -> {"unborn", "here", "gone"}]
    BY <1>0 DEF TypeOK
  <2> QED
    BY <1>0, <1>a, <1>4, <2>1, Left DEF DeleteParty, HasDeal
<1>5. CASE FinishConvert
  <2>1. /\ Pair(task.from, task.to)
    BY <1>0, <1>5, TaskPair DEF FinishConvert
  <2>2. ConvertedDeal.row = deal.row
    BY <1>0, <2>1, DealMoved DEF ConvertedDeal
  <2>3. HasReq => ConvertedReq.deal = req.deal
    BY <1>0, <2>1, RequestMoved DEF ConvertedReq
  <2> QED
    BY <1>0, <1>5, <2>2, <2>3, Converted, WithoutDuplicateTyped, Left
       DEF Integral, HasDeal, HasReq
<1>6. CASE RelateDeal
  <2>1. deal'.row = deal.row /\ req' = req
    BY <1>0, <1>6, TaskPair, DealMoved DEF RelateDeal
  <2> QED
    BY <1>0, <2>1 DEF HasDeal
<1>7. CASE RelateRequest
  <2>1. deal' = deal /\ (HasReq => req'.deal = req.deal)
    BY <1>0, <1>7, TaskPair, RequestMoved DEF RelateRequest
  <2> QED
    BY <1>0, <2>1 DEF HasDeal, Integral
<1>8. CASE DeleteDuplicate
  <2>1. /\ Delete(WithoutDuplicate, req, deal)
        /\ task.kind = "remove" /\ task' = Idle
    BY <1>8 DEF DeleteDuplicate, WithoutDuplicate
  <2> QED
    BY <1>0, <1>a, <2>1, WithoutDuplicateTyped, Left DEF HasDeal
<1>9. CASE HookSave
  <2>1. deal' = deal /\ req' = req
    BY <1>9 DEF HookSave, If
  <2> QED
    BY <1>0, <2>1 DEF HasDeal
<1>10. CASE Untick
  <2>1. deal'.row = deal.row /\ req' = req
    BY <1>0, <1>10, RowsTyped DEF Untick, Deal, HasDeal
  <2> QED
    BY <1>0, <2>1 DEF HasDeal
<1>11. CASE UNCHANGED <<req, deal>>
  BY <1>0, <1>11 DEF HasDeal
<1> QED
  BY <1>1, <1>2, <1>3, <1>4, <1>5, <1>6, <1>7, <1>8, <1>9, <1>10, <1>11
     DEF Next, StartConvert, AbortConvert, StartRemove, HookRead, AddReminder,
         Withdraw, Remind, SetInactive, Restart, Crash, vars

-----------------------------------------------------------------------------
(***************************************************************************)
(* A deal that is worked on is relevant.                                   *)
(***************************************************************************)

\* Steps that do not touch the columns a property of the deal reads.
KeepsStatus ==
    \/ deal' = deal
    \/ deal'.row # "here"
    \/ HasDeal /\ deal'.active = deal.active /\ deal'.relevant = deal.relevant
       /\ deal'.remind = deal.remind

Deletes ==
    \/ DeleteRequest \/ DeleteDeal \/ (\E p \in Party : DeleteParty(p))
    \/ FinishConvert \/ RelateDeal \/ RelateRequest \/ DeleteDuplicate

LEMMA DeletesKeepStatus ==
    ASSUME Ready, Deletes
    PROVE  KeepsStatus /\ UNCHANGED <<rem, sender, hook>>
<1>0. TypeOK /\ Paired /\ Integral
  BY DEF Ready
<1>a. req \in Request \cup {Gone} /\ deal \in Deal \cup {Unborn, Gone}
  BY <1>0 DEF TypeOK
<1>b. Gone.row = "gone"
  BY DEF Gone
<1>2. CASE DeleteRequest \/ DeleteDeal
  BY <1>2, <1>b DEF DeleteRequest, DeleteDeal, KeepsStatus
<1>4. ASSUME NEW p \in Party, DeleteParty(p)
      PROVE  KeepsStatus /\ UNCHANGED <<rem, sender, hook>>
  <2>1. [rows EXCEPT ![p] = "gone"] \in [Party -> {"unborn", "here", "gone"}]
    BY <1>0 DEF TypeOK
  <2> QED
    BY <1>a, <1>b, <1>4, <2>1, Left DEF DeleteParty, KeepsStatus
<1>5. CASE FinishConvert
  <2>1. Pair(task.from, task.to)
    BY <1>0, <1>5, TaskPair DEF FinishConvert
  <2>2. /\ ConvertedDeal.row = deal.row
        /\ HasDeal => /\ ConvertedDeal.active = deal.active
                      /\ ConvertedDeal.relevant = deal.relevant
                      /\ ConvertedDeal.remind = deal.remind
    BY <1>0, <2>1, DealMoved DEF ConvertedDeal
  <2>3. deal' = Gone \/ deal' = ConvertedDeal
    BY <1>0, <1>5, Converted, WithoutDuplicateTyped, Left
  <2> QED
    BY <1>5, <1>b, <2>2, <2>3 DEF FinishConvert, KeepsStatus, HasDeal
<1>6. CASE RelateDeal
  <2>1. Pair(task.from, task.to)
    BY <1>0, <1>6, TaskPair DEF RelateDeal
  <2>2. deal' \in {deal, Moved(deal, task.from, task.to)}
        /\ UNCHANGED <<rem, sender, hook>>
    BY <1>6 DEF RelateDeal
  <2> QED
    BY <1>0, <2>1, <2>2, DealMoved DEF KeepsStatus, HasDeal
<1>7. CASE RelateRequest
  BY <1>7 DEF RelateRequest, KeepsStatus
<1>8. CASE DeleteDuplicate
  <2>1. /\ Delete(WithoutDuplicate, req, deal)
        /\ task.kind = "remove" /\ UNCHANGED <<rem, sender, hook>>
    BY <1>8 DEF DeleteDuplicate, WithoutDuplicate
  <2> QED
    BY <1>0, <1>a, <1>b, <2>1, WithoutDuplicateTyped, Left DEF KeepsStatus
<1> QED
  BY <1>2, <1>4, <1>5, <1>6, <1>7, <1>8 DEF Deletes

LEMMA StepReasoned == Ready /\ Reasoned /\ [Next]_vars => Reasoned'
<1> SUFFICES ASSUME Ready, Reasoned, [Next]_vars, faults' \cap {"reopened"} = {}
             PROVE  /\ HasDeal' /\ deal'.active => deal'.relevant
                    /\ hook' # Gone /\ hook'.active => hook'.relevant
  BY DEF Reasoned, NoFault
<1> DEFINE Good == /\ HasDeal' /\ deal'.active => deal'.relevant
                   /\ hook' # Gone /\ hook'.active => hook'.relevant
<1>0. /\ TypeOK
      /\ HasDeal /\ deal.active => deal.relevant
      /\ hook # Gone /\ hook.active => hook.relevant
  BY NotYet DEF Ready, Reasoned
<1>1. ASSUME NEW post \in Post, NEW s \in Saved(post), HasReq, SubmitRequest(post, s)
      PROVE  Good
  <2>1. hook' = hook
    BY <1>1 DEF SubmitRequest
  <2>2. deal' = deal \/ (HasDeal /\ deal'.active = deal.active
                         /\ deal'.relevant = deal.relevant)
        \/ deal'.relevant
    BY <1>0, <1>1, RequestSubmitted
  <2> QED
    BY <1>0, <2>1, <2>2 DEF HasDeal
<1>2. ASSUME NEW post \in DealPost, NEW R \in SUBSET Reminder, HasDeal,
             SubmitDeal(post, R)
      PROVE  Good
  <2> DEFINE activated == IF post.closed # deal.closed THEN ~post.closed
                          ELSE post.active
             rel == post.relevant \/ (post.active # deal.active /\ activated)
             stays == activated /\ ~(post.relevant # deal.relevant /\ ~rel)
  <2>1. deal' = [post EXCEPT !.active = stays, !.relevant = rel]
    BY <1>2 DEF SubmitDeal, Closed
  <2>2. post \in Deal /\ deal \in Deal
    BY <1>0, <1>2, RowsTyped, DealSubmitted
  <2>3. hook' = hook /\ (deal.closed /\ ~post.closed => deal.relevant)
    BY <1>2 DEF SubmitDeal, If
  <2>4. /\ post.active \in BOOLEAN /\ post.relevant \in BOOLEAN /\ post.closed \in BOOLEAN
        /\ deal.active \in BOOLEAN /\ deal.relevant \in BOOLEAN /\ deal.closed \in BOOLEAN
        /\ (deal.active => deal.relevant)
    BY <1>0, <1>2, <2>2 DEF Deal
  <2>5. stays => rel
    BY <2>3, <2>4
  <2> HIDE DEF stays, rel
  <2>6. deal'.active = stays /\ deal'.relevant = rel
    BY <2>1, <2>2 DEF Deal
  <2> QED
    BY <1>0, <2>3, <2>5, <2>6
<1>3. CASE Deletes
  BY <1>0, <1>3, DeletesKeepStatus DEF KeepsStatus, HasDeal
<1>4. CASE HookRead
  BY <1>0, <1>4 DEF HookRead, HasDeal
<1>5. CASE HookSave
  BY <1>0, <1>5 DEF HookSave, HasDeal
<1>6. CASE Untick
  <2>1. hook' = hook /\ (HasDeal => deal'.active = deal.active
                                    /\ deal'.relevant = deal.relevant)
        /\ (~HasDeal => deal' = deal)
    BY <1>0, <1>6, RowsTyped DEF Untick, Deal
  <2> QED
    BY <1>0, <2>1 DEF HasDeal
<1>7. CASE deal' = deal /\ hook' \in {hook, Gone}
  BY <1>0, <1>7 DEF HasDeal
<1> QED
  BY <1>1, <1>2, <1>3, <1>4, <1>5, <1>6, <1>7
     DEF Next, Deletes, StartConvert, AbortConvert, StartRemove, AddReminder,
         Withdraw, Remind, SetInactive, Restart, Crash, vars

LEMMA ReadyAlways == Spec => []Ready
<1>1. Ready <=> (TypeOK /\ Paired) /\ Integral
  BY DEF Ready
<1> QED
  BY <1>1, TypeCorrect, DatabaseIntegral, PTL

\* A deal that is worked on is relevant, for any form posted and any row the
\* web hook writes back, unless a deal given up was reopened by its reason.
THEOREM WorkedOnIsRelevant == Spec => []ActiveIsRelevant
<1>1. Init => Reasoned
  BY DEF Init, Reasoned, HasDeal, Unborn
<1>2. Reasoned => ActiveIsRelevant
  BY DEF Reasoned, ActiveIsRelevant
<1> QED
  BY <1>1, <1>2, StepReasoned, ReadyAlways, PTL DEF Spec

-----------------------------------------------------------------------------
(***************************************************************************)
(* Behind a ticked box is a reminder.                                      *)
(***************************************************************************)
Witnessed(r) == rem[r] = "deal" /\ (sender.hand = r => sender.flag)

LEMMA StepBacked == Ready /\ Backed /\ [Next]_vars => Backed'
<1> SUFFICES ASSUME Ready, Backed, [Next]_vars, HasDeal', deal'.remind,
                    faults' \cap {"withdrawn", "stale_hook"} = {}
             PROVE  \E r \in Reminder : Witnessed(r)'
  BY DEF Backed, NoFault, Witnessed
<1>0. /\ TypeOK
      /\ HasDeal /\ deal.remind => \E r \in Reminder : Witnessed(r)
  BY NotYet DEF Ready, Backed, Witnessed
<1>a. /\ rem \in [Reminder -> {None, "deal"} \cup Lead] /\ sender \in Sender
      /\ None \notin Reminder /\ None # "deal" /\ "deal" \notin Lead
  BY <1>0, DealAssumption DEF TypeOK
<1>b. KeepsStatus => HasDeal /\ deal.remind
  BY DEF KeepsStatus, HasDeal
<1>1. CASE KeepsStatus /\ UNCHANGED <<rem, sender>>
  BY <1>0, <1>1, <1>b DEF Witnessed
<1>2. ASSUME NEW post \in Post, NEW s \in Saved(post), HasReq, SubmitRequest(post, s)
      PROVE  \E r \in Reminder : Witnessed(r)'
  <2>1. KeepsStatus
    BY <1>0, <1>2, RequestSubmitted DEF KeepsStatus
  <2> QED
    BY <1>1, <1>2, <2>1 DEF SubmitRequest
<1>3. ASSUME NEW post \in DealPost, NEW R \in SUBSET Reminder, HasDeal,
             SubmitDeal(post, R)
      PROVE  \E r \in Reminder : Witnessed(r)'
  <2>1. post.remind /\ sender' = sender
    BY <1>0, <1>3, DealSubmitted DEF SubmitDeal
  <2>2. CASE deal.remind
    <3>1. R = {}
      BY <1>3, <2>1, <2>2 DEF SubmitDeal, RemindMe, Ticked, Unticked
    <3>2. \A r \in Reminder : rem'[r] = rem[r]
      BY <1>3, <3>1 DEF SubmitDeal
    <3> QED
      BY <1>0, <1>3, <2>1, <2>2, <3>2 DEF Witnessed
  <2>3. CASE ~deal.remind
    <3>1. R \subseteq Free /\ Cardinality(R) = 1
      BY <1>3, <2>1, <2>3 DEF SubmitDeal, RemindMe, Ticked
    <3>2. Cardinality({}) = 0
      BY FS_EmptySet
    <3>3. PICK r \in R : r \in Free
      BY <3>1, <3>2
    <3>4. r \in Reminder /\ rem'[r] = "deal" /\ sender.hand # r
      BY <1>3, <2>1, <3>3 DEF SubmitDeal, Free
    <3> QED
      BY <2>1, <3>4 DEF Witnessed
  <2> QED
    BY <2>2, <2>3
<1>4. CASE Deletes
  BY <1>0, <1>1, <1>4, DeletesKeepStatus
<1>5. CASE HookSave
  BY <1>1, <1>5 DEF HookSave, If, KeepsStatus
<1>6. ASSUME NEW r \in Reminder, NEW o \in Lead \cup {"deal"}, AddReminder(r, o)
      PROVE  \E k \in Reminder : Witnessed(k)'
  <2>1. deal' = deal /\ sender' = sender /\ rem' = [rem EXCEPT ![r] = o] /\ rem[r] = None
    BY <1>6 DEF AddReminder, Free
  <2>2. PICK k \in Reminder : Witnessed(k)
    BY <1>0, <2>1 DEF HasDeal
  <2>3. k # r
    BY <1>a, <2>1, <2>2 DEF Witnessed
  <2> QED
    BY <1>a, <2>1, <2>2, <2>3 DEF Witnessed
<1>7. ASSUME NEW r \in Reminder, Withdraw(r)
      PROVE  FALSE
  BY <1>7 DEF Withdraw
<1>8. ASSUME NEW r \in Reminder, Remind(r)
      PROVE  \E k \in Reminder : Witnessed(k)'
  <2>1. deal' = deal /\ rem' = rem /\ sender.hand = None
    BY <1>8 DEF Remind
  <2>2. HasDeal /\ deal.remind
    BY <2>1 DEF HasDeal
  <2>3. PICK k \in Reminder : Witnessed(k)
    BY <1>0, <2>2
  <2>4. CASE k # r
    <3>1. sender'.hand \in {r, None}
      BY <1>8, <1>a, <2>1 DEF Remind, Sender
    <3> QED
      BY <1>a, <2>1, <2>3, <2>4, <3>1 DEF Witnessed
  <2>5. CASE k = r
    <3>1. sender' = [sender EXCEPT !.hand = r, !.flag = deal.remind]
      BY <1>8, <2>2, <2>3, <2>5 DEF Remind, Witnessed
    <3>2. sender'.flag = deal.remind
      BY <1>a, <3>1 DEF Sender
    <3> QED
      BY <2>1, <2>2, <2>3, <2>5, <3>2 DEF Witnessed
  <2> QED
    BY <2>4, <2>5
<1>9. CASE Untick
  <2>1. ~(HasDeal /\ ~deal'.remind)
    OBVIOUS
  <2>2. CASE HasDeal
    <3>1. deal' = [deal EXCEPT !.remind = FALSE] /\ deal \in Deal
      BY <1>0, <1>9, <2>2, RowsTyped DEF Untick
    <3> QED
      BY <3>1 DEF Deal
  <2>3. CASE ~HasDeal
    BY <1>9, <2>3 DEF Untick, HasDeal
  <2> QED
    BY <2>2, <2>3
<1>10. CASE SetInactive
  <2>1. /\ deal' = deal /\ rem' = [rem EXCEPT ![sender.hand] = None]
        /\ sender.hand # None /\ ~sender.flag /\ sender' \in {Asleep, Died}
    BY <1>10 DEF SetInactive
  <2>2. PICK k \in Reminder : Witnessed(k)
    BY <1>0, <2>1 DEF HasDeal
  <2>3. k # sender.hand /\ sender'.hand = None
    BY <2>1, <2>2 DEF Witnessed, Asleep, Died
  <2>4. rem'[k] = "deal"
    BY <1>a, <2>1, <2>2, <2>3 DEF Witnessed
  <2> QED
    BY <1>a, <2>3, <2>4 DEF Witnessed
<1>11. CASE Restart \/ Crash
  <2>1. deal' = deal /\ rem' = rem /\ sender' = Asleep
    BY <1>11 DEF Restart, Crash
  <2>2. Asleep.hand = None
    BY DEF Asleep
  <2> QED
    BY <1>0, <1>a, <2>1, <2>2 DEF Witnessed, HasDeal
<1>12. CASE UNCHANGED <<deal, rem, sender>>
  BY <1>1, <1>12 DEF KeepsStatus
<1> QED
  BY <1>2, <1>3, <1>4, <1>5, <1>6, <1>7, <1>8, <1>9, <1>10, <1>11, <1>12
     DEF Next, Deletes, StartConvert, AbortConvert, StartRemove, HookRead, vars

\* Behind a ticked box is an active reminder, for any number of reminders,
\* unless one was withdrawn or the web hook wrote the box back.
THEOREM TickedIsReminded == Spec => []FlagMeansReminder
<1>1. Init => Backed
  BY DEF Init, Backed, HasDeal, Unborn
<1>2. Backed => FlagMeansReminder
  BY DEF Backed, FlagMeansReminder
<1> QED
  BY <1>1, <1>2, StepBacked, ReadyAlways, PTL DEF Spec

-----------------------------------------------------------------------------
(***************************************************************************)
(* The request and its deal stay with the same client.                     *)
(***************************************************************************)
LEMMA DealTyped ==
    ASSUME NEW d \in Deal
    PROVE  /\ d.row = "here"
           /\ d.lead \in Lead \cup {None} /\ d.contact \in Contact \cup {None}
           /\ \A p : Names(d, p) <=> p \in {d.lead, d.contact}
  BY DEF Deal, Names

LEMMA RequestTyped ==
    ASSUME NEW q \in Request
    PROVE  /\ q.row = "here"
           /\ q.lead \in Lead \cup {None} /\ q.contact \in Contact \cup {None}
           /\ \A p : Names(q, p) <=> p \in {q.lead, q.contact}
  BY DEF Request, Names

\* The deal is moved to whom its request is moved.
LEMMA MovedAgree ==
    ASSUME NEW d \in Deal, NEW q \in Request, Agree(d, q), NEW from, NEW to,
           Pair(from, to)
    PROVE  Agree(Moved(d, from, to), Moved(q, from, to))
<1>1. /\ MovedAs(Moved(d, from, to), d, from, to)
      /\ MovedAs(Moved(q, from, to), q, from, to)
  BY MovedDeal, MovedRequest
<1>2. Names(d, from) <=> Names(q, from)
  BY DealTyped, RequestTyped DEF Agree
<1>3. to # None
  BY DealAssumption DEF Pair, Party
<1> QED
  BY <1>1, <1>2, <1>3 DEF MovedAs, Agree

\* Who may be posted without a hazard: the same kind of client as before, or
\* anybody when there was none.
LEMMA Posted ==
    ASSUME Ready, HasReq, NEW post \in Post, NEW s \in Saved(post),
           SubmitRequest(post, s),
           "cleared" \notin faults', "other_kind" \notin faults'
    PROVE  /\ s.lead \in Lead \cup {None} /\ s.contact \in Contact \cup {None}
           /\ s.lead = None \/ s.contact = None
           /\ post.lead = None \/ post.contact = None
           /\ post.lead # None => s.lead = post.lead
           /\ post.contact # None => s.contact = post.contact
           /\ req.lead # None => /\ post.lead # None /\ post.contact = None
                                 /\ s.lead = post.lead /\ s.contact = None
           /\ req.contact # None => /\ post.contact # None /\ post.lead = None
                                    /\ s.contact = post.contact /\ s.lead = None
<1>1. /\ s \in Request /\ None \in {s.lead, s.contact}
      /\ {post.lead, post.contact} # {None} =>
           s.lead = post.lead /\ s.contact = post.contact
      /\ None \in {post.lead, post.contact}
  BY SavedTyped DEF SubmitRequest, Ready
<1>2. /\ {req.lead, req.contact} # {None} => {post.lead, post.contact} # {None}
      /\ req.lead # None => post.contact = None
      /\ req.contact # None => post.lead = None
  BY RequestFaults
<1> QED
  BY <1>1, <1>2, RequestTyped

\* A lead that is deleted is the request's own only when it is that lead.
LEMMA LeadKept ==
    ASSUME Ready, HasReq, NEW p \in Party, req.lead # p
    PROVE  ~Dead([rows EXCEPT ![p] = "gone"], req.lead)
<1>1. CASE req.lead = None
  BY <1>1 DEF Dead
<1>2. CASE req.lead # None
  <2>1. req.lead \in Party /\ rows[req.lead] = "here"
    BY <1>2, AtMostOne, RequestTyped DEF Ready, Integral, Party
  <2> QED
    BY <2>1 DEF Dead, Ready, TypeOK
<1> QED
  BY <1>1, <1>2

\* What the deletion of a party leaves of a deal and its request.
LEMMA PartyDeleted ==
    ASSUME Ready, NEW p \in Party, DeleteParty(p), HasDeal'
    PROVE  /\ HasDeal /\ HasReq /\ deal' = deal /\ req' \in Request
           /\ req'.deal = req.deal /\ req'.contact = req.contact
           /\ req'.lead = IF req.lead = p THEN None ELSE req.lead
           /\ ~Names(deal, p) /\ req.contact # p
           /\ Half(task) => p # task.from \/ "dropped" \in faults'
<1> DEFINE R == [rows EXCEPT ![p] = "gone"]
<1>1. R \in [Party -> {"unborn", "here", "gone"}] /\ R[p] = "gone"
      /\ p # None
  BY DealAssumption DEF Ready, TypeOK, Party
<1>2. Delete(R, req, deal) /\ req \in Request \cup {Gone}
      /\ deal \in Deal \cup {Unborn, Gone}
  BY DEF DeleteParty, Ready, TypeOK
<1>3. Half(task) /\ p = task.from => "dropped" \in faults'
  BY DEF DeleteParty, If, Half, Halfway
<1> HIDE DEF R
<1>4. /\ HasDeal /\ HasReq /\ deal' = deal /\ req' \in Request
      /\ ~DealDies(R, deal) /\ ~Dead(R, req.contact)
      /\ req'.deal = req.deal /\ req'.contact = req.contact
      /\ req'.lead = IF Dead(R, req.lead) THEN None ELSE req.lead
  BY <1>1, <1>2, Left DEF HasDeal, HasReq
<1>5. ~Names(deal, p) /\ req.contact # p
  BY <1>1, <1>4 DEF DealDies, Dead, Names
<1>6. Dead(R, req.lead) <=> req.lead = p
  BY <1>1, <1>4, LeadKept DEF R, Dead
<1> QED
  BY <1>3, <1>4, <1>5, <1>6

LEMMA InitTogether == Init => InStep /\ Safe /\ Linked
  BY DEF Init, InStep, Safe, Linked, HasDeal, Unborn

\* The form of the request keeps them together.
LEMMA SubmitTogether ==
    ASSUME Ready, HasReq, NEW post \in Post, NEW s \in Saved(post),
           SubmitRequest(post, s), HasDeal',
           HasDeal => req.deal /\ Together(task, deal, req),
           faults' \cap PartyFault = {}
    PROVE  Together(task, deal', req')
<1>0. /\ TypeOK /\ Paired /\ Integral
      /\ "cleared" \notin faults' /\ "other_kind" \notin faults'
      /\ "unlinked" \notin faults' /\ "mismatch" \notin faults'
  BY DEF Ready, PartyFault
<1>1. /\ req' \in Request /\ req'.lead = s.lead /\ req'.contact = s.contact
      /\ req'.pending = s.pending
  BY <1>0, RequestSubmitted
<1>2. req'.deal /\ (HasDeal => post.deal)
  BY <1>0, RequestFaults, RequestSubmitted DEF HasDeal
<1>3. task.kind = "convert" => task.deal = task.req
  <2> SUFFICES ASSUME task.kind = "convert" PROVE task.deal = FALSE /\ task.req = FALSE
    OBVIOUS
  <2>1. task.deal \in BOOLEAN /\ task.req \in BOOLEAN
    BY <1>0, RowsTyped DEF Conversion
  <2>2. ~task.deal /\ ~task.req
    <3>1. ~ReqLocked /\ (req'.deal => ~DealLocked)
      BY DEF SubmitRequest
    <3> QED
      BY <1>2, <3>1 DEF DealLocked, ReqLocked
  <2> QED
    BY <2>1, <2>2
<1>4. CASE ~HasDeal
  <2>1. deal'.lead = s.lead /\ deal'.contact = s.contact /\ post.create
    BY <1>0, <1>2, <1>4, RequestSubmitted
  <2>2. ~s.pending
    BY <1>0, <2>1, SavedTyped DEF SubmitRequest
  <2>3. {s.lead, s.contact} # {None}
    BY <1>0, <1>1, <2>2, RequestFaults
  <2> QED
    BY <1>1, <1>3, <2>1, <2>3 DEF Together, Agree
<1>5. CASE HasDeal
  <2>1. /\ deal'.lead = IF post.lead # req.lead /\ s.lead # None
                        THEN s.lead ELSE deal.lead
        /\ deal'.contact = IF post.contact # req.contact /\ s.contact # None
                           THEN s.contact ELSE deal.contact
        /\ deal' \in Deal
    BY <1>0, <1>2, <1>5, RequestSubmitted
  <2>2. /\ s.lead \in Lead \cup {None} /\ s.contact \in Contact \cup {None}
        /\ s.lead = None \/ s.contact = None
        /\ post.lead = None \/ post.contact = None
        /\ post.lead # None => s.lead = post.lead
        /\ post.contact # None => s.contact = post.contact
        /\ req.lead # None => /\ post.lead # None /\ post.contact = None
                              /\ s.lead = post.lead /\ s.contact = None
        /\ req.contact # None => /\ post.contact # None /\ post.lead = None
                                 /\ s.contact = post.contact /\ s.lead = None
    BY <1>0, Posted
  <2>3. /\ req \in Request /\ (req.lead = None \/ req.contact = None)
        /\ req.lead \in Lead \cup {None} /\ req.contact \in Contact \cup {None}
    BY AtMostOne, RequestTyped
  <2>4. CASE Agree(deal, req)
    <3>1. Agree(deal', req')
      BY <1>1, <2>1, <2>2, <2>3, <2>4 DEF Agree
    <3> QED
      BY <1>3, <3>1 DEF Together
  <2>5. CASE Half(task) /\ Agree(deal, Moved(req, task.from, task.to))
             /\ ~Agree(deal, req)
    <3>1. /\ Pair(task.from, task.to) /\ task.from \in Party
          /\ (task.from \in Lead => task.to \in Lead)
      BY <1>0, <2>5, TaskPair, DealAssumption DEF Half, Paired
    <3>2. /\ MovedAs(Moved(req, task.from, task.to), req, task.from, task.to)
          /\ MovedAs(Moved(req', task.from, task.to), req', task.from, task.to)
      BY <1>1, <2>3, <3>1, MovedRequest
    <3>3. Names(req, task.from)
      BY <2>5, <3>2 DEF MovedAs
    <3>4. \/ task.from \in Lead /\ req.lead = task.from
          \/ task.from \in Contact /\ req.contact = task.from
      BY <2>3, <3>1, <3>3, RequestTyped, DealAssumption DEF Party
    <3>5. Names(req', task.from) <=> task.from \in {s.lead, s.contact}
      BY <1>1, RequestTyped
    <3>6. CASE post.lead = req.lead /\ post.contact = req.contact
      <4>1. s.lead = req.lead /\ s.contact = req.contact
        BY <2>2, <3>1, <3>4, <3>6, DealAssumption DEF Party
      <4>2. deal'.lead = deal.lead /\ deal'.contact = deal.contact
        BY <2>1, <3>6
      <4>3. Agree(deal', Moved(req', task.from, task.to))
        BY <1>1, <2>5, <3>2, <3>3, <3>4, <3>5, <4>1, <4>2 DEF MovedAs, Agree
      <4> QED
        BY <1>3, <2>5, <4>3 DEF Together, Due
    <3>7. CASE ~(post.lead = req.lead /\ post.contact = req.contact)
      <4>1. CASE task.from \in Lead /\ req.lead = task.from
        <5>1. deal.contact = None /\ task.to \in Lead /\ req.contact = None
          BY <2>3, <2>5, <3>1, <3>2, <3>3, <4>1, DealAssumption DEF MovedAs, Agree
        <5>2. s.lead # None /\ deal'.lead = s.lead /\ s.contact = None
              /\ deal'.contact = None
          BY <2>1, <2>2, <3>7, <4>1, <5>1, DealAssumption
        <5> QED
          BY <1>1, <1>3, <5>2 DEF Together, Agree
      <4>2. CASE task.from \in Contact /\ req.contact = task.from
        <5>1. deal.lead = None /\ req.lead = None
          BY <2>3, <2>5, <3>2, <3>3, <4>2, DealAssumption DEF MovedAs, Agree
        <5>2. s.contact # None /\ deal'.contact = s.contact /\ s.lead = None
              /\ deal'.lead = None
          BY <2>1, <2>2, <3>7, <4>2, <5>1, DealAssumption
        <5> QED
          BY <1>1, <1>3, <5>2 DEF Together, Agree
      <4> QED
        BY <3>4, <4>1, <4>2
    <3> QED
      BY <3>6, <3>7
  <2>6. CASE Deleting(task) /\ Stray(task, deal, req)
    <3>1. task.from # None /\ task.from \in Party
      BY <1>0, <2>6, TaskPair, DealAssumption DEF Deleting, Party
    <3>2. CASE task.from \in Lead
      <4>1. Stray(task, deal', req') \/ Agree(deal', req')
        BY <1>1, <2>1, <2>2, <2>3, <2>6, <3>1, <3>2 DEF Stray, Agree
      <4> QED
        BY <1>3, <2>6, <4>1 DEF Together
    <3>3. CASE task.from \notin Lead
      <4>1. Stray(task, deal', req') \/ Agree(deal', req')
        BY <1>1, <2>1, <2>2, <2>3, <2>6, <3>1, <3>3 DEF Stray, Agree
      <4> QED
        BY <1>3, <2>6, <4>1 DEF Together
    <3> QED
      BY <3>2, <3>3
  <2> QED
    BY <1>5, <2>4, <2>5, <2>6 DEF Together, Due
<1> QED
  BY <1>4, <1>5

LEMMA StepInStep == Ready /\ Linked /\ InStep /\ [Next]_vars => InStep'
<1> SUFFICES ASSUME Ready, Linked, InStep, [Next]_vars, HasDeal',
                    faults' \cap PartyFault = {}
             PROVE  Together(task', deal', req')
  BY DEF InStep, NoFault
<1>0. /\ TypeOK /\ Paired /\ Integral
      /\ HasDeal => HasReq /\ req.deal /\ Together(task, deal, req)
  BY NotYet DEF Ready, Integral, InStep, Linked, NoFault, PartyFault
<1>a. HasDeal => deal \in Deal /\ req \in Request
  BY <1>0, RowsTyped
<1>b. Idle.kind = "none"
  BY DEF Idle
<1>1. ASSUME HasDeal, task' = task, req' = req,
             deal'.lead = deal.lead, deal'.contact = deal.contact
      PROVE  Together(task', deal', req')
  BY <1>0, <1>1 DEF Together, Agree, Stray
<1>2. ASSUME HasDeal, Agree(deal', req'), task' = Idle
      PROVE  Together(task', deal', req')
  BY <1>b, <1>2 DEF Together
<1>3. ASSUME NEW post \in Post, NEW s \in Saved(post), HasReq, SubmitRequest(post, s)
      PROVE  Together(task', deal', req')
  <2>1. task' = task
    BY <1>3 DEF SubmitRequest
  <2> QED
    BY <1>0, <1>3, <2>1, SubmitTogether
<1>4. CASE DeleteRequest \/ DeleteDeal
  BY <1>4 DEF DeleteRequest, DeleteDeal, HasDeal, Gone
<1>5. ASSUME NEW post \in DealPost, NEW R \in SUBSET Reminder, HasDeal,
             SubmitDeal(post, R)
      PROVE  Together(task', deal', req')
  <2>1. deal' = Closed(post) /\ UNCHANGED <<task, req>>
    BY <1>5 DEF SubmitDeal
  <2>2. "relinked" \notin faults'
    BY DEF PartyFault
  <2>3. deal'.lead = deal.lead /\ deal'.contact = deal.contact
    BY <1>5, <2>1, <2>2 DEF SubmitDeal, If
  <2> QED
    BY <1>1, <1>5, <2>1, <2>3
<1>6. ASSUME NEW p \in Party, DeleteParty(p)
      PROVE  Together(task', deal', req')
  <2>1. /\ HasDeal /\ HasReq /\ deal' = deal /\ req' \in Request
        /\ req'.contact = req.contact
        /\ req'.lead = IF req.lead = p THEN None ELSE req.lead
        /\ ~Names(deal, p) /\ req.contact # p
        /\ Half(task) => p # task.from
    BY <1>6, PartyDeleted DEF PartyFault
  <2>2. task' = task
    BY <1>6 DEF DeleteParty
  <2>3. CASE Agree(deal, req)
    <3>1. Agree(deal', req')
      BY <1>a, <2>1, <2>3, DealTyped DEF Agree
    <3> QED
      BY <1>0, <2>1, <2>2, <3>1 DEF Together
  <2>4. CASE Half(task) /\ Agree(deal, Moved(req, task.from, task.to))
             /\ ~Agree(deal, req)
    <3>1. /\ Pair(task.from, task.to) /\ task.from \in Party
      BY <1>0, <2>4, TaskPair DEF Half
    <3>2. /\ MovedAs(Moved(req, task.from, task.to), req, task.from, task.to)
          /\ MovedAs(Moved(req', task.from, task.to), req', task.from, task.to)
      BY <1>a, <2>1, <3>1, MovedRequest
    <3>3. task.from \in {req.lead, req.contact}
      BY <1>a, <2>1, <2>4, <3>2, RequestTyped DEF MovedAs
    <3>4. req'.lead = req.lead
      BY <1>a, <2>1, <2>4, <3>1, <3>3, AtMostOne, DealAssumption DEF Party
    <3>5. Names(req', task.from) /\ Names(req, task.from)
      BY <1>a, <2>1, <3>3, <3>4, RequestTyped
    <3>6. Agree(deal', Moved(req', task.from, task.to))
      BY <2>1, <2>4, <3>2, <3>4, <3>5 DEF MovedAs, Agree
    <3> QED
      BY <1>0, <2>1, <2>2, <2>4, <3>6 DEF Together, Due
  <2>5. CASE Deleting(task) /\ Stray(task, deal, req)
    <3>1. Stray(task, deal', req')
      BY <2>1, <2>5 DEF Stray
    <3> QED
      BY <1>0, <2>1, <2>2, <2>5, <3>1 DEF Together
  <2> QED
    BY <1>0, <2>1, <2>3, <2>4, <2>5 DEF Together, Due
<1>7. ASSUME NEW l \in Lead, NEW c \in Contact, StartConvert(l, c)
      PROVE  Together(task', deal', req')
  <2>1. /\ UNCHANGED <<req, deal>> /\ task = Idle /\ HasDeal
        /\ task' = [kind |-> "convert", from |-> l, to |-> c,
                    deal |-> Names(deal, l), req |-> Names(req, l)]
    BY <1>7 DEF StartConvert, HasDeal
  <2>2. Agree(deal, req)
    BY <1>0, <1>b, <2>1 DEF Together, Due, Half, Deleting
  <2>3. Names(deal, l) = Names(req, l)
    BY <1>a, <2>1, <2>2 DEF Names, Agree, Deal, Request
  <2>4. task'.deal = task'.req
    BY <2>1, <2>3
  <2> QED
    BY <2>1, <2>2, <2>4 DEF Together
<1>8. CASE FinishConvert
  <2>1. /\ Pair(task.from, task.to) /\ task.kind = "convert"
    BY <1>0, <1>8, TaskPair DEF FinishConvert
  <2>2. /\ WithoutDuplicate \in [Party -> {"unborn", "here", "gone"}]
        /\ ConvertedReq \in Request \cup {Gone}
        /\ ConvertedDeal \in Deal \cup {Unborn, Gone}
        /\ Delete(WithoutDuplicate, ConvertedReq, ConvertedDeal)
        /\ task' = Idle
    BY <1>0, <1>8, <2>1, Converted, WithoutDuplicateTyped
  <2>3. /\ deal' = ConvertedDeal /\ ~DealDies(WithoutDuplicate, ConvertedDeal)
        /\ req'.contact = ConvertedReq.contact
        /\ req'.lead = IF Dead(WithoutDuplicate, ConvertedReq.lead) THEN None
                       ELSE ConvertedReq.lead
    BY <2>2, Left DEF HasDeal
  <2>4. HasDeal
    BY <1>0, <2>1, <2>3, DealMoved DEF ConvertedDeal, HasDeal
  <2>5. Agree(deal, req) /\ task.deal = task.req
    BY <1>0, <2>1, <2>4 DEF Together, Due, Half, Deleting
  <2>6. Agree(ConvertedDeal, ConvertedReq)
    BY <1>a, <2>1, <2>4, <2>5, MovedAgree DEF ConvertedDeal, ConvertedReq
  <2>7. ~Dead(WithoutDuplicate, ConvertedReq.lead)
    <3>1. ConvertedDeal.row = "here"
      BY <2>3 DEF HasDeal
    <3> QED
      BY <2>3, <2>6, <3>1 DEF DealDies, Agree
  <2>8. Agree(deal', req')
    BY <2>3, <2>6, <2>7 DEF Agree
  <2> QED
    BY <1>2, <2>2, <2>4, <2>8
<1>9. CASE AbortConvert
  <2>1. UNCHANGED <<req, deal>> /\ task.kind = "convert" /\ task' = Idle /\ HasDeal
    BY <1>9 DEF AbortConvert, HasDeal
  <2>2. Agree(deal, req)
    BY <1>0, <2>1 DEF Together, Due, Half, Deleting
  <2> QED
    BY <1>2, <2>1, <2>2
<1>10. ASSUME NEW dup \in Party, NEW orig \in Party, StartRemove(dup, orig)
       PROVE  Together(task', deal', req')
  <2>1. UNCHANGED <<req, deal>> /\ task = Idle /\ HasDeal /\ task'.kind = "remove"
    BY <1>10 DEF StartRemove, HasDeal
  <2>2. Agree(deal, req)
    BY <1>0, <1>b, <2>1 DEF Together, Due, Half, Deleting
  <2> QED
    BY <2>1, <2>2 DEF Together
<1>11. CASE RelateDeal
  <2>1. /\ Pair(task.from, task.to) /\ req' = req
        /\ task.kind = "remove" /\ task.step = "deal" /\ task \in Removal
    BY <1>0, <1>11, TaskPair, RowsTyped DEF RelateDeal
  <2>2. HasDeal
    BY <1>0, <1>11, <2>1, DealMoved DEF RelateDeal, HasDeal
  <2>3. Agree(deal, req)
    BY <1>0, <2>1, <2>2 DEF Together, Due, Half, Deleting
  <2>4. CASE deal' = deal /\ task' = Idle
    BY <1>2, <2>1, <2>2, <2>3, <2>4
  <2>5. CASE /\ deal' = Moved(deal, task.from, task.to)
             /\ task' = [task EXCEPT !.step = "request"]
    <3>1. Half(task') /\ task'.from = task.from /\ task'.to = task.to
          /\ task'.kind = "remove"
      BY <2>1, <2>5 DEF Removal, Half
    <3>2. Agree(deal', Due(task', req'))
      BY <1>a, <2>1, <2>2, <2>3, <2>5, <3>1, MovedAgree DEF Due
    <3> QED
      BY <3>1, <3>2 DEF Together
  <2> QED
    BY <1>11, <2>4, <2>5 DEF RelateDeal
<1>12. CASE RelateRequest
  <2>1. /\ Pair(task.from, task.to) /\ deal' = deal /\ HasDeal
        /\ task.kind = "remove" /\ Half(task) /\ task \in Removal
        /\ task.from \in Party /\ task.to \in Party
        /\ (task.from \in Lead => task.to \in Lead)
    BY <1>0, <1>12, TaskPair, RowsTyped, DealAssumption
       DEF RelateRequest, HasDeal, Half, Paired
  <2>2. MovedAs(Moved(req, task.from, task.to), req, task.from, task.to)
    BY <1>a, <2>1, MovedRequest
  <2>3. Agree(deal, req) \/ Agree(deal, Moved(req, task.from, task.to))
    BY <1>0, <2>1 DEF Together, Due, Half, Deleting
  <2>4. CASE /\ req' = req /\ task' = Idle /\ Names(req, task.from)
             /\ rows[task.to] # "here"
    <3>1. ~Names(deal, task.to)
      BY <2>1, <2>4, NamedIsHere
    <3>2. ~Agree(deal, Moved(req, task.from, task.to))
      <4>1. task.to \in {Moved(req, task.from, task.to).lead,
                         Moved(req, task.from, task.to).contact}
        BY <2>2, <2>4 DEF MovedAs
      <4> QED
        BY <1>a, <2>1, <3>1, <4>1, DealTyped DEF Agree
    <3> QED
      BY <1>2, <2>1, <2>3, <2>4, <3>2
  <2>5. CASE /\ req' = Moved(req, task.from, task.to)
             /\ task' = [task EXCEPT !.step = "delete"]
    <3>1. Deleting(task') /\ task'.from = task.from /\ task'.kind = "remove"
      BY <2>1, <2>5 DEF Removal, Deleting
    <3>2. Agree(deal, req') \/ Stray(task', deal', req')
      <4>1. CASE Agree(deal, req') \/ ~Names(req, task.from)
        BY <2>2, <2>3, <2>5, <4>1 DEF MovedAs
      <4>2. CASE Agree(deal, req) /\ Names(req, task.from)
        <5>1. /\ req.lead \in Lead \cup {None} /\ req.contact \in Contact \cup {None}
              /\ req.lead = None \/ req.contact = None
              /\ task.from \in {req.lead, req.contact}
          BY <1>0, <1>a, <2>1, <4>2, AtMostOne, RequestTyped
        <5>2. CASE task.from \in Lead
          <6>1. req.lead = task.from /\ req.contact = None
            BY <5>1, <5>2, DealAssumption
          <6>2. req'.contact = None
            BY <2>1, <2>2, <2>5, <4>2, <5>2, <6>1, DealAssumption DEF MovedAs
          <6> QED
            BY <2>1, <3>1, <4>2, <5>2, <6>1, <6>2 DEF Stray, Agree
        <5>3. CASE task.from \notin Lead
          <6>1. req.contact = task.from /\ req.lead = None
            BY <2>1, <5>1, <5>3, DealAssumption DEF Party
          <6>2. req'.contact = task.to /\ task.to # None
            BY <2>1, <2>2, <2>5, <4>2, <5>3, DealAssumption DEF MovedAs, Party
          <6> QED
            BY <2>1, <3>1, <4>2, <5>3, <6>1, <6>2 DEF Stray, Agree
        <5> QED
          BY <5>2, <5>3
      <4> QED
        BY <2>3, <2>5, <4>1, <4>2
    <3> QED
      BY <2>1, <3>1, <3>2 DEF Together
  <2> QED
    BY <1>12, <2>4, <2>5 DEF RelateRequest
<1>13. CASE DeleteDuplicate
  <2>1. /\ Delete(WithoutDuplicate, req, deal) /\ task.kind = "remove"
        /\ Deleting(task) /\ task' = Idle
    BY <1>13 DEF DeleteDuplicate, WithoutDuplicate, Deleting
  <2>2. /\ WithoutDuplicate \in [Party -> {"unborn", "here", "gone"}]
        /\ WithoutDuplicate[task.from] = "gone" /\ task.from # None
    BY <1>0, <2>1, WithoutDuplicateTyped, TaskPair, DealAssumption DEF Party
  <2>3. req \in Request \cup {Gone} /\ deal \in Deal \cup {Unborn, Gone}
    BY <1>0 DEF TypeOK
  <2>4. /\ deal' = deal /\ ~DealDies(WithoutDuplicate, deal) /\ HasDeal
        /\ req'.contact = req.contact
        /\ req'.lead = IF Dead(WithoutDuplicate, req.lead) THEN None ELSE req.lead
    BY <2>1, <2>2, <2>3, Left DEF HasDeal
  <2>5. ~Stray(task, deal, req)
    BY <2>2, <2>4 DEF Stray, DealDies, Dead, HasDeal
  <2>6. Agree(deal, req)
    BY <1>0, <2>1, <2>4, <2>5 DEF Together, Due, Half, Deleting
  <2>7. Agree(deal', req')
    BY <2>4, <2>6 DEF Agree, DealDies, HasDeal
  <2> QED
    BY <1>2, <2>1, <2>4, <2>7
<1>14. CASE HookSave
  <2>1. deal' = deal /\ UNCHANGED <<req, task>>
    BY <1>14 DEF HookSave, If, PartyFault
  <2> QED
    BY <1>1, <2>1 DEF HasDeal
<1>15. CASE Untick
  <2>1. HasDeal /\ UNCHANGED <<req, task>> /\ deal' = [deal EXCEPT !.remind = FALSE]
    BY <1>15 DEF Untick, HasDeal
  <2>2. deal'.lead = deal.lead /\ deal'.contact = deal.contact
    BY <1>a, <2>1 DEF Deal
  <2> QED
    BY <1>1, <2>1, <2>2
<1>16. CASE Crash
  BY <1>16 DEF Crash, PartyFault
<1>17. CASE UNCHANGED <<req, deal, task>>
  BY <1>1, <1>17 DEF HasDeal
<1> QED
  BY <1>3, <1>4, <1>5, <1>6, <1>7, <1>8, <1>9, <1>10, <1>11, <1>12, <1>13, <1>14,
     <1>15, <1>16, <1>17
     DEF Next, HookRead, AddReminder, Withdraw, Remind, SetInactive, Restart, vars

LEMMA LinkedAlways == Spec => []Linked
  BY InitTogether, StepLinked, ReadyAlways, PTL DEF Spec

\* The request and its deal stay with the same client, for any leads and
\* contacts, whatever is posted, converted, merged and deleted, outside the
\* events that the property names and while no removal is half done.
THEOREM ClientIsShared == Spec => []SameParty
<1>1. Ready /\ InStep => SameParty
  <2> SUFFICES ASSUME Ready, InStep, NoFault(PartyFault), task.kind # "remove",
                      HasReq, req.deal
               PROVE  /\ HasDeal /\ Agree(deal, req)
    BY DEF SameParty, PartyFault, Agree
  <2>1. HasDeal
    BY DEF Ready, Integral
  <2> QED
    BY <2>1 DEF InStep, Together, Due, Half, Deleting
<1> QED
  BY <1>1, InitTogether, StepInStep, LinkedAlways, ReadyAlways, PTL DEF Spec

-----------------------------------------------------------------------------
(***************************************************************************)
(* A deal is lost only to a deletion.                                      *)
(***************************************************************************)

\* The form of the request confines the deal to whom the request names.
LEMMA SubmitConfined ==
    ASSUME Ready, HasReq, NEW post \in Post, NEW s \in Saved(post),
           SubmitRequest(post, s), HasDeal',
           HasDeal => req.deal /\ Confined(task, deal, req),
           faults' \cap LossFault = {}
    PROVE  Confined(task, deal', req')
<1>0. /\ TypeOK /\ Paired /\ Integral
      /\ "cleared" \notin faults' /\ "other_kind" \notin faults'
      /\ "unlinked" \notin faults' /\ "attached_late" \notin faults'
  BY DEF Ready, LossFault
<1>1. /\ req' \in Request /\ req'.lead = s.lead /\ req'.contact = s.contact
  BY <1>0, RequestSubmitted
<1>2. req'.deal
  BY <1>0, RequestFaults, RequestSubmitted DEF HasDeal
<1>3. task.kind \in {"convert", "remove"} =>
          ~Names(req', task.from) /\ ~Names(deal', task.from)
  BY <1>0, RequestFaults DEF Idle
<1>4. SUFFICES Within(deal', req')
  <2>1. Due(task, req') = req'
    BY <1>3 DEF Due, Half, Moved
  <2> QED
    BY <1>3, <1>4, <2>1 DEF Confined, Half, Deleting
<1>5. CASE ~HasDeal
  BY <1>0, <1>1, <1>2, <1>5, RequestSubmitted DEF Within
<1>6. CASE HasDeal
  <2>1. /\ deal'.lead = IF post.lead # req.lead /\ s.lead # None
                        THEN s.lead ELSE deal.lead
        /\ deal'.contact = IF post.contact # req.contact /\ s.contact # None
                           THEN s.contact ELSE deal.contact
    BY <1>0, <1>2, <1>6, RequestSubmitted
  <2>2. /\ s.lead = None \/ s.contact = None
        /\ req.lead # None => post.lead # None /\ s.lead = post.lead
        /\ req.contact # None => post.contact # None /\ s.contact = post.contact
    BY <1>0, Posted
  <2>3. /\ req \in Request /\ (req.lead = None \/ req.contact = None)
        /\ req.lead \in Lead \cup {None} /\ req.contact \in Contact \cup {None}
    BY AtMostOne, RequestTyped
  <2>4. CASE Due(task, req) = req
    BY <1>1, <1>6, <2>1, <2>2, <2>4 DEF Within, Confined
  <2>5. CASE Due(task, req) # req
    <3>1. Half(task) /\ Names(req, task.from)
      BY <2>5 DEF Due, Moved
    <3>2. /\ Pair(task.from, task.to) /\ task.from \in Party
          /\ (task.from \in Lead => task.to \in Lead)
      BY <1>0, <3>1, TaskPair, DealAssumption DEF Half, Paired
    <3>3. MovedAs(Moved(req, task.from, task.to), req, task.from, task.to)
      BY <2>3, <3>2, MovedRequest
    <3>4. Within(deal, Moved(req, task.from, task.to))
      BY <1>6, <3>1 DEF Confined, Due
    <3>5. task.from # s.lead /\ task.from # s.contact
      BY <1>1, <1>3, <3>1, RequestTyped DEF Half
    <3>6. CASE task.from \in Lead
      <4>1. req.lead = task.from /\ req.contact = None
        BY <2>3, <3>1, <3>6, RequestTyped, DealAssumption
      <4>2. deal.contact = None /\ deal'.lead = s.lead
        BY <2>1, <2>2, <3>1, <3>2, <3>3, <3>4, <3>5, <3>6, <4>1, DealAssumption
           DEF MovedAs, Within
      <4> QED
        BY <1>1, <2>1, <4>2 DEF Within
    <3>7. CASE task.from \notin Lead
      <4>1. req.contact = task.from /\ req.lead = None
        BY <2>3, <3>1, <3>2, <3>7, RequestTyped, DealAssumption DEF Party
      <4>2. deal.lead = None /\ deal'.contact = s.contact
        BY <2>1, <2>2, <3>1, <3>2, <3>3, <3>4, <3>5, <3>7, <4>1, DealAssumption
           DEF MovedAs, Within
      <4> QED
        BY <1>1, <2>1, <4>2 DEF Within
    <3> QED
      BY <3>6, <3>7
  <2> QED
    BY <2>4, <2>5
<1> QED
  BY <1>5, <1>6

\* A moved deal is within its moved request.
LEMMA MovedWithin ==
    ASSUME NEW d \in Deal, NEW q \in Request, Within(d, q), NEW from, NEW to,
           Pair(from, to), q.lead = None \/ q.contact = None
    PROVE  Within(Moved(d, from, to), Moved(q, from, to))
<1>1. /\ MovedAs(Moved(d, from, to), d, from, to)
      /\ MovedAs(Moved(q, from, to), q, from, to)
  BY MovedDeal, MovedRequest
<1>2. from # None /\ (from \in Lead => from \notin Contact)
  BY DealAssumption DEF Pair
<1>3. /\ Names(d, from) <=> from \in {d.lead, d.contact}
      /\ Names(q, from) <=> from \in {q.lead, q.contact}
      /\ d.lead \in Lead \cup {None} /\ d.contact \in Contact \cup {None}
      /\ q.lead \in Lead \cup {None} /\ q.contact \in Contact \cup {None}
  BY DealTyped, RequestTyped
<1>4. Names(d, from) => Names(q, from)
  BY <1>2, <1>3 DEF Within
<1>5. CASE ~Names(q, from)
  BY <1>1, <1>4, <1>5 DEF MovedAs, Within
<1>6. CASE Names(q, from) /\ from \in Lead
  <2>1. q.lead = from /\ q.contact = None
    BY <1>2, <1>3, <1>6
  <2>2. d.lead \in {None, from} /\ d.contact = None
    BY <2>1 DEF Within
  <2> QED
    BY <1>1, <1>2, <1>3, <1>6, <2>1, <2>2 DEF MovedAs, Within
<1>7. CASE Names(q, from) /\ from \notin Lead
  <2>1. q.contact = from /\ q.lead = None
    BY <1>2, <1>3, <1>7
  <2>2. d.contact \in {None, from} /\ d.lead = None
    BY <2>1 DEF Within
  <2> QED
    BY <1>1, <1>2, <1>3, <1>7, <2>1, <2>2 DEF MovedAs, Within
<1> QED
  BY <1>5, <1>6, <1>7

\* The party that is being removed is named no more once its rows are moved.
LEMMA MovedAway ==
    ASSUME NEW from, NEW to, from # to, Pair(from, to)
    PROVE  /\ \A d \in Deal : ~Names(Moved(d, from, to), from)
           /\ \A q \in Request : ~Names(Moved(q, from, to), from)
<1>0. /\ from # None /\ to # None
      /\ from \in Lead \/ from \in Contact
      /\ from \in Lead => from \notin Contact
      /\ from \notin Lead => to \in Contact
  BY DealAssumption DEF Pair, Party
<1>1. ASSUME NEW d \in Deal
      PROVE  ~Names(Moved(d, from, to), from)
  <2>1. Moved(d, from, to) \in Deal /\ MovedAs(Moved(d, from, to), d, from, to)
    BY MovedDeal
  <2>2. d.lead \in Lead \cup {None} /\ d.contact \in Contact \cup {None}
        /\ (Names(d, from) <=> from \in {d.lead, d.contact})
        /\ (Names(Moved(d, from, to), from) <=>
              from \in {Moved(d, from, to).lead, Moved(d, from, to).contact})
    BY <2>1, DealTyped
  <2> QED
    BY <1>0, <2>1, <2>2 DEF MovedAs
<1>2. ASSUME NEW q \in Request
      PROVE  ~Names(Moved(q, from, to), from)
  <2>1. Moved(q, from, to) \in Request /\ MovedAs(Moved(q, from, to), q, from, to)
    BY MovedRequest
  <2>2. q.lead \in Lead \cup {None} /\ q.contact \in Contact \cup {None}
        /\ (Names(q, from) <=> from \in {q.lead, q.contact})
        /\ (Names(Moved(q, from, to), from) <=>
              from \in {Moved(q, from, to).lead, Moved(q, from, to).contact})
    BY <2>1, RequestTyped
  <2> QED
    BY <1>0, <2>1, <2>2 DEF MovedAs
<1> QED
  BY <1>1, <1>2

LEMMA StepSafe == Ready /\ Linked /\ Safe /\ [Next]_vars => Safe'
<1> SUFFICES ASSUME Ready, Linked, Safe, [Next]_vars, HasDeal',
                    faults' \cap LossFault = {}
             PROVE  Confined(task', deal', req')
  BY DEF Safe, NoFault
<1>0. /\ TypeOK /\ Paired /\ Integral
      /\ HasDeal => HasReq /\ req.deal /\ Confined(task, deal, req)
  BY NotYet DEF Ready, Integral, Safe, Linked, NoFault, LossFault
<1>a. HasDeal => deal \in Deal /\ req \in Request
  BY <1>0, RowsTyped
<1>b. Idle.kind = "none"
  BY DEF Idle
<1>c. ~Half(task) => Due(task, req) = req
  BY DEF Due
<1>1. ASSUME HasDeal, HasDeal', task' = task, req' = req,
             deal'.lead = deal.lead, deal'.contact = deal.contact
      PROVE  Confined(task', deal', req')
  BY <1>0, <1>1 DEF Confined, Within, Names, HasDeal
<1>2. ASSUME HasDeal, Within(deal', req'), task' = Idle
      PROVE  Confined(task', deal', req')
  BY <1>b, <1>2 DEF Confined, Due, Half, Deleting
<1>3. ASSUME NEW post \in Post, NEW s \in Saved(post), HasReq, SubmitRequest(post, s)
      PROVE  Confined(task', deal', req')
  <2>1. task' = task
    BY <1>3 DEF SubmitRequest
  <2> QED
    BY <1>0, <1>3, <2>1, SubmitConfined
<1>4. CASE DeleteRequest \/ DeleteDeal
  BY <1>4 DEF DeleteRequest, DeleteDeal, HasDeal, Gone
<1>5. ASSUME NEW post \in DealPost, NEW R \in SUBSET Reminder, HasDeal,
             SubmitDeal(post, R)
      PROVE  Confined(task', deal', req')
  <2>1. deal' = Closed(post) /\ UNCHANGED <<task, req>>
    BY <1>5 DEF SubmitDeal
  <2>2. "relinked" \notin faults'
    BY DEF LossFault
  <2>3. deal'.lead = deal.lead /\ deal'.contact = deal.contact
    BY <1>5, <2>1, <2>2 DEF SubmitDeal, If
  <2> QED
    BY <1>1, <1>5, <2>1, <2>3
<1>6. ASSUME NEW p \in Party, DeleteParty(p)
      PROVE  Confined(task', deal', req')
  <2>1. /\ HasDeal /\ HasReq /\ deal' = deal /\ req' \in Request
        /\ req'.contact = req.contact
        /\ req'.lead = IF req.lead = p THEN None ELSE req.lead
        /\ ~Names(deal, p) /\ req.contact # p
        /\ Half(task) => p # task.from
    BY <1>6, PartyDeleted DEF LossFault
  <2>2. task' = task
    BY <1>6 DEF DeleteParty
  <2>3. ASSUME task.kind \in {"convert", "remove"}, ~Names(req, task.from)
        PROVE  ~Names(req', task.from)
    <3>1. task.from # None
      BY <1>0, <2>3, TaskPair, DealAssumption DEF Party
    <3> QED
      BY <1>a, <2>1, <2>3, <3>1, RequestTyped
  <2>4. Within(deal', Due(task, req'))
    <3>1. CASE Half(task) /\ Names(req, task.from)
      <4>1. /\ Pair(task.from, task.to) /\ task.from \in Party
        BY <1>0, <3>1, TaskPair DEF Half
      <4>2. /\ MovedAs(Moved(req, task.from, task.to), req, task.from, task.to)
            /\ MovedAs(Moved(req', task.from, task.to), req', task.from, task.to)
        BY <1>a, <2>1, <4>1, MovedRequest
      <4>3. task.from \in {req.lead, req.contact}
        BY <1>a, <2>1, <3>1, RequestTyped
      <4>4. req'.lead = req.lead
        BY <1>a, <2>1, <3>1, <4>1, <4>3, AtMostOne, DealAssumption DEF Party
      <4>5. Names(req', task.from)
        BY <1>a, <2>1, <4>3, <4>4, RequestTyped
      <4>6. Within(deal, Moved(req, task.from, task.to))
        BY <1>0, <2>1, <3>1 DEF Confined, Due
      <4> QED
        BY <2>1, <3>1, <4>2, <4>4, <4>5, <4>6 DEF MovedAs, Within, Due
    <3>2. CASE ~(Half(task) /\ Names(req, task.from))
      <4>1. Due(task, req) = req /\ Due(task, req') = req'
        BY <2>3, <3>2 DEF Due, Moved, Half
      <4>2. Within(deal, req) /\ deal.lead # p
        BY <1>0, <1>a, <2>1, <4>1, DealTyped DEF Confined
      <4> QED
        BY <2>1, <4>1, <4>2 DEF Within
    <3> QED
      BY <3>1, <3>2
  <2> QED
    BY <1>0, <2>1, <2>2, <2>3, <2>4 DEF Confined, Half, Deleting
<1>7. ASSUME NEW l \in Lead, NEW c \in Contact, StartConvert(l, c)
      PROVE  Confined(task', deal', req')
  <2>1. /\ UNCHANGED <<req, deal>> /\ task = Idle /\ HasDeal
        /\ task' = [kind |-> "convert", from |-> l, to |-> c,
                    deal |-> Names(deal, l), req |-> Names(req, l)]
    BY <1>7 DEF StartConvert, HasDeal
  <2>2. Within(deal, req)
    BY <1>0, <1>b, <1>c, <2>1 DEF Confined, Half
  <2>3. /\ task'.kind = "convert" /\ task'.from = l
        /\ task'.deal = Names(deal, l) /\ task'.req = Names(req, l)
    BY <2>1
  <2> QED
    BY <2>1, <2>2, <2>3 DEF Confined, Due, Half, Deleting
<1>8. CASE FinishConvert
  <2>1. /\ Pair(task.from, task.to) /\ task.kind = "convert"
    BY <1>0, <1>8, TaskPair DEF FinishConvert
  <2>2. /\ WithoutDuplicate \in [Party -> {"unborn", "here", "gone"}]
        /\ ConvertedReq \in Request \cup {Gone}
        /\ ConvertedDeal \in Deal \cup {Unborn, Gone}
        /\ Delete(WithoutDuplicate, ConvertedReq, ConvertedDeal)
        /\ task' = Idle
    BY <1>0, <1>8, <2>1, Converted, WithoutDuplicateTyped
  <2>3. /\ deal' = ConvertedDeal /\ ~DealDies(WithoutDuplicate, ConvertedDeal)
        /\ req'.contact = ConvertedReq.contact
        /\ req'.lead = IF Dead(WithoutDuplicate, ConvertedReq.lead) THEN None
                       ELSE ConvertedReq.lead
    BY <2>2, Left DEF HasDeal
  <2>4. HasDeal
    BY <1>0, <2>1, <2>3, DealMoved DEF ConvertedDeal, HasDeal
  <2>5. Within(ConvertedDeal, ConvertedReq)
    <3>1. /\ Within(deal, req)
          /\ Names(deal, task.from) => task.deal
          /\ Names(req, task.from) => task.req
      BY <1>0, <1>c, <2>1, <2>4 DEF Confined, Half
    <3>2. ConvertedDeal = Moved(deal, task.from, task.to)
          /\ ConvertedReq = Moved(req, task.from, task.to)
      BY <3>1 DEF ConvertedDeal, ConvertedReq, Moved
    <3> QED
      BY <1>0, <1>a, <2>1, <2>4, <3>1, <3>2, AtMostOne, MovedWithin
  <2>6. ConvertedDeal.row = "here"
    BY <2>3 DEF HasDeal
  <2>7. Within(deal', req')
    BY <2>3, <2>5, <2>6 DEF Within, DealDies, Dead
  <2> QED
    BY <1>2, <2>2, <2>4, <2>7
<1>9. CASE AbortConvert
  <2>1. UNCHANGED <<req, deal>> /\ task.kind = "convert" /\ task' = Idle /\ HasDeal
    BY <1>9 DEF AbortConvert, HasDeal
  <2>2. Within(deal, req)
    BY <1>0, <1>c, <2>1 DEF Confined, Half
  <2> QED
    BY <1>2, <2>1, <2>2
<1>10. ASSUME NEW dup \in Party, NEW orig \in Party, StartRemove(dup, orig)
       PROVE  Confined(task', deal', req')
  <2>1. UNCHANGED <<req, deal>> /\ task = Idle /\ HasDeal
        /\ task'.kind = "remove" /\ task'.step = "deal"
    BY <1>10 DEF StartRemove, HasDeal
  <2>2. Within(deal, req)
    BY <1>0, <1>b, <1>c, <2>1 DEF Confined, Half
  <2> QED
    BY <2>1, <2>2 DEF Confined, Due, Half, Deleting
<1>11. CASE RelateDeal
  <2>1. /\ Pair(task.from, task.to) /\ req' = req /\ task.from # task.to
        /\ task.kind = "remove" /\ task.step = "deal" /\ task \in Removal
    BY <1>0, <1>11, TaskPair, RowsTyped DEF RelateDeal
  <2>2. HasDeal
    BY <1>0, <1>11, <2>1, DealMoved DEF RelateDeal, HasDeal
  <2>3. Within(deal, req)
    BY <1>0, <1>c, <2>1, <2>2 DEF Confined, Half
  <2>4. CASE deal' = deal /\ task' = Idle
    BY <1>2, <2>1, <2>2, <2>3, <2>4
  <2>5. CASE /\ deal' = Moved(deal, task.from, task.to)
             /\ task' = [task EXCEPT !.step = "request"]
    <3>1. Half(task') /\ ~Deleting(task') /\ task'.kind = "remove"
          /\ task'.from = task.from /\ task'.to = task.to
      BY <2>1, <2>5 DEF Removal, Half, Deleting
    <3>2. Within(deal', Due(task', req'))
      BY <1>0, <1>a, <2>1, <2>2, <2>3, <2>5, <3>1, AtMostOne, MovedWithin DEF Due
    <3>3. ~Names(deal', task'.from)
      BY <1>a, <2>1, <2>2, <2>5, <3>1, MovedAway
    <3> QED
      BY <3>1, <3>2, <3>3 DEF Confined
  <2> QED
    BY <1>11, <2>4, <2>5 DEF RelateDeal
<1>12. CASE RelateRequest
  <2>1. /\ Pair(task.from, task.to) /\ deal' = deal /\ HasDeal
        /\ task.kind = "remove" /\ Half(task) /\ task \in Removal
        /\ task.from \in Party /\ task.to \in Party /\ task.from # task.to
    BY <1>0, <1>12, TaskPair, RowsTyped DEF RelateRequest, HasDeal, Half
  <2>2. MovedAs(Moved(req, task.from, task.to), req, task.from, task.to)
    BY <1>a, <2>1, MovedRequest
  <2>3. Within(deal, Moved(req, task.from, task.to)) /\ ~Names(deal, task.from)
    BY <1>0, <2>1 DEF Confined, Due
  <2>4. CASE /\ req' = req /\ task' = Idle /\ Names(req, task.from)
             /\ rows[task.to] # "here"
    <3>1. task.to \notin {deal.lead, deal.contact}
      BY <1>a, <2>1, <2>4, NamedIsHere, DealTyped
    <3>2. Within(deal, req)
      BY <2>2, <2>3, <2>4, <3>1 DEF MovedAs, Within
    <3> QED
      BY <1>2, <2>1, <2>4, <3>2
  <2>5. CASE /\ req' = Moved(req, task.from, task.to)
             /\ task' = [task EXCEPT !.step = "delete"]
    <3>1. Deleting(task') /\ ~Half(task') /\ task'.from = task.from
          /\ task'.kind = "remove"
      BY <2>1, <2>5 DEF Removal, Deleting, Half
    <3>2. ~Names(req', task'.from)
      BY <1>a, <2>1, <2>5, <3>1, MovedAway
    <3> QED
      BY <2>1, <2>3, <2>5, <3>1, <3>2 DEF Confined, Due
  <2> QED
    BY <1>12, <2>4, <2>5 DEF RelateRequest
<1>13. CASE DeleteDuplicate
  <2>1. /\ Delete(WithoutDuplicate, req, deal) /\ task.kind = "remove"
        /\ Deleting(task) /\ ~Half(task) /\ task' = Idle
    BY <1>13 DEF DeleteDuplicate, WithoutDuplicate, Deleting, Half
  <2>2. WithoutDuplicate \in [Party -> {"unborn", "here", "gone"}]
    BY <1>0, <2>1, WithoutDuplicateTyped
  <2>3. req \in Request \cup {Gone} /\ deal \in Deal \cup {Unborn, Gone}
    BY <1>0 DEF TypeOK
  <2>4. /\ deal' = deal /\ ~DealDies(WithoutDuplicate, deal) /\ HasDeal
        /\ req'.contact = req.contact
        /\ req'.lead = IF Dead(WithoutDuplicate, req.lead) THEN None ELSE req.lead
    BY <2>1, <2>2, <2>3, Left DEF HasDeal
  <2>5. Within(deal, req)
    BY <1>0, <1>c, <2>1, <2>4 DEF Confined
  <2>6. Within(deal', req')
    BY <2>4, <2>5 DEF Within, DealDies, Dead, HasDeal
  <2> QED
    BY <1>2, <2>1, <2>4, <2>6
<1>14. CASE HookSave
  <2>1. deal' = deal /\ UNCHANGED <<req, task>>
    BY <1>14 DEF HookSave, If, LossFault
  <2> QED
    BY <1>1, <2>1 DEF HasDeal
<1>15. CASE Untick
  <2>1. HasDeal /\ UNCHANGED <<req, task>> /\ deal' = [deal EXCEPT !.remind = FALSE]
    BY <1>15 DEF Untick, HasDeal
  <2>2. deal'.lead = deal.lead /\ deal'.contact = deal.contact
    BY <1>a, <2>1 DEF Deal
  <2> QED
    BY <1>1, <2>1, <2>2
<1>16. CASE Crash
  BY <1>16 DEF Crash, LossFault
<1>17. CASE UNCHANGED <<req, deal, task>>
  BY <1>1, <1>17 DEF HasDeal
<1> QED
  BY <1>3, <1>4, <1>5, <1>6, <1>7, <1>8, <1>9, <1>10, <1>11, <1>12, <1>13, <1>14,
     <1>15, <1>16, <1>17
     DEF Next, HookRead, AddReminder, Withdraw, Remind, SetInactive, Restart, vars

\* A step that deletes the deal, outside the events named, is a deletion of the
\* deal, of its request or of a client the request names or will name.
Kept ==
    HasDeal /\ deal'.row = "gone"
    /\ faults' \cap {"other_kind", "cleared", "unlinked", "relinked",
                     "attached_late", "dropped", "stale_hook", "crash"} = {}
      => /\ task' = task
         /\ \/ rows' = rows
            \/ Dead(rows', req.lead)
            \/ Dead(rows', req.contact)
            \/ task.kind = "remove" /\ Dead(rows', task.to)

LEMMA StepKept == Ready /\ Linked /\ Safe /\ [Next]_vars => [Kept]_vars
<1> SUFFICES ASSUME Ready, Linked, Safe, [Next]_vars, HasDeal, deal'.row = "gone",
                    faults' \cap LossFault = {}
             PROVE  /\ task' = task
                    /\ \/ rows' = rows
                       \/ Dead(rows', req.lead)
                       \/ Dead(rows', req.contact)
                       \/ task.kind = "remove" /\ Dead(rows', task.to)
  BY DEF Kept, LossFault
<1> DEFINE Goal == /\ task' = task
                   /\ \/ rows' = rows
                      \/ Dead(rows', req.lead)
                      \/ Dead(rows', req.contact)
                      \/ task.kind = "remove" /\ Dead(rows', task.to)
<1>0. /\ TypeOK /\ Paired /\ Integral
      /\ HasReq /\ req.deal /\ Confined(task, deal, req)
      /\ deal \in Deal /\ req \in Request /\ deal.row = "here"
  BY NotYet, RowsTyped DEF Ready, Integral, Safe, Linked, NoFault, LossFault, HasDeal
<1>1. ASSUME NEW post \in Post, NEW s \in Saved(post), SubmitRequest(post, s)
      PROVE  FALSE
  BY <1>0, <1>1, RequestSubmitted, DealTyped
<1>2. CASE DeleteRequest \/ DeleteDeal
  BY <1>2 DEF DeleteRequest, DeleteDeal
<1>3. ASSUME NEW post \in DealPost, NEW R \in SUBSET Reminder, SubmitDeal(post, R)
      PROVE  FALSE
  BY <1>0, <1>3, DealSubmitted, DealTyped
<1>4. ASSUME NEW p \in Party, DeleteParty(p)
      PROVE  Goal
  <2> DEFINE R == [rows EXCEPT ![p] = "gone"]
  <2>1. R \in [Party -> {"unborn", "here", "gone"}]
    BY <1>0 DEF TypeOK
  <2>2. Delete(R, req, deal) /\ task' = task /\ rows' = R
    BY <1>4 DEF DeleteParty, Delete
  <2> HIDE DEF R
  <2>3. DealDies(R, deal) \/ Dead(R, req.contact)
    <3>1. deal' = Gone
      BY <1>0, <2>1, <2>2, Left
    <3> QED
      BY <1>0, <2>1, <2>2, <3>1, Left DEF HasReq
  <2>4. CASE Dead(R, deal.lead) \/ Dead(R, deal.contact)
    <3>1. Within(deal, Due(task, req))
      BY <1>0 DEF Confined
    <3>2. CASE Due(task, req) = req
      BY <2>2, <2>4, <3>1, <3>2 DEF Within, Dead
    <3>3. CASE Due(task, req) # req
      <4>1. Half(task)
        BY <3>3 DEF Due
      <4>2. Pair(task.from, task.to)
        BY <1>0, <4>1, TaskPair DEF Half
      <4>3. MovedAs(Due(task, req), req, task.from, task.to)
        BY <1>0, <4>1, <4>2, MovedRequest DEF Due
      <4> QED
        BY <2>2, <2>4, <3>1, <4>1, <4>3 DEF MovedAs, Within, Dead, Half
    <3> QED
      BY <3>2, <3>3
  <2> QED
    BY <1>0, <2>2, <2>3, <2>4 DEF DealDies
<1>5. CASE FinishConvert
  <2>1. /\ Pair(task.from, task.to) /\ task.kind = "convert"
        /\ task.from # task.to
    BY <1>0, <1>5, TaskPair DEF FinishConvert
  <2>2. /\ WithoutDuplicate \in [Party -> {"unborn", "here", "gone"}]
        /\ WithoutDuplicate[task.to] = "here"
        /\ \A p \in Party \ {task.from} : rows[p] = "here" => WithoutDuplicate[p] = "here"
        /\ Delete(WithoutDuplicate, ConvertedReq, ConvertedDeal)
    BY <1>0, <1>5, <2>1, Converted, WithoutDuplicateTyped
  <2>3. /\ Names(deal, task.from) => task.deal
        /\ Names(req, task.from) => task.req
    BY <1>0, <2>1 DEF Confined
  <2>4. /\ ConvertedDeal = Moved(deal, task.from, task.to) /\ ConvertedDeal \in Deal
        /\ ConvertedReq = Moved(req, task.from, task.to) /\ ConvertedReq \in Request
    BY <1>0, <2>1, <2>3, MovedDeal, MovedRequest DEF ConvertedDeal, ConvertedReq, Moved
  <2>5. ASSUME NEW p \in Party, Names(ConvertedDeal, p) \/ Names(ConvertedReq, p)
        PROVE  WithoutDuplicate[p] = "here"
    <3>1. p # task.from
      BY <1>0, <2>1, <2>4, <2>5, MovedAway
    <3>2. Names(deal, p) \/ Names(req, p) \/ p = task.to
      <4>1. /\ MovedAs(ConvertedDeal, deal, task.from, task.to)
            /\ MovedAs(ConvertedReq, req, task.from, task.to)
        BY <1>0, <2>1, <2>4, MovedDeal, MovedRequest
      <4>2. p # None
        BY DealAssumption DEF Party
      <4> QED
        BY <1>0, <2>4, <2>5, <4>1, <4>2, DealTyped, RequestTyped DEF MovedAs
    <3> QED
      BY <1>0, <2>2, <3>1, <3>2 DEF Integral
  <2>6. /\ ~Dead(WithoutDuplicate, ConvertedDeal.lead)
        /\ ~Dead(WithoutDuplicate, ConvertedDeal.contact)
        /\ ~Dead(WithoutDuplicate, ConvertedReq.contact)
    BY <2>4, <2>5, DealTyped, RequestTyped DEF Dead, Party
  <2>7. deal' = Gone
    BY <2>2, <2>4, Left, DealTyped
  <2> QED
    BY <2>2, <2>4, <2>6, <2>7, Left, DealTyped, RowsTyped, <1>0 DEF DealDies
<1>6. CASE RelateDeal
  BY <1>0, <1>6, TaskPair, DealMoved DEF RelateDeal
<1>7. CASE DeleteDuplicate
  <2>1. /\ Delete(WithoutDuplicate, req, deal) /\ task.kind = "remove"
        /\ Deleting(task)
    BY <1>7 DEF DeleteDuplicate, WithoutDuplicate, Deleting
  <2>2. /\ WithoutDuplicate \in [Party -> {"unborn", "here", "gone"}]
        /\ \A p \in Party \ {task.from} : rows[p] = "here" => WithoutDuplicate[p] = "here"
    BY <1>0, <2>1, WithoutDuplicateTyped
  <2>3. ~Names(deal, task.from) /\ ~Names(req, task.from)
    BY <1>0, <2>1 DEF Confined
  <2>4. ASSUME NEW p \in Party, Names(deal, p) \/ Names(req, p)
        PROVE  WithoutDuplicate[p] = "here"
    BY <1>0, <2>2, <2>3, <2>4 DEF Integral
  <2>5. /\ ~Dead(WithoutDuplicate, deal.lead)
        /\ ~Dead(WithoutDuplicate, deal.contact)
        /\ ~Dead(WithoutDuplicate, req.contact)
    BY <1>0, <2>4, DealTyped, RequestTyped DEF Dead, Party
  <2>6. deal' = Gone
    BY <1>0, <2>1, <2>2, Left
  <2> QED
    BY <1>0, <2>1, <2>2, <2>5, <2>6, Left, RowsTyped DEF DealDies
<1>8. CASE HookSave
  BY <1>0, <1>8, RowsTyped, DealTyped DEF HookSave
<1>9. CASE Untick
  <2>1. deal' = [deal EXCEPT !.remind = FALSE]
    BY <1>9 DEF Untick
  <2> QED
    BY <1>0, <2>1 DEF Deal
<1>10. CASE deal' = deal
  BY <1>0, <1>10
<1> QED
  BY <1>1, <1>2, <1>3, <1>4, <1>5, <1>6, <1>7, <1>8, <1>9, <1>10
     DEF Next, StartConvert, AbortConvert, StartRemove, RelateRequest, HookRead,
         AddReminder, Withdraw, Remind, SetInactive, Restart, Crash, vars

\* Converting a lead and removing a duplicate keep the deal, for any leads and
\* contacts: only deleting it, its request or a client of the request deletes
\* it, outside the events that the property names.
THEOREM DealIsKept == Spec => DealKept
<1>1. Spec => [](Ready /\ Linked /\ Safe)
  BY InitTogether, StepSafe, LinkedAlways, ReadyAlways, PTL DEF Spec
<1>2. Spec => [][Kept]_vars
  BY <1>1, StepKept, PTL DEF Spec
<1> QED
  BY <1>2 DEF DealKept, Kept
=============================================================================
