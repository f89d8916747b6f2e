------------------------- MODULE PMOApproval_proofs -------------------------
(***************************************************************************)
(* For any number of handlers and admin forms: an approved delivery        *)
(* request has its requisition whatever overlaps, crashes and stale forms  *)
(* the server meets; unless a hazard that the property names has happened, *)
(* the verdict told is the one that stands and a pending request can still *)
(* be answered; and every step of PMOApproval is a step of PMODecision,    *)
(* leaves it alone, or voids it by one of the events named.                *)
(***************************************************************************)
EXTENDS PMOApproval, TLAPS

LEMMA IdleIsJob == Idle \in Job
  BY DEF Idle, Job

LEMMA StopTyped ==
    ASSUME job \in [Worker -> Job], NEW w \in Worker, Stop(w)
    PROVE  job' \in [Worker -> Job]
  BY IdleIsJob DEF Stop

\* A handler that creates stays at the steps of the creation, one that decides
\* at those of the decision.
LEMMA GotoTyped ==
    ASSUME job \in [Worker -> Job], NEW w \in Worker, NEW s, Goto(w, s),
           \/ job[w].step \in {"idle", "insert", "mint"}
              /\ s \in {"insert", "mint", "mail"}
           \/ job[w].step \in {"raise", "save"} /\ s \in {"save", "notify"}
    PROVE  /\ job' = [job EXCEPT ![w] = [step |-> s, verdict |-> job[w].verdict]]
           /\ job' \in [Worker -> Job]
<1>1. job[w] \in Job
  OBVIOUS
<1>2. [job[w] EXCEPT !.step = s] = [step |-> s, verdict |-> job[w].verdict]
  BY <1>1 DEF Job
<1>3. [step |-> s, verdict |-> job[w].verdict] \in Job
  BY <1>1 DEF Job
<1> QED
  BY <1>2, <1>3 DEF Goto

\* A verdict is one of the two.
LEMMA VerdictTyped ==
    ASSUME job \in [Worker -> Job], NEW w \in Worker,
           job[w].step \in {"raise", "save", "notify"}
    PROVE  job[w].verdict \in Decided
<1>1. job[w] \in Job
  OBVIOUS
<1> QED
  BY <1>1 DEF Job

\* Every variable keeps its type: the status is one of the choices or says why
\* there is no row, and a handler is at one of its steps.
THEOREM TypeCorrect == Spec => []TypeOK
<1>1. Init => TypeOK
  BY IdleIsJob DEF Init, TypeOK
<1>2. TypeOK /\ [Next]_vars => TypeOK'
  <2> SUFFICES ASSUME TypeOK, [Next]_vars
               PROVE  TypeOK'
    OBVIOUS
  <2> USE DEF TypeOK, row, Exists, At
  <2>1. ASSUME NEW w \in Worker, Create(w) \/ Insert(w) \/ Mint(w)
        PROVE  TypeOK'
    <3>1. job' \in [Worker -> Job]
      BY <2>1, GotoTyped DEF Create, Insert, Mint, Idle
    <3> QED
      BY <2>1, <3>1 DEF Create, Insert, Mint
  <2>2. ASSUME NEW w \in Worker, NEW ok \in BOOLEAN, MailLink(w, ok)
        PROVE  TypeOK'
    BY <2>2, StopTyped DEF MailLink, Fault
  <2>3. ASSUME NEW w \in Worker, NEW verdict \in Decided, Click(w, verdict)
        PROVE  TypeOK'
    BY <2>3 DEF Click, Job, Overlap, Decided, Fault
  <2>4. ASSUME NEW w \in Worker, Raise(w)
        PROVE  TypeOK'
    BY <2>4, GotoTyped DEF Raise
  <2>5. ASSUME NEW w \in Worker, Save(w)
        PROVE  TypeOK'
    BY <2>5, GotoTyped, VerdictTyped DEF Save
  <2>6. ASSUME NEW w \in Worker, NEW ok \in BOOLEAN, Notify(w, ok)
        PROVE  TypeOK'
    BY <2>6, StopTyped, VerdictTyped DEF Notify, Fault
  <2>7. ASSUME NEW w \in Worker, Refused(w) \/ Crash(w)
        PROVE  TypeOK'
    BY <2>7, StopTyped DEF Refused, Crash, Fault
  <2>8. ASSUME NEW s \in Exists, NEW ok \in BOOLEAN, AdminAdd(s, ok)
        PROVE  TypeOK'
    BY <2>8 DEF AdminAdd, Fault
  <2>9. ASSUME NEW a \in Admin, OpenForm(a)
        PROVE  TypeOK'
    BY <2>9 DEF OpenForm, Form
  <2>10. ASSUME NEW a \in Admin, NEW s \in Exists, SubmitForm(a, s)
         PROVE  TypeOK'
    BY <2>10 DEF SubmitForm, Form, NoForm, Overlap, Fault
  <2>11. ASSUME NEW whole \in BOOLEAN, Delete(whole) \/ DeletePMO
         PROVE  TypeOK'
    BY <2>11 DEF Delete, DeletePMO, Fault
  <2>12. CASE UNCHANGED vars
    BY <2>12 DEF vars
  <2> QED
    BY <2>1, <2>2, <2>3, <2>4, <2>5, <2>6, <2>7, <2>8, <2>9, <2>10, <2>11,
       <2>12
       DEF Next, Handler, Continue, AdminSite
<1> QED
  BY <1>1, <1>2, PTL DEF Spec

-----------------------------------------------------------------------------
\* What keeps ApprovedHasPMO: nobody holds an approval that has no requisition,
\* neither a handler about to save it nor a form that shows it.
RequisitionFirst ==
    NoFault({"staff_edit", "delete"}) =>
        /\ status = "APPROVED" => pmo
        /\ \A w \in Worker : At(w, "save") /\ job[w].verdict = "APPROVED" => pmo
        /\ \A a \in Admin : form[a].status = "APPROVED" => pmo

\* Faults are never forgotten.
LEMMA FaultsGrow ==
    ASSUME faults \subseteq faults', NEW F, NoFault(F)'
    PROVE  NoFault(F)
  BY DEF NoFault

\* An approved request has its requisition: the handler raises it before it
\* saves the approval, and nothing but staff takes it away.
THEOREM ApprovalIsRaised == Spec => []ApprovedHasPMO
<1>1. Init => RequisitionFirst
  BY DEF Init, RequisitionFirst, At, Idle, NoForm
<1>2. TypeOK /\ RequisitionFirst /\ [Next]_vars => RequisitionFirst'
  <2> SUFFICES ASSUME TypeOK, RequisitionFirst, [Next]_vars,
                      NoFault({"staff_edit", "delete"})'
               PROVE  /\ status' = "APPROVED" => pmo'
                      /\ \A w \in Worker :
                            At(w, "save")' /\ job'[w].verdict = "APPROVED"
                            => pmo'
                      /\ \A a \in Admin : form'[a].status = "APPROVED" => pmo'
    BY DEF RequisitionFirst
  <2> DEFINE Goal == /\ status' = "APPROVED" => pmo'
                     /\ \A w \in Worker :
                           At(w, "save")' /\ job'[w].verdict = "APPROVED"
                           => pmo'
                     /\ \A a \in Admin : form'[a].status = "APPROVED" => pmo'
  <2>t. job \in [Worker -> Job] /\ form \in [Admin -> Form \cup {NoForm}]
    BY DEF TypeOK
  <2>h. faults \subseteq faults' =>
           /\ status = "APPROVED" => pmo
           /\ \A w \in Worker : At(w, "save") /\ job[w].verdict = "APPROVED"
                                => pmo
           /\ \A a \in Admin : form[a].status = "APPROVED" => pmo
    BY FaultsGrow DEF RequisitionFirst
  <2> USE DEF row, At
  <2>1. ASSUME NEW w \in Worker, Create(w) \/ Insert(w) \/ Mint(w)
        PROVE  Goal
    <3>1. /\ job[w].step \in {"idle", "insert", "mint"}
          /\ \E s \in {"insert", "mint", "mail"} : Goto(w, s)
      BY <2>1 DEF Create, Insert, Mint, Idle
    <3>2. job'[w].step # "save" /\ \A v \in Worker \ {w} : job'[v] = job[v]
      BY <3>1, <2>t, GotoTyped
    <3>3. faults \subseteq faults' /\ pmo' = pmo /\ form' = form
          /\ (status' = status \/ status' = "PENDING")
      BY <2>1 DEF Create, Insert, Mint
    <3> QED
      BY <3>2, <3>3, <2>h
  <2>2. ASSUME NEW w \in Worker,
               \/ \E ok \in BOOLEAN : MailLink(w, ok) \/ Notify(w, ok)
               \/ Refused(w) \/ Crash(w)
        PROVE  Goal
    <3>1. /\ Stop(w) /\ status' = status /\ pmo' = pmo /\ form' = form
          /\ faults \subseteq faults'
      BY <2>2 DEF MailLink, Notify, Refused, Crash
    <3>2. job'[w].step # "save" /\ \A v \in Worker \ {w} : job'[v] = job[v]
      BY <3>1, <2>t DEF Stop, Idle
    <3> QED
      BY <3>1, <3>2, <2>h
  <2>3. ASSUME NEW w \in Worker, NEW verdict \in Decided, Click(w, verdict)
        PROVE  Goal
    <3>1. ~(job'[w].step = "save" /\ job'[w].verdict = "APPROVED")
          /\ \A v \in Worker \ {w} : job'[v] = job[v]
      BY <2>3, <2>t DEF Click
    <3> QED
      BY <2>3, <3>1, <2>h DEF Click
  <2>4. ASSUME NEW w \in Worker, Raise(w)
        PROVE  Goal
    BY <2>4 DEF Raise
  <2>5. ASSUME NEW w \in Worker, Save(w)
        PROVE  Goal
    <3>1. \A v \in Worker : job'[v].step = "save" => v # w /\ job'[v] = job[v]
      BY <2>5, <2>t, GotoTyped DEF Save
    <3> QED
      BY <2>5, <3>1, <2>h DEF Save
  <2>6. ASSUME NEW s \in Exists, NEW ok \in BOOLEAN, AdminAdd(s, ok)
        PROVE  Goal
    <3>1. s = "PENDING"
      BY <2>6 DEF AdminAdd, NoFault
    <3> QED
      BY <2>6, <3>1, <2>h DEF AdminAdd
  <2>7. ASSUME NEW a \in Admin, OpenForm(a)
        PROVE  Goal
    <3>1. \A b \in Admin : form'[b].status = "APPROVED" =>
             status = "APPROVED" \/ form[b].status = "APPROVED"
      BY <2>7, <2>t DEF OpenForm
    <3> QED
      BY <2>7, <3>1, <2>h DEF OpenForm
  <2>8. ASSUME NEW a \in Admin, NEW s \in Exists, SubmitForm(a, s)
        PROVE  Goal
    <3>1. s = form[a].status
      BY <2>8 DEF SubmitForm, NoFault
    <3>2. \A b \in Admin : form'[b].status = "APPROVED" =>
             form[b].status = "APPROVED"
      BY <2>8, <2>t DEF SubmitForm, NoForm
    <3> QED
      BY <2>8, <3>1, <3>2, <2>h DEF SubmitForm
  <2>9. ASSUME NEW whole \in BOOLEAN, Delete(whole) \/ DeletePMO
        PROVE  Goal
    BY <2>9 DEF Delete, DeletePMO, NoFault
  <2>10. CASE UNCHANGED vars
    BY <2>10, <2>h DEF vars
  <2> QED
    BY <2>1, <2>2, <2>3, <2>4, <2>5, <2>6, <2>7, <2>8, <2>9, <2>10
       DEF Next, Handler, Continue, AdminSite
<1>3. RequisitionFirst => ApprovedHasPMO
  BY DEF RequisitionFirst, ApprovedHasPMO
<1> QED
  BY <1>1, <1>2, <1>3, TypeCorrect, PTL DEF Spec

-----------------------------------------------------------------------------
Saving(w, verdict) == At(w, "save") /\ job[w].verdict = verdict

\* Why every step keeps the promise: handlers that decide at the same time
\* agree, the requisition stands for exactly the approval that is being saved
\* or has been, and the request is inserted once.
Steady ==
    /\ status # "DELETED"
    /\ status # "UNBORN" => parent
    /\ status = "UNBORN" => ~pmo
    /\ status = "APPROVED" => pmo
    /\ status = "REJECTED" => ~pmo
    /\ status = "PENDING" /\ pmo => \E w \in Worker : Saving(w, "APPROVED")
    /\ \A w \in Worker :
          /\ At(w, "insert") => status = "UNBORN" /\ parent
          /\ At(w, "raise") => /\ status \in {"PENDING", "APPROVED"}
                               /\ job[w].verdict = "APPROVED"
          /\ Saving(w, "APPROVED") => status = "PENDING" /\ pmo
          /\ Saving(w, "REJECTED") => /\ status \in {"PENDING", "REJECTED"}
                                      /\ ~pmo
    /\ \A v, w \in Worker :
          /\ At(v, "insert") /\ At(w, "insert") => v = w
          /\ Deciding(v) /\ Deciding(w) => job[v].verdict = job[w].verdict
          /\ Saving(v, "APPROVED") /\ Saving(w, "APPROVED") => v = w

\* A step that changes one handler, and what that handler is then at.
LEMMA OneHandler ==
    ASSUME job \in [Worker -> Job], NEW w \in Worker, NEW j,
           job' = [job EXCEPT ![w] = j]
    PROVE  \A v \in Worker : job'[v] = IF v = w THEN j ELSE job[v]
  OBVIOUS

\* The history variable only grows.
LEMMA HistoryGrows == ASSUME [Next]_vars PROVE faults \subseteq faults'
<1>1. ASSUME NEW w \in Worker, Create(w) \/ Insert(w) \/ Mint(w) \/ Raise(w)
      PROVE  faults \subseteq faults'
  BY <1>1 DEF Create, Insert, Mint, Raise
<1>2. ASSUME NEW w \in Worker, NEW ok \in BOOLEAN,
             MailLink(w, ok) \/ Notify(w, ok)
      PROVE  faults \subseteq faults'
  BY <1>2 DEF MailLink, Notify
<1>3. ASSUME NEW w \in Worker, Save(w) \/ Refused(w) \/ Crash(w)
      PROVE  faults \subseteq faults'
  BY <1>3 DEF Save, Refused, Crash
<1>4. ASSUME NEW w \in Worker, NEW verdict \in Decided, Click(w, verdict)
      PROVE  faults \subseteq faults'
  BY <1>4 DEF Click
<1>5. ASSUME NEW s \in Exists, NEW ok \in BOOLEAN, AdminAdd(s, ok)
      PROVE  faults \subseteq faults'
  BY <1>5 DEF AdminAdd
<1>6. ASSUME NEW a \in Admin, NEW s \in Exists, OpenForm(a) \/ SubmitForm(a, s)
      PROVE  faults \subseteq faults'
  BY <1>6 DEF OpenForm, SubmitForm
<1>7. ASSUME NEW whole \in BOOLEAN, Delete(whole) \/ DeletePMO
      PROVE  faults \subseteq faults'
  BY <1>7 DEF Delete, DeletePMO
<1>8. CASE UNCHANGED vars
  BY <1>8 DEF vars
<1> QED
  BY <1>1, <1>2, <1>3, <1>4, <1>5, <1>6, <1>7, <1>8
     DEF Next, Handler, Continue, AdminSite, Exists

\* The approval implements the safety part of the promise: every step is one of
\* the promise, or leaves it alone, or voids it by one of the events named.
THEOREM StepsKeepPromise ==
    Spec => Promise!Init /\ [][Promise!Next]_(Promise!vars)
<1>1. Init => Calm /\ Steady /\ Promise!Init
  BY DEF Init, Calm, Steady, Promise!Init, At, Saving, Deciding, Idle
<1>2. TypeOK /\ Calm /\ Calm' /\ Steady /\ [Next]_vars
      => Steady' /\ [Promise!Next]_(Promise!vars)
  <2> SUFFICES ASSUME TypeOK, Calm, Calm', Steady, [Next]_vars
               PROVE  Steady' /\ [Promise!Next]_(Promise!vars)
    OBVIOUS
  <2> DEFINE Kept == Steady' /\ [Promise!Next]_(Promise!vars)
  <2>c. Calm /\ Calm'
    OBVIOUS
  <2>t. job \in [Worker -> Job]
    BY DEF TypeOK
  <2>v. \A w \in Worker : Deciding(w) => job[w].verdict \in Decided
    BY <2>t, VerdictTyped DEF Deciding
  <2> USE DEF row, At, Saving, Deciding, Decided, Promise!vars
  <2>1. ASSUME NEW w \in Worker, Create(w)
        PROVE  Kept
    <3>1. Goto(w, "insert") /\ job[w].step = "idle"
      BY <2>1 DEF Create, Idle
    <3>2. \A v \in Worker : job'[v] = IF v = w THEN [step |-> "insert",
                                                   verdict |-> job[w].verdict]
                                             ELSE job[v]
      BY <3>1, <2>t, GotoTyped, OneHandler
    <3> QED
      BY <2>1, <3>1, <3>2 DEF Create, Steady
  <2>2. ASSUME NEW w \in Worker, Insert(w)
        PROVE  Kept
    <3>1. \A v \in Worker : job'[v] = IF v = w THEN [step |-> "mint",
                                                   verdict |-> job[w].verdict]
                                             ELSE job[v]
      BY <2>2, <2>t, GotoTyped, OneHandler DEF Insert
    <3>2. Promise!Open
      BY <2>2, <2>c DEF Insert, Steady, Promise!Open
    <3> QED
      BY <2>2, <3>1, <3>2, <2>v DEF Insert, Steady, Promise!Next
  <2>3. ASSUME NEW w \in Worker, Mint(w)
        PROVE  Kept
    <3>1. \A v \in Worker : job'[v] = IF v = w THEN [step |-> "mail",
                                                   verdict |-> job[w].verdict]
                                             ELSE job[v]
      BY <2>3, <2>t, GotoTyped, OneHandler DEF Mint
    <3> QED
      BY <2>3, <3>1 DEF Mint, Steady
  <2>4. ASSUME NEW w \in Worker,
               \/ \E ok \in BOOLEAN : MailLink(w, ok) \/ Notify(w, ok)
               \/ Refused(w) \/ Crash(w)
        PROVE  Kept
    <3>1. Stop(w) /\ UNCHANGED <<parent, status, pmo>>
      BY <2>4 DEF MailLink, Notify, Refused, Crash
    <3>2. \A v \in Worker : job'[v] = IF v = w THEN Idle ELSE job[v]
      BY <3>1, <2>t, OneHandler DEF Stop
    <3>3. ~Saving(w, "APPROVED")
      BY <2>4, <2>c DEF MailLink, Notify, Refused, Crash, Calm, Steady
    <3> QED
      BY <3>1, <3>2, <3>3 DEF Steady, Idle
  <2>5. ASSUME NEW w \in Worker, NEW verdict \in Decided, Click(w, verdict)
        PROVE  Kept
    <3>1. \A v \in Worker : job'[v] =
             IF v = w
             THEN [step |-> IF verdict = "APPROVED" THEN "raise" ELSE "save",
                   verdict |-> verdict]
             ELSE job[v]
      BY <2>5, <2>t, OneHandler DEF Click
    <3>2. \A v \in Worker : Deciding(v) => job[v].verdict = verdict
      BY <2>5, <2>c, <2>v DEF Click, Overlap, Calm
    <3>3. ~Saving(w, "APPROVED")
      BY <2>5 DEF Click, Idle
    <3>4. verdict = "REJECTED" => ~pmo
      BY <2>5, <3>2 DEF Click, Steady
    <3> QED
      BY <2>5, <3>1, <3>2, <3>3, <3>4 DEF Click, Steady, Idle
  <2>6. ASSUME NEW w \in Worker, Raise(w)
        PROVE  Kept
    <3>1. \A v \in Worker : job'[v] = IF v = w THEN [step |-> "save",
                                                   verdict |-> job[w].verdict]
                                             ELSE job[v]
      BY <2>6, <2>t, GotoTyped, OneHandler DEF Raise
    <3>2. /\ status = "PENDING" /\ job[w].verdict = "APPROVED"
          /\ \A v \in Worker : ~Saving(v, "REJECTED") /\ ~Saving(v, "APPROVED")
      BY <2>6 DEF Raise, Steady
    <3>3. Promise!Raise
      BY <2>6, <3>2, <2>c DEF Raise, Promise!Raise
    <3> QED
      BY <2>6, <3>1, <3>2, <3>3 DEF Raise, Steady, Promise!Next
  <2>7. ASSUME NEW w \in Worker, Save(w)
        PROVE  Kept
    <3>1. \A v \in Worker : job'[v] = IF v = w THEN [step |-> "notify",
                                                   verdict |-> job[w].verdict]
                                             ELSE job[v]
      BY <2>7, <2>t, GotoTyped, OneHandler DEF Save
    <3>2. CASE job[w].verdict = "APPROVED"
      <4>1. Promise!Approve
        BY <2>7, <3>2, <2>c DEF Save, Steady, Promise!Approve
      <4> QED
        BY <2>7, <3>1, <3>2, <4>1 DEF Save, Steady, Promise!Next
    <3>3. CASE job[w].verdict = "REJECTED"
      <4>1. Promise!Reject \/ UNCHANGED <<status, pmo>>
        BY <2>7, <3>3, <2>c DEF Save, Steady, Promise!Reject
      <4> QED
        BY <2>7, <3>1, <3>3, <4>1 DEF Save, Steady, Promise!Next
    <3> QED
      BY <2>7, <2>v, <3>2, <3>3 DEF Save
  <2>8. ASSUME NEW s \in Exists, NEW ok \in BOOLEAN, AdminAdd(s, ok)
        PROVE  Kept
    <3>1. s = "PENDING"
      BY <2>8, <2>c DEF AdminAdd, Calm
    <3>2. Promise!Open
      BY <2>8, <3>1, <2>c DEF AdminAdd, Promise!Open
    <3> QED
      BY <2>8, <3>1, <3>2, <2>v
         DEF AdminAdd, Steady, Creating, Promise!Next
  <2>9. ASSUME NEW a \in Admin,
               OpenForm(a) \/ \E s \in Exists : SubmitForm(a, s)
        PROVE  Kept
    <3>1. UNCHANGED <<parent, status, pmo, job>>
      BY <2>9, <2>c DEF OpenForm, SubmitForm, Calm
    <3> QED
      BY <3>1 DEF Steady
  <2>10. ~(DeletePMO \/ \E whole \in BOOLEAN : Delete(whole))
    BY <2>c DEF Delete, DeletePMO, Calm
  <2>11. CASE UNCHANGED vars
    BY <2>c, <2>11 DEF vars, Steady
  <2>12. CASE Next
    <3> HIDE DEF Kept
    <3>1. ASSUME NEW w \in Worker, Handler(w)
          PROVE  Kept
      BY <3>1, <2>1, <2>2, <2>3, <2>4, <2>5, <2>6, <2>7
         DEF Handler, Continue
    <3>2. ASSUME AdminSite
          PROVE  Kept
      BY <3>2, <2>8, <2>9, <2>10 DEF AdminSite
    <3>3. Kept
      BY <3>1, <3>2, <2>12 DEF Next
    <3> QED
      BY <3>3, <2>c DEF Kept
  <2> QED
    BY <2>11, <2>12
<1>3. TypeOK /\ ~Calm' => [Promise!Next]_(Promise!vars)
  <2> SUFFICES ASSUME TypeOK, ~Calm'
               PROVE  Promise!Void \/ UNCHANGED Promise!vars
    BY DEF Promise!Next
  <2>1. CASE Calm
    <3>1. status # "VOID"
      BY DEF TypeOK, Exists, Decided
    <3> QED
      BY <2>1, <3>1 DEF Promise!Void
  <2>2. CASE ~Calm
    BY <2>2 DEF Promise!vars
  <2> QED
    BY <2>1, <2>2
<1>4. ASSUME [Next]_vars, Calm'
      PROVE  Calm
  <2>1. faults \subseteq faults'
    BY <1>4, HistoryGrows
  <2> QED
    BY <1>4, <2>1 DEF Calm
<1>5. TypeOK /\ (Calm => Steady) /\ [Next]_vars
      => (Calm => Steady)' /\ [Promise!Next]_(Promise!vars)
  BY <1>2, <1>3, <1>4
<1> QED
  BY <1>1, <1>5, TypeCorrect, PTL DEF Spec

-----------------------------------------------------------------------------
(***************************************************************************)
(* A request is inserted once, whatever is deleted meanwhile.              *)
(***************************************************************************)
InsertedOnce ==
    /\ ~parent => status \in {"UNBORN", "DELETED"}
    /\ \A w \in Worker :
          /\ At(w, "insert") => \/ status = "UNBORN" /\ parent
                                \/ status = "DELETED" /\ ~parent
          /\ job[w].step \in {"mint", "mail", "raise", "save", "notify"}
               => status # "UNBORN"
    /\ \A v, w \in Worker : At(v, "insert") /\ At(w, "insert") => v = w

\* Handlers that decide at the same time agree, and a verdict that has been
\* saved is the one they hold and the one of which the requester is told.
OneVerdict ==
    NoFault({"overlap", "stale_form", "staff_edit", "delete"}) =>
        /\ told \subseteq {status}
        /\ \A w \in Worker :
              /\ At(w, "notify") => job[w].verdict = status
              /\ Deciding(w) /\ status # "PENDING" => job[w].verdict = status
        /\ \A v, w \in Worker :
              Deciding(v) /\ Deciding(w) => job[v].verdict = job[w].verdict

\* A handler that is about to mail the links has saved their token.
LinksAreOpen ==
    NoFault({"overlap", "stale_form", "staff_edit", "crash", "mail_failure"}) =>
        /\ status = "PENDING" =>
              (token /\ mailed) \/ \E w \in Worker : Creating(w)
        /\ \A w \in Worker : At(w, "mail") /\ status = "PENDING" => token

\* The next step of a handler, and that the others stay where they are.
After(w, s) ==
    /\ job'[w].step = s /\ job'[w].verdict = job[w].verdict
    /\ \A v \in Worker \ {w} : job'[v] = job[v]

LEMMA GoesTo ==
    ASSUME job \in [Worker -> Job], NEW w \in Worker, NEW s, Goto(w, s)
    PROVE  After(w, s)
<1>1. job[w] \in Job
  OBVIOUS
<1> QED
  BY <1>1 DEF Goto, After, Job

\* What the steps of a handler leave of the database and the letters.
LEMMA CreateMoves ==
    ASSUME job \in [Worker -> Job], NEW w \in Worker, Create(w)
    PROVE  /\ After(w, "insert") /\ job[w].step = "idle"
           /\ ~parent /\ parent' /\ status = "UNBORN"
           /\ UNCHANGED <<status, token, mailed, told>>
  BY GoesTo DEF Create, Idle, row

LEMMA InsertMoves ==
    ASSUME job \in [Worker -> Job], NEW w \in Worker, Insert(w)
    PROVE  /\ After(w, "mint") /\ job[w].step = "insert"
           /\ parent /\ status' = "PENDING"
           /\ UNCHANGED <<parent, token, mailed, told>>
  BY GoesTo DEF Insert, At

LEMMA MintMoves ==
    ASSUME job \in [Worker -> Job], NEW w \in Worker, Mint(w)
    PROVE  /\ After(w, "mail") /\ job[w].step = "mint"
           /\ status \in Exists /\ token'
           /\ UNCHANGED <<parent, status, mailed, told>>
  BY GoesTo DEF Mint, At

LEMMA RaiseMoves ==
    ASSUME job \in [Worker -> Job], NEW w \in Worker, Raise(w)
    PROVE  /\ After(w, "save") /\ job[w].step = "raise"
           /\ UNCHANGED <<parent, status, token, mailed, told>>
  BY GoesTo DEF Raise, At, row

LEMMA SaveMoves ==
    ASSUME job \in [Worker -> Job], NEW w \in Worker, Save(w)
    PROVE  /\ After(w, "notify") /\ job[w].step = "save"
           /\ parent /\ job[w].verdict \in Decided /\ status' = job[w].verdict
           /\ UNCHANGED <<parent, mailed, told>>
  BY GoesTo, VerdictTyped DEF Save, At

LEMMA StopMoves ==
    ASSUME job \in [Worker -> Job], NEW w \in Worker, Stop(w)
    PROVE  /\ job'[w].step = "idle" /\ \A v \in Worker \ {w} : job'[v] = job[v]
  BY DEF Stop, Idle

LEMMA ClickMoves ==
    ASSUME job \in [Worker -> Job], NEW w \in Worker, NEW verdict \in Decided,
           Click(w, verdict)
    PROVE  /\ job'[w].step \in {"raise", "save"} /\ job'[w].verdict = verdict
           /\ \A v \in Worker \ {w} : job'[v] = job[v]
  BY DEF Click

\* A handler that stops leaves the database alone, but for the letters.
LEMMA StopLeaves ==
    ASSUME NEW w \in Worker,
           \/ \E ok \in BOOLEAN : MailLink(w, ok) \/ Notify(w, ok)
           \/ Refused(w) \/ Crash(w)
    PROVE  Stop(w) /\ UNCHANGED <<parent, status, token, pmo, form>>
  BY DEF MailLink, Notify, Refused, Crash, row

LEMMA StepInserts == TypeOK /\ InsertedOnce /\ [Next]_vars => InsertedOnce'
<1> SUFFICES ASSUME TypeOK, InsertedOnce, [Next]_vars
             PROVE  InsertedOnce'
  OBVIOUS
<1>t. job \in [Worker -> Job]
  BY DEF TypeOK
<1> USE DEF At, row
<1>1. ASSUME NEW w \in Worker, Create(w)
      PROVE  InsertedOnce'
  BY <1>1, <1>t, CreateMoves DEF InsertedOnce, After, Idle
<1>2. ASSUME NEW w \in Worker, Insert(w)
      PROVE  InsertedOnce'
  BY <1>2, <1>t, InsertMoves DEF InsertedOnce, After
<1>3. ASSUME NEW w \in Worker, Mint(w)
      PROVE  InsertedOnce'
  BY <1>3, <1>t, MintMoves DEF InsertedOnce, After
<1>4. ASSUME NEW w \in Worker,
             \/ \E ok \in BOOLEAN : MailLink(w, ok) \/ Notify(w, ok)
             \/ Refused(w) \/ Crash(w)
      PROVE  InsertedOnce'
  <2>1. Stop(w) /\ UNCHANGED <<parent, status, token, pmo, form>>
    BY <1>4, StopLeaves
  <2> QED
    BY <2>1, <1>t, StopMoves DEF InsertedOnce
<1>5. ASSUME NEW w \in Worker, NEW verdict \in Decided, Click(w, verdict)
      PROVE  InsertedOnce'
  <2>1. status' = "PENDING" /\ status = "PENDING" /\ parent' = parent
    BY <1>5 DEF Click
  <2> QED
    BY <1>5, <2>1, <1>t, ClickMoves DEF InsertedOnce
<1>6. ASSUME NEW w \in Worker, Raise(w)
      PROVE  InsertedOnce'
  BY <1>6, <1>t, RaiseMoves DEF InsertedOnce, After
<1>7. ASSUME NEW w \in Worker, Save(w)
      PROVE  InsertedOnce'
  BY <1>7, <1>t, SaveMoves DEF InsertedOnce, After, Decided
<1>8. ASSUME NEW s \in Exists, NEW ok \in BOOLEAN, AdminAdd(s, ok)
      PROVE  InsertedOnce'
  BY <1>8 DEF AdminAdd, InsertedOnce, Creating, Exists, Decided
<1>9. ASSUME NEW a \in Admin, OpenForm(a) \/ \E s \in Exists : SubmitForm(a, s)
      PROVE  InsertedOnce'
  BY <1>9 DEF OpenForm, SubmitForm, InsertedOnce, Exists, Decided
<1>10. ASSUME NEW whole \in BOOLEAN, Delete(whole) \/ DeletePMO
       PROVE  InsertedOnce'
  <2>1. CASE DeletePMO
    BY <2>1 DEF DeletePMO, InsertedOnce
  <2>2. CASE Delete(whole) /\ whole
    <3>1. parent /\ ~parent' /\ status' = "DELETED" /\ job' = job
      BY <2>2 DEF Delete
    <3> QED
      BY <3>1 DEF InsertedOnce
  <2>3. CASE Delete(whole) /\ ~whole
    <3>1. parent /\ parent' /\ status' = "DELETED" /\ job' = job /\ status \in Exists
      BY <2>3 DEF Delete
    <3> QED
      BY <3>1 DEF InsertedOnce, Exists, Decided
  <2> QED
    BY <1>10, <2>1, <2>2, <2>3
<1>11. CASE UNCHANGED vars
  BY <1>11 DEF vars, InsertedOnce
<1> QED
  BY <1>1, <1>2, <1>3, <1>4, <1>5, <1>6, <1>7, <1>8, <1>9, <1>10, <1>11
     DEF Next, Handler, Continue, AdminSite

LEMMA InsertedAtMostOnce == Spec => []InsertedOnce
<1>1. Init => InsertedOnce
  BY DEF Init, InsertedOnce, At, Idle
<1> QED
  BY <1>1, StepInserts, TypeCorrect, PTL DEF Spec

-----------------------------------------------------------------------------
LEMMA StepTells ==
    ASSUME TypeOK, InsertedOnce, OneVerdict, [Next]_vars,
           NoFault({"overlap", "stale_form", "staff_edit", "delete"})'
    PROVE  OneVerdict'
<1> DEFINE One == /\ told \subseteq {status}
                  /\ \A w \in Worker :
                        /\ At(w, "notify") => job[w].verdict = status
                        /\ Deciding(w) /\ status # "PENDING"
                             => job[w].verdict = status
                  /\ \A v, w \in Worker : Deciding(v) /\ Deciding(w)
                                            => job[v].verdict = job[w].verdict
<1>g. SUFFICES One'
  BY DEF OneVerdict
<1>h. One
  BY HistoryGrows, FaultsGrow DEF OneVerdict
<1>t. job \in [Worker -> Job] /\ told \subseteq Decided
  BY DEF TypeOK
<1> USE DEF At, Deciding, row
<1>1. ASSUME NEW w \in Worker, Create(w)
      PROVE  One'
  BY <1>1, <1>h, <1>t, CreateMoves DEF After
<1>2. ASSUME NEW w \in Worker, Insert(w)
      PROVE  One'
  <2>1. status = "UNBORN"
    BY <1>2 DEF Insert, InsertedOnce
  <2>2. \A v \in Worker : ~Deciding(v) /\ ~At(v, "notify")
    BY <2>1 DEF InsertedOnce
  <2>3. told = {} /\ told' = told
    BY <1>2, <1>h, <1>t, <2>1 DEF Insert, Decided
  <2> QED
    BY <1>2, <1>t, <2>2, <2>3, InsertMoves DEF After
<1>3. ASSUME NEW w \in Worker, Mint(w)
      PROVE  One'
  BY <1>3, <1>h, <1>t, MintMoves DEF After
<1>4. ASSUME NEW w \in Worker,
             \/ \E ok \in BOOLEAN : MailLink(w, ok) \/ Notify(w, ok)
             \/ Refused(w) \/ Crash(w)
      PROVE  One'
  <2>1. Stop(w) /\ UNCHANGED <<parent, status, token, pmo, form>>
    BY <1>4, StopLeaves
  <2>2. told' = told \/ (At(w, "notify") /\ told' = told \cup {job[w].verdict})
    <3>1. \A ok : MailLink(w, ok) => told' = told
      BY DEF MailLink
    <3>2. \A ok : Notify(w, ok) =>
             told' = told \/ (At(w, "notify") /\ told' = told \cup {job[w].verdict})
      BY DEF Notify
    <3> QED
      BY <1>4, <3>1, <3>2 DEF Refused, Crash
  <2> QED
    BY <1>h, <1>t, <2>1, <2>2, StopMoves
<1>5. ASSUME NEW w \in Worker, NEW verdict \in Decided, Click(w, verdict)
      PROVE  One'
  <2>1. status' = "PENDING" /\ status = "PENDING" /\ told' = told
    BY <1>5 DEF Click
  <2>2. \A v \in Worker : Deciding(v) => job[v].verdict = verdict
    <3>1. \A v \in Worker : Deciding(v) => job[v].verdict \in Decided
      BY <1>t, VerdictTyped
    <3> QED
      BY <1>5, <3>1 DEF Click, Overlap, NoFault
  <2> QED
    BY <1>5, <1>h, <1>t, <2>1, <2>2, ClickMoves
<1>6. ASSUME NEW w \in Worker, Raise(w)
      PROVE  One'
  BY <1>6, <1>h, <1>t, RaiseMoves DEF After
<1>7. ASSUME NEW w \in Worker, Save(w)
      PROVE  One'
  <2>1. status = "PENDING" \/ status = job[w].verdict
    BY <1>7, <1>h DEF Save
  <2>2. told \subseteq {job[w].verdict}
    BY <1>h, <1>t, <2>1 DEF Decided
  <2>3. \A v \in Worker : At(v, "notify") => job[v].verdict = job[w].verdict
    <3>1. \A v \in Worker : At(v, "notify") => job[v].verdict # "PENDING"
      BY <1>t, VerdictTyped DEF Decided
    <3> QED
      BY <1>h, <2>1, <3>1
  <2>4. /\ status' = job[w].verdict /\ told' = told
        /\ After(w, "notify") /\ job[w].step = "save"
    BY <1>7, <1>t, SaveMoves
  <2> QED
    BY <1>h, <2>2, <2>3, <2>4 DEF After
<1>8. ASSUME NEW s \in Exists, NEW ok \in BOOLEAN, AdminAdd(s, ok)
      PROVE  One'
  <2>1. \A v \in Worker : ~Deciding(v) /\ ~At(v, "notify")
    BY <1>8 DEF AdminAdd, InsertedOnce
  <2>2. told = {}
    BY <1>8, <1>h, <1>t DEF AdminAdd, Decided
  <2> QED
    BY <1>8, <2>1, <2>2 DEF AdminAdd
<1>9. ASSUME NEW a \in Admin, OpenForm(a) \/ \E s \in Exists : SubmitForm(a, s)
      PROVE  One'
  <2>1. UNCHANGED <<status, told, job>>
    BY <1>9 DEF OpenForm, SubmitForm, NoFault
  <2> QED
    BY <1>h, <2>1
<1>10. ASSUME NEW whole \in BOOLEAN, Delete(whole) \/ DeletePMO
       PROVE  One'
  BY <1>10 DEF Delete, DeletePMO, NoFault
<1>11. CASE UNCHANGED vars
  BY <1>11, <1>h DEF vars
<1> QED
  BY <1>1, <1>2, <1>3, <1>4, <1>5, <1>6, <1>7, <1>8, <1>9, <1>10, <1>11
     DEF Next, Handler, Continue, AdminSite

\* The requester is told one verdict, and the one that stands, whatever
\* handlers crash, whatever mails fail, and also when an approval is torn.
THEOREM VerdictToldStands == Spec => []ToldWhatStands
<1>1. Init => OneVerdict
  BY DEF Init, OneVerdict, At, Deciding, Idle
<1>2. TypeOK /\ InsertedOnce /\ OneVerdict /\ [Next]_vars => OneVerdict'
  <2>1. ~NoFault({"overlap", "stale_form", "staff_edit", "delete"})' => OneVerdict'
    BY DEF OneVerdict
  <2> QED
    BY <2>1, StepTells
<1>3. OneVerdict => ToldWhatStands
  BY DEF OneVerdict, ToldWhatStands
<1> QED
  BY <1>1, <1>2, <1>3, TypeCorrect, InsertedAtMostOnce, PTL DEF Spec

-----------------------------------------------------------------------------
LEMMA StepOpens ==
    ASSUME TypeOK, InsertedOnce, LinksAreOpen, [Next]_vars,
           NoFault({"overlap", "stale_form", "staff_edit", "crash",
                    "mail_failure"})'
    PROVE  LinksAreOpen'
<1> DEFINE Open == /\ status = "PENDING" =>
                        (token /\ mailed) \/ \E w \in Worker : Creating(w)
                   /\ \A w \in Worker : At(w, "mail") /\ status = "PENDING" => token
<1>g. SUFFICES Open'
  BY DEF LinksAreOpen
<1>h. Open
  BY HistoryGrows, FaultsGrow DEF LinksAreOpen
<1>t. job \in [Worker -> Job]
  BY DEF TypeOK
<1> USE DEF At, Creating, row
<1>1. ASSUME NEW w \in Worker, Create(w)
      PROVE  Open'
  BY <1>1, <1>h, <1>t, CreateMoves DEF After
<1>2. ASSUME NEW w \in Worker, Insert(w)
      PROVE  Open'
  <2>1. status = "UNBORN"
    BY <1>2 DEF Insert, InsertedOnce
  <2> QED
    BY <1>2, <1>t, <2>1, InsertMoves DEF After, InsertedOnce
<1>3. ASSUME NEW w \in Worker, Mint(w)
      PROVE  Open'
  BY <1>3, <1>t, MintMoves DEF After
<1>4. ASSUME NEW w \in Worker, NEW ok \in BOOLEAN, MailLink(w, ok)
      PROVE  Open'
  <2>1. ok /\ mailed'
    BY <1>4 DEF MailLink, NoFault
  <2>2. Stop(w) /\ UNCHANGED <<status, token>> /\ At(w, "mail")
    BY <1>4 DEF MailLink
  <2> QED
    BY <1>h, <1>t, <2>1, <2>2, StopMoves
<1>5. ASSUME NEW w \in Worker, NEW ok \in BOOLEAN, Notify(w, ok)
      PROVE  Open'
  <2>1. Stop(w) /\ UNCHANGED <<status, token, mailed>> /\ ~Creating(w)
    BY <1>5 DEF Notify
  <2> QED
    BY <1>h, <1>t, <2>1, StopMoves
<1>6. ASSUME NEW w \in Worker, Refused(w) \/ Crash(w)
      PROVE  Open'
  <2>1. Stop(w) /\ UNCHANGED <<status, token, mailed>>
    BY <1>6 DEF Refused, Crash
  <2>2. status = "PENDING" => ~Creating(w)
    BY <1>6 DEF Refused, Crash, NoFault, InsertedOnce, Exists
  <2> QED
    BY <1>h, <1>t, <2>1, <2>2, StopMoves
<1>7. ASSUME NEW w \in Worker, NEW verdict \in Decided, Click(w, verdict)
      PROVE  Open'
  <2>1. token' /\ mailed'
    BY <1>7 DEF Click
  <2> QED
    BY <2>1
<1>8. ASSUME NEW w \in Worker, Raise(w)
      PROVE  Open'
  BY <1>8, <1>h, <1>t, RaiseMoves DEF After
<1>9. ASSUME NEW w \in Worker, Save(w)
      PROVE  Open'
  BY <1>9, <1>t, SaveMoves DEF Decided
<1>10. ASSUME NEW s \in Exists, NEW ok \in BOOLEAN, AdminAdd(s, ok)
       PROVE  Open'
  BY <1>10 DEF AdminAdd, NoFault
<1>11. ASSUME NEW a \in Admin, OpenForm(a) \/ \E s \in Exists : SubmitForm(a, s)
       PROVE  Open'
  <2>1. UNCHANGED <<status, token, mailed, job>>
    BY <1>11 DEF OpenForm, SubmitForm, NoFault
  <2> QED
    BY <1>h, <2>1
<1>12. ASSUME NEW whole \in BOOLEAN, Delete(whole) \/ DeletePMO
       PROVE  Open'
  BY <1>12, <1>h DEF Delete, DeletePMO
<1>13. CASE UNCHANGED vars
  BY <1>13, <1>h DEF vars
<1> QED
  BY <1>1, <1>2, <1>3, <1>4, <1>5, <1>6, <1>7, <1>8, <1>9, <1>10, <1>11, <1>12,
     <1>13
     DEF Next, Handler, Continue, AdminSite

\* A request that waits for the PMO can be answered, or a handler is about to
\* mail the links: no verdict, torn approval or deletion closes them for it.
THEOREM PendingCanBeAnswered == Spec => []PendingIsAnswerable
<1> DEFINE F == {"overlap", "stale_form", "staff_edit", "crash", "mail_failure"}
<1>1. Init => LinksAreOpen
  BY DEF Init, LinksAreOpen, At, Idle
<1>2. TypeOK /\ InsertedOnce /\ LinksAreOpen /\ [Next]_vars => LinksAreOpen'
  <2>1. ~NoFault(F)' => LinksAreOpen'
    BY DEF LinksAreOpen
  <2> QED
    BY <2>1, StepOpens
<1>3. LinksAreOpen => PendingIsAnswerable
  BY DEF LinksAreOpen, PendingIsAnswerable
<1> QED
  BY <1>1, <1>2, <1>3, TypeCorrect, InsertedAtMostOnce, PTL DEF Spec
=============================================================================
