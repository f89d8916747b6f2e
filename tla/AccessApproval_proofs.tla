------------------------ MODULE AccessApproval_proofs ------------------------
(***************************************************************************)
(* AccessApproval is type correct, for any number of handlers, admin       *)
(* forms, tokens and approvers.  As long as no stale copy of the row has   *)
(* been written, a link decides the request at most once and is the one of *)
(* the approver the request names, who has been told of it unless his mail *)
(* was lost.  The repair follows its request unless two saves overlap, and *)
(* a decision taken through a link gets its history entry unless its       *)
(* handler is killed or the request is deleted.                            *)
(***************************************************************************)
EXTENDS AccessApproval, TLAPS

\* A blank row is a row.
LEMMA BlankIsRow == \A s \in Status \cup Absent : Blank(s) \in Row
  BY DEF Blank, Row

\* Handlers that return leave every handler variable well typed.
LEMMA FinishTyped ==
    ASSUME TypeOK, NEW w \in Worker, Finish(w)
    PROVE  /\ pc' \in [Worker -> {"idle", "save", "sync", "route", "log",
                                  "mail"}]
           /\ op' \in [Worker -> {"none", "create", "reroute", "update",
                                  "link", "review", "ask"}]
           /\ obj' \in [Worker -> Row]
           /\ key' \in [Worker -> Token \cup {NoToken}]
           /\ \A v \in Worker :
                 /\ op'[v] = "link" => key'[v] \in Token
                 /\ op'[v] = "ask" => /\ obj'[v].token \in Token
                                      /\ obj'[v].approver \in Approver
                 /\ pc'[v] = "mail" => op'[v] = "ask"
           /\ fresh' \subseteq Process
  BY BlankIsRow DEF TypeOK, Finish, Absent

\* Handlers that have read the row leave everything well typed.
LEMMA BeginTyped ==
    ASSUME TypeOK, NEW w \in Worker, NEW r \in Row,
           NEW t \in Token \cup {NoToken},
           NEW o \in {"update", "link", "review"},
           o = "link" => t \in Token, Begin(w, o, r, t)
    PROVE  TypeOK'
  BY DEF TypeOK, Begin, rowVars, linkVars, Process

\* save() turns a row into a row, and what it generates is a token.
LEMMA ModelSaveTyped ==
    ASSUME NEW r \in Row, NEW s \in ModelSave(r), issued \subseteq Token
    PROVE  s \in Row /\ Generated(r, s) \subseteq Token
  BY DEF ModelSave, Generated, NeedsToken, Row

\* The repair stays well typed when it follows a request.
LEMMA SyncTyped ==
    ASSUME repair \in Repair, NEW s, SyncRepair(s)
    PROVE  repair' \in Repair
<1>1. RepairStatus(s) \in Repair
  BY DEF RepairStatus, Repair
<1> QED
  BY <1>1 DEF SyncRepair

\* A write adds faults only.
LEMMA WriteFaultsTyped == \A p : WriteFaults(p) \subseteq Fault
  BY DEF WriteFaults, Fault

\* save_model's request for an approval leaves the row well typed.
LEMMA SaveAndAskTyped ==
    ASSUME TypeOK, NEW p, NEW a \in Approver, NEW c \in BOOLEAN,
           SaveAndAsk(p, a, c)
    PROVE  /\ row' \in Row
           /\ repair' \in Repair
           /\ issued' \subseteq Token
           /\ silent' \subseteq Token
           /\ mailed' \subseteq Token \X Approver
           /\ faults' \subseteq Fault
<1> PICK t \in Token \ issued :
       /\ issued' = issued \cup {t}
       /\ IF c
          THEN /\ row' = [status |-> "APPROVAL_REQUIRED", token |-> t,
                          approver |-> a]
               /\ SyncRepair("APPROVAL_REQUIRED")
          ELSE UNCHANGED <<row, repair>>
       /\ UNCHANGED silent
       /\ \/ /\ mailed' = mailed \cup {<<t, a>>}
             /\ faults' = faults \cup (IF c THEN WriteFaults(p)
                                       ELSE {"crash"})
          \/ /\ c
             /\ faults' = faults \cup WriteFaults(p) \cup {"mail_failure"}
             /\ UNCHANGED mailed
  BY DEF SaveAndAsk
<1>1. row' \in Row
  BY DEF TypeOK, Row, Status, Open
<1>2. repair' \in Repair
  BY SyncTyped DEF TypeOK
<1>3. faults' \subseteq Fault
  BY WriteFaultsTyped DEF TypeOK, Fault
<1> QED
  BY <1>1, <1>2, <1>3 DEF TypeOK

\* Every variable keeps its type, whichever handler or form takes a step.
THEOREM TypeCorrect == Spec => []TypeOK
<1>1. Init => TypeOK
  BY BlankIsRow, TypesAssumption DEF Init, TypeOK, Absent, Repair, Process
<1>2. TypeOK /\ [Next]_vars => TypeOK'
  <2> SUFFICES ASSUME TypeOK, [Next]_vars PROVE TypeOK'
    OBVIOUS
  <2>1. ASSUME NEW w \in Worker, Create(w) PROVE TypeOK'
    BY <2>1, BlankIsRow
       DEF Create, TypeOK, Status, Open, linkVars, Process
  <2>2. ASSUME NEW w \in Worker, NEW v \in Verdict,
               LinkClick(w, v) \/ OwnerLinkClick(w, v) PROVE TypeOK'
    <3>1. [row EXCEPT !.status = v, !.token = NoToken] \in Row
      BY <2>2 DEF TypeOK, Row, Verdict, Status
    <3>2. row.token \in Token
      BY <2>2 DEF TypeOK, LinkClick, OwnerLinkClick
    <3> QED
      BY <2>2, <3>1, <3>2, BeginTyped DEF LinkClick, OwnerLinkClick
  <2>3. ASSUME NEW w \in Worker, NEW v \in Verdict, Review(w, v) PROVE TypeOK'
    <3>1. [row EXCEPT !.status = v] \in Row
      BY <2>3 DEF TypeOK, Row, Verdict, Status
    <3> QED
      BY <2>3, <3>1, BeginTyped DEF Review
  <2>4. ASSUME NEW w \in Worker, NEW p \in Approver, Ask(w, p) PROVE TypeOK'
    <3> PICK t \in Token \ issued :
          /\ pc[w] = "idle"
          /\ pc' = [pc EXCEPT ![w] = "save"]
          /\ op' = [op EXCEPT ![w] = "ask"]
          /\ obj' = [obj EXCEPT ![w] = [status |-> "APPROVAL_REQUIRED",
                                        token |-> t, approver |-> p]]
          /\ issued' = issued \cup {t}
          /\ fresh' = fresh \cup {w}
      BY <2>4 DEF Ask
    <3>1. [status |-> "APPROVAL_REQUIRED", token |-> t, approver |-> p] \in Row
      BY DEF Row, Status, Open
    <3> QED
      BY <2>4, <3>1 DEF Ask, TypeOK, linkVars, Process
  <2>5. ASSUME NEW w \in Worker, Update(w) PROVE TypeOK'
    BY <2>5, BeginTyped DEF Update, TypeOK
  <2>6. ASSUME NEW w \in Worker, Save(w) PROVE TypeOK'
    <3> PICK r \in ModelSave(obj[w]) :
          /\ row' = r
          /\ obj' = [obj EXCEPT ![w] = r]
          /\ issued' = issued \cup Generated(obj[w], r)
          /\ silent' = silent \cup Generated(obj[w], r)
      BY <2>6 DEF Save
    <3>1. r \in Row /\ Generated(obj[w], r) \subseteq Token
      BY ModelSaveTyped DEF TypeOK
    <3>2. faults' \subseteq Fault
      BY <2>6, WriteFaultsTyped DEF Save, TypeOK
    <3>4. spent' \subseteq Token /\ respent' \subseteq Token
      BY <2>6 DEF Save, TypeOK
    <3>5. op[w] = "ask" => r.token \in Token /\ r.approver \in Approver
      BY DEF ModelSave, NeedsToken, TypeOK, Row
    <3> QED
      BY <2>6, <3>1, <3>2, <3>4, <3>5 DEF Save, TypeOK, Process
  <2>7. ASSUME NEW w \in Worker, Sync(w) PROVE TypeOK'
    <3>1. repair' \in Repair
      BY <2>7, SyncTyped DEF Sync, TypeOK
    <3>2. CASE Finish(w)
      BY <2>7, <3>1, <3>2, FinishTyped DEF Sync, TypeOK, linkVars
    <3>4. CASE /\ \/ pc' = [pc EXCEPT ![w] = "route"]
                  \/ pc' = [pc EXCEPT ![w] = "log"]
               /\ UNCHANGED <<op, obj, key, fresh>>
      BY <2>7, <3>1, <3>4 DEF Sync, TypeOK, linkVars
    <3> QED
      BY <2>7, <3>2, <3>4 DEF Sync
  <2>8. ASSUME NEW w \in Worker, Log(w) PROVE TypeOK'
    <3>1. history' \subseteq Token
      BY <2>8 DEF Log, TypeOK
    <3>2. CASE Finish(w)
      BY <2>8, <3>1, <3>2, FinishTyped DEF Log, TypeOK, linkVars
    <3>3. CASE /\ op[w] = "ask"
               /\ pc' = [pc EXCEPT ![w] = "mail"]
               /\ UNCHANGED <<op, obj, key, fresh>>
      BY <2>8, <3>1, <3>3 DEF Log, TypeOK, linkVars
    <3> QED
      BY <2>8, <3>2, <3>3 DEF Log
  <2>9. ASSUME NEW w \in Worker, Mail(w) PROVE TypeOK'
    <3>0. pc[w] = "mail"
      BY <2>9 DEF Mail
    <3>1. op[w] = "ask"
      BY <3>0 DEF TypeOK
    <3>2. <<obj[w].token, obj[w].approver>> \in Token \X Approver
      BY <3>1 DEF TypeOK
    <3>3. mailed' \subseteq Token \X Approver
      BY <2>9, <3>2 DEF Mail, TypeOK
    <3>4. faults' \subseteq Fault
      BY <2>9 DEF Mail, TypeOK, Fault
    <3> QED
      BY <2>9, <3>3, <3>4, FinishTyped DEF Mail, TypeOK, rowVars, linkVars
  <2>10. ASSUME NEW w \in Worker, Crash(w) PROVE TypeOK'
    BY <2>10, FinishTyped DEF Crash, TypeOK, rowVars, linkVars, Fault
  <2>11. ASSUME NEW a \in Admin, OpenForm(a) PROVE TypeOK'
    BY <2>11 DEF OpenForm, TypeOK, rowVars, handlerVars, linkVars, Process
  <2>12. ASSUME NEW a \in Admin, NEW s \in Status,
                NEW p \in Approver \cup {NoApprover}, SubmitForm(a, s, p)
         PROVE  TypeOK'
    <3> DEFINE posted == [form[a] EXCEPT !.status = s, !.approver = p]
    <3>1. posted \in Row
      BY DEF TypeOK, Row
    <3>2. form' \in [Admin -> Row] /\ fresh' \subseteq Process
      BY <2>12, BlankIsRow DEF SubmitForm, TypeOK, Absent
    <3>3. CASE ApproverChanged(posted) /\ SaveAndAsk(a, p, TRUE)
      <4>1. p \in Approver
        BY <3>3 DEF ApproverChanged, TypeOK, Row
      <4> QED
        BY <2>12, <3>2, <3>3, <4>1, SaveAndAskTyped
           DEF SubmitForm, TypeOK, handlerVars, linkVars
    <3>4. ASSUME NEW r \in ModelSave(posted),
                 row' = r,
                 issued' = issued \cup Generated(posted, r),
                 silent' = silent \cup Generated(posted, r),
                 SyncRepair(r.status),
                 faults' = faults \cup WriteFaults(a),
                 UNCHANGED mailed
          PROVE  TypeOK'
      <4>1. r \in Row /\ Generated(posted, r) \subseteq Token
        BY <3>1, ModelSaveTyped DEF TypeOK
      <4>2. repair' \in Repair /\ faults' \subseteq Fault
        BY <3>4, SyncTyped, WriteFaultsTyped DEF TypeOK
      <4> QED
        BY <2>12, <3>2, <3>4, <4>1, <4>2
           DEF SubmitForm, TypeOK, handlerVars, linkVars
    <3> QED
      BY <2>12, <3>3, <3>4 DEF SubmitForm
  <2>13. ASSUME NEW a \in Admin, NEW s \in Status, NEW p \in Approver,
                RollbackForm(a, s, p)
         PROVE  TypeOK'
    <3>1. form' \in [Admin -> Row] /\ fresh' \subseteq Process
      BY <2>13, BlankIsRow DEF RollbackForm, TypeOK, Absent
    <3> QED
      BY <2>13, <3>1, SaveAndAskTyped
         DEF RollbackForm, TypeOK, handlerVars, linkVars
  <2>14. ASSUME NEW a \in Admin, OwnerResave(a) PROVE TypeOK'
    <3>1. row.approver \in Approver
      BY <2>14 DEF OwnerResave, ApproverChanged, TypeOK, Row
    <3> QED
      BY <2>14, <3>1, SaveAndAskTyped
         DEF OwnerResave, TypeOK, handlerVars, linkVars
  <2>15. ASSUME NEW s \in Status, NEW p \in Approver \cup {NoApprover},
                AddForm(s, p)
         PROVE  TypeOK'
    <3> DEFINE added == [Blank(s) EXCEPT !.approver = p]
    <3>1. added \in Row
      BY DEF Blank, Row
    <3> PICK r \in ModelSave(added) :
           /\ row' = r
           /\ issued' = issued \cup Generated(Blank(s), r)
           /\ silent' = silent \cup Generated(Blank(s), r)
           /\ SyncRepair(r.status)
      BY <2>15 DEF AddForm
    <3>2. r \in Row /\ Generated(added, r) \subseteq Token
      BY <3>1, ModelSaveTyped DEF TypeOK
    <3>3. Generated(added, r) = Generated(Blank(s), r)
      BY DEF Generated, NeedsToken, Blank
    <3>4. repair' \in Repair
      BY SyncTyped DEF TypeOK
    <3> QED
      BY <2>15, <3>2, <3>3, <3>4 DEF AddForm, TypeOK, handlerVars, linkVars
  <2>16. CASE Delete
    BY <2>16, BlankIsRow DEF Delete, TypeOK, handlerVars, linkVars, Absent, Fault
  <2>17. ASSUME NEW s \in Repair, StaffEditRepair(s) PROVE TypeOK'
    BY <2>17 DEF StaffEditRepair, TypeOK, handlerVars, linkVars, Fault
  <2>19. ASSUME NEW w \in Worker, Route(w) PROVE TypeOK'
    <3>1. CASE Finish(w)
      BY <2>19, <3>1, FinishTyped DEF Route, TypeOK, rowVars, linkVars
    <3>2. CASE /\ pc' = [pc EXCEPT ![w] = "save"]
               /\ op' = [op EXCEPT ![w] = "reroute"]
               /\ UNCHANGED <<obj, key, fresh>>
      BY <2>19, <3>2 DEF Route, TypeOK, rowVars, linkVars
    <3> QED
      BY <2>19, <3>1, <3>2 DEF Route
  <2>18. CASE UNCHANGED vars
    BY <2>18 DEF vars, rowVars, handlerVars, linkVars, TypeOK
  <2> QED
    BY <2>1, <2>2, <2>3, <2>4, <2>5, <2>6, <2>7, <2>8, <2>9, <2>10, <2>11,
       <2>12, <2>13, <2>14, <2>15, <2>16, <2>17, <2>18, <2>19
       DEF Next, Handler, AdminSite
<1> QED
  BY <1>1, <1>2, PTL DEF Spec

-----------------------------------------------------------------------------
\* No step takes a fault back.
LEMMA FaultsGrow == [Next]_vars => faults \subseteq faults'
  BY DEF Next, Handler, AdminSite, Create, LinkClick, OwnerLinkClick, Review,
         Ask, Update, Save, Sync, Route, Log, Mail, Crash, OpenForm, SubmitForm,
         RollbackForm, AddForm, OwnerResave, Delete, StaffEditRepair, Begin,
         SaveAndAsk, vars

\* A step that returns from a handler and writes neither the row nor tokens
\* keeps the rules.
LEMMA FinishKeepsRules ==
    ASSUME TypeOK, TokenRules, NoLostUpdate, NEW w \in Worker, Finish(w),
           UNCHANGED <<row, issued, spent, respent, form>>
    PROVE  TokenRules'
  BY ProcessAssumption
     DEF TypeOK, TokenRules, Finish, RowToken, SpentOnce, DecidingCopy,
         AskingCopy, CurrentCopy, CurrentForm, Deciding, Asking, NoLostUpdate

\* A handler that reads the row and keeps its token, or is about to use it up,
\* keeps the rules.
LEMMA BeginKeepsRules ==
    ASSUME TypeOK, TokenRules, NoLostUpdate, NEW w \in Worker,
           NEW o \in {"update", "link", "review"}, NEW r \in Row, NEW t,
           Begin(w, o, r, t),
           IF o = "link" THEN t \in Token /\ t = row.token /\ r.token = NoToken
                         ELSE r.token = row.token
    PROVE  TokenRules'
<1> USE DEF TypeOK, TokenRules, Begin, rowVars, linkVars, Deciding, Asking,
            NoLostUpdate
<1>1. RowToken' /\ SpentOnce'
  BY DEF RowToken, SpentOnce
<1>2. DecidingCopy'
  BY DEF DecidingCopy
<1>3. AskingCopy'
  BY DEF AskingCopy
<1>4. CurrentCopy'
  BY DEF CurrentCopy
<1>5. CurrentForm'
  BY ProcessAssumption DEF CurrentForm
<1> QED
  BY <1>1, <1>2, <1>3, <1>4, <1>5

\* A write of the row by an admin form, which leaves only stale copies behind,
\* keeps the rules if the row keeps its token, loses it or gets a new one.
LEMMA FormKeepsRules ==
    ASSUME TypeOK, TokenRules, NoLostUpdate,
           UNCHANGED <<pc, op, obj, key, spent, respent>>,
           fresh' = {},
           issued \subseteq issued',
           \/ row'.token \in {row.token, NoToken}
           \/ row'.token \in issued' \ issued
    PROVE  TokenRules'
<1> USE NoTokenAssumption
        DEF TypeOK, TokenRules, Deciding, Asking, NoLostUpdate
<1>1. RowToken' /\ SpentOnce'
  BY DEF RowToken, SpentOnce
<1>2. AskingCopy'
  BY DEF AskingCopy
<1>3. DecidingCopy' /\ CurrentCopy' /\ CurrentForm'
  BY DEF DecidingCopy, CurrentCopy, CurrentForm
<1> QED
  BY <1>1, <1>2, <1>3

\* The token save_model sends to an approver is a new one.
LEMMA SaveAndAskIssues ==
    ASSUME NEW p, NEW a, NEW c \in BOOLEAN, SaveAndAsk(p, a, c)
    PROVE  /\ issued \subseteq issued'
           /\ IF c THEN row'.token \in issued' \ issued ELSE row' = row
  BY DEF SaveAndAsk

\* So is the token save() generates; otherwise save() keeps the token.
LEMMA ModelSaveIssues ==
    ASSUME NEW r \in Row, NEW s \in ModelSave(r)
    PROVE  IF NeedsToken(r) THEN /\ s.token \in Token \ issued
                                 /\ Generated(r, s) = {s.token}
                                 /\ r.token = NoToken
                            ELSE s = r /\ Generated(r, s) = {}
  BY DEF ModelSave, Generated, NeedsToken, Row

\* Hence a write through save() keeps the token or puts in a new one.
LEMMA ModelSaveToken ==
    ASSUME NEW r \in Row, NEW s \in ModelSave(r),
           issued' = issued \cup Generated(r, s)
    PROVE  /\ issued \subseteq issued'
           /\ s.token = r.token \/ s.token \in issued' \ issued
<1>1. CASE NeedsToken(r)
  BY <1>1, ModelSaveIssues
<1>2. CASE ~NeedsToken(r)
  BY <1>2, ModelSaveIssues
<1> QED
  BY <1>1, <1>2

\* The save of a handler keeps the rules.
LEMMA SaveKeepsRules ==
    ASSUME TypeOK, TokenRules, NoLostUpdate, NoLostUpdate',
           NEW w \in Worker, Save(w)
    PROVE  TokenRules'
<1> USE NoTokenAssumption, ProcessAssumption
<1>1. w \in fresh
  BY DEF Save, WriteFaults, NoLostUpdate
<1>2. RowToken /\ SpentOnce /\ DecidingCopy /\ AskingCopy /\ CurrentCopy
        /\ CurrentForm
  BY DEF TokenRules
<1>3. PICK r \in ModelSave(obj[w]) :
        /\ row' = r
        /\ obj' = [obj EXCEPT ![w] = r]
        /\ issued' = issued \cup Generated(obj[w], r)
  BY DEF Save
<1>4. obj[w] \in Row /\ r \in Row
  BY ModelSaveTyped DEF TypeOK
<1>5. pc[w] = "save" /\ pc' = [pc EXCEPT ![w] = "sync"] /\ fresh' = {w}
        /\ UNCHANGED <<op, key, form>>
  BY DEF Save
<1>6. \/ r.token \in Token \ issued /\ issued' = issued \cup {r.token}
      \/ r = obj[w] /\ issued' = issued
  BY <1>3, <1>4, ModelSaveIssues
<1>7. CASE op[w] = "link"
  <2>1. key[w] = row.token /\ key[w] \in Token /\ obj[w].token = NoToken
    BY <1>1, <1>2, <1>5, <1>7 DEF DecidingCopy, Deciding, TypeOK
  <2>2. spent' = spent \cup {key[w]} /\ respent' = {}
    BY <1>2, <1>7, <2>1 DEF Save, SpentOnce, RowToken
  <2>3. RowToken' /\ SpentOnce'
    BY <1>2, <1>3, <1>6, <2>1, <2>2 DEF RowToken, SpentOnce, TypeOK
  <2>4. AskingCopy'
    BY <1>2, <1>3, <1>5, <1>6, <1>7, <2>1, <2>2
       DEF AskingCopy, Asking, TypeOK
  <2>5. DecidingCopy' /\ CurrentCopy' /\ CurrentForm'
    BY <1>3, <1>5 DEF DecidingCopy, CurrentCopy, CurrentForm, Deciding, TypeOK
  <2> QED
    BY <2>3, <2>4, <2>5 DEF TokenRules
<1>8. CASE op[w] # "link"
  <2>1. spent' = spent /\ respent' = respent
    BY <1>8 DEF Save
  <2>2. CASE op[w] = "ask"
    <3>1. obj[w].token \in issued \ spent /\ obj[w].token # row.token
            /\ \A v \in Worker \ {w} :
                  Asking(v) => obj[v].token # obj[w].token
      BY <1>2, <1>5, <2>2 DEF AskingCopy, Asking
    <3>2. RowToken' /\ SpentOnce'
      BY <1>2, <1>3, <1>6, <2>1, <3>1 DEF RowToken, SpentOnce, TypeOK
    <3>3. AskingCopy'
      BY <1>2, <1>3, <1>5, <1>6, <2>1, <3>1 DEF AskingCopy, Asking, TypeOK
    <3>4. DecidingCopy' /\ CurrentCopy' /\ CurrentForm'
      BY <1>3, <1>5 DEF DecidingCopy, CurrentCopy, CurrentForm, Deciding, TypeOK
    <3> QED
      BY <3>2, <3>3, <3>4 DEF TokenRules
  <2>3. CASE op[w] # "ask"
    <3>1. obj[w].token = row.token
      BY <1>1, <1>2, <1>5, <1>8, <2>3 DEF CurrentCopy, Deciding, Asking
    <3>2. RowToken' /\ SpentOnce'
      BY <1>2, <1>3, <1>6, <2>1, <3>1 DEF RowToken, SpentOnce, TypeOK
    <3>3. AskingCopy'
      BY <1>2, <1>3, <1>5, <1>6, <2>1, <3>1 DEF AskingCopy, Asking, TypeOK
    <3>4. DecidingCopy' /\ CurrentCopy' /\ CurrentForm'
      BY <1>3, <1>5 DEF DecidingCopy, CurrentCopy, CurrentForm, Deciding, TypeOK
    <3> QED
      BY <3>2, <3>3, <3>4 DEF TokenRules
  <2> QED
    BY <2>2, <2>3
<1> QED
  BY <1>7, <1>8

\* The inductive invariant behind the two token properties.
THEOREM TokenRulesHold == Spec => []TokenRules
<1>1. Init => TokenRules
  BY DEF Init, TokenRules, RowToken, SpentOnce, DecidingCopy, AskingCopy,
         CurrentCopy, CurrentForm, Deciding, Asking, Blank
<1>2. TypeOK /\ TokenRules /\ [Next]_vars => TokenRules'
  <2> SUFFICES ASSUME TypeOK, TokenRules, [Next]_vars, NoLostUpdate'
               PROVE  TokenRules'
    BY DEF TokenRules
  <2> USE NoTokenAssumption, ProcessAssumption
  <2>0. NoLostUpdate
    BY FaultsGrow DEF NoLostUpdate
  <2> USE <2>0
  <2>1. ASSUME NEW w \in Worker, Create(w) PROVE TokenRules'
    <3>1. /\ row'.token = NoToken /\ obj' = [obj EXCEPT ![w] = row']
          /\ pc' = [pc EXCEPT ![w] = "sync"] /\ op' = [op EXCEPT ![w] = "create"]
          /\ fresh' = {w}
          /\ UNCHANGED <<issued, key, form, spent, respent>>
      BY <2>1 DEF Create, Blank, linkVars
    <3> QED
      BY <3>1 DEF TypeOK, TokenRules, RowToken, SpentOnce, DecidingCopy,
                  AskingCopy, CurrentCopy, CurrentForm, Deciding, Asking
  <2>2. ASSUME NEW w \in Worker, NEW v \in Verdict,
               LinkClick(w, v) \/ OwnerLinkClick(w, v) PROVE TokenRules'
    <3>1. [row EXCEPT !.status = v, !.token = NoToken] \in Row
      BY <2>2 DEF TypeOK, Row, Verdict, Status
    <3>2. row.token \in Token
      BY <2>2 DEF TypeOK, LinkClick, OwnerLinkClick
    <3>3. [row EXCEPT !.status = v, !.token = NoToken].token = NoToken
      BY DEF TypeOK, Row
    <3> QED
      BY <2>2, <3>1, <3>2, <3>3, BeginKeepsRules DEF LinkClick, OwnerLinkClick
  <2>3. ASSUME NEW w \in Worker, NEW v \in Verdict, Review(w, v)
        PROVE  TokenRules'
    <3>1. [row EXCEPT !.status = v] \in Row
            /\ [row EXCEPT !.status = v].token = row.token
      BY DEF TypeOK, Row, Verdict, Status
    <3> QED
      BY <2>3, <3>1, BeginKeepsRules DEF Review
  <2>4. ASSUME NEW w \in Worker, NEW p \in Approver, Ask(w, p)
        PROVE  TokenRules'
    <3> PICK t \in Token \ issued :
          /\ pc[w] = "idle"
          /\ pc' = [pc EXCEPT ![w] = "save"]
          /\ op' = [op EXCEPT ![w] = "ask"]
          /\ obj' = [obj EXCEPT ![w] = [status |-> "APPROVAL_REQUIRED",
                                        token |-> t, approver |-> p]]
          /\ issued' = issued \cup {t}
          /\ fresh' = fresh \cup {w}
      BY <2>4 DEF Ask
    <3>1. UNCHANGED <<row, key, form, spent, respent>>
      BY <2>4 DEF Ask, linkVars
    <3>2. RowToken' /\ SpentOnce' /\ CurrentForm'
      BY <3>1 DEF TypeOK, TokenRules, RowToken, SpentOnce, CurrentForm
    <3>3. DecidingCopy' /\ CurrentCopy'
      BY <3>1 DEF TypeOK, TokenRules, DecidingCopy, CurrentCopy, Deciding, Asking
    <3>4. AskingCopy'
      BY <3>1 DEF TypeOK, TokenRules, RowToken, SpentOnce, AskingCopy, Asking
    <3> QED
      BY <3>2, <3>3, <3>4 DEF TokenRules
  <2>5. ASSUME NEW w \in Worker, Update(w) PROVE TokenRules'
    BY <2>5, BeginKeepsRules DEF Update, TypeOK
  <2>6. ASSUME NEW w \in Worker, Save(w) PROVE TokenRules'
    BY <2>6, SaveKeepsRules
  <2>7. ASSUME NEW w \in Worker, Sync(w) PROVE TokenRules'
    <3>1. UNCHANGED <<row, issued, spent, respent, form>>
      BY <2>7 DEF Sync, linkVars
    <3>2. CASE Finish(w)
      BY <3>1, <3>2, FinishKeepsRules
    <3>4. CASE /\ \/ pc' = [pc EXCEPT ![w] = "route"]
                  \/ pc' = [pc EXCEPT ![w] = "log"]
               /\ UNCHANGED <<op, obj, key, fresh>>
      BY <2>7, <3>1, <3>4
         DEF Sync, TypeOK, TokenRules, RowToken, SpentOnce, DecidingCopy,
             AskingCopy, CurrentCopy, CurrentForm, Deciding, Asking
    <3> QED
      BY <2>7, <3>2, <3>4 DEF Sync
  <2>8. ASSUME NEW w \in Worker, Log(w) PROVE TokenRules'
    <3>1. UNCHANGED <<row, issued, spent, respent, form>>
      BY <2>8 DEF Log, linkVars
    <3>2. CASE Finish(w)
      BY <3>1, <3>2, FinishKeepsRules
    <3>3. CASE /\ pc' = [pc EXCEPT ![w] = "mail"]
               /\ UNCHANGED <<op, obj, key, fresh>>
      BY <2>8, <3>1, <3>3
         DEF Log, TypeOK, TokenRules, RowToken, SpentOnce, DecidingCopy,
             AskingCopy, CurrentCopy, CurrentForm, Deciding, Asking
    <3> QED
      BY <2>8, <3>2, <3>3 DEF Log
  <2>9. ASSUME NEW w \in Worker, Mail(w) \/ Crash(w) PROVE TokenRules'
    BY <2>9, FinishKeepsRules DEF Mail, Crash, rowVars, linkVars
  <2>10. ASSUME NEW a \in Admin, OpenForm(a) PROVE TokenRules'
    BY <2>10
       DEF OpenForm, rowVars, handlerVars, linkVars, TypeOK, TokenRules,
           RowToken, SpentOnce, DecidingCopy, AskingCopy, CurrentCopy,
           CurrentForm, Deciding, Asking
  <2>11. ASSUME NEW a \in Admin, NEW s \in Status,
                NEW p \in Approver \cup {NoApprover}, SubmitForm(a, s, p)
         PROVE  TokenRules'
    <3> DEFINE posted == [form[a] EXCEPT !.status = s, !.approver = p]
    <3>1. UNCHANGED <<pc, op, obj, key, spent, respent>> /\ fresh' = {}
      BY <2>11 DEF SubmitForm, handlerVars, linkVars
    <3>2. CASE SaveAndAsk(a, p, TRUE)
      BY <3>1, <3>2, SaveAndAskIssues, FormKeepsRules
    <3>3. ASSUME NEW r \in ModelSave(posted),
                 row' = r, issued' = issued \cup Generated(posted, r),
                 faults' = faults \cup WriteFaults(a)
          PROVE  TokenRules'
      <4>1. posted \in Row /\ posted.token = form[a].token
        BY DEF TypeOK, Row
      <4>2. a \in fresh
        BY <3>3 DEF WriteFaults, NoLostUpdate
      <4>3. posted.token = row.token
        BY <2>11, <4>1, <4>2 DEF SubmitForm, TokenRules, CurrentForm
      <4>4. issued \subseteq issued' /\ (\/ row'.token = row.token
                                        \/ row'.token \in issued' \ issued)
        BY <3>3, <4>1, <4>3, ModelSaveToken
      <4> QED
        BY <3>1, <4>4, FormKeepsRules
    <3> QED
      BY <2>11, <3>2, <3>3 DEF SubmitForm
  <2>12. ASSUME NEW a \in Admin, NEW s \in Status, NEW p \in Approver,
                RollbackForm(a, s, p)
         PROVE  TokenRules'
    <3>1. /\ row' = row /\ issued \subseteq issued'
          /\ UNCHANGED <<pc, op, obj, key, spent, respent>>
          /\ form' = [form EXCEPT ![a] = Blank("UNBORN")]
          /\ fresh' = fresh \ {a}
      BY <2>12, SaveAndAskIssues DEF RollbackForm, handlerVars, linkVars
    <3> QED
      BY <3>1 DEF TypeOK, TokenRules, RowToken, SpentOnce, DecidingCopy,
                  AskingCopy, CurrentCopy, CurrentForm, Deciding, Asking
  <2>13. ASSUME NEW a \in Admin, OwnerResave(a) PROVE TokenRules'
    <3>1. UNCHANGED <<pc, op, obj, key, spent, respent>> /\ fresh' = {}
      BY <2>13 DEF OwnerResave, handlerVars, linkVars
    <3>2. SaveAndAsk(a, row.approver, TRUE)
      BY <2>13 DEF OwnerResave
    <3> QED
      BY <3>1, <3>2, SaveAndAskIssues, FormKeepsRules
  <2>14. ASSUME NEW s \in Status, NEW p \in Approver \cup {NoApprover},
                AddForm(s, p)
         PROVE  TokenRules'
    <3> DEFINE added == [Blank(s) EXCEPT !.approver = p]
    <3> PICK r \in ModelSave(added) :
           row' = r /\ issued' = issued \cup Generated(Blank(s), r)
      BY <2>14 DEF AddForm
    <3>1. added \in Row /\ added.token = NoToken
            /\ Generated(added, r) = Generated(Blank(s), r)
      BY DEF Blank, Row, Generated, NeedsToken
    <3>2. issued \subseteq issued' /\ (\/ row'.token = NoToken
                                      \/ row'.token \in issued' \ issued)
      BY <3>1, ModelSaveToken
    <3>3. UNCHANGED <<pc, op, obj, key, spent, respent>> /\ fresh' = {}
      BY <2>14 DEF AddForm, handlerVars, linkVars
    <3> QED
      BY <3>2, <3>3, FormKeepsRules
  <2>15. CASE Delete
    <3>1. row'.token = NoToken /\ fresh' = {}
            /\ UNCHANGED <<pc, op, obj, key, spent, respent, issued>>
      BY <2>15 DEF Delete, Blank, handlerVars, linkVars
    <3> QED
      BY <3>1, FormKeepsRules
  <2>16. ASSUME NEW s \in Repair, StaffEditRepair(s) PROVE TokenRules'
    BY <2>16
       DEF StaffEditRepair, handlerVars, linkVars, TypeOK, TokenRules,
           RowToken, SpentOnce, DecidingCopy, AskingCopy, CurrentCopy,
           CurrentForm, Deciding, Asking
  <2>18. ASSUME NEW w \in Worker, Route(w) PROVE TokenRules'
    <3>1. UNCHANGED <<row, issued, spent, respent, form>>
      BY <2>18 DEF Route, rowVars, linkVars
    <3>2. CASE Finish(w)
      BY <3>1, <3>2, FinishKeepsRules
    <3>3. CASE /\ pc' = [pc EXCEPT ![w] = "save"]
               /\ op' = [op EXCEPT ![w] = "reroute"]
               /\ UNCHANGED <<obj, key, fresh>>
      <4>1. ~Deciding(w) /\ ~Asking(w) /\ ~Deciding(w)' /\ ~Asking(w)'
        BY <2>18, <3>3 DEF Route, Deciding, Asking, TypeOK
      <4>2. pc[w] # "idle"
        BY <2>18 DEF Route
      <4> QED
        BY <3>1, <3>3, <4>1, <4>2
           DEF TypeOK, TokenRules, RowToken, SpentOnce, DecidingCopy,
               AskingCopy, CurrentCopy, CurrentForm, Deciding, Asking
    <3> QED
      BY <2>18, <3>2, <3>3 DEF Route
  <2>17. CASE UNCHANGED vars
    BY <2>17
       DEF vars, rowVars, handlerVars, linkVars, TokenRules, RowToken,
           SpentOnce, DecidingCopy, AskingCopy, CurrentCopy, CurrentForm,
           Deciding, Asking
  <2> QED
    BY <2>1, <2>2, <2>3, <2>4, <2>5, <2>6, <2>7, <2>8, <2>9, <2>10, <2>11,
       <2>12, <2>13, <2>14, <2>15, <2>16, <2>17, <2>18
       DEF Next, Handler, AdminSite
<1> QED
  BY <1>1, <1>2, TypeCorrect, PTL DEF Spec

\* A link decides at most once: handle_approval clears the token, and without
\* a lost update no step, not even a reopening, brings a cleared token back.
THEOREM LinkDecidesOnce == Spec => []TokenDecidesOnce
<1>1. TokenRules => TokenDecidesOnce
  BY DEF TokenRules, SpentOnce, TokenDecidesOnce
<1> QED
  BY <1>1, TokenRulesHold, PTL

\* A token that has decided the request is never in the row again.
THEOREM SpentTokenStaysDead == Spec => []SpentTokenIsDead
<1>1. TokenRules => SpentTokenIsDead
  BY DEF TokenRules, RowToken, SpentTokenIsDead
<1> QED
  BY <1>1, TokenRulesHold, PTL

-----------------------------------------------------------------------------
(***************************************************************************)
(* Where handlers and the row may be.  A handler at work has a request to  *)
(* write, and the row is blank before it is created and when it is gone.   *)
(***************************************************************************)
HandlersFit ==
    \A w \in Worker : /\ pc[w] # "idle" => obj[w].status \in Status
                      /\ pc[w] = "route" => op[w] = "create"

RowFits ==
    /\ row.status = "UNBORN" => \A w \in Worker : pc[w] = "idle"
    /\ row.status = "DELETED" => "delete" \in faults
    /\ row.status \in Absent => row.token = NoToken
    /\ row.status = "APPROVAL_REQUIRED" => row.token \in Token

(***************************************************************************)
(* Each token is for one approver: who it was mailed to, or the one that   *)
(* a handler is asking with it.  The row names nobody else with it.        *)
(***************************************************************************)
SentTo(t, p) ==
    \/ <<t, p>> \in mailed
    \/ \E w \in Worker : op[w] = "ask" /\ obj[w].token = t /\ obj[w].approver = p

OneApproverEach ==
    \A t \in Token, p \in Approver :
        SentTo(t, p) => /\ t \in issued
                        /\ \A q \in Approver : SentTo(t, q) => q = p

RowNames ==
    row.token \in Token =>
        \A p \in Approver :
            SentTo(row.token, p) => row.approver \in {p, NoApprover}

CopyNames ==
    \A w \in Worker \cap fresh :
        pc[w] = "idle" \/ op[w] = "ask" \/ obj[w].approver = row.approver

ApproverRules == NoLostUpdate => RowNames /\ CopyNames

(***************************************************************************)
(* The token of the row is known to its approver, is on its way, or was    *)
(* made up by save().                                                      *)
(***************************************************************************)
Told(t) ==
    \/ t \in silent
    \/ \E p \in Approver : <<t, p>> \in mailed
    \/ \E w \in Worker : pc[w] # "idle" /\ op[w] = "ask" /\ obj[w].token = t

NoMailLost == NoLostUpdate /\ faults \cap {"crash", "mail_failure"} = {}

TokenTold == NoMailLost /\ row.token \in Token => Told(row.token)

(***************************************************************************)
(* The repair.  Without an overlap one handler at a time is between its    *)
(* save and its signal, and what it saved is still in the row.             *)
(***************************************************************************)
RepairUndisturbed ==
    request_type = "ASSET_REPAIR" /\ faults \cap {"crash", "staff_edit", "overlap"} = {}

RepairFollows ==
    /\ \A v, w \in Worker : pc[v] = "sync" /\ pc[w] = "sync" => v = w
    /\ Exists =>
          /\ \A w \in Worker : pc[w] = "sync" => obj[w].status = row.status
          /\ \/ \E w \in Worker : pc[w] = "sync"
             \/ repair = RepairStatus(row.status)

RepairRules == RepairUndisturbed => RepairFollows

(***************************************************************************)
(* The trail.  The handler of a decision that is not in the history yet is *)
(* on its way there.                                                       *)
(***************************************************************************)
Logging(w, t) == pc[w] \in {"sync", "log"} /\ op[w] = "link" /\ key[w] = t

TrailRules ==
    faults \cap {"crash", "delete"} = {} =>
        \A t \in spent : t \in history \/ \E w \in Worker : Logging(w, t)

-----------------------------------------------------------------------------
(***************************************************************************)
(* The shapes of steps.  What each step leaves alone and what it changes,  *)
(* handler by handler, is all that the proofs below use of the actions.    *)
(***************************************************************************)
\* Every handler but w is where it was; Handlers: all of them are.
Others(w) ==
    \A v \in Worker \ {w} : /\ pc'[v] = pc[v] /\ op'[v] = op[v]
                            /\ obj'[v] = obj[v] /\ key'[v] = key[v]

Handlers == UNCHANGED <<pc, op, obj, key>>

Returned(w) ==
    /\ Others(w)
    /\ pc'[w] = "idle" /\ op'[w] = "none"
    /\ fresh' = fresh \ {w}

Moved(w, l) ==
    /\ Others(w)
    /\ pc'[w] = l /\ op'[w] = op[w] /\ obj'[w] = obj[w] /\ key'[w] = key[w]
    /\ fresh' = fresh

\* Nothing but a form or, by hand, the status of the repair.
Still ==
    /\ Handlers
    /\ fresh' \cap Worker \subseteq fresh
    /\ repair' = repair \/ "staff_edit" \in faults'
    /\ UNCHANGED <<row, history, issued, silent, mailed, spent>>

\* A handler has read the row and will write it with the approver it had.
Reads(w) ==
    /\ Exists
    /\ pc[w] = "idle"
    /\ Others(w)
    /\ pc'[w] = "save" /\ op'[w] \in {"update", "link", "review"}
    /\ obj'[w].status \in Status /\ obj'[w].approver = row.approver
    /\ fresh' = fresh \cup {w}
    /\ UNCHANGED <<row, repair, history, issued, silent, mailed, spent>>

Asks(w, t, p) ==
    /\ Exists
    /\ pc[w] = "idle" /\ t \notin issued
    /\ Others(w)
    /\ pc'[w] = "save" /\ op'[w] = "ask"
    /\ obj'[w].status \in Status
    /\ obj'[w].token = t /\ obj'[w].approver = p
    /\ fresh' = fresh \cup {w} /\ issued' = issued \cup {t}
    /\ UNCHANGED <<row, repair, history, silent, mailed, spent>>

Creates(w) ==
    /\ row.status = "UNBORN" /\ pc[w] = "idle"
    /\ row' = Blank("PENDING") /\ obj'[w] = Blank("PENDING")
    /\ Others(w)
    /\ pc'[w] = "sync" /\ op'[w] = "create"
    /\ fresh' = {w}
    /\ UNCHANGED <<repair, history, issued, silent, mailed, spent>>

\* The row becomes r: what was posted, unless a token had to be made up.
Written(posted, r) ==
    /\ row' = r
    /\ r.status = posted.status /\ r.approver = posted.approver
    /\ r.status = "APPROVAL_REQUIRED" => r.token \in Token
    /\ \/ /\ r.token = posted.token
          /\ UNCHANGED <<issued, silent>>
       \/ /\ posted.token = NoToken /\ r.token \in Token \ issued
          /\ issued' = issued \cup {r.token}
          /\ silent' = silent \cup {r.token}

Saves(w, r) ==
    /\ pc[w] = "save"
    /\ Written(obj[w], r)
    /\ op[w] = "ask" => r.token = obj[w].token
    /\ Others(w)
    /\ pc'[w] = "sync" /\ op'[w] = op[w] /\ obj'[w] = r /\ key'[w] = key[w]
    /\ faults' = faults \cup WriteFaults(w)
    /\ fresh' = {w}
    /\ spent' = IF op[w] = "link" THEN spent \cup {key[w]} ELSE spent
    /\ UNCHANGED <<repair, history, mailed>>

Syncs(w) ==
    /\ pc[w] = "sync"
    /\ SyncRepair(obj[w].status)
    /\ \/ op[w] \in {"reroute", "update"} /\ Returned(w)
       \/ op[w] = "create" /\ Moved(w, "route")
       \/ op[w] \in {"link", "review", "ask"} /\ Moved(w, "log")
    /\ UNCHANGED <<row, history, issued, silent, mailed, spent>>

Routes(w) ==
    /\ pc[w] = "route"
    /\ \/ Returned(w)
       \/ /\ Others(w)
          /\ pc'[w] = "save" /\ op'[w] = "reroute"
          /\ obj'[w] = obj[w] /\ key'[w] = key[w]
          /\ fresh' = fresh
    /\ UNCHANGED <<row, repair, history, issued, silent, mailed, spent>>

Logs(w) ==
    /\ pc[w] = "log"
    /\ history' = IF Exists /\ op[w] = "link" THEN history \cup {key[w]}
                                              ELSE history
    /\ IF Exists /\ op[w] = "ask" THEN Moved(w, "mail") ELSE Returned(w)
    /\ UNCHANGED <<row, repair, issued, silent, mailed, spent>>

Mails(w) ==
    /\ pc[w] = "mail" /\ op[w] = "ask"
    /\ \/ mailed' = mailed \cup {<<obj[w].token, obj[w].approver>>}
       \/ mailed' = mailed /\ "mail_failure" \in faults'
    /\ Returned(w)
    /\ UNCHANGED <<row, repair, history, issued, silent, spent>>

Crashes(w) ==
    /\ "crash" \in faults'
    /\ pc[w] # "idle"
    /\ Returned(w)
    /\ UNCHANGED <<row, repair, history, issued, silent, mailed, spent>>

\* A form asks approver p with a new token, or its transaction is rolled back
\* after the mail.
FormAsks(a, t, p) ==
    /\ Exists
    /\ t \notin issued /\ issued' = issued \cup {t}
    /\ Handlers /\ fresh' = {}
    /\ row' = [status |-> "APPROVAL_REQUIRED", token |-> t, approver |-> p]
    /\ SyncRepair("APPROVAL_REQUIRED")
    /\ \/ mailed' = mailed \cup {<<t, p>>}
       \/ mailed' = mailed /\ "mail_failure" \in faults'
    /\ WriteFaults(a) \subseteq faults'
    /\ UNCHANGED <<history, silent, spent>>

FormRollsBack(t, p) ==
    /\ t \notin issued /\ issued' = issued \cup {t}
    /\ Handlers /\ fresh' \subseteq fresh
    /\ mailed' = mailed \cup {<<t, p>>}
    /\ UNCHANGED <<row, repair, history, silent, spent>>

\* A form writes the row as posted.
FormWrites(a, posted, r) ==
    /\ Exists
    /\ form[a].status \in Status
    /\ posted.status \in Status
    /\ posted.token = form[a].token
    /\ posted.approver \in {row.approver, NoApprover}
    /\ Written(posted, r)
    /\ SyncRepair(r.status)
    /\ Handlers /\ fresh' = {}
    /\ WriteFaults(a) \subseteq faults'
    /\ UNCHANGED <<history, mailed, spent>>

Adds(posted, r) ==
    /\ row.status = "UNBORN"
    /\ posted.status \in Status /\ posted.token = NoToken
    /\ Written(posted, r)
    /\ SyncRepair(r.status)
    /\ Handlers /\ fresh' = {}
    /\ UNCHANGED <<history, mailed, spent>>

Deletes ==
    /\ row' = Blank("DELETED")
    /\ Handlers /\ fresh' = {}
    /\ "delete" \in faults'
    /\ UNCHANGED <<repair, issued, silent, mailed, spent>>

\* A handler that returns is idle again.
LEMMA FinishIs ==
    ASSUME TypeOK, NEW w \in Worker, Finish(w)
    PROVE  Returned(w)
  BY DEF TypeOK, Finish, Returned, Others

\* A handler that moves to its next step keeps its copy.
LEMMA MoveIs ==
    ASSUME TypeOK, NEW w \in Worker, NEW l,
           pc' = [pc EXCEPT ![w] = l], UNCHANGED <<op, obj, key, fresh>>
    PROVE  Moved(w, l)
  BY DEF TypeOK, Moved, Others

\* The handlers that change a copy of the row they have read.
LEMMA BeginIs ==
    ASSUME TypeOK, Exists, NEW w \in Worker,
           NEW o \in {"update", "link", "review"}, NEW r, NEW t,
           Begin(w, o, r, t), r.status \in Status, r.approver = row.approver
    PROVE  Reads(w)
  BY DEF TypeOK, Begin, Reads, Others, rowVars, linkVars

LEMMA ReadingIs ==
    ASSUME TypeOK, NEW w \in Worker, NEW v \in Verdict,
           LinkClick(w, v) \/ OwnerLinkClick(w, v) \/ Review(w, v) \/ Update(w)
    PROVE  Reads(w)
<1>1. /\ [row EXCEPT !.status = v, !.token = NoToken].status \in Status
      /\ [row EXCEPT !.status = v, !.token = NoToken].approver = row.approver
      /\ [row EXCEPT !.status = v].status \in Status
      /\ [row EXCEPT !.status = v].approver = row.approver
  BY DEF TypeOK, Row, Verdict, Status
<1>2. Exists
  BY DEF LinkClick, OwnerLinkClick, Review, Update, Exists, Status
<1> QED
  BY <1>1, <1>2, BeginIs DEF LinkClick, OwnerLinkClick, Review, Update, Exists

LEMMA AskIs ==
    ASSUME TypeOK, NEW w \in Worker, NEW p \in Approver, Ask(w, p)
    PROVE  \E t \in Token : Asks(w, t, p)
<1> PICK t \in Token \ issued :
      /\ pc[w] = "idle"
      /\ pc' = [pc EXCEPT ![w] = "save"]
      /\ op' = [op EXCEPT ![w] = "ask"]
      /\ obj' = [obj EXCEPT ![w] = [status |-> "APPROVAL_REQUIRED",
                                    token |-> t, approver |-> p]]
      /\ issued' = issued \cup {t}
      /\ fresh' = fresh \cup {w}
  BY DEF Ask
<1>1. /\ Exists
      /\ UNCHANGED <<row, repair, history, silent, mailed, spent, key>>
  BY DEF Ask, linkVars
<1>2. Others(w) /\ pc'[w] = "save" /\ op'[w] = "ask"
  BY <1>1 DEF Others, TypeOK
<1>3. /\ obj'[w].status \in Status
      /\ obj'[w].token = t /\ obj'[w].approver = p
  BY DEF TypeOK, Status, Open
<1> QED
  BY <1>1, <1>2, <1>3 DEF Asks

LEMMA CreateIs ==
    ASSUME TypeOK, NEW w \in Worker, Create(w)
    PROVE  Creates(w)
  BY DEF Create, Creates, TypeOK, Others, linkVars

\* save() changes nothing but the token, and that only when it must.
LEMMA ModelSaveIs ==
    ASSUME TypeOK, NEW posted \in Row, NEW r \in ModelSave(posted), row' = r,
           issued' = issued \cup Generated(posted, r),
           silent' = silent \cup Generated(posted, r)
    PROVE  Written(posted, r) /\ (posted.token \in Token => r = posted)
<1>1. CASE NeedsToken(posted)
  <2> PICK t \in Token \ issued : r = [posted EXCEPT !.token = t]
    BY <1>1 DEF ModelSave
  <2>1. /\ r.token = t /\ r.status = posted.status
        /\ r.approver = posted.approver
    BY DEF Row
  <2> QED
    BY <1>1, <2>1, NoTokenAssumption DEF Written, Generated, NeedsToken
<1>2. CASE ~NeedsToken(posted)
  <2>1. r = posted /\ Generated(posted, r) = {}
    BY <1>2 DEF ModelSave, Generated
  <2>2. posted.status = "APPROVAL_REQUIRED" => posted.token \in Token
    BY <1>2 DEF NeedsToken, Row
  <2> QED
    BY <2>1, <2>2 DEF Written
<1> QED
  BY <1>1, <1>2

LEMMA SaveIs ==
    ASSUME TypeOK, NEW w \in Worker, Save(w)
    PROVE  \E r \in Row : Saves(w, r)
<1> PICK r \in ModelSave(obj[w]) :
      /\ row' = r
      /\ obj' = [obj EXCEPT ![w] = r]
      /\ issued' = issued \cup Generated(obj[w], r)
      /\ silent' = silent \cup Generated(obj[w], r)
  BY DEF Save
<1>1. obj[w] \in Row /\ r \in Row
  BY ModelSaveTyped DEF TypeOK
<1>2. Written(obj[w], r) /\ (op[w] = "ask" => r.token = obj[w].token)
  BY <1>1, ModelSaveIs DEF TypeOK
<1>3. Others(w) /\ pc'[w] = "sync" /\ op'[w] = op[w] /\ obj'[w] = r
        /\ key'[w] = key[w]
  BY DEF Save, Others, TypeOK
<1> QED
  BY <1>1, <1>2, <1>3 DEF Save, Saves

LEMMA SyncIs ==
    ASSUME TypeOK, NEW w \in Worker, Sync(w)
    PROVE  Syncs(w)
<1>1. /\ pc[w] = "sync" /\ SyncRepair(obj[w].status)
      /\ UNCHANGED <<row, history, issued, silent, mailed, spent>>
  BY DEF Sync, linkVars
<1>2. CASE op[w] \in {"reroute", "update"} /\ Finish(w)
  BY <1>1, <1>2, FinishIs DEF Syncs
<1>3. CASE /\ op[w] = "create"
           /\ pc' = [pc EXCEPT ![w] = "route"]
           /\ UNCHANGED <<op, obj, key, fresh>>
  BY <1>1, <1>3, MoveIs DEF Syncs
<1>4. CASE /\ op[w] \in {"link", "review", "ask"}
           /\ pc' = [pc EXCEPT ![w] = "log"]
           /\ UNCHANGED <<op, obj, key, fresh>>
  BY <1>1, <1>4, MoveIs DEF Syncs
<1> QED
  BY <1>2, <1>3, <1>4 DEF Sync

LEMMA RouteIs ==
    ASSUME TypeOK, NEW w \in Worker, Route(w)
    PROVE  Routes(w)
<1>1. /\ pc[w] = "route"
      /\ UNCHANGED <<row, repair, history, issued, silent, mailed, spent>>
  BY DEF Route, rowVars, linkVars
<1>2. CASE Finish(w)
  BY <1>1, <1>2, FinishIs DEF Routes
<1>3. CASE /\ pc' = [pc EXCEPT ![w] = "save"]
           /\ op' = [op EXCEPT ![w] = "reroute"]
           /\ UNCHANGED <<obj, key, fresh>>
  BY <1>1, <1>3 DEF Routes, Others, TypeOK
<1> QED
  BY <1>2, <1>3 DEF Route

LEMMA LogIs ==
    ASSUME TypeOK, NEW w \in Worker, Log(w)
    PROVE  Logs(w)
<1>1. /\ pc[w] = "log"
      /\ history' = IF Exists /\ op[w] = "link" THEN history \cup {key[w]}
                                                ELSE history
      /\ UNCHANGED <<row, repair, issued, silent, mailed, spent>>
  BY DEF Log, linkVars
<1>2. CASE Exists /\ op[w] = "ask"
  BY <1>1, <1>2, MoveIs DEF Log, Logs
<1>3. CASE ~(Exists /\ op[w] = "ask")
  BY <1>1, <1>3, FinishIs DEF Log, Logs
<1> QED
  BY <1>2, <1>3

LEMMA MailIs ==
    ASSUME TypeOK, NEW w \in Worker, Mail(w)
    PROVE  Mails(w)
<1>1. /\ pc[w] = "mail" /\ op[w] = "ask"
      /\ UNCHANGED <<row, repair, history, issued, silent, spent>>
  BY DEF Mail, rowVars, linkVars, TypeOK
<1> QED
  BY <1>1, FinishIs DEF Mail, Mails

LEMMA CrashIs ==
    ASSUME TypeOK, NEW w \in Worker, Crash(w)
    PROVE  Crashes(w)
  BY FinishIs DEF Crash, Crashes, rowVars, linkVars

LEMMA SaveAndAskIs ==
    ASSUME TypeOK, NEW a, NEW p, SaveAndAsk(a, p, TRUE), Exists,
           Handlers, fresh' = {}, UNCHANGED <<history, spent>>
    PROVE  \E t \in Token : FormAsks(a, t, p)
<1> PICK t \in Token \ issued :
       /\ issued' = issued \cup {t}
       /\ row' = [status |-> "APPROVAL_REQUIRED", token |-> t, approver |-> p]
       /\ SyncRepair("APPROVAL_REQUIRED")
       /\ UNCHANGED silent
       /\ \/ /\ mailed' = mailed \cup {<<t, p>>}
             /\ faults' = faults \cup WriteFaults(a)
          \/ /\ faults' = faults \cup WriteFaults(a) \cup {"mail_failure"}
             /\ UNCHANGED mailed
  BY DEF SaveAndAsk
<1> QED
  BY DEF FormAsks

LEMMA SubmitFormIs ==
    ASSUME TypeOK, NEW a \in Admin, NEW s \in Status,
           NEW p \in Approver \cup {NoApprover}, SubmitForm(a, s, p)
    PROVE  \/ \E t \in Token, q \in Approver : FormAsks(a, t, q)
           \/ \E posted \in Row, r \in Row : FormWrites(a, posted, r)
<1> DEFINE posted == [form[a] EXCEPT !.status = s, !.approver = p]
<1>1. /\ Exists /\ form[a].status \in Status
      /\ Handlers /\ fresh' = {} /\ UNCHANGED <<history, spent>>
  BY DEF SubmitForm, handlerVars, linkVars, Handlers
<1>2. /\ posted \in Row /\ posted.status = s /\ posted.approver = p
      /\ posted.token = form[a].token
  BY DEF TypeOK, Row
<1>3. CASE ApproverChanged(posted) /\ SaveAndAsk(a, p, TRUE)
  <2>1. p \in Approver
    BY <1>2, <1>3 DEF ApproverChanged
  <2> QED
    BY <1>1, <1>3, <2>1, SaveAndAskIs
<1>4. ASSUME NEW r \in ModelSave(posted), ~ApproverChanged(posted),
             row' = r,
             issued' = issued \cup Generated(posted, r),
             silent' = silent \cup Generated(posted, r),
             SyncRepair(r.status),
             faults' = faults \cup WriteFaults(a),
             UNCHANGED mailed
      PROVE  \E r1 \in Row : FormWrites(a, posted, r1)
  <2>1. r \in Row /\ Written(posted, r)
    BY <1>2, <1>4, ModelSaveTyped, ModelSaveIs DEF TypeOK
  <2>2. posted.approver \in {row.approver, NoApprover}
    BY <1>4 DEF ApproverChanged
  <2> QED
    BY <1>1, <1>2, <1>4, <2>1, <2>2 DEF FormWrites
<1> QED
  BY <1>2, <1>3, <1>4 DEF SubmitForm

LEMMA RollbackFormIs ==
    ASSUME TypeOK, NEW a \in Admin, NEW s \in Status, NEW p \in Approver,
           RollbackForm(a, s, p)
    PROVE  \E t \in Token : FormRollsBack(t, p)
<1> PICK t \in Token \ issued :
       /\ issued' = issued \cup {t}
       /\ UNCHANGED <<row, repair, silent>>
       /\ mailed' = mailed \cup {<<t, p>>}
  BY DEF RollbackForm, SaveAndAsk
<1> QED
  BY DEF RollbackForm, FormRollsBack, handlerVars, linkVars, Handlers

LEMMA OwnerResaveIs ==
    ASSUME TypeOK, NEW a \in Admin, OwnerResave(a)
    PROVE  \E t \in Token, q \in Approver : FormAsks(a, t, q)
<1>1. /\ Exists /\ SaveAndAsk(a, row.approver, TRUE)
      /\ row.approver \in Approver
      /\ Handlers /\ fresh' = {} /\ UNCHANGED <<history, spent>>
  BY DEF OwnerResave, ApproverChanged, TypeOK, Row, handlerVars, linkVars,
         Handlers
<1> QED
  BY <1>1, SaveAndAskIs

LEMMA AddFormIs ==
    ASSUME TypeOK, NEW s \in Status, NEW p \in Approver \cup {NoApprover},
           AddForm(s, p)
    PROVE  \E posted \in Row, r \in Row : Adds(posted, r)
<1> DEFINE added == [Blank(s) EXCEPT !.approver = p]
<1>1. /\ added \in Row /\ added.token = NoToken /\ added.status = s
      /\ \A r : Generated(Blank(s), r) = Generated(added, r)
  BY DEF Blank, Row, Generated, NeedsToken
<1> PICK r \in ModelSave(added) :
       /\ row' = r
       /\ issued' = issued \cup Generated(added, r)
       /\ silent' = silent \cup Generated(added, r)
       /\ SyncRepair(r.status)
  BY <1>1 DEF AddForm
<1>2. r \in Row /\ Written(added, r)
  BY <1>1, ModelSaveTyped, ModelSaveIs DEF TypeOK
<1> QED
  BY <1>1, <1>2 DEF AddForm, Adds, handlerVars, linkVars, Handlers

LEMMA DeleteIs == Delete => Deletes
  BY DEF Delete, Deletes, handlerVars, linkVars, Handlers

LEMMA StillIs ==
    ASSUME TypeOK,
           \/ \E a \in Admin : OpenForm(a)
           \/ \E s \in Repair : StaffEditRepair(s)
           \/ UNCHANGED vars
    PROVE  Still
<1>1. CASE UNCHANGED vars
  BY <1>1 DEF vars, rowVars, handlerVars, linkVars, Handlers, Still
<1>2. ASSUME NEW a \in Admin, OpenForm(a) PROVE Still
  BY <1>2, ProcessAssumption
     DEF OpenForm, rowVars, handlerVars, linkVars, Handlers, Still
<1>3. ASSUME NEW s \in Repair, StaffEditRepair(s) PROVE Still
  BY <1>3 DEF StaffEditRepair, handlerVars, linkVars, Handlers, Still
<1> QED
  BY <1>1, <1>2, <1>3

\* Every step has one of these shapes.
Shaped ==
    \/ Still \/ Deletes
    \/ \E w \in Worker :
          \/ Reads(w) \/ Creates(w) \/ Syncs(w) \/ Routes(w) \/ Logs(w)
          \/ Mails(w) \/ Crashes(w)
          \/ \E t \in Token, p \in Approver : Asks(w, t, p)
          \/ \E r \in Row : Saves(w, r)
    \/ \E t \in Token, p \in Approver : \/ FormRollsBack(t, p)
                                        \/ \E a \in Admin : FormAsks(a, t, p)
    \/ \E posted \in Row, r \in Row :
          Adds(posted, r) \/ \E a \in Admin : FormWrites(a, posted, r)

LEMMA StepsAreShaped == TypeOK /\ [Next]_vars => Shaped
<1> SUFFICES ASSUME TypeOK, [Next]_vars PROVE Shaped
  OBVIOUS
<1>1. ASSUME NEW w \in Worker, Handler(w) PROVE Shaped
  <2>1. ASSUME NEW v \in Verdict,
               LinkClick(w, v) \/ OwnerLinkClick(w, v) \/ Review(w, v)
        PROVE  Shaped
    BY <2>1, ReadingIs DEF Shaped
  <2>2. CASE Update(w)
    <3>1. "APPROVED" \in Verdict
      BY DEF Verdict
    <3> QED
      BY <2>2, <3>1, ReadingIs DEF Shaped
  <2>3. ASSUME NEW p \in Approver, Ask(w, p) PROVE Shaped
    BY <2>3, AskIs DEF Shaped
  <2>4. CASE Create(w)
    BY <2>4, CreateIs DEF Shaped
  <2>5. CASE Save(w)
    BY <2>5, SaveIs DEF Shaped
  <2>6. CASE Sync(w)
    BY <2>6, SyncIs DEF Shaped
  <2>7. CASE Route(w)
    BY <2>7, RouteIs DEF Shaped
  <2>8. CASE Log(w)
    BY <2>8, LogIs DEF Shaped
  <2>9. CASE Mail(w)
    BY <2>9, MailIs DEF Shaped
  <2>10. CASE Crash(w)
    BY <2>10, CrashIs DEF Shaped
  <2> QED
    BY <1>1, <2>1, <2>2, <2>3, <2>4, <2>5, <2>6, <2>7, <2>8, <2>9, <2>10
       DEF Handler
<1>2. ASSUME NEW a \in Admin, AdminSite(a) PROVE Shaped
  <2>1. CASE OpenForm(a)
    BY <2>1, StillIs DEF Shaped
  <2>2. ASSUME NEW s \in Status, NEW p \in Approver \cup {NoApprover},
               SubmitForm(a, s, p)
        PROVE  Shaped
    BY <2>2, SubmitFormIs DEF Shaped
  <2>3. ASSUME NEW s \in Status, NEW p \in Approver, RollbackForm(a, s, p)
        PROVE  Shaped
    BY <2>3, RollbackFormIs DEF Shaped
  <2>4. CASE OwnerResave(a)
    BY <2>4, OwnerResaveIs DEF Shaped
  <2> QED
    BY <1>2, <2>1, <2>2, <2>3, <2>4 DEF AdminSite
<1>3. ASSUME NEW s \in Status, NEW p \in Approver \cup {NoApprover},
             AddForm(s, p)
      PROVE  Shaped
  BY <1>3, AddFormIs DEF Shaped
<1>4. CASE Delete
  BY <1>4, DeleteIs DEF Shaped
<1>5. ASSUME NEW s \in Repair, StaffEditRepair(s) PROVE Shaped
  BY <1>5, StillIs DEF Shaped
<1>6. CASE UNCHANGED vars
  BY <1>6, StillIs DEF Shaped
<1> QED
  BY <1>1, <1>2, <1>3, <1>4, <1>5, <1>6 DEF Next

-----------------------------------------------------------------------------
\* Handlers at work have a request to write, and the row is what it may be.
Fits == HandlersFit /\ RowFits

LEMMA FitsHolds == Spec => []Fits
<1>1. Init => Fits
  BY DEF Init, Fits, HandlersFit, RowFits, Blank
<1>2. TypeOK /\ Fits /\ [Next]_vars => Fits'
  <2> SUFFICES ASSUME TypeOK, Fits, Shaped, faults \subseteq faults'
               PROVE  Fits'
    BY StepsAreShaped, FaultsGrow
  <2> USE DEF Fits, HandlersFit, RowFits, Others, Handlers
  <2>1. CASE Still
    BY <2>1 DEF Still
  <2>2. CASE Deletes
    BY <2>2 DEF Deletes, Blank
  <2>3. ASSUME NEW w \in Worker, Reads(w) PROVE Fits'
    BY <2>3 DEF Reads, Exists, Status, Open, OwnerOpen
  <2>4. ASSUME NEW w \in Worker, Creates(w) PROVE Fits'
    BY <2>4 DEF Creates, Blank, Absent, Status, Open
  <2>5. ASSUME NEW w \in Worker, Syncs(w) PROVE Fits'
    BY <2>5 DEF Syncs, Returned, Moved
  <2>6. ASSUME NEW w \in Worker, Routes(w) PROVE Fits'
    BY <2>6 DEF Routes, Returned
  <2>7. ASSUME NEW w \in Worker, Logs(w) PROVE Fits'
    BY <2>7 DEF Logs, Returned, Moved
  <2>8. ASSUME NEW w \in Worker, Mails(w) PROVE Fits'
    BY <2>8 DEF Mails, Returned
  <2>9. ASSUME NEW w \in Worker, Crashes(w) PROVE Fits'
    BY <2>9 DEF Crashes, Returned
  <2>10. ASSUME NEW w \in Worker, NEW t \in Token, NEW p \in Approver,
                Asks(w, t, p)
         PROVE  Fits'
    BY <2>10 DEF Asks, Exists, Status, Open, OwnerOpen
  <2>11. ASSUME NEW w \in Worker, NEW r \in Row, Saves(w, r) PROVE Fits'
    <3>1. r.status \in Status
      BY <2>11 DEF Saves, Written
    <3> QED
      BY <2>11, <3>1 DEF Saves, Written, Status, Open, OwnerOpen, Absent
  <2>12. ASSUME NEW t \in Token, NEW p \in Approver, FormRollsBack(t, p)
         PROVE  Fits'
    BY <2>12 DEF FormRollsBack
  <2>13. ASSUME NEW a \in Admin, NEW t \in Token, NEW p \in Approver,
                FormAsks(a, t, p)
         PROVE  Fits'
    BY <2>13 DEF FormAsks, Absent
  <2>14. ASSUME NEW posted \in Row, NEW r \in Row, Adds(posted, r) PROVE Fits'
    BY <2>14 DEF Adds, Written, Status, Open, OwnerOpen, Absent
  <2>15. ASSUME NEW a \in Admin, NEW posted \in Row, NEW r \in Row,
                FormWrites(a, posted, r)
         PROVE  Fits'
    BY <2>15 DEF FormWrites, Written, Status, Open, OwnerOpen, Absent
  <2> QED
    BY <2>1, <2>2, <2>3, <2>4, <2>5, <2>6, <2>7, <2>8, <2>9, <2>10, <2>11,
       <2>12, <2>13, <2>14, <2>15 DEF Shaped
<1> QED
  BY <1>1, <1>2, TypeCorrect, PTL DEF Spec

-----------------------------------------------------------------------------
\* A step sends no link but one with a new token.
NoneSent == /\ \A t \in Token, p \in Approver : SentTo(t, p)' => SentTo(t, p)
            /\ issued \subseteq issued'

SentNew(t, p) ==
    /\ t \notin issued /\ issued' = issued \cup {t}
    /\ \A u \in Token, q \in Approver :
          SentTo(u, q)' => SentTo(u, q) \/ (u = t /\ q = p)

LEMMA SendingIs ==
    ASSUME TypeOK, Shaped
    PROVE  NoneSent \/ \E t \in Token, p \in Approver : SentNew(t, p)
<1> USE DEF NoneSent, SentTo, Others, Handlers
<1>1. Still => NoneSent
  BY DEF Still
<1>2. Deletes => NoneSent
  BY DEF Deletes
<1>3. ASSUME NEW w \in Worker, Reads(w) PROVE NoneSent
  BY <1>3 DEF Reads
<1>4. ASSUME NEW w \in Worker, Creates(w) PROVE NoneSent
  BY <1>4 DEF Creates
<1>5. ASSUME NEW w \in Worker, Syncs(w) PROVE NoneSent
  BY <1>5 DEF Syncs, Returned, Moved
<1>6. ASSUME NEW w \in Worker, Routes(w) PROVE NoneSent
  BY <1>6 DEF Routes, Returned
<1>7. ASSUME NEW w \in Worker, Logs(w) PROVE NoneSent
  BY <1>7 DEF Logs, Returned, Moved
<1>8. ASSUME NEW w \in Worker, Mails(w) PROVE NoneSent
  <2> SUFFICES ASSUME NEW t \in Token, NEW p \in Approver, SentTo(t, p)'
               PROVE  SentTo(t, p)
    BY <1>8 DEF Mails
  <2>1. CASE <<t, p>> \in mailed'
    BY <1>8, <2>1 DEF Mails
  <2>2. CASE <<t, p>> \notin mailed'
    BY <1>8, <2>2 DEF Mails, Returned
  <2> QED
    BY <2>1, <2>2
<1>9. ASSUME NEW w \in Worker, Crashes(w) PROVE NoneSent
  BY <1>9 DEF Crashes, Returned
<1>10. ASSUME NEW w \in Worker, NEW t \in Token, NEW p \in Approver,
              Asks(w, t, p)
       PROVE  SentNew(t, p)
  BY <1>10 DEF Asks, SentNew
<1>11. ASSUME NEW w \in Worker, NEW r \in Row, Saves(w, r) PROVE NoneSent
  <2>1. issued \subseteq issued'
    BY <1>11 DEF Saves, Written
  <2>2. /\ op'[w] = op[w] /\ mailed' = mailed
        /\ op[w] = "ask" => /\ obj'[w].token = obj[w].token
                            /\ obj'[w].approver = obj[w].approver
    BY <1>11 DEF Saves, Written
  <2> QED
    BY <1>11, <2>1, <2>2 DEF Saves
<1>12. ASSUME NEW t \in Token, NEW p \in Approver, FormRollsBack(t, p)
       PROVE  SentNew(t, p)
  BY <1>12 DEF FormRollsBack, SentNew
<1>13. ASSUME NEW a \in Admin, NEW t \in Token, NEW p \in Approver,
              FormAsks(a, t, p)
       PROVE  SentNew(t, p)
  BY <1>13 DEF FormAsks, SentNew
<1>14. ASSUME NEW posted \in Row, NEW r \in Row, Adds(posted, r) PROVE NoneSent
  BY <1>14 DEF Adds, Written
<1>15. ASSUME NEW a \in Admin, NEW posted \in Row, NEW r \in Row,
              FormWrites(a, posted, r)
       PROVE  NoneSent
  BY <1>15 DEF FormWrites, Written
<1> HIDE DEF NoneSent, SentTo
<1> QED
  BY <1>1, <1>2, <1>3, <1>4, <1>5, <1>6, <1>7, <1>8, <1>9, <1>10, <1>11,
     <1>12, <1>13, <1>14, <1>15 DEF Shaped

\* Hence each token is for one approver.
LEMMA OneApproverEachHolds == Spec => []OneApproverEach
<1>1. Init => OneApproverEach
  BY DEF Init, OneApproverEach, SentTo
<1>2. TypeOK /\ OneApproverEach /\ [Next]_vars => OneApproverEach'
  <2> SUFFICES ASSUME TypeOK, OneApproverEach, Shaped PROVE OneApproverEach'
    BY StepsAreShaped
  <2> SUFFICES ASSUME NEW t \in Token, NEW p \in Approver, SentTo(t, p)'
               PROVE  /\ t \in issued'
                      /\ \A q \in Approver : SentTo(t, q)' => q = p
    BY DEF OneApproverEach
  <2>1. CASE NoneSent
    BY <2>1 DEF NoneSent, OneApproverEach
  <2>2. ASSUME NEW u \in Token, NEW q \in Approver, SentNew(u, q)
        PROVE  /\ t \in issued'
               /\ \A r \in Approver : SentTo(t, r)' => r = p
    BY <2>2 DEF SentNew, OneApproverEach
  <2> QED
    BY <2>1, <2>2, SendingIs
<1> QED
  BY <1>1, <1>2, TypeCorrect, PTL DEF Spec

-----------------------------------------------------------------------------
\* What the rules on tokens say of the copy that is written: it has the token
\* of the row, or none, or one made up for it, unless its handler asks.
LEMMA WrittenToken ==
    ASSUME TypeOK, TokenRules, NoLostUpdate, NoLostUpdate',
           NEW w \in Worker, NEW r \in Row, Saves(w, r), op[w] # "ask"
    PROVE  w \in fresh /\ r.token \in {row.token, NoToken} \cup (silent' \ issued)
<1>1. w \in fresh
  BY DEF Saves, WriteFaults, NoLostUpdate
<1>2. obj[w].token \in {row.token, NoToken}
  BY <1>1 DEF Saves, TokenRules, DecidingCopy, CurrentCopy, Deciding, Asking
<1> QED
  BY <1>1, <1>2 DEF Saves, Written

LEMMA PostedToken ==
    ASSUME TypeOK, TokenRules, NoLostUpdate, NoLostUpdate',
           NEW a \in Admin, NEW posted \in Row, NEW r \in Row,
           FormWrites(a, posted, r)
    PROVE  r.token \in {row.token, NoToken} \cup (silent' \ issued)
<1>1. a \in fresh
  BY DEF FormWrites, WriteFaults, NoLostUpdate
<1>2. posted.token = row.token
  BY <1>1 DEF FormWrites, TokenRules, CurrentForm
<1> QED
  BY <1>2 DEF FormWrites, Written

\* A row with the approver and the token it had, or with a token that is no
\* more than made up, names the approver it should.
LEMMA SameNames ==
    ASSUME RowNames, OneApproverEach, NoneSent,
           row'.token \in {row.token, NoToken} \cup (silent' \ issued),
           row'.approver \in {row.approver, NoApprover}
             \/ row'.token \notin issued
    PROVE  RowNames'
  BY NoTokenAssumption DEF RowNames, OneApproverEach, NoneSent

LEMMA AskedNames ==
    ASSUME OneApproverEach, NEW t \in Token, NEW p \in Approver, SentNew(t, p),
           row'.token = t, row'.approver = p
    PROVE  RowNames'
  BY DEF RowNames, OneApproverEach, SentNew

LEMMA SameRowNames ==
    ASSUME TypeOK, Shaped, RowNames, OneApproverEach,
           TokenRules, NoLostUpdate, row' = row
    PROVE  RowNames'
<1>1. CASE NoneSent
  BY <1>1 DEF RowNames, NoneSent
<1>2. ASSUME NEW t \in Token, NEW p \in Approver, SentNew(t, p) PROVE RowNames'
  <2>1. row.token \in issued \cup {NoToken}
    BY DEF TokenRules, RowToken
  <2> QED
    BY <1>2, <2>1, NoTokenAssumption DEF RowNames, SentNew
<1> QED
  BY <1>1, <1>2, SendingIs

LEMMA ApproverRulesHold == Spec => []ApproverRules
<1>1. Init => ApproverRules
  BY NoTokenAssumption
     DEF Init, ApproverRules, RowNames, CopyNames, Blank
<1>2. /\ TypeOK /\ TokenRules /\ Fits /\ OneApproverEach /\ ApproverRules
      /\ [Next]_vars
      => ApproverRules'
  <2> SUFFICES ASSUME TypeOK, TokenRules, Fits, OneApproverEach,
                      ApproverRules, Shaped, NoLostUpdate, NoLostUpdate'
               PROVE  RowNames' /\ CopyNames'
    BY StepsAreShaped, FaultsGrow DEF NoLostUpdate, ApproverRules
  <2>0. RowNames /\ CopyNames
    BY DEF ApproverRules
  <2> DEFINE Goal == RowNames' /\ CopyNames'
  <2>1. CASE Still
    BY <2>0, <2>1, SameRowNames DEF Still, CopyNames, Handlers
  <2>2. CASE Deletes
    BY <2>2, NoTokenAssumption DEF Deletes, RowNames, CopyNames, Blank
  <2>3. ASSUME NEW w \in Worker, Reads(w) PROVE Goal
    <3>1. RowNames'
      BY <2>0, <2>3, SameRowNames DEF Reads
    <3>2. CopyNames'
      BY <2>0, <2>3 DEF Reads, Others, CopyNames
    <3> QED
      BY <3>1, <3>2
  <2>4. ASSUME NEW w \in Worker, Creates(w) PROVE Goal
    BY <2>4, NoTokenAssumption DEF Creates, RowNames, CopyNames, Blank
  <2>5. ASSUME NEW w \in Worker, Syncs(w) PROVE Goal
    <3>1. RowNames'
      BY <2>0, <2>5, SameRowNames DEF Syncs
    <3>2. CopyNames'
      BY <2>0, <2>5 DEF Syncs, Returned, Moved, Others, CopyNames
    <3> QED
      BY <3>1, <3>2
  <2>6. ASSUME NEW w \in Worker, Routes(w) PROVE Goal
    <3>1. RowNames'
      BY <2>0, <2>6, SameRowNames DEF Routes
    <3>2. op[w] = "create"
      BY <2>6 DEF Fits, HandlersFit, Routes
    <3>3. CopyNames'
      BY <2>0, <2>6, <3>2 DEF Routes, Returned, Others, CopyNames
    <3> QED
      BY <3>1, <3>3
  <2>7. ASSUME NEW w \in Worker, Logs(w) PROVE Goal
    <3>1. RowNames'
      BY <2>0, <2>7, SameRowNames DEF Logs
    <3>2. CopyNames'
      BY <2>0, <2>7 DEF Logs, Returned, Moved, Others, CopyNames
    <3> QED
      BY <3>1, <3>2
  <2>8. ASSUME NEW w \in Worker, Mails(w) \/ Crashes(w) PROVE Goal
    <3>1. RowNames'
      BY <2>0, <2>8, SameRowNames DEF Mails, Crashes
    <3>2. CopyNames'
      BY <2>0, <2>8 DEF Mails, Crashes, Returned, Others, CopyNames
    <3> QED
      BY <3>1, <3>2
  <2>9. ASSUME NEW w \in Worker, NEW t \in Token, NEW p \in Approver,
               Asks(w, t, p)
        PROVE  Goal
    <3>1. RowNames'
      BY <2>0, <2>9, SameRowNames DEF Asks
    <3>2. CopyNames'
      BY <2>0, <2>9 DEF Asks, Others, CopyNames
    <3> QED
      BY <3>1, <3>2
  <2>10. ASSUME NEW w \in Worker, NEW r \in Row, Saves(w, r) PROVE Goal
    <3>1. CopyNames'
      BY <2>10 DEF Saves, Written, CopyNames
    <3>2. NoneSent
      <4>1. /\ op'[w] = op[w] /\ mailed' = mailed /\ issued \subseteq issued'
            /\ op[w] = "ask" => /\ obj'[w].token = obj[w].token
                                /\ obj'[w].approver = obj[w].approver
        BY <2>10 DEF Saves, Written
      <4> QED
        BY <2>10, <4>1 DEF NoneSent, SentTo, Saves, Others
    <3>3. CASE op[w] = "ask"
      <4>1. /\ SentTo(r.token, r.approver)
            /\ r.token \in Token /\ r.approver \in Approver
        BY <2>10, <3>3 DEF Saves, Written, SentTo, TypeOK
      <4> QED
        BY <2>10, <3>1, <3>2, <4>1
           DEF Saves, Written, RowNames, OneApproverEach, NoneSent
    <3>4. CASE op[w] # "ask"
      <4>1. /\ w \in fresh
            /\ r.token \in {row.token, NoToken} \cup (silent' \ issued)
        BY <2>10, <3>4, WrittenToken
      <4>2. r.approver = row.approver
        BY <2>0, <2>10, <3>4, <4>1 DEF CopyNames, Saves, Written
      <4>3. row' = r
        BY <2>10 DEF Saves, Written
      <4> QED
        BY <2>0, <3>1, <3>2, <4>1, <4>2, <4>3, SameNames
    <3> QED
      BY <3>3, <3>4
  <2>11. ASSUME NEW t \in Token, NEW p \in Approver, FormRollsBack(t, p)
         PROVE  Goal
    <3>1. RowNames'
      BY <2>0, <2>11, SameRowNames DEF FormRollsBack
    <3>2. CopyNames'
      BY <2>0, <2>11 DEF FormRollsBack, Handlers, CopyNames
    <3> QED
      BY <3>1, <3>2
  <2>12. ASSUME NEW a \in Admin, NEW t \in Token, NEW p \in Approver,
                FormAsks(a, t, p)
         PROVE  Goal
    <3>1. SentNew(t, p)
      BY <2>12 DEF FormAsks, SentNew, SentTo, Handlers
    <3>2. row'.token = t /\ row'.approver = p /\ CopyNames'
      BY <2>12 DEF FormAsks, CopyNames
    <3> QED
      BY <3>1, <3>2, AskedNames
  <2>13. ASSUME NEW posted \in Row, NEW r \in Row, Adds(posted, r) PROVE Goal
    <3>1. NoneSent /\ CopyNames' /\ row' = r
      BY <2>13 DEF Adds, Written, NoneSent, SentTo, Handlers, CopyNames
    <3>2. r.token \in {NoToken} \cup (silent' \ issued)
      BY <2>13 DEF Adds, Written
    <3>3. RowNames'
      BY <3>1, <3>2, NoTokenAssumption DEF RowNames, OneApproverEach, NoneSent
    <3> QED
      BY <3>1, <3>3
  <2>14. ASSUME NEW a \in Admin, NEW posted \in Row, NEW r \in Row,
                FormWrites(a, posted, r)
         PROVE  Goal
    <3>1. NoneSent /\ CopyNames' /\ row' = r
      BY <2>14 DEF FormWrites, Written, NoneSent, SentTo, Handlers, CopyNames
    <3>2. r.token \in {row.token, NoToken} \cup (silent' \ issued)
      BY <2>14, PostedToken
    <3>3. r.approver \in {row.approver, NoApprover}
      BY <2>14 DEF FormWrites, Written
    <3> QED
      BY <2>0, <3>1, <3>2, <3>3, SameNames
  <2> QED
    BY <2>1, <2>2, <2>3, <2>4, <2>5, <2>6, <2>7, <2>8, <2>9, <2>10, <2>11,
       <2>12, <2>13, <2>14 DEF Shaped
<1> QED
  BY <1>1, <1>2, TypeCorrect, TokenRulesHold, FitsHolds, OneApproverEachHolds,
     PTL DEF Spec

\* The link that can decide now was mailed to the approver the request names:
\* whoever is asked gets a token of his own, and as long as no stale copy is
\* written nobody's token stands in the row beside another's address.
THEOREM LinkIsTheApprovers == Spec => []LinkBelongsToApprover
<1>1. TypeOK /\ ApproverRules => LinkBelongsToApprover
  <2> SUFFICES ASSUME TypeOK, ApproverRules, NoLostUpdate,
                      NEW m \in mailed, m[1] = row.token
               PROVE  row.approver \in {m[2], NoApprover}
    BY DEF LinkBelongsToApprover
  <2>1. m = <<m[1], m[2]>> /\ m[1] \in Token /\ m[2] \in Approver
    BY DEF TypeOK
  <2>2. SentTo(row.token, m[2])
    BY <2>1 DEF SentTo
  <2> QED
    BY <2>1, <2>2 DEF ApproverRules, RowNames
<1> QED
  BY <1>1, TypeCorrect, ApproverRulesHold, PTL

-----------------------------------------------------------------------------
\* Who has been told of a link, or will be, stays told or to be told while
\* there is a request and no mail is lost.
LEMMA ToldStays ==
    ASSUME TypeOK, Fits, Shaped, Exists, NoMailLost',
           NEW t \in Token, Told(t)
    PROVE  Told(t)'
<1> USE DEF Told, Others, Handlers
<1>1. CASE Still
  BY <1>1 DEF Still
<1>2. CASE Deletes
  BY <1>2 DEF Deletes
<1>3. ASSUME NEW w \in Worker, Reads(w) PROVE Told(t)'
  BY <1>3 DEF Reads
<1>4. ASSUME NEW w \in Worker, Creates(w) PROVE Told(t)'
  BY <1>4 DEF Creates
<1>5. ASSUME NEW w \in Worker, Syncs(w) PROVE Told(t)'
  BY <1>5 DEF Syncs, Returned, Moved
<1>6. ASSUME NEW w \in Worker, Routes(w) PROVE Told(t)'
  BY <1>6 DEF Routes, Returned, Fits, HandlersFit
<1>7. ASSUME NEW w \in Worker, Logs(w) PROVE Told(t)'
  BY <1>7 DEF Logs, Returned, Moved
<1>8. ASSUME NEW w \in Worker, Mails(w) PROVE Told(t)'
  <2>1. /\ mailed' = mailed \cup {<<obj[w].token, obj[w].approver>>}
        /\ obj[w].approver \in Approver
    BY <1>8 DEF Mails, NoMailLost, TypeOK
  <2>2. CASE obj[w].token = t
    BY <2>1, <2>2
  <2>3. CASE obj[w].token # t
    BY <1>8, <2>1, <2>3 DEF Mails, Returned
  <2> QED
    BY <2>2, <2>3
<1>9. ASSUME NEW w \in Worker, Crashes(w) PROVE Told(t)'
  BY <1>9 DEF Crashes, NoMailLost
<1>10. ASSUME NEW w \in Worker, NEW u \in Token, NEW p \in Approver,
              Asks(w, u, p)
       PROVE  Told(t)'
  BY <1>10 DEF Asks
<1>11. ASSUME NEW w \in Worker, NEW r \in Row, Saves(w, r) PROVE Told(t)'
  <2>1. /\ silent \subseteq silent' /\ mailed' = mailed
        /\ pc'[w] # "idle" /\ op'[w] = op[w]
        /\ op[w] = "ask" => obj'[w].token = obj[w].token
    BY <1>11 DEF Saves, Written
  <2> QED
    BY <1>11, <2>1 DEF Saves
<1>12. ASSUME NEW u \in Token, NEW p \in Approver, FormRollsBack(u, p)
       PROVE  Told(t)'
  BY <1>12 DEF FormRollsBack
<1>13. ASSUME NEW a \in Admin, NEW u \in Token, NEW p \in Approver,
              FormAsks(a, u, p)
       PROVE  Told(t)'
  BY <1>13 DEF FormAsks
<1>14. ASSUME NEW posted \in Row, NEW r \in Row, Adds(posted, r) PROVE Told(t)'
  BY <1>14 DEF Adds, Written
<1>15. ASSUME NEW a \in Admin, NEW posted \in Row, NEW r \in Row,
              FormWrites(a, posted, r)
       PROVE  Told(t)'
  BY <1>15 DEF FormWrites, Written
<1> HIDE DEF Told
<1> QED
  BY <1>1, <1>2, <1>3, <1>4, <1>5, <1>6, <1>7, <1>8, <1>9, <1>10, <1>11,
     <1>12, <1>13, <1>14, <1>15 DEF Shaped

\* A row that keeps its token, loses it or gets one that was made up.
LEMMA SameTold ==
    ASSUME TypeOK, Fits, Shaped, TokenTold, NoMailLost, NoMailLost',
           row'.token \in {row.token, NoToken} \cup (silent' \ issued)
    PROVE  TokenTold'
<1>1. CASE row'.token \in silent'
  BY <1>1 DEF TokenTold, Told
<1>2. CASE row'.token = NoToken
  BY <1>2, NoTokenAssumption DEF TokenTold
<1>3. ASSUME row'.token = row.token, NEW t \in Token, t = row.token
      PROVE  TokenTold'
  <2>1. Exists
    BY <1>3, NoTokenAssumption DEF Fits, RowFits, TypeOK, Row, Exists
  <2>2. Told(t)
    BY <1>3 DEF TokenTold
  <2>3. Told(t)'
    BY <2>1, <2>2, ToldStays
  <2> QED
    BY <1>3, <2>3 DEF TokenTold, Told
<1>4. CASE row'.token \notin Token
  BY <1>4 DEF TokenTold
<1> QED
  BY <1>1, <1>2, <1>3, <1>4

LEMMA TokenToldHolds == Spec => []TokenTold
<1>1. Init => TokenTold
  BY NoTokenAssumption DEF Init, TokenTold, Blank
<1>2. TypeOK /\ TokenRules /\ Fits /\ TokenTold /\ [Next]_vars => TokenTold'
  <2> SUFFICES ASSUME TypeOK, TokenRules, Fits, TokenTold, Shaped,
                      NoMailLost, NoMailLost'
               PROVE  TokenTold'
    BY StepsAreShaped, FaultsGrow DEF TokenTold, NoMailLost, NoLostUpdate
  <2>0. NoLostUpdate /\ NoLostUpdate'
    BY DEF NoMailLost
  <2>1. CASE row' = row
    BY <2>1, SameTold
  <2>2. CASE Deletes
    BY <2>2, SameTold DEF Deletes, Blank
  <2>3. ASSUME NEW w \in Worker, Creates(w) PROVE TokenTold'
    BY <2>3, SameTold DEF Creates, Blank
  <2>4. ASSUME NEW w \in Worker, NEW r \in Row, Saves(w, r) PROVE TokenTold'
    <3>1. CASE op[w] = "ask"
      BY <2>4, <3>1 DEF Saves, Written, TokenTold, Told
    <3>2. CASE op[w] # "ask"
      <4>1. row' = r
        BY <2>4 DEF Saves, Written
      <4> QED
        BY <2>0, <2>4, <3>2, <4>1, WrittenToken, SameTold
    <3> QED
      BY <3>1, <3>2
  <2>5. ASSUME NEW a \in Admin, NEW t \in Token, NEW p \in Approver,
               FormAsks(a, t, p)
        PROVE  TokenTold'
    <3>1. <<t, p>> \in mailed'
      BY <2>5 DEF FormAsks, NoMailLost
    <3> QED
      BY <2>5, <3>1 DEF FormAsks, TokenTold, Told
  <2>6. ASSUME NEW posted \in Row, NEW r \in Row, Adds(posted, r)
        PROVE  TokenTold'
    BY <2>6, SameTold DEF Adds, Written
  <2>7. ASSUME NEW a \in Admin, NEW posted \in Row, NEW r \in Row,
               FormWrites(a, posted, r)
        PROVE  TokenTold'
    <3>1. row' = r
      BY <2>7 DEF FormWrites, Written
    <3> QED
      BY <2>0, <2>7, <3>1, PostedToken, SameTold
  <2> QED
    BY <2>1, <2>2, <2>3, <2>4, <2>5, <2>6, <2>7
       DEF Shaped, Still, Reads, Syncs, Routes, Logs, Mails, Crashes, Asks,
           FormRollsBack
<1> QED
  BY <1>1, <1>2, TypeCorrect, TokenRulesHold, FitsHolds, PTL DEF Spec

\* A request that waits for an approver waits for one who has been told, is
\* about to be, or for whom save() made a token up.
THEOREM ApproverHasBeenTold == Spec => []LiveLinkReachedApprover
<1>1. Fits /\ TokenTold => LiveLinkReachedApprover
  <2> SUFFICES ASSUME Fits, TokenTold, NoMailLost,
                      row.status = "APPROVAL_REQUIRED"
               PROVE  \/ row.token \in silent
                      \/ \E m \in mailed : m[1] = row.token
                      \/ \E w \in Worker : /\ pc[w] # "idle"
                                           /\ obj[w].token = row.token
    BY DEF LiveLinkReachedApprover, NoMailLost
  <2>1. Told(row.token)
    BY DEF TokenTold, Fits, RowFits
  <2>2. ASSUME NEW p \in Approver, <<row.token, p>> \in mailed
        PROVE  \E m \in mailed : m[1] = row.token
    BY <2>2
  <2> QED
    BY <2>1, <2>2 DEF Told
<1> QED
  BY <1>1, FitsHolds, TokenToldHolds, PTL

-----------------------------------------------------------------------------
\* The type of a request never changes.
LEMMA TypeStays == [Next]_vars => request_type' = request_type
  BY DEF Next, Handler, AdminSite, Create, LinkClick, OwnerLinkClick, Review,
         Ask, Update, Save, Sync, Route, Log, Mail, Crash, OpenForm, SubmitForm,
         RollbackForm, AddForm, OwnerResave, Delete, StaffEditRepair, Begin,
         vars

\* A step that is neither a save nor a signal keeps what is in between.
LEMMA RepairStays ==
    ASSUME RepairFollows, row' = row, repair' = repair,
           \A w \in Worker : \/ /\ pc'[w] = pc[w] /\ obj'[w] = obj[w]
                             \/ pc[w] # "sync" /\ pc'[w] # "sync"
    PROVE  RepairFollows'
  BY DEF RepairFollows, Exists

\* A form that writes the row has its signal in the same transaction.
LEMMA FormRepairs ==
    ASSUME NEW s, row'.status = s, repair' = RepairStatus(s),
           \A w \in Worker : pc'[w] # "sync"
    PROVE  RepairFollows'
  BY DEF RepairFollows, Exists

LEMMA RepairRulesHold == Spec => []RepairRules
<1>1. Init => RepairRules
  BY DEF Init, RepairRules, RepairFollows, Blank, Exists, Status, Open,
         OwnerOpen
<1>2. TypeOK /\ Fits /\ RepairRules /\ [Next]_vars => RepairRules'
  <2> SUFFICES ASSUME TypeOK, Fits, RepairFollows, Shaped, RepairUndisturbed',
                      request_type = "ASSET_REPAIR"
               PROVE  RepairFollows'
    BY StepsAreShaped, FaultsGrow, TypeStays DEF RepairUndisturbed, RepairRules
  <2> USE DEF Others, Handlers
  <2>0. /\ "crash" \notin faults' /\ "staff_edit" \notin faults'
        /\ "overlap" \notin faults'
        /\ \A s : SyncRepair(s) => repair' = RepairStatus(s)
    BY DEF RepairUndisturbed, SyncRepair
  <2>1. CASE Still
    BY <2>0, <2>1, RepairStays DEF Still
  <2>2. CASE Deletes
    BY <2>2 DEF Deletes, RepairFollows, Blank, Exists, Status, Open, OwnerOpen
  <2>3. ASSUME NEW w \in Worker,
               Reads(w) \/ \E t \in Token, p \in Approver : Asks(w, t, p)
        PROVE  RepairFollows'
    <3>1. \A v \in Worker : \/ /\ pc'[v] = pc[v] /\ obj'[v] = obj[v]
                            \/ pc[v] # "sync" /\ pc'[v] # "sync"
      BY <2>3 DEF Reads, Asks
    <3> QED
      BY <2>3, <3>1, RepairStays DEF Reads, Asks
  <2>4. ASSUME NEW w \in Worker, Creates(w) PROVE RepairFollows'
    BY <2>4 DEF Creates, RepairFollows, Fits, RowFits
  <2>5. ASSUME NEW w \in Worker, Syncs(w) PROVE RepairFollows'
    <3>1. /\ repair' = RepairStatus(obj[w].status)
          /\ pc'[w] # "sync" /\ row' = row
          /\ \A v \in Worker \ {w} : pc'[v] = pc[v]
      BY <2>0, <2>5 DEF Syncs, Returned, Moved
    <3>2. \A v \in Worker : pc'[v] # "sync"
      BY <2>5, <3>1 DEF Syncs, RepairFollows
    <3>3. Exists => obj[w].status = row.status
      BY <2>5 DEF Syncs, RepairFollows
    <3> QED
      BY <3>1, <3>2, <3>3 DEF RepairFollows, Exists
  <2>6. ASSUME NEW w \in Worker,
               Routes(w) \/ Logs(w) \/ Mails(w) \/ Crashes(w)
        PROVE  RepairFollows'
    <3>1. \A v \in Worker : \/ /\ pc'[v] = pc[v] /\ obj'[v] = obj[v]
                            \/ pc[v] # "sync" /\ pc'[v] # "sync"
      BY <2>0, <2>6 DEF Routes, Logs, Mails, Crashes, Returned, Moved
    <3> QED
      BY <2>6, <3>1, RepairStays DEF Routes, Logs, Mails, Crashes
  <2>7. ASSUME NEW w \in Worker, NEW r \in Row, Saves(w, r)
        PROVE  RepairFollows'
    <3>1. \A v \in Worker \ {w} : pc[v] # "sync"
      BY <2>0, <2>7 DEF Saves, WriteFaults
    <3>2. row' = r /\ obj'[w] = r /\ pc'[w] = "sync"
      BY <2>7 DEF Saves, Written
    <3> QED
      BY <2>7, <3>1, <3>2 DEF Saves, RepairFollows
  <2>8. ASSUME NEW t \in Token, NEW p \in Approver, FormRollsBack(t, p)
        PROVE  RepairFollows'
    BY <2>8, RepairStays DEF FormRollsBack
  <2>9. ASSUME NEW a \in Admin, NEW t \in Token, NEW p \in Approver,
               FormAsks(a, t, p)
        PROVE  RepairFollows'
    <3>1. \A w \in Worker : pc'[w] # "sync"
      BY <2>0, <2>9, ProcessAssumption DEF FormAsks, WriteFaults
    <3>2. /\ row'.status = "APPROVAL_REQUIRED"
          /\ repair' = RepairStatus("APPROVAL_REQUIRED")
      BY <2>0, <2>9 DEF FormAsks
    <3> QED
      BY <3>1, <3>2, FormRepairs
  <2>10. ASSUME NEW posted \in Row, NEW r \in Row, Adds(posted, r)
         PROVE  RepairFollows'
    <3>1. /\ row'.status = r.status /\ repair' = RepairStatus(r.status)
          /\ \A w \in Worker : pc'[w] # "sync"
      BY <2>0, <2>10 DEF Adds, Written, Fits, RowFits
    <3> QED
      BY <3>1, FormRepairs
  <2>11. ASSUME NEW a \in Admin, NEW posted \in Row, NEW r \in Row,
                FormWrites(a, posted, r)
         PROVE  RepairFollows'
    <3>1. \A w \in Worker : pc'[w] # "sync"
      BY <2>0, <2>11, ProcessAssumption DEF FormWrites, WriteFaults
    <3>2. row'.status = r.status /\ repair' = RepairStatus(r.status)
      BY <2>0, <2>11 DEF FormWrites, Written
    <3> QED
      BY <3>1, <3>2, FormRepairs
  <2> QED
    BY <2>1, <2>2, <2>3, <2>4, <2>5, <2>6, <2>7, <2>8, <2>9, <2>10, <2>11
       DEF Shaped
<1> QED
  BY <1>1, <1>2, TypeCorrect, FitsHolds, PTL DEF Spec

\* The repair follows its request, whichever handlers write the row, as long
\* as no second one writes between a save and its signal.
THEOREM RepairKeepsStep == Spec => []RepairInStep
<1>1. RepairRules => RepairInStep
  BY DEF RepairRules, RepairUndisturbed, RepairFollows, RepairInStep
<1> QED
  BY <1>1, RepairRulesHold, PTL

-----------------------------------------------------------------------------
\* A decision stays on its way to the history until it is there.
LEMMA TrailRulesHold == Spec => []TrailRules
<1>1. Init => TrailRules
  BY DEF Init, TrailRules
<1>2. TypeOK /\ Fits /\ TrailRules /\ [Next]_vars => TrailRules'
  <2> SUFFICES ASSUME TypeOK, Fits, Shaped,
                      faults \subseteq faults',
                      faults' \cap {"crash", "delete"} = {},
                      NEW t \in spent',
                      t \in spent => \/ t \in history
                                     \/ \E w \in Worker : Logging(w, t)
               PROVE  t \in history' \/ \E w \in Worker : Logging(w, t)'
    BY StepsAreShaped, FaultsGrow DEF TrailRules
  <2> DEFINE Goal == t \in history' \/ \E w \in Worker : Logging(w, t)'
  <2> USE DEF Logging, Others, Handlers
  <2>1. ASSUME Still PROVE Goal
    BY <2>1 DEF Still
  <2>2. ASSUME Deletes PROVE Goal
    BY <2>2 DEF Deletes
  <2>3. ASSUME NEW w \in Worker, Reads(w) PROVE Goal
    BY <2>3 DEF Reads
  <2>4. ASSUME NEW w \in Worker, Creates(w) PROVE Goal
    BY <2>4 DEF Creates
  <2>5. ASSUME NEW w \in Worker, Syncs(w) PROVE Goal
    BY <2>5 DEF Syncs, Returned, Moved
  <2>6. ASSUME NEW w \in Worker, Routes(w) PROVE Goal
    BY <2>6 DEF Routes, Returned
  <2>7. ASSUME NEW w \in Worker, Logs(w) PROVE Goal
    <3>1. Exists
      BY <2>7 DEF Logs, Fits, RowFits, TypeOK, Row, Absent, Exists
    <3>2. CASE Logging(w, t)
      BY <2>7, <3>1, <3>2 DEF Logs
    <3>3. CASE ~Logging(w, t)
      BY <2>7, <3>3 DEF Logs, Returned, Moved
    <3> QED
      BY <3>2, <3>3
  <2>8. ASSUME NEW w \in Worker, Mails(w) PROVE Goal
    BY <2>8 DEF Mails, Returned
  <2>9. ASSUME NEW w \in Worker, Crashes(w) PROVE Goal
    BY <2>9 DEF Crashes
  <2>10. ASSUME NEW w \in Worker, NEW u \in Token, NEW p \in Approver,
                Asks(w, u, p)
         PROVE  Goal
    BY <2>10 DEF Asks
  <2>11. ASSUME NEW w \in Worker, NEW r \in Row, Saves(w, r) PROVE Goal
    <3>1. CASE t \in spent
      BY <2>11, <3>1 DEF Saves
    <3>2. CASE t \notin spent
      <4>1. op[w] = "link" /\ key[w] = t
        BY <2>11, <3>2 DEF Saves
      <4> QED
        BY <2>11, <4>1 DEF Saves
    <3> QED
      BY <3>1, <3>2
  <2>12. ASSUME NEW u \in Token, NEW p \in Approver, FormRollsBack(u, p)
         PROVE  Goal
    BY <2>12 DEF FormRollsBack
  <2>13. ASSUME NEW a \in Admin, NEW u \in Token, NEW p \in Approver,
                FormAsks(a, u, p)
         PROVE  Goal
    BY <2>13 DEF FormAsks
  <2>14. ASSUME NEW posted \in Row, NEW r \in Row, Adds(posted, r) PROVE Goal
    BY <2>14 DEF Adds
  <2>15. ASSUME NEW a \in Admin, NEW posted \in Row, NEW r \in Row,
                FormWrites(a, posted, r)
         PROVE  Goal
    BY <2>15 DEF FormWrites
  <2> HIDE DEF Goal
  <2>16. Goal
    BY <2>1, <2>2, <2>3, <2>4, <2>5, <2>6, <2>7, <2>8, <2>9, <2>10, <2>11,
       <2>12, <2>13, <2>14, <2>15 DEF Shaped
  <2> QED
    BY <2>16 DEF Goal
<1> QED
  BY <1>1, <1>2, TypeCorrect, FitsHolds, PTL DEF Spec

\* Every decision taken through a link gets its entry in the history, unless
\* the handler is killed or the request is deleted.
THEOREM DecisionsAreLogged == Spec => []DecisionLeavesTrail
<1>1. TrailRules => DecisionLeavesTrail
  BY DEF TrailRules, DecisionLeavesTrail, Logging
<1> QED
  BY <1>1, TrailRulesHold, PTL
=============================================================================
