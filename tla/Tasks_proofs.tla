----------------------------- MODULE Tasks_proofs -----------------------------
(***************************************************************************)
(* The memos and the main tasks of the office, for any persons, outcomes,  *)
(* subtasks and number of open forms, and unless a hazard that the         *)
(* property names has happened.                                            *)
(***************************************************************************)
EXTENDS MemoReview, TaskTree, TLAPS

-----------------------------------------------------------------------------
(***************************************************************************)
(* Memos: nobody is told twice of a memo, the author of a reviewed memo    *)
(* has been told, what is made of a memo is linked to it, and only a       *)
(* leader's page takes a review back.                                      *)
(***************************************************************************)

AnyForm == {Closed} \cup Page \cup Posted \cup New \cup Making

LEMMA MemoTyped ==
    ASSUME TypeOK
    PROVE  /\ Exists => memo \in Row
           /\ memo = Unborn => ~Exists
  BY DEF TypeOK, Exists, Unborn, Gone, Stage

LEMMA FormTyped ==
    ASSUME TypeOK, NEW f \in Form
    PROVE  /\ form[f] \in AnyForm
           /\ form[f].step = "page" => form[f] \in Page
           /\ form[f].step = "posted" => form[f] \in Posted
           /\ form[f].step = "new" => form[f] \in New
           /\ form[f].step = "making" => form[f] \in Making
  BY DEF TypeOK, AnyForm, Closed, Page, Posted, New, Making

LEMMA SetTyped ==
    ASSUME TypeOK, NEW f \in Form, NEW value \in AnyForm, Set(f, value)
    PROVE  /\ form' \in [Form -> AnyForm]
           /\ form'[f] = value
           /\ \A g \in Form \ {f} : form'[g] = form[g]
  BY DEF TypeOK, AnyForm, Set

LEMMA TypedRows ==
    ASSUME TypeOK, NEW page \in Page
    PROVE  Typed(page) \subseteq Row
<1> DEFINE row == page.row
<1>1. row \in Row /\ world.persons \subseteq Person /\ made \subseteq Outcome
  BY MemoAssumption DEF TypeOK, Page
<1>2. {[row EXCEPT !.stage = s] : s \in IF HasStage(page.by) THEN Stage ELSE {}}
        \subseteq Row
  BY <1>1 DEF Row
<1>3. {[row EXCEPT !.draft = d] : d \in IF HasDraft(page.by) THEN BOOLEAN ELSE {}}
        \subseteq Row
  BY <1>1 DEF Row
<1>4. {[row EXCEPT !.to = p] : p \in world.persons} \subseteq Row
  BY <1>1 DEF Row
<1>5. {[row EXCEPT ![k] = o] : k \in Kind, o \in made \cup {None}} \subseteq Row
  <2>1. ASSUME NEW o \in made \cup {None}, NEW k \in Kind
        PROVE  [row EXCEPT ![k] = o] \in Row
    <3>1. CASE k = "task"
      BY <1>1, <2>1, <3>1 DEF Row
    <3>2. CASE k = "project"
      BY <1>1, <2>1, <3>2 DEF Row
    <3> QED
      BY <2>1, <3>1, <3>2 DEF Kind
  <2> HIDE DEF row
  <2> QED
    BY <2>1
<1> QED
  BY <1>1, <1>2, <1>3, <1>4, <1>5 DEF Typed

LEMMA MergeTyped ==
    ASSUME TypeOK, Exists, NEW by, NEW post \in Row
    PROVE  /\ Merge(by, post) \in Row
           /\ ~HasStage(by) => Merge(by, post).stage = memo.stage
<1>1. memo \in Row
  BY MemoTyped
<1> QED
  BY <1>1 DEF Merge, Row

LEMMA PostponedTyped ==
    ASSUME NEW row \in Row, NEW next
    PROVE  /\ Postponed(row, next) \in Row
           /\ Postponed(row, next) # row => memo.stage # "reviewed" /\ row.stage = "reviewed"
  BY DEF Postponed, Row, Stage

\* What posting a page does.
LEMMA PostStep ==
    ASSUME TypeOK, NEW f \in Form, NEW post \in Typed(form[f]),
           NEW S \in SUBSET world.subscribers, NEW next \in Kind \cup {"save"},
           Post(f, post, S, next)
    PROVE  /\ Exists
           /\ form' \in [Form -> AnyForm]
           /\ form'[f] \in Posted
           /\ ~HasStage(form'[f].by) => form'[f].row.stage = memo.stage
           /\ form'[f].row.stage = "reviewed" =>
                  form'[f].reviewed \/ memo.stage = "reviewed"
           /\ \A g \in Form \ {f} : form'[g] = form[g]
<1> DEFINE page == form[f]
           row == Postponed(Merge(page.by, post), next)
           fm == [step |-> "posted", by |-> page.by, row |-> row, subs |-> S,
                  reviewed |-> Reviews(page, row), tell |-> Tells(row, S),
                  next |-> next]
<1>1. page \in Page /\ Exists
  BY FormTyped DEF Post, MayChange
<1>2. post \in Row
  BY <1>1, TypedRows
<1>3. /\ row \in Row
      /\ ~HasStage(page.by) => row.stage = memo.stage
  BY <1>1, <1>2, MergeTyped, PostponedTyped
<1>4. S \subseteq Subscriber /\ page.by \in Role
  BY <1>1, MemoAssumption DEF TypeOK, Page
<1>5. fm \in Posted
  BY <1>3, <1>4 DEF Posted, Reviews, Tells
<1>6. Set(f, fm)
  BY DEF Post
<1>7. /\ form' \in [Form -> AnyForm] /\ form'[f] = fm
      /\ \A g \in Form \ {f} : form'[g] = form[g]
  <2>1. fm \in AnyForm
    BY <1>5 DEF AnyForm
  <2> HIDE DEF fm
  <2> QED
    BY <1>6, <2>1, SetTyped
<1>8. row.stage = "reviewed" => Reviews(page, row) \/ memo.stage = "reviewed"
  BY DEF Reviews
<1> HIDE DEF row
<1> QED
  BY <1>1, <1>3, <1>5, <1>7, <1>8

LEMMA CommitStep ==
    ASSUME TypeOK, NEW f \in Form, Commit(f)
    PROVE  /\ form[f] \in Posted
           /\ memo' \in Row /\ memo'.stage = form[f].row.stage
           /\ form' \in [Form -> AnyForm]
           /\ form'[f] # form[f] /\ form'[f].step \notin {"posted", "making"}
           /\ \A g \in Form \ {f} : form'[g] = form[g]
<1> DEFINE fm == form[f]
           after == IF fm.next = "save" THEN Closed
                    ELSE [step |-> "new", kind |-> fm.next]
<1>1. fm \in Posted /\ fm.row \in Row
  BY FormTyped DEF Commit, Posted
<1>2. memo' \in Row /\ memo'.stage = fm.row.stage
  <2>1. memo' = [fm.row EXCEPT !.notified = @ \/ Sends(fm)]
    BY DEF Commit
  <2>2. (fm.row.notified \/ Sends(fm)) \in BOOLEAN
    BY <1>1 DEF Row, Sends
  <2> QED
    BY <1>1, <2>1, <2>2 DEF Row
<1>3. after \in AnyForm /\ after.step \in {"none", "new"}
  BY <1>1 DEF AnyForm, Closed, New, Posted
<1>4. Set(f, after)
  BY DEF Commit
<1> HIDE DEF after
<1>5. form' \in [Form -> AnyForm] /\ form'[f] = after
      /\ \A g \in Form \ {f} : form'[g] = form[g]
  BY <1>3, <1>4, SetTyped
<1> QED
  BY <1>1, <1>2, <1>3, <1>5 DEF Posted

LEMMA CommitMadeStep ==
    ASSUME TypeOK, NEW f \in Form, CommitMade(f)
    PROVE  /\ form[f] \in Making
           /\ IF form[f].row.stage = "reviewed" THEN UNCHANGED <<memo, review>>
              ELSE memo' \in Row /\ memo'.stage = "reviewed" /\ review' = TRUE
           /\ form' \in [Form -> AnyForm]
           /\ form'[f] = Closed
           /\ \A g \in Form \ {f} : form'[g] = form[g]
<1>1. form[f] \in Making
  BY FormTyped DEF CommitMade
<1>2. Linked(form[f]) \in Row /\ Linked(form[f]).stage = "reviewed"
  <2>1. /\ form[f].row \in Row /\ form[f].o \in Outcome
        /\ form[f].kind = "task" \/ form[f].kind = "project"
    BY <1>1 DEF Making, Kind
  <2>2. CASE form[f].kind = "task"
    BY <2>1, <2>2 DEF Linked, Row, Stage
  <2>3. CASE form[f].kind = "project"
    BY <2>1, <2>3 DEF Linked, Row, Stage
  <2> QED
    BY <2>1, <2>2, <2>3
<1>3. Closed \in AnyForm
  BY DEF AnyForm
<1> QED
  BY <1>1, <1>2, <1>3, SetTyped DEF CommitMade

LEMMA DeleteMadeStep ==
    ASSUME TypeOK, NEW o \in Outcome, DeleteMade(o)
    PROVE  IF Exists THEN memo' \in Row /\ memo'.stage = memo.stage
           ELSE memo' = memo
<1>1. Exists => memo \in Row
  BY MemoTyped
<1> QED
  BY <1>1 DEF DeleteMade, Row

LEMMA FaultsTyped ==
    ASSUME NEW cond, NEW fault \in Fault
    PROVE  If(cond, fault) \subseteq Fault
  BY DEF If

LEMMA StepTyped == TypeOK /\ [Next]_vars => TypeOK'
<1> SUFFICES ASSUME TypeOK, [Next]_vars PROVE TypeOK'
  OBVIOUS
<1>w. /\ world.persons \subseteq Person
      /\ world.subscribers \subseteq Subscriber
      /\ world.outcomes \subseteq Outcome
      /\ world.drafts \subseteq BOOLEAN
      /\ world.roles \subseteq Role
  BY MemoAssumption DEF TypeOK, Role
<1>l. \A p \in Person : Another(p) \in [Person -> 0..2]
  BY DEF TypeOK, Another
<1>c. Closed \in AnyForm
  BY DEF AnyForm
<1>f. \A f \in Form : Overlap(Form \ {f}) \subseteq Fault /\ Overlap(Form) \subseteq Fault
  BY FaultsTyped DEF Overlap, Fault
<1>1. ASSUME NEW draft \in world.drafts, NEW p \in world.persons,
             NEW S \in SUBSET world.subscribers, Write(draft, p, S)
      PROVE  TypeOK'
  <2>1. memo' \in Row
    BY <1>1, <1>w DEF Write, Row, Stage
  <2> QED
    BY <1>1, <1>w, <1>l, <2>1 DEF Write, TypeOK
<1>2. ASSUME NEW f \in Form, NEW by \in world.roles, Open(f, by)
      PROVE  TypeOK'
  <2>1. [step |-> "page", by |-> by, row |-> memo, subs |-> subs] \in AnyForm
    BY <1>2, <1>w, MemoTyped DEF Open, MayChange, AnyForm, Page, TypeOK
  <2>2. form' \in [Form -> AnyForm]
    BY <1>2, <2>1, SetTyped DEF Open
  <2> QED
    BY <1>2, <2>2 DEF Open, TypeOK, AnyForm
<1>3. ASSUME NEW f \in Form, NEW post \in Typed(form[f]),
             NEW S \in SUBSET world.subscribers, NEW next \in Kind \cup {"save"},
             Post(f, post, S, next)
      PROVE  TypeOK'
  <2>1. form' \in [Form -> AnyForm]
    BY <1>3, PostStep
  <2>2. faults' \subseteq Fault
    <3>1. "stale_page" \in Fault /\ "readdressed" \in Fault
          /\ "by_hand" \in Fault /\ "answered" \in Fault
      BY DEF Fault
    <3>2. faults \subseteq Fault
      BY DEF TypeOK
    <3> QED
      BY <1>3, <3>1, <3>2, FaultsTyped DEF Post
  <2> QED
    BY <1>3, <2>1, <2>2 DEF Post, TypeOK, AnyForm
<1>4. ASSUME NEW f \in Form, Commit(f)
      PROVE  TypeOK'
  <2>1. /\ form[f] \in Posted /\ memo' \in Row /\ form' \in [Form -> AnyForm]
    BY <1>4, CommitStep
  <2>2. faults' \subseteq Fault
    BY <1>4, <1>f, FaultsTyped DEF Commit, Answers, TypeOK, Fault
  <2>3. letters' \in [Person -> 0..2]
    BY <1>4, <1>l, <2>1 DEF Commit, Posted, Row, TypeOK
  <2>4. subs' \subseteq Subscriber /\ told' \subseteq Subscriber /\ review' \in BOOLEAN
    BY <1>4, <2>1 DEF Commit, Posted, TypeOK
  <2> QED
    BY <1>4, <2>1, <2>2, <2>3, <2>4 DEF Commit, TypeOK, AnyForm
<1>5. CASE Delete
  BY <1>5, <1>f, FaultsTyped DEF Delete, TypeOK, Overlap, Fault
<1>6. ASSUME NEW f \in Form, NEW o \in world.outcomes, Make(f, o)
      PROVE  TypeOK'
  <2>1. [step |-> "making", kind |-> form[f].kind, o |-> o, row |-> memo] \in AnyForm
    BY <1>6, <1>w, MemoTyped, FormTyped DEF Make, AnyForm, New, Making
  <2>2. form' \in [Form -> AnyForm]
    BY <1>6, <2>1, SetTyped DEF Make
  <2> QED
    BY <1>6, <2>2 DEF Make, TypeOK, AnyForm
<1>7. ASSUME NEW f \in Form, CommitMade(f)
      PROVE  TypeOK'
  <2>1. /\ form[f] \in Making /\ form' \in [Form -> AnyForm]
        /\ memo' \in Row \cup {Unborn, Gone} /\ review' \in BOOLEAN
    BY <1>7, CommitMadeStep DEF TypeOK
  <2>2. faults' \subseteq Fault
    BY <1>7, <1>f, FaultsTyped DEF CommitMade, Answers, TypeOK, Fault
  <2>3. made' \subseteq Outcome
    BY <1>7, <2>1 DEF CommitMade, Making, TypeOK
  <2> QED
    BY <1>7, <2>1, <2>2, <2>3 DEF CommitMade, TypeOK, AnyForm
<1>8. ASSUME NEW o \in world.outcomes, DeleteMade(o)
      PROVE  TypeOK'
  <2>1. memo' \in Row \cup {Unborn, Gone}
    BY <1>8, <1>w, DeleteMadeStep DEF TypeOK
  <2>2. faults' \subseteq Fault
    BY <1>8, FaultsTyped DEF DeleteMade, Overlap, TypeOK, Fault
  <2> QED
    BY <1>8, <2>1, <2>2 DEF DeleteMade, TypeOK
<1>9. ASSUME NEW f \in Form, Abandon(f)
      PROVE  TypeOK'
  <2>1. form' \in [Form -> AnyForm]
    BY <1>9, <1>c, SetTyped DEF Abandon
  <2> QED
    BY <1>9, <2>1 DEF Abandon, TypeOK, AnyForm
<1>10. CASE UNCHANGED vars
  BY <1>10 DEF vars, TypeOK
<1> QED
  BY <1>1, <1>2, <1>3, <1>4, <1>5, <1>6, <1>7, <1>8, <1>9, <1>10 DEF Next

\* Type correctness: every page, row and list of the memo keeps its type.
THEOREM TypeCorrect == Spec => []TypeOK
<1>1. Init => TypeOK
  <2> SUFFICES ASSUME Init PROVE TypeOK
    OBVIOUS
  <2>1. letters \in [Person -> 0..2]
    BY DEF Init
  <2>2. form \in [Form -> {Closed}]
    BY DEF Init
  <2>3. form \in [Form -> {Closed} \cup Page \cup Posted \cup New \cup Making]
    BY <2>2
  <2> QED
    BY <2>1, <2>3 DEF Init, TypeOK
<1> QED
  BY <1>1, StepTyped, PTL DEF Spec

-----------------------------------------------------------------------------
(***************************************************************************)
(* Without overlap nothing changes between the reading of a form and its   *)
(* commit.  What a form is going to save is then judged by the memo as it  *)
(* is: a page without the stage keeps it, and one that reviews the memo    *)
(* tells the owner or he has been told.                                    *)
(***************************************************************************)
FormsAreCurrent ==
    \A f \in Form :
        /\ form[f].step = "posted" =>
              /\ Exists
              /\ ~HasStage(form[f].by) => form[f].row.stage = memo.stage
              /\ form[f].row.stage = "reviewed" =>
                     form[f].reviewed \/ memo.stage = "reviewed"
        /\ form[f].step = "making" => Exists /\ form[f].row = memo

TheReviewIsTold ==
    NoFault({"overlap"}) =>
        /\ FormsAreCurrent
        /\ Exists /\ memo.stage = "reviewed" => review

LEMMA NothingOverlaps ==
    ASSUME NEW F \in SUBSET Form, NEW R, NoFault({"overlap"})',
           faults' = faults \cup Overlap(F) \cup R
    PROVE  \A g \in F : form[g].step \notin {"posted", "making"}
  BY DEF NoFault, Overlap, If, Reading

LEMMA FaultsStay == [Next]_vars => faults \subseteq faults'
<1>1. \A draft, p, S : Write(draft, p, S) => faults' = faults
  BY DEF Write
<1>2. \A f, by : Open(f, by) => faults' = faults
  BY DEF Open
<1>3. \A f, post, S, next : Post(f, post, S, next) => faults \subseteq faults'
  <2>1. ASSUME NEW f, NEW post, NEW S, NEW next, Post(f, post, S, next)
        PROVE  \E F1, F2, F3, F4 : faults' = faults \cup F1 \cup F2 \cup F3 \cup F4
    BY <2>1 DEF Post
  <2> QED
    BY <2>1
<1>4. \A f : Commit(f) \/ CommitMade(f) => faults \subseteq faults'
  BY DEF Commit, CommitMade
<1>5. Delete \/ (\E o : DeleteMade(o)) => faults \subseteq faults'
  BY DEF Delete, DeleteMade
<1>6. \A f, o : Make(f, o) => faults' = faults
  BY DEF Make
<1>7. \A f : Abandon(f) => faults' = faults
  BY DEF Abandon
<1>8. UNCHANGED vars => faults' = faults
  BY DEF vars
<1> QED
  BY <1>1, <1>2, <1>3, <1>4, <1>5, <1>6, <1>7, <1>8 DEF Next

\* A review that is taken back is taken back by a leader's page.
Undone == Exists /\ memo.stage = "reviewed" /\ Exists' /\ memo'.stage # "reviewed"
ByLeader == \E f \in Form : /\ form[f].step = "posted" /\ HasStage(form[f].by)
                            /\ form'[f] # form[f]

LEMMA ReviewStep ==
    ASSUME TypeOK, TheReviewIsTold, [Next]_vars, NoFault({"overlap"})'
    PROVE  TheReviewIsTold' /\ (Undone => ByLeader)
<1> DEFINE Goal == FormsAreCurrent' /\ (Exists' /\ memo'.stage = "reviewed" => review')
                     /\ (Undone => ByLeader)
<1>g. SUFFICES Goal
  BY DEF TheReviewIsTold
<1>n. NoFault({"overlap"})
  BY FaultsStay DEF NoFault
<1>h. FormsAreCurrent /\ (Exists /\ memo.stage = "reviewed" => review)
  BY <1>n DEF TheReviewIsTold
<1>1. ASSUME NEW draft \in world.drafts, NEW p \in world.persons,
             NEW S \in SUBSET world.subscribers, Write(draft, p, S)
      PROVE  Goal
  <2>1. ~Exists /\ memo'.stage = "pending" /\ form' = form
    BY <1>1, MemoTyped DEF Write
  <2> QED
    BY <1>h, <2>1 DEF FormsAreCurrent, Undone
<1>2. ASSUME NEW f \in Form, NEW by \in world.roles, Open(f, by)
      PROVE  Goal
  <2>1. form'[f].step = "page" /\ \A g \in Form \ {f} : form'[g] = form[g]
    BY <1>2 DEF Open, Set, TypeOK
  <2> QED
    BY <1>2, <1>h, <2>1 DEF Open, FormsAreCurrent, Undone, Exists
<1>3. ASSUME NEW f \in Form, NEW post \in Typed(form[f]),
             NEW S \in SUBSET world.subscribers, NEW next \in Kind \cup {"save"},
             Post(f, post, S, next)
      PROVE  Goal
  <2>1. UNCHANGED <<memo, review>>
    BY <1>3 DEF Post
  <2>2. form'[f].step = "posted"
    BY <1>3, PostStep DEF Posted
  <2> QED
    BY <1>3, <1>h, <2>1, <2>2, PostStep DEF FormsAreCurrent, Undone, Exists
<1>4. ASSUME NEW f \in Form, Commit(f)
      PROVE  Goal
  <2>1. \A g \in Form \ {f} : form[g].step \notin {"posted", "making"}
    <3>1. faults' = faults \cup Overlap(Form \ {f}) \cup Answers(Form \ {f}, form[f].row)
      BY <1>4 DEF Commit
    <3> QED
      BY <3>1, NothingOverlaps
  <2>2. FormsAreCurrent'
    BY <1>4, <2>1, CommitStep DEF FormsAreCurrent
  <2>3. form[f].step = "posted"
        /\ review' = (form[f].row.stage = "reviewed" /\ (review \/ form[f].reviewed))
    BY <1>4 DEF Commit
  <2>4. memo'.stage = "reviewed" => review'
    BY <1>4, <1>h, <2>3, CommitStep DEF FormsAreCurrent
  <2>5. Undone => ByLeader
    BY <1>4, <1>h, <2>3, CommitStep DEF FormsAreCurrent, Undone, ByLeader
  <2> QED
    BY <2>2, <2>4, <2>5
<1>5. CASE Delete
  <2>1. \A g \in Form : form[g].step \notin {"posted", "making"}
    <3>1. faults' = faults \cup Overlap(Form) \cup {}
      BY <1>5 DEF Delete
    <3> QED
      BY <3>1, NothingOverlaps
  <2>2. form' = form /\ ~Exists'
    BY <1>5 DEF Delete, Exists, Gone, Stage
  <2> QED
    BY <2>1, <2>2 DEF FormsAreCurrent, Undone
<1>6. ASSUME NEW f \in Form, NEW o \in world.outcomes, Make(f, o)
      PROVE  Goal
  <2>1. UNCHANGED <<memo, review>> /\ Exists
    BY <1>6 DEF Make
  <2>2. /\ form'[f].step = "making" /\ form'[f].row = memo
        /\ \A g \in Form \ {f} : form'[g] = form[g]
    BY <1>6 DEF Make, Set, TypeOK
  <2> QED
    BY <1>h, <2>1, <2>2 DEF FormsAreCurrent, Undone, Exists
<1>7. ASSUME NEW f \in Form, CommitMade(f)
      PROVE  Goal
  <2>1. \A g \in Form \ {f} : form[g].step \notin {"posted", "making"}
    <3>1. faults' = faults \cup Overlap(Form \ {f}) \cup Answers(Form \ {f}, memo')
      BY <1>7 DEF CommitMade
    <3> QED
      BY <3>1, NothingOverlaps
  <2>2. FormsAreCurrent'
    <3>1. form'[f].step = "none" /\ \A g \in Form \ {f} : form'[g] = form[g]
      <4>1. form'[f] = Closed /\ \A g \in Form \ {f} : form'[g] = form[g]
        BY <1>7, CommitMadeStep
      <4> QED
        BY <4>1 DEF Closed
    <3> QED
      BY <2>1, <3>1 DEF FormsAreCurrent
  <2>3. form[f].step = "making" /\ form[f].row = memo
    BY <1>7, <1>h DEF CommitMade, FormsAreCurrent
  <2> QED
    BY <1>7, <1>h, <2>2, <2>3, CommitMadeStep DEF Undone, Exists
<1>8. ASSUME NEW o \in world.outcomes, DeleteMade(o)
      PROVE  Goal
  <2>1. \A g \in Form : form[g].step \notin {"posted", "making"}
    <3>1. faults' = faults \cup Overlap(Form) \cup {}
      BY <1>8 DEF DeleteMade
    <3> QED
      BY <3>1, NothingOverlaps
  <2>2. form' = form /\ review' = review /\ memo'.stage = memo.stage
    <3>1. o \in Outcome
      BY MemoAssumption DEF TypeOK
    <3> QED
      BY <1>8, <3>1, DeleteMadeStep DEF DeleteMade
  <2> QED
    BY <1>h, <2>1, <2>2 DEF FormsAreCurrent, Undone, Exists
<1>9. ASSUME NEW f \in Form, Abandon(f)
      PROVE  Goal
  <2>1. form'[f].step = "none" /\ \A g \in Form \ {f} : form'[g] = form[g]
    BY <1>9 DEF Abandon, Set, TypeOK, Closed
  <2> QED
    BY <1>9, <1>h, <2>1 DEF Abandon, FormsAreCurrent, Undone, Exists
<1>10. CASE UNCHANGED vars
  BY <1>10, <1>h DEF vars, FormsAreCurrent, Undone, Exists
<1> QED
  BY <1>1, <1>2, <1>3, <1>4, <1>5, <1>6, <1>7, <1>8, <1>9, <1>10 DEF Next

LEMMA ReviewIsTold == Spec => []TheReviewIsTold
<1>1. Init => TheReviewIsTold
  BY DEF Init, TheReviewIsTold, FormsAreCurrent, Exists, Unborn, Closed, Stage
<1>2. TypeOK /\ TheReviewIsTold /\ [Next]_vars => TheReviewIsTold'
  <2>1. ~NoFault({"overlap"})' => TheReviewIsTold'
    BY DEF TheReviewIsTold
  <2> QED
    BY <2>1, ReviewStep
<1> QED
  BY <1>1, <1>2, TypeCorrect, PTL DEF Spec

\* The author of a reviewed memo has been told of the review, by the page that
\* set the stage or by the form of the task made of it.
THEOREM AuthorIsTold == Spec => []ReviewTold
<1>1. TheReviewIsTold => ReviewTold
  BY DEF TheReviewIsTold, ReviewTold
<1> QED
  BY <1>1, ReviewIsTold, PTL

\* Only a leader's page takes a review back: the pages of the owner and the
\* others, the task made of the memo and its deletion leave the stage alone.
THEOREM OnlyLeadersUndo == Spec => ReviewStands
<1> DEFINE A == Exists /\ memo.stage = "reviewed" /\ Exists' /\ memo'.stage # "reviewed"
                /\ "overlap" \notin faults'
                => ByLeader
<1>1. TypeOK /\ TheReviewIsTold /\ [Next]_vars => [A]_vars
  <2>1. ASSUME TypeOK, TheReviewIsTold, [Next]_vars, "overlap" \notin faults', Undone
        PROVE  ByLeader
    <3>1. NoFault({"overlap"})'
      BY <2>1 DEF NoFault
    <3> QED
      BY <2>1, <3>1, ReviewStep
  <2> QED
    BY <2>1 DEF Undone
<1>2. Spec => [][A]_vars
  BY <1>1, TypeCorrect, ReviewIsTold, PTL DEF Spec
<1> QED
  BY <1>2 DEF ReviewStands, ByLeader

-----------------------------------------------------------------------------
(***************************************************************************)
(* Who the memo is for is told once.  The mark "notified" of the row says  *)
(* that the letter to the recipient has gone; what a form is going to save *)
(* has the mark, the draft box and the subscribers of the memo as it is.   *)
(***************************************************************************)

\* Before the memo is written nothing has happened.
Untouched ==
    memo = Unborn => /\ made = {} /\ \A p \in Person : letters[p] = 0
                     /\ \A f \in Form : form[f] = Closed

Marked(m) == m.notified \/ m.draft

LettersOfForms ==
    \A f \in Form : form[f].step = "posted" =>
        LET fm == form[f]
        IN  /\ fm.row.notified = memo.notified
            /\ HasDraft(fm.by) \/ fm.row.draft = memo.draft
            /\ fm.tell \/ (fm.subs = subs /\ fm.row.draft = memo.draft)
            /\ memo.notified /\ NoFault({"readdressed"}) => fm.row.to = memo.to

ToldOnce ==
    NoFault({"overlap"}) =>
        /\ \A p \in Person : letters[p] <= 1
        /\ Exists =>
              /\ Marked(memo)
              /\ ~memo.notified => \A p \in Person : letters[p] = 0
              /\ memo.notified /\ NoFault({"readdressed"}) => letters[memo.to] = 1
              /\ memo.draft \/ subs \subseteq told
        /\ LettersOfForms

-----------------------------------------------------------------------------
(***************************************************************************)
(* What was made of the memo is linked to it.  While a task or project is  *)
(* being made of it, the memo has no link and is not reviewed.             *)
(***************************************************************************)
LinkFault == {"overlap", "stale_page", "answered", "by_hand"}

\* A form that will, or may, make something of the memo.
Maker(fm) == \/ fm.step \in {"new", "making"}
             \/ fm.step = "posted" /\ fm.next # "save"

Links ==
    NoFault(LinkFault) =>
        /\ Exists => made \subseteq {memo.task, memo.project}
        /\ \A f \in Form :
              LET fm == form[f]
              IN  /\ fm.step = "posted" =>
                        /\ fm.row.task = memo.task /\ fm.row.project = memo.project
                        /\ fm.next # "save" => fm.row.stage # "reviewed"
                  /\ Maker(fm) /\ Exists =>
                        /\ memo.task = None /\ memo.project = None
                        /\ fm.step = "posted" \/ memo.stage # "reviewed"

-----------------------------------------------------------------------------
(***************************************************************************)
(* What the proofs need of posting and committing.                         *)
(***************************************************************************)
LEMMA MergedRow ==
    ASSUME TypeOK, Exists, NEW by, NEW post \in Row, NEW next
    PROVE  LET row == Postponed(Merge(by, post), next)
           IN  /\ row.notified = memo.notified
               /\ HasDraft(by) \/ row.draft = memo.draft
               /\ row.to = post.to /\ row.task = post.task /\ row.project = post.project
               /\ next = "task" /\ row.stage = "reviewed" => memo.stage = "reviewed"
<1>1. memo \in Row
  BY MemoTyped
<1>2. /\ Merge(by, post) \in Row
      /\ Merge(by, post).notified = memo.notified
      /\ HasDraft(by) \/ Merge(by, post).draft = memo.draft
      /\ Merge(by, post).to = post.to /\ Merge(by, post).task = post.task
      /\ Merge(by, post).project = post.project
  BY <1>1, MergeTyped DEF Merge, Row
<1> QED
  BY <1>2 DEF Postponed, Row

LEMMA PostedForm ==
    ASSUME TypeOK, NEW f \in Form, NEW post \in Typed(form[f]),
           NEW S \in SUBSET world.subscribers, NEW next \in Kind \cup {"save"},
           Post(f, post, S, next)
    PROVE  LET fm == form'[f]
           IN  /\ form[f] \in Page /\ Exists /\ memo \in Row
               /\ fm.step = "posted" /\ fm.next = next
               /\ fm.row.notified = memo.notified
               /\ HasDraft(fm.by) \/ fm.row.draft = memo.draft
               /\ fm.tell \/ (fm.subs = subs /\ fm.row.draft = memo.draft)
               /\ fm.row.to = post.to /\ fm.row.task = post.task
               /\ fm.row.project = post.project
               /\ fm.row.to # memo.to /\ memo.notified => "readdressed" \in faults'
               /\ <<post.task, post.project>> # <<form[f].row.task, form[f].row.project>>
                    => "by_hand" \in faults'
               /\ Fields(form[f].by, form[f].row, form[f].subs)
                    # Fields(form[f].by, memo, subs) => "stale_page" \in faults'
               /\ fm.row.stage = "reviewed" /\ next # "save" => "answered" \in faults'
               /\ memo.stage = "reviewed" /\ next # "save" => "answered" \in faults'
               /\ next # "save" => Refers(form[f].row) = {}
<1> DEFINE page == form[f]
           row == Postponed(Merge(page.by, post), next)
           fm == [step |-> "posted", by |-> page.by, row |-> row, subs |-> S,
                  reviewed |-> Reviews(page, row), tell |-> Tells(row, S),
                  next |-> next]
<1>1. page \in Page /\ Exists /\ memo \in Row
  BY FormTyped, MemoTyped DEF Post, MayChange
<1>2. post \in Row
  BY <1>1, TypedRows
<1>3. /\ row.notified = memo.notified
      /\ HasDraft(page.by) \/ row.draft = memo.draft
      /\ row.to = post.to /\ row.task = post.task /\ row.project = post.project
      /\ next = "task" /\ row.stage = "reviewed" => memo.stage = "reviewed"
  BY <1>1, <1>2, MergedRow
<1>4. Tells(row, S) \/ (S = subs /\ row.draft = memo.draft)
  BY DEF Tells
<1>5. /\ row.to # memo.to /\ memo.notified => "readdressed" \in faults'
      /\ <<post.task, post.project>> # <<page.row.task, page.row.project>>
           => "by_hand" \in faults'
      /\ Fields(page.by, page.row, page.subs) # Fields(page.by, memo, subs)
           => "stale_page" \in faults'
      /\ next # "save" /\ memo.stage = "reviewed" => "answered" \in faults'
      /\ next = "project" /\ row.stage = "reviewed" => "answered" \in faults'
      /\ next # "save" => Refers(page.row) = {}
  BY DEF Post, If
<1> HIDE DEF row
<1>6. form'[f] = fm
  BY DEF Post, Set, TypeOK, row
<1> QED
  BY <1>1, <1>3, <1>4, <1>5, <1>6 DEF Kind

LEMMA CommitLetters ==
    ASSUME TypeOK, NEW f \in Form, Commit(f)
    PROVE  LET fm == form[f]
           IN  /\ memo'.notified = (fm.row.notified \/ Sends(fm))
               /\ memo'.draft = fm.row.draft /\ memo'.to = fm.row.to
               /\ memo'.task = fm.row.task /\ memo'.project = fm.row.project
               /\ memo'.to \in Person
<1>1. form[f].row \in Row /\ memo' = [form[f].row EXCEPT !.notified = @ \/ Sends(form[f])]
  BY FormTyped DEF Commit, Posted
<1> QED
  BY <1>1 DEF Row

LEMMA CommitAlone ==
    ASSUME NEW f \in Form, Commit(f) \/ CommitMade(f), NoFault({"overlap"})'
    PROVE  \A g \in Form \ {f} : form[g].step \notin {"posted", "making"}
<1>1. CASE Commit(f)
  <2>1. faults' = faults \cup Overlap(Form \ {f}) \cup Answers(Form \ {f}, form[f].row)
    BY <1>1 DEF Commit
  <2> QED
    BY <2>1, NothingOverlaps
<1>2. CASE CommitMade(f)
  <2>1. faults' = faults \cup Overlap(Form \ {f}) \cup Answers(Form \ {f}, memo')
    BY <1>2 DEF CommitMade
  <2> QED
    BY <2>1, NothingOverlaps
<1> QED
  BY <1>1, <1>2

LEMMA DeleteAlone ==
    ASSUME Delete \/ (\E o : DeleteMade(o)), NoFault({"overlap"})'
    PROVE  \A g \in Form : form[g].step \notin {"posted", "making"}
<1>1. faults' = faults \cup Overlap(Form) \cup {}
  BY DEF Delete, DeleteMade
<1> QED
  BY <1>1, NothingOverlaps

\* The row of a form that has made something, with the links.
LEMMA LinkedRow ==
    ASSUME TypeOK, NEW f \in Form, form[f].step = "making"
    PROVE  LET m == Linked(form[f])
               row == form[f].row
           IN  /\ m.notified = row.notified /\ m.draft = row.draft /\ m.to = row.to
               /\ m.stage = "reviewed"
               /\ form[f].o \in {m.task, m.project}
<1>1. form[f].row \in Row /\ form[f].kind \in Kind /\ form[f].o \in Outcome
  BY FormTyped DEF Making
<1>2. CASE form[f].kind = "task"
  BY <1>1, <1>2 DEF Linked, Row
<1>3. CASE form[f].kind = "project"
  BY <1>1, <1>3 DEF Linked, Row
<1> QED
  BY <1>1, <1>2, <1>3 DEF Kind

-----------------------------------------------------------------------------
LEMMA StepUntouched == TypeOK /\ Untouched /\ [Next]_vars => Untouched'
<1> SUFFICES ASSUME TypeOK, Untouched, [Next]_vars, memo' = Unborn
             PROVE  UNCHANGED <<memo, made, letters, form>>
  BY DEF Untouched
<1>0. Unborn \notin Row /\ Unborn # Gone
  BY DEF Row, Unborn, Gone, Stage
<1>1. ASSUME NEW draft \in world.drafts, NEW p \in world.persons,
             NEW S \in SUBSET world.subscribers, Write(draft, p, S)
      PROVE  FALSE
  BY <1>1 DEF Write, Unborn
<1>2. ASSUME NEW f \in Form, Commit(f)
      PROVE  FALSE
  BY <1>0, <1>2, CommitStep
<1>3. memo = Unborn => ~Exists /\ \A f \in Form : form[f].step = "none"
  BY MemoTyped DEF Untouched, Closed
<1>4. CASE Delete
  BY <1>0, <1>4 DEF Delete
<1>5. ASSUME NEW f \in Form, CommitMade(f)
      PROVE  FALSE
  BY <1>0, <1>3, <1>5, CommitMadeStep DEF CommitMade
<1>6. ASSUME NEW o \in world.outcomes, DeleteMade(o)
      PROVE  FALSE
  <2>1. o \in Outcome /\ o \in made
    BY <1>6, MemoAssumption DEF TypeOK, DeleteMade
  <2>2. memo = Unborn
    BY <1>0, <1>6, <2>1, DeleteMadeStep
  <2> QED
    BY <2>1, <2>2 DEF Untouched
<1>7. ASSUME NEW f \in Form, Abandon(f)
      PROVE  FALSE
  BY <1>7 DEF Abandon, Untouched
<1>8. memo' = memo => ~Exists /\ \A f \in Form : form[f].step = "none"
  BY <1>3
<1>9. ASSUME NEW f \in Form, NEW by \in world.roles, Open(f, by)
      PROVE  FALSE
  BY <1>8, <1>9 DEF Open, MayChange
<1>10. ASSUME NEW f \in Form, NEW post, NEW S, NEW next, Post(f, post, S, next)
      PROVE  FALSE
  <2>1. UNCHANGED memo /\ Exists
    BY <1>10 DEF Post, MayChange
  <2> QED
    BY <1>8, <2>1
<1>11. ASSUME NEW f \in Form, NEW o, Make(f, o)
      PROVE  FALSE
  BY <1>8, <1>11 DEF Make
<1>12. CASE UNCHANGED vars
  BY <1>12 DEF vars
<1> QED
  BY <1>1, <1>2, <1>4, <1>5, <1>6, <1>7, <1>9, <1>10, <1>11, <1>12 DEF Next

LEMMA FaultsGrow ==
    ASSUME NEW F, [Next]_vars, NoFault(F)'
    PROVE  NoFault(F)
  BY FaultsStay DEF NoFault

\* Only the links of the memo change when a task or project is deleted.
LEMMA Unlinked ==
    ASSUME TypeOK, NEW o \in Outcome, DeleteMade(o)
    PROVE  /\ Exists' = Exists
           /\ Exists => /\ memo'.notified = memo.notified /\ memo'.draft = memo.draft
                        /\ memo'.to = memo.to /\ memo'.stage = memo.stage
                        /\ memo'.task = IF memo.task = o THEN None ELSE memo.task
                        /\ memo'.project = IF memo.project = o THEN None
                                           ELSE memo.project
<1>1. Exists => memo \in Row
  BY MemoTyped
<1>2. CASE Exists
  BY <1>1, <1>2 DEF DeleteMade, Row, Exists
<1>3. CASE ~Exists
  BY <1>3 DEF DeleteMade, Exists
<1> QED
  BY <1>2, <1>3

LEMMA StepToldOnce ==
    ASSUME TypeOK, Untouched, TheReviewIsTold, ToldOnce, [Next]_vars,
           NoFault({"overlap"})'
    PROVE  ToldOnce'
<1> DEFINE Fine == /\ \A p \in Person : letters[p] <= 1
                   /\ Exists =>
                         /\ Marked(memo)
                         /\ ~memo.notified => \A p \in Person : letters[p] = 0
                         /\ memo.notified /\ NoFault({"readdressed"})
                              => letters[memo.to] = 1
                         /\ memo.draft \/ subs \subseteq told
<1>g. SUFFICES Fine' /\ LettersOfForms'
  BY DEF ToldOnce
<1>h. Fine /\ LettersOfForms /\ FormsAreCurrent
  BY FaultsGrow DEF ToldOnce, TheReviewIsTold
<1>r. NoFault({"readdressed"})' => NoFault({"readdressed"})
  BY FaultsGrow
<1>1. ASSUME NEW draft \in world.drafts, NEW p \in world.persons,
             NEW S \in SUBSET world.subscribers, Write(draft, p, S)
      PROVE  Fine' /\ LettersOfForms'
  <2>1. /\ p \in Person /\ draft \in BOOLEAN /\ letters \in [Person -> 0..2]
        /\ \A q \in Person : letters[q] = 0
        /\ \A f \in Form : form[f].step = "none" /\ form' = form
    BY <1>1, MemoAssumption DEF TypeOK, Write, Untouched, Closed
  <2>2. LettersOfForms'
    BY <2>1 DEF LettersOfForms
  <2>3. memo'.to = p /\ memo'.notified = ~draft /\ memo'.draft = draft
    BY <1>1 DEF Write
  <2>4. CASE draft
    <3>1. memo'.draft /\ ~memo'.notified
      BY <2>3, <2>4
    <3>2. letters' = letters
      BY <1>1, <2>4 DEF Write
    <3> QED
      BY <2>1, <2>2, <3>1, <3>2 DEF Marked
  <2>5. CASE ~draft
    <3>1. letters' = [letters EXCEPT ![p] = 1]
      BY <1>1, <2>1, <2>5 DEF Write, Another
    <3>2. memo'.notified
      BY <2>3, <2>5
    <3>3. subs' \subseteq told'
      BY <1>1, <2>5 DEF Write
    <3>4. letters'[memo'.to] = 1 /\ \A q \in Person : letters'[q] <= 1
      BY <2>1, <2>3, <3>1
    <3> QED
      BY <2>2, <3>2, <3>3, <3>4 DEF Marked
  <2> QED
    BY <2>1, <2>2, <2>4, <2>5
<1>2. ASSUME NEW f \in Form, NEW by \in world.roles, Open(f, by)
      PROVE  Fine' /\ LettersOfForms'
  <2>1. /\ UNCHANGED <<memo, subs, told, letters, faults>>
        /\ form'[f].step = "page" /\ \A g \in Form \ {f} : form'[g] = form[g]
    BY <1>2 DEF Open, Set, TypeOK
  <2> QED
    BY <1>h, <2>1 DEF LettersOfForms, Exists, Marked, NoFault
<1>3. ASSUME NEW f \in Form, NEW post \in Typed(form[f]),
             NEW S \in SUBSET world.subscribers, NEW next \in Kind \cup {"save"},
             Post(f, post, S, next)
      PROVE  Fine' /\ LettersOfForms'
  <2>1. UNCHANGED <<memo, subs, told, letters>>
    BY <1>3 DEF Post
  <2>2. /\ form'[f].row.notified = memo.notified
        /\ HasDraft(form'[f].by) \/ form'[f].row.draft = memo.draft
        /\ form'[f].tell \/ (form'[f].subs = subs /\ form'[f].row.draft = memo.draft)
        /\ form'[f].row.to # memo.to /\ memo.notified => "readdressed" \in faults'
    BY <1>3, PostedForm
  <2>3. \A g \in Form \ {f} : form'[g] = form[g]
    BY <1>3, PostStep
  <2>4. Fine'
    BY <1>h, <1>r, <2>1 DEF Exists, Marked
  <2>5. memo.notified /\ NoFault({"readdressed"})' => form'[f].row.to = memo.to
    BY <2>2 DEF NoFault
  <2>6. LettersOfForms'
    BY <1>h, <1>r, <2>1, <2>2, <2>3, <2>5 DEF LettersOfForms
  <2> QED
    BY <2>4, <2>6
<1>4. ASSUME NEW f \in Form, Commit(f)
      PROVE  Fine' /\ LettersOfForms'
  <2> DEFINE fm == form[f]
  <2>1. /\ \A g \in Form \ {f} : form[g].step # "posted" /\ form'[g] = form[g]
        /\ form'[f].step # "posted"
    BY <1>4, CommitAlone, CommitStep
  <2>2. LettersOfForms'
    BY <2>1 DEF LettersOfForms
  <2>3. /\ memo'.notified = (fm.row.notified \/ Sends(fm))
        /\ memo'.draft = fm.row.draft /\ memo'.to = fm.row.to /\ memo'.to \in Person
    BY <1>4, CommitLetters
  <2>4. /\ Exists
        /\ fm.row.notified = memo.notified
        /\ HasDraft(fm.by) \/ fm.row.draft = memo.draft
        /\ fm.tell \/ (fm.subs = subs /\ fm.row.draft = memo.draft)
        /\ memo.notified /\ NoFault({"readdressed"}) => fm.row.to = memo.to
    BY <1>4, <1>h DEF Commit, LettersOfForms, FormsAreCurrent
  <2>5. memo'.draft \/ subs' \subseteq told'
    BY <1>4, <1>h, <2>3, <2>4 DEF Commit
  <2>6. letters \in [Person -> 0..2]
    BY DEF TypeOK
  <2>7. CASE Sends(fm)
    <3>1. \A q \in Person : letters[q] = 0
      BY <1>h, <2>4, <2>7 DEF Sends
    <3>2. letters' = [letters EXCEPT ![fm.row.to] = 1]
      BY <1>4, <2>3, <2>6, <2>7, <3>1 DEF Commit, Another
    <3>3. letters'[memo'.to] = 1 /\ \A q \in Person : letters'[q] <= 1
      BY <2>3, <2>6, <3>1, <3>2
    <3>4. memo'.notified
      BY <2>3, <2>7
    <3> QED
      BY <2>2, <2>5, <3>3, <3>4 DEF Marked
  <2>8. CASE ~Sends(fm)
    <3>1. letters' = letters
      BY <1>4, <2>8 DEF Commit
    <3>2. memo'.notified = memo.notified
      BY <1>4, <2>3, <2>4, <2>8, CommitStep, MemoTyped DEF Row, Posted
    <3>3. Marked(memo)'
      BY <1>h, <2>3, <2>4, <2>8, <3>2 DEF Marked, Sends, HasDraft, Owns
    <3>4. memo'.notified /\ NoFault({"readdressed"})' => letters'[memo'.to] = 1
      BY <1>h, <1>r, <2>3, <2>4, <3>1, <3>2
    <3> QED
      BY <1>h, <2>2, <2>4, <2>5, <3>1, <3>2, <3>3, <3>4
  <2> QED
    BY <2>7, <2>8
<1>5. CASE Delete
  <2>1. \A g \in Form : form[g].step # "posted"
    BY <1>5, DeleteAlone
  <2>2. form' = form /\ ~Exists' /\ letters' = letters
    BY <1>5 DEF Delete, Exists, Gone, Stage
  <2> QED
    BY <1>h, <2>1, <2>2 DEF LettersOfForms
<1>6. ASSUME NEW f \in Form, NEW o \in world.outcomes, Make(f, o)
      PROVE  Fine' /\ LettersOfForms'
  <2>1. /\ UNCHANGED <<memo, subs, told, letters, faults>>
        /\ form'[f].step = "making" /\ \A g \in Form \ {f} : form'[g] = form[g]
    BY <1>6 DEF Make, Set, TypeOK
  <2> QED
    BY <1>h, <2>1 DEF LettersOfForms, Exists, Marked, NoFault
<1>7. ASSUME NEW f \in Form, CommitMade(f)
      PROVE  Fine' /\ LettersOfForms'
  <2>0. form'[f] = Closed /\ \A g \in Form \ {f} : form'[g] = form[g]
    BY <1>7, CommitMadeStep
  <2>1. /\ \A g \in Form \ {f} : form[g].step # "posted" /\ form'[g] = form[g]
        /\ form'[f].step # "posted"
    BY <1>7, <2>0, CommitAlone DEF Closed
  <2>2. LettersOfForms'
    BY <2>1 DEF LettersOfForms
  <2>3. form[f].step = "making" /\ form[f].row = memo /\ Exists
    BY <1>7, <1>h DEF CommitMade, FormsAreCurrent
  <2>4. memo'.notified = memo.notified /\ memo'.draft = memo.draft /\ memo'.to = memo.to
    BY <1>7, <2>3, LinkedRow DEF CommitMade
  <2>5. UNCHANGED <<letters, subs, told>>
    BY <1>7 DEF CommitMade
  <2> QED
    BY <1>h, <1>r, <2>2, <2>3, <2>4, <2>5 DEF Marked
<1>8. ASSUME NEW o \in world.outcomes, DeleteMade(o)
      PROVE  Fine' /\ LettersOfForms'
  <2>1. UNCHANGED <<letters, subs, told, form>>
    BY <1>8 DEF DeleteMade
  <2>2. \A g \in Form : form[g].step # "posted"
    BY <1>8, DeleteAlone
  <2>3. o \in Outcome
    BY MemoAssumption DEF TypeOK
  <2>4. /\ Exists' = Exists
        /\ Exists => /\ memo'.notified = memo.notified /\ memo'.draft = memo.draft
                     /\ memo'.to = memo.to
    BY <1>8, <2>3, Unlinked
  <2> QED
    BY <1>h, <1>r, <2>1, <2>2, <2>4 DEF LettersOfForms, Marked
<1>9. ASSUME NEW f \in Form, Abandon(f)
      PROVE  Fine' /\ LettersOfForms'
  <2>1. /\ UNCHANGED <<memo, subs, told, letters, faults>>
        /\ form'[f].step = "none" /\ \A g \in Form \ {f} : form'[g] = form[g]
    BY <1>9 DEF Abandon, Set, TypeOK, Closed
  <2> QED
    BY <1>h, <2>1 DEF LettersOfForms, Exists, Marked, NoFault
<1>10. CASE UNCHANGED vars
  BY <1>10, <1>h DEF vars, LettersOfForms, Exists, Marked, NoFault
<1> QED
  BY <1>1, <1>2, <1>3, <1>4, <1>5, <1>6, <1>7, <1>8, <1>9, <1>10 DEF Next

LEMMA StepLinks ==
    ASSUME TypeOK, Untouched, TheReviewIsTold, Links, [Next]_vars,
           NoFault(LinkFault)'
    PROVE  Links'
<1> DEFINE Free == memo.task = None /\ memo.project = None
           LinkedAll == Exists => made \subseteq {memo.task, memo.project}
           Good(fm) == /\ fm.step = "posted" =>
                            /\ fm.row.task = memo.task /\ fm.row.project = memo.project
                            /\ fm.next # "save" => fm.row.stage # "reviewed"
                       /\ Maker(fm) /\ Exists =>
                            Free /\ (fm.step = "posted" \/ memo.stage # "reviewed")
<1>g. SUFFICES LinkedAll' /\ \A g \in Form : Good(form[g])'
  BY DEF Links
<1>h. LinkedAll /\ (\A g \in Form : Good(form[g])) /\ FormsAreCurrent
      /\ NoFault({"overlap"})'
  BY FaultsGrow DEF Links, TheReviewIsTold, NoFault, LinkFault
<1>1. ASSUME NEW draft \in world.drafts, NEW p \in world.persons,
             NEW S \in SUBSET world.subscribers, Write(draft, p, S)
      PROVE  LinkedAll' /\ \A g \in Form : Good(form[g])'
  <2>1. made' = {} /\ \A f \in Form : form'[f].step = "none"
    BY <1>1 DEF Write, Untouched, Closed
  <2> QED
    BY <2>1 DEF Maker
<1>2. ASSUME NEW f \in Form, NEW by \in world.roles, Open(f, by)
      PROVE  LinkedAll' /\ \A g \in Form : Good(form[g])'
  <2>1. /\ UNCHANGED <<memo, made>>
        /\ form'[f].step = "page" /\ \A g \in Form \ {f} : form'[g] = form[g]
    BY <1>2 DEF Open, Set, TypeOK
  <2> QED
    BY <1>h, <2>1 DEF Maker, Exists
<1>3. ASSUME NEW f \in Form, NEW post \in Typed(form[f]),
             NEW S \in SUBSET world.subscribers, NEW next \in Kind \cup {"save"},
             Post(f, post, S, next)
      PROVE  LinkedAll' /\ \A g \in Form : Good(form[g])'
  <2>1. UNCHANGED <<memo, made>>
    BY <1>3 DEF Post
  <2>2. LinkedAll'
    BY <1>h, <2>1 DEF Exists
  <2>3. /\ form'[f].step = "posted" /\ form'[f].next = next
        /\ form'[f].row.task = post.task /\ form'[f].row.project = post.project
        /\ <<post.task, post.project>> = <<form[f].row.task, form[f].row.project>>
        /\ Fields(form[f].by, form[f].row, form[f].subs) = Fields(form[f].by, memo, subs)
        /\ next # "save" => form'[f].row.stage # "reviewed" /\ Refers(form[f].row) = {}
    BY <1>3, PostedForm DEF NoFault, LinkFault
  <2>4. form[f].row.task = memo.task /\ form[f].row.project = memo.project
    BY <2>3 DEF Fields
  <2>5. Good(form[f])'
    BY <2>1, <2>3, <2>4 DEF Maker, Refers
  <2>6. ASSUME NEW g \in Form \ {f}
        PROVE  Good(form[g])'
    <3>1. form'[g] = form[g]
      BY <1>3, PostStep
    <3> QED
      BY <1>h, <2>1, <3>1 DEF Exists
  <2> QED
    BY <2>2, <2>5, <2>6
<1>4. ASSUME NEW f \in Form, Commit(f)
      PROVE  LinkedAll' /\ \A g \in Form : Good(form[g])'
  <2> DEFINE fm == form[f]
  <2>1. fm.step = "posted" /\ Exists /\ Good(fm) /\ made' = made
    BY <1>4, <1>h DEF Commit, FormsAreCurrent
  <2>2. /\ memo'.task = memo.task /\ memo'.project = memo.project
        /\ memo'.stage = fm.row.stage
    BY <1>4, <2>1, CommitLetters, CommitStep
  <2>3. Good(form[f])'
    <3>1. fm.next = "save" => form'[f].step = "none"
      BY <1>4 DEF Commit, Set, TypeOK, Closed
    <3>2. fm.next # "save" => form'[f].step = "new"
      BY <1>4 DEF Commit, Set, TypeOK
    <3> QED
      BY <2>1, <2>2, <3>1, <3>2 DEF Maker
  <2>4. ASSUME NEW g \in Form \ {f}
        PROVE  Good(form[g])'
    <3>1. form'[g] = form[g] /\ form[g].step \notin {"posted", "making"}
      BY <1>4, <1>h, CommitAlone, CommitStep
    <3>2. form[g].step = "new" => fm.row.stage # "reviewed"
      BY <1>4 DEF Commit, Answers, If, NoFault, LinkFault
    <3> QED
      BY <1>h, <2>1, <2>2, <3>1, <3>2 DEF Maker
  <2> QED
    BY <1>h, <2>1, <2>2, <2>3, <2>4
<1>5. CASE Delete
  <2>1. \A g \in Form : form[g].step # "posted"
    BY <1>5, <1>h, DeleteAlone
  <2>2. form' = form /\ ~Exists'
    BY <1>5 DEF Delete, Exists, Gone, Stage
  <2> QED
    BY <2>1, <2>2
<1>6. ASSUME NEW f \in Form, NEW o \in world.outcomes, Make(f, o)
      PROVE  LinkedAll' /\ \A g \in Form : Good(form[g])'
  <2>1. /\ UNCHANGED <<memo, made>> /\ Exists /\ form[f].step = "new"
        /\ form'[f].step = "making" /\ \A g \in Form \ {f} : form'[g] = form[g]
    BY <1>6 DEF Make, Set, TypeOK
  <2> QED
    BY <1>h, <2>1 DEF Maker, Exists
<1>7. ASSUME NEW f \in Form, CommitMade(f)
      PROVE  LinkedAll' /\ \A g \in Form : Good(form[g])'
  <2>1. form[f].step = "making" /\ form[f].row = memo /\ Exists
    BY <1>7, <1>h DEF CommitMade, FormsAreCurrent
  <2>2. Free /\ memo.stage # "reviewed"
    BY <1>h, <2>1 DEF Maker
  <2>3. made = {}
    BY <1>h, <2>1, <2>2, MemoAssumption DEF TypeOK
  <2>4. memo' = Linked(form[f]) /\ made' = {form[f].o}
    BY <1>7, <2>1, <2>2, <2>3 DEF CommitMade
  <2>5. form[f].o \in {memo'.task, memo'.project} /\ memo'.stage = "reviewed"
    BY <2>1, <2>4, LinkedRow
  <2>6. ASSUME NEW g \in Form \ {f}
        PROVE  Good(form[g])'
    <3>1. form'[g] = form[g] /\ form[g].step \notin {"posted", "making"}
      BY <1>7, <1>h, CommitAlone, CommitMadeStep
    <3>2. form[g].step # "new"
      BY <1>7, <2>5 DEF CommitMade, Answers, If, NoFault, LinkFault
    <3> QED
      BY <3>1, <3>2 DEF Maker
  <2>7. form'[f].step = "none"
    <3>1. form'[f] = Closed
      BY <1>7, CommitMadeStep
    <3> QED
      BY <3>1 DEF Closed
  <2> QED
    BY <2>4, <2>5, <2>6, <2>7 DEF Maker
<1>8. ASSUME NEW o \in world.outcomes, DeleteMade(o)
      PROVE  LinkedAll' /\ \A g \in Form : Good(form[g])'
  <2>1. \A g \in Form : form[g].step # "posted" /\ form'[g] = form[g]
    BY <1>8, <1>h, DeleteAlone DEF DeleteMade
  <2>2. made' = made \ {o} /\ o \in Outcome
    BY <1>8, MemoAssumption DEF DeleteMade, TypeOK
  <2>3. /\ Exists' = Exists
        /\ Exists => /\ memo'.stage = memo.stage
                     /\ memo'.task = IF memo.task = o THEN None ELSE memo.task
                     /\ memo'.project = IF memo.project = o THEN None ELSE memo.project
    BY <1>8, <2>2, Unlinked
  <2> QED
    BY <1>h, <2>1, <2>2, <2>3 DEF Maker
<1>9. ASSUME NEW f \in Form, Abandon(f)
      PROVE  LinkedAll' /\ \A g \in Form : Good(form[g])'
  <2>1. /\ UNCHANGED <<memo, made>>
        /\ form'[f].step = "none" /\ \A g \in Form \ {f} : form'[g] = form[g]
    BY <1>9 DEF Abandon, Set, TypeOK, Closed
  <2> QED
    BY <1>h, <2>1 DEF Maker, Exists
<1>10. CASE UNCHANGED vars
  BY <1>10, <1>h DEF vars, Maker, Exists
<1> QED
  BY <1>1, <1>2, <1>3, <1>4, <1>5, <1>6, <1>7, <1>8, <1>9, <1>10 DEF Next

LEMMA UntouchedBefore == Spec => []Untouched
<1>1. Init => Untouched
  BY DEF Init, Untouched
<1> QED
  BY <1>1, StepUntouched, TypeCorrect, PTL DEF Spec

\* Who a memo is for has been told of it exactly once, whoever saves the memo,
\* makes a task of it or deletes it, unless forms overlap.
THEOREM EveryoneIsToldOnce == Spec => []Told
<1>1. Init => ToldOnce
  BY DEF Init, ToldOnce, LettersOfForms, Exists, Unborn, Closed, Stage
<1>2. TypeOK /\ Untouched /\ TheReviewIsTold /\ ToldOnce /\ [Next]_vars => ToldOnce'
  <2>1. ~NoFault({"overlap"})' => ToldOnce'
    BY DEF ToldOnce
  <2> QED
    BY <2>1, StepToldOnce
<1>3. ToldOnce => Told
  BY DEF ToldOnce, Told, Marked
<1> QED
  BY <1>1, <1>2, <1>3, TypeCorrect, UntouchedBefore, ReviewIsTold, PTL DEF Spec

\* A task or project made of a memo is linked to it, also when the page that
\* asked for it set the memo to reviewed.
THEOREM MadeIsLinked == Spec => []OutcomeLinked
<1>1. Init => Links
  BY DEF Init, Links, Maker, Exists, Unborn, Closed, Stage
<1>2. TypeOK /\ Untouched /\ TheReviewIsTold /\ Links /\ [Next]_vars => Links'
  <2>1. ~NoFault(LinkFault)' => Links'
    BY DEF Links
  <2> QED
    BY <2>1, StepLinks
<1>3. Links => OutcomeLinked
  BY DEF Links, OutcomeLinked, LinkFault
<1> QED
  BY <1>1, <1>2, <1>3, TypeCorrect, UntouchedBefore, ReviewIsTold, PTL DEF Spec

-----------------------------------------------------------------------------
(***************************************************************************)
(* Main tasks: the column active follows the stage, a closed main task has *)
(* no active subtask, and the last subtask done closes it, but for the     *)
(* hazards each theorem names.                                             *)
(***************************************************************************)

LEMMA NoFormTyped == NoForm.kind = "none"
  BY DEF NoForm

LEMMA MainFormTyped ==
    ASSUME TaskTypeOK, NEW f \in TaskForm, open[f].kind = "main"
    PROVE  open[f] \in MainForm
  BY DEF TaskTypeOK, NoForm, SubForm

LEMMA SubFormTyped ==
    ASSUME TaskTypeOK, NEW f \in TaskForm, open[f].kind = "sub"
    PROVE  /\ open[f] \in SubForm
           /\ open[f].s \in Sub
           /\ open[f].row \in Subtask
           /\ open[f].row # NoRow
           /\ open[f].copy \in TaskStage
<1>1. open[f] \in SubForm
  BY DEF TaskTypeOK, NoForm, MainForm
<1>2. open[f].row \in Subtask
  BY <1>1 DEF SubForm
<1>3. open[f].row # NoRow
  BY <1>2 DEF Subtask, NoRow, TaskStage
<1> QED
  BY <1>1, <1>2, <1>3 DEF SubForm

LEMMA MainRowTyped ==
    ASSUME NEW stage \in TaskStage
    PROVE  /\ MainRow(stage) \in Main
           /\ MainRow(stage).stage = stage
           /\ MainRow(stage).active = IsActive(stage)
  BY DEF MainRow, Main, IsActive

\* The main task after a subtask's form: closed, taken up, or as it was read or
\* stands.
LEMMA MainAfterCases ==
    ASSUME main \in Main, NEW fm, fm.copy \in TaskStage, NEW S
    PROVE  /\ MainAfter(fm, S) \in Main
           /\ \/ MainAfter(fm, S) = MainRow("completed")
                 /\ AllDone(S)
              \/ MainAfter(fm, S).stage = "in_progress" /\ TakesUp(fm.copy, fm.row)
              \/ MainAfter(fm, S) = MainRow(fm.copy) /\ ~TakesUp(fm.copy, fm.row)
              \/ MainAfter(fm, S) = main /\ ~TakesUp(fm.copy, fm.row)
           /\ fm.closing /\ AllDone(S) /\ ~TakesUp(fm.copy, fm.row)
              /\ fm.copy \in {"pending", "in_progress"}
              => MainAfter(fm, S) = MainRow("completed")
<1> DEFINE up == TakesUp(fm.copy, fm.row)
           old == IF fm.step THEN MainRow(fm.copy) ELSE main
           stage == IF up THEN "in_progress" ELSE fm.copy
           close == /\ fm.closing
                    /\ stage \in {"pending", "in_progress"}
                    /\ AllDone(S)
<1>1. MainAfter(fm, S) = CASE close -> MainRow("completed")
                           [] up -> [old EXCEPT !.stage = "in_progress"]
                           [] OTHER -> old
  BY DEF MainAfter
<1>2. old \in Main /\ (old = MainRow(fm.copy) \/ old = main)
  BY MainRowTyped
<1>3. /\ [old EXCEPT !.stage = "in_progress"] \in Main
      /\ [old EXCEPT !.stage = "in_progress"].stage = "in_progress"
  BY <1>2 DEF Main, TaskStage
<1>4. MainRow("completed") \in Main
  BY MainRowTyped DEF TaskStage
<1> HIDE DEF up, old
<1>5. CASE close
  <2>1. up => close
    BY <1>5
  <2>2. MainAfter(fm, S) = MainRow("completed") \/ up
    BY <1>1, <1>5
  <2>3. CASE ~up
    BY <2>2, <2>3, <1>4, <1>5 DEF up
  <2>4. CASE up
    <3>1. \/ MainAfter(fm, S) = MainRow("completed")
          \/ MainAfter(fm, S) = [old EXCEPT !.stage = "in_progress"]
      BY <1>1, <1>5, <2>4
    <3> QED
      BY <3>1, <2>4, <1>3, <1>4, <1>5 DEF up
  <2> QED
    BY <2>3, <2>4
<1>6. CASE ~close /\ up
  <2>1. MainAfter(fm, S) = [old EXCEPT !.stage = "in_progress"]
    BY <1>1, <1>6
  <2> QED
    BY <2>1, <1>3, <1>6 DEF up
<1>7. CASE ~close /\ ~up
  <2>1. MainAfter(fm, S) = old
    BY <1>1, <1>7
  <2> QED
    BY <2>1, <1>2, <1>7 DEF up
<1> QED
  BY <1>5, <1>6, <1>7

LEMMA RowsTyped ==
    ASSUME NEW stage \in TaskStage, NEW p \in Colleague, NEW hide \in BOOLEAN
    PROVE  /\ SubRow(stage, p, hide) \in Subtask
           /\ SubRow(stage, p, hide).stage = stage
           /\ SubRow(stage, p, hide).who = p
           /\ SubRow(stage, p, hide).active = IsActive(stage)
  BY DEF SubRow, Subtask, IsActive

\* A form of a subtask holds the main task's stage and a row whose column
\* active follows its stage.
LEMMA OpenTyped ==
    ASSUME TaskTypeOK, NEW f \in TaskForm, NEW s \in Sub, NEW stage \in TaskStage,
           NEW p \in Colleague, NEW hide \in BOOLEAN, NEW closing \in BOOLEAN,
           NEW step \in BOOLEAN,
           ReadSub(f, s, SubRow(stage, p, hide), closing, step)
    PROVE  /\ open' \in [TaskForm -> {NoForm} \cup MainForm \cup SubForm]
           /\ open'[f].kind = "sub"
           /\ open'[f].s = s
           /\ open'[f].closing = closing
           /\ open'[f].copy = main.stage
           /\ open'[f].row = SubRow(stage, p, hide)
           /\ \A g \in TaskForm \ {f} : open'[g] = open[g]
<1>1. main.stage \in TaskStage
  BY DEF TaskTypeOK, Main
<1>2. SubRow(stage, p, hide) \in Subtask
  BY RowsTyped
<1> QED
  BY <1>1, <1>2 DEF ReadSub, TaskTypeOK, SubForm

LEMMA CloseTyped ==
    ASSUME TaskTypeOK, NEW f \in TaskForm, open' = [open EXCEPT ![f] = NoForm]
    PROVE  /\ open' \in [TaskForm -> {NoForm} \cup MainForm \cup SubForm]
           /\ open'[f] = NoForm
           /\ \A g \in TaskForm \ {f} : open'[g] = open[g]
  BY DEF TaskTypeOK

\* The three ways to open the form of a subtask, and what they have in common.
OpensSub(f, s, p) ==
    \/ \E self, step \in BOOLEAN, stage \in TaskStage :
          AddSub(f, s, p, self, stage, step)
    \/ \E button, step \in BOOLEAN, stage \in TaskStage :
          ChangeSub(f, s, p, button, stage, step)
    \/ \E link \in BOOLEAN : CompletePart(f, s, p, link)

LEMMA SubFormOpened ==
    ASSUME TaskTypeOK, NEW f \in TaskForm, NEW s \in Sub, NEW p \in Colleague,
           OpensSub(f, s, p)
    PROVE  /\ \E stage \in TaskStage, hide, closing, step \in BOOLEAN :
              /\ ReadSub(f, s, SubRow(stage, p, hide), closing, step)
              /\ \/ closing
                 \/ IsActive(stage)
                 \/ /\ SubExists(s) /\ stage = sub[s].stage
                    /\ p # sub[s].who => "reassigned" \in taskFaults'
           /\ p \in resp \/ "outsider" \in taskFaults'
           /\ open[f] = NoForm
           /\ UNCHANGED <<main, resp, sub>>
           /\ taskFaults \subseteq taskFaults'
           /\ TaskTypeOK => taskFaults' \subseteq TaskFault
<1> DEFINE
      Opened == \E stage \in TaskStage, hide, closing, step \in BOOLEAN :
                   /\ ReadSub(f, s, SubRow(stage, p, hide), closing, step)
                   /\ \/ closing
                      \/ IsActive(stage)
                      \/ /\ SubExists(s) /\ stage = sub[s].stage
                         /\ p # sub[s].who => "reassigned" \in taskFaults'
<1>1. ASSUME NEW self \in BOOLEAN, NEW step \in BOOLEAN, NEW stage \in TaskStage,
             AddSub(f, s, p, self, stage, step)
      PROVE  Opened
  <2> DEFINE st == IF self /\ IsActive(stage) THEN "in_progress" ELSE stage
  <2>1. st \in TaskStage
    BY DEF TaskStage
  <2>2. ReadSub(f, s, SubRow(st, p, FALSE), ~IsActive(st), step)
    BY <1>1 DEF AddSub
  <2> HIDE DEF st
  <2>3. (~IsActive(st)) \in BOOLEAN
    BY DEF IsActive
  <2> QED
    BY <2>1, <2>2, <2>3
<1>2. ASSUME NEW button \in BOOLEAN, NEW step \in BOOLEAN, NEW stage \in TaskStage,
             ChangeSub(f, s, p, button, stage, step)
      PROVE  Opened
  <2> DEFINE closing == button \/ (stage # sub[s].stage /\ ~IsActive(stage))
  <2>1. ReadSub(f, s, SubRow(stage, p, sub[s].hide), closing, step)
    BY <1>2 DEF ChangeSub
  <2>2. sub[s].hide \in BOOLEAN
    BY <1>2 DEF ChangeSub, SubExists, TaskTypeOK, Subtask
  <2>3. closing \/ IsActive(stage) \/ (SubExists(s) /\ stage = sub[s].stage)
    BY <1>2 DEF ChangeSub
  <2>4. p # sub[s].who => "reassigned" \in taskFaults'
    BY <1>2 DEF ChangeSub
  <2>5. closing \in BOOLEAN
    BY DEF IsActive
  <2> HIDE DEF closing
  <2> QED
    BY <2>1, <2>2, <2>3, <2>4, <2>5
<1>3. ASSUME NEW link \in BOOLEAN, CompletePart(f, s, p, link)
      PROVE  Opened
  <2>1. ReadSub(f, s, SubRow("completed", p, TRUE), TRUE, FALSE)
    BY <1>3 DEF CompletePart
  <2>2. "completed" \in TaskStage
    BY DEF TaskStage
  <2> QED
    BY <2>1, <2>2
<1> HIDE DEF Opened
<1>4. Opened
  BY <1>1, <1>2, <1>3 DEF OpensSub
<1>5. /\ p \in resp \/ "outsider" \in taskFaults'
      /\ open[f] = NoForm
      /\ UNCHANGED <<main, resp, sub>>
      /\ taskFaults \subseteq taskFaults'
      /\ taskFaults \subseteq TaskFault => taskFaults' \subseteq TaskFault
  BY DEF OpensSub, AddSub, ChangeSub, CompletePart, Outsider, TaskFault
<1> QED
  BY <1>4, <1>5 DEF TaskTypeOK, Opened

\* A step is one of these.
LEMMA Steps ==
    ASSUME TaskNext
    PROVE  \/ \E f \in TaskForm, stage \in TaskStage, R \in SUBSET Colleague :
                 OpenMain(f, stage, R)
           \/ \E f \in TaskForm : CompleteMain(f) \/ SaveMain(f) \/ SaveSub(f)
                             \/ AbandonTask(f)
           \/ \E f \in TaskForm, s \in Sub, p \in Colleague : OpensSub(f, s, p)
           \/ \E s \in Sub : DeleteSub(s)
<1>1. ASSUME NEW f \in TaskForm, NEW s \in Sub, NEW p \in Colleague
      PROVE  /\ \A self, step \in BOOLEAN, stage \in TaskStage :
                   AddSub(f, s, p, self, stage, step) => OpensSub(f, s, p)
             /\ \A button, step \in BOOLEAN, stage \in TaskStage :
                   ChangeSub(f, s, p, button, stage, step) => OpensSub(f, s, p)
             /\ \A link \in BOOLEAN :
                   CompletePart(f, s, p, link) => OpensSub(f, s, p)
  BY DEF OpensSub
<1>2. CASE \E f \in TaskForm, s \in Sub, p \in Colleague, self, step \in BOOLEAN,
              stage \in TaskStage : AddSub(f, s, p, self, stage, step)
  BY <1>1, <1>2
<1>3. CASE \E f \in TaskForm, s \in Sub, p \in Colleague, button, step \in BOOLEAN,
              stage \in TaskStage : ChangeSub(f, s, p, button, stage, step)
  BY <1>1, <1>3
<1>4. CASE \E f \in TaskForm, s \in Sub, p \in Colleague, link \in BOOLEAN :
              CompletePart(f, s, p, link)
  BY <1>1, <1>4
<1> QED
  BY <1>2, <1>3, <1>4 DEF TaskNext

-----------------------------------------------------------------------------
\* Every variable keeps its type: somebody is always responsible, and a form
\* holds what it is going to save.
THEOREM TaskTypeCorrect == TaskSpec => []TaskTypeOK
<1>1. TaskInit => TaskTypeOK
  BY DEF TaskInit, TaskTypeOK, Main, TaskStage
<1>2. TaskTypeOK /\ [TaskNext]_taskVars => TaskTypeOK'
  <2> SUFFICES ASSUME TaskTypeOK, [TaskNext]_taskVars
               PROVE  TaskTypeOK'
    OBVIOUS
  <2> USE DEF TaskTypeOK
  <2>1. ASSUME NEW f \in TaskForm, NEW stage \in TaskStage, NEW R \in SUBSET Colleague,
               OpenMain(f, stage, R)
        PROVE  TaskTypeOK'
    <3>1. [kind |-> "main", stage |-> stage, resp |-> R] \in MainForm
      BY <2>1 DEF OpenMain, MainForm
    <3> QED
      BY <2>1, <3>1 DEF OpenMain
  <2>2. ASSUME NEW f \in TaskForm, CompleteMain(f)
        PROVE  TaskTypeOK'
    <3>1. [kind |-> "main", stage |-> "completed", resp |-> resp] \in MainForm
      BY DEF MainForm, TaskStage
    <3> QED
      BY <2>2, <3>1 DEF CompleteMain, TaskFault
  <2>3. ASSUME NEW f \in TaskForm, SaveMain(f)
        PROVE  TaskTypeOK'
    <3>1. open[f] \in MainForm
      BY <2>3, MainFormTyped DEF SaveMain
    <3>2. main' \in Main /\ resp' \in (SUBSET Colleague) \ {{}}
      BY <2>3, <3>1, MainRowTyped DEF SaveMain, MainForm
    <3>3. open' \in [TaskForm -> {NoForm} \cup MainForm \cup SubForm]
      BY <2>3, CloseTyped DEF SaveMain
    <3> QED
      BY <2>3, <3>2, <3>3 DEF SaveMain, TaskOverlap, TaskFault
  <2>4. ASSUME NEW f \in TaskForm, NEW s \in Sub, NEW p \in Colleague,
               OpensSub(f, s, p)
        PROVE  TaskTypeOK'
    <3>1. PICK stage \in TaskStage, hide \in BOOLEAN, closing \in BOOLEAN,
               step \in BOOLEAN :
             ReadSub(f, s, SubRow(stage, p, hide), closing, step)
      BY <2>4, SubFormOpened
    <3>2. open' \in [TaskForm -> {NoForm} \cup MainForm \cup SubForm]
      BY <3>1, OpenTyped
    <3>3. taskFaults' \subseteq TaskFault /\ UNCHANGED <<main, resp, sub>>
      BY <2>4, SubFormOpened
    <3> QED
      BY <3>2, <3>3
  <2>5. ASSUME NEW f \in TaskForm, SaveSub(f)
        PROVE  TaskTypeOK'
    <3>1. open[f].s \in Sub /\ open[f].row \in Subtask /\ open[f].copy \in TaskStage
      BY <2>5, SubFormTyped DEF SaveSub
    <3>2. sub' \in [Sub -> Subtask \cup {NoRow}]
      BY <2>5, <3>1 DEF SaveSub
    <3>3. main' \in Main
      BY <2>5, <3>1, MainAfterCases DEF SaveSub
    <3>4. open' \in [TaskForm -> {NoForm} \cup MainForm \cup SubForm]
      BY <2>5, CloseTyped DEF SaveSub
    <3> QED
      BY <2>5, <3>2, <3>3, <3>4 DEF SaveSub, TaskOverlap, TaskFault
  <2>6. ASSUME NEW s \in Sub, DeleteSub(s)
        PROVE  TaskTypeOK'
    BY <2>6 DEF DeleteSub, TaskFault
  <2>7. ASSUME NEW f \in TaskForm, AbandonTask(f)
        PROVE  TaskTypeOK'
    BY <2>7, CloseTyped DEF AbandonTask
  <2>8. CASE UNCHANGED taskVars
    BY <2>8 DEF taskVars
  <2> QED
    BY <2>1, <2>2, <2>3, <2>4, <2>5, <2>6, <2>7, <2>8, Steps
<1> QED
  BY <1>1, <1>2, PTL DEF TaskSpec

-----------------------------------------------------------------------------
\* What keeps ActiveColumn: the row a form of a subtask is going to save is
\* right too.
RowsAreRight ==
    \A f \in TaskForm : open[f].kind = "sub" =>
        open[f].row.active = IsActive(open[f].row.stage)

LEMMA ColumnsAreRight == TaskSpec => [](ActiveColumn /\ RowsAreRight)
<1> DEFINE Inv == ActiveColumn /\ RowsAreRight
<1>1. TaskInit => Inv
  BY DEF TaskInit, ActiveColumn, RowsAreRight, NoForm, SubExists, NoRow,
         IsActive
<1>2. TaskTypeOK /\ Inv /\ [TaskNext]_taskVars => Inv'
  <2> SUFFICES ASSUME TaskTypeOK, ActiveColumn, RowsAreRight, [TaskNext]_taskVars
               PROVE  ActiveColumn' /\ RowsAreRight'
    OBVIOUS
  <2>1. ASSUME NEW f \in TaskForm,
               \/ \E stage \in TaskStage, R \in SUBSET Colleague : OpenMain(f, stage, R)
               \/ CompleteMain(f)
        PROVE  ActiveColumn' /\ RowsAreRight'
    <3>1. open'[f].kind = "main" /\ \A g \in TaskForm \ {f} : open'[g] = open[g]
      BY <2>1 DEF OpenMain, CompleteMain, TaskTypeOK
    <3>2. UNCHANGED <<main, sub>>
      BY <2>1 DEF OpenMain, CompleteMain
    <3> QED
      BY <3>1, <3>2 DEF ActiveColumn, RowsAreRight, SubExists
  <2>2. ASSUME NEW f \in TaskForm, SaveMain(f)
        PROVE  ActiveColumn' /\ RowsAreRight'
    <3>1. main' = MainRow(open[f].stage) /\ UNCHANGED sub
      BY <2>2 DEF SaveMain
    <3>2. open'[f] = NoForm /\ \A g \in TaskForm \ {f} : open'[g] = open[g]
      BY <2>2, CloseTyped DEF SaveMain
    <3> QED
      BY <3>1, <3>2, NoFormTyped DEF ActiveColumn, RowsAreRight, MainRow,
             SubExists
  <2>3. ASSUME NEW f \in TaskForm, NEW s \in Sub, NEW p \in Colleague,
               OpensSub(f, s, p)
        PROVE  ActiveColumn' /\ RowsAreRight'
    <3>1. PICK stage \in TaskStage, hide \in BOOLEAN, closing \in BOOLEAN,
               step \in BOOLEAN :
             ReadSub(f, s, SubRow(stage, p, hide), closing, step)
      BY <2>3, SubFormOpened
    <3>2. /\ open'[f].row = SubRow(stage, p, hide)
          /\ \A g \in TaskForm \ {f} : open'[g] = open[g]
      BY <3>1, OpenTyped
    <3>3. UNCHANGED <<main, sub>>
      BY <2>3, SubFormOpened
    <3>4. SubRow(stage, p, hide).active = IsActive(SubRow(stage, p, hide).stage)
      BY RowsTyped
    <3> QED
      BY <3>2, <3>3, <3>4 DEF ActiveColumn, RowsAreRight, SubExists
  <2>4. ASSUME NEW f \in TaskForm, SaveSub(f)
        PROVE  ActiveColumn' /\ RowsAreRight'
    <3>1. /\ open[f].kind = "sub"
          /\ sub' = [sub EXCEPT ![open[f].s] = open[f].row]
          /\ main' = MainAfter(open[f], sub')
      BY <2>4 DEF SaveSub
    <3>2. open[f].s \in Sub /\ open[f].copy \in TaskStage
      BY <3>1, SubFormTyped
    <3>3. main'.active => IsActive(main'.stage)
      <4>1. main \in Main
        BY DEF TaskTypeOK
      <4>2. \/ main'.stage = "in_progress"
            \/ main' = MainRow("completed") \/ main' = MainRow(open[f].copy)
            \/ main' = main
        BY <3>1, <3>2, <4>1, MainAfterCases
      <4>3. CASE main'.stage = "in_progress"
        BY <4>3 DEF IsActive
      <4>4. CASE main' = MainRow("completed") \/ main' = MainRow(open[f].copy)
        BY <4>4 DEF MainRow
      <4>5. CASE main' = main
        BY <4>5 DEF ActiveColumn
      <4> QED
        BY <4>2, <4>3, <4>4, <4>5
    <3>4. \A t \in Sub : SubExists(t)' => sub'[t].active = IsActive(sub'[t].stage)
      BY <3>1, <3>2 DEF ActiveColumn, RowsAreRight, SubExists, TaskTypeOK
    <3>5. open'[f] = NoForm /\ \A g \in TaskForm \ {f} : open'[g] = open[g]
      BY <2>4, CloseTyped DEF SaveSub
    <3>6. ActiveColumn'
      BY <3>3, <3>4 DEF ActiveColumn
    <3>7. RowsAreRight'
      BY <3>5, NoFormTyped DEF RowsAreRight
    <3> QED
      BY <3>6, <3>7
  <2>5. ASSUME NEW s \in Sub, DeleteSub(s)
        PROVE  ActiveColumn' /\ RowsAreRight'
    BY <2>5 DEF DeleteSub, ActiveColumn, RowsAreRight, SubExists, TaskTypeOK
  <2>6. ASSUME NEW f \in TaskForm, AbandonTask(f)
        PROVE  ActiveColumn' /\ RowsAreRight'
    <3>1. open'[f] = NoForm /\ \A g \in TaskForm \ {f} : open'[g] = open[g]
      BY <2>6, CloseTyped DEF AbandonTask
    <3>2. UNCHANGED <<main, sub>>
      BY <2>6 DEF AbandonTask
    <3> QED
      BY <3>1, <3>2, NoFormTyped DEF ActiveColumn, RowsAreRight, SubExists
  <2>7. CASE UNCHANGED taskVars
    BY <2>7 DEF taskVars, ActiveColumn, RowsAreRight, SubExists
  <2> QED
    BY <2>1, <2>2, <2>3, <2>4, <2>5, <2>6, <2>7, Steps
<1> QED
  BY <1>1, <1>2, TaskTypeCorrect, PTL DEF TaskSpec

\* The column active follows the stage, whichever copy of the main task was
\* written, and never says that a closed main task is active.
THEOREM ColumnIsRight == TaskSpec => []ActiveColumn
  BY ColumnsAreRight, PTL

-----------------------------------------------------------------------------
\* Without overlap the form that saves is the only one open.
LEMMA OnlyForm ==
    ASSUME NEW f \in TaskForm, TaskOverlap(f) \subseteq taskFaults', "overlap" \notin taskFaults'
    PROVE  \A g \in TaskForm \ {f} : open[g] = NoForm
  BY DEF TaskOverlap

\* Faults are never forgotten.
LEMMA TaskFaultsGrow ==
    ASSUME TaskNext
    PROVE  taskFaults \subseteq taskFaults'
<1>1. ASSUME NEW f \in TaskForm, NEW s \in Sub, NEW p \in Colleague, OpensSub(f, s, p)
      PROVE  taskFaults \subseteq taskFaults'
  BY <1>1 DEF OpensSub, AddSub, ChangeSub, CompletePart
<1>2. ASSUME NEW f \in TaskForm, NEW stage \in TaskStage, NEW R \in SUBSET Colleague,
             OpenMain(f, stage, R)
      PROVE  taskFaults \subseteq taskFaults'
  BY <1>2 DEF OpenMain
<1>3. ASSUME NEW f \in TaskForm,
             CompleteMain(f) \/ SaveMain(f) \/ SaveSub(f) \/ AbandonTask(f)
      PROVE  taskFaults \subseteq taskFaults'
  BY <1>3 DEF CompleteMain, SaveMain, SaveSub, AbandonTask
<1>4. ASSUME NEW s \in Sub, DeleteSub(s)
      PROVE  taskFaults \subseteq taskFaults'
  BY <1>4 DEF DeleteSub
<1> QED
  BY <1>1, <1>2, <1>3, <1>4, Steps

\* What keeps ClosedMeansDone: no form is about to close the main task while a
\* subtask is active, and no form of a subtask holds an old stage of it.
CloseIsSafe ==
    NoTaskFault({"overlap", "stale_page"}) =>
        /\ ~IsActive(main.stage) => ActiveSub = {}
        /\ \A f \in TaskForm : open[f].kind = "main" /\ ~IsActive(open[f].stage)
                          => ActiveSub = {}
        /\ \A f \in TaskForm : open[f].kind = "sub" => open[f].copy = main.stage

\* A closed main task has no active subtask, unless forms overlapped or it was
\* completed from a page rendered too early.
THEOREM ClosedIsDone == TaskSpec => []ClosedMeansDone
<1>1. TaskInit => CloseIsSafe
  BY DEF TaskInit, CloseIsSafe, ActiveSub, SubExists, NoForm
<1>2. TaskTypeOK /\ ActiveColumn /\ RowsAreRight /\ CloseIsSafe /\ [TaskNext]_taskVars
        => CloseIsSafe'
  <2> DEFINE
        Goal == /\ ~IsActive(main'.stage) => ActiveSub' = {}
                /\ \A f \in TaskForm : open'[f].kind = "main"
                                    /\ ~IsActive(open'[f].stage)
                                  => ActiveSub' = {}
                /\ \A f \in TaskForm : open'[f].kind = "sub"
                                  => open'[f].copy = main'.stage
  <2>s. SUFFICES ASSUME TaskTypeOK, ActiveColumn, RowsAreRight, CloseIsSafe,
                        [TaskNext]_taskVars, NoTaskFault({"overlap", "stale_page"})'
                 PROVE  Goal
    BY DEF CloseIsSafe
  <2>n. "overlap" \notin taskFaults' /\ "stale_page" \notin taskFaults'
    BY <2>s DEF NoTaskFault
  <2>h. /\ ~IsActive(main.stage) => ActiveSub = {}
        /\ \A f \in TaskForm : open[f].kind = "main" /\ ~IsActive(open[f].stage)
                          => ActiveSub = {}
        /\ \A f \in TaskForm : open[f].kind = "sub" => open[f].copy = main.stage
    <3>1. taskFaults \subseteq taskFaults'
      BY <2>s, TaskFaultsGrow DEF taskVars
    <3> QED
      BY <2>n, <3>1, <2>s DEF CloseIsSafe, NoTaskFault
  <2>1. ASSUME NEW f \in TaskForm, NEW stage \in TaskStage, NEW R \in SUBSET Colleague,
               OpenMain(f, stage, R)
        PROVE  Goal
    <3>1. /\ open'[f] = [kind |-> "main", stage |-> stage, resp |-> R]
          /\ \A g \in TaskForm \ {f} : open'[g] = open[g]
          /\ IsActive(stage) \/ ActiveSub = {}
          /\ UNCHANGED <<main, sub>>
      BY <2>s, <2>1 DEF OpenMain, TaskTypeOK
    <3>2. ActiveSub' = ActiveSub
      BY <3>1 DEF ActiveSub, SubExists
    <3> QED
      BY <2>h, <3>1, <3>2
  <2>2. ASSUME NEW f \in TaskForm, CompleteMain(f)
        PROVE  Goal
    <3>1. /\ open'[f] = [kind |-> "main", stage |-> "completed", resp |-> resp]
          /\ \A g \in TaskForm \ {f} : open'[g] = open[g]
          /\ UNCHANGED <<main, sub>>
      BY <2>s, <2>2 DEF CompleteMain, TaskTypeOK
    <3>2. ActiveSub = {} /\ ActiveSub' = {}
      BY <2>2, <2>n, <3>1 DEF CompleteMain, ActiveSub, SubExists
    <3> QED
      BY <2>h, <3>1, <3>2
  <2>3. ASSUME NEW f \in TaskForm, SaveMain(f)
        PROVE  Goal
    <3>1. \A g \in TaskForm : open'[g] = NoForm
      BY <2>s, <2>3, <2>n, OnlyForm, CloseTyped DEF SaveMain
    <3>2. main'.stage = open[f].stage /\ UNCHANGED sub
      BY <2>3 DEF SaveMain, MainRow
    <3>3. ActiveSub' = ActiveSub
      BY <3>2 DEF ActiveSub, SubExists
    <3>4. open[f].kind = "main"
      BY <2>3 DEF SaveMain
    <3> QED
      BY <2>h, <3>1, <3>2, <3>3, <3>4, NoFormTyped
  <2>4. ASSUME NEW f \in TaskForm, NEW s \in Sub, NEW p \in Colleague,
               OpensSub(f, s, p)
        PROVE  Goal
    <3>1. PICK stage \in TaskStage, hide \in BOOLEAN, closing \in BOOLEAN,
               step \in BOOLEAN :
             ReadSub(f, s, SubRow(stage, p, hide), closing, step)
      BY <2>s, <2>4, SubFormOpened
    <3>2. /\ open'[f].kind = "sub"
          /\ open'[f].copy = main.stage
          /\ \A g \in TaskForm \ {f} : open'[g] = open[g]
      BY <2>s, <3>1, OpenTyped
    <3>3. UNCHANGED <<main, sub>>
      BY <2>s, <2>4, SubFormOpened
    <3>4. ActiveSub' = ActiveSub
      BY <3>3 DEF ActiveSub, SubExists
    <3> QED
      BY <2>h, <3>2, <3>3, <3>4
  <2>5. ASSUME NEW f \in TaskForm, SaveSub(f)
        PROVE  Goal
    <3>1. /\ open[f].kind = "sub"
          /\ sub' = [sub EXCEPT ![open[f].s] = open[f].row]
          /\ main' = MainAfter(open[f], sub')
          /\ open[f].s \in Sub
          /\ open[f].row # NoRow
          /\ open[f].copy \in TaskStage
          /\ open[f].copy = main.stage
      BY <2>s, <2>5, <2>h, SubFormTyped DEF SaveSub
    <3>2. \A g \in TaskForm : open'[g] = NoForm
      BY <2>s, <2>5, <2>n, OnlyForm, CloseTyped DEF SaveSub
    <3>3. sub'[open[f].s] = open[f].row
          /\ \A t \in Sub \ {open[f].s} : sub'[t] = sub[t]
      BY <2>s, <3>1 DEF TaskTypeOK
    <3>4. ASSUME AllDone(sub')
          PROVE  ActiveSub' = {}
      <4>1. \A t \in Sub : sub'[t] # NoRow
                            => sub'[t].active = IsActive(sub'[t].stage)
        BY <2>s, <3>1, <3>3 DEF ActiveColumn, RowsAreRight, SubExists
      <4> QED
        BY <3>4, <4>1 DEF AllDone, ActiveSub, SubExists
    <3>5. ASSUME ~TakesUp(open[f].copy, open[f].row), ~IsActive(main.stage)
          PROVE  ActiveSub' = {}
      <4>1. ~IsActive(open[f].row.stage) /\ ActiveSub = {}
        BY <3>1, <3>5, <2>h DEF TakesUp
      <4> QED
        BY <3>3, <4>1 DEF ActiveSub, SubExists
    <3>6. ~IsActive(main'.stage) => ActiveSub' = {}
      <4>1. main \in Main
        BY <2>s DEF TaskTypeOK
      <4>2. \/ AllDone(sub')
            \/ main'.stage = "in_progress"
            \/ /\ ~TakesUp(open[f].copy, open[f].row)
               /\ main' = MainRow(open[f].copy) \/ main' = main
        BY <3>1, <4>1, MainAfterCases
      <4>3. CASE AllDone(sub')
        BY <4>3, <3>4
      <4>4. CASE main'.stage = "in_progress"
        BY <4>4 DEF IsActive
      <4>5. CASE /\ ~TakesUp(open[f].copy, open[f].row)
                 /\ main' = MainRow(open[f].copy) \/ main' = main
        <5>1. main'.stage = main.stage
          BY <4>5, <3>1, MainRowTyped
        <5> QED
          BY <5>1, <4>5, <3>5
      <4> QED
        BY <4>2, <4>3, <4>4, <4>5
    <3> QED
      BY <3>2, <3>6, NoFormTyped
  <2>6. ASSUME NEW s \in Sub, DeleteSub(s)
        PROVE  Goal
    <3>1. UNCHANGED <<main, open>> /\ \A g \in TaskForm : open[g] = NoForm
      BY <2>6, <2>n DEF DeleteSub
    <3>2. ActiveSub' \subseteq ActiveSub
      BY <2>s, <2>6 DEF DeleteSub, ActiveSub, SubExists, TaskTypeOK
    <3> QED
      BY <2>h, <3>1, <3>2, NoFormTyped
  <2>7. ASSUME NEW f \in TaskForm, AbandonTask(f)
        PROVE  Goal
    <3>1. open'[f] = NoForm /\ \A g \in TaskForm \ {f} : open'[g] = open[g]
      BY <2>s, <2>7, CloseTyped DEF AbandonTask
    <3>2. UNCHANGED <<main, sub>>
      BY <2>7 DEF AbandonTask
    <3>3. ActiveSub' = ActiveSub
      BY <3>2 DEF ActiveSub, SubExists
    <3> QED
      BY <2>h, <3>1, <3>2, <3>3, NoFormTyped
  <2>8. CASE UNCHANGED taskVars
    <3>1. ActiveSub' = ActiveSub
      BY <2>8 DEF taskVars, ActiveSub, SubExists
    <3> QED
      BY <2>8, <2>h, <3>1 DEF taskVars
  <2> QED
    BY <2>s, <2>1, <2>2, <2>3, <2>4, <2>5, <2>6, <2>7, <2>8, Steps
<1>3. CloseIsSafe => ClosedMeansDone
  BY DEF CloseIsSafe, ClosedMeansDone
<1> QED
  BY <1>1, <1>2, <1>3, TaskTypeCorrect, ColumnsAreRight, PTL DEF TaskSpec

-----------------------------------------------------------------------------
Whims == {"overlap", "owner", "reassigned", "deleted", "outsider"}

\* The subtasks of S are all closed, and everybody responsible has one.
Finished(S) ==
    /\ \E s \in Sub : S[s] # NoRow
    /\ \A s \in Sub : S[s] # NoRow => ~IsActive(S[s].stage)
    /\ \A p \in resp : \E s \in Sub : S[s] # NoRow /\ S[s].who = p

\* What keeps DoneMeansClosed: nobody but those responsible has a subtask, the
\* forms of subtasks know the main task as it is, and one that is not going to
\* look at the main task leaves its closed subtask to whom it belongs.
LastIsSeen ==
    NoTaskFault(Whims) =>
        /\ Finished(sub) => ~IsActive(main.stage)
        /\ main.stage # "postponed"
        /\ \A s \in Sub : SubExists(s) => sub[s].who \in resp
        /\ \A f \in TaskForm : open[f].kind = "sub" =>
              /\ open[f].copy = main.stage
              /\ open[f].row.who \in resp
              /\ \/ open[f].closing
                 \/ IsActive(open[f].row.stage)
                 \/ /\ SubExists(open[f].s)
                    /\ sub[open[f].s].stage = open[f].row.stage
                    /\ sub[open[f].s].who = open[f].row.who

\* A set of people is known by who has a subtask.
LEMMA FinishedIsAntecedent ==
    ASSUME \E s \in Sub : SubExists(s), ActiveSub = {},
           resp \subseteq {sub[s].who : s \in {t \in Sub : SubExists(t)}}
    PROVE  Finished(sub)
  BY DEF Finished, ActiveSub, SubExists

\* Those who have finished are those responsible: what the form of the last
\* subtask looks for.
LEMMA FinishedIsDone ==
    ASSUME NEW S \in [Sub -> Subtask \cup {NoRow}], Finished(S),
           \A s \in Sub : S[s] # NoRow => S[s].active = IsActive(S[s].stage),
           \A s \in Sub : S[s] # NoRow => S[s].who \in resp
    PROVE  AllDone(S)
<1> DEFINE parts == {s \in Sub : S[s] # NoRow}
           done == {s \in parts : S[s].stage = "completed" /\ ~S[s].active}
<1>1. done = parts
  BY DEF Finished, IsActive
<1>2. \A s \in parts : ~S[s].active
  BY DEF Finished
<1>3. resp = {S[s].who : s \in parts}
  <2>1. resp \subseteq {S[s].who : s \in parts}
    BY DEF Finished
  <2>2. {S[s].who : s \in parts} \subseteq resp
    OBVIOUS
  <2> QED
    BY <2>1, <2>2
<1> HIDE DEF parts
<1>4. resp = {S[s].who : s \in done}
  BY <1>1, <1>3
<1> QED
  BY <1>2, <1>4 DEF AllDone, parts

\* When each of those responsible has done a subtask the main task is closed,
\* but for the events DoneMeansClosed names.
THEOREM LastOneCloses == TaskSpec => []DoneMeansClosed
<1>1. TaskInit => LastIsSeen
  BY DEF TaskInit, LastIsSeen, Finished, SubExists, NoForm
<1>2. TaskTypeOK /\ ActiveColumn /\ RowsAreRight /\ LastIsSeen /\ [TaskNext]_taskVars
        => LastIsSeen'
  <2> DEFINE
        Seen(fm, S, m) ==
            /\ fm.copy = m.stage
            /\ fm.row.who \in resp
            /\ \/ fm.closing
               \/ IsActive(fm.row.stage)
               \/ /\ S[fm.s] # NoRow
                  /\ S[fm.s].stage = fm.row.stage
                  /\ S[fm.s].who = fm.row.who
        Goal == /\ Finished(sub') => ~IsActive(main'.stage)
                /\ main'.stage # "postponed"
                /\ \A s \in Sub : sub'[s] # NoRow => sub'[s].who \in resp
                /\ \A f \in TaskForm : open'[f].kind = "sub"
                                  => Seen(open'[f], sub', main')
  <2>a. (/\ NoTaskFault(Whims)' => Goal
         /\ NoTaskFault(Whims)' => resp' = resp) => LastIsSeen'
    BY DEF LastIsSeen, Finished, SubExists
  <2>s. SUFFICES ASSUME TaskTypeOK, ActiveColumn, RowsAreRight, LastIsSeen,
                        [TaskNext]_taskVars, NoTaskFault(Whims)'
                 PROVE  Goal /\ resp' = resp
    BY <2>a
  <2>n. taskFaults' \cap Whims = {}
    BY <2>s DEF NoTaskFault
  <2>h. /\ Finished(sub) => ~IsActive(main.stage)
        /\ main.stage # "postponed"
        /\ \A s \in Sub : sub[s] # NoRow => sub[s].who \in resp
        /\ \A f \in TaskForm : open[f].kind = "sub" => Seen(open[f], sub, main)
    <3>1. taskFaults \subseteq taskFaults'
      BY <2>s, TaskFaultsGrow DEF taskVars
    <3> QED
      BY <2>n, <3>1, <2>s DEF LastIsSeen, NoTaskFault, SubExists
  <2>1. ASSUME NEW f \in TaskForm,
               \/ \E stage \in TaskStage, R \in SUBSET Colleague : OpenMain(f, stage, R)
               \/ CompleteMain(f)
        PROVE  Goal /\ resp' = resp
    <3>1. open'[f].kind = "main" /\ \A g \in TaskForm \ {f} : open'[g] = open[g]
      BY <2>s, <2>1 DEF OpenMain, CompleteMain, TaskTypeOK
    <3>2. UNCHANGED <<main, sub, resp>>
      BY <2>1 DEF OpenMain, CompleteMain
    <3> QED
      BY <2>h, <3>1, <3>2
  <2>2. ASSUME NEW f \in TaskForm, SaveMain(f)
        PROVE  Goal /\ resp' = resp
    <3>1. \A g \in TaskForm : open'[g] = NoForm
      BY <2>s, <2>2, <2>n, OnlyForm, CloseTyped DEF SaveMain, Whims
    <3>2. open[f].stage = main.stage /\ open[f].resp = resp
      BY <2>2, <2>n DEF SaveMain, Whims
    <3>3. main'.stage = main.stage /\ UNCHANGED <<sub, resp>>
      BY <2>2, <3>2 DEF SaveMain, MainRow
    <3> QED
      BY <2>h, <3>1, <3>3, NoFormTyped
  <2>3. ASSUME NEW f \in TaskForm, NEW s \in Sub, NEW p \in Colleague,
               OpensSub(f, s, p)
        PROVE  Goal /\ resp' = resp
    <3>1. PICK stage \in TaskStage, hide \in BOOLEAN, closing \in BOOLEAN,
               step \in BOOLEAN :
             /\ ReadSub(f, s, SubRow(stage, p, hide), closing, step)
             /\ \/ closing
                \/ IsActive(stage)
                \/ /\ SubExists(s) /\ stage = sub[s].stage
                   /\ p # sub[s].who => "reassigned" \in taskFaults'
      BY <2>s, <2>3, SubFormOpened
    <3>2. /\ open'[f].s = s
          /\ open'[f].closing = closing
          /\ open'[f].copy = main.stage
          /\ open'[f].row = SubRow(stage, p, hide)
          /\ \A g \in TaskForm \ {f} : open'[g] = open[g]
      BY <2>s, <3>1, OpenTyped
    <3>3. p \in resp /\ UNCHANGED <<main, sub, resp>>
      BY <2>s, <2>3, <2>n, SubFormOpened DEF Whims
    <3>4. closing \/ IsActive(stage)
          \/ (sub[s] # NoRow /\ stage = sub[s].stage /\ p = sub[s].who)
      BY <3>1, <2>n DEF Whims, SubExists
    <3>5. /\ SubRow(stage, p, hide).stage = stage
          /\ SubRow(stage, p, hide).who = p
      BY RowsTyped
    <3>6. Seen(open'[f], sub', main')
      BY <3>2, <3>3, <3>4, <3>5
    <3> QED
      BY <2>h, <3>2, <3>3, <3>6
  <2>4. ASSUME NEW f \in TaskForm, SaveSub(f)
        PROVE  Goal /\ resp' = resp
    <3> DEFINE fm == open[f]
    <3>1. /\ fm.kind = "sub"
          /\ sub' = [sub EXCEPT ![fm.s] = fm.row]
          /\ main' = MainAfter(fm, sub')
          /\ fm.s \in Sub
          /\ fm.row \in Subtask /\ fm.row # NoRow
          /\ fm.copy \in TaskStage
          /\ Seen(fm, sub, main)
      BY <2>s, <2>4, <2>h, SubFormTyped DEF SaveSub
    <3>2. (\A g \in TaskForm : open'[g] = NoForm) /\ resp' = resp
      BY <2>s, <2>4, <2>n, OnlyForm, CloseTyped DEF SaveSub, Whims
    <3>3. /\ sub' \in [Sub -> Subtask \cup {NoRow}]
          /\ sub'[fm.s] = fm.row
          /\ \A t \in Sub \ {fm.s} : sub'[t] = sub[t]
      BY <2>s, <3>1 DEF TaskTypeOK
    <3>4. \A t \in Sub : sub'[t] # NoRow => sub'[t].who \in resp
      BY <2>h, <3>1, <3>3
    <3>5. \A t \in Sub : sub'[t] # NoRow
                        => sub'[t].active = IsActive(sub'[t].stage)
      BY <2>s, <3>1, <3>3 DEF ActiveColumn, RowsAreRight, SubExists
    <3> HIDE DEF fm
    <3>6. /\ \/ main' = MainRow("completed")
             \/ main'.stage = "in_progress" /\ TakesUp(fm.copy, fm.row)
             \/ main'.stage = main.stage /\ ~TakesUp(fm.copy, fm.row)
          /\ fm.closing /\ AllDone(sub') /\ ~TakesUp(fm.copy, fm.row)
             /\ fm.copy \in {"pending", "in_progress"}
             => main' = MainRow("completed")
      <4>1. main \in Main
        BY <2>s DEF TaskTypeOK
      <4>2. MainRow(fm.copy).stage = main.stage
        BY <3>1, MainRowTyped
      <4> QED
        BY <3>1, <4>1, <4>2, MainAfterCases
    <3>7. MainRow("completed").stage = "completed"
      BY DEF MainRow
    <3>8. main'.stage # "postponed"
      BY <2>h, <3>6, <3>7
    <3>9. ASSUME Finished(sub')
          PROVE  ~IsActive(main'.stage)
      <4>1. ~IsActive(fm.row.stage)
        BY <3>9, <3>1, <3>3 DEF Finished
      <4>2. ~TakesUp(fm.copy, fm.row)
        BY <4>1 DEF TakesUp, IsActive
      <4>3. CASE fm.closing
        <5>1. AllDone(sub')
          BY <3>9, <3>3, <3>4, <3>5, FinishedIsDone
        <5>2. main.stage \in {"pending", "in_progress", "completed"}
          BY <2>s, <2>h DEF TaskTypeOK, Main, TaskStage
        <5>3. CASE main.stage \in {"pending", "in_progress"}
          BY <3>1, <3>6, <3>7, <4>2, <4>3, <5>1, <5>3 DEF IsActive
        <5>4. CASE main.stage = "completed"
          BY <3>6, <3>7, <4>2, <5>4 DEF IsActive
        <5> QED
          BY <5>2, <5>3, <5>4
      <4>4. CASE ~fm.closing
        <5>1. /\ sub[fm.s] # NoRow
              /\ sub[fm.s].stage = fm.row.stage
              /\ sub[fm.s].who = fm.row.who
          BY <3>1, <4>1, <4>4
        <5>2. \A t \in Sub : /\ sub[t] # NoRow <=> sub'[t] # NoRow
                            /\ sub[t].stage = sub'[t].stage
                            /\ sub[t].who = sub'[t].who
          BY <3>1, <3>3, <5>1
        <5>3. Finished(sub)
          BY <3>9, <5>2 DEF Finished
        <5> QED
          BY <2>h, <3>6, <3>7, <4>2, <5>3 DEF IsActive
      <4> QED
        BY <4>3, <4>4
    <3> QED
      BY <3>2, <3>4, <3>8, <3>9, NoFormTyped
  <2>5. ASSUME NEW s \in Sub, DeleteSub(s)
        PROVE  Goal /\ resp' = resp
    BY <2>5, <2>n DEF DeleteSub, Whims
  <2>6. ASSUME NEW f \in TaskForm, AbandonTask(f)
        PROVE  Goal /\ resp' = resp
    <3>1. open'[f] = NoForm /\ \A g \in TaskForm \ {f} : open'[g] = open[g]
      BY <2>s, <2>6, CloseTyped DEF AbandonTask
    <3>2. UNCHANGED <<main, sub, resp>>
      BY <2>6 DEF AbandonTask
    <3> QED
      BY <2>h, <3>1, <3>2, NoFormTyped
  <2>7. CASE UNCHANGED taskVars
    BY <2>7, <2>h DEF taskVars
  <2> QED
    BY <2>s, <2>1, <2>2, <2>3, <2>4, <2>5, <2>6, <2>7, Steps
<1>3. LastIsSeen => DoneMeansClosed
  BY FinishedIsAntecedent DEF LastIsSeen, DoneMeansClosed, Whims
<1> QED
  BY <1>1, <1>2, <1>3, TaskTypeCorrect, ColumnsAreRight, PTL DEF TaskSpec

=============================================================================
