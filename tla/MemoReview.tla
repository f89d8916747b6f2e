------------------------------ MODULE MemoReview ------------------------------
(***************************************************************************)
(* An office memo: its author writes it, perhaps as a draft first, its     *)
(* recipient and subscribers are told of it, and a leader reviews it or    *)
(* makes a task or project of it.                                          *)
(*                                                                         *)
(* A page shows the memo as it was when it was opened and posts every      *)
(* field it has.  The server reads the row again, puts the posted fields   *)
(* into it and saves all columns in a transaction: posting and committing  *)
(* are two steps.  The form of a new task or project reads the memo when   *)
(* it is posted, and saves it whole as well.                               *)
(***************************************************************************)
EXTENDS FiniteSets, Naturals

CONSTANTS
    Person,      \* who may be the recipient
    Subscriber,  \* who may subscribe; all have an e-mail address
    Outcome,     \* bound: the tasks and projects there may ever be
    None,        \* no task, no project
    Form,        \* bound: the forms open at one time
    Worlds,      \* bound: the persons, subscribers, outcomes and roles there
                 \* are together, whether the memo may begin as a draft
    MaxFaults,   \* bound: how many kinds of hazardous events happen
    Considered   \* the hazardous events to consider, out of Fault

ASSUME MemoAssumption ==
    /\ None \notin Outcome /\ MaxFaults \in Nat
    /\ Worlds \subseteq [persons : SUBSET Person, outcomes : SUBSET Outcome,
                         subscribers : SUBSET Subscriber,
                         roles : SUBSET {"owner", "boss", "leader", "other"},
                         drafts : SUBSET BOOLEAN]

VARIABLES
    world,    \* the one of Worlds
    author,   \* the role of the memo's owner
    memo,     \* the row of the memo
    subs,     \* its subscribers
    told,     \* the subscribers that are down as notified
    letters,  \* how often each person was told of the memo: never, once, more
    review,   \* whether the owner was told of the review that stands
    made,     \* the tasks and projects made of the memo that there are
    form,     \* what each open form shows or is going to save
    faults    \* the hazardous events so far

vars == <<world, author, memo, subs, told, letters, review, made, form, faults>>

Stage == {"pending", "postponed", "reviewed"}
Kind == {"task", "project"}

\* A leader is a chief, a task operator or a superuser, a boss an owner who is
\* one, and any other user may change a memo he sees.
Role == {"owner", "boss", "leader", "other"}
Owns(by) == by \in {"owner", "boss"}
HasStage(by) == by \in {"boss", "leader"}
HasDraft(by) == by = "owner"

Fault == {"overlap",         \* a form commits what another has read
          "stale_page",      \* a page posts a field that has changed since
          "readdressed",     \* a memo gets another recipient after it was sent
          "answered",        \* a task is to be made of a memo reviewed already
          "by_hand"}         \* a task or project is typed into the page

Row == [stage : Stage, draft : BOOLEAN, notified : BOOLEAN, to : Person,
        task : Outcome \cup {None}, project : Outcome \cup {None}]
Unborn == [stage |-> "unborn"]
Gone == [stage |-> "gone"]
Exists == memo.stage \in Stage

Closed == [step |-> "none"]
Page == [step : {"page"}, by : Role, row : Row, subs : SUBSET Subscriber]
\* reviewed: the owner is to be told, tell: the subscribers are to be told,
\* next: the button that was pressed.
Posted == [step : {"posted"}, by : Role, row : Row, subs : SUBSET Subscriber,
           reviewed : BOOLEAN, tell : BOOLEAN, next : Kind \cup {"save"}]
New == [step : {"new"}, kind : Kind]
Making == [step : {"making"}, kind : Kind, o : Outcome, row : Row]

TypeOK ==
    /\ world \in Worlds
    /\ author \in {"owner", "boss"}
    /\ memo \in Row \cup {Unborn, Gone}
    /\ subs \subseteq Subscriber /\ told \subseteq Subscriber
    /\ letters \in [Person -> 0..2]
    /\ review \in BOOLEAN
    /\ made \subseteq Outcome
    /\ form \in [Form -> {Closed} \cup Page \cup Posted \cup New \cup Making]
    /\ faults \subseteq Fault

Init ==
    /\ world \in Worlds
    /\ author \in world.roles \cap {"owner", "boss"}
    /\ memo = Unborn
    /\ subs = {} /\ told = {}
    /\ letters = [p \in Person |-> 0]
    /\ review = FALSE
    /\ made = {}
    /\ form = [f \in Form |-> Closed]
    /\ faults = {}

-----------------------------------------------------------------------------
If(cond, fault) == IF cond THEN {fault} ELSE {}
Reading(f) == form[f].step \in {"posted", "making"}
Answers(F, row) ==
    If(row.stage = "reviewed" /\ \E g \in F : form[g].step = "new", "answered")
Overlap(F) == If(\E g \in F : Reading(g), "overlap")

Set(f, value) == form' = [form EXCEPT ![f] = value]

\* A row may not refer to a task or project that is gone.
Refers(row) == {row.task, row.project} \ {None}

-----------------------------------------------------------------------------
(***************************************************************************)
(* The pages of the memo.                                                  *)
(***************************************************************************)

Another(p) == [letters EXCEPT ![p] = IF @ = 0 THEN 1 ELSE 2]

\* The form of a new memo has no stage.  One that is no draft is sent at once.
Write(draft, p, S) ==
    /\ memo = Unborn
    /\ memo' = [stage |-> "pending", draft |-> draft, notified |-> ~draft,
                to |-> p, task |-> None, project |-> None]
    /\ subs' = S
    /\ told' = IF draft THEN {} ELSE S
    /\ letters' = IF draft THEN letters ELSE Another(p)
    /\ UNCHANGED <<world, author, review, made, form, faults>>

\* Others find a draft only if they subscribe to it, and the owner may not
\* change a reviewed memo.
MayChange(by) ==
    /\ Exists
    /\ by \in {author, "leader", "other"}
    /\ by = "other" => ~memo.draft \/ subs # {}
    /\ by = "owner" => memo.stage # "reviewed"

Open(f, by) ==
    /\ form[f] = Closed
    /\ MayChange(by)
    /\ Set(f, [step |-> "page", by |-> by, row |-> memo, subs |-> subs])
    /\ UNCHANGED <<world, author, memo, subs, told, letters, review, made, faults>>

\* What a page posts: stage and draft only if it has them.
Fields(by, row, S) ==
    <<IF HasStage(by) THEN row.stage ELSE "-",
      IF HasDraft(by) THEN row.draft ELSE "-",
      row.to, row.task, row.project, S>>

\* What may be typed into the page; bound: into one of its fields at a time.
Typed(page) ==
    LET row == page.row
    IN  IF page.step # "page" THEN {} ELSE {row}
        \cup {[row EXCEPT !.stage = s] : s \in IF HasStage(page.by) THEN Stage ELSE {}}
        \cup {[row EXCEPT !.draft = d] : d \in IF HasDraft(page.by) THEN BOOLEAN ELSE {}}
        \cup {[row EXCEPT !.to = p] : p \in world.persons}
        \cup {[row EXCEPT ![k] = o] : k \in Kind, o \in made \cup {None}}

\* Mutant: a stage the page does not have is posted as pending.
MergeDefault(by, post) ==
    [post EXCEPT !.stage = IF HasStage(by) THEN @ ELSE "pending",
                 !.draft = IF HasDraft(by) THEN @ ELSE memo.draft,
                 !.notified = memo.notified]

\* The row as read, with the fields of the page.
Merge(by, post) ==
    [post EXCEPT !.stage = IF HasStage(by) THEN @ ELSE memo.stage,
                 !.draft = IF HasDraft(by) THEN @ ELSE memo.draft,
                 !.notified = memo.notified]

\* Mutant: the stage is saved as posted.
PostponedNever(row, next) == row

\* A memo that is to become a task is not reviewed before there is one.
Postponed(row, next) ==
    IF next = "task" /\ row.stage = "reviewed" /\ memo.stage # "reviewed"
    THEN [row EXCEPT !.stage = "postponed"] ELSE row

\* Mutant: the stage is compared with the one the page showed.
ReviewsShown(page, row) == row.stage = "reviewed" /\ page.row.stage # "reviewed"

\* Whether the owner is to be told of the review: the stage is changed to it.
Reviews(page, row) == row.stage = "reviewed" /\ memo.stage # "reviewed"

\* Mutant: the subscribers are told when they are changed only.
TellsChanged(row, S) == S # subs

\* Whether the subscribers are to be told: they or the draft box were changed.
Tells(row, S) == S # subs \/ row.draft # memo.draft

\* The page is posted with the row post and the subscribers S.  The buttons that
\* make a task or project are on a page of a memo that has none; bound: nothing
\* is typed into the links then.
Post(f, post, S, next) ==
    LET page == form[f]
        row  == Postponed(Merge(page.by, post), next)
    IN  /\ page.step = "page"
        /\ MayChange(page.by)
        /\ Refers(post) \subseteq made
        /\ next # "save" => Refers(page.row) = {} /\ Refers(post) = {}
        /\ Set(f, [step |-> "posted", by |-> page.by, row |-> row, subs |-> S,
                   reviewed |-> Reviews(page, row), tell |-> Tells(row, S),
                   next |-> next])
        /\ faults' = faults
             \cup If(Fields(page.by, page.row, page.subs)
                       # Fields(page.by, memo, subs), "stale_page")
             \cup If(row.to # memo.to /\ memo.notified, "readdressed")
             \cup If(<<post.task, post.project>>
                       # <<page.row.task, page.row.project>>, "by_hand")
             \cup If(\/ next # "save" /\ memo.stage = "reviewed"
                     \/ next = "project" /\ row.stage = "reviewed", "answered")
        /\ UNCHANGED <<world, author, memo, subs, told, letters, review, made>>

\* The owner's save tells the recipient, once.
Sends(fm) == ~fm.row.draft /\ ~fm.row.notified /\ Owns(fm.by)

\* Everything is saved; a memo deleted meanwhile is inserted again.
Commit(f) ==
    LET fm == form[f]
    IN  /\ fm.step = "posted"
        /\ Refers(fm.row) \subseteq made
        /\ memo' = [fm.row EXCEPT !.notified = @ \/ Sends(fm)]
        /\ letters' = IF Sends(fm) THEN Another(fm.row.to)
                      ELSE letters
        /\ subs' = fm.subs
        /\ told' = IF ~fm.row.draft /\ fm.tell THEN told \cup fm.subs ELSE told
        /\ review' = (fm.row.stage = "reviewed" /\ (review \/ fm.reviewed))
        /\ Set(f, IF fm.next = "save" THEN Closed
                  ELSE [step |-> "new", kind |-> fm.next])
        /\ faults' = faults \cup Overlap(Form \ {f})
                            \cup Answers(Form \ {f}, fm.row)
        /\ UNCHANGED <<world, author, made>>

Delete ==
    /\ Exists
    /\ memo' = Gone /\ subs' = {} /\ told' = {} /\ review' = FALSE
    /\ faults' = faults \cup Overlap(Form)
    /\ UNCHANGED <<world, author, letters, made, form>>

-----------------------------------------------------------------------------
(***************************************************************************)
(* The task or project made of it.                                         *)
(***************************************************************************)
Make(f, o) ==
    /\ form[f].step = "new"
    /\ Exists
    /\ o \notin made
    /\ \A g \in Form : form[g].step = "making" => form[g].o # o
    /\ Set(f, [step |-> "making", kind |-> form[f].kind, o |-> o, row |-> memo])
    /\ UNCHANGED <<world, author, memo, subs, told, letters, review, made, faults>>

\* A memo that is not reviewed yet is, and linked; the owner is told.
Linked(fm) == [fm.row EXCEPT ![fm.kind] = fm.o, !.stage = "reviewed"]

CommitMade(f) ==
    LET fm == form[f]
    IN  /\ fm.step = "making"
        /\ made' = made \cup {fm.o}
        /\ IF fm.row.stage = "reviewed" THEN UNCHANGED <<memo, review>>
           ELSE /\ Refers(fm.row) \subseteq made
                /\ memo' = Linked(fm)
                /\ review' = TRUE
        /\ Set(f, Closed)
        /\ faults' = faults \cup Overlap(Form \ {f})
                            \cup Answers(Form \ {f}, memo')
        /\ UNCHANGED <<world, author, subs, told, letters>>

\* The memo's field is emptied when its task or project is deleted.
DeleteMade(o) ==
    /\ o \in made
    /\ made' = made \ {o}
    /\ memo' = IF Exists
               THEN [memo EXCEPT !.task = IF @ = o THEN None ELSE @,
                                 !.project = IF @ = o THEN None ELSE @]
               ELSE memo
    /\ faults' = faults \cup Overlap(Form)
    /\ UNCHANGED <<world, author, subs, told, letters, review, form>>

\* A form is refused or given up.
Abandon(f) ==
    /\ form[f] # Closed
    /\ Set(f, Closed)
    /\ UNCHANGED <<world, author, memo, subs, told, letters, review, made, faults>>

-----------------------------------------------------------------------------
Tolerated == faults' \subseteq Considered /\ Cardinality(faults') <= MaxFaults

Next ==
    /\ \/ \E draft \in world.drafts, p \in world.persons, S \in SUBSET world.subscribers :
             Write(draft, p, S)
       \/ \E f \in Form, by \in world.roles : Open(f, by)
       \/ \E f \in Form : \E post \in Typed(form[f]), S \in SUBSET world.subscribers,
             next \in Kind \cup {"save"} : Post(f, post, S, next)
       \/ \E f \in Form : Commit(f)
       \/ Delete
       \/ \E f \in Form, o \in world.outcomes : Make(f, o)
       \/ \E f \in Form : CommitMade(f)
       \/ \E o \in world.outcomes : DeleteMade(o)
       \/ \E f \in Form : Abandon(f)
    /\ Tolerated

Spec == Init /\ [][Next]_vars

-----------------------------------------------------------------------------
(***************************************************************************)
(* Properties.                                                             *)
(***************************************************************************)
NoFault(F) == faults \cap F = {}

\* Who a memo is for has been told, and only once: the recipient when the memo
\* was sent, a subscriber at the latest when it ceased to be a draft.  One
\* named after it was sent is not told, and overlapping forms undo what they
\* have not read.
Told ==
    NoFault({"overlap"}) =>
        /\ \A p \in Person : letters[p] <= 1
        /\ Exists /\ ~memo.draft =>
              /\ subs \subseteq told
              /\ NoFault({"readdressed"}) => letters[memo.to] = 1

\* When a memo is reviewed, by the page or by making a task or project of it,
\* its owner has been told.
ReviewTold ==
    NoFault({"overlap"}) /\ Exists /\ memo.stage = "reviewed" => review

\* What was made of a memo is linked to it, also when the page that asked
\* for a task set it to reviewed, unless the memo was reviewed already, or a page
\* typed over the link or posted it as it was.
OutcomeLinked ==
    NoFault({"overlap", "stale_page", "answered", "by_hand"}) /\ Exists
        => made \subseteq {memo.task, memo.project}

\* A review stands: whoever saves the memo afterwards, only the page of a leader
\* takes it back.
ReviewStands ==
    [][Exists /\ memo.stage = "reviewed" /\ Exists' /\ memo'.stage # "reviewed"
       /\ "overlap" \notin faults'
         => \E f \in Form : /\ form[f].step = "posted" /\ HasStage(form[f].by)
                            /\ form'[f] # form[f]]_vars
=============================================================================
