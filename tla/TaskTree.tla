------------------------------- MODULE TaskTree -------------------------------
(***************************************************************************)
(* A collective task and its subtasks.                                     *)
(*                                                                         *)
(* Every person responsible for the main task works on subtasks of it.     *)
(* The forms of the subtasks move the main task: work on a subtask takes   *)
(* it up or reopens it, and the last subtask done closes it.  A form reads *)
(* the main task when it is validated and may write that copy back; it     *)
(* commits later, in one transaction, so that two forms may overlap.       *)
(*                                                                         *)
(* What MemoReview, of the same application, has under the same name is    *)
(* named for the task here, so that one module can extend both.            *)
(***************************************************************************)
EXTENDS FiniteSets, Naturals

CONSTANTS
    Colleague,       \* users who may be responsible
    Sub,             \* bound: the subtasks there may ever be at one time
    TaskForm,        \* bound: the forms open at one time
    MaxTaskFaults,   \* bound: how many kinds of hazardous events happen
    TaskConsidered   \* the hazardous events to consider, out of TaskFault

ASSUME TaskAssumption == IsFiniteSet(Colleague) /\ MaxTaskFaults \in Nat

VARIABLES
    main,       \* the row of the main task
    resp,       \* the persons responsible for it
    sub,        \* the rows of the subtasks
    open,       \* what each open form has read and is going to save
    taskFaults  \* the hazardous events so far

taskVars == <<main, resp, sub, open, taskFaults>>

\* Of the stages, "canceled" counts as active like "postponed" does.
TaskStage == {"pending", "in_progress", "completed", "postponed"}
IsActive(stage) == stage # "completed"

TaskFault ==
    {"overlap",      \* a form commits while another one is open
     "stale_page",   \* the main task is completed from a page that was
                     \* rendered before it had subtasks
     "mail",         \* a part is completed by the link in a mail
     "outsider",     \* a subtask for somebody not responsible
     "owner",        \* the owner moved the main task by hand
     "reassigned",   \* those responsible for a task were changed
     "deleted"}      \* a subtask was deleted

Main == [stage : TaskStage, active : BOOLEAN]
Subtask == [stage : TaskStage, active : BOOLEAN, who : Colleague,
            hide : BOOLEAN]
NoRow == [stage |-> "none"]
SubExists(s) == sub[s] # NoRow

NoForm == [kind |-> "none"]
MainForm == [kind : {"main"}, stage : TaskStage,
             resp : (SUBSET Colleague) \ {{}}]
\* row is what is saved, closing whether the main task is looked at afterwards,
\* step whether the next step was changed, copy the main task's stage as read.
SubForm == [kind : {"sub"}, s : Sub, row : Subtask, closing : BOOLEAN,
            step : BOOLEAN, copy : TaskStage]

TaskTypeOK ==
    /\ main \in Main
    /\ resp \in (SUBSET Colleague) \ {{}}
    /\ sub \in [Sub -> Subtask \cup {NoRow}]
    /\ open \in [TaskForm -> {NoForm} \cup MainForm \cup SubForm]
    /\ taskFaults \subseteq TaskFault

TaskInit ==
    /\ main = [stage |-> "pending", active |-> TRUE]
    /\ resp \in (SUBSET Colleague) \ {{}}
    /\ sub = [s \in Sub |-> NoRow]
    /\ open = [f \in TaskForm |-> NoForm]
    /\ taskFaults = {}

-----------------------------------------------------------------------------
ActiveSub == {s \in Sub : SubExists(s) /\ IsActive(sub[s].stage)}
SubOf(p)  == {s \in Sub : SubExists(s) /\ sub[s].who = p}

\* A save while another form is open: what that one has read is stale.
TaskOverlap(f) ==
    IF \E g \in TaskForm \ {f} : open[g] # NoForm THEN {"overlap"} ELSE {}
Outsider(p) == IF p \in resp THEN {} ELSE {"outsider"}

\* Task.save: the column active follows the stage.
MainRow(stage) == [stage |-> stage, active |-> IsActive(stage)]
SubRow(stage, p, hide) ==
    [stage |-> stage, active |-> IsActive(stage), who |-> p, hide |-> hide]

-----------------------------------------------------------------------------
(***************************************************************************)
(* The form of the main task.                                              *)
(***************************************************************************)

\* clean_responsible asks for somebody responsible, Task.clean does not close a
\* main task with an active subtask.
OpenMain(f, stage, R) ==
    /\ open[f] = NoForm
    /\ R # {}
    /\ IsActive(stage) \/ ActiveSub = {}
    /\ open' = [open EXCEPT ![f] = [kind |-> "main", stage |-> stage, resp |-> R]]
    /\ UNCHANGED <<main, resp, sub, taskFaults>>

\* The button Completed, offered while the task had no subtask and one person
\* responsible at most; it sets the stage after the form was validated.
CompleteMain(f) ==
    /\ open[f] = NoForm
    /\ Cardinality(resp) = 1
    /\ open' = [open EXCEPT ![f] =
                  [kind |-> "main", stage |-> "completed", resp |-> resp]]
    /\ taskFaults' = taskFaults \cup
          IF \E s \in Sub : SubExists(s) THEN {"stale_page"} ELSE {}
    /\ UNCHANGED <<main, resp, sub>>

SaveMain(f) ==
    /\ open[f].kind = "main"
    /\ main' = MainRow(open[f].stage)
    /\ resp' = open[f].resp
    /\ open' = [open EXCEPT ![f] = NoForm]
    /\ taskFaults' = taskFaults \cup TaskOverlap(f)
                 \cup (IF open[f].resp # resp THEN {"reassigned"} ELSE {})
                 \cup (IF open[f].stage # main.stage THEN {"owner"} ELSE {})
    /\ UNCHANGED sub

-----------------------------------------------------------------------------
(***************************************************************************)
(* The form of a subtask.                                                  *)
(***************************************************************************)

ReadSub(f, s, row, closing, step) ==
    open' = [open EXCEPT ![f] =
               [kind |-> "sub", s |-> s, row |-> row, closing |-> closing,
                step |-> step, copy |-> main.stage]]

\* A subtask is added; an active one for the user himself is in progress.
AddSub(f, s, p, self, stage, step) ==
    /\ open[f] = NoForm
    /\ ~SubExists(s) /\ \A g \in TaskForm : open[g].kind = "sub" => open[g].s # s
    /\ LET st == IF self /\ IsActive(stage) THEN "in_progress" ELSE stage
       IN  ReadSub(f, s, SubRow(st, p, FALSE), ~IsActive(st), step)
    /\ taskFaults' = taskFaults \cup Outsider(p)
    /\ UNCHANGED <<main, resp, sub>>

\* A subtask is changed; the button Completed counts as a change of stage even
\* when the subtask was completed before.
ChangeSub(f, s, p, button, stage, step) ==
    /\ open[f] = NoForm
    /\ SubExists(s)
    /\ button => stage = "completed"
    /\ LET changed == stage # sub[s].stage
       IN  ReadSub(f, s, SubRow(stage, p, sub[s].hide),
                button \/ (changed /\ ~IsActive(stage)), step)
    /\ taskFaults' = taskFaults \cup Outsider(p)
                 \cup (IF p # sub[s].who THEN {"reassigned"} ELSE {})
    /\ UNCHANGED <<main, resp, sub>>

\* The user has an active subtask, or a closed one that hides the main task.
Refused(p) == \E s \in SubOf(p) : IsActive(sub[s].stage) \/ sub[s].hide

\* 'I completed my part of the task' adds a completed subtask.  The link in the
\* mail looks for subtasks of the wrong task, and for none of a user who is not
\* logged in.
CompletePart(f, s, p, link) ==
    /\ open[f] = NoForm
    /\ p \in resp
    /\ Cardinality(resp) > 1
    /\ ~SubExists(s) /\ \A g \in TaskForm : open[g].kind = "sub" => open[g].s # s
    /\ link \/ ~Refused(p)
    /\ ReadSub(f, s, SubRow("completed", p, TRUE), TRUE, FALSE)
    /\ taskFaults' = taskFaults \cup (IF link THEN {"mail"} ELSE {})
    /\ UNCHANGED <<main, resp, sub>>

\* Mutant: a closed main task is not reopened.
TakesUpOnly(copy, row) == copy = "pending" /\ row.stage = "in_progress"

\* Work on a subtask takes up the main task, an active one reopens it.
TakesUp(copy, row) ==
    \/ copy = "pending" /\ row.stage = "in_progress"
    \/ ~IsActive(copy) /\ IsActive(row.stage)

\* check_and_deacte_main_task: no subtask is active and those who have done
\* one are those responsible.
AllDone(S) ==
    LET parts == {s \in Sub : S[s] # NoRow}
        done == {s \in parts : S[s].stage = "completed" /\ ~S[s].active}
    IN  /\ \A s \in parts : ~S[s].active
        /\ resp = {S[s].who : s \in done}

\* Mutant: a main task nobody has taken up is not closed.
MainAfterStarted(fm, S) ==
    LET up    == TakesUp(fm.copy, fm.row)
        stage == IF up THEN "in_progress" ELSE fm.copy
        old   == IF fm.step THEN MainRow(fm.copy) ELSE main
    IN  CASE fm.closing /\ stage = "in_progress" /\ AllDone(S)
               -> MainRow("completed")
          [] up -> [old EXCEPT !.stage = "in_progress"]
          [] OTHER -> old

\* Mutant: the closed main task is saved without its column active.
MainAfterStageOnly(fm, S) ==
    LET up    == TakesUp(fm.copy, fm.row)
        stage == IF up THEN "in_progress" ELSE fm.copy
        old   == IF fm.step THEN MainRow(fm.copy) ELSE main
    IN  CASE fm.closing /\ stage \in {"pending", "in_progress"} /\ AllDone(S)
               -> [old EXCEPT !.stage = "completed"]
          [] up -> [old EXCEPT !.stage = "in_progress"]
          [] OTHER -> old

\* The main task after a form fm that leaves the subtasks S.  Its copy is
\* written whole when the next step was changed, and again when the task is
\* closed; in between its stage alone is, and not the column active.
MainAfter(fm, S) ==
    LET up    == TakesUp(fm.copy, fm.row)
        stage == IF up THEN "in_progress" ELSE fm.copy
        old   == IF fm.step THEN MainRow(fm.copy) ELSE main
    IN  CASE fm.closing /\ stage \in {"pending", "in_progress"} /\ AllDone(S)
               -> MainRow("completed")
          [] up -> [old EXCEPT !.stage = "in_progress"]
          [] OTHER -> old

\* A subtask that was deleted while its form was open is inserted again.
SaveSub(f) ==
    /\ open[f].kind = "sub"
    /\ LET S == [sub EXCEPT ![open[f].s] = open[f].row]
       IN  sub' = S /\ main' = MainAfter(open[f], S)
    /\ open' = [open EXCEPT ![f] = NoForm]
    /\ taskFaults' = taskFaults \cup TaskOverlap(f)
    /\ UNCHANGED resp

\* Deleting a subtask leaves the main task as it is.
DeleteSub(s) ==
    /\ SubExists(s)
    /\ sub' = [sub EXCEPT ![s] = NoRow]
    /\ taskFaults' = taskFaults \cup {"deleted"}
                 \cup (IF \E g \in TaskForm : open[g] # NoForm THEN {"overlap"} ELSE {})
    /\ UNCHANGED <<main, resp, open>>

\* A form that is refused or given up.
AbandonTask(f) ==
    /\ open[f] # NoForm
    /\ open' = [open EXCEPT ![f] = NoForm]
    /\ UNCHANGED <<main, resp, sub, taskFaults>>

-----------------------------------------------------------------------------
TaskTolerated ==
    taskFaults' \subseteq TaskConsidered /\ Cardinality(taskFaults') <= MaxTaskFaults

TaskNext ==
    /\ \/ \E f \in TaskForm, stage \in TaskStage, R \in SUBSET Colleague :
             OpenMain(f, stage, R)
       \/ \E f \in TaskForm : CompleteMain(f)
       \/ \E f \in TaskForm : SaveMain(f)
       \/ \E f \in TaskForm, s \in Sub, p \in Colleague, self, step \in BOOLEAN,
             stage \in TaskStage : AddSub(f, s, p, self, stage, step)
       \/ \E f \in TaskForm, s \in Sub, p \in Colleague, button, step \in BOOLEAN,
             stage \in TaskStage : ChangeSub(f, s, p, button, stage, step)
       \/ \E f \in TaskForm, s \in Sub, p \in Colleague, link \in BOOLEAN :
             CompletePart(f, s, p, link)
       \/ \E f \in TaskForm : SaveSub(f)
       \/ \E s \in Sub : DeleteSub(s)
       \/ \E f \in TaskForm : AbandonTask(f)
    /\ TaskTolerated

TaskSpec == TaskInit /\ [][TaskNext]_taskVars

-----------------------------------------------------------------------------
(***************************************************************************)
(* Properties.                                                             *)
(***************************************************************************)
NoTaskFault(F) == taskFaults \cap F = {}

\* A closed main task has no active subtask: neither the owner nor the form of
\* a subtask closes it too early, and every subtask taken up again reopens it.
\* Overlapping forms and a page rendered too early break this.
ClosedMeansDone ==
    NoTaskFault({"overlap", "stale_page"}) /\ ~IsActive(main.stage)
        => ActiveSub = {}

\* When each of those responsible has done a subtask and no subtask is open,
\* the main task is closed, in whatever order they worked, unless the owner
\* keeps it open, somebody not responsible has a subtask too, or a subtask was
\* deleted or given to somebody else, which the main task does not follow.
DoneMeansClosed ==
    NoTaskFault({"overlap", "owner", "reassigned", "deleted", "outsider"})
    /\ (\E s \in Sub : SubExists(s)) /\ ActiveSub = {}
    /\ resp \subseteq {sub[s].who : s \in {t \in Sub : SubExists(t)}}
        => ~IsActive(main.stage)

\* The column active by which the subtasks are counted as open is right, and a
\* closed main task is never active by its column, whichever copy was written.
ActiveColumn ==
    /\ \A s \in Sub : SubExists(s) => sub[s].active = IsActive(sub[s].stage)
    /\ main.active => IsActive(main.stage)
=============================================================================
