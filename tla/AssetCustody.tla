---------------------------- MODULE AssetCustody ----------------------------
(***************************************************************************)
(* Who holds which asset, and the status column that is meant to say so.   *)
(*                                                                         *)
(* The assets application keeps the two apart: an assignment holds assets  *)
(* through a many-to-many table, and signal receivers copy every change of *)
(* that table to Asset.status.  The API and the return form are not        *)
(* transactions: they check, change the table, and then save the statuses  *)
(* of their own copies of the assets one by one.  The admin pages are      *)
(* transactions, and a management command and bulk actions set statuses    *)
(* without looking at the running requests.                                *)
(***************************************************************************)
EXTENDS FiniteSets, Naturals

CONSTANTS
    Hardware, Software,  \* the assets
    Assignment,          \* the assignments, each of one employee
    Worker,              \* request handlers of the server
    NoAsset, NoAssignment,
    Considered,          \* the hazardous events to consider, out of Fault
    MaxFaults            \* bound: how many kinds of them a behaviour combines

Asset == Hardware \cup Software

ASSUME KindAssumption == Hardware \cap Software = {}
ASSUME NoAssetAssumption == NoAsset \notin Asset
ASSUME NoAssignmentAssumption == NoAssignment \notin Assignment

VARIABLES
    status,     \* Asset.status
    held,       \* the many-to-many table, as a set of assets per assignment
    live,       \* assignments that exist
    used,       \* assignments that have existed
    returned,   \* assignments with an AssetReturn record
    condition,  \* the condition noted when an asset last came back
    job,        \* what each handler is doing
    faults      \* the hazardous events so far

tables == <<held, live, used, returned>>
vars == <<status, tables, condition, job, faults>>

Status    == {"AVAILABLE", "ASSIGNED", "DAMAGED", "LOST"}
Condition == {"GOOD", "DAMAGED", "LOST"}
Fault     == {"overlap", "stale_choice", "crash", "delete", "staff", "fix"}

\* add and drop are the assets a handler has still to mark as taken and as
\* given back, keep those the assignment had and keeps, mend those whose copy
\* the receiver of save() will correct, cur the asset it is taking back and
\* mark the status it chose.
Job == [step : {"idle", "link", "touch", "relink", "mark", "record", "remove",
                "decide", "stamp"},
        m    : Assignment \cup {NoAssignment},
        add  : SUBSET Asset,
        drop : SUBSET Asset,
        keep : SUBSET Asset,
        mend : SUBSET Asset,
        cur  : Asset \cup {NoAsset},
        mark : Status \cup Condition]

Idle == [step |-> "idle", m |-> NoAssignment, add |-> {}, drop |-> {},
         keep |-> {}, mend |-> {}, cur |-> NoAsset, mark |-> "AVAILABLE"]

TypeOK ==
    /\ status \in [Asset -> Status]
    /\ held \in [Assignment -> SUBSET Asset]
    /\ live \subseteq used
    /\ used \subseteq Assignment
    /\ returned \subseteq live
    /\ condition \in [Asset -> Condition]
    /\ job \in [Worker -> Job]
    /\ faults \subseteq Fault

Init ==
    /\ status = [a \in Asset |-> "AVAILABLE"]
    /\ held = [m \in Assignment |-> {}]
    /\ live = {}
    /\ used = {}
    /\ returned = {}
    /\ condition = [a \in Asset |-> "GOOD"]
    /\ job = [w \in Worker |-> Idle]
    /\ faults = {}

-----------------------------------------------------------------------------
Holders(a) == {m \in Assignment : a \in held[m]}
Busy == {w \in Worker : job[w].step # "idle"}
InHand(w) == job[w].add \cup job[w].drop \cup ({job[w].cur} \ {NoAsset})
InFlight == UNION {InHand(w) : w \in Busy}

\* The serializer's check: hardware must be free, software must be usable.
Assignable(a) == IF a \in Software THEN status[a] \notin {"DAMAGED", "LOST"}
                                   ELSE status[a] = "AVAILABLE"

\* A step on assignment m and the assets S meets one of the handlers V that is
\* at work on them.
Overlaps(V, m, S) ==
    IF \E v \in V : job[v].m = m \/ InHand(v) \cap S # {}
    THEN {"overlap"} ELSE {}

\* Mutant: the receiver looks at added assets only.
RelinkedAddedOnly(m, S) ==
    [a \in Asset |-> IF a \in S \ held[m] THEN "ASSIGNED" ELSE status[a]]

\* The statuses the m2m_changed receivers leave when m, which held old, comes
\* to hold S.
Relinked(m, S) ==
    [a \in Asset |->
        IF a \in S \ held[m] THEN "ASSIGNED"
        ELSE IF a \in held[m] \ S /\ Holders(a) \ {m} = {} THEN "AVAILABLE"
        ELSE status[a]]

\* assets.set(S), a transaction with its receivers.
SetAssets(m, S) ==
    /\ held' = [held EXCEPT ![m] = S]
    /\ status' = Relinked(m, S)
    /\ condition' = [a \in Asset |-> IF a \in S \ held[m] THEN "GOOD"
                                                         ELSE condition[a]]

-----------------------------------------------------------------------------
(***************************************************************************)
(* The API: POST, PUT and PATCH of asset-assignments.                      *)
(***************************************************************************)

\* Mutant: hardware is not checked.
CreateCheckUnvalidated(w, m, S) ==
    /\ job[w] = Idle
    /\ m \notin used
    /\ \A a \in S : status[a] \notin {"DAMAGED", "LOST"}
    /\ job' = [job EXCEPT ![w] = [Idle EXCEPT !.step = "link", !.m = m,
                                              !.add = S]]
    /\ used' = used \cup {m}
    /\ faults' = faults \cup Overlaps(Busy \ {w}, m, S)
    /\ UNCHANGED <<status, held, live, returned, condition>>

\* POST: every asset is checked before anything is written.
CreateCheck(w, m, S) ==
    /\ job[w] = Idle
    /\ m \notin used
    /\ \A a \in S : Assignable(a)
    /\ job' = [job EXCEPT ![w] = [Idle EXCEPT !.step = "link", !.m = m,
                                              !.add = S]]
    /\ used' = used \cup {m}
    /\ faults' = faults \cup Overlaps(Busy \ {w}, m, S)
    /\ UNCHANGED <<status, held, live, returned, condition>>

\* AssetAssignment.objects.create() and assets.set().
CreateLink(w) ==
    /\ job[w].step = "link"
    /\ live' = live \cup {job[w].m}
    /\ SetAssets(job[w].m, job[w].add)
    /\ job' = [job EXCEPT ![w].step = "mark"]
    /\ UNCHANGED <<used, returned, faults>>

\* PUT or PATCH: the assets posted are checked like new ones, even those the
\* assignment holds, and its assets are read.
UpdateCheck(w, m, S) ==
    /\ job[w] = Idle
    /\ m \in live
    /\ \A a \in S : Assignable(a)
    /\ job' = [job EXCEPT ![w] = [Idle EXCEPT
                        !.step = "touch", !.m = m,
                        !.add = S \ held[m],
                        !.drop = held[m] \ S,
                        !.keep = held[m] \cap S,
                        !.mend = {a \in held[m] : status[a] # "ASSIGNED"}]]
    /\ faults' = faults \cup Overlaps(Busy \ {w}, m, S \cup held[m])
    /\ UNCHANGED <<status, tables, condition>>

\* instance.save(): the post_save receiver marks what the assignment held when
\* it was read.  A row deleted since is inserted again.
UpdateTouch(w) ==
    /\ job[w].step = "touch"
    /\ status' = [a \in Asset |-> IF a \in job[w].mend THEN "ASSIGNED"
                                                       ELSE status[a]]
    /\ live' = live \cup {job[w].m}
    /\ job' = [job EXCEPT ![w].step = "relink", ![w].mend = {}]
    /\ UNCHANGED <<held, used, returned, condition, faults>>

\* assets.set() with the assets posted.
UpdateLink(w) ==
    /\ job[w].step = "relink"
    /\ job[w].m \in live \/ job[w].keep \cup job[w].add = {}
    /\ SetAssets(job[w].m, job[w].keep \cup job[w].add)
    /\ job' = [job EXCEPT ![w].step = "mark", ![w].keep = {}]
    /\ UNCHANGED <<live, used, returned, faults>>

\* Mutant: a removed asset is freed whoever else has it.
MarkRemovedBlindly(w) ==
    /\ job[w].step = "mark"
    /\ \E a \in job[w].drop :
          /\ status' = [status EXCEPT ![a] = "AVAILABLE"]
          /\ job' = [job EXCEPT ![w].drop = @ \ {a}]
    /\ UNCHANGED <<tables, condition, faults>>

\* An asset taken from the assignment becomes free unless another has it.
MarkRemoved(w) ==
    /\ job[w].step = "mark"
    /\ \E a \in job[w].drop :
          /\ status' = IF Holders(a) \ {job[w].m} = {}
                       THEN [status EXCEPT ![a] = "AVAILABLE"] ELSE status
          /\ job' = [job EXCEPT ![w].drop = @ \ {a}]
    /\ UNCHANGED <<tables, condition, faults>>

\* The handler's copy of an added asset is saved with status ASSIGNED.
MarkAdded(w) ==
    /\ job[w].step = "mark"
    /\ job[w].drop = {}
    /\ \E a \in job[w].add :
          /\ status' = [status EXCEPT ![a] = "ASSIGNED"]
          /\ job' = [job EXCEPT ![w].add = @ \ {a}]
    /\ UNCHANGED <<tables, condition, faults>>

MarkDone(w) ==
    /\ job[w].step = "mark"
    /\ job[w].add = {} /\ job[w].drop = {}
    /\ job' = [job EXCEPT ![w] = Idle]
    /\ UNCHANGED <<status, tables, condition, faults>>

-----------------------------------------------------------------------------
(***************************************************************************)
(* The return form: the assets an assignment held when the loop began are  *)
(* taken back one by one.                                                  *)
(***************************************************************************)
ReturnBegin(w, m) ==
    /\ job[w] = Idle
    /\ m \in live
    /\ held[m] # {}
    /\ job' = [job EXCEPT ![w] = [Idle EXCEPT !.step = "record", !.m = m,
                                              !.drop = held[m]]]
    /\ faults' = faults \cup Overlaps(Busy \ {w}, m, held[m])
    /\ UNCHANGED <<status, tables, condition>>

\* AssetReturn(...).save() of the next asset.
ReturnRecord(w, c) ==
    /\ job[w].step = "record"
    /\ job[w].m \in live
    /\ \E a \in job[w].drop :
          job' = [job EXCEPT ![w].step = "remove", ![w].cur = a,
                             ![w].drop = @ \ {a}, ![w].mark = c]
    /\ returned' = returned \cup {job[w].m}
    /\ UNCHANGED <<status, held, live, used, condition, faults>>

\* The assignment has been deleted: its row cannot be referred to any more, and
\* the rest of the request is lost.
ReferenceLost(w) ==
    /\ job[w].m \notin live
    /\ \/ job[w].step = "relink" /\ job[w].keep \cup job[w].add # {}
       \/ job[w].step = "record"
    /\ job' = [job EXCEPT ![w] = Idle]
    /\ UNCHANGED <<status, tables, condition, faults>>

\* assignment.assets.remove(asset): the receiver frees the asset, also when
\* the assignment has lost it already, unless another assignment has it.
ReturnRemove(w) ==
    LET m == job[w].m
        a == job[w].cur
    IN  /\ job[w].step = "remove"
        /\ held' = [held EXCEPT ![m] = @ \ {a}]
        /\ status' = IF Holders(a) \ {m} = {}
                     THEN [status EXCEPT ![a] = "AVAILABLE"] ELSE status
        /\ condition' = [condition EXCEPT ![a] = job[w].mark]
        /\ job' = [job EXCEPT ![w].step = "decide"]
        /\ UNCHANGED <<live, used, returned, faults>>

\* Mutant: a damaged or lost asset is offered again.
ReturnDecideGood(w) ==
    /\ job[w].step = "decide"
    /\ job' = [job EXCEPT ![w].step = "stamp",
                          ![w].mark = IF Holders(job[w].cur) # {}
                                      THEN "ASSIGNED" ELSE "AVAILABLE"]
    /\ UNCHANGED <<status, tables, condition, faults>>

\* The receiver of AssetReturn chooses the status ...
ReturnDecide(w) ==
    /\ job[w].step = "decide"
    /\ job' = [job EXCEPT ![w].step = "stamp",
                          ![w].mark = IF Holders(job[w].cur) # {}
                                      THEN "ASSIGNED"
                                      ELSE IF @ = "GOOD" THEN "AVAILABLE"
                                      ELSE @]
    /\ UNCHANGED <<status, tables, condition, faults>>

\* ... and saves it.
ReturnStamp(w) ==
    /\ job[w].step = "stamp"
    /\ status' = [status EXCEPT ![job[w].cur] = job[w].mark]
    /\ job' = [job EXCEPT ![w] =
                  IF job[w].drop = {} THEN Idle
                  ELSE [@ EXCEPT !.step = "record", !.cur = NoAsset,
                                 !.mark = "AVAILABLE"]]
    /\ UNCHANGED <<tables, condition, faults>>

\* The worker process is killed.
Crash(w) ==
    /\ w \in Busy
    /\ job' = [job EXCEPT ![w] = Idle]
    /\ faults' = faults \cup {"crash"}
    /\ UNCHANGED <<status, tables, condition>>

-----------------------------------------------------------------------------
(***************************************************************************)
(* The admin pages.                                                        *)
(***************************************************************************)

\* The add form offers free assets, but accepts any: an asset chosen may have
\* been assigned since it was offered.
AdminAdd(m, S) ==
    /\ m \notin used
    /\ S # {}
    /\ used' = used \cup {m}
    /\ live' = live \cup {m}
    /\ held' = [held EXCEPT ![m] = S]
    /\ status' = [a \in Asset |-> IF a \in S THEN "ASSIGNED" ELSE status[a]]
    /\ condition' = [a \in Asset |-> IF a \in S THEN "GOOD" ELSE condition[a]]
    /\ faults' = faults \cup Overlaps(Busy, m, S)
                    \cup (IF \A a \in S : Assignable(a) THEN {}
                          ELSE {"stale_choice"})
    /\ UNCHANGED <<returned, job>>

\* The change form checks its assets against the free ones, so that hardware
\* the assignment holds cannot be posted again and is taken from it.
AdminChange(m, S) ==
    /\ m \in live
    /\ S # {}
    /\ \A a \in S : Assignable(a)
    /\ held' = [held EXCEPT ![m] = S]
    /\ status' = [a \in Asset |->
                     IF a \in S \/ (a \in held[m] /\ Holders(a) # {m})
                     THEN "ASSIGNED" ELSE Relinked(m, S)[a]]
    /\ condition' = [a \in Asset |-> IF a \in S THEN "GOOD" ELSE condition[a]]
    /\ faults' = faults \cup Overlaps(Busy, m, S \cup held[m])
    /\ UNCHANGED <<live, used, returned, job>>

\* The same form posted without assets leaves them alone: the receiver of
\* save() marks them.
AdminResave(m) ==
    /\ m \in live
    /\ status' = [a \in Asset |-> IF a \in held[m] THEN "ASSIGNED"
                                                   ELSE status[a]]
    /\ faults' = faults \cup Overlaps(Busy, m, held[m])
    /\ UNCHANGED <<tables, condition, job>>

\* Deleting an assignment deletes its rows of the table without m2m_changed.
AdminDelete(m) ==
    /\ m \in live
    /\ live' = live \ {m}
    /\ held' = [held EXCEPT ![m] = {}]
    /\ returned' = returned \ {m}
    /\ faults' = faults \cup {"delete"} \cup Overlaps(Busy, m, held[m])
    /\ UNCHANGED <<status, used, condition, job>>

\* The bulk actions mark_as_damaged and mark_as_available; the asset's own
\* form can set any status, and these two stand for it.
StaffMark(a, s) ==
    /\ status' = [status EXCEPT ![a] = s]
    /\ condition' = [condition EXCEPT ![a] =
                        IF s = "AVAILABLE" THEN "GOOD" ELSE "DAMAGED"]
    /\ faults' = faults \cup {"staff"}
    /\ UNCHANGED <<tables, job>>

\* The command fix_asset_status: an assignment with any return record does
\* not count as active.
ActiveHolders(a) == Holders(a) \ returned

Fix(a) ==
    /\ \/ /\ ActiveHolders(a) # {} /\ status[a] = "AVAILABLE"
          /\ status' = [status EXCEPT ![a] = "ASSIGNED"]
       \/ /\ ActiveHolders(a) = {} /\ status[a] # "AVAILABLE"
          /\ status' = [status EXCEPT ![a] = "AVAILABLE"]
    /\ faults' = faults \cup {"fix"}
    /\ UNCHANGED <<tables, condition, job>>

-----------------------------------------------------------------------------
Handler(w) ==
    \/ \E m \in Assignment, S \in SUBSET Asset : CreateCheck(w, m, S)
    \/ CreateLink(w)
    \/ \E m \in Assignment, S \in SUBSET Asset : UpdateCheck(w, m, S)
    \/ UpdateTouch(w)
    \/ UpdateLink(w)
    \/ MarkRemoved(w)
    \/ MarkAdded(w)
    \/ MarkDone(w)
    \/ \E m \in Assignment : ReturnBegin(w, m)
    \/ \E c \in Condition : ReturnRecord(w, c)
    \/ ReferenceLost(w)
    \/ ReturnRemove(w)
    \/ ReturnDecide(w)
    \/ ReturnStamp(w)
    \/ Crash(w)

AdminSite ==
    \/ \E m \in Assignment, S \in SUBSET Asset : AdminAdd(m, S)
    \/ \E m \in Assignment, S \in SUBSET Asset : AdminChange(m, S)
    \/ \E m \in Assignment : AdminResave(m)
    \/ \E m \in Assignment : AdminDelete(m)
    \/ \E a \in Asset, s \in {"AVAILABLE", "DAMAGED"} : StaffMark(a, s)
    \/ \E a \in Asset : Fix(a)

Next ==
    /\ \/ \E w \in Worker : Handler(w)
       \/ AdminSite
    /\ faults' \subseteq Considered
    /\ Cardinality(faults') <= MaxFaults

Spec == Init /\ [][Next]_vars

-----------------------------------------------------------------------------
(***************************************************************************)
(* Properties.                                                             *)
(***************************************************************************)
NoFault(F) == faults \cap F = {}

\* An asset somebody holds is marked ASSIGNED, so that nobody is offered it,
\* unless handlers of the same assets run together or staff set its status.
HeldIsAssigned ==
    NoFault({"overlap", "staff", "fix"}) =>
        \A a \in Asset : Holders(a) # {} => status[a] = "ASSIGNED"

\* An asset marked ASSIGNED has a holder, so that no asset is stranded, also
\* when a handler is killed at any point.
AssignedIsHeld ==
    NoFault({"overlap", "delete", "staff", "fix"}) =>
        \A a \in Asset : status[a] = "ASSIGNED" => Holders(a) # {}

\* Hardware has one holder, if nobody was offered it too early.
OneHolder ==
    NoFault({"overlap", "stale_choice", "staff", "fix"}) =>
        \A a \in Hardware : Cardinality(Holders(a)) <= 1

\* An asset returned damaged or lost is not offered again as it is.
ConditionIsKept ==
    NoFault({"overlap", "stale_choice", "crash", "staff", "fix"}) =>
        \A a \in Hardware \ InFlight :
            status[a] = "AVAILABLE" => condition[a] = "GOOD"

\* 'Fixes asset status inconsistencies': the command does not make the status
\* of an asset disagree with the table when it agreed before and nobody is at
\* work on it.
Agrees(a) == (status[a] = "ASSIGNED") = (Holders(a) # {})

FixMakesNothingWorse ==
    [][\A a \in Asset \ InFlight : Fix(a) /\ Agrees(a) => Agrees(a)']_vars
=============================================================================
