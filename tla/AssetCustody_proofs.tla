-------------------------- MODULE AssetCustody_proofs --------------------------
(***************************************************************************)
(* For any number of assets, assignments and request handlers, and unless  *)
(* a hazard that the property names has happened: an asset somebody holds  *)
(* is marked ASSIGNED, hardware has one holder, an asset that is marked    *)
(* ASSIGNED has a holder, and hardware on offer is in good condition.      *)
(***************************************************************************)
EXTENDS AssetCustody, FiniteSetTheorems, TLAPS

-----------------------------------------------------------------------------
(***************************************************************************)
(* Types.  TypeOK is not inductive: a handler that is to save a status has *)
(* chosen one, for an asset, and works on an assignment there has been.    *)
(***************************************************************************)
Fit(j) ==
    /\ j.step # "idle" => j.m \in used
    /\ j.step \in {"remove", "decide", "stamp"} => j.cur \in Asset
    /\ j.step \in {"remove", "decide"} => j.mark \in Condition
    /\ j.step = "stamp" => j.mark \in Status

JobsFit == \A w \in Worker : Fit(job[w])

LEMMA IdleTyped ==
    /\ Idle \in Job
    /\ Idle.step = "idle" /\ Idle.m = NoAssignment
    /\ Idle.add = {} /\ Idle.drop = {} /\ Idle.keep = {} /\ Idle.mend = {}
    /\ Idle.cur = NoAsset
  BY DEF Idle, Job, Status

\* What a handler's job is after each of its steps.
LEMMA JobAfter ==
    ASSUME job \in [Worker -> Job], NEW w \in Worker, NEW j, job' = [job EXCEPT ![w] = j]
    PROVE  /\ job'[w] = j
           /\ \A v \in Worker \ {w} : job'[v] = job[v]
           /\ j \in Job => job' \in [Worker -> Job]
  OBVIOUS

LEMMA AfterCreateCheck ==
    ASSUME TypeOK, NEW w \in Worker, NEW m \in Assignment, NEW S \in SUBSET Asset,
           CreateCheck(w, m, S)
    PROVE  /\ job'[w] \in Job
           /\ job'[w].step = "link" /\ job'[w].m = m
           /\ job'[w].add = S /\ job'[w].drop = {} /\ job'[w].cur = NoAsset
           /\ \A v \in Worker \ {w} : job'[v] = job[v]
           /\ job' \in [Worker -> Job]
<1> DEFINE j == [Idle EXCEPT !.step = "link", !.m = m, !.add = S]
<1>1. /\ j \in Job /\ j.step = "link" /\ j.m = m
      /\ j.add = S /\ j.drop = {} /\ j.cur = NoAsset
  BY DEF Job, Idle, Status
<1>2. job' = [job EXCEPT ![w] = j]
  BY DEF CreateCheck
<1> HIDE DEF j
<1> QED
  BY <1>1, <1>2, JobAfter DEF TypeOK

LEMMA AfterUpdateCheck ==
    ASSUME TypeOK, NEW w \in Worker, NEW m \in Assignment, NEW S \in SUBSET Asset,
           UpdateCheck(w, m, S)
    PROVE  /\ job'[w] \in Job
           /\ job'[w].step = "touch" /\ job'[w].m = m
           /\ job'[w].add = S \ held[m] /\ job'[w].drop = held[m] \ S
           /\ job'[w].keep = held[m] \cap S /\ job'[w].cur = NoAsset
           /\ job'[w].mend \subseteq held[m]
           /\ \A v \in Worker \ {w} : job'[v] = job[v]
           /\ job' \in [Worker -> Job]
<1> DEFINE j == [Idle EXCEPT !.step = "touch", !.m = m, !.add = S \ held[m],
                             !.drop = held[m] \ S, !.keep = held[m] \cap S,
                             !.mend = {a \in held[m] : status[a] # "ASSIGNED"}]
<1>1. held[m] \subseteq Asset
  BY DEF TypeOK
<1>2. /\ j \in Job /\ j.step = "touch" /\ j.m = m
      /\ j.add = S \ held[m] /\ j.drop = held[m] \ S
      /\ j.keep = held[m] \cap S /\ j.cur = NoAsset /\ j.mend \subseteq held[m]
  BY <1>1 DEF Job, Idle, Status
<1>3. job' = [job EXCEPT ![w] = j]
  BY DEF UpdateCheck
<1> HIDE DEF j
<1> QED
  BY <1>2, <1>3, JobAfter DEF TypeOK

LEMMA AfterReturnBegin ==
    ASSUME TypeOK, NEW w \in Worker, NEW m \in Assignment, ReturnBegin(w, m)
    PROVE  /\ job'[w] \in Job
           /\ job'[w].step = "record" /\ job'[w].m = m
           /\ job'[w].add = {} /\ job'[w].drop = held[m] /\ job'[w].cur = NoAsset
           /\ \A v \in Worker \ {w} : job'[v] = job[v]
           /\ job' \in [Worker -> Job]
<1> DEFINE j == [Idle EXCEPT !.step = "record", !.m = m, !.drop = held[m]]
<1>1. held[m] \subseteq Asset
  BY DEF TypeOK
<1>2. /\ j \in Job /\ j.step = "record" /\ j.m = m
      /\ j.add = {} /\ j.drop = held[m] /\ j.cur = NoAsset
  BY <1>1 DEF Job, Idle, Status
<1>3. job' = [job EXCEPT ![w] = j]
  BY DEF ReturnBegin
<1> HIDE DEF j
<1> QED
  BY <1>2, <1>3, JobAfter DEF TypeOK

\* The others keep their jobs, and w has job j.
Others(w) == /\ job' \in [Worker -> Job]
             /\ \A v \in Worker \ {w} : job'[v] = job[v]

LEMMA AfterCreateLink ==
    ASSUME TypeOK, NEW w \in Worker, CreateLink(w)
    PROVE  /\ Others(w)
           /\ job'[w].step = "mark" /\ job'[w].m = job[w].m
           /\ job'[w].add = job[w].add /\ job'[w].drop = job[w].drop
           /\ job'[w].cur = job[w].cur
  BY DEF CreateLink, TypeOK, Job, Others

LEMMA AfterUpdateTouch ==
    ASSUME TypeOK, NEW w \in Worker, UpdateTouch(w)
    PROVE  /\ Others(w)
           /\ job'[w].step = "relink" /\ job'[w].m = job[w].m
           /\ job'[w].add = job[w].add /\ job'[w].drop = job[w].drop
           /\ job'[w].keep = job[w].keep /\ job'[w].cur = job[w].cur
<1> DEFINE j == [job[w] EXCEPT !.step = "relink", !.mend = {}]
<1>1. /\ j \in Job /\ j.step = "relink" /\ j.m = job[w].m /\ j.add = job[w].add
      /\ j.drop = job[w].drop /\ j.keep = job[w].keep /\ j.cur = job[w].cur
  BY DEF TypeOK, Job
<1>2. job' = [job EXCEPT ![w] = j]
  BY DEF UpdateTouch, TypeOK, Job
<1> HIDE DEF j
<1> QED
  BY <1>1, <1>2, JobAfter DEF TypeOK, Others

LEMMA AfterUpdateLink ==
    ASSUME TypeOK, NEW w \in Worker, UpdateLink(w)
    PROVE  /\ Others(w)
           /\ job'[w].step = "mark" /\ job'[w].m = job[w].m
           /\ job'[w].add = job[w].add /\ job'[w].drop = job[w].drop
           /\ job'[w].cur = job[w].cur
<1> DEFINE j == [job[w] EXCEPT !.step = "mark", !.keep = {}]
<1>1. /\ j \in Job /\ j.step = "mark" /\ j.m = job[w].m
      /\ j.add = job[w].add /\ j.drop = job[w].drop /\ j.cur = job[w].cur
  BY DEF TypeOK, Job
<1>2. job' = [job EXCEPT ![w] = j]
  BY DEF UpdateLink, TypeOK, Job
<1> HIDE DEF j
<1> QED
  BY <1>1, <1>2, JobAfter DEF TypeOK, Others

LEMMA AfterMarkRemoved ==
    ASSUME TypeOK, NEW w \in Worker, MarkRemoved(w)
    PROVE  /\ Others(w)
           /\ job'[w].step = "mark" /\ job'[w].m = job[w].m
           /\ job'[w].add = job[w].add /\ job'[w].drop \subseteq job[w].drop
           /\ job'[w].cur = job[w].cur
           /\ \E a \in job[w].drop :
                 status' = IF Holders(a) \ {job[w].m} = {}
                           THEN [status EXCEPT ![a] = "AVAILABLE"] ELSE status
<1>1. PICK a \in job[w].drop :
           /\ status' = IF Holders(a) \ {job[w].m} = {}
                        THEN [status EXCEPT ![a] = "AVAILABLE"] ELSE status
           /\ job' = [job EXCEPT ![w].drop = @ \ {a}]
  BY DEF MarkRemoved
<1> DEFINE j == [job[w] EXCEPT !.drop = @ \ {a}]
<1>2. /\ j \in Job /\ j.step = "mark" /\ j.m = job[w].m
      /\ j.add = job[w].add /\ j.drop \subseteq job[w].drop /\ j.cur = job[w].cur
  BY DEF MarkRemoved, TypeOK, Job
<1>3. job' = [job EXCEPT ![w] = j]
  BY <1>1
<1> HIDE DEF j
<1>4. Others(w) /\ job'[w] = j
  BY <1>2, <1>3, JobAfter DEF TypeOK, Others
<1> QED
  BY <1>1, <1>2, <1>4

LEMMA AfterMarkAdded ==
    ASSUME TypeOK, NEW w \in Worker, MarkAdded(w)
    PROVE  /\ Others(w)
           /\ job'[w].step = "mark" /\ job'[w].m = job[w].m
           /\ job'[w].add \subseteq job[w].add /\ job'[w].drop = job[w].drop
           /\ job'[w].cur = job[w].cur
           /\ \E a \in job[w].add : status' = [status EXCEPT ![a] = "ASSIGNED"]
<1>1. PICK a \in job[w].add :
           /\ status' = [status EXCEPT ![a] = "ASSIGNED"]
           /\ job' = [job EXCEPT ![w].add = @ \ {a}]
  BY DEF MarkAdded
<1> DEFINE j == [job[w] EXCEPT !.add = @ \ {a}]
<1>2. /\ j \in Job /\ j.step = "mark" /\ j.m = job[w].m
      /\ j.add \subseteq job[w].add /\ j.drop = job[w].drop /\ j.cur = job[w].cur
  BY DEF MarkAdded, TypeOK, Job
<1>3. job' = [job EXCEPT ![w] = j]
  BY <1>1
<1> HIDE DEF j
<1>4. Others(w) /\ job'[w] = j
  BY <1>2, <1>3, JobAfter DEF TypeOK, Others
<1> QED
  BY <1>1, <1>2, <1>4

LEMMA AfterReturnRecord ==
    ASSUME TypeOK, NEW w \in Worker, NEW c \in Condition, ReturnRecord(w, c)
    PROVE  /\ Others(w)
           /\ job'[w].step = "remove" /\ job'[w].m = job[w].m
           /\ job'[w].add = job[w].add
           /\ job'[w].drop = job[w].drop \ {job'[w].cur}
           /\ job'[w].cur \in job[w].drop /\ job'[w].mark = c
  BY DEF ReturnRecord, TypeOK, Job, Others

LEMMA AfterReturnRemove ==
    ASSUME TypeOK, NEW w \in Worker, ReturnRemove(w)
    PROVE  /\ Others(w)
           /\ job'[w].step = "decide" /\ job'[w].m = job[w].m
           /\ job'[w].add = job[w].add /\ job'[w].drop = job[w].drop
           /\ job'[w].cur = job[w].cur /\ job'[w].mark = job[w].mark
  BY DEF ReturnRemove, TypeOK, Job, Others

LEMMA AfterReturnDecide ==
    ASSUME TypeOK, JobsFit, NEW w \in Worker, ReturnDecide(w)
    PROVE  /\ Others(w)
           /\ job'[w].step = "stamp" /\ job'[w].m = job[w].m
           /\ job'[w].add = job[w].add /\ job'[w].drop = job[w].drop
           /\ job'[w].cur = job[w].cur /\ job'[w].mark \in Status
           /\ job'[w].mark = "ASSIGNED" <=> Holders(job[w].cur) # {}
           /\ job'[w].mark = "AVAILABLE" => job[w].mark = "GOOD"
<1> DEFINE k == IF Holders(job[w].cur) # {} THEN "ASSIGNED"
                ELSE IF job[w].mark = "GOOD" THEN "AVAILABLE" ELSE job[w].mark
           j == [job[w] EXCEPT !.step = "stamp", !.mark = k]
<1>1. job[w] \in Job /\ job[w].mark \in Condition
  BY DEF ReturnDecide, TypeOK, JobsFit, Fit
<1>2. /\ k \in Status
      /\ k = "ASSIGNED" <=> Holders(job[w].cur) # {}
      /\ k = "AVAILABLE" => job[w].mark = "GOOD"
  BY <1>1 DEF Status, Condition
<1>3. job' = [job EXCEPT ![w] = j]
  BY DEF ReturnDecide, TypeOK
<1> HIDE DEF k
<1>4. /\ j \in Job /\ j.step = "stamp" /\ j.mark = k /\ j.m = job[w].m
      /\ j.add = job[w].add /\ j.drop = job[w].drop /\ j.cur = job[w].cur
  BY <1>1, <1>2 DEF Job
<1> HIDE DEF j
<1> QED
  BY <1>2, <1>3, <1>4, JobAfter DEF TypeOK, Others

LEMMA AfterReturnStamp ==
    ASSUME TypeOK, NEW w \in Worker, ReturnStamp(w)
    PROVE  /\ Others(w)
           /\ \/ job'[w] = Idle
              \/ /\ job'[w].step = "record" /\ job'[w].m = job[w].m
                 /\ job'[w].add = job[w].add /\ job'[w].drop = job[w].drop
                 /\ job'[w].cur = NoAsset
<1> DEFINE j == [job[w] EXCEPT !.step = "record", !.cur = NoAsset, !.mark = "AVAILABLE"]
           i == IF job[w].drop = {} THEN Idle ELSE j
<1>1. /\ j \in Job /\ j.step = "record" /\ j.m = job[w].m /\ j.add = job[w].add
      /\ j.drop = job[w].drop /\ j.cur = NoAsset
  BY DEF TypeOK, Job, Status
<1>2. job' = [job EXCEPT ![w] = i]
  BY DEF ReturnStamp
<1> HIDE DEF j
<1>3. i \in Job /\ (i = Idle \/ i = j)
  BY <1>1, IdleTyped
<1> HIDE DEF i
<1> QED
  BY <1>1, <1>2, <1>3, JobAfter DEF TypeOK, Others

LEMMA AfterTheEnd ==
    ASSUME TypeOK, NEW w \in Worker, MarkDone(w) \/ ReferenceLost(w) \/ Crash(w)
    PROVE  Others(w) /\ job'[w] = Idle
  BY IdleTyped DEF MarkDone, ReferenceLost, Crash, TypeOK, Others

LEMMA OverlapsTyped ==
    ASSUME NEW V, NEW m, NEW S
    PROVE  /\ Overlaps(V, m, S) \subseteq {"overlap"}
           /\ Overlaps(V, m, S) \subseteq Fault
  BY DEF Overlaps, Fault

LEMMA SetAssetsTyped ==
    ASSUME TypeOK, NEW m \in Assignment, NEW S \in SUBSET Asset, SetAssets(m, S)
    PROVE  /\ held' \in [Assignment -> SUBSET Asset]
           /\ held'[m] = S
           /\ \A n \in Assignment \ {m} : held'[n] = held[n]
           /\ status' \in [Asset -> Status]
           /\ condition' \in [Asset -> Condition]
  BY DEF SetAssets, Relinked, TypeOK, Status, Condition

Typed == TypeOK /\ JobsFit

LEMMA FitStays ==
    ASSUME JobsFit, used \subseteq used', NEW w \in Worker,
           \A v \in Worker \ {w} : job'[v] = job[v], Fit(job[w])'
    PROVE  JobsFit'
  BY DEF JobsFit, Fit

LEMMA StepTyped == Typed /\ [Next]_vars => Typed'
<1> SUFFICES ASSUME TypeOK, JobsFit, [Next]_vars
             PROVE  TypeOK' /\ JobsFit'
  BY DEF Typed
<1> USE OverlapsTyped
<1>1. ASSUME NEW w \in Worker, NEW m \in Assignment, NEW S \in SUBSET Asset,
             CreateCheck(w, m, S)
      PROVE  TypeOK' /\ JobsFit'
  <2>1. used' = used \cup {m} /\ UNCHANGED <<status, held, live, returned, condition>>
        /\ faults' = faults \cup Overlaps(Busy \ {w}, m, S)
    BY <1>1 DEF CreateCheck
  <2>2. Fit(job[w])'
    BY <1>1, <2>1, AfterCreateCheck DEF Fit
  <2> QED
    BY <1>1, <2>1, <2>2, AfterCreateCheck, FitStays DEF TypeOK
<1>2. ASSUME NEW w \in Worker, CreateLink(w)
      PROVE  TypeOK' /\ JobsFit'
  <2>1. /\ live' = live \cup {job[w].m} /\ UNCHANGED <<used, returned, faults>>
        /\ SetAssets(job[w].m, job[w].add) /\ job[w].m \in used
    BY <1>2 DEF CreateLink, JobsFit, Fit
  <2>2. job[w].m \in Assignment /\ job[w].add \subseteq Asset
    BY <2>1 DEF TypeOK, Job
  <2>3. Fit(job[w])'
    BY <1>2, <2>1, AfterCreateLink DEF Fit
  <2> QED
    BY <1>2, <2>1, <2>2, <2>3, AfterCreateLink, FitStays, SetAssetsTyped
       DEF TypeOK, Others
<1>3. ASSUME NEW w \in Worker, NEW m \in Assignment, NEW S \in SUBSET Asset,
             UpdateCheck(w, m, S)
      PROVE  TypeOK' /\ JobsFit'
  <2>1. UNCHANGED <<status, held, live, used, returned, condition>> /\ m \in used
        /\ faults' = faults \cup Overlaps(Busy \ {w}, m, S \cup held[m])
    BY <1>3 DEF UpdateCheck, tables, TypeOK
  <2>2. Fit(job[w])'
    BY <1>3, <2>1, AfterUpdateCheck DEF Fit
  <2> QED
    BY <1>3, <2>1, <2>2, AfterUpdateCheck, FitStays DEF TypeOK
<1>4. ASSUME NEW w \in Worker, UpdateTouch(w)
      PROVE  TypeOK' /\ JobsFit'
  <2>1. /\ live' = live \cup {job[w].m} /\ UNCHANGED <<held, used, returned, condition, faults>>
        /\ status' = [a \in Asset |-> IF a \in job[w].mend THEN "ASSIGNED" ELSE status[a]]
        /\ job[w].m \in used
    BY <1>4 DEF UpdateTouch, JobsFit, Fit
  <2>2. Fit(job[w])'
    BY <1>4, <2>1, AfterUpdateTouch DEF Fit
  <2>3. status' \in [Asset -> Status]
    BY <2>1 DEF TypeOK, Status
  <2> QED
    BY <1>4, <2>1, <2>2, <2>3, AfterUpdateTouch, FitStays DEF TypeOK, Others
<1>5. ASSUME NEW w \in Worker, UpdateLink(w)
      PROVE  TypeOK' /\ JobsFit'
  <2>1. /\ UNCHANGED <<live, used, returned, faults>> /\ job[w].m \in used
        /\ SetAssets(job[w].m, job[w].keep \cup job[w].add)
    BY <1>5 DEF UpdateLink, JobsFit, Fit
  <2>2. job[w].m \in Assignment /\ job[w].keep \cup job[w].add \subseteq Asset
    BY <2>1 DEF TypeOK, Job
  <2>3. Fit(job[w])'
    BY <1>5, <2>1, AfterUpdateLink DEF Fit
  <2> QED
    BY <1>5, <2>1, <2>2, <2>3, AfterUpdateLink, FitStays, SetAssetsTyped
       DEF TypeOK, Others
<1>6. ASSUME NEW w \in Worker, MarkRemoved(w)
      PROVE  TypeOK' /\ JobsFit'
  <2>1. UNCHANGED <<held, live, used, returned, condition, faults>> /\ job[w].m \in used
    BY <1>6 DEF MarkRemoved, tables, JobsFit, Fit
  <2>2. Fit(job[w])'
    BY <1>6, <2>1, AfterMarkRemoved DEF Fit
  <2>3. status' \in [Asset -> Status]
    BY <1>6, AfterMarkRemoved DEF TypeOK, Status
  <2> QED
    BY <1>6, <2>1, <2>2, <2>3, AfterMarkRemoved, FitStays DEF TypeOK, Others
<1>7. ASSUME NEW w \in Worker, MarkAdded(w)
      PROVE  TypeOK' /\ JobsFit'
  <2>1. UNCHANGED <<held, live, used, returned, condition, faults>> /\ job[w].m \in used
    BY <1>7 DEF MarkAdded, tables, JobsFit, Fit
  <2>2. Fit(job[w])'
    BY <1>7, <2>1, AfterMarkAdded DEF Fit
  <2>3. status' \in [Asset -> Status]
    BY <1>7, AfterMarkAdded DEF TypeOK, Status
  <2> QED
    BY <1>7, <2>1, <2>2, <2>3, AfterMarkAdded, FitStays DEF TypeOK, Others
<1>8. ASSUME NEW w \in Worker, MarkDone(w) \/ ReferenceLost(w) \/ Crash(w)
      PROVE  TypeOK' /\ JobsFit'
  <2>1. UNCHANGED <<status, held, live, used, returned, condition>>
        /\ faults' \subseteq faults \cup {"crash"}
    BY <1>8 DEF MarkDone, ReferenceLost, Crash, tables
  <2>2. Fit(job[w])'
    BY <1>8, AfterTheEnd, IdleTyped DEF Fit
  <2> QED
    BY <1>8, <2>1, <2>2, AfterTheEnd, FitStays DEF TypeOK, Others, Fault
<1>9. ASSUME NEW w \in Worker, NEW m \in Assignment, ReturnBegin(w, m)
      PROVE  TypeOK' /\ JobsFit'
  <2>1. UNCHANGED <<status, held, live, used, returned, condition>> /\ m \in used
        /\ faults' = faults \cup Overlaps(Busy \ {w}, m, held[m])
    BY <1>9 DEF ReturnBegin, tables, TypeOK
  <2>2. Fit(job[w])'
    BY <1>9, <2>1, AfterReturnBegin DEF Fit
  <2> QED
    BY <1>9, <2>1, <2>2, AfterReturnBegin, FitStays DEF TypeOK
<1>10. ASSUME NEW w \in Worker, NEW c \in Condition, ReturnRecord(w, c)
       PROVE  TypeOK' /\ JobsFit'
  <2>1. /\ UNCHANGED <<status, held, live, used, condition, faults>>
        /\ job[w].m \in live /\ returned' = returned \cup {job[w].m}
    BY <1>10 DEF ReturnRecord
  <2>2. job[w].m \in used /\ job[w].drop \subseteq Asset
    BY <2>1 DEF TypeOK, Job
  <2>3. Fit(job[w])'
    BY <1>10, <2>1, <2>2, AfterReturnRecord DEF Fit
  <2> QED
    BY <1>10, <2>1, <2>3, AfterReturnRecord, FitStays DEF TypeOK, Others
<1>11. ASSUME NEW w \in Worker, ReturnRemove(w)
       PROVE  TypeOK' /\ JobsFit'
  <2>1. /\ UNCHANGED <<live, used, returned, faults>>
        /\ held' = [held EXCEPT ![job[w].m] = @ \ {job[w].cur}]
        /\ condition' = [condition EXCEPT ![job[w].cur] = job[w].mark]
        /\ \/ status' = [status EXCEPT ![job[w].cur] = "AVAILABLE"]
           \/ status' = status
    BY <1>11 DEF ReturnRemove
  <2>2. job[w].m \in used /\ job[w].cur \in Asset /\ job[w].mark \in Condition
    BY <1>11 DEF ReturnRemove, JobsFit, Fit
  <2>3. Fit(job[w])'
    BY <1>11, <2>1, <2>2, AfterReturnRemove DEF Fit
  <2>4. status' \in [Asset -> Status] /\ condition' \in [Asset -> Condition]
        /\ held' \in [Assignment -> SUBSET Asset]
    BY <2>1, <2>2 DEF TypeOK, Status
  <2> QED
    BY <1>11, <2>1, <2>3, <2>4, AfterReturnRemove, FitStays DEF TypeOK, Others
<1>12. ASSUME NEW w \in Worker, ReturnDecide(w)
       PROVE  TypeOK' /\ JobsFit'
  <2>1. UNCHANGED <<status, held, live, used, returned, condition, faults>>
    BY <1>12 DEF ReturnDecide, tables
  <2>2. job[w].m \in used /\ job[w].cur \in Asset
    BY <1>12 DEF ReturnDecide, JobsFit, Fit
  <2>3. Fit(job[w])'
    BY <1>12, <2>1, <2>2, AfterReturnDecide DEF Fit
  <2> QED
    BY <1>12, <2>1, <2>3, AfterReturnDecide, FitStays DEF TypeOK, Others
<1>13. ASSUME NEW w \in Worker, ReturnStamp(w)
       PROVE  TypeOK' /\ JobsFit'
  <2>1. /\ UNCHANGED <<held, live, used, returned, condition, faults>>
        /\ status' = [status EXCEPT ![job[w].cur] = job[w].mark]
    BY <1>13 DEF ReturnStamp, tables
  <2>2. job[w].m \in used /\ job[w].mark \in Status
    BY <1>13 DEF ReturnStamp, JobsFit, Fit
  <2>3. Fit(job[w])'
    BY <1>13, <2>1, <2>2, AfterReturnStamp, IdleTyped DEF Fit
  <2>4. status' \in [Asset -> Status]
    BY <2>1, <2>2 DEF TypeOK
  <2> QED
    BY <1>13, <2>1, <2>3, <2>4, AfterReturnStamp, FitStays DEF TypeOK, Others
<1>14. ASSUME AdminSite
       PROVE  TypeOK' /\ JobsFit'
  <2>1. job' = job /\ used \subseteq used'
    BY <1>14 DEF AdminSite, AdminAdd, AdminChange, AdminResave, AdminDelete, StaffMark,
                 Fix, tables
  <2>2. JobsFit'
    BY <2>1 DEF JobsFit, Fit
  <2>3. ASSUME NEW m \in Assignment, NEW S \in SUBSET Asset, AdminAdd(m, S)
        PROVE  TypeOK'
    BY <2>3 DEF AdminAdd, TypeOK, Status, Condition, Fault
  <2>4. ASSUME NEW m \in Assignment, NEW S \in SUBSET Asset, AdminChange(m, S)
        PROVE  TypeOK'
    BY <2>4 DEF AdminChange, TypeOK, Status, Condition, Relinked
  <2>5. ASSUME NEW m \in Assignment, AdminResave(m)
        PROVE  TypeOK'
    BY <2>5 DEF AdminResave, tables, TypeOK, Status
  <2>6. ASSUME NEW m \in Assignment, AdminDelete(m)
        PROVE  TypeOK'
    BY <2>6 DEF AdminDelete, TypeOK, Fault
  <2>7. ASSUME NEW a \in Asset, NEW s \in {"AVAILABLE", "DAMAGED"}, StaffMark(a, s)
        PROVE  TypeOK'
    BY <2>7 DEF StaffMark, tables, TypeOK, Status, Condition, Fault
  <2>8. ASSUME NEW a \in Asset, Fix(a)
        PROVE  TypeOK'
    BY <2>8 DEF Fix, tables, TypeOK, Status, Fault
  <2> QED
    BY <1>14, <2>2, <2>3, <2>4, <2>5, <2>6, <2>7, <2>8 DEF AdminSite
<1>15. CASE UNCHANGED vars
  BY <1>15 DEF vars, tables, TypeOK, JobsFit, Fit
<1> QED
  BY <1>1, <1>2, <1>3, <1>4, <1>5, <1>6, <1>7, <1>8, <1>9, <1>10, <1>11, <1>12,
     <1>13, <1>14, <1>15 DEF Next, Handler

LEMMA TypedAlways == Spec => []Typed
<1>1. Init => Typed
  BY IdleTyped DEF Init, Typed, TypeOK, JobsFit, Fit, Status, Condition
<1> QED
  BY <1>1, StepTyped, PTL DEF Spec

\* Type correctness; the status a handler saves is a status, never the raw
\* condition an asset was returned in.
THEOREM TypeCorrect == Spec => []TypeOK
<1>1. Typed => TypeOK
  BY DEF Typed
<1> QED
  BY <1>1, TypedAlways, PTL

-----------------------------------------------------------------------------
(***************************************************************************)
(* Custody.  As long as no two handlers work on the same assignment or the *)
(* same asset, what each has read of the tables stays so until it writes:  *)
(* the assets it is to add have no holder, those it has dropped are not in *)
(* its assignment, and the one it stamps as free is free.  Then HeldAssets *)
(* holds for the assets in hand, too.                                      *)
(***************************************************************************)
HeldAssets ==
    \A a \in Asset, m \in Assignment : a \in held[m] => status[a] = "ASSIGNED"

OneEach ==
    \A a \in Hardware, m, n \in Assignment : a \in held[m] /\ a \in held[n] => m = n

Apart ==
    \A v, w \in Worker :
        v # w /\ job[v].step # "idle" /\ job[w].step # "idle"
            => job[v].m # job[w].m /\ InHand(v) \cap InHand(w) = {}

\* What handler w has read.
Read(w) ==
    LET j == job[w]
    IN  /\ j.step = "link" => j.drop = {}
        /\ j.step \in {"touch", "relink"} =>
              j.keep \subseteq held[j.m] /\ j.drop \cap (j.keep \cup j.add) = {}
        /\ j.step \in {"link", "touch", "relink"} =>
              \A a \in j.add \cap Hardware, n \in Assignment : a \notin held[n]
        /\ j.step = "mark" => j.drop \cap held[j.m] = {}
        /\ j.step = "stamp" /\ j.mark # "ASSIGNED" =>
              \A n \in Assignment : j.cur \notin held[n]

Reads == \A w \in Worker : Read(w)

Custody ==
    /\ NoFault({"overlap", "staff", "fix"}) => HeldAssets /\ Apart /\ Reads
    /\ NoFault({"overlap", "stale_choice", "staff", "fix"}) => OneEach

LEMMA FaultsStay == [Next]_vars => faults \subseteq faults'
<1>1. \A w, m, S : CreateCheck(w, m, S) \/ UpdateCheck(w, m, S) => faults \subseteq faults'
  BY DEF CreateCheck, UpdateCheck
<1>2. \A w, m : ReturnBegin(w, m) => faults \subseteq faults'
  BY DEF ReturnBegin
<1>3. \A w : CreateLink(w) \/ UpdateTouch(w) \/ UpdateLink(w) \/ MarkRemoved(w)
                \/ MarkAdded(w) \/ MarkDone(w) \/ ReferenceLost(w) \/ ReturnRemove(w)
                \/ ReturnDecide(w) \/ ReturnStamp(w) \/ Crash(w)
             => faults \subseteq faults'
  BY DEF CreateLink, UpdateTouch, UpdateLink, MarkRemoved, MarkAdded, MarkDone,
         ReferenceLost, ReturnRemove, ReturnDecide, ReturnStamp, Crash
<1>4. \A w, c : ReturnRecord(w, c) => faults \subseteq faults'
  BY DEF ReturnRecord
<1>5. AdminSite => faults \subseteq faults'
  BY DEF AdminSite, AdminAdd, AdminChange, AdminResave, AdminDelete, StaffMark, Fix
<1>6. UNCHANGED vars => faults \subseteq faults'
  BY DEF vars
<1> QED
  BY <1>1, <1>2, <1>3, <1>4, <1>5, <1>6 DEF Next, Handler

\* Who works on assignment m or on assets of S when a step meets no one there.
LEMMA MeetsNobody ==
    ASSUME NEW V, NEW m, NEW S, Overlaps(V, m, S) \subseteq faults', "overlap" \notin faults'
    PROVE  \A v \in V : job[v].m # m /\ InHand(v) \cap S = {}
  BY DEF Overlaps

LEMMA ApartStays ==
    ASSUME Apart, NEW w \in Worker, \A v \in Worker \ {w} : job'[v] = job[v],
           \/ job'[w].step = "idle"
           \/ /\ job[w].step # "idle" /\ job'[w].m = job[w].m
              /\ InHand(w)' \subseteq InHand(w)
    PROVE  Apart'
<1>1. \A v \in Worker \ {w} : InHand(v)' = InHand(v)
  BY DEF InHand
<1> QED
  BY <1>1 DEF Apart

LEMMA ApartBegins ==
    ASSUME Apart, NEW w \in Worker, \A v \in Worker \ {w} : job'[v] = job[v],
           NEW T, InHand(w)' \subseteq T,
           \A v \in Busy \ {w} : job[v].m # job'[w].m /\ InHand(v) \cap T = {}
    PROVE  Apart'
<1>1. \A v \in Worker \ {w} : InHand(v)' = InHand(v)
  BY DEF InHand
<1> QED
  BY <1>1 DEF Apart, Busy

\* Handler v is not concerned when held[m] becomes S.
LEMMA ReadStays ==
    ASSUME TypeOK, JobsFit, NEW v \in Worker, Read(v), job'[v] = job[v],
           NEW m \in Assignment, NEW S,
           held'[m] = S, \A n \in Assignment \ {m} : held'[n] = held[n],
           job[v].step # "idle" => job[v].m # m /\ InHand(v) \cap (S \ held[m]) = {}
    PROVE  Read(v)'
<1>1. CASE job[v].step = "idle"
  BY <1>1 DEF Read
<1>2. CASE job[v].step # "idle"
  <2>1. /\ job[v].m \in Assignment /\ job[v].m # m
        /\ held'[job[v].m] = held[job[v].m]
    BY <1>2 DEF JobsFit, Fit, TypeOK
  <2>2. /\ job[v].add \cap (S \ held[m]) = {}
        /\ job[v].step = "stamp" => job[v].cur \notin S \ held[m]
    <3>1. job[v].step = "stamp" => job[v].cur \in Asset
      BY DEF JobsFit, Fit
    <3> QED
      BY <1>2, <3>1, NoAssetAssumption DEF InHand
  <2>3. \A a, n \in Assignment : a \in held'[n] /\ a \notin held[n] => n = m /\ a \in S \ held[m]
    OBVIOUS
  <2> QED
    BY <2>1, <2>2, <2>3 DEF Read
<1> QED
  BY <1>1, <1>2

\* Nor when no assignment changes.
LEMMA ReadKept ==
    ASSUME NEW v, Read(v), job'[v] = job[v], held' = held
    PROVE  Read(v)'
  BY DEF Read

\* The receivers leave every held asset ASSIGNED.
LEMMA SetAssetsHeld ==
    ASSUME TypeOK, HeldAssets, NEW m \in Assignment, NEW S \in SUBSET Asset,
           SetAssets(m, S)
    PROVE  HeldAssets'
<1> SUFFICES ASSUME NEW a \in Asset, NEW n \in Assignment, a \in held'[n]
             PROVE  status'[a] = "ASSIGNED"
  BY DEF HeldAssets
<1>1. status'[a] = IF a \in S \ held[m] THEN "ASSIGNED"
                   ELSE IF a \in held[m] \ S /\ Holders(a) \ {m} = {} THEN "AVAILABLE"
                   ELSE status[a]
  BY DEF SetAssets, Relinked
<1>2. CASE n = m
  BY <1>1, <1>2, SetAssetsTyped DEF HeldAssets
<1>3. CASE n # m
  <2>1. a \in held[n] /\ n \in Holders(a) \ {m}
    BY <1>3, SetAssetsTyped DEF Holders
  <2> QED
    BY <1>1, <2>1 DEF HeldAssets
<1> QED
  BY <1>2, <1>3

\* A free asset that is put on an assignment has one holder.
LEMMA OneEachStays ==
    ASSUME OneEach, NEW m \in Assignment, NEW S,
           held'[m] = S, \A n \in Assignment \ {m} : held'[n] = held[n],
           \A a \in Hardware \cap (S \ held[m]), n \in Assignment : a \notin held[n]
    PROVE  OneEach'
<1>1. \A a \in Hardware, n \in Assignment \ {m} : a \in held'[n] /\ a \in held'[m] => n = m
  BY DEF OneEach
<1> QED
  BY <1>1 DEF OneEach

\* The serializer's check finds free hardware.
LEMMA AssignableIsFree ==
    ASSUME TypeOK, HeldAssets, NEW a \in Hardware, Assignable(a)
    PROVE  \A n \in Assignment : a \notin held[n]
  BY KindAssumption DEF HeldAssets, Assignable, Asset

\* The table as it is after one assignment's set of assets changes.
LEMMA TableAfter ==
    ASSUME TypeOK, NEW m \in Assignment, NEW S, held' = [held EXCEPT ![m] = S]
    PROVE  held'[m] = S /\ \A n \in Assignment \ {m} : held'[n] = held[n]
  BY DEF TypeOK

\* A handler's step that leaves the table alone.
LEMMA QuietStep ==
    ASSUME Apart, Reads, NEW w \in Worker, Others(w), held' = held, Read(w)',
           \/ job'[w].step = "idle"
           \/ /\ job[w].step # "idle" /\ job'[w].m = job[w].m
              /\ InHand(w)' \subseteq InHand(w)
    PROVE  Apart' /\ Reads'
<1>1. Apart'
  BY ApartStays DEF Others
<1>2. ASSUME NEW v \in Worker \ {w}
      PROVE  Read(v)'
  BY ReadKept DEF Others, Reads
<1> QED
  BY <1>1, <1>2 DEF Reads

\* A handler's step that changes what its assignment holds, by assets in hand.
LEMMA TableStep ==
    ASSUME TypeOK, JobsFit, Apart, Reads, NEW w \in Worker, Others(w), Read(w)',
           NEW S, held' = [held EXCEPT ![job[w].m] = S],
           S \ held[job[w].m] \subseteq InHand(w),
           job[w].step # "idle", job'[w].m = job[w].m,
           InHand(w)' \subseteq InHand(w)
    PROVE  Apart' /\ Reads'
<1>1. Apart'
  BY ApartStays DEF Others
<1>2. job[w].m \in Assignment
  BY DEF JobsFit, Fit, TypeOK
<1>3. ASSUME NEW v \in Worker \ {w}
      PROVE  Read(v)'
  <2>1. job[v].step # "idle" =>
           job[v].m # job[w].m /\ InHand(v) \cap (S \ held[job[w].m]) = {}
    BY DEF Apart
  <2>2. Read(v) /\ job'[v] = job[v]
    BY DEF Reads, Others
  <2> QED
    BY <1>2, <2>1, <2>2, TableAfter, ReadStays
<1> QED
  BY <1>1, <1>3 DEF Reads

\* A handler begins: it meets no one on what it takes in hand.
LEMMA BeginStep ==
    ASSUME TypeOK, Apart, Reads, NEW w \in Worker, Others(w), held' = held, Read(w)',
           NEW T, InHand(w)' \subseteq T,
           Overlaps(Busy \ {w}, job'[w].m, T) \subseteq faults', "overlap" \notin faults'
    PROVE  Apart' /\ Reads'
<1>1. \A v \in Busy \ {w} : job[v].m # job'[w].m /\ InHand(v) \cap T = {}
  BY MeetsNobody
<1>2. Apart'
  BY <1>1, ApartBegins DEF Others
<1>3. ASSUME NEW v \in Worker \ {w}
      PROVE  Read(v)'
  BY ReadKept DEF Others, Reads
<1> QED
  BY <1>2, <1>3 DEF Reads

LEMMA HandlerStep ==
    ASSUME TypeOK, JobsFit, HeldAssets, Apart, Reads, NEW w \in Worker, Handler(w),
           "overlap" \notin faults'
    PROVE  HeldAssets' /\ Apart' /\ Reads'
<1>0. Read(w)
  BY DEF Reads
<1>1. ASSUME NEW m \in Assignment, NEW S \in SUBSET Asset, CreateCheck(w, m, S)
      PROVE  HeldAssets' /\ Apart' /\ Reads'
  <2>1. /\ job'[w].step = "link" /\ job'[w].m = m /\ InHand(w)' = S
        /\ job'[w].add = S /\ job'[w].drop = {} /\ Others(w)
    BY <1>1, AfterCreateCheck DEF InHand, Others
  <2>2. /\ held' = held /\ status' = status /\ \A a \in S : Assignable(a)
        /\ Overlaps(Busy \ {w}, m, S) \subseteq faults'
    BY <1>1 DEF CreateCheck
  <2>3. Read(w)'
    BY <2>1, <2>2, AssignableIsFree DEF Read
  <2> QED
    BY <2>1, <2>2, <2>3, BeginStep DEF HeldAssets
<1>2. ASSUME CreateLink(w)
      PROVE  HeldAssets' /\ Apart' /\ Reads'
  <2>1. /\ job'[w].step = "mark" /\ job'[w].m = job[w].m
        /\ job'[w].add = job[w].add /\ job'[w].drop = job[w].drop
        /\ InHand(w)' = InHand(w) /\ Others(w)
    BY <1>2, AfterCreateLink DEF InHand
  <2>2. /\ SetAssets(job[w].m, job[w].add) /\ job[w].drop = {}
        /\ held' = [held EXCEPT ![job[w].m] = job[w].add] /\ job[w].step # "idle"
    BY <1>0, <1>2 DEF CreateLink, Read, SetAssets
  <2>3. job[w].m \in Assignment /\ job[w].add \in SUBSET Asset
    BY <2>2 DEF JobsFit, Fit, TypeOK, Job
  <2>4. Read(w)'
    BY <2>1, <2>2 DEF Read
  <2>5. job[w].add \ held[job[w].m] \subseteq InHand(w)
    BY DEF InHand
  <2> QED
    BY <2>1, <2>2, <2>3, <2>4, <2>5, TableStep, SetAssetsHeld
<1>3. ASSUME NEW m \in Assignment, NEW S \in SUBSET Asset, UpdateCheck(w, m, S)
      PROVE  HeldAssets' /\ Apart' /\ Reads'
  <2>1. /\ job'[w].step = "touch" /\ job'[w].m = m
        /\ InHand(w)' \subseteq S \cup held[m]
        /\ job'[w].add = S \ held[m] /\ job'[w].drop = held[m] \ S
        /\ job'[w].keep = held[m] \cap S /\ Others(w)
    BY <1>3, AfterUpdateCheck DEF InHand, Others
  <2>2. /\ held' = held /\ status' = status /\ \A a \in S : Assignable(a)
        /\ Overlaps(Busy \ {w}, m, S \cup held[m]) \subseteq faults'
    BY <1>3 DEF UpdateCheck, tables
  <2>3. Read(w)'
    BY <2>1, <2>2, AssignableIsFree DEF Read
  <2> QED
    BY <2>1, <2>2, <2>3, BeginStep DEF HeldAssets
<1>4. ASSUME UpdateTouch(w)
      PROVE  HeldAssets' /\ Apart' /\ Reads'
  <2>1. /\ job'[w].step = "relink" /\ job'[w].m = job[w].m
        /\ job'[w].add = job[w].add /\ job'[w].drop = job[w].drop
        /\ job'[w].keep = job[w].keep
        /\ InHand(w)' = InHand(w) /\ Others(w)
    BY <1>4, AfterUpdateTouch DEF InHand
  <2>2. /\ held' = held /\ job[w].step = "touch"
        /\ status' = [a \in Asset |-> IF a \in job[w].mend THEN "ASSIGNED" ELSE status[a]]
    BY <1>4 DEF UpdateTouch
  <2>3. Read(w)'
    BY <1>0, <2>1, <2>2 DEF Read
  <2> QED
    BY <2>1, <2>2, <2>3, QuietStep DEF HeldAssets
<1>5. ASSUME UpdateLink(w)
      PROVE  HeldAssets' /\ Apart' /\ Reads'
  <2> DEFINE S == job[w].keep \cup job[w].add
  <2>1. /\ job'[w].step = "mark" /\ job'[w].m = job[w].m
        /\ job'[w].add = job[w].add /\ job'[w].drop = job[w].drop
        /\ InHand(w)' = InHand(w) /\ Others(w)
    BY <1>5, AfterUpdateLink DEF InHand
  <2>2. /\ SetAssets(job[w].m, S) /\ job[w].step = "relink"
        /\ held' = [held EXCEPT ![job[w].m] = S]
    BY <1>5 DEF UpdateLink, SetAssets
  <2>3. job[w].m \in Assignment /\ S \in SUBSET Asset
    BY <2>2 DEF JobsFit, Fit, TypeOK, Job
  <2>4. job[w].drop \cap S = {} /\ S \ held[job[w].m] \subseteq InHand(w)
    BY <1>0, <2>2 DEF Read, InHand
  <2>5. held'[job[w].m] = S
    BY <2>2, <2>3, TableAfter
  <2> HIDE DEF S
  <2>6. Read(w)'
    BY <2>1, <2>4, <2>5 DEF Read
  <2> QED
    BY <2>1, <2>2, <2>3, <2>4, <2>6, TableStep, SetAssetsHeld
<1>6. ASSUME MarkRemoved(w)
      PROVE  HeldAssets' /\ Apart' /\ Reads'
  <2>1. /\ job'[w].step = "mark" /\ job'[w].m = job[w].m
        /\ job'[w].drop \subseteq job[w].drop
        /\ InHand(w)' \subseteq InHand(w) /\ Others(w)
    BY <1>6, AfterMarkRemoved DEF InHand
  <2>2. held' = held /\ job[w].step = "mark" /\ job[w].m \in Assignment
    BY <1>6 DEF MarkRemoved, tables, JobsFit, Fit, TypeOK
  <2>3. Read(w)' /\ job[w].drop \cap held[job[w].m] = {}
    BY <1>0, <2>1, <2>2 DEF Read
  <2>4. PICK a \in job[w].drop :
           status' = IF Holders(a) \ {job[w].m} = {}
                     THEN [status EXCEPT ![a] = "AVAILABLE"] ELSE status
    BY <1>6, AfterMarkRemoved
  <2>5. Holders(a) \ {job[w].m} = {} => \A n \in Assignment : a \notin held[n]
    BY <2>3 DEF Holders
  <2>6. HeldAssets'
    BY <2>2, <2>4, <2>5 DEF HeldAssets, TypeOK
  <2> QED
    BY <2>1, <2>2, <2>3, <2>6, QuietStep
<1>7. ASSUME MarkAdded(w)
      PROVE  HeldAssets' /\ Apart' /\ Reads'
  <2>1. /\ job'[w].step = "mark" /\ job'[w].m = job[w].m
        /\ job'[w].drop = job[w].drop
        /\ InHand(w)' \subseteq InHand(w) /\ Others(w)
    BY <1>7, AfterMarkAdded DEF InHand
  <2>2. held' = held /\ job[w].step = "mark"
    BY <1>7 DEF MarkAdded, tables
  <2>3. Read(w)'
    BY <1>0, <2>1, <2>2 DEF Read
  <2>4. HeldAssets'
    BY <1>7, <2>2, AfterMarkAdded DEF HeldAssets, TypeOK
  <2> QED
    BY <2>1, <2>2, <2>3, <2>4, QuietStep
<1>8. ASSUME MarkDone(w) \/ ReferenceLost(w) \/ Crash(w)
      PROVE  HeldAssets' /\ Apart' /\ Reads'
  <2>1. held' = held /\ status' = status
    BY <1>8 DEF MarkDone, ReferenceLost, Crash, tables
  <2>2. Others(w) /\ job'[w].step = "idle" /\ Read(w)'
    BY <1>8, AfterTheEnd, IdleTyped DEF Read
  <2> QED
    BY <2>1, <2>2, QuietStep DEF HeldAssets
<1>9. ASSUME NEW m \in Assignment, ReturnBegin(w, m)
      PROVE  HeldAssets' /\ Apart' /\ Reads'
  <2>1. /\ job'[w].step = "record" /\ job'[w].m = m
        /\ InHand(w)' \subseteq held[m] /\ Others(w)
    BY <1>9, AfterReturnBegin DEF InHand, Others
  <2>2. /\ held' = held /\ status' = status
        /\ Overlaps(Busy \ {w}, m, held[m]) \subseteq faults'
    BY <1>9 DEF ReturnBegin, tables
  <2>3. Read(w)'
    BY <2>1 DEF Read
  <2> QED
    BY <2>1, <2>2, <2>3, BeginStep DEF HeldAssets
<1>10. ASSUME NEW c \in Condition, ReturnRecord(w, c)
       PROVE  HeldAssets' /\ Apart' /\ Reads'
  <2>1. /\ job'[w].step = "remove" /\ job'[w].m = job[w].m
        /\ InHand(w)' \subseteq InHand(w) /\ Others(w)
    BY <1>10, AfterReturnRecord DEF InHand
  <2>2. held' = held /\ status' = status /\ job[w].step = "record"
    BY <1>10 DEF ReturnRecord
  <2>3. Read(w)'
    BY <2>1 DEF Read
  <2> QED
    BY <2>1, <2>2, <2>3, QuietStep DEF HeldAssets
<1>11. ASSUME ReturnRemove(w)
       PROVE  HeldAssets' /\ Apart' /\ Reads'
  <2> DEFINE m == job[w].m
             a == job[w].cur
             S == held[m] \ {a}
  <2>1. /\ job'[w].step = "decide" /\ job'[w].m = m
        /\ InHand(w)' = InHand(w) /\ Others(w)
    BY <1>11, AfterReturnRemove DEF InHand
  <2>2. /\ held' = [held EXCEPT ![m] = S] /\ job[w].step = "remove"
        /\ status' = IF Holders(a) \ {m} = {}
                     THEN [status EXCEPT ![a] = "AVAILABLE"] ELSE status
    BY <1>11 DEF ReturnRemove
  <2>3. m \in Assignment /\ a \in Asset
    BY <2>2 DEF JobsFit, Fit, TypeOK
  <2>4. Read(w)'
    BY <2>1 DEF Read
  <2>5. S \ held[m] \subseteq InHand(w)
    OBVIOUS
  <2>6. Apart' /\ Reads'
    BY <2>1, <2>2, <2>4, <2>5, TableStep
  <2>7. held'[m] = S /\ \A n \in Assignment \ {m} : held'[n] = held[n]
    BY <2>2, <2>3, TableAfter
  <2>8. HeldAssets'
    <3> SUFFICES ASSUME NEW b \in Asset, NEW n \in Assignment, b \in held'[n]
                 PROVE  status'[b] = "ASSIGNED"
      BY DEF HeldAssets
    <3>1. b \in held[n] /\ (b = a => n # m)
      BY <2>7
    <3>2. b = a => n \in Holders(a) \ {m}
      BY <3>1 DEF Holders
    <3> QED
      BY <2>2, <2>3, <3>1, <3>2 DEF HeldAssets, TypeOK
  <2> QED
    BY <2>6, <2>8
<1>12. ASSUME ReturnDecide(w)
       PROVE  HeldAssets' /\ Apart' /\ Reads'
  <2>1. /\ job'[w].step = "stamp" /\ job'[w].m = job[w].m
        /\ InHand(w)' \subseteq InHand(w) /\ Others(w)
        /\ job'[w].cur = job[w].cur
        /\ job'[w].mark # "ASSIGNED" => Holders(job[w].cur) = {}
    BY <1>12, AfterReturnDecide DEF InHand
  <2>2. held' = held /\ status' = status /\ job[w].step = "decide"
    BY <1>12 DEF ReturnDecide, tables
  <2>3. Read(w)'
    BY <2>1, <2>2 DEF Read, Holders
  <2> QED
    BY <2>1, <2>2, <2>3, QuietStep DEF HeldAssets
<1>13. ASSUME ReturnStamp(w)
       PROVE  HeldAssets' /\ Apart' /\ Reads'
  <2>1. /\ held' = held /\ job[w].step = "stamp"
        /\ status' = [status EXCEPT ![job[w].cur] = job[w].mark]
    BY <1>13 DEF ReturnStamp, tables
  <2>2. /\ Others(w)
        /\ \/ job'[w].step = "idle"
           \/ /\ job'[w].step = "record" /\ job'[w].m = job[w].m
              /\ InHand(w)' \subseteq InHand(w)
    BY <1>13, AfterReturnStamp, IdleTyped DEF InHand
  <2>3. Read(w)'
    BY <2>2 DEF Read
  <2>4. job[w].mark # "ASSIGNED" => \A n \in Assignment : job[w].cur \notin held[n]
    BY <1>0, <2>1 DEF Read
  <2>5. HeldAssets'
    BY <2>1, <2>4 DEF HeldAssets, TypeOK
  <2> QED
    BY <2>1, <2>2, <2>3, <2>5, QuietStep
<1> QED
  BY <1>1, <1>2, <1>3, <1>4, <1>5, <1>6, <1>7, <1>8, <1>9, <1>10, <1>11, <1>12,
     <1>13 DEF Handler

\* An admin page changes what one assignment holds, and meets no handler there.
LEMMA PageStep ==
    ASSUME TypeOK, JobsFit, Apart, Reads, job' = job, NEW m \in Assignment, NEW S, NEW T,
           held' = [held EXCEPT ![m] = S], S \ held[m] \subseteq T,
           Overlaps(Busy, m, T) \subseteq faults', "overlap" \notin faults'
    PROVE  Apart' /\ Reads'
<1>1. \A v \in Busy : job[v].m # m /\ InHand(v) \cap T = {}
  BY MeetsNobody
<1>2. Apart'
  BY DEF Apart, InHand
<1>3. ASSUME NEW v \in Worker
      PROVE  Read(v)'
  <2>1. job[v].step # "idle" => job[v].m # m /\ InHand(v) \cap (S \ held[m]) = {}
    BY <1>1 DEF Busy
  <2>2. Read(v) /\ job'[v] = job[v]
    BY DEF Reads
  <2> QED
    BY <2>1, <2>2, TableAfter, ReadStays
<1> QED
  BY <1>2, <1>3 DEF Reads

LEMMA PagesStep ==
    ASSUME TypeOK, JobsFit, HeldAssets, Apart, Reads, AdminSite,
           NoFault({"overlap", "staff", "fix"})'
    PROVE  HeldAssets' /\ Apart' /\ Reads'
<1>1. "overlap" \notin faults' /\ "staff" \notin faults' /\ "fix" \notin faults'
  BY DEF NoFault
<1>2. ASSUME NEW m \in Assignment, NEW S \in SUBSET Asset, AdminAdd(m, S)
      PROVE  HeldAssets' /\ Apart' /\ Reads'
  <2>1. /\ job' = job /\ held' = [held EXCEPT ![m] = S]
        /\ status' = [a \in Asset |-> IF a \in S THEN "ASSIGNED" ELSE status[a]]
        /\ Overlaps(Busy, m, S) \subseteq faults'
    BY <1>2 DEF AdminAdd
  <2>2. Apart' /\ Reads'
    BY <1>1, <2>1, PageStep
  <2> QED
    BY <2>1, <2>2 DEF HeldAssets, TypeOK
<1>3. ASSUME NEW m \in Assignment, NEW S \in SUBSET Asset, AdminChange(m, S)
      PROVE  HeldAssets' /\ Apart' /\ Reads'
  <2>1. /\ job' = job /\ held' = [held EXCEPT ![m] = S]
        /\ status' = [a \in Asset |->
                        IF a \in S \/ (a \in held[m] /\ Holders(a) # {m})
                        THEN "ASSIGNED" ELSE Relinked(m, S)[a]]
        /\ Overlaps(Busy, m, S \cup held[m]) \subseteq faults'
    BY <1>3 DEF AdminChange
  <2>2. Apart' /\ Reads'
    BY <1>1, <2>1, PageStep
  <2>3. ASSUME NEW a \in Asset, NEW n \in Assignment, a \in held'[n]
        PROVE  status'[a] = "ASSIGNED"
    <3>1. CASE n = m
      BY <2>1, <2>3, <3>1, TableAfter
    <3>2. CASE n # m
      <4>1. a \in held[n] /\ n \in Holders(a) \ {m}
        BY <2>1, <2>3, <3>2, TableAfter DEF Holders
      <4>2. status[a] = "ASSIGNED"
        BY <4>1 DEF HeldAssets
      <4>3. Relinked(m, S)[a] = "ASSIGNED"
        BY <4>1, <4>2 DEF Relinked
      <4> QED
        BY <2>1, <4>3
    <3> QED
      BY <3>1, <3>2
  <2> QED
    BY <2>2, <2>3 DEF HeldAssets
<1>4. ASSUME NEW m \in Assignment, AdminResave(m)
      PROVE  HeldAssets' /\ Apart' /\ Reads'
  <2>1. /\ job' = job /\ held' = held
        /\ status' = [a \in Asset |-> IF a \in held[m] THEN "ASSIGNED" ELSE status[a]]
    BY <1>4 DEF AdminResave, tables
  <2> QED
    BY <2>1 DEF HeldAssets, Apart, InHand, Reads, Read
<1>5. ASSUME NEW m \in Assignment, AdminDelete(m)
      PROVE  HeldAssets' /\ Apart' /\ Reads'
  <2>1. /\ job' = job /\ held' = [held EXCEPT ![m] = {}] /\ status' = status
        /\ Overlaps(Busy, m, held[m]) \subseteq faults'
    BY <1>5 DEF AdminDelete
  <2>2. Apart' /\ Reads'
    BY <1>1, <2>1, PageStep
  <2> QED
    BY <2>1, <2>2 DEF HeldAssets, TypeOK
<1>6. ASSUME NEW a \in Asset, NEW s \in {"AVAILABLE", "DAMAGED"},
             StaffMark(a, s) \/ Fix(a)
      PROVE  FALSE
  BY <1>1, <1>6 DEF StaffMark, Fix
<1> QED
  BY <1>2, <1>3, <1>4, <1>5, <1>6 DEF AdminSite

\* Every step that gives hardware to an assignment finds it free.
LEMMA OneEachStep ==
    ASSUME TypeOK, JobsFit, HeldAssets, Reads, OneEach, [Next]_vars,
           NoFault({"overlap", "stale_choice", "staff", "fix"})'
    PROVE  OneEach'
<1>1. ASSUME NEW w \in Worker, CreateLink(w) \/ UpdateLink(w)
      PROVE  OneEach'
  <2> DEFINE S == IF job[w].step = "link" THEN job[w].add
                                          ELSE job[w].keep \cup job[w].add
  <2>1. Read(w) /\ job[w].step \in {"link", "relink"} /\ job[w].m \in Assignment
    BY <1>1 DEF Reads, CreateLink, UpdateLink, JobsFit, Fit, TypeOK
  <2>2. held' = [held EXCEPT ![job[w].m] = S]
    BY <1>1 DEF CreateLink, UpdateLink, SetAssets
  <2>3. \A a \in Hardware \cap (S \ held[job[w].m]), n \in Assignment : a \notin held[n]
    BY <2>1 DEF Read
  <2> HIDE DEF S
  <2> QED
    BY <2>1, <2>2, <2>3, TableAfter, OneEachStays
<1>2. ASSUME NEW w \in Worker, ReturnRemove(w)
      PROVE  OneEach'
  <2>1. /\ held' = [held EXCEPT ![job[w].m] = @ \ {job[w].cur}]
        /\ job[w].m \in Assignment
    BY <1>2 DEF ReturnRemove, JobsFit, Fit, TypeOK
  <2> QED
    BY <2>1 DEF OneEach, TypeOK
<1>3. ASSUME NEW m \in Assignment, NEW S \in SUBSET Asset,
             AdminAdd(m, S) \/ AdminChange(m, S)
      PROVE  OneEach'
  <2>1. held' = [held EXCEPT ![m] = S]
    BY <1>3 DEF AdminAdd, AdminChange
  <2>2. \A a \in S : Assignable(a)
    BY <1>3 DEF AdminAdd, AdminChange, NoFault
  <2> QED
    BY <2>1, <2>2, TableAfter, OneEachStays, AssignableIsFree
<1>4. ASSUME NEW m \in Assignment, AdminDelete(m)
      PROVE  OneEach'
  BY <1>4 DEF AdminDelete, OneEach, TypeOK
<1>5. ASSUME held' = held
      PROVE  OneEach'
  BY <1>5 DEF OneEach
<1>6. ASSUME NEW w \in Worker, NEW m \in Assignment, NEW S \in SUBSET Asset,
             CreateCheck(w, m, S) \/ UpdateCheck(w, m, S) \/ ReturnBegin(w, m)
      PROVE  held' = held
  BY <1>6 DEF CreateCheck, UpdateCheck, ReturnBegin, tables
<1>7. ASSUME NEW w \in Worker, NEW c \in Condition,
             \/ UpdateTouch(w) \/ MarkRemoved(w) \/ MarkAdded(w) \/ MarkDone(w)
             \/ ReturnRecord(w, c) \/ ReferenceLost(w) \/ ReturnDecide(w)
             \/ ReturnStamp(w) \/ Crash(w)
      PROVE  held' = held
  BY <1>7 DEF UpdateTouch, MarkRemoved, MarkAdded, MarkDone, ReturnRecord,
              ReferenceLost, ReturnDecide, ReturnStamp, Crash, tables
<1>8. ASSUME NEW m \in Assignment, NEW a \in Asset, NEW s \in Status,
             AdminResave(m) \/ StaffMark(a, s) \/ Fix(a)
      PROVE  held' = held
  BY <1>8 DEF AdminResave, StaffMark, Fix, tables
<1>9. UNCHANGED vars => held' = held
  BY DEF vars, tables
<1>10. ASSUME NEW w \in Worker, Handler(w)
       PROVE  OneEach'
  <2>1. "GOOD" \in Condition /\ {} \in SUBSET Asset
    BY DEF Condition
  <2>2. CASE \E m \in Assignment, S \in SUBSET Asset : CreateCheck(w, m, S)
    BY <1>5, <1>6, <2>2
  <2>3. CASE \E m \in Assignment, S \in SUBSET Asset : UpdateCheck(w, m, S)
    BY <1>5, <1>6, <2>3
  <2>4. CASE \E m \in Assignment : ReturnBegin(w, m)
    BY <1>5, <1>6, <2>1, <2>4
  <2>5. CASE \E c \in Condition : ReturnRecord(w, c)
    BY <1>5, <1>7, <2>5
  <2>6. CASE \/ UpdateTouch(w) \/ MarkRemoved(w) \/ MarkAdded(w) \/ MarkDone(w)
             \/ ReferenceLost(w) \/ ReturnDecide(w) \/ ReturnStamp(w) \/ Crash(w)
    BY <1>5, <1>7, <2>1, <2>6
  <2> QED
    BY <1>1, <1>2, <1>10, <2>2, <2>3, <2>4, <2>5, <2>6 DEF Handler
<1>11. ASSUME AdminSite
       PROVE  OneEach'
  <2>1. \A a \in Asset, s \in {"AVAILABLE", "DAMAGED"} : StaffMark(a, s) \/ Fix(a) => held' = held
    BY DEF StaffMark, Fix, tables
  <2>2. \A m \in Assignment : AdminResave(m) => held' = held
    BY DEF AdminResave, tables
  <2> QED
    BY <1>3, <1>4, <1>5, <1>11, <2>1, <2>2 DEF AdminSite
<1> QED
  BY <1>5, <1>9, <1>10, <1>11 DEF Next

LEMMA CustodyStep == Typed /\ Custody /\ [Next]_vars => Custody'
<1> SUFFICES ASSUME Typed, Custody, [Next]_vars PROVE Custody'
  OBVIOUS
<1>1. faults \subseteq faults' /\ TypeOK /\ JobsFit
  BY FaultsStay DEF Typed
<1>2. ASSUME NoFault({"overlap", "staff", "fix"})'
      PROVE  HeldAssets' /\ Apart' /\ Reads'
  <2>1. HeldAssets /\ Apart /\ Reads /\ "overlap" \notin faults'
    BY <1>1, <1>2 DEF NoFault, Custody
  <2>2. CASE \E w \in Worker : Handler(w)
    BY <1>1, <2>1, <2>2, HandlerStep
  <2>3. CASE AdminSite
    BY <1>1, <1>2, <2>1, <2>3, PagesStep
  <2>4. CASE UNCHANGED vars
    BY <2>1, <2>4 DEF vars, tables, HeldAssets, Apart, InHand, Reads, Read
  <2> QED
    BY <2>2, <2>3, <2>4 DEF Next
<1>3. ASSUME NoFault({"overlap", "stale_choice", "staff", "fix"})'
      PROVE  OneEach'
  <2>1. HeldAssets /\ Reads /\ OneEach
    BY <1>1, <1>3 DEF NoFault, Custody
  <2> QED
    BY <1>1, <1>3, <2>1, OneEachStep
<1> QED
  BY <1>2, <1>3 DEF Custody

LEMMA CustodyAlways == Spec => [](Typed /\ Custody)
<1>1. Init => Custody
  BY IdleTyped DEF Init, Custody, HeldAssets, Apart, Reads, Read, OneEach
<1> QED
  BY <1>1, CustodyStep, StepTyped, TypedAlways, PTL DEF Spec

\* An asset somebody holds is marked ASSIGNED, unless handlers met on it or
\* staff or the fix command set a status.
THEOREM HeldStaysAssigned == Spec => []HeldIsAssigned
<1>1. Custody => HeldIsAssigned
  BY DEF Custody, HeldAssets, HeldIsAssigned, Holders
<1> QED
  BY <1>1, CustodyAlways, PTL

\* Hardware has at most one holder, unless handlers met on it, it was offered
\* to two forms, or staff or the fix command set a status.
THEOREM HardwareHasOneHolder == Spec => []OneHolder
<1>1. ASSUME Custody PROVE OneHolder
  <2> SUFFICES ASSUME OneEach, NEW a \in Hardware
               PROVE  Cardinality(Holders(a)) <= 1
    BY <1>1 DEF Custody, OneHolder
  <2>1. CASE Holders(a) = {}
    BY <2>1, FS_EmptySet
  <2>2. CASE Holders(a) # {}
    <3>1. PICK m \in Assignment : m \in Holders(a)
      BY <2>2 DEF Holders
    <3>2. Holders(a) = {m}
      BY <3>1 DEF Holders, OneEach
    <3>3. Cardinality({m}) = 1
      BY FS_Singleton
    <3> QED
      BY <3>2, <3>3
  <2> QED
    BY <2>1, <2>2
<1> QED
  BY <1>1, CustodyAlways, PTL

-----------------------------------------------------------------------------
(***************************************************************************)
(* No asset is stranded.  A status of ASSIGNED is written for an asset     *)
(* that is in an assignment at that moment: what a handler adds is on its  *)
(* assignment before it is marked, and the asset of a return that is to be *)
(* stamped ASSIGNED has another holder.                                    *)
(***************************************************************************)
Vacant == \A m \in Assignment \ live : held[m] = {}

IsHeld(a) == \E m \in Assignment : a \in held[m]

\* What handler w has written to the table, or found there.
Wrote(w) ==
    LET j == job[w]
    IN  /\ j.step = "link" => held[j.m] = {}
        /\ j.step = "touch" => j.mend \subseteq held[j.m]
        /\ j.step \in {"touch", "relink"} => held[j.m] \subseteq j.keep \cup j.drop
        /\ j.step = "mark" => j.add \subseteq held[j.m]
        /\ j.step = "stamp" /\ j.mark = "ASSIGNED" => IsHeld(j.cur)

AssignedAreHeld == \A a \in Asset : status[a] = "ASSIGNED" => IsHeld(a)
AllWrote == \A w \in Worker : Wrote(w)

NoneStranded ==
    NoFault({"overlap", "delete", "staff", "fix"}) => AssignedAreHeld /\ AllWrote

(***************************************************************************)
(* The condition of hardware.  Hardware somebody holds is as good as when  *)
(* it was given out, and so is what a handler has dropped; between the     *)
(* removal of a returned asset and its stamp it is free, whatever its      *)
(* condition, but in the hands of the handler, who remembers it.           *)
(***************************************************************************)
Good(a) == condition[a] = "GOOD"

\* What handler w knows of the assets it takes back.
Noted(w) ==
    LET j == job[w]
    IN  /\ j.step \in {"touch", "relink", "mark"} =>
              \A a \in j.drop \cap Hardware : Good(a)
        /\ j.step \in {"record", "remove", "decide", "stamp"} =>
              j.drop \subseteq held[j.m]
        /\ j.step = "remove" => j.cur \in held[j.m] \ j.drop
        /\ j.step = "decide" => j.mark = condition[j.cur]
        /\ j.step = "stamp" /\ j.mark = "AVAILABLE" => Good(j.cur)

\* An asset that is removed and not stamped yet.
Freed(a) == \E w \in Worker : job[w].step \in {"decide", "stamp"} /\ job[w].cur = a

HeldAreGood == \A a \in Hardware : IsHeld(a) => Good(a)
FreeAreGood == \A a \in Hardware : status[a] = "AVAILABLE" /\ ~Good(a) => Freed(a)
AllNoted == \A w \in Worker : Noted(w)

ConditionNoted ==
    NoFault({"overlap", "stale_choice", "crash", "staff", "fix"}) =>
        HeldAreGood /\ FreeAreGood /\ AllNoted

LEMMA StepVacant == Typed /\ Vacant /\ [Next]_vars => Vacant'
<1> SUFFICES ASSUME TypeOK, JobsFit, Vacant, [Next]_vars PROVE Vacant'
  BY DEF Typed
<1>1. ASSUME NEW m \in Assignment, NEW S, held' = [held EXCEPT ![m] = S],
             live \subseteq live', m \in live' \/ S \subseteq held[m]
      PROVE  Vacant'
  <2>1. held'[m] = S /\ \A n \in Assignment \ {m} : held'[n] = held[n]
    BY <1>1, TableAfter
  <2> QED
    BY <1>1, <2>1 DEF Vacant
<1>2. ASSUME held' = held, live \subseteq live' PROVE Vacant'
  BY <1>2 DEF Vacant
<1>3. ASSUME NEW w \in Worker, CreateLink(w) \/ UpdateLink(w) \/ ReturnRemove(w)
      PROVE  Vacant'
  <2>1. job[w].m \in Assignment
    BY <1>3 DEF CreateLink, UpdateLink, ReturnRemove, JobsFit, Fit, TypeOK
  <2>2. CASE CreateLink(w)
    BY <1>1, <2>1, <2>2 DEF CreateLink, SetAssets
  <2>3. CASE UpdateLink(w)
    <3>1. /\ live' = live
          /\ held' = [held EXCEPT ![job[w].m] = job[w].keep \cup job[w].add]
          /\ job[w].m \in live \/ job[w].keep \cup job[w].add = {}
      BY <2>3 DEF UpdateLink, SetAssets
    <3> QED
      BY <1>1, <2>1, <3>1
  <2>4. CASE ReturnRemove(w)
    <3>1. /\ live' = live
          /\ held' = [held EXCEPT ![job[w].m] = held[job[w].m] \ {job[w].cur}]
      BY <2>4 DEF ReturnRemove
    <3> QED
      BY <1>1, <2>1, <3>1
  <2> QED
    BY <1>3, <2>2, <2>3, <2>4
<1>4. ASSUME NEW m \in Assignment, NEW S, AdminAdd(m, S) \/ AdminChange(m, S)
      PROVE  Vacant'
  <2>1. held' = [held EXCEPT ![m] = S] /\ live \subseteq live' /\ m \in live'
    BY <1>4 DEF AdminAdd, AdminChange
  <2> QED
    BY <1>1, <2>1
<1>5. ASSUME NEW m \in Assignment, AdminDelete(m)
      PROVE  Vacant'
  <2>1. held' = [held EXCEPT ![m] = {}] /\ live' = live \ {m}
    BY <1>5 DEF AdminDelete
  <2>2. held'[m] = {} /\ \A n \in Assignment \ {m} : held'[n] = held[n]
    BY <2>1, TableAfter
  <2> QED
    BY <2>1, <2>2 DEF Vacant
<1>6. ASSUME NEW w \in Worker, NEW m, NEW S, NEW c,
             \/ CreateCheck(w, m, S) \/ UpdateCheck(w, m, S) \/ ReturnBegin(w, m)
             \/ UpdateTouch(w) \/ MarkRemoved(w) \/ MarkAdded(w) \/ MarkDone(w)
             \/ ReturnRecord(w, c) \/ ReferenceLost(w) \/ ReturnDecide(w)
             \/ ReturnStamp(w) \/ Crash(w)
      PROVE  Vacant'
  <2>1. held' = held /\ live \subseteq live'
    BY <1>6 DEF CreateCheck, UpdateCheck, ReturnBegin, UpdateTouch, MarkRemoved,
                MarkAdded, MarkDone, ReturnRecord, ReferenceLost, ReturnDecide,
                ReturnStamp, Crash, tables
  <2> QED
    BY <1>2, <2>1
<1>7. ASSUME NEW m, NEW a, NEW s, AdminResave(m) \/ StaffMark(a, s) \/ Fix(a)
      PROVE  Vacant'
  BY <1>2, <1>7 DEF AdminResave, StaffMark, Fix, tables
<1>8. CASE UNCHANGED vars
  BY <1>2, <1>8 DEF vars, tables
<1> QED
  BY <1>3, <1>4, <1>5, <1>6, <1>7, <1>8 DEF Next, Handler, AdminSite

-----------------------------------------------------------------------------
\* Handler v is not concerned when held[m] becomes S and nothing it has in
\* hand is taken from m.
LEMMA WroteStays ==
    ASSUME TypeOK, JobsFit, NEW v \in Worker, Wrote(v), job'[v] = job[v],
           NEW m \in Assignment, NEW S,
           held'[m] = S, \A n \in Assignment \ {m} : held'[n] = held[n],
           job[v].step # "idle" => job[v].m # m /\ InHand(v) \cap (held[m] \ S) = {}
    PROVE  Wrote(v)'
<1>1. CASE job[v].step = "idle"
  BY <1>1 DEF Wrote
<1>2. CASE job[v].step # "idle"
  <2>1. /\ job[v].m \in Assignment /\ job[v].m # m
        /\ held'[job[v].m] = held[job[v].m]
    BY <1>2 DEF JobsFit, Fit, TypeOK
  <2>2. ASSUME job[v].step = "stamp", IsHeld(job[v].cur)
        PROVE  IsHeld(job[v].cur)'
    <3>1. job[v].cur \in InHand(v)
      BY <2>2, NoAssetAssumption DEF JobsFit, Fit, InHand
    <3>2. PICK n \in Assignment : job[v].cur \in held[n]
      BY <2>2 DEF IsHeld
    <3> QED
      BY <1>2, <3>1, <3>2 DEF IsHeld
  <2> QED
    BY <2>1, <2>2 DEF Wrote
<1> QED
  BY <1>1, <1>2

LEMMA WroteKept ==
    ASSUME NEW w \in Worker, AllWrote, Others(w), held' = held, Wrote(w)'
    PROVE  AllWrote'
  BY DEF AllWrote, Wrote, IsHeld, Others

\* A handler's step that changes what its assignment holds.
LEMMA WroteTable ==
    ASSUME TypeOK, JobsFit, Apart, AllWrote, NEW w \in Worker, Others(w), Wrote(w)',
           NEW S, held' = [held EXCEPT ![job[w].m] = S],
           held[job[w].m] \ S \subseteq InHand(w), job[w].step # "idle"
    PROVE  AllWrote'
<1>1. job[w].m \in Assignment
  BY DEF JobsFit, Fit, TypeOK
<1>2. ASSUME NEW v \in Worker \ {w}
      PROVE  Wrote(v)'
  <2>1. job[v].step # "idle" =>
           job[v].m # job[w].m /\ InHand(v) \cap (held[job[w].m] \ S) = {}
    BY DEF Apart
  <2>2. Wrote(v) /\ job'[v] = job[v]
    BY DEF AllWrote, Others
  <2> QED
    BY <1>1, <2>1, <2>2, TableAfter, WroteStays
<1> QED
  BY <1>2 DEF AllWrote

\* The receivers leave no asset ASSIGNED that nobody holds.
LEMMA SetAssetsStrands ==
    ASSUME TypeOK, AssignedAreHeld, NEW m \in Assignment, NEW S \in SUBSET Asset,
           held' = [held EXCEPT ![m] = S], status' = Relinked(m, S)
    PROVE  AssignedAreHeld'
<1> SUFFICES ASSUME NEW a \in Asset, status'[a] = "ASSIGNED"
             PROVE  IsHeld(a)'
  BY DEF AssignedAreHeld
<1>1. status'[a] = IF a \in S \ held[m] THEN "ASSIGNED"
                   ELSE IF a \in held[m] \ S /\ Holders(a) \ {m} = {} THEN "AVAILABLE"
                   ELSE status[a]
  BY DEF Relinked
<1>2. held'[m] = S /\ \A n \in Assignment \ {m} : held'[n] = held[n]
  BY TableAfter
<1>3. CASE a \in S
  BY <1>2, <1>3 DEF IsHeld
<1>4. CASE a \notin S
  <2>1. PICK n \in Assignment : a \in held[n] /\ (n = m => Holders(a) \ {m} # {})
    BY <1>1, <1>4 DEF AssignedAreHeld, IsHeld
  <2>2. PICK k \in Assignment \ {m} : a \in held[k]
    BY <2>1 DEF Holders
  <2> QED
    BY <1>2, <2>2 DEF IsHeld
<1> QED
  BY <1>3, <1>4

LEMMA HandlerStrands ==
    ASSUME TypeOK, JobsFit, Vacant, HeldAssets, Apart, Reads, AssignedAreHeld, AllWrote,
           NEW w \in Worker, Handler(w)
    PROVE  AssignedAreHeld' /\ AllWrote'
<1>0. Read(w) /\ Wrote(w)
  BY DEF Reads, AllWrote
<1>1. ASSUME NEW m \in Assignment, NEW S \in SUBSET Asset, CreateCheck(w, m, S)
      PROVE  AssignedAreHeld' /\ AllWrote'
  <2>1. held' = held /\ status' = status /\ m \notin live
    BY <1>1 DEF CreateCheck, TypeOK
  <2>2. job'[w].step = "link" /\ job'[w].m = m /\ Others(w)
    BY <1>1, AfterCreateCheck DEF Others
  <2>3. Wrote(w)'
    BY <2>1, <2>2 DEF Wrote, Vacant
  <2> QED
    BY <2>1, <2>2, <2>3, WroteKept DEF AssignedAreHeld, IsHeld
<1>2. ASSUME CreateLink(w)
      PROVE  AssignedAreHeld' /\ AllWrote'
  <2>1. /\ job'[w].step = "mark" /\ job'[w].m = job[w].m
        /\ job'[w].add = job[w].add /\ Others(w)
    BY <1>2, AfterCreateLink
  <2>2. /\ held' = [held EXCEPT ![job[w].m] = job[w].add] /\ job[w].step = "link"
        /\ status' = Relinked(job[w].m, job[w].add)
    BY <1>2 DEF CreateLink, SetAssets
  <2>3. job[w].m \in Assignment /\ job[w].add \in SUBSET Asset
    BY <2>2 DEF JobsFit, Fit, TypeOK, Job
  <2>4. held[job[w].m] = {} /\ held'[job[w].m] = job[w].add
    BY <1>0, <2>2, <2>3, TableAfter DEF Wrote
  <2>5. Wrote(w)'
    BY <2>1, <2>4 DEF Wrote
  <2>6. AllWrote'
    BY <2>1, <2>2, <2>4, <2>5, WroteTable
  <2> QED
    BY <2>2, <2>3, <2>6, SetAssetsStrands
<1>3. ASSUME NEW m \in Assignment, NEW S \in SUBSET Asset, UpdateCheck(w, m, S)
      PROVE  AssignedAreHeld' /\ AllWrote'
  <2>1. held' = held /\ status' = status
    BY <1>3 DEF UpdateCheck, tables
  <2>2. /\ job'[w].step = "touch" /\ job'[w].m = m /\ Others(w)
        /\ job'[w].drop = held[m] \ S /\ job'[w].keep = held[m] \cap S
        /\ job'[w].mend \subseteq held[m]
    BY <1>3, AfterUpdateCheck DEF Others
  <2>3. Wrote(w)'
    BY <2>1, <2>2 DEF Wrote
  <2> QED
    BY <2>1, <2>2, <2>3, WroteKept DEF AssignedAreHeld, IsHeld
<1>4. ASSUME UpdateTouch(w)
      PROVE  AssignedAreHeld' /\ AllWrote'
  <2>1. /\ held' = held /\ job[w].step = "touch" /\ job[w].m \in Assignment
        /\ status' = [a \in Asset |-> IF a \in job[w].mend THEN "ASSIGNED" ELSE status[a]]
    BY <1>4 DEF UpdateTouch, JobsFit, Fit, TypeOK
  <2>2. /\ job'[w].step = "relink" /\ job'[w].m = job[w].m /\ Others(w)
        /\ job'[w].drop = job[w].drop /\ job'[w].keep = job[w].keep
    BY <1>4, AfterUpdateTouch
  <2>3. Wrote(w)' /\ job[w].mend \subseteq held[job[w].m]
    BY <1>0, <2>1, <2>2 DEF Wrote
  <2>4. AssignedAreHeld'
    BY <2>1, <2>3 DEF AssignedAreHeld, IsHeld
  <2> QED
    BY <2>1, <2>2, <2>3, <2>4, WroteKept
<1>5. ASSUME UpdateLink(w)
      PROVE  AssignedAreHeld' /\ AllWrote'
  <2> DEFINE S == job[w].keep \cup job[w].add
  <2>1. /\ job'[w].step = "mark" /\ job'[w].m = job[w].m
        /\ job'[w].add = job[w].add /\ Others(w)
    BY <1>5, AfterUpdateLink
  <2>2. /\ held' = [held EXCEPT ![job[w].m] = S] /\ job[w].step = "relink"
        /\ status' = Relinked(job[w].m, S)
    BY <1>5 DEF UpdateLink, SetAssets
  <2>3. job[w].m \in Assignment /\ S \in SUBSET Asset
    BY <2>2 DEF JobsFit, Fit, TypeOK, Job
  <2>4. held[job[w].m] \ S \subseteq InHand(w) /\ job[w].add \subseteq S
    BY <1>0, <2>2 DEF Wrote, InHand
  <2> HIDE DEF S
  <2>5. Wrote(w)'
    <3>1. held'[job[w].m] = S
      BY <2>2, <2>3, TableAfter
    <3> QED
      BY <2>1, <2>4, <3>1 DEF Wrote
  <2>6. AllWrote'
    BY <2>1, <2>2, <2>4, <2>5, WroteTable
  <2> QED
    BY <2>2, <2>3, <2>6, SetAssetsStrands
<1>6. ASSUME MarkRemoved(w)
      PROVE  AssignedAreHeld' /\ AllWrote'
  <2>1. /\ job'[w].step = "mark" /\ job'[w].m = job[w].m
        /\ job'[w].add = job[w].add /\ Others(w)
        /\ \E a \in job[w].drop :
              status' = IF Holders(a) \ {job[w].m} = {}
                        THEN [status EXCEPT ![a] = "AVAILABLE"] ELSE status
    BY <1>6, AfterMarkRemoved
  <2>2. held' = held /\ job[w].step = "mark"
    BY <1>6 DEF MarkRemoved, tables
  <2>3. Wrote(w)'
    BY <1>0, <2>1, <2>2 DEF Wrote
  <2>4. AssignedAreHeld'
    BY <2>1, <2>2 DEF AssignedAreHeld, IsHeld, TypeOK
  <2> QED
    BY <2>1, <2>2, <2>3, <2>4, WroteKept
<1>7. ASSUME MarkAdded(w)
      PROVE  AssignedAreHeld' /\ AllWrote'
  <2>1. /\ job'[w].step = "mark" /\ job'[w].m = job[w].m
        /\ job'[w].add \subseteq job[w].add /\ Others(w)
        /\ \E a \in job[w].add : status' = [status EXCEPT ![a] = "ASSIGNED"]
    BY <1>7, AfterMarkAdded
  <2>2. held' = held /\ job[w].step = "mark" /\ job[w].m \in Assignment
    BY <1>7 DEF MarkAdded, tables, JobsFit, Fit, TypeOK
  <2>3. Wrote(w)' /\ job[w].add \subseteq held[job[w].m]
    BY <1>0, <2>1, <2>2 DEF Wrote
  <2>4. AssignedAreHeld'
    BY <2>1, <2>2, <2>3 DEF AssignedAreHeld, IsHeld, TypeOK
  <2> QED
    BY <2>1, <2>2, <2>3, <2>4, WroteKept
<1>8. ASSUME MarkDone(w) \/ ReferenceLost(w) \/ Crash(w)
      PROVE  AssignedAreHeld' /\ AllWrote'
  <2>1. held' = held /\ status' = status
    BY <1>8 DEF MarkDone, ReferenceLost, Crash, tables
  <2>2. Others(w) /\ Wrote(w)'
    BY <1>8, AfterTheEnd, IdleTyped DEF Wrote
  <2> QED
    BY <2>1, <2>2, WroteKept DEF AssignedAreHeld, IsHeld
<1>9. ASSUME NEW m \in Assignment, ReturnBegin(w, m)
      PROVE  AssignedAreHeld' /\ AllWrote'
  <2>1. held' = held /\ status' = status
    BY <1>9 DEF ReturnBegin, tables
  <2>2. Others(w) /\ Wrote(w)'
    BY <1>9, AfterReturnBegin DEF Wrote, Others
  <2> QED
    BY <2>1, <2>2, WroteKept DEF AssignedAreHeld, IsHeld
<1>10. ASSUME NEW c \in Condition, ReturnRecord(w, c)
       PROVE  AssignedAreHeld' /\ AllWrote'
  <2>1. held' = held /\ status' = status
    BY <1>10 DEF ReturnRecord
  <2>2. Others(w) /\ Wrote(w)'
    BY <1>10, AfterReturnRecord DEF Wrote
  <2> QED
    BY <2>1, <2>2, WroteKept DEF AssignedAreHeld, IsHeld
<1>11. ASSUME ReturnRemove(w)
       PROVE  AssignedAreHeld' /\ AllWrote'
  <2> DEFINE m == job[w].m
             a == job[w].cur
             S == held[m] \ {a}
  <2>1. Others(w) /\ Wrote(w)'
    BY <1>11, AfterReturnRemove DEF Wrote
  <2>2. /\ held' = [held EXCEPT ![m] = S] /\ job[w].step = "remove"
        /\ status' = IF Holders(a) \ {m} = {}
                     THEN [status EXCEPT ![a] = "AVAILABLE"] ELSE status
    BY <1>11 DEF ReturnRemove
  <2>3. m \in Assignment /\ a \in Asset
    BY <2>2 DEF JobsFit, Fit, TypeOK
  <2>4. held[m] \ S \subseteq InHand(w)
    BY <2>3, NoAssetAssumption DEF InHand
  <2>5. AllWrote'
    BY <2>1, <2>2, <2>4, WroteTable
  <2>6. held'[m] = S /\ \A n \in Assignment \ {m} : held'[n] = held[n]
    BY <2>2, <2>3, TableAfter
  <2>7. ASSUME NEW b \in Asset, status'[b] = "ASSIGNED"
        PROVE  IsHeld(b)'
    <3>1. CASE b = a
      <4>1. PICK n \in Assignment \ {m} : a \in held[n]
        BY <2>2, <2>3, <2>7, <3>1 DEF Holders, TypeOK
      <4> QED
        BY <2>6, <3>1, <4>1 DEF IsHeld
    <3>2. CASE b # a
      <4>1. status[b] = "ASSIGNED"
        BY <2>2, <2>7, <3>2 DEF TypeOK
      <4>2. PICK n \in Assignment : b \in held[n]
        BY <4>1 DEF AssignedAreHeld, IsHeld
      <4> QED
        BY <2>6, <3>2, <4>2 DEF IsHeld
    <3> QED
      BY <3>1, <3>2
  <2> QED
    BY <2>5, <2>7 DEF AssignedAreHeld
<1>12. ASSUME ReturnDecide(w)
       PROVE  AssignedAreHeld' /\ AllWrote'
  <2>1. held' = held /\ status' = status
    BY <1>12 DEF ReturnDecide, tables
  <2>2. /\ Others(w) /\ job'[w].step = "stamp" /\ job'[w].cur = job[w].cur
        /\ job'[w].mark = "ASSIGNED" <=> Holders(job[w].cur) # {}
    BY <1>12, AfterReturnDecide
  <2>3. Wrote(w)'
    BY <2>1, <2>2 DEF Wrote, IsHeld, Holders
  <2> QED
    BY <2>1, <2>2, <2>3, WroteKept DEF AssignedAreHeld, IsHeld
<1>13. ASSUME ReturnStamp(w)
       PROVE  AssignedAreHeld' /\ AllWrote'
  <2>1. /\ held' = held /\ job[w].step = "stamp"
        /\ status' = [status EXCEPT ![job[w].cur] = job[w].mark]
    BY <1>13 DEF ReturnStamp, tables
  <2>2. Others(w) /\ Wrote(w)'
    BY <1>13, AfterReturnStamp, IdleTyped DEF Wrote
  <2>3. job[w].mark = "ASSIGNED" => IsHeld(job[w].cur)
    BY <1>0, <2>1 DEF Wrote
  <2>4. AssignedAreHeld'
    BY <2>1, <2>3 DEF AssignedAreHeld, IsHeld, TypeOK
  <2> QED
    BY <2>1, <2>2, <2>4, WroteKept
<1> QED
  BY <1>1, <1>2, <1>3, <1>4, <1>5, <1>6, <1>7, <1>8, <1>9, <1>10, <1>11, <1>12,
     <1>13 DEF Handler

\* An admin page that takes only assets of T from an assignment.
LEMMA WrotePage ==
    ASSUME TypeOK, JobsFit, AllWrote, job' = job, NEW m \in Assignment, NEW S, NEW T,
           held' = [held EXCEPT ![m] = S], held[m] \ S \subseteq T,
           Overlaps(Busy, m, T) \subseteq faults', "overlap" \notin faults'
    PROVE  AllWrote'
<1>1. \A v \in Busy : job[v].m # m /\ InHand(v) \cap T = {}
  BY MeetsNobody
<1>2. ASSUME NEW v \in Worker
      PROVE  Wrote(v)'
  <2>1. job[v].step # "idle" => job[v].m # m /\ InHand(v) \cap (held[m] \ S) = {}
    BY <1>1 DEF Busy
  <2>2. Wrote(v) /\ job'[v] = job[v]
    BY DEF AllWrote
  <2> QED
    BY <2>1, <2>2, TableAfter, WroteStays
<1> QED
  BY <1>2 DEF AllWrote

LEMMA PagesStrand ==
    ASSUME TypeOK, JobsFit, Vacant, HeldAssets, AssignedAreHeld, AllWrote, AdminSite,
           NoFault({"overlap", "delete", "staff", "fix"})'
    PROVE  AssignedAreHeld' /\ AllWrote'
<1>1. "overlap" \notin faults'
  BY DEF NoFault
<1>2. ASSUME NEW m \in Assignment, NEW S \in SUBSET Asset, AdminAdd(m, S)
      PROVE  AssignedAreHeld' /\ AllWrote'
  <2>1. /\ job' = job /\ held' = [held EXCEPT ![m] = S]
        /\ status' = [a \in Asset |-> IF a \in S THEN "ASSIGNED" ELSE status[a]]
        /\ Overlaps(Busy, m, S) \subseteq faults' /\ m \notin live
    BY <1>2 DEF AdminAdd, TypeOK
  <2>2. held[m] = {}
    BY <2>1 DEF Vacant
  <2>3. AllWrote'
    BY <1>1, <2>1, <2>2, WrotePage
  <2>4. held'[m] = S /\ \A n \in Assignment \ {m} : held'[n] = held[n]
    BY <2>1, TableAfter
  <2> QED
    BY <2>1, <2>2, <2>3, <2>4 DEF AssignedAreHeld, IsHeld
<1>3. ASSUME NEW m \in Assignment, NEW S \in SUBSET Asset, AdminChange(m, S)
      PROVE  AssignedAreHeld' /\ AllWrote'
  <2>1. /\ job' = job /\ held' = [held EXCEPT ![m] = S]
        /\ status' = [a \in Asset |->
                        IF a \in S \/ (a \in held[m] /\ Holders(a) # {m})
                        THEN "ASSIGNED" ELSE Relinked(m, S)[a]]
        /\ Overlaps(Busy, m, S \cup held[m]) \subseteq faults'
    BY <1>3 DEF AdminChange
  <2>2. AllWrote'
    BY <1>1, <2>1, WrotePage
  <2>3. held'[m] = S /\ \A n \in Assignment \ {m} : held'[n] = held[n]
    BY <2>1, TableAfter
  <2>4. ASSUME NEW a \in Asset, status'[a] = "ASSIGNED"
        PROVE  IsHeld(a)'
    <3>1. CASE a \in S
      BY <2>3, <3>1 DEF IsHeld
    <3>2. CASE a \notin S /\ a \in held[m]
      <4>1. Holders(a) # {m}
        BY <2>1, <2>4, <3>2 DEF Relinked
      <4>2. PICK n \in Assignment \ {m} : a \in held[n]
        BY <3>2, <4>1 DEF Holders
      <4> QED
        BY <2>3, <4>2 DEF IsHeld
    <3>3. CASE a \notin S /\ a \notin held[m]
      <4>1. status[a] = "ASSIGNED"
        BY <2>1, <2>4, <3>3 DEF Relinked
      <4> QED
        BY <2>3, <3>3, <4>1 DEF AssignedAreHeld, IsHeld
    <3> QED
      BY <3>1, <3>2, <3>3
  <2> QED
    BY <2>2, <2>4 DEF AssignedAreHeld
<1>4. ASSUME NEW m \in Assignment, AdminResave(m)
      PROVE  AssignedAreHeld' /\ AllWrote'
  <2>1. /\ job' = job /\ held' = held
        /\ status' = [a \in Asset |-> IF a \in held[m] THEN "ASSIGNED" ELSE status[a]]
    BY <1>4 DEF AdminResave, tables
  <2> QED
    BY <2>1 DEF AssignedAreHeld, AllWrote, Wrote, IsHeld
<1>5. ASSUME NEW m, NEW a, NEW s, AdminDelete(m) \/ StaffMark(a, s) \/ Fix(a)
      PROVE  FALSE
  BY <1>5 DEF AdminDelete, StaffMark, Fix, NoFault
<1> QED
  BY <1>2, <1>3, <1>4, <1>5 DEF AdminSite

LEMMA StrandedStep ==
    ASSUME Typed, Vacant, Custody, NoneStranded, [Next]_vars
    PROVE  NoneStranded'
<1> SUFFICES ASSUME NoFault({"overlap", "delete", "staff", "fix"})'
             PROVE  AssignedAreHeld' /\ AllWrote'
  BY DEF NoneStranded
<1>1. /\ TypeOK /\ JobsFit /\ HeldAssets /\ Apart /\ Reads
      /\ AssignedAreHeld /\ AllWrote
  BY FaultsStay DEF Typed, Custody, NoneStranded, NoFault
<1>2. CASE \E w \in Worker : Handler(w)
  BY <1>1, <1>2, HandlerStrands
<1>3. CASE AdminSite
  BY <1>1, <1>3, PagesStrand
<1>4. CASE UNCHANGED vars
  BY <1>1, <1>4 DEF vars, tables, AssignedAreHeld, AllWrote, Wrote, IsHeld
<1> QED
  BY <1>2, <1>3, <1>4 DEF Next

\* An asset marked ASSIGNED has a holder at every moment, also while handlers
\* are at work on it and when one is killed.
THEOREM NoAssetIsStranded == Spec => []AssignedIsHeld
<1>1. Init => Vacant /\ NoneStranded
  BY IdleTyped DEF Init, Vacant, NoneStranded, AssignedAreHeld, AllWrote, Wrote
<1>2. NoneStranded => AssignedIsHeld
  BY DEF NoneStranded, AssignedAreHeld, AssignedIsHeld, IsHeld, Holders
<1> QED
  BY <1>1, <1>2, StepVacant, StrandedStep, CustodyAlways, PTL DEF Spec

-----------------------------------------------------------------------------
\* What a step leaves of the assignment and of the assets in hand of handler v.
Spared(v) ==
    job[v].step # "idle" =>
        /\ held'[job[v].m] = held[job[v].m]
        /\ \A a \in InHand(v) : condition'[a] = condition[a]

LEMMA NotedStays ==
    ASSUME JobsFit, NEW v \in Worker, Noted(v), job'[v] = job[v], Spared(v)
    PROVE  Noted(v)'
<1>1. CASE job[v].step = "idle"
  BY <1>1 DEF Noted
<1>2. CASE job[v].step # "idle"
  <2>1. /\ held'[job[v].m] = held[job[v].m]
        /\ \A a \in job[v].drop : condition'[a] = condition[a]
    BY <1>2 DEF Spared, InHand
  <2>2. job[v].step \in {"decide", "stamp"} => condition'[job[v].cur] = condition[job[v].cur]
    <3>1. job[v].step \in {"decide", "stamp"} => job[v].cur \in InHand(v)
      BY NoAssetAssumption DEF JobsFit, Fit, InHand
    <3> QED
      BY <1>2, <3>1 DEF Spared
  <2> QED
    BY <2>1, <2>2 DEF Noted, Good
<1> QED
  BY <1>1, <1>2

\* Neither the table nor a condition changes.
LEMMA NotedKept ==
    ASSUME JobsFit, NEW w \in Worker, AllNoted, Others(w),
           held' = held, condition' = condition, Noted(w)'
    PROVE  AllNoted'
<1>1. ASSUME NEW v \in Worker \ {w}
      PROVE  Noted(v)'
  <2>1. Noted(v) /\ job'[v] = job[v] /\ Spared(v)
    BY DEF AllNoted, Others, Spared
  <2> QED
    BY <2>1, NotedStays
<1> QED
  BY <1>1 DEF AllNoted

\* A handler changes the set of its assignment to S, and the condition of
\* assets in hand.
LEMMA NotedTable ==
    ASSUME TypeOK, JobsFit, Apart, AllNoted, NEW w \in Worker, Others(w), Noted(w)',
           NEW S, held' = [held EXCEPT ![job[w].m] = S], job[w].step # "idle",
           \A a \in Asset \ InHand(w) : condition'[a] = condition[a]
    PROVE  AllNoted'
<1>1. job[w].m \in Assignment
  BY DEF JobsFit, Fit, TypeOK
<1>2. \A n \in Assignment \ {job[w].m} : held'[n] = held[n]
  BY <1>1, TableAfter
<1>3. ASSUME NEW v \in Worker \ {w}
      PROVE  Noted(v)'
  <2>1. CASE job[v].step = "idle"
    BY <2>1 DEF Noted, Others
  <2>2. CASE job[v].step # "idle"
    <3>1. job[v].m # job[w].m /\ InHand(v) \cap InHand(w) = {}
      BY <2>2 DEF Apart
    <3>2. job[v].m \in Assignment /\ InHand(v) \subseteq Asset
      BY <2>2 DEF JobsFit, Fit, TypeOK, Job, InHand
    <3>3. Spared(v)
      BY <1>2, <3>1, <3>2 DEF Spared
    <3>4. Noted(v) /\ job'[v] = job[v]
      BY DEF AllNoted, Others
    <3> QED
      BY <3>3, <3>4, NotedStays
  <2> QED
    BY <2>1, <2>2
<1> QED
  BY <1>3 DEF AllNoted

\* An asset removed by another handler is stamped by that one.
LEMMA FreedStays ==
    ASSUME NEW w \in Worker, Others(w), job[w].step \notin {"decide", "stamp"}, NEW a, Freed(a)
    PROVE  Freed(a)'
  BY DEF Others, Freed

\* A handler's step that changes neither the table nor a status nor a condition.
LEMMA NothingFreed ==
    ASSUME HeldAreGood, FreeAreGood, NEW w \in Worker, Others(w),
           job[w].step \notin {"decide", "stamp"},
           UNCHANGED <<held, status, condition>>
    PROVE  HeldAreGood' /\ FreeAreGood'
<1>1. HeldAreGood'
  BY DEF HeldAreGood, IsHeld, Good
<1>2. ASSUME NEW a \in Hardware, status'[a] = "AVAILABLE", ~Good(a)'
      PROVE  Freed(a)'
  <2>1. Freed(a)
    BY <1>2 DEF FreeAreGood, Good
  <2> QED
    BY <2>1, FreedStays
<1> QED
  BY <1>1, <1>2 DEF FreeAreGood

\* assets.set() gives hardware out as good, and frees what was held.
LEMMA SetAssetsGood ==
    ASSUME TypeOK, HeldAreGood, FreeAreGood, NEW w \in Worker, Others(w),
           job[w].step \notin {"decide", "stamp"},
           NEW m \in Assignment, NEW S \in SUBSET Asset, SetAssets(m, S)
    PROVE  HeldAreGood' /\ FreeAreGood'
<1>1. /\ held'[m] = S /\ \A n \in Assignment \ {m} : held'[n] = held[n]
      /\ \A a \in Asset : condition'[a] = IF a \in S \ held[m] THEN "GOOD" ELSE condition[a]
  BY SetAssetsTyped DEF SetAssets
<1>2. ASSUME NEW a \in Hardware, NEW n \in Assignment, a \in held'[n]
      PROVE  Good(a)'
  <2>1. a \in Asset
    BY DEF Asset
  <2>2. CASE a \in S \ held[m]
    BY <1>1, <2>1, <2>2 DEF Good
  <2>3. CASE a \notin S \ held[m]
    <3>1. a \in held[n]
      BY <1>1, <1>2, <2>3
    <3> QED
      BY <1>1, <2>1, <2>3, <3>1 DEF HeldAreGood, IsHeld, Good
  <2> QED
    BY <2>2, <2>3
<1>3. ASSUME NEW a \in Hardware, status'[a] = "AVAILABLE", ~Good(a)'
      PROVE  Freed(a)'
  <2>1. a \in Asset
    BY DEF Asset
  <2>2. status'[a] = IF a \in S \ held[m] THEN "ASSIGNED"
                     ELSE IF a \in held[m] \ S /\ Holders(a) \ {m} = {} THEN "AVAILABLE"
                     ELSE status[a]
    BY <2>1 DEF SetAssets, Relinked
  <2>3. a \notin S \ held[m] /\ ~Good(a)
    BY <1>1, <1>3, <2>1 DEF Good
  <2>4. a \notin held[m]
    BY <2>3 DEF HeldAreGood, IsHeld
  <2>5. Freed(a)
    BY <1>3, <2>2, <2>3, <2>4 DEF FreeAreGood
  <2> QED
    BY <2>5, FreedStays
<1> QED
  BY <1>2, <1>3 DEF HeldAreGood, FreeAreGood, IsHeld

LEMMA HandlerNotes ==
    ASSUME TypeOK, JobsFit, OneEach, Apart, Reads, HeldAreGood, FreeAreGood, AllNoted,
           NEW w \in Worker, Handler(w), "crash" \notin faults'
    PROVE  HeldAreGood' /\ FreeAreGood' /\ AllNoted'
<1>0. Read(w) /\ Noted(w)
  BY DEF Reads, AllNoted
<1>1. ASSUME NEW m \in Assignment, NEW S \in SUBSET Asset, CreateCheck(w, m, S)
      PROVE  HeldAreGood' /\ FreeAreGood' /\ AllNoted'
  <2>1. UNCHANGED <<held, status, condition>> /\ job[w].step = "idle"
    BY <1>1, IdleTyped DEF CreateCheck
  <2>2. Others(w) /\ Noted(w)'
    BY <1>1, AfterCreateCheck DEF Noted, Others
  <2> QED
    BY <2>1, <2>2, NotedKept, NothingFreed
<1>2. ASSUME CreateLink(w)
      PROVE  HeldAreGood' /\ FreeAreGood' /\ AllNoted'
  <2>1. /\ job'[w].step = "mark" /\ job'[w].drop = job[w].drop /\ Others(w)
    BY <1>2, AfterCreateLink
  <2>2. SetAssets(job[w].m, job[w].add) /\ job[w].step = "link"
    BY <1>2 DEF CreateLink
  <2>3. job[w].m \in Assignment /\ job[w].add \in SUBSET Asset
    BY <2>2 DEF JobsFit, Fit, TypeOK, Job
  <2>4. Noted(w)'
    BY <1>0, <2>1, <2>2 DEF Read, Noted
  <2>5. /\ held' = [held EXCEPT ![job[w].m] = job[w].add]
        /\ \A a \in Asset \ InHand(w) : condition'[a] = condition[a]
    BY <2>2 DEF SetAssets, InHand
  <2>6. AllNoted'
    BY <2>1, <2>2, <2>4, <2>5, NotedTable
  <2> QED
    BY <2>1, <2>2, <2>3, <2>6, SetAssetsGood
<1>3. ASSUME NEW m \in Assignment, NEW S \in SUBSET Asset, UpdateCheck(w, m, S)
      PROVE  HeldAreGood' /\ FreeAreGood' /\ AllNoted'
  <2>1. UNCHANGED <<held, status, condition>> /\ job[w].step = "idle"
    BY <1>3, IdleTyped DEF UpdateCheck, tables
  <2>2. /\ job'[w].step = "touch" /\ Others(w) /\ job'[w].drop = held[m] \ S
    BY <1>3, AfterUpdateCheck DEF Others
  <2>3. Noted(w)'
    BY <2>1, <2>2 DEF Noted, HeldAreGood, IsHeld, Good
  <2> QED
    BY <2>1, <2>2, <2>3, NotedKept, NothingFreed
<1>4. ASSUME UpdateTouch(w)
      PROVE  HeldAreGood' /\ FreeAreGood' /\ AllNoted'
  <2>1. /\ held' = held /\ condition' = condition /\ job[w].step = "touch"
        /\ status' = [a \in Asset |-> IF a \in job[w].mend THEN "ASSIGNED" ELSE status[a]]
    BY <1>4 DEF UpdateTouch
  <2>2. job'[w].step = "relink" /\ job'[w].drop = job[w].drop /\ Others(w)
    BY <1>4, AfterUpdateTouch
  <2>3. AllNoted'
    <3>1. Noted(w)'
      BY <1>0, <2>1, <2>2 DEF Noted, Good
    <3> QED
      BY <2>1, <2>2, <3>1, NotedKept
  <2>4. HeldAreGood'
    BY <2>1 DEF HeldAreGood, IsHeld, Good
  <2>5. ASSUME NEW a \in Hardware, status'[a] = "AVAILABLE", ~Good(a)'
        PROVE  Freed(a)'
    <3>1. Freed(a)
      BY <2>1, <2>5 DEF FreeAreGood, Good, Asset
    <3> QED
      BY <2>1, <2>2, <3>1, FreedStays
  <2> QED
    BY <2>3, <2>4, <2>5 DEF FreeAreGood
<1>5. ASSUME UpdateLink(w)
      PROVE  HeldAreGood' /\ FreeAreGood' /\ AllNoted'
  <2> DEFINE S == job[w].keep \cup job[w].add
  <2>1. job'[w].step = "mark" /\ job'[w].drop = job[w].drop /\ Others(w)
    BY <1>5, AfterUpdateLink
  <2>2. SetAssets(job[w].m, S) /\ job[w].step = "relink"
    BY <1>5 DEF UpdateLink
  <2>3. job[w].m \in Assignment /\ S \in SUBSET Asset /\ job[w].drop \subseteq Asset
    BY <2>2 DEF JobsFit, Fit, TypeOK, Job
  <2>4. S \ held[job[w].m] \subseteq job[w].add /\ job[w].drop \cap S = {}
    BY <1>0, <2>2 DEF Read
  <2> HIDE DEF S
  <2>5. /\ held' = [held EXCEPT ![job[w].m] = S]
        /\ \A a \in Asset : condition'[a] = IF a \in S \ held[job[w].m] THEN "GOOD"
                                            ELSE condition[a]
    BY <2>2 DEF SetAssets
  <2>6. Noted(w)'
    <3>1. \A a \in job[w].drop \cap Hardware : Good(a)
      BY <1>0, <2>2 DEF Noted
    <3> QED
      BY <2>1, <2>3, <2>4, <2>5, <3>1 DEF Noted, Good
  <2>7. \A a \in Asset \ InHand(w) : condition'[a] = condition[a]
    BY <2>4, <2>5 DEF InHand
  <2>8. AllNoted'
    BY <2>1, <2>2, <2>5, <2>6, <2>7, NotedTable
  <2> QED
    BY <2>1, <2>2, <2>3, <2>8, SetAssetsGood
<1>6. ASSUME MarkRemoved(w)
      PROVE  HeldAreGood' /\ FreeAreGood' /\ AllNoted'
  <2>1. /\ job'[w].step = "mark" /\ job'[w].drop \subseteq job[w].drop /\ Others(w)
    BY <1>6, AfterMarkRemoved
  <2>2. held' = held /\ condition' = condition /\ job[w].step = "mark"
    BY <1>6 DEF MarkRemoved, tables
  <2>3. PICK d \in job[w].drop : status' = IF Holders(d) \ {job[w].m} = {}
                                           THEN [status EXCEPT ![d] = "AVAILABLE"]
                                           ELSE status
    BY <1>6, AfterMarkRemoved
  <2>4. (d \in Hardware => Good(d)) /\ Noted(w)'
    BY <1>0, <2>1, <2>2, <2>3 DEF Noted, Good
  <2>5. AllNoted'
    BY <2>1, <2>2, <2>4, NotedKept
  <2>6. HeldAreGood'
    BY <2>2 DEF HeldAreGood, IsHeld, Good
  <2>7. ASSUME NEW a \in Hardware, status'[a] = "AVAILABLE", ~Good(a)'
        PROVE  Freed(a)'
    <3>1. a # d /\ ~Good(a)
      BY <2>2, <2>4, <2>7 DEF Good
    <3>2. Freed(a)
      BY <2>3, <2>7, <3>1 DEF FreeAreGood, TypeOK
    <3> QED
      BY <2>1, <2>2, <3>2, FreedStays
  <2> QED
    BY <2>5, <2>6, <2>7 DEF FreeAreGood
<1>7. ASSUME MarkAdded(w)
      PROVE  HeldAreGood' /\ FreeAreGood' /\ AllNoted'
  <2>1. job'[w].step = "mark" /\ job'[w].drop = job[w].drop /\ Others(w)
    BY <1>7, AfterMarkAdded
  <2>2. held' = held /\ condition' = condition /\ job[w].step = "mark"
    BY <1>7 DEF MarkAdded, tables
  <2>3. Noted(w)'
    BY <1>0, <2>1, <2>2 DEF Noted, Good
  <2>4. AllNoted'
    BY <2>1, <2>2, <2>3, NotedKept
  <2>5. HeldAreGood'
    BY <2>2 DEF HeldAreGood, IsHeld, Good
  <2>6. ASSUME NEW a \in Hardware, status'[a] = "AVAILABLE", ~Good(a)'
        PROVE  Freed(a)'
    <3>1. PICK d \in job[w].add : status' = [status EXCEPT ![d] = "ASSIGNED"]
      BY <1>7, AfterMarkAdded
    <3>2. status \in [Asset -> Status] /\ a \in Asset
      BY DEF TypeOK, Asset
    <3>3. status[a] = "AVAILABLE"
      BY <2>6, <3>1, <3>2
    <3>4. ~Good(a)
      BY <2>2, <2>6 DEF Good
    <3>5. Freed(a)
      BY <3>3, <3>4 DEF FreeAreGood
    <3> QED
      BY <2>1, <2>2, <3>5, FreedStays
  <2> QED
    BY <2>4, <2>5, <2>6 DEF FreeAreGood
<1>8. ASSUME MarkDone(w) \/ ReferenceLost(w)
      PROVE  HeldAreGood' /\ FreeAreGood' /\ AllNoted'
  <2>1. UNCHANGED <<held, status, condition>> /\ job[w].step \notin {"decide", "stamp"}
    BY <1>8 DEF MarkDone, ReferenceLost, tables
  <2>2. Others(w) /\ Noted(w)'
    BY <1>8, AfterTheEnd, IdleTyped DEF Noted
  <2> QED
    BY <2>1, <2>2, NotedKept, NothingFreed
<1>9. ASSUME NEW m \in Assignment, ReturnBegin(w, m)
      PROVE  HeldAreGood' /\ FreeAreGood' /\ AllNoted'
  <2>1. UNCHANGED <<held, status, condition>> /\ job[w].step = "idle"
    BY <1>9, IdleTyped DEF ReturnBegin, tables
  <2>2. /\ Others(w) /\ job'[w].step = "record" /\ job'[w].m = m
        /\ job'[w].drop = held[m]
    BY <1>9, AfterReturnBegin DEF Others
  <2>3. Noted(w)'
    BY <2>1, <2>2 DEF Noted
  <2> QED
    BY <2>1, <2>2, <2>3, NotedKept, NothingFreed
<1>10. ASSUME NEW c \in Condition, ReturnRecord(w, c)
       PROVE  HeldAreGood' /\ FreeAreGood' /\ AllNoted'
  <2>1. UNCHANGED <<held, status, condition>> /\ job[w].step = "record"
    BY <1>10 DEF ReturnRecord
  <2>2. /\ Others(w) /\ job'[w].step = "remove" /\ job'[w].m = job[w].m
        /\ job'[w].drop = job[w].drop \ {job'[w].cur} /\ job'[w].cur \in job[w].drop
    BY <1>10, AfterReturnRecord
  <2>3. Noted(w)'
    BY <1>0, <2>1, <2>2 DEF Noted
  <2> QED
    BY <2>1, <2>2, <2>3, NotedKept, NothingFreed
<1>11. ASSUME ReturnRemove(w)
       PROVE  HeldAreGood' /\ FreeAreGood' /\ AllNoted'
  <2> DEFINE m == job[w].m
             d == job[w].cur
             S == held[m] \ {d}
  <2>1. /\ Others(w) /\ job'[w].step = "decide" /\ job'[w].m = m /\ job'[w].cur = d
        /\ job'[w].drop = job[w].drop /\ job'[w].mark = job[w].mark
    BY <1>11, AfterReturnRemove
  <2>2. /\ held' = [held EXCEPT ![m] = S] /\ job[w].step = "remove"
        /\ condition' = [condition EXCEPT ![d] = job[w].mark]
        /\ \A b \in Asset \ {d} : status'[b] = status[b]
    BY <1>11 DEF ReturnRemove, TypeOK
  <2>3. m \in Assignment /\ d \in Asset
    BY <2>2 DEF JobsFit, Fit, TypeOK
  <2>4. held'[m] = S /\ \A n \in Assignment \ {m} : held'[n] = held[n]
    BY <2>2, <2>3, TableAfter
  <2>5. /\ condition'[d] = job[w].mark
        /\ \A b \in Asset \ {d} : condition'[b] = condition[b]
    BY <2>2, <2>3 DEF TypeOK
  <2>6. d \in held[m] \ job[w].drop /\ job[w].drop \subseteq held[m]
    BY <1>0, <2>2 DEF Noted
  <2>7. Noted(w)'
    BY <2>1, <2>4, <2>5, <2>6 DEF Noted
  <2>8. d \in InHand(w)
    BY <2>3, NoAssetAssumption DEF InHand
  <2>9. AllNoted'
    BY <2>1, <2>2, <2>5, <2>7, <2>8, NotedTable
  <2>10. ASSUME NEW a \in Hardware, NEW n \in Assignment, a \in held'[n]
         PROVE  Good(a)'
    <3>1. a \in held[n] /\ (n = m => a # d)
      BY <2>4, <2>10
    <3>2. a # d
      BY <2>3, <2>6, <3>1 DEF OneEach
    <3> QED
      BY <2>5, <3>1, <3>2 DEF HeldAreGood, IsHeld, Good, Asset
  <2>11. ASSUME NEW a \in Hardware, status'[a] = "AVAILABLE", ~Good(a)'
         PROVE  Freed(a)'
    <3>1. CASE a = d
      BY <2>1, <3>1 DEF Freed
    <3>2. CASE a # d
      <4>1. Freed(a)
        BY <2>2, <2>5, <2>11, <3>2 DEF FreeAreGood, Good, Asset
      <4> QED
        BY <2>1, <2>2, <4>1, FreedStays
    <3> QED
      BY <3>1, <3>2
  <2> QED
    BY <2>9, <2>10, <2>11 DEF HeldAreGood, FreeAreGood, IsHeld
<1>12. ASSUME ReturnDecide(w)
       PROVE  HeldAreGood' /\ FreeAreGood' /\ AllNoted'
  <2>1. UNCHANGED <<held, status, condition>> /\ job[w].step = "decide"
    BY <1>12 DEF ReturnDecide, tables
  <2>2. /\ Others(w) /\ job'[w].step = "stamp" /\ job'[w].m = job[w].m
        /\ job'[w].cur = job[w].cur /\ job'[w].drop = job[w].drop
        /\ job'[w].mark = "AVAILABLE" => job[w].mark = "GOOD"
    BY <1>12, AfterReturnDecide
  <2>3. Noted(w)'
    BY <1>0, <2>1, <2>2 DEF Noted, Good
  <2>4. AllNoted'
    BY <2>1, <2>2, <2>3, NotedKept
  <2>5. \A a : Freed(a) => Freed(a)'
    BY <2>1, <2>2 DEF Freed, Others
  <2> QED
    BY <2>1, <2>4, <2>5 DEF HeldAreGood, FreeAreGood, IsHeld, Good
<1>13. ASSUME ReturnStamp(w)
       PROVE  HeldAreGood' /\ FreeAreGood' /\ AllNoted'
  <2>1. /\ held' = held /\ condition' = condition /\ job[w].step = "stamp"
        /\ status' = [status EXCEPT ![job[w].cur] = job[w].mark]
    BY <1>13 DEF ReturnStamp, tables
  <2>2. /\ Others(w)
        /\ \/ job'[w].step = "idle"
           \/ /\ job'[w].step = "record" /\ job'[w].m = job[w].m
              /\ job'[w].drop = job[w].drop
    BY <1>13, AfterReturnStamp, IdleTyped
  <2>3. Noted(w)' /\ (job[w].mark = "AVAILABLE" => Good(job[w].cur))
    BY <1>0, <2>1, <2>2 DEF Noted
  <2>4. AllNoted'
    BY <2>1, <2>2, <2>3, NotedKept
  <2>5. ASSUME NEW a \in Hardware, status'[a] = "AVAILABLE", ~Good(a)'
        PROVE  Freed(a)'
    <3>1. a \in Asset /\ ~Good(a)
      BY <2>1, <2>5 DEF Good, Asset
    <3>2. a # job[w].cur
      BY <2>1, <2>3, <2>5, <3>1 DEF TypeOK
    <3>3. PICK v \in Worker : job[v].step \in {"decide", "stamp"} /\ job[v].cur = a
      BY <2>1, <2>5, <3>1, <3>2 DEF FreeAreGood, Freed, TypeOK
    <3> QED
      BY <2>2, <3>2, <3>3 DEF Freed, Others
  <2> QED
    BY <2>1, <2>4, <2>5 DEF HeldAreGood, FreeAreGood, IsHeld, Good
<1>14. ~Crash(w)
  BY DEF Crash
<1> QED
  BY <1>1, <1>2, <1>3, <1>4, <1>5, <1>6, <1>7, <1>8, <1>9, <1>10, <1>11, <1>12,
     <1>13, <1>14 DEF Handler

\* An admin page changes what one assignment holds and the condition of assets
\* of T, and meets no handler there.
LEMMA NotedPage ==
    ASSUME TypeOK, JobsFit, AllNoted, job' = job, NEW m \in Assignment, NEW S, NEW T,
           held' = [held EXCEPT ![m] = S],
           \A a \in Asset \ T : condition'[a] = condition[a],
           Overlaps(Busy, m, T) \subseteq faults', "overlap" \notin faults'
    PROVE  AllNoted'
<1>1. \A v \in Busy : job[v].m # m /\ InHand(v) \cap T = {}
  BY MeetsNobody
<1>2. ASSUME NEW v \in Worker
      PROVE  Noted(v)'
  <2>1. Spared(v)
    <3> SUFFICES ASSUME job[v].step # "idle"
                 PROVE  /\ held'[job[v].m] = held[job[v].m]
                        /\ \A a \in InHand(v) : condition'[a] = condition[a]
      BY DEF Spared
    <3>1. /\ job[v].m # m /\ InHand(v) \cap T = {}
          /\ job[v].m \in Assignment /\ InHand(v) \subseteq Asset
      BY <1>1 DEF Busy, JobsFit, Fit, TypeOK, Job, InHand
    <3> QED
      BY <3>1, TableAfter
  <2>2. Noted(v) /\ job'[v] = job[v]
    BY DEF AllNoted
  <2> QED
    BY <2>1, <2>2, NotedStays
<1> QED
  BY <1>2 DEF AllNoted

LEMMA PagesNote ==
    ASSUME TypeOK, JobsFit, HeldAreGood, FreeAreGood, AllNoted, AdminSite,
           NoFault({"overlap", "stale_choice", "crash", "staff", "fix"})'
    PROVE  HeldAreGood' /\ FreeAreGood' /\ AllNoted'
<1>1. "overlap" \notin faults'
  BY DEF NoFault
<1>f. job' = job => \A a : Freed(a) => Freed(a)'
  BY DEF Freed
<1>2. ASSUME NEW m \in Assignment, NEW S \in SUBSET Asset, AdminAdd(m, S)
      PROVE  HeldAreGood' /\ FreeAreGood' /\ AllNoted'
  <2>1. /\ job' = job /\ held' = [held EXCEPT ![m] = S]
        /\ \A a \in Asset : status'[a] = IF a \in S THEN "ASSIGNED" ELSE status[a]
        /\ \A a \in Asset : condition'[a] = IF a \in S THEN "GOOD" ELSE condition[a]
        /\ Overlaps(Busy, m, S) \subseteq faults'
    BY <1>2 DEF AdminAdd
  <2>2. AllNoted'
    BY <1>1, <2>1, NotedPage
  <2>3. held'[m] = S /\ \A n \in Assignment \ {m} : held'[n] = held[n]
    BY <2>1, TableAfter
  <2>4. HeldAreGood'
    BY <2>1, <2>3 DEF HeldAreGood, IsHeld, Good, Asset
  <2>5. FreeAreGood'
    BY <1>f, <2>1 DEF FreeAreGood, Good, Asset
  <2> QED
    BY <2>2, <2>4, <2>5
<1>3. ASSUME NEW m \in Assignment, NEW S \in SUBSET Asset, AdminChange(m, S)
      PROVE  HeldAreGood' /\ FreeAreGood' /\ AllNoted'
  <2>1. /\ job' = job /\ held' = [held EXCEPT ![m] = S]
        /\ status' = [a \in Asset |->
                        IF a \in S \/ (a \in held[m] /\ Holders(a) # {m})
                        THEN "ASSIGNED" ELSE Relinked(m, S)[a]]
        /\ \A a \in Asset : condition'[a] = IF a \in S THEN "GOOD" ELSE condition[a]
        /\ Overlaps(Busy, m, S \cup held[m]) \subseteq faults'
    BY <1>3 DEF AdminChange
  <2>2. AllNoted'
    BY <1>1, <2>1, NotedPage
  <2>3. held'[m] = S /\ \A n \in Assignment \ {m} : held'[n] = held[n]
    BY <2>1, TableAfter
  <2>4. HeldAreGood'
    BY <2>1, <2>3 DEF HeldAreGood, IsHeld, Good, Asset
  <2>5. ASSUME NEW a \in Hardware, status'[a] = "AVAILABLE", ~Good(a)'
        PROVE  Freed(a)'
    <3>1. a \in Asset /\ a \notin S /\ ~Good(a)
      BY <2>1, <2>5 DEF Good, Asset
    <3>2. a \notin held[m]
      BY <3>1 DEF HeldAreGood, IsHeld
    <3>3. status[a] = "AVAILABLE"
      BY <2>1, <2>5, <3>1, <3>2 DEF Relinked
    <3> QED
      BY <1>f, <2>1, <3>1, <3>3 DEF FreeAreGood
  <2> QED
    BY <2>2, <2>4, <2>5 DEF FreeAreGood
<1>4. ASSUME NEW m \in Assignment, AdminResave(m)
      PROVE  HeldAreGood' /\ FreeAreGood' /\ AllNoted'
  <2>1. /\ job' = job /\ held' = held /\ condition' = condition
        /\ \A a \in Asset : status'[a] = IF a \in held[m] THEN "ASSIGNED" ELSE status[a]
    BY <1>4 DEF AdminResave, tables
  <2>2. FreeAreGood'
    BY <1>f, <2>1 DEF FreeAreGood, Good, Asset
  <2> QED
    BY <2>1, <2>2 DEF HeldAreGood, IsHeld, Good, AllNoted, Noted
<1>5. ASSUME NEW m \in Assignment, AdminDelete(m)
      PROVE  HeldAreGood' /\ FreeAreGood' /\ AllNoted'
  <2>1. /\ job' = job /\ held' = [held EXCEPT ![m] = {}]
        /\ status' = status /\ condition' = condition
        /\ Overlaps(Busy, m, held[m]) \subseteq faults'
    BY <1>5 DEF AdminDelete
  <2>2. AllNoted'
    BY <1>1, <2>1, NotedPage
  <2>3. held'[m] = {} /\ \A n \in Assignment \ {m} : held'[n] = held[n]
    BY <2>1, TableAfter
  <2>4. HeldAreGood'
    BY <2>1, <2>3 DEF HeldAreGood, IsHeld, Good
  <2>5. FreeAreGood'
    BY <1>f, <2>1 DEF FreeAreGood, Good
  <2> QED
    BY <2>2, <2>4, <2>5
<1>6. ASSUME NEW a, NEW s, StaffMark(a, s) \/ Fix(a)
      PROVE  FALSE
  BY <1>6 DEF StaffMark, Fix, NoFault
<1> QED
  BY <1>2, <1>3, <1>4, <1>5, <1>6 DEF AdminSite

LEMMA NotedStep ==
    ASSUME Typed, Custody, ConditionNoted, [Next]_vars
    PROVE  ConditionNoted'
<1> DEFINE F == {"overlap", "stale_choice", "crash", "staff", "fix"}
<1> SUFFICES ASSUME NoFault(F)'
             PROVE  HeldAreGood' /\ FreeAreGood' /\ AllNoted'
  BY DEF ConditionNoted
<1>1. /\ TypeOK /\ JobsFit /\ OneEach /\ Apart /\ Reads
      /\ HeldAreGood /\ FreeAreGood /\ AllNoted /\ "crash" \notin faults'
  BY FaultsStay DEF Typed, Custody, ConditionNoted, NoFault
<1>2. CASE \E w \in Worker : Handler(w)
  BY <1>1, <1>2, HandlerNotes
<1>3. CASE AdminSite
  BY <1>1, <1>3, PagesNote
<1>4. CASE UNCHANGED vars
  <2>1. UNCHANGED <<held, status, condition, job>>
    BY <1>4 DEF vars, tables
  <2> QED
    BY <1>1, <2>1 DEF HeldAreGood, FreeAreGood, Freed, IsHeld, Good, AllNoted, Noted
<1> QED
  BY <1>2, <1>3, <1>4 DEF Next

\* Hardware returned damaged or lost is not offered as it is, once the handler
\* that takes it back has stamped it.
THEOREM DamageIsKept == Spec => []ConditionIsKept
<1>1. Init => ConditionNoted
  BY IdleTyped DEF Init, ConditionNoted, HeldAreGood, FreeAreGood, AllNoted, Noted,
                   Good, Asset
<1>2. ASSUME Typed, ConditionNoted PROVE ConditionIsKept
  <2>1. ASSUME NEW a \in Hardware, Freed(a) PROVE a \in InFlight
    <3>1. PICK w \in Worker : job[w].step \in {"decide", "stamp"} /\ job[w].cur = a
      BY <2>1 DEF Freed
    <3>2. w \in Busy /\ a # NoAsset
      BY <3>1, NoAssetAssumption DEF Busy, Asset
    <3> QED
      BY <3>1, <3>2 DEF InFlight, InHand
  <2> QED
    BY <1>2, <2>1 DEF ConditionNoted, FreeAreGood, ConditionIsKept, Good
<1> QED
  BY <1>1, <1>2, NotedStep, TypedAlways, CustodyAlways, PTL DEF Spec
=============================================================================
