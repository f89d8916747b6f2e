-------------------------- MODULE Onboarding_proofs --------------------------
(***************************************************************************)
(* For any number of requests and accounts: every variable keeps its type, *)
(* and unless a hazard that the property names has happened, IT is asked   *)
(* once to equip an employee, who is employed has his account, who is      *)
(* offboarded has none that works, and an erased employee stays erased.    *)
(***************************************************************************)
EXTENDS Onboarding, TLAPS

-----------------------------------------------------------------------------
(***************************************************************************)
(* Types.                                                                  *)
(***************************************************************************)
Logins == Account \cup {NoAccount}

LEMMA NoRowIsNoRow == NoRow \notin Row
<1> SUFFICES ASSUME NoRow \in Row PROVE FALSE
  OBVIOUS
<1>1. DOMAIN NoRow = {"del", "own", "told", "job", "login"}
  BY DEF Row
<1>2. DOMAIN NoRow = {"del", "none"}
  BY DEF NoRow
<1> QED
  BY <1>1, <1>2

\* A request that stands somewhere is busy, with a row.
LEMMA BusyTyped ==
    ASSUME TypeOK, NEW h \in Handler, handler[h] # Idle
    PROVE  /\ handler[h] \in Busy
           /\ handler[h].copy \in Row /\ handler[h].seen \in Row
  BY DEF TypeOK, Busy

LEMMA KindIsBusy ==
    ASSUME NEW h \in Handler, handler[h].kind # "idle"
    PROVE  handler[h] # Idle
  BY DEF Idle

LEMMA StoredTyped ==
    ASSUME NEW c \in Row
    PROVE  /\ Stored(c) \in Row
           /\ Stored(c).job = c.job /\ Stored(c).del = c.del
           /\ Stored(c).told = (c.told \/ (News(c) /\ it /\ ~c.del))
  BY DEF Stored, Row

LEMMA SyncTyped ==
    ASSUME TypeOK, NEW c \in Row
    PROVE  Sync(c) \in [Account -> {"none", "on", "off"}]
  BY DEF Sync, TypeOK, Row

LEMMA SaveTyped ==
    ASSUME TypeOK, NEW c \in Row, Save(c)
    PROVE  /\ emp' \in Row
           /\ user' \in [Account -> {"none", "on", "off"}]
           /\ mails' \in 0 .. MaxMails
  BY StoredTyped, SyncTyped, OnboardingAssumption DEF Save, TypeOK

LEMMA HazardTyped ==
    ASSUME NEW r, NEW c
    PROVE  Hazard(r, c) \subseteq Fault
  BY DEF Hazard, Fault

\* What a request is after a step, and that the others stand where they stood.
Goes(h, b) == handler' = [handler EXCEPT ![h] = b]

LEMMA HandlerAfter ==
    ASSUME TypeOK, NEW h \in Handler, NEW b \in Busy \cup {Idle}, Goes(h, b)
    PROVE  /\ handler' \in [Handler -> Busy \cup {Idle}]
           /\ handler'[h] = b
           /\ \A g \in Handler \ {h} : handler'[g] = handler[g]
  BY DEF TypeOK, Goes

Reads(h) == ReadOwn(h) \/ ReadHR(h) \/ ReadRestore(h) \/ ReadErase(h)

LEMMA AfterRead ==
    ASSUME TypeOK, NEW h \in Handler, Reads(h)
    PROVE  /\ UNCHANGED <<emp, user, it, mails, ghosts, faults>>
           /\ emp \in Row
           /\ \E b \in Busy : Goes(h, b) /\ b.copy = emp /\ b.seen = emp
<1>1. UNCHANGED <<emp, user, it, mails, ghosts, faults>> /\ Exists
  BY DEF Reads, ReadOwn, ReadHR, ReadRestore, ReadErase
<1>2. emp \in Row
  BY <1>1 DEF TypeOK, Exists
<1>3. PICK k \in {"own", "hr", "restore", "erase"} :
          Goes(h, [kind |-> k, step |-> "read", copy |-> emp, seen |-> emp])
  BY DEF Reads, ReadOwn, ReadHR, ReadRestore, ReadErase, Goes
<1> QED
  BY <1>1, <1>2, <1>3 DEF Busy

LEMMA AfterSaveRestore ==
    ASSUME TypeOK, NEW h \in Handler, SaveRestore(h)
    PROVE  \E c \in Row :
              /\ c = [handler[h].copy EXCEPT !.del = FALSE]
              /\ Save(c)
              /\ faults' = faults \cup Hazard(handler[h].seen, c)
              /\ \E b \in Busy : Goes(h, b) /\ b.copy = c /\ b.seen = Stored(c)
                                 /\ b.kind = "restore" /\ b.step # "read"
<1> DEFINE c == [handler[h].copy EXCEPT !.del = FALSE]
           b == [handler[h] EXCEPT !.step = IF handler[h].step = "read" THEN "saved"
                                            ELSE "again",
                                   !.copy = c, !.seen = Stored(c)]
<1>1. handler[h] \in Busy /\ handler[h].copy \in Row /\ handler[h].kind = "restore"
  BY BusyTyped, KindIsBusy DEF SaveRestore
<1>2. c \in Row
  BY <1>1 DEF Row
<1>3. /\ Save(c) /\ faults' = faults \cup Hazard(handler[h].seen, c)
      /\ Goes(h, b)
  BY DEF SaveRestore, Goes
<1>4. Stored(c) \in Row
  BY <1>2, StoredTyped
<1> HIDE DEF c
<1>5. b \in Busy /\ b.copy = c /\ b.seen = Stored(c) /\ b.kind = "restore"
      /\ b.step # "read"
  BY <1>1, <1>2, <1>4 DEF Busy
<1> HIDE DEF b
<1> QED
  BY <1>2, <1>3, <1>5 DEF c

LEMMA StepTyped == TypeOK /\ [Next]_vars => TypeOK'
<1> SUFFICES ASSUME TypeOK, [Next]_vars PROVE TypeOK'
  OBVIOUS
<1> USE HazardTyped
<1>0. Idle \in Busy \cup {Idle}
  OBVIOUS
<1>1. CASE SubmitNew
  <2>1. [del |-> FALSE, own |-> TRUE, told |-> FALSE, job |-> FALSE,
         login |-> NoAccount] \in Row
    BY DEF Row
  <2> QED
    BY <1>1, <2>1, SaveTyped DEF SubmitNew, TypeOK, ghosts
<1>2. ASSUME NEW h \in Handler, Reads(h)
      PROVE  TypeOK'
  BY <1>2, AfterRead, HandlerAfter DEF TypeOK, ghosts
<1>3. ASSUME NEW h \in Handler, SaveOwn(h)
      PROVE  TypeOK'
  <2> DEFINE c == [handler[h].copy EXCEPT !.own = TRUE]
  <2>1. c \in Row
    BY <1>3, BusyTyped, KindIsBusy DEF SaveOwn, Row
  <2>2. /\ Save(c) /\ faults' = faults \cup Hazard(handler[h].seen, c)
        /\ Goes(h, Idle) /\ UNCHANGED <<it, ghosts>>
    BY <1>3 DEF SaveOwn, Goes
  <2> HIDE DEF c
  <2> QED
    BY <1>0, <2>1, <2>2, SaveTyped, HandlerAfter DEF TypeOK, ghosts
<1>4. ASSUME NEW job \in BOOLEAN, NEW a \in Account \cup {NoAccount}, Add(job, a)
      PROVE  TypeOK'
  <2> DEFINE c == [del |-> FALSE, own |-> FALSE, told |-> FALSE, job |-> job,
                   login |-> a]
  <2>1. c \in Row
    BY DEF Row
  <2>2. /\ Save(c) /\ faults' = faults \cup Hazard(emp, c)
        /\ UNCHANGED <<it, handler, ghosts>>
    BY <1>4 DEF Add
  <2> HIDE DEF c
  <2> QED
    BY <2>1, <2>2, SaveTyped DEF TypeOK, ghosts
<1>5. ASSUME NEW h \in Handler, NEW job \in BOOLEAN, NEW del \in BOOLEAN,
             NEW a \in Account \cup {NoAccount}, SaveHR(h, job, a, del)
      PROVE  TypeOK'
  <2> DEFINE c == [handler[h].copy EXCEPT !.job = job, !.login = a, !.del = del]
  <2>1. c \in Row
    BY <1>5, BusyTyped, KindIsBusy DEF SaveHR, Row
  <2>2. /\ Save(c) /\ faults' \subseteq faults \cup Hazard(handler[h].copy, c) \cup {"renamed"}
        /\ Goes(h, Idle) /\ UNCHANGED <<it, ghosts>>
    BY <1>5 DEF SaveHR, Goes
  <2> HIDE DEF c
  <2> QED
    BY <1>0, <2>1, <2>2, SaveTyped, HandlerAfter DEF TypeOK, ghosts, Fault
<1>6. CASE SoftDelete
  <2> DEFINE c == [emp EXCEPT !.del = TRUE]
  <2>1. c \in Row
    BY <1>6 DEF SoftDelete, Exists, TypeOK, Row
  <2>2. /\ Save(c) /\ faults' = faults \cup Hazard(emp, c)
        /\ UNCHANGED <<it, handler, ghosts>>
    BY <1>6 DEF SoftDelete
  <2> HIDE DEF c
  <2> QED
    BY <2>1, <2>2, SaveTyped DEF TypeOK, ghosts
<1>7. ASSUME NEW a \in Account, Offboard(a)
      PROVE  TypeOK'
  <2>1. user' = [user EXCEPT ![a] = "off"] /\ left' = TRUE
        /\ UNCHANGED <<it, handler, erased>>
    BY <1>7 DEF Offboard
  <2>2. CASE Exists /\ ~emp.del /\ emp.login = a
    <3> DEFINE c == [emp EXCEPT !.del = TRUE]
    <3>1. c \in Row
      BY <2>2 DEF Exists, TypeOK, Row
    <3>2. /\ emp' = Stored(c) /\ (News(c) /\ it => mails < MaxMails)
          /\ mails' = IF News(c) /\ it THEN mails + 1 ELSE mails
          /\ faults' \subseteq faults \cup Hazard(emp, c) \cup {"overlap"}
      BY <1>7, <2>2 DEF Offboard
    <3> HIDE DEF c
    <3>3. emp' \in Row /\ mails' \in 0 .. MaxMails
      BY <3>1, <3>2, StoredTyped, OnboardingAssumption DEF TypeOK
    <3> QED
      BY <2>1, <3>2, <3>3 DEF TypeOK, Fault
  <2>3. CASE ~(Exists /\ ~emp.del /\ emp.login = a)
    <3>1. UNCHANGED <<emp, mails>> /\ faults' \subseteq faults \cup {"overlap"}
      BY <1>7, <2>3 DEF Offboard
    <3> QED
      BY <2>1, <3>1 DEF TypeOK, Fault
  <2> QED
    BY <2>2, <2>3
<1>8. ASSUME NEW h \in Handler, SaveRestore(h)
      PROVE  TypeOK'
  <2>1. left' = FALSE /\ UNCHANGED <<it, erased>>
    BY <1>8 DEF SaveRestore
  <2> QED
    BY <1>8, <2>1, AfterSaveRestore, SaveTyped, HandlerAfter DEF TypeOK
<1>9. ASSUME NEW h \in Handler, Reactivate(h)
      PROVE  TypeOK'
  <2>1. Goes(h, Idle) /\ UNCHANGED <<emp, it, mails, ghosts, faults>>
    BY <1>9 DEF Reactivate, Goes
  <2>2. handler[h].copy.login \in Account \cup {NoAccount}
    BY <1>9, BusyTyped, KindIsBusy DEF Reactivate, Row
  <2>3. user' \in [Account -> {"none", "on", "off"}]
    BY <1>9, <2>2 DEF Reactivate, TypeOK
  <2> QED
    BY <1>0, <2>1, <2>3, HandlerAfter DEF TypeOK, ghosts
<1>10. ASSUME NEW h \in Handler, EraseUser(h)
       PROVE  TypeOK'
  <2>1. /\ handler' = [handler EXCEPT ![h].step = "saved"]
        /\ UNCHANGED <<emp, it, mails, ghosts>> /\ faults' \subseteq faults \cup {"overlap"}
    BY <1>10 DEF EraseUser
  <2>2. handler[h] \in Busy /\ handler[h].copy.login \in Account \cup {NoAccount}
    BY <1>10, BusyTyped, KindIsBusy DEF EraseUser, Row
  <2>3. user' \in [Account -> {"none", "on", "off"}]
    BY <1>10, <2>2 DEF EraseUser, TypeOK
  <2>4. handler' \in [Handler -> Busy \cup {Idle}]
    BY <2>1, <2>2 DEF TypeOK, Busy
  <2> QED
    BY <2>1, <2>3, <2>4 DEF TypeOK, ghosts, Fault
<1>11. ASSUME NEW h \in Handler, EraseEmployee(h)
       PROVE  TypeOK'
  <2>1. /\ emp' = NoRow /\ mails' = 0 /\ erased' = TRUE /\ left' = FALSE
        /\ Goes(h, Idle) /\ UNCHANGED <<user, it>> /\ faults' \subseteq faults \cup {"overlap"}
    BY <1>11 DEF EraseEmployee, Goes
  <2>2. left' \in BOOLEAN /\ erased' \in BOOLEAN
    BY <2>1
  <2>3. mails' \in 0 .. MaxMails
    BY <2>1, OnboardingAssumption
  <2> QED
    BY <1>0, <2>1, <2>2, <2>3, HandlerAfter DEF TypeOK, Fault
<1>12. CASE Supporters
  BY <1>12 DEF Supporters, TypeOK, ghosts
<1>13. ASSUME NEW h \in Handler, Crash(h)
       PROVE  TypeOK'
  <2>1. Goes(h, Idle) /\ UNCHANGED <<emp, user, it, mails, ghosts>>
        /\ faults' \subseteq faults \cup {"crash"}
    BY <1>13 DEF Crash, Goes
  <2> QED
    BY <1>0, <2>1, HandlerAfter DEF TypeOK, ghosts, Fault
<1>14. ASSUME NEW h \in Handler, Torn(h)
       PROVE  TypeOK'
  <2>1. Goes(h, Idle) /\ UNCHANGED <<user, it, mails, ghosts>>
        /\ faults' \subseteq faults \cup {"crash", "overlap"}
    BY <1>14 DEF Torn, Goes
  <2>2. emp' \in Row
    BY <1>14, BusyTyped, KindIsBusy DEF Torn, Row
  <2> QED
    BY <1>0, <2>1, <2>2, HandlerAfter DEF TypeOK, ghosts, Fault
<1>15. CASE UNCHANGED vars
  BY <1>15 DEF vars, ghosts, TypeOK
<1> QED
  BY <1>1, <1>2, <1>3, <1>4, <1>5, <1>6, <1>7, <1>8, <1>9, <1>10, <1>11, <1>12,
     <1>13, <1>14, <1>15 DEF Next, Reads

\* Type correctness.
THEOREM TypeCorrect == Spec => []TypeOK
<1>1. ASSUME Init PROVE TypeOK
  <2>1. left \in BOOLEAN /\ erased \in BOOLEAN /\ it \in BOOLEAN
    BY <1>1 DEF Init
  <2>2. mails \in 0 .. MaxMails
    BY <1>1, OnboardingAssumption DEF Init
  <2> QED
    BY <1>1, <2>1, <2>2 DEF Init, TypeOK
<1> QED
  BY <1>1, StepTyped, PTL DEF Spec

-----------------------------------------------------------------------------
(***************************************************************************)
(* IT is asked once.  NotifiedOnce is not inductive: the flag keeps the    *)
(* mail from going out again only as long as every copy has it that is     *)
(* still to be written.                                                    *)
(***************************************************************************)
Quiet == NoFault({"overlap", "no_it", "leaver"})

\* A row whose details are complete has been announced.
Announced(r) == r.job => r.told

Told ==
    /\ mails <= 1
    /\ Exists => Announced(emp)
    /\ mails >= 1 => Exists /\ emp.told

CopiesTold ==
    \A h \in Handler : handler[h] # Idle =>
        /\ Announced(handler[h].copy)
        /\ handler[h].copy.told = handler[h].seen.told

FlagKept == Quiet => Told /\ CopiesTold

\* Saving a copy that has the flag of the row asks IT if nobody has, and
\* leaves an announced row.
LEMMA SaveKeepsTold ==
    ASSUME TypeOK, Told, NEW c \in Row, News(c) => it /\ ~c.del,
           emp' = Stored(c), mails' = IF News(c) /\ it THEN mails + 1 ELSE mails,
           Exists => c.told = emp.told
    PROVE  Told'
<1>1. /\ emp' \in Row /\ emp'.job = c.job
      /\ emp'.told = (c.told \/ (News(c) /\ it /\ ~c.del))
  BY StoredTyped
<1>2. emp' # NoRow
  BY <1>1, NoRowIsNoRow
<1>3. News(c) = (c.job /\ ~c.told)
  BY DEF News
<1>4. mails \in Nat
  BY OnboardingAssumption DEF TypeOK
<1>5. CASE News(c)
  <2>1. ~c.told /\ it /\ emp'.told
    BY <1>1, <1>3, <1>5
  <2>2. ~(mails >= 1)
    BY <2>1 DEF Told
  <2>3. mails' = 1
    BY <1>4, <1>5, <2>1, <2>2
  <2> QED
    BY <1>2, <2>1, <2>3 DEF Told, Exists, Announced
<1>6. CASE ~News(c)
  <2>1. mails' = mails /\ (c.job => c.told) /\ (c.told => emp'.told)
    BY <1>1, <1>3, <1>6
  <2>2. (emp'.job = c.job) /\ emp' # NoRow
    BY <1>1, <1>2
  <2>3. Exists' /\ Announced(emp)'
    BY <2>1, <2>2 DEF Exists, Announced
  <2>4. mails >= 1 => emp'.told
    BY <2>1 DEF Told
  <2> QED
    BY <2>1, <2>3, <2>4 DEF Told
<1> QED
  BY <1>5, <1>6

\* What Hazard leaves to be true of a save that adds no hazard.
LEMMA NoHazard ==
    ASSUME NEW r, NEW c, Hazard(r, c) \subseteq faults', Quiet'
    PROVE  /\ r = emp
           /\ News(c) => it /\ ~c.del
  BY DEF Hazard, Quiet, NoFault

\* Copies are read from the row or from what a save has left.
LEMMA CopiesStay ==
    ASSUME CopiesTold, NEW h \in Handler,
           \A g \in Handler \ {h} : handler'[g] = handler[g],
           \/ handler'[h] = Idle
           \/ /\ Announced(handler'[h].copy)
              /\ handler'[h].copy.told = handler'[h].seen.told
    PROVE  CopiesTold'
  BY DEF CopiesTold, Announced

LEMMA FaultsStay == [Next]_vars => faults \subseteq faults'
<1>1. SubmitNew \/ SoftDelete \/ Supporters \/ UNCHANGED vars => faults \subseteq faults'
  BY DEF SubmitNew, SoftDelete, Supporters, vars
<1>2. \A h : \/ ReadOwn(h) \/ SaveOwn(h) \/ ReadHR(h) \/ ReadRestore(h)
             \/ SaveRestore(h) \/ Reactivate(h) \/ ReadErase(h) \/ EraseUser(h)
             \/ EraseEmployee(h) \/ Crash(h) \/ Torn(h)
          => faults \subseteq faults'
  BY DEF ReadOwn, SaveOwn, ReadHR, ReadRestore, SaveRestore, Reactivate, ReadErase,
         EraseUser, EraseEmployee, Crash, Torn
<1>3. \A j, a : Add(j, a) => faults \subseteq faults'
  BY DEF Add
<1>4. \A h, j, d, a : SaveHR(h, j, a, d) => faults \subseteq faults'
  BY DEF SaveHR
<1>5. \A a : Offboard(a) => faults \subseteq faults'
  BY DEF Offboard
<1> QED
  BY <1>1, <1>2, <1>3, <1>4, <1>5 DEF Next

LEMMA FlagKeptStep == TypeOK /\ FlagKept /\ [Next]_vars => FlagKept'
<1> SUFFICES ASSUME TypeOK, FlagKept, [Next]_vars, Quiet'
             PROVE  Told' /\ CopiesTold'
  BY DEF FlagKept
<1>0. Told /\ CopiesTold /\ Idle \in Busy \cup {Idle}
  BY FaultsStay DEF FlagKept, Quiet, NoFault
<1>1. CASE SubmitNew
  <2> DEFINE c == [del |-> FALSE, own |-> TRUE, told |-> FALSE, job |-> FALSE,
                   login |-> NoAccount]
  <2>1. c \in Row /\ ~News(c)
    BY DEF Row, News
  <2>2. Save(c) /\ ~Exists /\ handler' = handler
    BY <1>1 DEF SubmitNew
  <2> HIDE DEF c
  <2>3. Told'
    BY <1>0, <2>1, <2>2, SaveKeepsTold DEF Save
  <2> QED
    BY <1>0, <2>2, <2>3 DEF CopiesTold
<1>2. ASSUME NEW h \in Handler, Reads(h)
      PROVE  Told' /\ CopiesTold'
  <2>1. UNCHANGED <<emp, mails>> /\ emp \in Row
    BY <1>2, AfterRead
  <2>2. PICK b \in Busy : Goes(h, b) /\ b.copy = emp /\ b.seen = emp
    BY <1>2, AfterRead
  <2>3. Announced(emp)
    BY <1>0, <2>1, NoRowIsNoRow DEF Told, Exists
  <2>4. CopiesTold'
    BY <1>0, <2>2, <2>3, HandlerAfter, CopiesStay
  <2> QED
    BY <1>0, <2>1, <2>4 DEF Told, Exists, Announced
<1>3. ASSUME NEW h \in Handler, SaveOwn(h)
      PROVE  Told' /\ CopiesTold'
  <2> DEFINE c == [handler[h].copy EXCEPT !.own = TRUE]
  <2>1. handler[h] # Idle /\ handler[h].copy \in Row
    BY <1>3, BusyTyped, KindIsBusy DEF SaveOwn
  <2>2. c \in Row /\ c.told = handler[h].copy.told
    BY <2>1 DEF Row
  <2>3. Save(c) /\ Hazard(handler[h].seen, c) \subseteq faults' /\ Goes(h, Idle)
    BY <1>3 DEF SaveOwn, Goes
  <2> HIDE DEF c
  <2>4. handler[h].seen = emp /\ (News(c) => it /\ ~c.del)
    BY <2>3, NoHazard
  <2>5. c.told = emp.told
    BY <1>0, <2>1, <2>2, <2>4 DEF CopiesTold
  <2>6. Told'
    BY <1>0, <2>2, <2>3, <2>4, <2>5, SaveKeepsTold DEF Save
  <2> QED
    BY <1>0, <2>3, <2>6, HandlerAfter, CopiesStay
<1>4. ASSUME NEW job \in BOOLEAN, NEW a \in Account \cup {NoAccount}, Add(job, a)
      PROVE  Told' /\ CopiesTold'
  <2> DEFINE c == [del |-> FALSE, own |-> FALSE, told |-> FALSE, job |-> job,
                   login |-> a]
  <2>1. c \in Row
    BY DEF Row
  <2>2. Save(c) /\ Hazard(emp, c) \subseteq faults' /\ ~Exists /\ handler' = handler
    BY <1>4 DEF Add
  <2> HIDE DEF c
  <2>3. News(c) => it /\ ~c.del
    BY <2>2, NoHazard
  <2>4. Told'
    BY <1>0, <2>1, <2>2, <2>3, SaveKeepsTold DEF Save
  <2> QED
    BY <1>0, <2>2, <2>4 DEF CopiesTold
<1>5. ASSUME NEW h \in Handler, NEW job \in BOOLEAN, NEW del \in BOOLEAN,
             NEW a \in Account \cup {NoAccount}, SaveHR(h, job, a, del)
      PROVE  Told' /\ CopiesTold'
  <2> DEFINE r == handler[h].copy
             c == [r EXCEPT !.job = job, !.login = a, !.del = del]
  <2>1. handler[h] # Idle /\ r \in Row
    BY <1>5, BusyTyped, KindIsBusy DEF SaveHR
  <2>2. c \in Row /\ c.told = r.told
    BY <2>1 DEF Row
  <2>3. Save(c) /\ Hazard(r, c) \subseteq faults' /\ Goes(h, Idle)
    BY <1>5 DEF SaveHR, Goes
  <2> HIDE DEF c, r
  <2>4. r = emp /\ (News(c) => it /\ ~c.del)
    BY <2>3, NoHazard
  <2>5. c.told = emp.told
    BY <2>2, <2>4
  <2>6. Told'
    BY <1>0, <2>2, <2>3, <2>4, <2>5, SaveKeepsTold DEF Save
  <2> QED
    BY <1>0, <2>3, <2>6, HandlerAfter, CopiesStay
<1>6. ASSUME Exists, emp \in Row
      PROVE  LET c == [emp EXCEPT !.del = TRUE]
             IN  c \in Row /\ c.told = emp.told
  BY <1>6 DEF Row
<1>7. CASE SoftDelete
  <2> DEFINE c == [emp EXCEPT !.del = TRUE]
  <2>1. c \in Row /\ c.told = emp.told
    BY <1>6, <1>7 DEF SoftDelete, Exists, TypeOK
  <2>2. Save(c) /\ Hazard(emp, c) \subseteq faults' /\ handler' = handler
    BY <1>7 DEF SoftDelete
  <2> HIDE DEF c
  <2>3. News(c) => it /\ ~c.del
    BY <2>2, NoHazard
  <2>4. Told'
    BY <1>0, <2>1, <2>2, <2>3, SaveKeepsTold DEF Save
  <2> QED
    BY <1>0, <2>2, <2>4 DEF CopiesTold
<1>8. ASSUME NEW a \in Account, Offboard(a)
      PROVE  Told' /\ CopiesTold'
  <2>1. handler' = handler
    BY <1>8 DEF Offboard
  <2>2. CASE Exists /\ ~emp.del /\ emp.login = a
    <3> DEFINE c == [emp EXCEPT !.del = TRUE]
    <3>1. c \in Row /\ c.told = emp.told
      BY <1>6, <2>2 DEF Exists, TypeOK
    <3>2. /\ emp' = Stored(c) /\ Hazard(emp, c) \subseteq faults'
          /\ mails' = IF News(c) /\ it THEN mails + 1 ELSE mails
      BY <1>8, <2>2 DEF Offboard
    <3> HIDE DEF c
    <3>3. News(c) => it /\ ~c.del
      BY <3>2, NoHazard
    <3>4. Told'
      BY <1>0, <3>1, <3>2, <3>3, SaveKeepsTold
    <3> QED
      BY <1>0, <2>1, <3>4 DEF CopiesTold
  <2>3. CASE ~(Exists /\ ~emp.del /\ emp.login = a)
    <3>1. UNCHANGED <<emp, mails>>
      BY <1>8, <2>3 DEF Offboard
    <3> QED
      BY <1>0, <2>1, <3>1 DEF Told, Exists, Announced, CopiesTold
  <2> QED
    BY <2>2, <2>3
<1>9. ASSUME NEW h \in Handler, SaveRestore(h)
      PROVE  Told' /\ CopiesTold'
  <2>1. handler[h] # Idle /\ handler[h].copy \in Row
    BY <1>9, BusyTyped, KindIsBusy DEF SaveRestore
  <2>2. PICK c \in Row :
           /\ c = [handler[h].copy EXCEPT !.del = FALSE]
           /\ Save(c) /\ faults' = faults \cup Hazard(handler[h].seen, c)
           /\ \E b \in Busy : Goes(h, b) /\ b.copy = c /\ b.seen = Stored(c)
    BY <1>9, AfterSaveRestore
  <2>3. c.told = handler[h].copy.told /\ c.job = handler[h].copy.job
    BY <2>1, <2>2 DEF Row
  <2>4. PICK b \in Busy : Goes(h, b) /\ b.copy = c /\ b.seen = Stored(c)
    BY <2>2
  <2>5. handler[h].seen = emp /\ (News(c) => it /\ ~c.del)
    BY <2>2, NoHazard
  <2>6. c.told = emp.told /\ Announced(c)
    BY <1>0, <2>1, <2>3, <2>5 DEF CopiesTold, Announced
  <2>7. ~News(c)
    BY <2>6 DEF News, Announced
  <2>8. Stored(c) = c
    BY <2>7 DEF Stored
  <2>9. Told'
    BY <1>0, <2>2, <2>5, <2>6, SaveKeepsTold DEF Save
  <2> QED
    BY <1>0, <2>4, <2>6, <2>8, <2>9, HandlerAfter, CopiesStay
<1>10. ASSUME NEW h \in Handler, Reactivate(h) \/ Crash(h)
       PROVE  Told' /\ CopiesTold'
  <2>1. Goes(h, Idle) /\ UNCHANGED <<emp, mails>>
    BY <1>10 DEF Reactivate, Crash, Goes
  <2> QED
    BY <1>0, <2>1, HandlerAfter, CopiesStay DEF Told, Exists, Announced
<1>11. ASSUME NEW h \in Handler, EraseUser(h)
       PROVE  Told' /\ CopiesTold'
  <2>1. handler[h] \in Busy /\ handler[h] # Idle
    BY <1>11, BusyTyped, KindIsBusy DEF EraseUser
  <2>2. /\ handler' = [handler EXCEPT ![h].step = "saved"] /\ UNCHANGED <<emp, mails>>
    BY <1>11 DEF EraseUser
  <2>3. /\ \A g \in Handler \ {h} : handler'[g] = handler[g]
        /\ handler'[h].copy = handler[h].copy /\ handler'[h].seen = handler[h].seen
    BY <2>1, <2>2 DEF TypeOK, Busy
  <2>4. Announced(handler[h].copy) /\ handler[h].copy.told = handler[h].seen.told
    BY <1>0, <2>1 DEF CopiesTold
  <2>5. CopiesTold'
    BY <1>0, <2>3, <2>4, CopiesStay
  <2> QED
    BY <1>0, <2>2, <2>5 DEF Told, Exists, Announced
<1>12. ASSUME NEW h \in Handler, EraseEmployee(h)
       PROVE  Told' /\ CopiesTold'
  <2>1. emp' = NoRow /\ mails' = 0 /\ Goes(h, Idle)
    BY <1>12 DEF EraseEmployee, Goes
  <2>2. Told'
    BY <2>1 DEF Told, Exists
  <2> QED
    BY <1>0, <2>1, <2>2, HandlerAfter, CopiesStay
<1>13. CASE Supporters \/ UNCHANGED vars
  BY <1>0, <1>13 DEF Supporters, vars, Told, Exists, Announced, CopiesTold
<1>14. ASSUME NEW h \in Handler, Torn(h)
       PROVE  Told' /\ CopiesTold'
  <2>1. handler[h] # Idle /\ handler[h].copy \in Row
    BY <1>14, BusyTyped, KindIsBusy DEF Torn
  <2>2. /\ emp' = [handler[h].copy EXCEPT !.own = TRUE] /\ mails' = mails
        /\ Goes(h, Idle)
    BY <1>14 DEF Torn, Goes
  <2>3. handler[h].copy = emp
    BY <1>14 DEF Torn, Quiet, NoFault
  <2>4. /\ emp' \in Row /\ emp \in Row /\ emp'.told = emp.told /\ emp'.job = emp.job
    BY <2>1, <2>2, <2>3 DEF Row
  <2>5. Exists /\ Exists'
    BY <2>4, NoRowIsNoRow DEF Exists
  <2>6. Told'
    BY <1>0, <2>2, <2>4, <2>5 DEF Told, Announced
  <2> QED
    BY <1>0, <2>2, <2>6, HandlerAfter, CopiesStay
<1> QED
  BY <1>1, <1>2, <1>3, <1>4, <1>5, <1>7, <1>8, <1>9, <1>10, <1>11, <1>12, <1>13,
     <1>14 DEF Next, Reads

\* IT is asked once to equip an employee, for any number of requests, unless a
\* stale copy was written, IT could not be reached, or the details came with
\* the deletion.
THEOREM AskedOnce == Spec => []NotifiedOnce
<1>1. Init => FlagKept
  BY DEF Init, FlagKept, Told, CopiesTold, Exists
<1>2. FlagKept => NotifiedOnce
  BY DEF FlagKept, Quiet, Told, NotifiedOnce
<1> QED
  BY <1>1, <1>2, FlagKeptStep, TypeCorrect, PTL DEF Spec

-----------------------------------------------------------------------------
(***************************************************************************)
(* The account follows the record.  Neither OffboardedIsOut nor            *)
(* EmployedIsIn nor ErasedIsGone is inductive: what the record and the     *)
(* account become is decided by the copies still to be written and by the  *)
(* requests that stand between two commits.                                *)
(*                                                                         *)
(* As long as no copy is written over a row that has changed and nobody    *)
(* changes accounts: the only account is the record's (Accounted); who     *)
(* has left is deleted and no request is restoring him (Out); who is being *)
(* erased has no account, and stays away once erased (Away); a copy has    *)
(* the login it was read with, and the forms hold records that were not    *)
(* deleted (CopiesFit).                                                    *)
(***************************************************************************)
Settled == NoFault({"overlap", "renamed"})

Accounted == \A a \in Account : user[a] # "none" => Exists /\ emp.login = a

Out ==
    left =>
        /\ Exists /\ emp.del
        /\ \A a \in Account : user[a] # "on"
        /\ \A h \in Handler : handler[h].kind = "restore" => handler[h].step = "read"

Away ==
    /\ erased => ~Exists
    /\ Erasing => \A a \in Account : user[a] = "none"

Fits(b) ==
    /\ b.copy.login = b.seen.login
    /\ b.kind \in {"own", "hr"} => ~b.copy.del
    /\ b.kind # "restore" \/ b.step = "read" => b.copy = b.seen

CopiesFit == \A h \in Handler : handler[h] # Idle => Fits(handler[h])

AccountKept == Settled => Accounted /\ Out /\ Away /\ CopiesFit

\* What a save does to the record and its account.
LEMMA SaveEffect ==
    ASSUME TypeOK, Accounted, NEW c \in Row, Save(c),
           Exists => emp.login \in {c.login, NoAccount}
    PROVE  /\ Accounted' /\ Exists'
           /\ emp' \in Row /\ emp'.login = c.login /\ emp'.del = c.del
           /\ \A a \in Account : user[a] # "none" => user'[a] = user[a]
           /\ \A a \in Account : user'[a] = "off" => user[a] = "off"
<1>1. emp' \in Row /\ emp'.login = c.login /\ emp'.del = c.del
  BY DEF Save, Stored, Row
<1>2. emp' # NoRow
  BY <1>1, NoRowIsNoRow
<1>3. user' = Sync(c)
  BY DEF Save
<1>4. \A a \in Account :
        /\ user[a] # "none" => user'[a] = user[a]
        /\ user'[a] = "off" => user[a] = "off"
        /\ user'[a] # user[a] => a = c.login
  BY <1>3 DEF Sync, TypeOK
<1>5. ASSUME NEW a \in Account, user'[a] # "none" PROVE emp'.login = a
  <2>1. CASE user'[a] # user[a]
    BY <1>1, <1>4, <2>1
  <2>2. CASE user'[a] = user[a]
    <3>1. Exists /\ emp.login = a
      BY <1>5, <2>2 DEF Accounted
    <3>2. a # NoAccount
      BY OnboardingAssumption
    <3> QED
      BY <1>1, <3>1, <3>2
  <2> QED
    BY <2>1, <2>2
<1> QED
  BY <1>1, <1>2, <1>4, <1>5 DEF Accounted, Exists

\* What Hazard and the named faults leave to be true of a save.
LEMMA NoOverlap ==
    ASSUME NEW r, NEW c, Hazard(r, c) \subseteq faults', Settled'
    PROVE  r = emp /\ ~Erasing
  BY DEF Hazard, Settled, NoFault

\* A save by a request of somebody who has neither left nor been erased.
LEMMA SaveKeepsAccount ==
    ASSUME TypeOK, Accounted, NEW c \in Row, Save(c), ~Erasing',
           Exists => emp.login \in {c.login, NoAccount},
           ~left', ~erased'
    PROVE  Accounted' /\ Out' /\ Away'
  BY SaveEffect DEF Out, Away

LEMMA ErasingAfter ==
    ASSUME TypeOK, NEW h \in Handler, NEW b \in Busy \cup {Idle}, Goes(h, b),
           b.kind # "erase" \/ b = Idle, ~Erasing
    PROVE  ~Erasing'
<1>1. Idle.kind # "erase"
  BY DEF Idle
<1> QED
  BY <1>1, HandlerAfter DEF Erasing

LEMMA FitsAfter ==
    ASSUME TypeOK, CopiesFit, NEW h \in Handler, NEW b \in Busy \cup {Idle}, Goes(h, b),
           b # Idle => Fits(b)
    PROVE  CopiesFit'
<1>1. /\ handler'[h] = b
      /\ \A g \in Handler \ {h} : handler'[g] = handler[g]
  BY HandlerAfter
<1>2. ASSUME NEW g \in Handler, handler'[g] # Idle PROVE Fits(handler'[g])
  <2>1. CASE g = h
    BY <1>1, <1>2, <2>1
  <2>2. CASE g # h
    BY <1>1, <1>2, <2>2 DEF CopiesFit
  <2> QED
    BY <2>1, <2>2
<1>3. \A g \in Handler : handler'[g] # Idle => Fits(handler'[g])
  BY <1>2
<1> QED
  BY <1>3 DEF CopiesFit, Fits

LEMMA AccountKeptStep == TypeOK /\ AccountKept /\ [Next]_vars => AccountKept'
<1> SUFFICES ASSUME TypeOK, AccountKept, [Next]_vars, Settled'
             PROVE  Accounted' /\ Out' /\ Away' /\ CopiesFit'
  BY DEF AccountKept
<1>0. /\ Accounted /\ Out /\ Away /\ CopiesFit
      /\ Idle \in Busy \cup {Idle} /\ Idle.kind = "idle"
  BY FaultsStay DEF AccountKept, Settled, NoFault, Idle
<1>1. CASE SubmitNew
  <2> DEFINE c == [del |-> FALSE, own |-> TRUE, told |-> FALSE, job |-> FALSE,
                   login |-> NoAccount]
  <2>1. c \in Row /\ c.login = NoAccount
    BY DEF Row
  <2>2. Save(c) /\ ~Exists /\ ~erased /\ UNCHANGED <<handler, ghosts>>
    BY <1>1 DEF SubmitNew
  <2> HIDE DEF c
  <2>3. user' = user
    BY <2>1, <2>2 DEF Save, Sync
  <2>4. \A a \in Account : user[a] = "none"
    BY <1>0, <2>2 DEF Accounted
  <2>5. ~left' /\ ~erased' /\ handler' = handler
    BY <1>0, <2>2 DEF Out, ghosts
  <2> QED
    BY <1>0, <2>3, <2>4, <2>5 DEF Accounted, Out, Away, CopiesFit
<1>2. ASSUME NEW h \in Handler, Reads(h)
      PROVE  Accounted' /\ Out' /\ Away' /\ CopiesFit'
  <2>1. UNCHANGED <<emp, user, ghosts>> /\ emp \in Row
    BY <1>2, AfterRead
  <2>2. PICK k \in {"own", "hr", "restore", "erase"} :
            /\ Goes(h, [kind |-> k, step |-> "read", copy |-> emp, seen |-> emp])
            /\ k \in {"own", "hr"} => ~emp.del
    BY <1>2 DEF Reads, ReadOwn, ReadHR, ReadRestore, ReadErase, Goes
  <2> DEFINE b == [kind |-> k, step |-> "read", copy |-> emp, seen |-> emp]
  <2>3. b \in Busy /\ Goes(h, b)
    BY <2>1, <2>2 DEF Busy
  <2>4. b.kind = k /\ b.step = "read" /\ b.copy = emp /\ b.seen = emp
    OBVIOUS
  <2> HIDE DEF b
  <2>5. /\ handler'[h] = b
        /\ \A g \in Handler \ {h} : handler'[g] = handler[g]
    BY <2>3, HandlerAfter
  <2>6. CopiesFit'
    BY <1>0, <2>2, <2>3, <2>4, FitsAfter DEF Fits
  <2>7. Erasing' => Erasing
    BY <2>4, <2>5 DEF Erasing
  <2> QED
    BY <1>0, <2>1, <2>4, <2>5, <2>6, <2>7 DEF Accounted, Out, Away, Exists, ghosts
<1>3. ASSUME NEW h \in Handler, SaveOwn(h)
      PROVE  Accounted' /\ Out' /\ Away' /\ CopiesFit'
  <2> DEFINE c == [handler[h].copy EXCEPT !.own = TRUE]
  <2>1. handler[h] # Idle /\ handler[h].copy \in Row
    BY <1>3, BusyTyped, KindIsBusy DEF SaveOwn
  <2>2. c \in Row /\ c.login = handler[h].copy.login
    BY <2>1 DEF Row
  <2>3. /\ Save(c) /\ Hazard(handler[h].seen, c) \subseteq faults' /\ Goes(h, Idle)
        /\ handler[h].kind = "own" /\ UNCHANGED ghosts
    BY <1>3 DEF SaveOwn, Goes
  <2> HIDE DEF c
  <2>4. handler[h].seen = emp /\ ~Erasing
    BY <2>3, NoOverlap
  <2>5. handler[h].copy = emp /\ ~emp.del
    BY <1>0, <2>1, <2>3, <2>4 DEF CopiesFit, Fits
  <2>6. Exists
    BY <2>1, <2>5, NoRowIsNoRow DEF Exists
  <2>7. ~left' /\ ~erased' /\ ~Erasing'
    BY <1>0, <2>3, <2>4, <2>5, <2>6, ErasingAfter DEF Out, Away, ghosts
  <2>8. CopiesFit'
    BY <1>0, <2>3, FitsAfter
  <2> QED
    BY <1>0, <2>2, <2>3, <2>5, <2>7, <2>8, SaveKeepsAccount
<1>4. ASSUME NEW job \in BOOLEAN, NEW a \in Account \cup {NoAccount}, Add(job, a)
      PROVE  Accounted' /\ Out' /\ Away' /\ CopiesFit'
  <2> DEFINE c == [del |-> FALSE, own |-> FALSE, told |-> FALSE, job |-> job,
                   login |-> a]
  <2>1. c \in Row
    BY DEF Row
  <2>2. /\ Save(c) /\ Hazard(emp, c) \subseteq faults' /\ ~Exists /\ ~erased
        /\ UNCHANGED <<handler, ghosts>>
    BY <1>4 DEF Add
  <2> HIDE DEF c
  <2>3. ~Erasing /\ handler' = handler /\ ~left' /\ ~erased'
    BY <1>0, <2>2, NoOverlap DEF Out, ghosts
  <2>4. ~Erasing' /\ CopiesFit'
    BY <1>0, <2>3 DEF Erasing, CopiesFit
  <2> QED
    BY <1>0, <2>1, <2>2, <2>3, <2>4, SaveKeepsAccount
<1>5. ASSUME NEW h \in Handler, NEW job \in BOOLEAN, NEW del \in BOOLEAN,
             NEW a \in Account \cup {NoAccount}, SaveHR(h, job, a, del)
      PROVE  Accounted' /\ Out' /\ Away' /\ CopiesFit'
  <2> DEFINE r == handler[h].copy
             c == [r EXCEPT !.job = job, !.login = a, !.del = del]
  <2>1. handler[h] # Idle /\ r \in Row
    BY <1>5, BusyTyped, KindIsBusy DEF SaveHR
  <2>2. c \in Row /\ c.login = a
    BY <2>1 DEF Row
  <2>3. /\ Save(c) /\ Hazard(r, c) \subseteq faults' /\ Goes(h, Idle)
        /\ handler[h].kind = "hr" /\ UNCHANGED ghosts
        /\ r.login \notin {a, NoAccount} => "renamed" \in faults'
    BY <1>5 DEF SaveHR, Goes
  <2> HIDE DEF c
  <2>4. r = emp /\ ~Erasing /\ ~emp.del
    BY <1>0, <2>1, <2>3, NoOverlap DEF CopiesFit, Fits
  <2>5. Exists /\ emp.login \in {c.login, NoAccount}
    BY <2>1, <2>2, <2>3, <2>4, NoRowIsNoRow DEF Exists, Settled, NoFault
  <2>6. ~left' /\ ~erased' /\ ~Erasing'
    BY <1>0, <2>3, <2>4, <2>5, ErasingAfter DEF Out, Away, ghosts
  <2>7. CopiesFit'
    BY <1>0, <2>3, FitsAfter
  <2> QED
    BY <1>0, <2>2, <2>3, <2>5, <2>6, <2>7, SaveKeepsAccount
<1>6. CASE SoftDelete
  <2> DEFINE c == [emp EXCEPT !.del = TRUE]
  <2>1. c \in Row /\ c.login = emp.login
    BY <1>6 DEF SoftDelete, Exists, TypeOK, Row
  <2>2. /\ Save(c) /\ Hazard(emp, c) \subseteq faults' /\ Exists /\ ~emp.del
        /\ UNCHANGED <<handler, ghosts>>
    BY <1>6 DEF SoftDelete
  <2> HIDE DEF c
  <2>3. ~Erasing /\ handler' = handler /\ ~left' /\ ~erased'
    BY <1>0, <2>2, NoOverlap DEF Out, Away, ghosts
  <2>4. ~Erasing' /\ CopiesFit'
    BY <1>0, <2>3 DEF Erasing, CopiesFit
  <2> QED
    BY <1>0, <2>1, <2>2, <2>3, <2>4, SaveKeepsAccount
<1>7. ASSUME NEW a \in Account, Offboard(a)
      PROVE  Accounted' /\ Out' /\ Away' /\ CopiesFit'
  <2>1. /\ user[a] = "on" /\ user' = [user EXCEPT ![a] = "off"] /\ handler' = handler
        /\ \A h \in Handler : handler[h].kind # "restore"
        /\ erased' = erased
    BY <1>7 DEF Offboard, Settled, NoFault
  <2>2. Exists /\ emp.login = a /\ ~Erasing /\ ~erased
    BY <1>0, <2>1 DEF Accounted, Away
  <2>3. \A b \in Account : b # a => user[b] = "none"
    BY <1>0, <2>2 DEF Accounted
  <2>4. /\ user'[a] = "off"
        /\ \A b \in Account : b # a => user'[b] = "none"
    BY <2>1, <2>3 DEF TypeOK
  <2>5. emp' \in Row /\ emp'.login = a /\ emp'.del
    <3>1. CASE emp.del
      BY <1>7, <2>2, <3>1 DEF Offboard, TypeOK, Exists
    <3>2. CASE ~emp.del
      <4>1. emp' = Stored([emp EXCEPT !.del = TRUE]) /\ emp \in Row
        BY <1>7, <2>2, <3>2 DEF Offboard, TypeOK, Exists
      <4> QED
        BY <2>2, <4>1 DEF Stored, Row
    <3> QED
      BY <3>1, <3>2
  <2>6. Exists'
    BY <2>5, NoRowIsNoRow DEF Exists
  <2>7. ~Erasing' /\ CopiesFit'
    BY <1>0, <2>1, <2>2 DEF Erasing, CopiesFit
  <2> QED
    BY <2>1, <2>2, <2>4, <2>5, <2>6, <2>7 DEF Accounted, Out, Away
<1>8. ASSUME NEW h \in Handler, SaveRestore(h)
      PROVE  Accounted' /\ Out' /\ Away' /\ CopiesFit'
  <2>1. /\ handler[h] # Idle /\ handler[h].copy \in Row /\ handler[h].seen \in Row
        /\ handler[h].step \in {"read", "saved"} /\ handler[h].kind = "restore"
    BY <1>8, BusyTyped, KindIsBusy DEF SaveRestore
  <2>2. PICK c \in Row :
           /\ c = [handler[h].copy EXCEPT !.del = FALSE]
           /\ Save(c) /\ faults' = faults \cup Hazard(handler[h].seen, c)
           /\ \E b \in Busy : Goes(h, b) /\ b.copy = c /\ b.seen = Stored(c)
                              /\ b.kind = "restore" /\ b.step # "read"
    BY <1>8, AfterSaveRestore
  <2>3. PICK b \in Busy : Goes(h, b) /\ b.copy = c /\ b.seen = Stored(c)
                          /\ b.kind = "restore" /\ b.step # "read"
    BY <2>2
  <2>4. handler[h].seen = emp /\ ~Erasing
    BY <2>2, NoOverlap
  <2>5. c.login = handler[h].copy.login /\ Stored(c).login = c.login
    BY <2>1, <2>2 DEF Row, Stored
  <2>6. emp.login = c.login
    BY <1>0, <2>1, <2>4, <2>5 DEF CopiesFit, Fits
  <2>7. Exists
    BY <2>1, <2>4, NoRowIsNoRow DEF Exists
  <2>8. ~left' /\ ~erased' /\ ~Erasing'
    BY <1>0, <1>8, <2>3, <2>4, <2>7, ErasingAfter DEF SaveRestore, Away
  <2>9. CopiesFit'
    BY <1>0, <2>3, <2>5, FitsAfter DEF Fits
  <2> QED
    BY <1>0, <2>2, <2>6, <2>8, <2>9, SaveKeepsAccount
<1>9. ASSUME NEW h \in Handler, Reactivate(h)
      PROVE  Accounted' /\ Out' /\ Away' /\ CopiesFit'
  <2>1. /\ handler[h].kind = "restore" /\ handler[h].step = "again" /\ Goes(h, Idle)
        /\ UNCHANGED <<emp, ghosts>>
    BY <1>9 DEF Reactivate, Goes
  <2>2. handler[h].copy.login \in Account \cup {NoAccount}
    BY <2>1, BusyTyped, KindIsBusy DEF Row
  <2>3. \A a \in Account : user[a] = "none" => user'[a] = "none"
    BY <1>9, <2>2 DEF Reactivate, TypeOK
  <2>4. ~left
    BY <1>0, <2>1 DEF Out
  <2>5. /\ handler'[h] = Idle
        /\ \A g \in Handler \ {h} : handler'[g] = handler[g]
    BY <1>0, <2>1, HandlerAfter
  <2>6. Erasing' => Erasing
    BY <1>0, <2>5 DEF Erasing
  <2>7. CopiesFit'
    BY <1>0, <2>1, FitsAfter
  <2> QED
    BY <1>0, <2>1, <2>3, <2>4, <2>6, <2>7 DEF Accounted, Out, Away, Exists, ghosts
<1>10. ASSUME NEW h \in Handler, EraseUser(h)
       PROVE  Accounted' /\ Out' /\ Away' /\ CopiesFit'
  <2>1. /\ handler[h].kind = "erase" /\ handler[h].step = "read"
        /\ handler[h] \in Busy /\ handler[h] # Idle
    BY <1>10, BusyTyped, KindIsBusy DEF EraseUser
  <2> DEFINE b == [handler[h] EXCEPT !.step = "saved"]
  <2>2. b \in Busy /\ Goes(h, b) /\ b.kind = "erase" /\ b.copy = handler[h].copy
        /\ b.seen = handler[h].seen
    BY <1>10, <2>1 DEF EraseUser, Goes, Busy
  <2> HIDE DEF b
  <2>3. handler[h].copy = emp /\ UNCHANGED <<emp, ghosts>>
    BY <1>10 DEF EraseUser, Settled, NoFault
  <2>4. \A a \in Account : user'[a] = "none"
    BY <1>0, <1>10, <2>3, OnboardingAssumption DEF EraseUser, Accounted, TypeOK
  <2>5. Fits(handler[h])
    BY <1>0, <2>1 DEF CopiesFit
  <2>6. CopiesFit'
    BY <1>0, <2>1, <2>2, <2>5, FitsAfter DEF Fits
  <2>7. /\ handler'[h] = b
        /\ \A g \in Handler \ {h} : handler'[g] = handler[g]
    BY <2>2, HandlerAfter
  <2> QED
    BY <1>0, <2>2, <2>3, <2>4, <2>6, <2>7 DEF Accounted, Out, Away, Exists, ghosts
<1>11. ASSUME NEW h \in Handler, EraseEmployee(h)
       PROVE  Accounted' /\ Out' /\ Away' /\ CopiesFit'
  <2>1. /\ Erasing /\ emp' = NoRow /\ ~left' /\ user' = user /\ Goes(h, Idle)
    BY <1>11 DEF EraseEmployee, Erasing, Goes
  <2>2. \A a \in Account : user'[a] = "none"
    BY <1>0, <2>1 DEF Away
  <2>3. CopiesFit'
    BY <1>0, <2>1, FitsAfter
  <2> QED
    BY <2>1, <2>2, <2>3 DEF Accounted, Out, Away, Exists
<1>12. CASE Supporters \/ UNCHANGED vars
  <2>1. UNCHANGED <<emp, user, handler, left, erased>>
    BY <1>12 DEF Supporters, vars, ghosts
  <2> QED
    BY <1>0, <2>1 DEF Accounted, Out, Away, CopiesFit, Exists, Erasing
<1>13. ASSUME NEW h \in Handler, Crash(h)
       PROVE  Accounted' /\ Out' /\ Away' /\ CopiesFit'
  <2>1. Goes(h, Idle) /\ UNCHANGED <<emp, user, left, erased>>
    BY <1>13 DEF Crash, Goes, ghosts
  <2>2. /\ handler'[h] = Idle
        /\ \A g \in Handler \ {h} : handler'[g] = handler[g]
    BY <1>0, <2>1, HandlerAfter
  <2>3. Erasing' => Erasing
    BY <1>0, <2>2 DEF Erasing
  <2>4. CopiesFit'
    BY <1>0, <2>1, FitsAfter
  <2> QED
    BY <1>0, <2>1, <2>2, <2>3, <2>4 DEF Accounted, Out, Away, Exists
<1>14. ASSUME NEW h \in Handler, Torn(h)
       PROVE  Accounted' /\ Out' /\ Away' /\ CopiesFit'
  <2>1. handler[h] # Idle /\ handler[h].copy \in Row
    BY <1>14, BusyTyped, KindIsBusy DEF Torn
  <2>2. /\ emp' = [handler[h].copy EXCEPT !.own = TRUE] /\ Goes(h, Idle)
        /\ UNCHANGED <<user, left, erased>> /\ handler[h].copy = emp
    BY <1>14 DEF Torn, Goes, Settled, NoFault, ghosts
  <2>3. emp' \in Row /\ emp \in Row /\ emp'.login = emp.login /\ emp'.del = emp.del
    BY <2>1, <2>2 DEF Row
  <2>4. Exists /\ Exists'
    BY <2>3, NoRowIsNoRow DEF Exists
  <2>5. /\ handler'[h] = Idle
        /\ \A g \in Handler \ {h} : handler'[g] = handler[g]
    BY <1>0, <2>2, HandlerAfter
  <2>6. Erasing' => Erasing
    BY <1>0, <2>5 DEF Erasing
  <2>7. CopiesFit'
    BY <1>0, <2>2, FitsAfter
  <2> QED
    BY <1>0, <2>2, <2>3, <2>4, <2>5, <2>6, <2>7 DEF Accounted, Out, Away
<1> QED
  BY <1>1, <1>2, <1>3, <1>4, <1>5, <1>6, <1>7, <1>8, <1>9, <1>10, <1>11, <1>12,
     <1>13, <1>14 DEF Next, Reads

LEMMA AccountIsKept == Spec => []AccountKept
<1>1. Init => AccountKept
  BY DEF Init, AccountKept, Accounted, Out, Away, CopiesFit, Exists, Erasing, Idle
<1> QED
  BY <1>1, AccountKeptStep, TypeCorrect, PTL DEF Spec

\* Who was offboarded is out, for any number of requests and accounts, unless a
\* stale copy was written or the account was exchanged.
THEOREM OffboardedStaysOut == Spec => []OffboardedIsOut
<1>1. AccountKept => OffboardedIsOut
  BY DEF AccountKept, Settled, Out, OffboardedIsOut
<1> QED
  BY <1>1, AccountIsKept, PTL

\* Who was erased stays away with the account, whatever requests were under way,
\* unless a stale copy was written or the account was exchanged.
THEOREM ErasedStaysGone == Spec => []ErasedIsGone
<1>1. AccountKept => ErasedIsGone
  BY DEF AccountKept, Settled, Accounted, Away, ErasedIsGone, TypeOK
<1> QED
  BY <1>1, AccountIsKept, PTL

-----------------------------------------------------------------------------
(***************************************************************************)
(* Who is employed can log in.  An account that is off belongs to a record *)
(* that is deleted, or to one that a request is restoring and whose        *)
(* account it will reactivate.                                             *)
(***************************************************************************)
Unbroken == NoFault({"overlap", "renamed", "crash"})

WillReactivate(h) ==
    /\ handler[h].kind = "restore" /\ handler[h].step \in {"saved", "again"}
    /\ handler[h].copy.login = emp.login

OffIsDeleted ==
    Exists /\ emp.login # NoAccount /\ user[emp.login] = "off" =>
        emp.del \/ \E h \in Handler : WillReactivate(h)

Restoring == Unbroken => OffIsDeleted

LEMMA RestoringStep ==
    TypeOK /\ AccountKept /\ Restoring /\ [Next]_vars => Restoring'
<1> SUFFICES ASSUME TypeOK, AccountKept, Restoring, [Next]_vars, Unbroken',
                    Exists', emp'.login # NoAccount, user'[emp'.login] = "off",
                    ~emp'.del
             PROVE  \E h \in Handler : WillReactivate(h)'
  BY DEF Restoring, OffIsDeleted
<1>0. /\ Settled' /\ OffIsDeleted /\ Accounted /\ Out /\ Away /\ CopiesFit
      /\ Idle \in Busy \cup {Idle} /\ Idle.kind = "idle"
  BY FaultsStay DEF AccountKept, Settled, Restoring, Unbroken, NoFault, Idle
<1>1. CASE SubmitNew
  <2>1. emp'.login = NoAccount
    BY <1>1 DEF SubmitNew, Save, Stored
  <2> QED
    BY <2>1
\* A request other than the one that steps still stands where it stood.
<1>2. ASSUME NEW h \in Handler, NEW b \in Busy \cup {Idle}, Goes(h, b),
             NEW g \in Handler, g # h, WillReactivate(g), emp'.login = emp.login
      PROVE  \E k \in Handler : WillReactivate(k)'
  BY <1>2, HandlerAfter DEF WillReactivate
\* A save of a copy of the row by a form.
<1>3. ASSUME NEW h \in Handler, NEW c \in Row, Save(c), Goes(h, Idle),
             Exists /\ emp \in Row, emp.login \in {c.login, NoAccount}, ~emp.del,
             handler[h].kind \in {"own", "hr"}
      PROVE  \E k \in Handler : WillReactivate(k)'
  <2>1. emp'.login = c.login /\ user[c.login] = "off"
    <3>1. emp' \in Row /\ emp'.login = c.login
          /\ \A a \in Account : user'[a] = "off" => user[a] = "off"
      BY <1>0, <1>3, SaveEffect
    <3>2. emp'.login \in Account
      BY <3>1 DEF Row
    <3> QED
      BY <3>1, <3>2
  <2>2. emp.login = c.login
    BY <1>0, <2>1 DEF Accounted, Row
  <2>3. PICK g \in Handler : WillReactivate(g)
    BY <1>0, <1>3, <2>1, <2>2 DEF OffIsDeleted
  <2>4. g # h
    BY <1>3, <2>3 DEF WillReactivate
  <2> QED
    BY <1>0, <1>2, <1>3, <2>1, <2>2, <2>3, <2>4
<1>4. ASSUME NEW h \in Handler, SaveOwn(h)
      PROVE  \E k \in Handler : WillReactivate(k)'
  <2> DEFINE c == [handler[h].copy EXCEPT !.own = TRUE]
  <2>1. handler[h] # Idle /\ handler[h].copy \in Row
    BY <1>4, BusyTyped, KindIsBusy DEF SaveOwn
  <2>2. c \in Row /\ c.login = handler[h].copy.login
    BY <2>1 DEF Row
  <2>3. /\ Save(c) /\ Hazard(handler[h].seen, c) \subseteq faults' /\ Goes(h, Idle)
        /\ handler[h].kind = "own"
    BY <1>4 DEF SaveOwn, Goes
  <2> HIDE DEF c
  <2>4. handler[h].copy = emp /\ ~emp.del
    BY <1>0, <2>1, <2>3, NoOverlap DEF CopiesFit, Fits
  <2>5. Exists /\ emp \in Row
    BY <2>1, <2>4, NoRowIsNoRow DEF Exists
  <2> QED
    BY <1>3, <2>2, <2>3, <2>4, <2>5
<1>5. ASSUME NEW job \in BOOLEAN, NEW a \in Account \cup {NoAccount}, Add(job, a)
      PROVE  FALSE
  <2> DEFINE c == [del |-> FALSE, own |-> FALSE, told |-> FALSE, job |-> job,
                   login |-> a]
  <2>1. c \in Row
    BY DEF Row
  <2>2. Save(c) /\ ~Exists
    BY <1>5 DEF Add
  <2> HIDE DEF c
  <2>3. emp' \in Row /\ \A b \in Account : user'[b] = "off" => user[b] = "off"
    BY <1>0, <2>1, <2>2, SaveEffect
  <2> QED
    BY <1>0, <2>2, <2>3 DEF Accounted, Row
<1>6. ASSUME NEW h \in Handler, NEW job \in BOOLEAN, NEW del \in BOOLEAN,
             NEW a \in Account \cup {NoAccount}, SaveHR(h, job, a, del)
      PROVE  \E k \in Handler : WillReactivate(k)'
  <2> DEFINE r == handler[h].copy
             c == [r EXCEPT !.job = job, !.login = a, !.del = del]
  <2>1. handler[h] # Idle /\ r \in Row
    BY <1>6, BusyTyped, KindIsBusy DEF SaveHR
  <2>2. c \in Row /\ c.login = a
    BY <2>1 DEF Row
  <2>3. /\ Save(c) /\ Hazard(r, c) \subseteq faults' /\ Goes(h, Idle)
        /\ handler[h].kind = "hr"
        /\ r.login \notin {a, NoAccount} => "renamed" \in faults'
    BY <1>6 DEF SaveHR, Goes
  <2> HIDE DEF c
  <2>4. r = emp /\ ~emp.del
    BY <1>0, <2>1, <2>3, NoOverlap DEF CopiesFit, Fits
  <2>5. Exists /\ emp \in Row /\ emp.login \in {c.login, NoAccount}
    BY <1>0, <2>1, <2>2, <2>3, <2>4, NoRowIsNoRow DEF Exists, Settled, NoFault
  <2> QED
    BY <1>3, <2>2, <2>3, <2>4, <2>5
<1>7. CASE SoftDelete
  <2>1. emp \in Row /\ emp' = Stored([emp EXCEPT !.del = TRUE])
    BY <1>7 DEF SoftDelete, Save, Exists, TypeOK
  <2> QED
    BY <2>1 DEF Stored, Row
<1>8. ASSUME NEW a \in Account, Offboard(a)
      PROVE  FALSE
  <2>1. Exists /\ emp \in Row /\ emp.login = a
    BY <1>0, <1>8 DEF Offboard, Accounted, Exists, TypeOK
  <2>2. CASE emp.del
    BY <1>8, <2>1, <2>2 DEF Offboard
  <2>3. CASE ~emp.del
    BY <1>8, <2>1, <2>3 DEF Offboard, Stored, Row
  <2> QED
    BY <2>2, <2>3
<1>9. ASSUME NEW h \in Handler, SaveRestore(h)
      PROVE  \E k \in Handler : WillReactivate(k)'
  <2>1. PICK c \in Row :
           /\ c = [handler[h].copy EXCEPT !.del = FALSE]
           /\ Save(c) /\ faults' = faults \cup Hazard(handler[h].seen, c)
           /\ \E b \in Busy : Goes(h, b) /\ b.copy = c /\ b.seen = Stored(c)
                              /\ b.kind = "restore" /\ b.step # "read"
    BY <1>9, AfterSaveRestore
  <2>2. PICK b \in Busy : Goes(h, b) /\ b.copy = c /\ b.kind = "restore"
                          /\ b.step # "read"
    BY <2>1
  <2>3. handler'[h] = b /\ b.step \in {"saved", "again"}
    BY <2>2, HandlerAfter DEF Busy
  <2>4. emp'.login = c.login
    BY <2>1 DEF Save, Stored, Row
  <2> QED
    BY <2>2, <2>3, <2>4 DEF WillReactivate
\* The steps that leave the record alone, and have its account not off.
<1>10. ASSUME emp' = emp, user[emp.login] = "off" PROVE \E h \in Handler : WillReactivate(h)
  BY <1>0, <1>10 DEF OffIsDeleted, Exists
<1>11. ASSUME NEW h \in Handler, Reads(h)
       PROVE  \E k \in Handler : WillReactivate(k)'
  <2>1. UNCHANGED <<emp, user>> /\ handler[h] = Idle
    BY <1>11 DEF Reads, ReadOwn, ReadHR, ReadRestore, ReadErase
  <2>2. PICK b \in Busy : Goes(h, b)
    BY <1>11, AfterRead
  <2>3. PICK g \in Handler : WillReactivate(g)
    BY <1>10, <2>1
  <2>4. g # h
    BY <1>0, <2>1, <2>3 DEF WillReactivate
  <2> QED
    BY <1>2, <2>1, <2>2, <2>3, <2>4
<1>12. ASSUME NEW h \in Handler, Reactivate(h)
       PROVE  \E k \in Handler : WillReactivate(k)'
  <2>1. /\ handler[h].kind = "restore" /\ emp' = emp /\ Goes(h, Idle)
    BY <1>12 DEF Reactivate, Goes
  <2>2. handler[h].copy.login \in Account \cup {NoAccount} /\ emp.login \in Account
    BY <2>1, BusyTyped, KindIsBusy DEF Row, TypeOK, Exists
  <2>3. user[emp.login] = "off" /\ handler[h].copy.login # emp.login
    BY <1>12, <2>1, <2>2 DEF Reactivate, TypeOK
  <2>4. PICK g \in Handler : WillReactivate(g)
    BY <1>10, <2>1, <2>3
  <2>5. g # h
    BY <2>3, <2>4 DEF WillReactivate
  <2> QED
    BY <1>0, <1>2, <2>1, <2>4, <2>5
<1>13. ASSUME NEW h \in Handler, EraseUser(h)
       PROVE  \E k \in Handler : WillReactivate(k)'
  <2>1. handler[h] \in Busy /\ handler[h].kind = "erase" /\ emp' = emp
    BY <1>13, BusyTyped, KindIsBusy DEF EraseUser
  <2>2. Goes(h, [handler[h] EXCEPT !.step = "saved"])
        /\ [handler[h] EXCEPT !.step = "saved"] \in Busy
    BY <1>13, <2>1 DEF EraseUser, Goes, Busy
  <2>3. user[emp.login] = "off"
    BY <1>13, <2>1 DEF EraseUser, TypeOK, Exists, Row
  <2>4. PICK g \in Handler : WillReactivate(g)
    BY <1>10, <2>1, <2>3
  <2>5. g # h
    BY <2>1, <2>4 DEF WillReactivate
  <2> QED
    BY <1>2, <2>1, <2>2, <2>4, <2>5
<1>14. ASSUME NEW h \in Handler, EraseEmployee(h)
       PROVE  FALSE
  BY <1>14 DEF EraseEmployee, Exists
<1>15. CASE Supporters \/ UNCHANGED vars
  <2>1. UNCHANGED <<emp, user, handler>>
    BY <1>15 DEF Supporters, vars
  <2> QED
    BY <1>10, <2>1 DEF WillReactivate
<1>16. ASSUME NEW h \in Handler, Crash(h)
       PROVE  \E k \in Handler : WillReactivate(k)'
  <2>1. Goes(h, Idle) /\ UNCHANGED <<emp, user>> /\ handler[h].step = "read"
    BY <1>16 DEF Crash, Goes, Unbroken, NoFault
  <2>2. PICK g \in Handler : WillReactivate(g)
    BY <1>10, <2>1
  <2>3. g # h
    BY <2>1, <2>2 DEF WillReactivate
  <2> QED
    BY <1>0, <1>2, <2>1, <2>2, <2>3
<1>17. ASSUME NEW h \in Handler, Torn(h)
       PROVE  FALSE
  BY <1>17 DEF Torn, Unbroken, NoFault
<1> QED
  BY <1>1, <1>4, <1>5, <1>6, <1>7, <1>8, <1>9, <1>11, <1>12, <1>13, <1>14, <1>15,
     <1>16, <1>17 DEF Next, Reads

\* Who is employed can log in, for any number of requests and accounts, once no
\* restoration is under way, unless a stale copy was written, the account was
\* exchanged, or a request died between its commits.
THEOREM EmployedStaysIn == Spec => []EmployedIsIn
<1>1. Init => Restoring
  BY DEF Init, Restoring, OffIsDeleted, Exists
<1>2. Restoring => EmployedIsIn
  BY DEF Restoring, Unbroken, OffIsDeleted, WillReactivate, EmployedIsIn
<1> QED
  BY <1>1, <1>2, RestoringStep, AccountIsKept, TypeCorrect, PTL DEF Spec
=============================================================================
