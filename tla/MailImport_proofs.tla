-------------------------- MODULE MailImport_proofs --------------------------
(***************************************************************************)
(* For any number of server processes and messages and any sizes of the    *)
(* queues and imports: every variable keeps its type, the start uid passes *)
(* no message with a ticket that is not stored, and a message is stored    *)
(* once, unless a hazard that the property names has happened.             *)
(***************************************************************************)
EXTENDS MailImport, FiniteSetTheorems, TLAPS

-----------------------------------------------------------------------------
(***************************************************************************)
(* The inductive invariants.                                               *)
(***************************************************************************)
\* Whatever the threads have of a message, it has arrived; the start uid is at
\* most that of the next message.
ArrivedOnly ==
    /\ row.start <= Len(box) + 1
    /\ \A p \in Process :
          /\ importer[p].step = "begun" => importer[p].ea.start <= Len(box) + 1
          /\ importer[p].step = "fetching" =>
                \A i \in 1 .. Len(importer[p].todo) : importer[p].todo[i] \in Arrived
          /\ \A i \in 1 .. Len(queue[p]) : queue[p][i].m \in Arrived
          /\ storer[p] # Rest => storer[p].item.m \in Arrived

\* A message with a ticket that is not stored.
Missing(m) == m \in Arrived /\ box[m] = "ticket" /\ stored[m] = 0

InHand(p, m) == storer[p].step = "checked" /\ storer[p].item.m = m
\* It is among the first n of a queue, or of what an import has left to fetch.
Queued(p, m, n) == \E j \in 1 .. n : queue[p][j].m = m
Listed(p, m, n) == \E j \in 1 .. n : importer[p].todo[j] = m

\* What a process has in its threads and queues of later messages comes after m:
\* the start uid can not be moved past m before m is stored.
ImportWaits(p, m) ==
    /\ importer[p].step = "begun" => importer[p].ea.start <= m
    /\ importer[p].step = "fetching" =>
          \A i \in 1 .. Len(importer[p].todo) :
              m < importer[p].todo[i] => \/ InHand(p, m)
                                         \/ Queued(p, m, Len(queue[p]))
                                         \/ Listed(p, m, i - 1)
QueueWaits(p, m) ==
    \A i \in 1 .. Len(queue[p]) :
        queue[p][i].how = "incoming" /\ m < queue[p][i].m
        => InHand(p, m) \/ Queued(p, m, i - 1)
StorerWaits(p, m) ==
    storer[p].step = "checked" /\ storer[p].item.how = "incoming"
    => storer[p].item.m <= m

WaitsFor(m) ==
    /\ row.start <= m
    /\ \A p \in Process : ImportWaits(p, m) /\ QueueWaits(p, m) /\ StorerWaits(p, m)

NoneByHand ==
    \A p \in Process :
        /\ \A i \in 1 .. Len(queue[p]) : queue[p][i].how # "by_hand"
        /\ storer[p].step = "checked" => storer[p].item.how # "by_hand"

Careful == NoFault({"unfetched", "unreadable", "manual"})
OrderKept ==
    Careful => NoneByHand /\ \A m \in Message : Missing(m) => WaitsFor(m)

\* The processes that have looked a message up and are about to store it.
Holders(m) == {p \in Process : storer[p].step = "checked" /\ storer[p].item.m = m}

Counted ==
    \A m \in Message :
        stored[m] + Cardinality(Holders(m)) <= Cardinality(Process)

OneHolder ==
    NoFault({"twin"}) =>
        \A m \in Message :
            /\ stored[m] <= 1
            /\ stored[m] = 1 => Holders(m) = {}
            /\ \A p, q \in Holders(m) : p = q

-----------------------------------------------------------------------------
\* What UID start:* matches is a sequence of messages that have arrived.
LEMMA FoundArrived ==
    ASSUME TypeOK, NEW start \in 1 .. MaxMessages + 1
    PROVE  /\ Found(start) \in Seq(Message)
           /\ \A i \in 1 .. Len(Found(start)) :
                 /\ Found(start)[i] \in Arrived
                 /\ \A m \in Arrived :
                       start <= m /\ m < Found(start)[i]
                       => \E j \in 1 .. i - 1 : Found(start)[j] = m
<1>0. MaxMessages \in Nat /\ Len(box) \in Nat /\ Len(box) <= MaxMessages
        /\ box \in Seq(Kind)
  BY MailImportAssumption DEF TypeOK
<1>1. CASE box = <<>>
  BY <1>1 DEF Found
<1>2. CASE box # <<>>
  <2> DEFINE first == IF start <= Len(box) THEN start ELSE Len(box)
             F == [i \in 1 .. Len(box) + 1 - first |-> first + i - 1]
  <2>1. Found(start) = F
    BY <1>2 DEF Found, Onwards
  <2>2. Len(box) \in Nat \ {0}
    BY <1>0, <1>2
  <2>3. first \in 1 .. Len(box) /\ first <= start
    BY <1>0, <2>2
  <2> HIDE DEF first
  <2>4. /\ \A i \in 1 .. Len(box) + 1 - first :
              first + i - 1 \in Arrived /\ first + i - 1 \in Message
        /\ Len(box) + 1 - first \in Nat
    BY <1>0, <2>3 DEF Arrived, Message
  <2>5. F \in Seq(Message) /\ Len(F) = Len(box) + 1 - first
    BY <2>4
  <2>6. ASSUME NEW i \in 1 .. Len(F), NEW m \in Arrived,
               start <= m, m < F[i]
        PROVE  \E j \in 1 .. i - 1 : F[j] = m
    <3>1. /\ m - first + 1 \in 1 .. i - 1
          /\ m - first + 1 \in 1 .. Len(box) + 1 - first
      BY <1>0, <2>3, <2>5, <2>6 DEF Arrived
    <3>2. F[m - first + 1] = m
      BY <3>1, <2>3, <1>0 DEF Arrived
    <3> QED
      BY <3>1, <3>2
  <2>7. \A i \in 1 .. Len(F) : F[i] \in Arrived
    BY <2>4, <2>5
  <2> QED
    BY <2>1, <2>5, <2>6, <2>7
<1> QED
  BY <1>1, <1>2

\* The part of it that one import takes.
Taken(s) == SubSeq(s, 1, IF Len(s) < Batch THEN Len(s) ELSE Batch)

LEMMA TakenFirst ==
    ASSUME NEW s \in Seq(Message)
    PROVE  /\ Taken(s) \in Seq(Message)
           /\ Len(Taken(s)) <= Len(s)
           /\ \A i \in 1 .. Len(Taken(s)) : Taken(s)[i] = s[i]
<1> DEFINE n == IF Len(s) < Batch THEN Len(s) ELSE Batch
<1>1. n \in 0 .. Len(s)
  BY MailImportAssumption
<1> HIDE DEF n
<1>2. Taken(s) = SubSeq(s, 1, n)
  BY DEF Taken, n
<1> QED
  BY <1>1, <1>2

-----------------------------------------------------------------------------
(***************************************************************************)
(* Types.  That a message is stored by each process at most once is part   *)
(* of them: each that holds it has found it not stored.                    *)
(***************************************************************************)
LEMMA HoldersCounted ==
    ASSUME NEW m
    PROVE  /\ IsFiniteSet(Process) /\ Cardinality(Process) \in Nat
           /\ IsFiniteSet(Holders(m)) /\ Cardinality(Holders(m)) \in Nat
           /\ Cardinality(Holders(m)) <= Cardinality(Process)
<1>1. IsFiniteSet(Process) /\ Holders(m) \subseteq Process
  BY MailImportAssumption DEF Holders
<1> QED
  BY <1>1, FS_Subset, FS_CardinalityType

\* Processes that only drop what they hold keep the count.
LEMMA CountKept ==
    ASSUME TypeOK, Counted,
           UNCHANGED stored, \A m \in Message : Holders(m)' \subseteq Holders(m)
    PROVE  Counted'
<1> SUFFICES ASSUME NEW m \in Message
             PROVE  stored'[m] + Cardinality(Holders(m)') <= Cardinality(Process)
  BY DEF Counted
<1> DEFINE H == Holders(m) 
           K == Holders(m)'
<1>1. IsFiniteSet(H) /\ Cardinality(H) \in Nat /\ Cardinality(Process) \in Nat
  BY HoldersCounted
<1>2. K \subseteq H
  OBVIOUS
<1>3. Cardinality(K) \in Nat /\ Cardinality(K) <= Cardinality(H)
  <2> HIDE DEF H, K
  <2> QED
    BY <1>1, <1>2, FS_Subset, FS_CardinalityType
<1>4. stored[m] \in Nat /\ stored[m] + Cardinality(H) <= Cardinality(Process)
        /\ stored'[m] = stored[m]
  BY <1>1 DEF Counted, TypeOK
<1> HIDE DEF H, K
<1>5. stored'[m] + Cardinality(K) <= Cardinality(Process)
  BY <1>1, <1>3, <1>4
<1> QED
  BY <1>5 DEF K

\* A process takes hold of a message that nobody has stored.
LEMMA CountHeld ==
    ASSUME TypeOK, Counted, UNCHANGED stored,
           NEW n \in Message, stored[n] = 0,
           \A m \in Message \ {n} : Holders(m)' \subseteq Holders(m)
    PROVE  Counted'
<1> SUFFICES ASSUME NEW m \in Message
             PROVE  stored'[m] + Cardinality(Holders(m)') <= Cardinality(Process)
  BY DEF Counted
<1> DEFINE H == Holders(m)
           K == Holders(m)'
<1>1. /\ IsFiniteSet(H) /\ Cardinality(H) \in Nat
      /\ Cardinality(Process) \in Nat /\ IsFiniteSet(Process)
  BY HoldersCounted
<1>2. stored[m] \in Nat /\ stored[m] + Cardinality(H) <= Cardinality(Process)
        /\ stored'[m] = stored[m]
  BY <1>1 DEF Counted, TypeOK
<1>3. CASE m = n
  <2>1. K \subseteq Process
    BY DEF Holders
  <2> HIDE DEF K
  <2>2. Cardinality(K) <= Cardinality(Process) /\ Cardinality(K) \in Nat
    BY <1>1, <2>1, FS_Subset, FS_CardinalityType
  <2>3. stored'[m] + Cardinality(K) <= Cardinality(Process)
    BY <1>1, <1>2, <1>3, <2>2
  <2> QED
    BY <2>3 DEF K
<1>4. CASE m # n
  <2>1. K \subseteq H
    BY <1>4
  <2> HIDE DEF H, K
  <2>2. Cardinality(K) \in Nat /\ Cardinality(K) <= Cardinality(H)
    BY <1>1, <2>1, FS_Subset, FS_CardinalityType
  <2>3. stored'[m] + Cardinality(K) <= Cardinality(Process)
    BY <1>1, <1>2, <2>2
  <2> QED
    BY <2>3 DEF K
<1> QED
  BY <1>3, <1>4

\* It stores it and lets go.
LEMMA CountStored ==
    ASSUME TypeOK, Counted,
           NEW p \in Process, NEW n \in Message, p \in Holders(n),
           stored' = [stored EXCEPT ![n] = @ + 1],
           Holders(n)' = Holders(n) \ {p},
           \A m \in Message \ {n} : Holders(m)' \subseteq Holders(m)
    PROVE  /\ Counted'
           /\ stored[n] + 1 \in 0 .. Cardinality(Process)
<1>0. /\ Cardinality(Holders(n) \ {p}) = Cardinality(Holders(n)) - 1
      /\ Cardinality(Holders(n)) \in Nat /\ Cardinality(Holders(n)) # 0
      /\ Cardinality(Process) \in Nat
  <2>1. IsFiniteSet(Holders(n)) /\ Cardinality(Process) \in Nat
    BY HoldersCounted
  <2> QED
    BY <2>1, FS_RemoveElement, FS_CardinalityType, FS_EmptySet
<1>1. stored[n] \in Nat
        /\ stored[n] + Cardinality(Holders(n)) <= Cardinality(Process)
  BY <1>0 DEF Counted, TypeOK
<1>2. stored[n] + 1 \in 0 .. Cardinality(Process)
  BY <1>0, <1>1
<1>3. ASSUME NEW m \in Message
      PROVE  stored'[m] + Cardinality(Holders(m)') <= Cardinality(Process)
  <2> DEFINE H == Holders(m)
             K == Holders(m)'
  <2>1. CASE m = n
    <3>1. stored'[n] = stored[n] + 1
      BY DEF TypeOK
    <3>2. K = Holders(n) \ {p}
      BY <2>1
    <3> HIDE DEF K
    <3>3. stored'[m] + Cardinality(K) <= Cardinality(Process)
      BY <1>0, <1>1, <2>1, <3>1, <3>2
    <3> QED
      BY <3>3 DEF K
  <2>2. CASE m # n
    <3>1. IsFiniteSet(H) /\ Cardinality(H) \in Nat /\ K \subseteq H
      BY <2>2, HoldersCounted
    <3>2. stored'[m] = stored[m] /\ stored[m] \in Nat
            /\ stored[m] + Cardinality(H) <= Cardinality(Process)
      BY <2>2, <1>0 DEF Counted, TypeOK
    <3> HIDE DEF H, K
    <3>3. Cardinality(K) \in Nat /\ Cardinality(K) <= Cardinality(H)
      BY <3>1, FS_Subset, FS_CardinalityType
    <3>4. stored'[m] + Cardinality(K) <= Cardinality(Process)
      BY <1>0, <3>1, <3>2, <3>3
    <3> QED
      BY <3>4 DEF K
  <2> QED
    BY <2>1, <2>2
<1> QED
  BY <1>2, <1>3 DEF Counted

-----------------------------------------------------------------------------
(***************************************************************************)
(* What each step does to the threads.                                     *)
(***************************************************************************)
LEMMA RestIs == Rest.step = "idle"
  BY DEF Rest

\* The importer of p has become a, and nothing else has changed but the faults.
Imports(p, a) ==
    /\ importer' = [importer EXCEPT ![p] = a]
    /\ UNCHANGED <<box, queue, storer, inquiries, stored, inquiry, asked, picks>>

LEMMA LookIs ==
    ASSUME TypeOK, NEW p \in Process, Look(p)
    PROVE  /\ importer[p].step = "begun"
           /\ row' = row
           /\ \/ Imports(p, Rest)
              \/ "unfetched" \in faults'
                 /\ Imports(p, [step |-> "fetching", next |-> Len(box) + 1,
                                todo |-> <<>>])
              \/ Imports(p, [step |-> "fetching", next |-> Len(box) + 1,
                             todo |-> Taken(Found(importer[p].ea.start))])
           /\ faults' \subseteq faults \cup {"unfetched", "limit"}
           /\ faults \subseteq faults'
  BY DEF Look, Imports, Taken, Fail, kept

LEMMA CopyIs ==
    ASSUME TypeOK, NEW p \in Process, importer[p].step = "begun"
    PROVE  importer[p].ea \in Account
  BY RestIs DEF TypeOK, Import, Rest

LEMMA FetchingIs ==
    ASSUME TypeOK, NEW p \in Process, importer[p].step = "fetching"
    PROVE  /\ importer[p].next \in 0 .. MaxMessages + 1
           /\ importer[p].todo \in Seq(Message)
           /\ importer[p] \in [step : {"fetching"}, next : 0 .. MaxMessages + 1,
                               todo : Seq(Message)]
  BY RestIs DEF TypeOK, Import, Rest

LEMMA HoldingIs ==
    ASSUME TypeOK, NEW p \in Process, storer[p] # Rest
    PROVE  /\ storer[p].step \in {"checked", "saved"}
           /\ storer[p].item \in Item
           /\ storer[p].item.m \in Message
  BY DEF TypeOK, Item

\* One message more is queued, or left out.
LEMMA FetchIs ==
    ASSUME TypeOK, NEW p \in Process, Fetch(p)
    PROVE  /\ importer[p].step = "fetching" /\ importer[p].todo # <<>>
           /\ importer' = [importer EXCEPT ![p] =
                 [step |-> "fetching", next |-> importer[p].next,
                  todo |-> Tail(importer[p].todo)]]
           /\ \/ /\ Len(queue[p]) < QueueSize
                 /\ queue' = [queue EXCEPT ![p] =
                       Append(queue[p], [m   |-> Head(importer[p].todo),
                                         how |-> "incoming"])]
                 /\ faults' = faults
              \/ queue' = queue /\ faults' = faults \cup {"unfetched"}
           /\ UNCHANGED <<box, row, storer, inquiries, stored, inquiry, asked,
                          picks>>
<1>1. [importer[p] EXCEPT !.todo = Tail(importer[p].todo)]
        = [step |-> "fetching", next |-> importer[p].next,
           todo |-> Tail(importer[p].todo)]
  <2> DEFINE q == [importer[p] EXCEPT !.todo = Tail(importer[p].todo)]
  <2>1. importer[p] \in [step : {"fetching"}, next : 0 .. MaxMessages + 1,
                        todo : Seq(Message)]
    BY FetchingIs DEF Fetch
  <2>2. q = [importer[p] EXCEPT !.todo = Tail(importer[p].todo)]
    OBVIOUS
  <2> HIDE DEF q
  <2>3. q = [step |-> "fetching", next |-> importer[p].next,
             todo |-> Tail(importer[p].todo)]
    BY <2>1, <2>2
  <2> QED
    BY <2>3 DEF q
<1>2. importer' = [importer EXCEPT ![p] =
                 [step |-> "fetching", next |-> importer[p].next,
                  todo |-> Tail(importer[p].todo)]]
  BY <1>1 DEF Fetch, TypeOK
<1>3. Len(queue[p]) < QueueSize => 
        [queue EXCEPT ![p] = Append(@, [m |-> Head(importer[p].todo), how |-> "incoming"])]
          = [queue EXCEPT ![p] =
                       Append(queue[p], [m   |-> Head(importer[p].todo),
                                         how |-> "incoming"])]
  BY DEF TypeOK
<1> QED
  BY <1>2, <1>3 DEF Fetch, Fail, kept

\* A message is taken out of the queue: dropped, perhaps with the start uid
\* moved past it, or held to be stored.
LEMMA CheckIs ==
    ASSUME TypeOK, NEW p \in Process, Check(p)
    PROVE  LET it == Head(queue[p])
           IN  /\ storer[p] = Rest /\ queue[p] # <<>>
               /\ queue' = [queue EXCEPT ![p] = Tail(queue[p])]
               /\ faults \subseteq faults'
               /\ faults' \subseteq faults \cup {"unreadable", "twin"}
               /\ \/ /\ storer' = storer
                     /\ \/ row' = row /\ (\/ box[it.m] = "ours"
                                         \/ "unreadable" \in faults'
                                         \/ stored[it.m] > 0)
                        \/ /\ box[it.m] # "ticket" /\ it.how = "incoming"
                           /\ Advance(it.m)
                  \/ /\ storer' = [storer EXCEPT ![p] =
                                      [step |-> "checked", item |-> it]]
                     /\ row' = row
                     /\ ~(stored[it.m] > 0)
                     /\ box[it.m] = "ticket" \/ it.how # "incoming"
                     /\ (\E q \in Process : /\ storer[q].step = "checked"
                                            /\ storer[q].item.m = it.m)
                        => "twin" \in faults'
               /\ UNCHANGED <<box, importer, inquiries, stored, inquiry, asked,
                              picks>>
<1> DEFINE it == Head(queue[p])
<1>1. /\ storer[p] = Rest /\ queue[p] # <<>>
      /\ queue' = [queue EXCEPT ![p] = Tail(queue[p])]
      /\ UNCHANGED <<box, importer, inquiries, stored, inquiry, asked, picks>>
  BY DEF Check, kept, TypeOK
<1>2. CASE storer' = storer /\ faults' = faults /\ UNCHANGED row
           /\ (box[it.m] = "ours" \/ stored[it.m] > 0)
  BY <1>1, <1>2
<1>3. CASE storer' = storer /\ faults' = faults /\ Advance(it.m)
           /\ box[it.m] \in {"ours", "untagged"} /\ it.how = "incoming"
  BY <1>1, <1>3
<1>4. CASE storer' = storer /\ Fail({"unreadable"}) /\ UNCHANGED row
  BY <1>1, <1>4 DEF Fail
<1>5. CASE /\ box[it.m] = "ticket" \/ it.how # "incoming"
           /\ UNCHANGED row
           /\ ~(stored[it.m] > 0)
           /\ storer' = [storer EXCEPT ![p] = [step |-> "checked", item |-> it]]
           /\ Fail(IF \E q \in Process : /\ storer[q].step = "checked"
                                         /\ storer[q].item.m = it.m
                   THEN {"twin"} ELSE {})
  BY <1>1, <1>5 DEF Fail
<1> QED
  BY <1>2, <1>3, <1>4, <1>5 DEF Check

LEMMA StoreMailIs ==
    ASSUME TypeOK, NEW p \in Process, StoreMail(p)
    PROVE  LET it == storer[p].item
           IN  /\ storer[p].step = "checked"
               /\ stored' = [stored EXCEPT ![it.m] = stored[it.m] + 1]
               /\ \/ /\ it.how = "inquiry"
                     /\ inquiry' = inquiry \cup {it.m}
                     /\ storer' = [storer EXCEPT ![p] =
                                      [step |-> "saved", item |-> it]]
                     /\ row' = row
                  \/ /\ it.how # "inquiry"
                     /\ inquiry' = inquiry
                     /\ storer' = [storer EXCEPT ![p] = Rest]
                     /\ Advance(it.m)
               /\ UNCHANGED <<box, importer, queue, inquiries, asked, picks,
                              faults>>
<1> DEFINE it == storer[p].item
<1>0. storer[p].step = "checked" /\ storer[p] # Rest
  BY RestIs DEF StoreMail
<1>1. [storer[p] EXCEPT !.step = "saved"] = [step |-> "saved", item |-> it]
  <2> DEFINE q == [storer[p] EXCEPT !.step = "saved"]
  <2>1. storer[p] \in [step : {"checked", "saved"}, item : Item]
    BY <1>0 DEF TypeOK
  <2>2. q = [storer[p] EXCEPT !.step = "saved"]
    OBVIOUS
  <2> HIDE DEF q
  <2>3. q = [step |-> "saved", item |-> it]
    BY <2>1, <2>2
  <2> QED
    BY <2>3 DEF q
<1>2. [storer EXCEPT ![p].step = "saved"]
        = [storer EXCEPT ![p] = [step |-> "saved", item |-> it]]
  BY <1>1 DEF TypeOK
<1>3. stored' = [stored EXCEPT ![it.m] = stored[it.m] + 1]
  BY <1>0, HoldingIs DEF StoreMail, TypeOK
<1> QED
  BY <1>0, <1>2, <1>3 DEF StoreMail

\* The steps that change no queue.
LEMMA ImportsTyped ==
    ASSUME TypeOK, NEW p \in Process, NEW a \in Import \cup {Rest},
           Imports(p, a), row' \in Account, faults' \subseteq Fault
    PROVE  TypeOK'
  BY DEF TypeOK, Imports, Arrived

LEMMA SecondTyped == \A p : Second(p) \subseteq Fault
  BY DEF Second, Fault

\* Where an advance leads.
LEMMA AdvanceTyped ==
    ASSUME TypeOK, NEW m \in Message, Advance(m)
    PROVE  row' \in Account /\ row'.start = m + 1
<1>1. row \in Account /\ m + 1 \in 1 .. MaxMessages + 1
  BY MailImportAssumption DEF TypeOK, Message
<1> QED
  BY <1>1 DEF Advance, Account

\* A queue from which the head is taken.
LEMMA TailOfQueue ==
    ASSUME TypeOK, NEW p \in Process, queue[p] # <<>>,
           queue' = [queue EXCEPT ![p] = Tail(queue[p])]
    PROVE  /\ queue' \in [Process -> Seq(Item)]
           /\ \A q \in Process : Len(queue'[q]) <= QueueSize
           /\ Head(queue[p]) \in Item /\ Head(queue[p]).m \in Message
<1>1. queue[p] \in Seq(Item) /\ Len(queue[p]) <= QueueSize
  BY DEF TypeOK
<1>2. Tail(queue[p]) \in Seq(Item) /\ Len(Tail(queue[p])) = Len(queue[p]) - 1
  BY <1>1
<1>3. Head(queue[p]) \in Item
  BY <1>1
<1>4. Len(Tail(queue[p])) <= QueueSize
  BY <1>1, <1>2, MailImportAssumption
<1> QED
  BY <1>2, <1>3, <1>4 DEF TypeOK, Item

LEMMA AppendToQueue ==
    ASSUME TypeOK, NEW p \in Process, NEW it \in Item,
           Len(queue[p]) < QueueSize,
           queue' = [queue EXCEPT ![p] = Append(queue[p], it)]
    PROVE  /\ queue' \in [Process -> Seq(Item)]
           /\ \A q \in Process : Len(queue'[q]) <= QueueSize
<1>1. queue[p] \in Seq(Item) /\ Len(queue[p]) <= QueueSize
  BY DEF TypeOK
<1>2. Append(queue[p], it) \in Seq(Item)
        /\ Len(Append(queue[p], it)) = Len(queue[p]) + 1
  BY <1>1
<1>4. Len(Append(queue[p], it)) <= QueueSize
  BY <1>1, <1>2, MailImportAssumption
<1> QED
  BY <1>2, <1>4 DEF TypeOK

\* Which messages a storer holds depends on its step alone.
LEMMA SameHolders ==
    ASSUME storer' = storer PROVE \A m : Holders(m)' = Holders(m)
  BY DEF Holders

LEMMA FewerHolders ==
    ASSUME TypeOK, NEW p \in Process, NEW a, a.step # "checked",
           storer' = [storer EXCEPT ![p] = a]
    PROVE  \A m : Holders(m)' = Holders(m) \ {p}
  BY DEF Holders, TypeOK

LEMMA OneHolderMore ==
    ASSUME TypeOK, NEW p \in Process, NEW it,
           storer' = [storer EXCEPT ![p] = [step |-> "checked", item |-> it]]
    PROVE  /\ \A m : m # it.m => Holders(m)' \subseteq Holders(m)
           /\ Holders(it.m)' = Holders(it.m) \cup {p}
  BY DEF Holders, TypeOK

\* Every variable keeps its type, and no message is stored more often than
\* there are server processes, however often it is found, queued or picked.
THEOREM TypeCorrect == Spec => []TypeOK
<1> DEFINE Inv == TypeOK /\ Counted
<1>1. Init => Inv
  <2> SUFFICES ASSUME Init PROVE Inv
    OBVIOUS
  <2>1. Cardinality(Process) \in Nat
    BY HoldersCounted
  <2>2. TypeOK
    BY <2>1, MailImportAssumption DEF Init, TypeOK, Account
  <2>3. ASSUME NEW m \in Message
        PROVE  stored[m] + Cardinality(Holders(m)) <= Cardinality(Process)
    <3>1. stored[m] = 0 /\ Cardinality(Holders(m)) \in Nat
            /\ Cardinality(Holders(m)) <= Cardinality(Process)
      BY HoldersCounted DEF Init
    <3> HIDE DEF Holders
    <3> QED
      BY <2>1, <3>1
  <2> QED
    BY <2>2, <2>3 DEF Counted
<1>2. Inv /\ [Next]_vars => Inv'
  <2> SUFFICES ASSUME TypeOK, Counted, [Next]_vars PROVE TypeOK' /\ Counted'
    OBVIOUS
  <2> DEFINE Goal == TypeOK' /\ Counted'
  <2>1. ASSUME NEW k \in Kind, Arrive(k) PROVE Goal
    <3>1. box' \in Seq(Kind) /\ Len(box') <= MaxMessages
      BY <2>1, MailImportAssumption DEF Arrive, TypeOK
    <3>2. TypeOK'
      BY <2>1, <3>1 DEF Arrive, TypeOK, kept
    <3> QED
      BY <2>1, <3>2, CountKept, SameHolders DEF Arrive, kept
  <2>2. ASSUME NEW p \in Process, Visit(p) PROVE Goal
    <3>1. Imports(p, [step |-> "begun", ea |-> row]) /\ row' = row
            /\ faults' \subseteq Fault
      BY <2>2, SecondTyped DEF Visit, Imports, kept, Fail, TypeOK
    <3>2. [step |-> "begun", ea |-> row] \in Import
      BY DEF Import, TypeOK
    <3>3. TypeOK'
      BY <3>1, <3>2, ImportsTyped DEF TypeOK
    <3> QED
      BY <3>1, <3>3, CountKept, SameHolders DEF Imports
  <2>3. ASSUME NEW p \in Process, Look(p) PROVE Goal
    <3>1. importer[p].step = "begun" /\ row' = row /\ faults' \subseteq Fault
      BY <2>3, LookIs DEF TypeOK, Fault
    <3>2. importer[p].ea \in Account
      BY <3>1, CopyIs
    <3>3. importer[p].ea.start \in 1 .. MaxMessages + 1
      BY <3>2 DEF Account
    <3>4. Taken(Found(importer[p].ea.start)) \in Seq(Message)
      BY <3>3, FoundArrived, TakenFirst
    <3>5. Len(box) + 1 \in 0 .. MaxMessages + 1
      BY MailImportAssumption DEF TypeOK
    <3>6. PICK a \in Import \cup {Rest} : Imports(p, a)
      <4>1. /\ [step |-> "fetching", next |-> Len(box) + 1, todo |-> <<>>]
                  \in Import
            /\ [step |-> "fetching", next |-> Len(box) + 1,
                todo |-> Taken(Found(importer[p].ea.start))] \in Import
        BY <3>4, <3>5 DEF Import
      <4> QED
        BY <2>3, <4>1, LookIs
    <3>7. TypeOK'
      BY <3>1, <3>6, ImportsTyped DEF TypeOK
    <3> QED
      BY <3>6, <3>7, CountKept, SameHolders DEF Imports
  <2>4. ASSUME NEW p \in Process, Fetch(p) PROVE Goal
    <3>1. importer[p].step = "fetching" /\ importer[p].todo # <<>>
            /\ storer' = storer /\ stored' = stored
      BY <2>4, FetchIs
    <3>2. /\ importer[p].next \in 0 .. MaxMessages + 1
          /\ importer[p].todo \in Seq(Message)
      BY <3>1, FetchingIs
    <3>3. Tail(importer[p].todo) \in Seq(Message)
            /\ Head(importer[p].todo) \in Message
      BY <3>1, <3>2
    <3>4. importer' \in [Process -> Import \cup {Rest}]
      <4>1. [step |-> "fetching", next |-> importer[p].next,
             todo |-> Tail(importer[p].todo)] \in Import
        BY <3>2, <3>3 DEF Import
      <4>2. importer' = [importer EXCEPT ![p] =
                [step |-> "fetching", next |-> importer[p].next,
                 todo |-> Tail(importer[p].todo)]]
        BY <2>4, FetchIs
      <4>3. importer \in [Process -> Import \cup {Rest}]
        BY DEF TypeOK
      <4> QED
        BY <4>1, <4>2, <4>3
    <3>5. [m |-> Head(importer[p].todo), how |-> "incoming"] \in Item
      BY <3>3 DEF Item
    <3>6. /\ queue' \in [Process -> Seq(Item)]
          /\ \A q \in Process : Len(queue'[q]) <= QueueSize
      <4>1. CASE queue' = queue
        BY <4>1 DEF TypeOK
      <4>2. CASE queue' # queue
        BY <2>4, <3>5, <4>2, FetchIs, AppendToQueue
      <4> QED
        BY <4>1, <4>2
    <3>7. faults' \subseteq Fault
      BY <2>4, FetchIs DEF TypeOK, Fault
    <3>8. TypeOK'
      BY <2>4, <3>4, <3>6, <3>7, FetchIs DEF TypeOK
    <3> QED
      BY <3>1, <3>8, CountKept, SameHolders
  <2>5. ASSUME NEW p \in Process, Finish(p) PROVE Goal
    <3>1. Imports(p, Rest) /\ faults' = faults
      BY <2>5 DEF Finish, Imports, kept
    <3>2. row' \in Account
      <4>1. importer[p].next \in 0 .. MaxMessages + 1
        BY <2>5, FetchingIs DEF Finish
      <4> QED
        BY <2>5, <4>1 DEF Finish, TypeOK, Account
    <3>3. TypeOK'
      BY <3>1, <3>2, ImportsTyped DEF TypeOK
    <3> QED
      BY <3>1, <3>3, CountKept, SameHolders DEF Imports
  <2>6. ASSUME NEW p \in Process, NEW m \in Message,
               NEW how \in {"by_hand", "inquiry"}, Pick(p, m, how)
        PROVE  Goal
    <3>1. [m |-> m, how |-> how] \in Item
      BY DEF Item
    <3>2. /\ queue' = [queue EXCEPT ![p] = Append(queue[p], [m |-> m, how |-> how])]
          /\ Len(queue[p]) < QueueSize
      BY <2>6 DEF Pick, TypeOK
    <3>3. /\ queue' \in [Process -> Seq(Item)]
          /\ \A q \in Process : Len(queue'[q]) <= QueueSize
      BY <3>1, <3>2, AppendToQueue
    <3>4. picks' \in 0 .. MaxPicks /\ faults' \subseteq Fault
      <4>1. picks' \in 0 .. MaxPicks
        BY <2>6, MailImportAssumption DEF Pick, TypeOK
      <4>2. "manual" \in Fault
        BY DEF Fault
      <4>3. faults' \subseteq Fault
        BY <2>6, <4>2, SecondTyped DEF Pick, TypeOK, Fail
      <4> QED
        BY <4>1, <4>3
    <3>5. TypeOK'
      BY <2>6, <3>3, <3>4 DEF Pick, TypeOK, kept
    <3> QED
      BY <2>6, <3>5, CountKept, SameHolders DEF Pick, kept
  <2>7. ASSUME NEW p \in Process, Check(p) PROVE Goal
    <3> DEFINE it == Head(queue[p])
    <3>1. /\ queue' \in [Process -> Seq(Item)]
          /\ \A q \in Process : Len(queue'[q]) <= QueueSize
          /\ it \in Item /\ it.m \in Message
      BY <2>7, CheckIs, TailOfQueue
    <3>2. row' \in Account
      BY <2>7, <3>1, CheckIs, AdvanceTyped DEF TypeOK
    <3>3. faults' \subseteq Fault
      BY <2>7, CheckIs DEF TypeOK, Fault
    <3>4. storer' \in [Process -> [step : {"checked", "saved"}, item : Item]
                                  \cup {Rest}]
      <4>1. /\ [step |-> "checked", item |-> it]
                  \in [step : {"checked", "saved"}, item : Item]
            /\ storer \in [Process -> [step : {"checked", "saved"}, item : Item]
                                       \cup {Rest}]
        BY <3>1 DEF TypeOK
      <4>2. \/ storer' = storer
            \/ storer' = [storer EXCEPT ![p] = [step |-> "checked", item |-> it]]
        BY <2>7, CheckIs
      <4> QED
        BY <4>1, <4>2
    <3>5. TypeOK'
      BY <2>7, <3>1, <3>2, <3>3, <3>4, CheckIs DEF TypeOK, Arrived
    <3>6. stored' = stored
      BY <2>7, CheckIs
    <3>7. CASE storer' = storer
      BY <3>5, <3>6, <3>7, CountKept, SameHolders
    <3>8. CASE storer' # storer
      <4>1. /\ storer' = [storer EXCEPT ![p] = [step |-> "checked", item |-> it]]
            /\ stored[it.m] = 0
        BY <2>7, <3>1, <3>8, CheckIs DEF TypeOK
      <4> QED
        BY <3>1, <3>5, <3>6, <4>1, OneHolderMore, CountHeld
    <3> QED
      BY <3>7, <3>8
  <2>8. ASSUME NEW p \in Process, StoreMail(p) PROVE Goal
    <3> DEFINE it == storer[p].item
    <3>0. storer[p].step = "checked" /\ storer[p] # Rest
      BY <2>8, RestIs DEF StoreMail
    <3>1. it \in Item /\ it.m \in Message
      BY <3>0, HoldingIs
    <3>2. PICK a \in [step : {"saved"}, item : Item] \cup {Rest} :
             storer' = [storer EXCEPT ![p] = a]
      BY <2>8, <3>1, StoreMailIs
    <3>3. a.step # "checked"
      BY <3>2, RestIs
    <3>4. PICK n \in Message : n = it.m
      BY <3>1
    <3>5. /\ Holders(n)' = Holders(n) \ {p}
          /\ \A m : Holders(m)' \subseteq Holders(m)
      <4>1. \A m : Holders(m)' = Holders(m) \ {p}
        BY <3>2, <3>3, FewerHolders
      <4> QED
        BY <4>1
    <3>6. p \in Holders(n)
      BY <3>0, <3>4 DEF Holders
    <3>10. stored' = [stored EXCEPT ![n] = stored[n] + 1]
      BY <2>8, <3>4, StoreMailIs
    <3>11. Counted' /\ stored[n] + 1 \in 0 .. Cardinality(Process)
      BY <3>5, <3>6, <3>10, CountStored
    <3>7. row' \in Account
      BY <2>8, <3>1, StoreMailIs, AdvanceTyped DEF TypeOK
    <3>8. stored' \in [Message -> 0 .. Cardinality(Process)]
      BY <3>10, <3>11 DEF TypeOK
    <3>9. storer' \in [Process -> [step : {"checked", "saved"}, item : Item]
                                  \cup {Rest}]
      <4>1. /\ a \in [step : {"checked", "saved"}, item : Item] \cup {Rest}
            /\ storer \in [Process -> [step : {"checked", "saved"}, item : Item]
                                       \cup {Rest}]
        BY <3>2 DEF TypeOK
      <4> QED
        BY <3>2, <4>1
    <3>12. /\ UNCHANGED <<box, importer, queue, inquiries, asked, picks, faults>>
           /\ inquiry' \subseteq inquiry \cup {it.m}
      BY <2>8, StoreMailIs
    <3>13. TypeOK'
      BY <3>1, <3>7, <3>8, <3>9, <3>12 DEF TypeOK
    <3> QED
      BY <3>11, <3>13
  <2>9. ASSUME NEW p \in Process, StoreFails(p) \/ PassOn(p) PROVE Goal
    <3>1. storer' = [storer EXCEPT ![p] = Rest] /\ stored' = stored
      BY <2>9 DEF StoreFails, PassOn, kept
    <3>2. \A m : Holders(m)' \subseteq Holders(m)
      BY <3>1, FewerHolders, RestIs
    <3>3. inquiries' \in [Process -> Seq(Message)]
            /\ \A q \in Process : Len(inquiries'[q]) <= InquirySize
      <4>1. CASE StoreFails(p)
        BY <4>1 DEF StoreFails, TypeOK
      <4>2. CASE PassOn(p)
        <5>1. storer[p].item.m \in Message
          BY <4>2, RestIs, HoldingIs DEF PassOn
        <5>2. inquiries[p] \in Seq(Message) /\ Len(inquiries[p]) < InquirySize
          BY <4>2 DEF PassOn, TypeOK
        <5>3. inquiries' = [inquiries EXCEPT ![p] =
                               Append(inquiries[p], storer[p].item.m)]
          BY <4>2 DEF PassOn, TypeOK
        <5>4. Append(inquiries[p], storer[p].item.m) \in Seq(Message)
                /\ Len(Append(inquiries[p], storer[p].item.m)) <= InquirySize
          BY <5>1, <5>2, MailImportAssumption
        <5> QED
          BY <5>3, <5>4 DEF TypeOK
      <4> QED
        BY <2>9, <4>1, <4>2
    <3>4. faults' \subseteq Fault
      BY <2>9 DEF StoreFails, PassOn, Fail, TypeOK, Fault
    <3>5. TypeOK'
      BY <2>9, <3>1, <3>3, <3>4 DEF StoreFails, PassOn, TypeOK, kept
    <3> QED
      BY <3>1, <3>2, <3>5, CountKept
  <2>10. ASSUME NEW p \in Process, Ask(p) PROVE Goal
    <3>1. inquiries[p] \in Seq(Message) /\ Len(inquiries[p]) <= InquirySize
            /\ inquiries[p] # <<>>
      BY <2>10 DEF Ask, TypeOK
    <3>2. /\ Tail(inquiries[p]) \in Seq(Message)
          /\ Len(Tail(inquiries[p])) <= InquirySize
          /\ Head(inquiries[p]) \in Message
      BY <3>1, MailImportAssumption
    <3>3. TypeOK'
      BY <2>10, <3>2 DEF Ask, TypeOK, Fail, Fault
    <3> QED
      BY <2>10, <3>3, CountKept, SameHolders DEF Ask
  <2>11. ASSUME NEW p \in Process, Crash(p) PROVE Goal
    <3>1. \A m : Holders(m)' \subseteq Holders(m)
      BY <2>11, FewerHolders, RestIs DEF Crash
    <3>2. <<>> \in Seq(Item) /\ <<>> \in Seq(Message) /\ Len(<<>>) = 0
      OBVIOUS
    <3>3. TypeOK'
      BY <2>11, <3>2, MailImportAssumption DEF Crash, TypeOK, kept, Fail, Fault
    <3> QED
      BY <2>11, <3>1, <3>3, CountKept DEF Crash, kept
  <2>12. ASSUME UNCHANGED vars PROVE Goal
    <3>1. TypeOK'
      BY <2>12 DEF vars, kept, TypeOK
    <3> QED
      BY <2>12, <3>1, CountKept, SameHolders DEF vars, kept
  <2> HIDE DEF Goal
  <2>13. Goal
    BY <2>1, <2>2, <2>3, <2>4, <2>5, <2>6, <2>7, <2>8, <2>9, <2>10, <2>11,
       <2>12 DEF Next
  <2> QED
    BY <2>13 DEF Goal
<1> QED
  BY <1>1, <1>2, PTL DEF Spec

-----------------------------------------------------------------------------
(***************************************************************************)
(* A message is stored once.                                               *)
(***************************************************************************)
\* Without a twin the processes that are about to store a message are at most
\* one, and then it is not stored yet.
LEMMA FewerKeepOne ==
    ASSUME OneHolder, faults \subseteq faults', UNCHANGED stored,
           \A m \in Message : Holders(m)' \subseteq Holders(m)
    PROVE  OneHolder'
  BY DEF OneHolder, NoFault

\* A message is stored once, by whichever thread and however often it is found or
\* picked: a storer that has looked it up is alone, and what it finds stored is
\* left, unless two look it up at the same time.
THEOREM StoredAtMostOnce == Spec => []StoredOnce
<1>1. Init => OneHolder
  BY RestIs DEF Init, OneHolder, Holders
<1>2. TypeOK /\ OneHolder /\ [Next]_vars => OneHolder'
  <2> SUFFICES ASSUME TypeOK, OneHolder, [Next]_vars PROVE OneHolder'
    OBVIOUS
  <2>1. ASSUME UNCHANGED <<stored, storer>>, faults \subseteq faults'
        PROVE  OneHolder'
    BY <2>1, FewerKeepOne, SameHolders
  <2>2. ASSUME NEW p \in Process, Check(p) PROVE OneHolder'
    <3> DEFINE it == Head(queue[p])
    <3>1. stored' = stored /\ faults \subseteq faults'
      BY <2>2, CheckIs
    <3>2. CASE storer' = storer
      BY <3>1, <3>2, FewerKeepOne, SameHolders
    <3>3. CASE storer' # storer
      <4>1. /\ storer' = [storer EXCEPT ![p] = [step |-> "checked", item |-> it]]
            /\ ~(stored[it.m] > 0)
            /\ (\E q \in Process : /\ storer[q].step = "checked"
                                   /\ storer[q].item.m = it.m)
               => "twin" \in faults'
        BY <2>2, <3>3, CheckIs
      <4>2. PICK n \in Message : n = it.m
        BY <2>2, CheckIs, TailOfQueue
      <4>3. NoFault({"twin"})' => NoFault({"twin"}) /\ Holders(n) = {}
        BY <3>1, <4>1, <4>2 DEF NoFault, Holders
      <4>4. /\ Holders(n)' = Holders(n) \cup {p}
            /\ \A m : m # n => Holders(m)' \subseteq Holders(m)
        BY <4>1, <4>2 DEF Holders, TypeOK
      <4>5. stored[n] = 0
        BY <4>1, <4>2 DEF TypeOK
      <4> QED
        BY <3>1, <4>3, <4>4, <4>5 DEF OneHolder
    <3> QED
      BY <3>2, <3>3
  <2>3. ASSUME NEW p \in Process, StoreMail(p) PROVE OneHolder'
    <3>0. storer[p].step = "checked" /\ storer[p] # Rest
      BY <2>3, RestIs DEF StoreMail
    <3>1. PICK n \in Message : n = storer[p].item.m
      BY <3>0, HoldingIs
    <3>2. PICK a : /\ storer' = [storer EXCEPT ![p] = a]
                   /\ a.step # "checked"
      BY <2>3, RestIs, StoreMailIs
    <3>3. /\ \A m : Holders(m)' = Holders(m) \ {p}
          /\ p \in Holders(n)
      BY <3>0, <3>1, <3>2, FewerHolders DEF Holders
    <3>4. /\ stored' = [stored EXCEPT ![n] = stored[n] + 1]
          /\ faults' = faults
      BY <2>3, <3>1, StoreMailIs
    <3> SUFFICES ASSUME NoFault({"twin"}), NEW m \in Message
                 PROVE  /\ stored'[m] <= 1
                        /\ stored'[m] = 1 => Holders(m)' = {}
                        /\ \A q, r \in Holders(m)' : q = r
      BY <3>4 DEF OneHolder, NoFault
    <3>5. /\ stored[m] <= 1
          /\ stored[m] = 1 => Holders(m) = {}
          /\ \A q, r \in Holders(m) : q = r
      BY DEF OneHolder
    <3>6. CASE m = n
      <4>1. stored[n] = 0
        BY <3>3, <3>5, <3>6, MailImportAssumption DEF TypeOK, Message
      <4>2. stored'[n] = 1
        BY <3>4, <4>1 DEF TypeOK
      <4>3. Holders(n)' = {}
        BY <3>3, <3>5, <3>6
      <4> QED
        BY <3>6, <4>2, <4>3
    <3>7. CASE m # n
      BY <3>3, <3>4, <3>5, <3>7 DEF TypeOK
    <3> QED
      BY <3>6, <3>7
  <2>4. ASSUME NEW p \in Process, StoreFails(p) \/ PassOn(p) \/ Crash(p)
        PROVE  OneHolder'
    <3>1. /\ storer' = [storer EXCEPT ![p] = Rest] /\ stored' = stored
          /\ faults \subseteq faults'
      BY <2>4 DEF StoreFails, PassOn, Crash, Fail, kept
    <3>2. \A m : Holders(m)' \subseteq Holders(m)
      BY <3>1, FewerHolders, RestIs
    <3> QED
      BY <3>1, <3>2, FewerKeepOne
  <2> QED
    BY <2>1, <2>2, <2>3, <2>4
       DEF Next, Arrive, Visit, Look, Fetch, Finish, Pick, Ask, Fail, kept, vars
<1>3. TypeOK /\ OneHolder => StoredOnce
  BY DEF OneHolder, StoredOnce, NoFault
<1> QED
  BY <1>1, <1>2, <1>3, TypeCorrect, PTL DEF Spec

-----------------------------------------------------------------------------
(***************************************************************************)
(* What the threads have has arrived.                                      *)
(***************************************************************************)
LEMMA BoxGrows ==
    TypeOK /\ [Next]_vars => /\ Len(box) \in Nat /\ Len(box') \in Nat
                             /\ Len(box) <= Len(box')
                             /\ Arrived \subseteq Arrived'
                             /\ \A m \in Arrived : box'[m] = box[m]
<1> SUFFICES ASSUME TypeOK, [Next]_vars
             PROVE  /\ Len(box) \in Nat /\ Len(box') \in Nat
                    /\ Len(box) <= Len(box')
                    /\ Arrived \subseteq Arrived'
                    /\ \A m \in Arrived : box'[m] = box[m]
  OBVIOUS
<1>0. box \in Seq(Kind) /\ Len(box) \in Nat
  BY DEF TypeOK
<1>1. CASE box' = box
  BY <1>0, <1>1 DEF Arrived
<1>2. ASSUME NEW k \in Kind, box' = Append(box, k)
      PROVE  /\ Len(box') = Len(box) + 1
             /\ \A m \in Arrived : box'[m] = box[m]
  BY <1>0, <1>2 DEF Arrived
<1>3. box' = box \/ \E k \in Kind : box' = Append(box, k)
  BY DEF Next, Arrive, Visit, Look, Fetch, Finish, Pick, Check, StoreMail,
         StoreFails, PassOn, Ask, Crash, vars
<1>4. ASSUME NEW k \in Kind, box' = Append(box, k)
      PROVE  Arrived \subseteq Arrived'
  BY <1>0, <1>2, <1>4 DEF Arrived
<1> QED
  BY <1>0, <1>1, <1>2, <1>3, <1>4

\* Elements of a queue after one was taken out at the head or put in at the end.
LEMMA TailIs ==
    ASSUME NEW S, NEW s \in Seq(S), s # <<>>
    PROVE  /\ Tail(s) \in Seq(S) /\ Len(s) \in Nat \ {0}
           /\ Len(Tail(s)) = Len(s) - 1
           /\ Head(s) = s[1] /\ Head(s) \in S
           /\ \A i \in 1 .. Len(s) - 1 : Tail(s)[i] = s[i + 1]
  OBVIOUS

LEMMA AppendIs ==
    ASSUME NEW S, NEW s \in Seq(S), NEW e \in S
    PROVE  /\ Append(s, e) \in Seq(S) /\ Len(s) \in Nat
           /\ Len(Append(s, e)) = Len(s) + 1
           /\ \A i \in 1 .. Len(s) : Append(s, e)[i] = s[i]
           /\ Append(s, e)[Len(s) + 1] = e
  OBVIOUS

\* The same of the queue of p, with the types of what is moved.
LEMMA FetchedIs ==
    ASSUME TypeOK, NEW p \in Process, Fetch(p)
    PROVE  /\ importer[p].step = "fetching" /\ importer'[p].step = "fetching"
           /\ \A q \in Process \ {p} : importer'[q] = importer[q]
           /\ Len(importer[p].todo) \in Nat \ {0}
           /\ importer[p].todo[1] \in Message
           /\ Len(importer'[p].todo) = Len(importer[p].todo) - 1
           /\ \A i \in 1 .. Len(importer[p].todo) - 1 :
                 importer'[p].todo[i] = importer[p].todo[i + 1]
           /\ Len(queue[p]) \in Nat
           /\ \/ queue' = queue /\ "unfetched" \in faults'
              \/ /\ \A q \in Process \ {p} : queue'[q] = queue[q]
                 /\ Len(queue'[p]) = Len(queue[p]) + 1
                 /\ \A i \in 1 .. Len(queue[p]) : queue'[p][i] = queue[p][i]
                 /\ queue'[p][Len(queue[p]) + 1].m = importer[p].todo[1]
                 /\ queue'[p][Len(queue[p]) + 1].how = "incoming"
<1> DEFINE todo == importer[p].todo
           it == [m |-> Head(todo), how |-> "incoming"]
<1>1. /\ importer[p].step = "fetching" /\ todo # <<>>
      /\ importer' = [importer EXCEPT ![p] =
             [step |-> "fetching", next |-> importer[p].next, todo |-> Tail(todo)]]
      /\ \/ queue' = queue /\ "unfetched" \in faults'
         \/ queue' = [queue EXCEPT ![p] = Append(queue[p], it)]
  BY FetchIs
<1>2. todo \in Seq(Message)
  BY <1>1, FetchingIs
<1>3. /\ Len(todo) \in Nat \ {0}
      /\ Len(Tail(todo)) = Len(todo) - 1 /\ Head(todo) = todo[1]
      /\ Head(todo) \in Message
      /\ \A i \in 1 .. Len(todo) - 1 : Tail(todo)[i] = todo[i + 1]
  BY <1>1, <1>2, TailIs
<1>4. /\ importer'[p].step = "fetching" /\ importer'[p].todo = Tail(todo)
      /\ \A q \in Process \ {p} : importer'[q] = importer[q]
  BY <1>1 DEF TypeOK
<1> HIDE DEF todo
<1>5. /\ Len(importer'[p].todo) = Len(todo) - 1
      /\ \A i \in 1 .. Len(todo) - 1 : importer'[p].todo[i] = todo[i + 1]
  BY <1>3, <1>4
<1>6. queue[p] \in Seq(Item) /\ Len(queue[p]) \in Nat
  BY DEF TypeOK
<1>7. \/ queue' = queue /\ "unfetched" \in faults'
      \/ /\ \A q \in Process \ {p} : queue'[q] = queue[q]
         /\ Len(queue'[p]) = Len(queue[p]) + 1
         /\ \A i \in 1 .. Len(queue[p]) : queue'[p][i] = queue[p][i]
         /\ queue'[p][Len(queue[p]) + 1].m = todo[1]
         /\ queue'[p][Len(queue[p]) + 1].how = "incoming"
  <2>1. CASE queue' = [queue EXCEPT ![p] = Append(queue[p], it)]
    <3>1. it \in Item /\ it.m = todo[1] /\ it.how = "incoming"
      BY <1>3 DEF Item
    <3>2. queue'[p] = Append(queue[p], it)
            /\ \A q \in Process \ {p} : queue'[q] = queue[q]
      BY <2>1 DEF TypeOK
    <3> HIDE DEF it
    <3>3. /\ Len(Append(queue[p], it)) = Len(queue[p]) + 1
          /\ \A i \in 1 .. Len(queue[p]) : Append(queue[p], it)[i] = queue[p][i]
          /\ Append(queue[p], it)[Len(queue[p]) + 1] = it
      BY <1>6, <3>1, AppendIs
    <3> QED
      BY <3>1, <3>2, <3>3
  <2> QED
    BY <1>1, <2>1
<1> QED
  BY <1>1, <1>3, <1>4, <1>5, <1>6, <1>7 DEF todo

LEMMA PickedIs ==
    ASSUME TypeOK, NEW p \in Process, NEW m \in Message,
           NEW how \in {"by_hand", "inquiry"}, Pick(p, m, how)
    PROVE  /\ m \in Arrived
           /\ \A q \in Process \ {p} : queue'[q] = queue[q]
           /\ Len(queue[p]) \in Nat /\ Len(queue'[p]) = Len(queue[p]) + 1
           /\ \A i \in 1 .. Len(queue[p]) : queue'[p][i] = queue[p][i]
           /\ queue'[p][Len(queue[p]) + 1].m = m
           /\ queue'[p][Len(queue[p]) + 1].how = how
           /\ how = "by_hand" => "manual" \in faults'
           /\ faults \subseteq faults'
           /\ UNCHANGED <<box, row, importer, storer, stored>>
<1>1. /\ m \in Arrived
      /\ queue' = [queue EXCEPT ![p] = Append(@, [m |-> m, how |-> how])]
      /\ how = "by_hand" => "manual" \in faults'
      /\ faults \subseteq faults'
      /\ UNCHANGED <<box, row, importer, storer, stored>>
  BY DEF Pick, kept, Fail
<1>2. [m |-> m, how |-> how] \in Item /\ queue[p] \in Seq(Item)
  BY DEF Item, TypeOK
<1>3. queue'[p] = Append(queue[p], [m |-> m, how |-> how])
        /\ \A q \in Process \ {p} : queue'[q] = queue[q]
  BY <1>1 DEF TypeOK
<1>4. PICK it \in Item : it = [m |-> m, how |-> how]
  BY <1>2
<1>5. /\ Len(Append(queue[p], it)) = Len(queue[p]) + 1
      /\ \A i \in 1 .. Len(queue[p]) : Append(queue[p], it)[i] = queue[p][i]
      /\ Append(queue[p], it)[Len(queue[p]) + 1] = it
      /\ Len(queue[p]) \in Nat
  BY <1>2, AppendIs
<1>6. it.m = m /\ it.how = how
  BY <1>4
<1> QED
  BY <1>1, <1>3, <1>4, <1>5, <1>6

LEMMA CheckedIs ==
    ASSUME TypeOK, NEW p \in Process, Check(p)
    PROVE  /\ queue[p] \in Seq(Item) /\ Len(queue[p]) \in Nat \ {0}
           /\ Head(queue[p]) = queue[p][1]
           /\ Head(queue[p]) \in Item /\ Head(queue[p]).m \in Message
           /\ \A q \in Process \ {p} : queue'[q] = queue[q]
           /\ Len(queue'[p]) = Len(queue[p]) - 1
           /\ \A i \in 1 .. Len(queue[p]) - 1 : queue'[p][i] = queue[p][i + 1]
<1>1. /\ queue[p] \in Seq(Item) /\ queue[p] # <<>>
      /\ queue'[p] = Tail(queue[p])
      /\ \A q \in Process \ {p} : queue'[q] = queue[q]
  BY CheckIs DEF TypeOK
<1>2. /\ Len(queue[p]) \in Nat \ {0}
      /\ Len(Tail(queue[p])) = Len(queue[p]) - 1
      /\ Head(queue[p]) = queue[p][1] /\ Head(queue[p]) \in Item
      /\ \A i \in 1 .. Len(queue[p]) - 1 : Tail(queue[p])[i] = queue[p][i + 1]
  BY <1>1, TailIs
<1> QED
  BY <1>1, <1>2 DEF Item

\* An import that begins to fetch has messages that have arrived.
LEMMA LookedIs ==
    ASSUME TypeOK, NEW p \in Process, Look(p)
    PROVE  /\ importer[p].step = "begun"
           /\ \A q \in Process \ {p} : importer'[q] = importer[q]
           /\ UNCHANGED <<box, row, queue, storer, stored>>
           /\ faults \subseteq faults'
           /\ importer'[p].step \in {"idle", "fetching"}
           /\ importer'[p].step = "fetching" =>
                 \A i \in 1 .. Len(importer'[p].todo) :
                    /\ importer'[p].todo[i] \in Arrived
                    /\ \A m \in Arrived :
                          importer[p].ea.start <= m /\ m < importer'[p].todo[i]
                          => \E j \in 1 .. i - 1 : importer'[p].todo[j] = m
<1> DEFINE start == importer[p].ea.start
<1>1. /\ importer[p].step = "begun"
      /\ UNCHANGED <<box, row, queue, storer, stored>>
      /\ faults \subseteq faults'
  BY LookIs DEF Imports
<1>2. start \in 1 .. MaxMessages + 1
  BY <1>1, CopyIs DEF Account
<1>3. /\ Found(start) \in Seq(Message)
      /\ \A i \in 1 .. Len(Found(start)) :
             /\ Found(start)[i] \in Arrived
             /\ \A m \in Arrived :
                   start <= m /\ m < Found(start)[i]
                   => \E j \in 1 .. i - 1 : Found(start)[j] = m
  BY <1>2, FoundArrived
<1>4. /\ Len(Taken(Found(start))) \in Nat /\ Len(Found(start)) \in Nat
      /\ Len(Taken(Found(start))) <= Len(Found(start))
      /\ \A i \in 1 .. Len(Taken(Found(start))) :
             Taken(Found(start))[i] = Found(start)[i]
  BY <1>3, TakenFirst
<1>5. \A i \in 1 .. Len(Taken(Found(start))) :
         /\ Taken(Found(start))[i] \in Arrived
         /\ \A m \in Arrived :
               start <= m /\ m < Taken(Found(start))[i]
               => \E j \in 1 .. i - 1 : Taken(Found(start))[j] = m
  BY <1>3, <1>4
<1>6. CASE Imports(p, Rest)
  BY <1>1, <1>6, RestIs DEF Imports, TypeOK
<1>7. CASE Imports(p, [step |-> "fetching", next |-> Len(box) + 1,
                       todo |-> <<>>])
  <2>1. importer'[p].step = "fetching" /\ importer'[p].todo = <<>>
          /\ \A q \in Process \ {p} : importer'[q] = importer[q]
    BY <1>7 DEF Imports, TypeOK
  <2> QED
    BY <1>1, <2>1
<1>8. CASE Imports(p, [step |-> "fetching", next |-> Len(box) + 1,
                       todo |-> Taken(Found(start))])
  <2>1. importer'[p].step = "fetching"
          /\ importer'[p].todo = Taken(Found(start))
          /\ \A q \in Process \ {p} : importer'[q] = importer[q]
    BY <1>8 DEF Imports, TypeOK
  <2> QED
    BY <1>1, <1>5, <2>1
<1> QED
  BY <1>6, <1>7, <1>8, LookIs

\* Whatever a thread has in hand or in a queue has arrived.
LEMMA ArrivedOnlyHolds == Spec => []ArrivedOnly
<1>1. Init => ArrivedOnly
  BY RestIs DEF Init, ArrivedOnly, Rest
<1>2. TypeOK /\ ArrivedOnly /\ [Next]_vars => ArrivedOnly'
  <2> SUFFICES ASSUME TypeOK, ArrivedOnly, [Next]_vars PROVE ArrivedOnly'
    OBVIOUS
  <2>0. /\ Len(box) \in Nat /\ Len(box') \in Nat /\ Len(box) <= Len(box')
        /\ Arrived \subseteq Arrived' /\ Rest.step = "idle"
    BY BoxGrows, RestIs
  <2>01. row.start \in Nat /\ \A p \in Process :
            importer[p].step = "begun" => importer[p].ea.start \in Nat
    <3>1. \A p \in Process :
            importer[p].step = "begun" => importer[p].ea \in Account
      BY CopyIs
    <3> QED
      BY <3>1 DEF TypeOK, Account
  <2>1. ASSUME UNCHANGED <<row, importer, queue, storer>> PROVE ArrivedOnly'
    BY <2>0, <2>01, <2>1 DEF ArrivedOnly
  <2>2. ASSUME NEW p \in Process, Visit(p) PROVE ArrivedOnly'
    <3>1. importer'[p].step = "begun" /\ importer'[p].ea = row
            /\ \A q \in Process \ {p} : importer'[q] = importer[q]
      BY <2>2 DEF Visit, TypeOK
    <3>2. UNCHANGED <<box, row, queue, storer>>
      BY <2>2 DEF Visit
    <3> QED
      BY <3>1, <3>2, <2>0, <2>01 DEF ArrivedOnly, Arrived
  <2>3. ASSUME NEW p \in Process, Look(p) PROVE ArrivedOnly'
    BY <2>0, <2>3, LookedIs DEF ArrivedOnly, Arrived
  <2>4. ASSUME NEW p \in Process, Fetch(p) PROVE ArrivedOnly'
    <3>1. UNCHANGED <<box, row, storer>>
      BY <2>4, FetchIs
    <3>2. /\ importer[p].step = "fetching" /\ importer'[p].step = "fetching"
          /\ Len(importer[p].todo) \in Nat \ {0}
          /\ Len(importer'[p].todo) = Len(importer[p].todo) - 1
          /\ \A i \in 1 .. Len(importer[p].todo) - 1 :
                importer'[p].todo[i] = importer[p].todo[i + 1]
          /\ \A q \in Process \ {p} : importer'[q] = importer[q]
      BY <2>4, FetchedIs
    <3>3. importer[p].todo[1] \in Arrived
      BY <3>2 DEF ArrivedOnly
    <3>4. ASSUME NEW q \in Process, NEW i \in 1 .. Len(queue'[q])
          PROVE  queue'[q][i].m \in Arrived
      <4>1. CASE queue'[q] = queue[q]
        BY <4>1 DEF ArrivedOnly
      <4>2. CASE queue'[q] # queue[q]
        <5>1. /\ q = p /\ Len(queue[p]) \in Nat
              /\ Len(queue'[p]) = Len(queue[p]) + 1
              /\ \A j \in 1 .. Len(queue[p]) : queue'[p][j] = queue[p][j]
              /\ queue'[p][Len(queue[p]) + 1].m = importer[p].todo[1]
          BY <2>4, <4>2, FetchedIs
        <5>2. i \in 1 .. Len(queue[p]) \/ i = Len(queue[p]) + 1
          BY <5>1
        <5> QED
          BY <3>3, <5>1, <5>2 DEF ArrivedOnly
      <4> QED
        BY <4>1, <4>2
    <3>5. ASSUME NEW q \in Process, importer'[q].step = "fetching",
                 NEW i \in 1 .. Len(importer'[q].todo)
          PROVE  importer'[q].todo[i] \in Arrived
      <4>1. CASE q # p
        BY <3>2, <3>5, <4>1 DEF ArrivedOnly
      <4>2. CASE q = p
        <5>1. i \in 1 .. Len(importer[p].todo) - 1
              /\ i + 1 \in 1 .. Len(importer[p].todo)
          BY <3>2, <4>2
        <5> QED
          BY <3>2, <4>2, <5>1 DEF ArrivedOnly
      <4> QED
        BY <4>1, <4>2
    <3>6. \A q \in Process : importer'[q].step = "begun" =>
             importer'[q] = importer[q]
      BY <3>2
    <3> QED
      BY <3>1, <3>4, <3>5, <3>6 DEF ArrivedOnly, Arrived
  <2>5. ASSUME NEW p \in Process, Finish(p) PROVE ArrivedOnly'
    <3>1. /\ importer'[p].step = "idle"
          /\ \A q \in Process \ {p} : importer'[q] = importer[q]
          /\ row'.start = row.start
          /\ UNCHANGED <<box, queue, storer>>
      BY <2>0, <2>5 DEF Finish, TypeOK, Account
    <3> QED
      BY <3>1 DEF ArrivedOnly, Arrived
  <2>6. ASSUME NEW p \in Process, NEW m \in Message,
               NEW how \in {"by_hand", "inquiry"}, Pick(p, m, how)
        PROVE  ArrivedOnly'
    <3>1. /\ m \in Arrived /\ Len(queue[p]) \in Nat
          /\ \A q \in Process \ {p} : queue'[q] = queue[q]
          /\ Len(queue'[p]) = Len(queue[p]) + 1
          /\ \A j \in 1 .. Len(queue[p]) : queue'[p][j] = queue[p][j]
          /\ queue'[p][Len(queue[p]) + 1].m = m
          /\ UNCHANGED <<box, row, importer, storer>>
      BY <2>6, PickedIs
    <3>2. ASSUME NEW q \in Process, NEW i \in 1 .. Len(queue'[q])
          PROVE  queue'[q][i].m \in Arrived
      <4>1. CASE q # p
        BY <3>1, <4>1 DEF ArrivedOnly
      <4>2. CASE q = p
        <5>1. i \in 1 .. Len(queue[p]) \/ i = Len(queue[p]) + 1
          BY <3>1, <4>2
        <5> QED
          BY <3>1, <4>2, <5>1 DEF ArrivedOnly
      <4> QED
        BY <4>1, <4>2
    <3> QED
      BY <3>1, <3>2 DEF ArrivedOnly, Arrived
  <2>7. ASSUME NEW p \in Process, Check(p) PROVE ArrivedOnly'
    <3> DEFINE it == Head(queue[p])
    <3>1. /\ Len(queue[p]) \in Nat \ {0} /\ it = queue[p][1] /\ it.m \in Message
          /\ \A q \in Process \ {p} : queue'[q] = queue[q]
          /\ Len(queue'[p]) = Len(queue[p]) - 1
          /\ \A i \in 1 .. Len(queue[p]) - 1 : queue'[p][i] = queue[p][i + 1]
      BY <2>7, CheckedIs
    <3>2. it.m \in Arrived
      BY <3>1 DEF ArrivedOnly
    <3>3. row'.start <= Len(box) + 1
      <4>1. CASE row' = row
        BY <4>1 DEF ArrivedOnly
      <4>2. CASE row' # row
        <5>1. Advance(it.m)
          BY <2>7, <4>2, CheckIs
        <5>2. row'.start = it.m + 1
          BY <3>1, <5>1, AdvanceTyped
        <5> QED
          BY <3>2, <5>2, <2>0 DEF Arrived
      <4> QED
        BY <4>1, <4>2
    <3>4. \A q \in Process : storer'[q] # Rest => storer'[q].item.m \in Arrived
      <4>1. CASE storer' = storer
        BY <4>1 DEF ArrivedOnly
      <4>2. CASE storer' # storer
        <5>1. storer' = [storer EXCEPT ![p] = [step |-> "checked", item |-> it]]
          BY <2>7, <4>2, CheckIs
        <5>2. /\ storer'[p].item = it
              /\ \A q \in Process \ {p} : storer'[q] = storer[q]
          BY <5>1 DEF TypeOK
        <5> QED
          BY <3>2, <5>2 DEF ArrivedOnly
      <4> QED
        BY <4>1, <4>2
    <3>5. ASSUME NEW q \in Process, NEW i \in 1 .. Len(queue'[q])
          PROVE  queue'[q][i].m \in Arrived
      <4>1. CASE q # p
        BY <3>1, <4>1 DEF ArrivedOnly
      <4>2. CASE q = p
        <5>1. i \in 1 .. Len(queue[p]) - 1 /\ i + 1 \in 1 .. Len(queue[p])
          BY <3>1, <4>2
        <5> QED
          BY <3>1, <4>2, <5>1 DEF ArrivedOnly
      <4> QED
        BY <4>1, <4>2
    <3>6. UNCHANGED <<box, importer>>
      BY <2>7, CheckIs
    <3> QED
      BY <3>3, <3>4, <3>5, <3>6 DEF ArrivedOnly, Arrived
  <2>8. ASSUME NEW p \in Process, StoreMail(p) PROVE ArrivedOnly'
    <3>0. storer[p] # Rest
      BY <2>0, <2>8 DEF StoreMail
    <3>1. storer[p].item.m \in Arrived /\ storer[p].item.m \in Message
      BY <3>0, HoldingIs DEF ArrivedOnly
    <3>2. row'.start <= Len(box) + 1
      <4>1. CASE row' = row
        BY <4>1 DEF ArrivedOnly
      <4>2. CASE row' # row
        <5>1. Advance(storer[p].item.m)
          BY <2>8, <4>2, StoreMailIs
        <5>2. row'.start = storer[p].item.m + 1
          BY <3>1, <5>1, AdvanceTyped
        <5> QED
          BY <3>1, <5>2, <2>0 DEF Arrived
      <4> QED
        BY <4>1, <4>2
    <3>3. /\ storer'[p] # Rest => storer'[p].item = storer[p].item
          /\ \A q \in Process \ {p} : storer'[q] = storer[q]
      BY <2>8, StoreMailIs DEF TypeOK
    <3>4. UNCHANGED <<box, importer, queue>>
      BY <2>8, StoreMailIs
    <3> QED
      BY <3>1, <3>2, <3>3, <3>4 DEF ArrivedOnly, Arrived
  <2>9. ASSUME NEW p \in Process, StoreFails(p) \/ PassOn(p) PROVE ArrivedOnly'
    <3>1. /\ storer'[p] = Rest
          /\ \A q \in Process \ {p} : storer'[q] = storer[q]
          /\ UNCHANGED <<box, row, importer, queue>>
      BY <2>9 DEF StoreFails, PassOn, TypeOK
    <3> QED
      BY <3>1 DEF ArrivedOnly, Arrived
  <2>10. ASSUME NEW p \in Process, Crash(p) PROVE ArrivedOnly'
    <3>1. /\ storer'[p] = Rest /\ importer'[p] = Rest /\ queue'[p] = <<>>
          /\ \A q \in Process \ {p} : /\ storer'[q] = storer[q]
                                      /\ importer'[q] = importer[q]
                                      /\ queue'[q] = queue[q]
          /\ UNCHANGED <<box, row>>
      BY <2>10 DEF Crash, TypeOK
    <3>2. \A i \in 1 .. Len(queue'[p]) : FALSE
      BY <3>1
    <3> QED
      BY <2>0, <3>1, <3>2 DEF ArrivedOnly, Arrived
  <2> QED
    BY <2>1, <2>2, <2>3, <2>4, <2>5, <2>6, <2>7, <2>8, <2>9, <2>10
       DEF Next, Arrive, Ask, vars
<1> QED
  BY <1>1, <1>2, TypeCorrect, PTL DEF Spec

-----------------------------------------------------------------------------
(***************************************************************************)
(* Nobody moves the start uid past a message that is not stored.           *)
(***************************************************************************)
Waits(p, m) == ImportWaits(p, m) /\ QueueWaits(p, m) /\ StorerWaits(p, m)

\* A process whose threads stand still goes on waiting.
LEMMA StillWaits ==
    ASSUME NEW q \in Process, NEW m, Waits(q, m), importer'[q] = importer[q],
           queue'[q] = queue[q], storer'[q] = storer[q]
    PROVE  Waits(q, m)'
  BY DEF Waits, ImportWaits, QueueWaits, StorerWaits, InHand, Queued, Listed

\* An idle importer waits for anything.
LEMMA IdleWaits ==
    ASSUME NEW q \in Process, NEW m, Waits(q, m), importer'[q].step = "idle",
           queue'[q] = queue[q], storer'[q] = storer[q]
    PROVE  Waits(q, m)'
  BY DEF Waits, ImportWaits, QueueWaits, StorerWaits, InHand, Queued

\* It is enough to look at the process that has taken the step.
LEMMA OneWaits ==
    ASSUME NEW m, NEW p \in Process, WaitsFor(m),
           \A q \in Process \ {p} : /\ importer'[q] = importer[q]
                                    /\ queue'[q] = queue[q]
                                    /\ storer'[q] = storer[q],
           row'.start <= m, Waits(p, m)'
    PROVE  WaitsFor(m)'
<1>1. ASSUME NEW q \in Process PROVE Waits(q, m)'
  <2>1. CASE q = p
    BY <2>1
  <2>2. CASE q # p
    BY <2>2, StillWaits DEF WaitsFor, Waits
  <2> QED
    BY <2>1, <2>2
<1> QED
  BY <1>1 DEF WaitsFor, Waits

LEMMA VisitWaits ==
    ASSUME TypeOK, NEW m, WaitsFor(m), NEW p \in Process, Visit(p)
    PROVE  WaitsFor(m)'
<1>1. /\ importer'[p].step = "begun" /\ importer'[p].ea = row
      /\ \A q \in Process \ {p} : importer'[q] = importer[q]
      /\ UNCHANGED <<row, queue, storer>>
  BY DEF Visit, TypeOK
<1>2. row.start <= m /\ Waits(p, m)
  BY DEF WaitsFor, Waits
<1>3. Waits(p, m)'
  BY <1>1, <1>2 DEF Waits, ImportWaits, QueueWaits, StorerWaits, InHand, Queued
<1> QED
  BY <1>1, <1>2, <1>3, OneWaits

\* An import looks for every message from the start uid on, in their order.
LEMMA LookWaits ==
    ASSUME TypeOK, NEW m \in Arrived, WaitsFor(m),
           NEW p \in Process, Look(p)
    PROVE  WaitsFor(m)'
<1>1. /\ importer[p].step = "begun"
      /\ \A q \in Process \ {p} : importer'[q] = importer[q]
      /\ UNCHANGED <<row, queue, storer>>
      /\ importer'[p].step \in {"idle", "fetching"}
      /\ importer'[p].step = "fetching" =>
            \A i \in 1 .. Len(importer'[p].todo) :
               importer[p].ea.start <= m /\ m < importer'[p].todo[i]
               => \E j \in 1 .. i - 1 : importer'[p].todo[j] = m
  BY LookedIs
<1>2. /\ row.start <= m /\ Waits(p, m)
      /\ importer[p].ea.start <= m
  BY <1>1 DEF WaitsFor, Waits, ImportWaits
<1>3. Waits(p, m)'
  BY <1>1, <1>2
     DEF Waits, ImportWaits, QueueWaits, StorerWaits, InHand, Queued, Listed
<1> QED
  BY <1>1, <1>2, <1>3, OneWaits

\* What is fetched comes to the end of the queue.
LEMMA FetchWaits ==
    ASSUME TypeOK, NEW m, WaitsFor(m), NEW p \in Process, Fetch(p),
           "unfetched" \notin faults'
    PROVE  WaitsFor(m)'
<1> DEFINE todo == importer[p].todo
           n == Len(queue[p])
<1>1. /\ importer[p].step = "fetching" /\ importer'[p].step = "fetching"
      /\ \A q \in Process \ {p} : importer'[q] = importer[q]
      /\ Len(todo) \in Nat \ {0}
      /\ Len(importer'[p].todo) = Len(todo) - 1
      /\ \A i \in 1 .. Len(todo) - 1 : importer'[p].todo[i] = todo[i + 1]
  BY FetchedIs
<1>2. /\ \A q \in Process \ {p} : queue'[q] = queue[q]
      /\ n \in Nat /\ Len(queue'[p]) = n + 1
      /\ \A i \in 1 .. n : queue'[p][i] = queue[p][i]
      /\ queue'[p][n + 1].m = todo[1]
  BY FetchedIs
<1>3. UNCHANGED <<row, storer>>
  BY FetchIs
<1>4. /\ row.start <= m /\ StorerWaits(p, m)
      /\ \A i \in 1 .. Len(todo) :
            m < todo[i] => InHand(p, m) \/ Queued(p, m, n) \/ Listed(p, m, i - 1)
      /\ \A i \in 1 .. n : queue[p][i].how = "incoming" /\ m < queue[p][i].m
                           => InHand(p, m) \/ Queued(p, m, i - 1)
  BY <1>1 DEF WaitsFor, ImportWaits, QueueWaits
<1>5. /\ InHand(p, m)' <=> InHand(p, m)
      /\ StorerWaits(p, m)'
  BY <1>3, <1>4 DEF InHand, StorerWaits
<1>6. ASSUME NEW i \in 0 .. n, Queued(p, m, i)
      PROVE  \E j \in 1 .. i : queue'[p][j].m = m
  BY <1>2, <1>6 DEF Queued
<1>7. ASSUME NEW i \in 1 .. Len(importer'[p].todo), m < importer'[p].todo[i]
      PROVE  \/ InHand(p, m)'
             \/ \E j \in 1 .. Len(queue'[p]) : queue'[p][j].m = m
             \/ \E j \in 1 .. i - 1 : importer'[p].todo[j] = m
  <2>1. /\ i + 1 \in 1 .. Len(todo) /\ i \in 1 .. Len(todo) - 1
        /\ m < todo[i + 1] /\ (i + 1) - 1 = i
    BY <1>1, <1>7
  <2>2. InHand(p, m) \/ Queued(p, m, n) \/ Listed(p, m, i)
    BY <1>4, <2>1
  <2>3. CASE Queued(p, m, n)
    BY <1>2, <2>3 DEF Queued
  <2>4. CASE Listed(p, m, i)
    <3>1. PICK j \in 1 .. i : todo[j] = m
      BY <2>4 DEF Listed
    <3>2. CASE j = 1
      <4>1. n + 1 \in 1 .. Len(queue'[p]) /\ queue'[p][n + 1].m = m
        BY <1>2, <3>1, <3>2
      <4> QED
        BY <4>1
    <3>3. CASE j # 1
      <4>1. j - 1 \in 1 .. i - 1 /\ j - 1 \in 1 .. Len(todo) - 1
              /\ (j - 1) + 1 = j
        BY <2>1, <1>1, <3>3
      <4>2. importer'[p].todo[j - 1] = m
        BY <1>1, <3>1, <4>1
      <4> QED
        BY <4>1, <4>2
    <3> QED
      BY <3>2, <3>3
  <2> QED
    BY <1>5, <2>2, <2>3, <2>4
<1>8. ASSUME NEW i \in 1 .. Len(queue'[p]), queue'[p][i].how = "incoming",
             m < queue'[p][i].m
      PROVE  InHand(p, m)' \/ \E j \in 1 .. i - 1 : queue'[p][j].m = m
  <2>1. CASE i \in 1 .. n
    <3>1. InHand(p, m) \/ Queued(p, m, i - 1)
      BY <1>2, <1>4, <1>8, <2>1
    <3> QED
      BY <1>2, <1>5, <2>1, <3>1 DEF Queued
  <2>2. CASE i = n + 1
    <3>1. 1 \in 1 .. Len(todo) /\ m < todo[1] /\ 1 - 1 = 0
      BY <1>1, <1>2, <1>8, <2>2
    <3>2. InHand(p, m) \/ Queued(p, m, n) \/ Listed(p, m, 0)
      BY <1>4, <3>1
    <3> QED
      BY <1>2, <1>5, <2>2, <3>2 DEF Queued, Listed
  <2> QED
    BY <1>2, <2>1, <2>2
<1>9. Waits(p, m)'
  BY <1>1, <1>5, <1>7, <1>8
     DEF Waits, ImportWaits, QueueWaits, Queued, Listed
<1> QED
  BY <1>1, <1>2, <1>3, <1>4, <1>9, OneWaits

LEMMA FinishWaits ==
    ASSUME TypeOK, NEW m, WaitsFor(m), NEW p \in Process, Finish(p)
    PROVE  WaitsFor(m)'
<1>1. /\ importer'[p].step = "idle"
      /\ \A q \in Process \ {p} : importer'[q] = importer[q]
      /\ row'.start = row.start
      /\ UNCHANGED <<queue, storer>>
  BY RestIs DEF Finish, TypeOK, Account
<1>2. row.start <= m /\ Waits(p, m)
  BY DEF WaitsFor, Waits
<1>3. Waits(p, m)'
  BY <1>1, <1>2, IdleWaits
<1> QED
  BY <1>1, <1>2, <1>3, OneWaits

\* What is picked as an inquiry does not move the start uid.
LEMMA PickWaits ==
    ASSUME TypeOK, NEW m, WaitsFor(m), NEW p \in Process, NEW k \in Message,
           NEW how \in {"by_hand", "inquiry"}, Pick(p, k, how),
           "manual" \notin faults'
    PROVE  WaitsFor(m)'
<1> DEFINE n == Len(queue[p])
<1>1. /\ \A q \in Process \ {p} : queue'[q] = queue[q]
      /\ n \in Nat /\ Len(queue'[p]) = n + 1
      /\ \A i \in 1 .. n : queue'[p][i] = queue[p][i]
      /\ queue'[p][n + 1].how = "inquiry"
      /\ UNCHANGED <<row, importer, storer>>
  BY PickedIs
<1>2. row.start <= m /\ ImportWaits(p, m) /\ QueueWaits(p, m) /\ StorerWaits(p, m)
  BY DEF WaitsFor
<1>3. ASSUME NEW i \in 0 .. n, Queued(p, m, i)
      PROVE  \E j \in 1 .. i : queue'[p][j].m = m
  BY <1>1, <1>3 DEF Queued
<1>4. Queued(p, m, n) => \E j \in 1 .. Len(queue'[p]) : queue'[p][j].m = m
  BY <1>1, <1>3
<1>5. ImportWaits(p, m)'
  BY <1>1, <1>2, <1>4 DEF ImportWaits, InHand, Listed, Queued
<1>6. ASSUME NEW i \in 1 .. Len(queue'[p]), queue'[p][i].how = "incoming",
             m < queue'[p][i].m
      PROVE  InHand(p, m) \/ \E j \in 1 .. i - 1 : queue'[p][j].m = m
  <2>1. i \in 1 .. n /\ i - 1 \in 0 .. n
    BY <1>1, <1>6
  <2>2. InHand(p, m) \/ Queued(p, m, i - 1)
    BY <1>1, <1>2, <1>6, <2>1 DEF QueueWaits
  <2> QED
    BY <1>3, <2>1, <2>2
<1>7. QueueWaits(p, m)'
  BY <1>1, <1>6 DEF QueueWaits, InHand, Queued
<1>8. StorerWaits(p, m)'
  BY <1>1, <1>2 DEF StorerWaits
<1> QED
  BY <1>1, <1>2, <1>5, <1>7, <1>8, OneWaits DEF Waits

\* A later message that comes in is not at the head of the queue, unless this
\* one is in hand: the start uid is moved to this message at most.
LEMMA CheckWaits ==
    ASSUME TypeOK, NEW m \in Message, Missing(m),
           WaitsFor(m), NEW p \in Process, Check(p), "unreadable" \notin faults'
    PROVE  WaitsFor(m)'
<1> DEFINE it == Head(queue[p])
           n == Len(queue[p])
<1>1. /\ n \in Nat \ {0} /\ it = queue[p][1]
      /\ it \in Item /\ it.m \in Message
      /\ \A q \in Process \ {p} : queue'[q] = queue[q]
      /\ Len(queue'[p]) = n - 1
      /\ \A i \in 1 .. n - 1 : queue'[p][i] = queue[p][i + 1]
  BY CheckedIs
<1>2. /\ storer[p] = Rest /\ storer[p].step # "checked"
      /\ \/ /\ storer' = storer
            /\ \/ row' = row /\ it.m # m
               \/ /\ it.m # m /\ it.how = "incoming"
                  /\ Advance(it.m)
         \/ /\ storer' = [storer EXCEPT ![p] = [step |-> "checked", item |-> it]]
            /\ row' = row
      /\ importer' = importer
  <2>1. stored[m] = 0 /\ box[m] = "ticket"
    BY DEF Missing
  <2> QED
    BY <2>1, CheckIs, RestIs
<1> HIDE DEF it
<1>3. /\ row.start <= m /\ ImportWaits(p, m)
      /\ \A i \in 1 .. n : queue[p][i].how = "incoming" /\ m < queue[p][i].m
                           => InHand(p, m) \/ Queued(p, m, i - 1)
  BY DEF WaitsFor, QueueWaits
<1>4. ~InHand(p, m)
  BY <1>2 DEF InHand
<1>5. m \in Nat /\ it.m \in Nat
  BY <1>1, MailImportAssumption DEF Message
<1>6. it.how = "incoming" => it.m <= m
  <2>1. SUFFICES ASSUME it.how = "incoming", m < it.m PROVE FALSE
    BY <1>5
  <2>2. Queued(p, m, 0)
    BY <1>1, <1>3, <1>4, <2>1
  <2> QED
    BY <2>2 DEF Queued
<1>7. row'.start <= m
  <2>1. CASE row' = row
    BY <1>3, <2>1
  <2>2. CASE row' # row
    <3>1. it.m # m /\ it.how = "incoming" /\ Advance(it.m)
      BY <1>2, <2>2
    <3>2. row'.start = it.m + 1
      BY <1>1, <3>1, AdvanceTyped
    <3> QED
      BY <1>5, <1>6, <3>1, <3>2
  <2> QED
    BY <2>1, <2>2
<1>8. /\ \A q \in Process \ {p} : storer'[q] = storer[q]
      /\ it.m = m => storer'[p].step = "checked" /\ storer'[p].item.m = m
      /\ storer'[p].step = "checked" => storer'[p].item = it
  BY <1>2 DEF TypeOK
<1>9. ASSUME NEW i \in 1 .. n, Queued(p, m, i)
      PROVE  InHand(p, m)' \/ \E j \in 1 .. i - 1 : queue'[p][j].m = m
  <2>1. PICK j \in 1 .. i : queue[p][j].m = m
    BY <1>9 DEF Queued
  <2>2. CASE j = 1
    BY <1>1, <1>8, <2>1, <2>2 DEF InHand
  <2>3. CASE j # 1
    <3>1. j - 1 \in 1 .. i - 1 /\ j - 1 \in 1 .. n - 1 /\ (j - 1) + 1 = j
      BY <1>1, <2>3
    <3>2. queue'[p][j - 1].m = m
      BY <1>1, <2>1, <3>1
    <3> QED
      BY <3>1, <3>2
  <2> QED
    BY <2>2, <2>3
<1>10. ImportWaits(p, m)'
  <2>1. ASSUME importer[p].step = "fetching",
               NEW i \in 1 .. Len(importer[p].todo), m < importer[p].todo[i]
        PROVE  Queued(p, m, n) \/ Listed(p, m, i - 1)
    BY <1>3, <1>4, <2>1 DEF ImportWaits
  <2>2. Queued(p, m, n) =>
          InHand(p, m)' \/ \E j \in 1 .. Len(queue'[p]) : queue'[p][j].m = m
    BY <1>1, <1>9
  <2> QED
    BY <1>2, <1>3, <2>1, <2>2 DEF ImportWaits, Listed, Queued
<1>11. ASSUME NEW i \in 1 .. Len(queue'[p]), queue'[p][i].how = "incoming",
              m < queue'[p][i].m
       PROVE  InHand(p, m)' \/ \E j \in 1 .. i - 1 : queue'[p][j].m = m
  <2>1. /\ i \in 1 .. n - 1 /\ i + 1 \in 1 .. n /\ (i + 1) - 1 = i /\ i \in 1 .. n
        /\ queue'[p][i] = queue[p][i + 1]
    BY <1>1, <1>11
  <2>2. Queued(p, m, i)
    BY <1>3, <1>4, <1>11, <2>1
  <2> QED
    BY <1>9, <2>1, <2>2
<1>12. QueueWaits(p, m)'
  BY <1>11 DEF QueueWaits, Queued
<1>13. StorerWaits(p, m)'
  BY <1>6, <1>8 DEF StorerWaits
<1> QED
  BY <1>1, <1>2, <1>7, <1>8, <1>10, <1>12, <1>13, OneWaits DEF Waits

\* Another message is stored: an earlier one, if it came in.
LEMMA StoreMailWaits ==
    ASSUME TypeOK, NoneByHand, NEW m \in Message,
           Missing(m)', WaitsFor(m), NEW p \in Process, StoreMail(p)
    PROVE  WaitsFor(m)'
<1> DEFINE it == storer[p].item
<1>1. /\ storer[p].step = "checked" /\ storer[p] # Rest
      /\ stored' = [stored EXCEPT ![it.m] = stored[it.m] + 1]
      /\ \/ /\ storer' = [storer EXCEPT ![p] = [step |-> "saved", item |-> it]]
            /\ row' = row
         \/ /\ it.how # "inquiry"
            /\ storer' = [storer EXCEPT ![p] = Rest]
            /\ Advance(it.m)
      /\ UNCHANGED <<importer, queue>>
  BY StoreMailIs, RestIs
<1>2. it \in Item /\ it.m \in Message /\ it.how # "by_hand"
  BY <1>1, HoldingIs DEF NoneByHand
<1>3. it.how \in {"incoming", "inquiry", "by_hand"}
  BY <1>2 DEF Item
<1>4. it.m # m
  <2>1. SUFFICES ASSUME it.m = m PROVE FALSE
    OBVIOUS
  <2>2. stored'[m] = stored[m] + 1 /\ stored[m] \in Nat
    BY <1>1, <2>1, HoldersCounted DEF TypeOK
  <2> QED
    BY <2>2 DEF Missing
<1>5. m \in Nat /\ it.m \in Nat
  BY <1>2, MailImportAssumption DEF Message
<1>6. /\ row.start <= m /\ ImportWaits(p, m) /\ QueueWaits(p, m)
      /\ it.how = "incoming" => it.m <= m
  BY <1>1 DEF WaitsFor, StorerWaits
<1>7. row'.start <= m
  <2>1. CASE row' = row
    BY <1>6, <2>1
  <2>2. CASE row' # row
    <3>1. it.how = "incoming" /\ Advance(it.m)
      BY <1>1, <1>2, <1>3, <2>2
    <3>2. row'.start = it.m + 1
      BY <1>2, <3>1, AdvanceTyped
    <3> QED
      BY <1>4, <1>5, <1>6, <3>1, <3>2
  <2> QED
    BY <2>1, <2>2
<1>8. /\ \A q \in Process \ {p} : storer'[q] = storer[q]
      /\ storer'[p].step # "checked"
  BY <1>1, RestIs DEF TypeOK
<1>9. ~InHand(p, m)
  BY <1>4 DEF InHand
<1>10. Waits(p, m)'
  BY <1>1, <1>6, <1>8, <1>9
     DEF Waits, ImportWaits, QueueWaits, StorerWaits, InHand, Queued, Listed
<1> QED
  BY <1>1, <1>7, <1>8, <1>10, OneWaits

\* What the storer puts down is not this message, or could not be read.
LEMMA PutDownWaits ==
    ASSUME TypeOK, NEW m, WaitsFor(m), NEW p \in Process,
           StoreFails(p) \/ PassOn(p), "unreadable" \notin faults'
    PROVE  WaitsFor(m)'
<1>1. /\ storer'[p] = Rest /\ storer'[p].step # "checked"
      /\ \A q \in Process \ {p} : storer'[q] = storer[q]
      /\ UNCHANGED <<row, importer, queue>>
  BY RestIs DEF StoreFails, PassOn, TypeOK
<1>2. storer[p].step # "checked"
  BY DEF StoreFails, PassOn, Fail
<1>3. row.start <= m /\ Waits(p, m)
  BY DEF WaitsFor, Waits
<1>4. Waits(p, m)'
  BY <1>1, <1>2, <1>3
     DEF Waits, ImportWaits, QueueWaits, StorerWaits, InHand, Queued, Listed
<1> QED
  BY <1>1, <1>3, <1>4, OneWaits

LEMMA CrashWaits ==
    ASSUME TypeOK, NEW m, WaitsFor(m), NEW p \in Process, Crash(p)
    PROVE  WaitsFor(m)'
<1>1. /\ storer'[p].step = "idle" /\ importer'[p].step = "idle"
      /\ queue'[p] = <<>>
      /\ \A q \in Process \ {p} : /\ storer'[q] = storer[q]
                                  /\ importer'[q] = importer[q]
                                  /\ queue'[q] = queue[q]
      /\ row' = row
  BY RestIs DEF Crash, TypeOK
<1>2. \A i \in 1 .. Len(queue'[p]) : FALSE
  BY <1>1
<1>3. row.start <= m
  BY DEF WaitsFor
<1>4. Waits(p, m)'
  BY <1>1, <1>2 DEF Waits, ImportWaits, QueueWaits, StorerWaits
<1> QED
  BY <1>1, <1>3, <1>4, OneWaits

\* The last message that came was waited for before it came.
LEMMA NewWaits ==
    ASSUME TypeOK, ArrivedOnly, NEW m, m = Len(box) + 1,
           UNCHANGED <<row, importer, queue, storer>>
    PROVE  WaitsFor(m)'
<1>1. Len(box) \in Nat
  BY DEF TypeOK
<1>2. \A k \in Arrived : k <= m /\ ~(m < k)
  BY <1>1 DEF Arrived
<1>3. row.start <= m
  BY DEF ArrivedOnly
<1>4. ASSUME NEW p \in Process PROVE Waits(p, m)'
  <2>1. storer[p].step = "checked" => storer[p].item.m \in Arrived
    BY RestIs DEF ArrivedOnly
  <2> QED
    BY <1>2, <2>1 DEF ArrivedOnly, Waits, ImportWaits, QueueWaits, StorerWaits
<1> QED
  BY <1>3, <1>4 DEF WaitsFor, Waits

LEMMA NoneByHandKept ==
    ASSUME TypeOK, NoneByHand, [Next]_vars, "manual" \notin faults'
    PROVE  NoneByHand'
<1>1. ASSUME UNCHANGED <<queue, storer>> PROVE NoneByHand'
  BY <1>1 DEF NoneByHand
<1>2. ASSUME NEW p \in Process, Fetch(p) PROVE NoneByHand'
  <2>1. storer' = storer
    BY <1>2, FetchIs
  <2>2. ASSUME NEW q \in Process, NEW i \in 1 .. Len(queue'[q])
        PROVE  queue'[q][i].how # "by_hand"
    <3>1. CASE queue'[q] = queue[q]
      BY <3>1 DEF NoneByHand
    <3>2. CASE queue'[q] # queue[q]
      <4>1. /\ q = p /\ Len(queue[p]) \in Nat
            /\ Len(queue'[p]) = Len(queue[p]) + 1
            /\ \A j \in 1 .. Len(queue[p]) : queue'[p][j] = queue[p][j]
            /\ queue'[p][Len(queue[p]) + 1].how = "incoming"
        BY <1>2, <3>2, FetchedIs
      <4>2. i \in 1 .. Len(queue[p]) \/ i = Len(queue[p]) + 1
        BY <4>1
      <4> QED
        BY <4>1, <4>2 DEF NoneByHand
    <3> QED
      BY <3>1, <3>2
  <2> QED
    BY <2>1, <2>2 DEF NoneByHand
<1>3. ASSUME NEW p \in Process, NEW k \in Message,
             NEW how \in {"by_hand", "inquiry"}, Pick(p, k, how)
      PROVE  NoneByHand'
  <2>1. /\ Len(queue[p]) \in Nat
        /\ \A q \in Process \ {p} : queue'[q] = queue[q]
        /\ Len(queue'[p]) = Len(queue[p]) + 1
        /\ \A j \in 1 .. Len(queue[p]) : queue'[p][j] = queue[p][j]
        /\ queue'[p][Len(queue[p]) + 1].how = "inquiry"
        /\ storer' = storer
    BY <1>3, PickedIs
  <2>2. ASSUME NEW q \in Process, NEW i \in 1 .. Len(queue'[q])
        PROVE  queue'[q][i].how # "by_hand"
    <3>1. CASE q # p
      BY <2>1, <3>1 DEF NoneByHand
    <3>2. CASE q = p
      <4>1. i \in 1 .. Len(queue[p]) \/ i = Len(queue[p]) + 1
        BY <2>1, <3>2
      <4> QED
        BY <2>1, <3>2, <4>1 DEF NoneByHand
    <3> QED
      BY <3>1, <3>2
  <2> QED
    BY <2>1, <2>2 DEF NoneByHand
<1>4. ASSUME NEW p \in Process, Check(p) PROVE NoneByHand'
  <2> DEFINE it == Head(queue[p])
  <2>1. /\ Len(queue[p]) \in Nat \ {0} /\ it = queue[p][1]
        /\ \A q \in Process \ {p} : queue'[q] = queue[q]
        /\ Len(queue'[p]) = Len(queue[p]) - 1
        /\ \A i \in 1 .. Len(queue[p]) - 1 : queue'[p][i] = queue[p][i + 1]
    BY <1>4, CheckedIs
  <2>2. \/ storer' = storer
        \/ storer' = [storer EXCEPT ![p] = [step |-> "checked", item |-> it]]
    BY <1>4, CheckIs
  <2> HIDE DEF it
  <2>3. it.how # "by_hand"
    BY <2>1 DEF NoneByHand
  <2>4. ASSUME NEW q \in Process, storer'[q].step = "checked"
        PROVE  storer'[q].item.how # "by_hand"
    <3>1. CASE storer'[q] = storer[q]
      BY <2>4, <3>1 DEF NoneByHand
    <3>2. CASE storer'[q] # storer[q]
      <4>1. storer'[q] = [step |-> "checked", item |-> it]
        BY <2>2, <3>2 DEF TypeOK
      <4>2. storer'[q].item = it
        BY <4>1
      <4> QED
        BY <2>3, <4>2
    <3> QED
      BY <3>1, <3>2
  <2>5. ASSUME NEW q \in Process, NEW i \in 1 .. Len(queue'[q])
        PROVE  queue'[q][i].how # "by_hand"
    <3>1. CASE q # p
      BY <2>1, <3>1 DEF NoneByHand
    <3>2. CASE q = p
      <4>1. i \in 1 .. Len(queue[p]) - 1 /\ i + 1 \in 1 .. Len(queue[p])
        BY <2>1, <3>2
      <4> QED
        BY <2>1, <3>2, <4>1 DEF NoneByHand
    <3> QED
      BY <3>1, <3>2
  <2> QED
    BY <2>4, <2>5 DEF NoneByHand
<1>5. ASSUME NEW p \in Process, StoreMail(p) PROVE NoneByHand'
  <2>1. /\ \A q \in Process \ {p} : storer'[q] = storer[q]
        /\ storer'[p].step # "checked"
        /\ queue' = queue
    <3> DEFINE it == storer[p].item
    <3>1. /\ \/ storer' = [storer EXCEPT ![p] = [step |-> "saved", item |-> it]]
             \/ storer' = [storer EXCEPT ![p] = Rest]
          /\ queue' = queue
      BY <1>5, StoreMailIs
    <3> QED
      BY <3>1, RestIs DEF TypeOK
  <2> QED
    BY <2>1 DEF NoneByHand
<1>6. ASSUME NEW p \in Process, StoreFails(p) \/ PassOn(p) PROVE NoneByHand'
  <2>1. /\ \A q \in Process \ {p} : storer'[q] = storer[q]
        /\ storer'[p].step # "checked"
        /\ queue' = queue
    BY <1>6, RestIs DEF StoreFails, PassOn, TypeOK
  <2> QED
    BY <2>1 DEF NoneByHand
<1>7. ASSUME NEW p \in Process, Crash(p) PROVE NoneByHand'
  <2>1. /\ \A q \in Process \ {p} : storer'[q] = storer[q] /\ queue'[q] = queue[q]
        /\ storer'[p].step # "checked"
        /\ queue'[p] = <<>>
    BY <1>7, RestIs DEF Crash, TypeOK
  <2>2. \A i \in 1 .. Len(queue'[p]) : FALSE
    BY <2>1
  <2> QED
    BY <2>1, <2>2 DEF NoneByHand
<1> QED
  BY <1>1, <1>2, <1>3, <1>4, <1>5, <1>6, <1>7
     DEF Next, Arrive, Visit, Look, Finish, Ask, vars

LEMMA FaultsGrow == TypeOK /\ [Next]_vars => faults \subseteq faults'
<1> SUFFICES ASSUME TypeOK, [Next]_vars PROVE faults \subseteq faults'
  OBVIOUS
<1>1. ASSUME NEW p \in Process, Look(p) \/ Fetch(p) \/ Check(p) \/ StoreMail(p)
      PROVE  faults \subseteq faults'
  <2>1. CASE Look(p)
    BY <2>1 DEF Look, Fail
  <2>2. CASE Fetch(p)
    BY <2>2, FetchIs
  <2>3. CASE Check(p)
    BY <2>3, CheckIs
  <2>4. CASE StoreMail(p)
    BY <2>4 DEF StoreMail
  <2> QED
    BY <1>1, <2>1, <2>2, <2>3, <2>4
<1> QED
  BY <1>1 DEF Next, Arrive, Visit, Finish, Pick, StoreFails, PassOn, Ask, Crash,
              Fail, vars

\* The start uid never passes a message with a ticket that is not stored, however
\* many processes import, store and die at the same time: only messages that
\* could not be fetched or read, or were picked by hand for a deal, make it pass.
THEOREM NoneIsSkipped == Spec => []NoneSkipped
<1>1. Init => OrderKept
  BY RestIs DEF Init, OrderKept, NoneByHand, Missing, Arrived
<1>2. TypeOK /\ ArrivedOnly /\ OrderKept /\ [Next]_vars => OrderKept'
  <2> SUFFICES ASSUME TypeOK, ArrivedOnly, OrderKept, [Next]_vars, Careful'
               PROVE  /\ NoneByHand'
                      /\ \A m \in Message : Missing(m)' => WaitsFor(m)'
    BY DEF OrderKept
  <2>1. faults \subseteq faults'
    BY FaultsGrow
  <2>2. /\ "unfetched" \notin faults' /\ "unreadable" \notin faults'
        /\ "manual" \notin faults'
    BY DEF Careful, NoFault
  <2>3. NoneByHand /\ \A m \in Message : Missing(m) => WaitsFor(m)
    BY <2>1 DEF OrderKept, Careful, NoFault
  <2>4. NoneByHand'
    BY <2>2, <2>3, NoneByHandKept
  <2>5. ASSUME NEW m \in Message, Missing(m)', m \notin Arrived
        PROVE  WaitsFor(m)'
    <3>1. /\ m = Len(box) + 1
          /\ UNCHANGED <<row, importer, queue, storer>>
      <4>1. PICK k \in Kind : Arrive(k)
        <5>1. box' # box
          BY <2>5 DEF Missing, Arrived
        <5> QED
          BY <5>1 DEF Next, Visit, Look, Fetch, Finish, Pick, Check, StoreMail,
                      StoreFails, PassOn, Ask, Crash, vars
      <4>2. Len(box') = Len(box) + 1 /\ Len(box) \in Nat
        BY <4>1 DEF Arrive, TypeOK
      <4>3. m \in 1 .. Len(box') /\ m \notin 1 .. Len(box)
        BY <2>5 DEF Missing, Arrived
      <4> QED
        BY <4>1, <4>2, <4>3 DEF Arrive
    <3> QED
      BY <3>1, NewWaits
  <2>6. ASSUME NEW m \in Message, Missing(m)', m \in Arrived
        PROVE  WaitsFor(m)'
    <3>1. Missing(m)
      <4>1. box'[m] = box[m]
        BY <2>6, BoxGrows
      <4>2. stored[m] = 0
        <5>1. CASE stored' = stored
          BY <2>6, <5>1 DEF Missing
        <5>2. CASE stored' # stored
          <6>1. PICK p \in Process : StoreMail(p)
            BY <5>2 DEF Next, Arrive, Visit, Look, Fetch, Finish, Pick, Check,
                        StoreFails, PassOn, Ask, Crash, vars, kept
          <6>2. stored' = [stored EXCEPT ![storer[p].item.m] = stored[storer[p].item.m] + 1]
            BY <6>1, StoreMailIs
          <6>3. stored[m] \in Nat
            BY HoldersCounted DEF TypeOK
          <6> QED
            BY <2>6, <6>2, <6>3 DEF Missing, TypeOK
        <5> QED
          BY <5>1, <5>2
      <4> QED
        BY <2>6, <4>1, <4>2 DEF Missing
    <3>2. WaitsFor(m)
      BY <2>3, <3>1
    <3>3. ASSUME UNCHANGED <<row, importer, queue, storer>> PROVE WaitsFor(m)'
      BY <3>2, <3>3 DEF WaitsFor, ImportWaits, QueueWaits, StorerWaits, InHand,
                        Queued, Listed
    <3>4. ASSUME NEW p \in Process, Visit(p) \/ Look(p) \/ Fetch(p) \/ Finish(p)
          PROVE  WaitsFor(m)'
      BY <2>2, <2>6, <3>2, <3>4, VisitWaits, LookWaits, FetchWaits, FinishWaits
    <3>5. ASSUME NEW p \in Process, NEW k \in Message,
                 NEW how \in {"by_hand", "inquiry"}, Pick(p, k, how)
          PROVE  WaitsFor(m)'
      BY <2>2, <3>2, <3>5, PickWaits
    <3>6. ASSUME NEW p \in Process, Check(p) PROVE WaitsFor(m)'
      BY <2>2, <3>1, <3>2, <3>6, CheckWaits
    <3>7. ASSUME NEW p \in Process, StoreMail(p) PROVE WaitsFor(m)'
      BY <2>3, <2>6, <3>2, <3>7, StoreMailWaits
    <3>8. ASSUME NEW p \in Process, StoreFails(p) \/ PassOn(p) PROVE WaitsFor(m)'
      BY <2>2, <3>2, <3>8, PutDownWaits
    <3>9. ASSUME NEW p \in Process, Crash(p) PROVE WaitsFor(m)'
      BY <3>2, <3>9, CrashWaits
    <3> QED
      BY <3>3, <3>4, <3>5, <3>6, <3>7, <3>8, <3>9 DEF Next, Arrive, Ask, vars
  <2> QED
    BY <2>4, <2>5, <2>6
<1>3. TypeOK /\ OrderKept => NoneSkipped
  <2> SUFFICES ASSUME TypeOK, OrderKept, Careful, NEW m \in Arrived,
                      box[m] = "ticket", m < row.start, ~(stored[m] > 0)
               PROVE  FALSE
    BY DEF NoneSkipped, Careful
  <2>1. m \in Message
    BY MailImportAssumption DEF TypeOK, Arrived, Message
  <2>2. stored[m] = 0
    BY <2>1, HoldersCounted DEF TypeOK
  <2>3. row.start <= m /\ row.start \in Nat /\ m \in Nat
    BY <2>1, <2>2, MailImportAssumption
       DEF OrderKept, Missing, WaitsFor, TypeOK, Account, Message
  <2> QED
    BY <2>3
<1> QED
  BY <1>1, <1>2, <1>3, TypeCorrect, ArrivedOnlyHolds, PTL DEF Spec
=============================================================================
