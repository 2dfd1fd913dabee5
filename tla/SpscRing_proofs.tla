---------------------------- MODULE SpscRing_proofs ----------------------------
(***************************************************************************)
(* Proofs about SpscRing for every capacity, every word size, every set of *)
(* items and any number of pushes, with loads as late as coherence allows. *)
(***************************************************************************)
EXTENDS SpscRing, ModArith, SequenceTheorems
-------------------------------------------------------------------------------
(***************************************************************************)
(* Wrapping counters and the slots they select.                            *)
(***************************************************************************)
\* The word size and the capacity as moduli.
LEMMA Moduli ==
    /\ Capacity \in Nat \ {0}
    /\ Modulus \in Nat \ {0}
    /\ Capacity < Modulus
    /\ MaxPush \in Nat
  BY RingAssumption

\* A wrapped count selects the slot of the count itself.
LEMMA IdxOfWrapped ==
    ASSUME SlotMapSafe, NEW n \in Nat, n < MaxPush
    PROVE  Idx(n % Modulus) = Idx(n)
<1>1. CASE Modulus % Capacity = 0
  <2>1. n \in Int
    OBVIOUS
  <2>2. (n % Modulus) % Capacity = n % Capacity
    BY <1>1, <2>1, Moduli, ModOfMod
  <2> QED BY <2>2 DEF Idx
<1>2. CASE MaxPush <= Modulus
  <2>1. n \in 0 .. Modulus - 1
    BY <1>2, Moduli
  <2>2. n % Modulus = n
    BY <2>1, Moduli, ModSmall
  <2> QED BY <2>2
<1> QED BY <1>1, <1>2 DEF SlotMapSafe

\* Slot indices are in bounds.
LEMMA IdxBound ==
    ASSUME NEW n \in Int
    PROVE  Idx(n) \in 0 .. Capacity - 1
  BY RingAssumption, ModDef DEF Idx

\* The wrapping difference of two counts less than 2^w apart is exact.
LEMMA WrappingSubExact ==
    ASSUME NEW t \in Nat, NEW h \in Nat, h <= t, t - h < Modulus
    PROVE  WrappingSub(t % Modulus, h % Modulus) = t - h
<1>1. ((t % Modulus) - (h % Modulus)) % Modulus = (t - h) % Modulus
  <2>1. t \in Int /\ h \in Int
    OBVIOUS
  <2> QED BY <2>1, Moduli, ModSub
<1>2. t - h \in 0 .. Modulus - 1
  BY Moduli
<1>3. (t - h) % Modulus = t - h
  BY <1>2, Moduli, ModSmall
<1> QED BY <1>3, <1>1, <1>2 DEF WrappingSub

\* Two counts that select one slot are a whole lap apart.
LEMMA LapApart ==
    ASSUME NEW i \in Int, NEW j \in Int, Idx(i) = Idx(j), i < j
    PROVE  j - i >= Capacity
  BY RingAssumption, ModApart DEF Idx

\* A count selects a slot of its own, among any Capacity counts in a row,
\* exactly when the capacity divides 2^w or no counter wraps: the hypothesis of
\* the theorems below is what the indexing of try_push and try_pop needs, and
\* any other capacity reuses a slot too early when its counter wraps.
THEOREM SlotMapExact ==
    SlotMapSafe <=>
        \A i, j \in 0 .. MaxPush - 1 :
            i < j /\ j - i < Capacity => Idx(i % Modulus) # Idx(j % Modulus)
<1>1. ASSUME SlotMapSafe, NEW i \in 0 .. MaxPush - 1, NEW j \in 0 .. MaxPush - 1,
             i < j, j - i < Capacity
      PROVE  Idx(i % Modulus) # Idx(j % Modulus)
  <2>1. i \in Nat /\ j \in Nat /\ i < MaxPush /\ j < MaxPush
    BY Moduli
  <2>2. Idx(i) # Idx(j)
    <3>1. i \in Int /\ j \in Int /\ ~(j - i >= Capacity)
      BY <1>1, <2>1, Moduli
    <3> QED BY <1>1, <3>1, LapApart
  <2> QED BY <1>1, <2>1, <2>2, IdxOfWrapped
<1>2. ASSUME ~SlotMapSafe
      PROVE  \E i, j \in 0 .. MaxPush - 1 :
                i < j /\ j - i < Capacity /\ Idx(i % Modulus) = Idx(j % Modulus)
  <2> DEFINE r == Modulus % Capacity
             q == Modulus \div Capacity
             i == Modulus - r
  <2>1. r # 0 /\ Modulus < MaxPush
    BY <1>2, Moduli DEF SlotMapSafe
  <2>2. r \in 0 .. Capacity - 1 /\ q \in Int /\ Modulus = Capacity * q + r
    BY Moduli, ModDef, Modulus \in Int
  <2> HIDE DEF r, q
  <2>3. i \in 0 .. Modulus - 1 /\ i = Capacity * q + 0 /\ i < Modulus /\ Modulus - i < Capacity
    BY <2>1, <2>2, Moduli
  <2>4. Idx(i % Modulus) = 0
    <3>1. i % Modulus = i
      BY <2>3, Moduli, ModSmall
    <3>2. (Capacity * q + 0) % Capacity = 0 % Capacity
      <4>1. Capacity \in Nat \ {0} /\ q \in Int /\ 0 \in Int
        BY <2>2, Moduli
      <4> HIDE DEF i
      <4> QED BY <4>1, ModAddMultiple
    <3>3. 0 % Capacity = 0
      BY Moduli, ModSmall
    <3> QED BY <2>3, <3>1, <3>2, <3>3 DEF Idx
  <2>5. Idx(Modulus % Modulus) = 0
    <3>1. (Modulus * 1 + 0) % Modulus = 0 % Modulus
      BY Moduli, ModAddMultiple
    <3>2. 0 % Modulus = 0 /\ 0 % Capacity = 0
      BY Moduli, ModSmall
    <3>3. Modulus * 1 + 0 = Modulus
      BY Moduli
    <3> QED BY <3>1, <3>2, <3>3 DEF Idx
  <2>6. i \in 0 .. MaxPush - 1 /\ Modulus \in 0 .. MaxPush - 1
    BY <2>1, <2>3, Moduli
  <2> QED BY <2>3, <2>4, <2>5, <2>6
<1> QED BY <1>1, <1>2

\* The newest message of a counter is its count, wrapped.
LEMMA LastOfCounts ==
    ASSUME NEW order \in Seq(Message), NEW n \in Nat, Counts(order, n)
    PROVE  Last(order) = n % Modulus
  BY DEF Counts, Last

\* A message's value is in usize.
LEMMA MessageType ==
    ASSUME NEW n \in Nat, NEW e \in Nat
    PROVE  [val |-> n % Modulus, view |-> e] \in Message
<1>1. n % Modulus \in 0 .. Modulus - 1
  BY RingAssumption, ModDef
<1> QED BY <1>1 DEF Message

\* Publishing steps a counter by one.
LEMMA CountsStore ==
    ASSUME NEW order \in Seq(Message), NEW n \in Nat, Counts(order, n),
           NEW stored,
           stored = StoreRelease(order, WrappingAdd1(Last(order)), n + 1)
    PROVE  /\ stored \in Seq(Message)
           /\ Len(stored) = Len(order) + 1
           /\ Counts(stored, n + 1)
<1> DEFINE msg == [val |-> (n + 1) % Modulus, view |-> n + 1]
<1>1. WrappingAdd1(Last(order)) = (n + 1) % Modulus
  BY LastOfCounts, ModInc, RingAssumption DEF WrappingAdd1
<1>2. stored = Append(order, msg)
  BY <1>1 DEF StoreRelease
<1>3. msg \in Message
  BY MessageType
<1> HIDE DEF msg
<1>4. /\ stored \in Seq(Message)
      /\ Len(stored) = Len(order) + 1
      /\ \A k \in 1 .. Len(order) : stored[k] = order[k]
      /\ stored[Len(order) + 1] = msg
  BY <1>2, <1>3, AppendProperties
<1>5. ASSUME NEW k \in 1 .. n + 2
      PROVE  stored[k] = [val |-> (k - 1) % Modulus, view |-> k - 1]
  <2>1. CASE k \in 1 .. n + 1
    BY <1>4, <2>1 DEF Counts
  <2>2. CASE k = n + 2
    BY <1>4, <2>2 DEF Counts, msg
  <2> QED BY <2>1, <2>2
<1> QED BY <1>4, <1>5 DEF Counts
-------------------------------------------------------------------------------
(***************************************************************************)
(* What the inductive invariant says of the counts: the consumer is never  *)
(* ahead of the producer nor more than a lap behind, and what each thread  *)
(* has read of the other's counter lies in between.                        *)
(***************************************************************************)
LEMMA Distances ==
    ASSUME IndInv
    PROVE  /\ Len(sent) \in Nat /\ Len(rcvd) \in Nat
           /\ Len(tail) = Len(sent) + 1 /\ Len(head) = Len(rcvd) + 1
           /\ Last(tail) = Len(sent) % Modulus
           /\ Last(head) = Len(rcvd) % Modulus
           /\ Len(rcvd) <= Len(sent)
           /\ Len(sent) - Len(rcvd) <= Capacity
           /\ prod.view <= Len(rcvd)
           /\ cons.view <= Len(sent)
           /\ cons.epoch <= Len(sent)
<1>1. Len(sent) \in Nat /\ Len(rcvd) \in Nat
  BY DEF IndInv, TypeOK
<1>2. Len(tail) = Len(sent) + 1 /\ Len(head) = Len(rcvd) + 1
  BY DEF IndInv, Counts
<1>3. Last(tail) = Len(sent) % Modulus /\ Last(head) = Len(rcvd) % Modulus
  BY <1>1, LastOfCounts DEF IndInv, TypeOK
<1>4. prod.view <= Len(rcvd) /\ prod.view \in Int
  BY <1>1, <1>2 DEF IndInv, ProducerInv
<1>5. cons.view <= Len(sent) /\ cons.view \in Int
  BY <1>1, <1>2 DEF IndInv, ConsumerInv
<1>6. Len(sent) - Len(rcvd) <= Capacity
  BY <1>1, <1>4, RingAssumption DEF IndInv, ProducerInv
<1>7. cons.epoch <= Len(sent)
  BY <1>1, <1>5 DEF IndInv, ConsumerInv
<1> QED BY <1>1, <1>2, <1>3, <1>4, <1>5, <1>6, <1>7 DEF IndInv, HistoryInv

\* What the full test decides is the distance to the head that was read.
LEMMA FullTest ==
    ASSUME IndInv, NEW i \in Nat, i \in prod.seen .. Len(head)
    PROVE  /\ head[i] = [val |-> (i - 1) % Modulus, view |-> i - 1]
           /\ Len(sent) - (i - 1) \in 0 .. Capacity
           /\ IsFull(Last(tail), head[i].val) <=> Len(sent) - (i - 1) >= Capacity
           /\ LoadAcquire(prod.view, head[i]) = i - 1
<1>1. prod.seen \in Nat /\ prod.view = prod.seen - 1 /\ prod.seen >= 1
  BY DEF IndInv, ProducerInv, TypeOK, Thread
<1>2. head[i] = [val |-> (i - 1) % Modulus, view |-> i - 1]
  BY <1>1, Distances DEF IndInv, Counts
<1>3. Len(sent) - (i - 1) \in 0 .. Capacity
  <2>1. Len(sent) <= prod.view + Capacity
    BY DEF IndInv, ProducerInv
  <2>2. /\ Len(sent) \in Nat /\ Len(rcvd) \in Nat /\ Len(rcvd) <= Len(sent)
        /\ Len(head) = Len(rcvd) + 1
    BY Distances
  <2>3. i <= Len(head) /\ prod.seen <= i
    BY <1>1, <2>2
  <2> QED BY <1>1, <2>1, <2>2, <2>3, Moduli
<1>4. WrappingSub(Last(tail), head[i].val) = Len(sent) - (i - 1)
  <2>1. /\ i - 1 \in Nat /\ Len(sent) \in Nat
        /\ i - 1 <= Len(sent) /\ Len(sent) - (i - 1) < Modulus
    BY <1>1, <1>3, Distances, Moduli
  <2>2. WrappingSub(Len(sent) % Modulus, (i - 1) % Modulus) = Len(sent) - (i - 1)
    BY <2>1, WrappingSubExact
  <2> QED BY <1>2, <2>2, Distances
<1>5. LoadAcquire(prod.view, head[i]) = i - 1
  BY <1>1, <1>2 DEF LoadAcquire
<1> QED BY <1>2, <1>3, <1>4, <1>5 DEF IsFull

\* What the empty test decides is whether the tail that was read is ahead.
LEMMA EmptyTest ==
    ASSUME IndInv, NEW i \in Nat, i \in cons.seen .. Len(tail)
    PROVE  /\ tail[i] = [val |-> (i - 1) % Modulus, view |-> i - 1]
           /\ Len(rcvd) <= i - 1
           /\ IsEmpty(Last(head), tail[i].val) <=> Len(rcvd) = i - 1
           /\ LoadAcquire(cons.view, tail[i]) = i - 1
<1>1. cons.seen \in Nat /\ cons.view = cons.seen - 1 /\ cons.seen >= 1
  BY DEF IndInv, ConsumerInv, TypeOK, Thread
<1>2. tail[i] = [val |-> (i - 1) % Modulus, view |-> i - 1]
  BY <1>1, Distances DEF IndInv, Counts
<1>3. Len(rcvd) <= i - 1 /\ i - 1 \in Nat
  BY <1>1, Distances DEF IndInv, ConsumerInv
<1>4. Len(rcvd) % Modulus = (i - 1) % Modulus <=> Len(rcvd) = i - 1
  <2>1. SUFFICES ASSUME Len(rcvd) < i - 1, Len(rcvd) % Modulus = (i - 1) % Modulus
                 PROVE  FALSE
    BY <1>3, Distances
  <2>2. Len(rcvd) \in Int /\ i - 1 \in Int
    BY <1>3, Distances
  <2>3. (i - 1) - Len(rcvd) >= Modulus
    BY <2>1, <2>2, ModApart, Moduli
  <2>4. i - 1 <= Len(sent)
    BY Distances
  <2> QED BY <2>2, <2>3, <2>4, Distances, Moduli
<1>5. LoadAcquire(cons.view, tail[i]) = i - 1
  BY <1>1, <1>2 DEF LoadAcquire
<1> QED BY <1>2, <1>3, <1>4, <1>5, Distances DEF IsEmpty
-------------------------------------------------------------------------------
(***************************************************************************)
(* The inductive invariant: it holds initially, and every action keeps it. *)
(***************************************************************************)
LEMMA InitIndInv == Init => IndInv
<1> SUFFICES ASSUME Init PROVE IndInv
  OBVIOUS
<1> USE RingAssumption
<1>1. [val |-> 0, view |-> 0] \in Message
  BY DEF Message
<1>2. TypeOK
  BY <1>1 DEF Init, TypeOK, Thread, Entry
<1>3. 0 % Modulus = 0
  BY Moduli, ModSmall
<1>4. Counts(tail, 0) /\ Counts(head, 0)
  BY <1>3 DEF Init, Counts
<1>5. ProducerInv /\ ConsumerInv
  BY DEF Init, ProducerInv, ConsumerInv
<1>6. SlotInv
  BY DEF Init, SlotInv
<1>7. HistoryInv
  BY DEF Init, HistoryInv, Gone
<1> QED BY <1>2, <1>4, <1>5, <1>6, <1>7 DEF IndInv, Init

LEMMA PushRejectedIndInv ==
    ASSUME IndInv, NEW i \in Nat, PushRejected(i)
    PROVE  IndInv'
<1>1. i \in prod.seen .. Len(head) /\ prod.pc = "idle" /\ Len(sent) < MaxPush
  BY DEF PushRejected, LoadHead
<1>2. prod' = [prod EXCEPT !.seen = i, !.view = i - 1]
  BY <1>1, FullTest DEF PushRejected
<1>3. UNCHANGED <<slots, tail, head, cons, sent, rcvd, reclaimed>>
  BY DEF PushRejected
<1>4. prod \in Thread({"idle", "write", "publish", "dropped"}) /\ i - 1 \in Nat
  BY <1>1 DEF IndInv, TypeOK, ProducerInv
<1>5. /\ prod'.pc = "idle" /\ prod'.item = prod.item /\ prod'.epoch = prod.epoch
      /\ prod'.seen = i /\ prod'.view = i - 1
      /\ prod' \in Thread({"idle", "write", "publish", "dropped"})
  <2> DEFINE v == i - 1
  <2>1. prod' = [prod EXCEPT !.seen = i, !.view = v] /\ v \in Nat
    BY <1>2, <1>4
  <2> HIDE DEF v
  <2>2. prod' \in Thread({"idle", "write", "publish", "dropped"})
    BY <1>4, <2>1 DEF Thread
  <2> QED BY <1>1, <1>4, <2>1, <2>2 DEF Thread, v
<1>6. TypeOK'
  BY <1>3, <1>5 DEF IndInv, TypeOK
<1>7. Counts(tail, Len(sent))' /\ Counts(head, Len(rcvd))'
  BY <1>3 DEF IndInv, Counts
<1>8. ProducerInv'
  <2>1. Len(sent) <= i - 1 + Capacity
    <3>1. Len(sent) - (i - 1) \in 0 .. Capacity
      BY <1>1, FullTest
    <3> QED BY <3>1, Distances, RingAssumption
  <2> QED BY <1>1, <1>3, <1>4, <1>5, <2>1 DEF IndInv, ProducerInv
<1>9. ConsumerInv'
  BY <1>3 DEF IndInv, ConsumerInv
<1>10. SlotInv'
  BY <1>1, <1>3, <1>5 DEF IndInv, SlotInv
<1>11. HistoryInv'
  BY <1>1, <1>3, <1>5 DEF IndInv, HistoryInv, Gone
<1> QED BY <1>6, <1>7, <1>8, <1>9, <1>10, <1>11 DEF IndInv

LEMMA PushAdmittedIndInv ==
    ASSUME IndInv, NEW i \in Nat, NEW item \in Items, PushAdmitted(item, i)
    PROVE  IndInv'
<1>1. i \in prod.seen .. Len(head) /\ prod.pc = "idle" /\ Len(sent) < MaxPush
  BY DEF PushAdmitted, LoadHead
<1>2. prod' = [prod EXCEPT !.pc = "write", !.item = item, !.seen = i, !.view = i - 1]
  BY <1>1, FullTest DEF PushAdmitted
<1>3. UNCHANGED <<slots, tail, head, cons, sent, rcvd, reclaimed>>
  BY DEF PushAdmitted
<1>4. prod \in Thread({"idle", "write", "publish", "dropped"}) /\ i - 1 \in Nat
  BY <1>1 DEF IndInv, TypeOK, ProducerInv
<1>5. /\ prod'.pc = "write" /\ prod'.item = item /\ prod'.epoch = prod.epoch
      /\ prod'.seen = i /\ prod'.view = i - 1
      /\ prod' \in Thread({"idle", "write", "publish", "dropped"})
  <2> DEFINE v == i - 1
  <2>1. /\ prod' = [prod EXCEPT !.pc = "write", !.item = item, !.seen = i, !.view = v]
        /\ v \in Nat /\ item \in Entry
    BY <1>2, <1>4 DEF Entry
  <2> HIDE DEF v
  <2>2. prod' \in Thread({"idle", "write", "publish", "dropped"})
    BY <1>4, <2>1 DEF Thread
  <2> QED BY <1>1, <1>4, <2>1, <2>2 DEF Thread, v
<1>6. TypeOK'
  BY <1>3, <1>5 DEF IndInv, TypeOK
<1>7. Counts(tail, Len(sent))' /\ Counts(head, Len(rcvd))'
  BY <1>3 DEF IndInv, Counts
<1>8. ProducerInv'
  <2>1. ~(Len(sent) - (i - 1) >= Capacity)
    BY <1>1, FullTest DEF PushAdmitted
  <2>2. Len(sent) < i - 1 + Capacity
    BY <2>1, Distances, Moduli
  <2>3. /\ prod.seen \in Nat /\ prod.seen >= 1 /\ Len(head) \in Nat
        /\ prod.epoch = Len(sent) /\ Len(sent) <= MaxPush
    BY <1>1, Distances DEF IndInv, ProducerInv
  <2>4. i \in 1 .. Len(head) /\ Len(sent) <= i - 1 + Capacity
    BY <1>1, <2>2, <2>3, Distances, Moduli
  <2> QED BY <1>1, <1>3, <1>5, <2>2, <2>3, <2>4 DEF ProducerInv
<1>9. ConsumerInv'
  BY <1>3 DEF IndInv, ConsumerInv
<1>10. SlotInv'
  BY <1>1, <1>3, <1>5 DEF IndInv, SlotInv
<1>11. HistoryInv'
  BY <1>1, <1>3, <1>5 DEF IndInv, HistoryInv, Gone
<1> QED BY <1>6, <1>7, <1>8, <1>9, <1>10, <1>11 DEF IndInv

\* The slot about to be written holds no item in flight: an item in it would
\* be a lap or more behind the tail.
LEMMA WriteSlotIsFree ==
    ASSUME IndInv, prod.pc = "write"
    PROVE  \A n \in Len(rcvd) + 1 .. Len(sent) : Idx(n - 1) # Idx(Len(sent))
<1> SUFFICES ASSUME NEW n \in Len(rcvd) + 1 .. Len(sent), Idx(n - 1) = Idx(Len(sent))
             PROVE  FALSE
  OBVIOUS
<1>1. n - 1 \in Int /\ Len(sent) \in Int /\ n - 1 < Len(sent)
  BY Distances
<1>2. Len(sent) - (n - 1) >= Capacity
  BY <1>1, LapApart
<1>3. Len(sent) < prod.view + Capacity /\ prod.view \in Nat
  BY DEF IndInv, ProducerInv, TypeOK, Thread
<1> QED BY <1>1, <1>2, <1>3, Distances, RingAssumption

\* The index try_push computes from the wrapped tail.
LEMMA TailIdx ==
    ASSUME SlotMapSafe, IndInv, prod.pc \in {"write", "publish"}
    PROVE  Idx(Last(tail)) = Idx(Len(sent)) /\ Idx(Len(sent)) \in 0 .. Capacity - 1
<1>1. Len(sent) \in Nat /\ Len(sent) < MaxPush
  BY Distances DEF IndInv, ProducerInv
<1> QED BY <1>1, Distances, IdxOfWrapped, IdxBound

\* The index try_pop computes from the wrapped head.
LEMMA HeadIdx ==
    ASSUME SlotMapSafe, IndInv, Len(rcvd) < Len(sent)
    PROVE  Idx(Last(head)) = Idx(Len(rcvd)) /\ Idx(Len(rcvd)) \in 0 .. Capacity - 1
<1>1. Len(rcvd) \in Nat /\ Len(rcvd) < MaxPush
  BY Distances, RingAssumption DEF IndInv, ProducerInv
<1> QED BY <1>1, Distances, IdxOfWrapped, IdxBound

LEMMA PushWriteIndInv ==
    ASSUME SlotMapSafe, IndInv, PushWrite
    PROVE  IndInv'
<1> DEFINE s0 == Idx(Len(sent))
<1>1. prod.pc = "write" /\ Idx(Last(tail)) = s0 /\ s0 \in 0 .. Capacity - 1
  BY TailIdx DEF PushWrite
<1>2. prod.epoch = Len(sent) /\ prod.item \in Items
  BY <1>1 DEF IndInv, ProducerInv
<1>3. /\ slots' = [slots EXCEPT ![s0].item = prod.item, ![s0].wr = Len(sent) + 1]
      /\ prod' = [prod EXCEPT !.pc = "publish", !.epoch = Len(sent) + 1]
      /\ UNCHANGED <<tail, head, cons, sent, rcvd, reclaimed>>
  BY <1>1, <1>2 DEF PushWrite
<1> HIDE DEF s0
<1>4. /\ prod \in Thread({"idle", "write", "publish", "dropped"})
      /\ slots \in [0 .. Capacity - 1 -> [item : Entry, wr : Nat, rd : Nat]]
  BY DEF IndInv, TypeOK
<1>5. /\ prod'.pc = "publish" /\ prod'.item = prod.item /\ prod'.epoch = Len(sent) + 1
      /\ prod'.seen = prod.seen /\ prod'.view = prod.view
      /\ prod' \in Thread({"idle", "write", "publish", "dropped"})
  <2> DEFINE e == Len(sent) + 1
  <2>1. prod' = [prod EXCEPT !.pc = "publish", !.epoch = e] /\ e \in Nat
    BY <1>3, Distances
  <2> HIDE DEF e
  <2>2. prod' \in Thread({"idle", "write", "publish", "dropped"})
    BY <1>4, <2>1 DEF Thread
  <2> QED BY <1>4, <2>1, <2>2 DEF Thread, e
<1>6. /\ slots' \in [0 .. Capacity - 1 -> [item : Entry, wr : Nat, rd : Nat]]
      /\ slots'[s0].item = prod.item /\ slots'[s0].wr = Len(sent) + 1
      /\ \A s \in 0 .. Capacity - 1 : slots'[s].rd = slots[s].rd
      /\ \A s \in 0 .. Capacity - 1 : s # s0 => slots'[s] = slots[s]
  <2> DEFINE e == Len(sent) + 1
             x == prod.item
  <2>1. /\ slots' = [slots EXCEPT ![s0].item = x, ![s0].wr = e]
        /\ e \in Nat /\ x \in Entry
    BY <1>2, <1>3, Distances DEF Entry
  <2> HIDE DEF e, x
  <2> QED BY <1>1, <1>4, <2>1 DEF e, x
<1>7. TypeOK'
  BY <1>3, <1>5, <1>6 DEF IndInv, TypeOK
<1>8. Counts(tail, Len(sent))' /\ Counts(head, Len(rcvd))'
  BY <1>3 DEF IndInv, Counts
<1>9. ProducerInv'
  BY <1>1, <1>3, <1>5 DEF IndInv, ProducerInv
<1>10. ConsumerInv'
  BY <1>3 DEF IndInv, ConsumerInv
<1>11. SlotInv'
  <2>1. ASSUME NEW n \in Len(rcvd) + 1 .. Len(sent)
        PROVE  slots'[Idx(n - 1)].item = sent[n] /\ slots'[Idx(n - 1)].wr = n
    <3>1. Idx(n - 1) # s0
      BY <1>1, WriteSlotIsFree DEF s0
    <3>2. n - 1 \in Int
      BY Distances
    <3>3. Idx(n - 1) \in 0 .. Capacity - 1
      BY <3>2, IdxBound
    <3> QED BY <1>6, <3>1, <3>3 DEF IndInv, SlotInv
  <2>2. \A s \in 0 .. Capacity - 1 :
          slots'[s].rd # 0 => slots'[s].rd <= cons.epoch /\ Idx(slots'[s].rd - 1) = s
    BY <1>6 DEF IndInv, SlotInv
  <2> QED BY <1>3, <1>5, <1>6, <2>1, <2>2 DEF SlotInv, s0
<1>12. HistoryInv'
  BY <1>1, <1>3, <1>5 DEF IndInv, HistoryInv, Gone
<1> QED BY <1>7, <1>8, <1>9, <1>10, <1>11, <1>12 DEF IndInv

LEMMA PushPublishIndInv ==
    ASSUME IndInv, PushPublish
    PROVE  IndInv'
<1>1. /\ prod.pc = "publish" /\ prod.epoch = Len(sent) + 1 /\ prod.item \in Items
      /\ Len(sent) < prod.view + Capacity /\ Len(sent) < MaxPush
  BY DEF PushPublish, IndInv, ProducerInv
<1>2. /\ prod' = [prod EXCEPT !.pc = "idle", !.item = NoItem]
      /\ sent' = Append(sent, prod.item)
      /\ tail' = StoreRelease(tail, WrappingAdd1(Last(tail)), Len(sent) + 1)
      /\ UNCHANGED <<slots, head, cons, rcvd, reclaimed>>
  BY <1>1 DEF PushPublish
<1>3. /\ prod \in Thread({"idle", "write", "publish", "dropped"})
      /\ sent \in Seq(Items) /\ tail \in Seq(Message)
  BY DEF IndInv, TypeOK
<1>4. /\ prod'.pc = "idle" /\ prod'.item = NoItem /\ prod'.epoch = prod.epoch
      /\ prod'.seen = prod.seen /\ prod'.view = prod.view
      /\ prod' \in Thread({"idle", "write", "publish", "dropped"})
  BY <1>2, <1>3 DEF Thread, Entry
<1>5. /\ sent' \in Seq(Items) /\ Len(sent') = Len(sent) + 1
      /\ sent'[Len(sent) + 1] = prod.item
      /\ \A n \in 1 .. Len(sent) : sent'[n] = sent[n]
  BY <1>1, <1>2, <1>3, AppendProperties
<1>6. tail' \in Seq(Message) /\ Len(tail') = Len(tail) + 1 /\ Counts(tail', Len(sent) + 1)
  BY <1>2, <1>3, Distances, CountsStore DEF IndInv
<1>7. TypeOK'
  BY <1>2, <1>4, <1>5, <1>6, Distances DEF IndInv, TypeOK
<1>8. Counts(tail, Len(sent))'
  BY <1>5, <1>6
<1>9. Counts(head, Len(rcvd))'
  BY <1>2 DEF IndInv, Counts
<1>10. ProducerInv'
  <2>1. prod.view \in Nat /\ Len(sent) \in Nat
    BY <1>3 DEF Thread
  <2>2. /\ prod.seen \in 1 .. Len(head) /\ prod.view = prod.seen - 1
        /\ UNCHANGED head
    BY <1>2 DEF IndInv, ProducerInv
  <2>3. /\ prod'.epoch = Len(sent') /\ Len(sent') <= prod'.view + Capacity
        /\ Len(sent') <= MaxPush
    BY <1>1, <1>4, <1>5, <2>1, Moduli
  <2> QED BY <1>4, <2>2, <2>3 DEF ProducerInv
<1>11. ConsumerInv'
  <2>1. cons.pc = "publish" => cons.item = sent'[Len(rcvd) + 1]
    BY <1>5, Distances DEF IndInv, ConsumerInv
  <2> QED BY <1>2, <1>6, <2>1, Distances DEF IndInv, ConsumerInv
<1>12. SlotInv'
  <2>1. ASSUME NEW n \in Len(rcvd) + 1 .. Len(sent) + 1
        PROVE  slots[Idx(n - 1)].item = sent'[n] /\ slots[Idx(n - 1)].wr = n
    <3>1. CASE n \in Len(rcvd) + 1 .. Len(sent)
      BY <1>5, <3>1, Distances DEF IndInv, SlotInv
    <3>2. CASE n = Len(sent) + 1
      <4>1. n - 1 = Len(sent)
        BY <3>2, Distances
      <4> QED BY <1>1, <1>5, <3>2, <4>1 DEF IndInv, SlotInv
    <3> QED BY <3>1, <3>2, Distances
  <2> QED BY <1>2, <1>4, <1>5, <2>1 DEF IndInv, SlotInv
<1>13. HistoryInv'
  BY <1>1, <1>2, <1>4, <1>5, Distances DEF IndInv, HistoryInv, Gone
<1> QED BY <1>7, <1>8, <1>9, <1>10, <1>11, <1>12, <1>13 DEF IndInv

LEMMA PopEmptyIndInv ==
    ASSUME IndInv, NEW i \in Nat, PopEmpty(i)
    PROVE  IndInv'
<1>1. i \in cons.seen .. Len(tail) /\ cons.pc = "idle"
  BY DEF PopEmpty, LoadTail
<1>2. /\ cons' = [cons EXCEPT !.seen = i, !.view = i - 1]
      /\ UNCHANGED <<slots, tail, head, prod, sent, rcvd, reclaimed>>
  BY <1>1, EmptyTest DEF PopEmpty
<1>3. cons \in Thread({"idle", "read", "publish", "dropped"}) /\ i - 1 \in Nat
  BY <1>1 DEF IndInv, TypeOK, ConsumerInv
<1>4. /\ cons'.pc = "idle" /\ cons'.item = cons.item /\ cons'.epoch = cons.epoch
      /\ cons'.seen = i /\ cons'.view = i - 1
      /\ cons' \in Thread({"idle", "read", "publish", "dropped"})
  <2> DEFINE v == i - 1
  <2>1. cons' = [cons EXCEPT !.seen = i, !.view = v] /\ v \in Nat
    BY <1>2, <1>3
  <2> HIDE DEF v
  <2>2. cons' \in Thread({"idle", "read", "publish", "dropped"})
    BY <1>3, <2>1 DEF Thread
  <2> QED BY <1>1, <1>3, <2>1, <2>2 DEF Thread, v
<1>5. TypeOK'
  BY <1>2, <1>4 DEF IndInv, TypeOK
<1>6. Counts(tail, Len(sent))' /\ Counts(head, Len(rcvd))'
  BY <1>2 DEF IndInv, Counts
<1>7. ProducerInv'
  BY <1>2 DEF IndInv, ProducerInv
<1>8. ConsumerInv'
  <2>1. Len(rcvd) <= i - 1
    BY <1>1, EmptyTest
  <2> QED BY <1>1, <1>2, <1>3, <1>4, <2>1 DEF IndInv, ConsumerInv
<1>9. SlotInv'
  BY <1>2, <1>4 DEF IndInv, SlotInv
<1>10. HistoryInv'
  BY <1>1, <1>2, <1>4 DEF IndInv, HistoryInv, Gone
<1> QED BY <1>5, <1>6, <1>7, <1>8, <1>9, <1>10 DEF IndInv

LEMMA PopFoundIndInv ==
    ASSUME IndInv, NEW i \in Nat, PopFound(i)
    PROVE  IndInv'
<1>1. i \in cons.seen .. Len(tail) /\ cons.pc = "idle"
  BY DEF PopFound, LoadTail
<1>2. /\ cons' = [cons EXCEPT !.pc = "read", !.seen = i, !.view = i - 1]
      /\ UNCHANGED <<slots, tail, head, prod, sent, rcvd, reclaimed>>
  BY <1>1, EmptyTest DEF PopFound
<1>3. cons \in Thread({"idle", "read", "publish", "dropped"}) /\ i - 1 \in Nat
  BY <1>1 DEF IndInv, TypeOK, ConsumerInv
<1>4. /\ cons'.pc = "read" /\ cons'.item = cons.item /\ cons'.epoch = cons.epoch
      /\ cons'.seen = i /\ cons'.view = i - 1
      /\ cons' \in Thread({"idle", "read", "publish", "dropped"})
  <2> DEFINE v == i - 1
  <2>1. cons' = [cons EXCEPT !.pc = "read", !.seen = i, !.view = v] /\ v \in Nat
    BY <1>2, <1>3
  <2> HIDE DEF v
  <2>2. cons' \in Thread({"idle", "read", "publish", "dropped"})
    BY <1>3, <2>1 DEF Thread
  <2> QED BY <1>3, <2>1, <2>2 DEF Thread, v
<1>5. TypeOK'
  BY <1>2, <1>4 DEF IndInv, TypeOK
<1>6. Counts(tail, Len(sent))' /\ Counts(head, Len(rcvd))'
  BY <1>2 DEF IndInv, Counts
<1>7. ProducerInv'
  BY <1>2 DEF IndInv, ProducerInv
<1>8. ConsumerInv'
  <2>1. Len(rcvd) <= i - 1 /\ Len(rcvd) # i - 1
    BY <1>1, EmptyTest DEF PopFound
  <2>2. Len(rcvd) < i - 1
    BY <1>3, <2>1, Distances
  <2> QED BY <1>1, <1>2, <1>3, <1>4, <2>1, <2>2 DEF IndInv, ConsumerInv
<1>9. SlotInv'
  BY <1>2, <1>4 DEF IndInv, SlotInv
<1>10. HistoryInv'
  BY <1>1, <1>2, <1>4 DEF IndInv, HistoryInv, Gone
<1> QED BY <1>5, <1>6, <1>7, <1>8, <1>9, <1>10 DEF IndInv

\* A read by the consumer returns the oldest accepted item: the write of it
\* happens before the read.
LEMMA ReadIsOldest ==
    ASSUME SlotMapSafe, IndInv, cons.pc = "read"
    PROVE  /\ Len(rcvd) < Len(sent)
           /\ slots[Idx(Last(head))].wr \in 1 .. cons.view
           /\ ReadOutcomes(slots[Idx(Last(head))]) = {sent[Len(rcvd) + 1]}
<1>1. Len(rcvd) < cons.view /\ cons.view \in Nat
  BY DEF IndInv, ConsumerInv, TypeOK, Thread
<1>2. Len(rcvd) < Len(sent)
  BY <1>1, Distances
<1>3. Idx(Last(head)) = Idx(Len(rcvd))
  BY <1>2, HeadIdx
<1>4. /\ slots[Idx((Len(rcvd) + 1) - 1)].item = sent[Len(rcvd) + 1]
      /\ slots[Idx((Len(rcvd) + 1) - 1)].wr = Len(rcvd) + 1
  <2>1. Len(rcvd) + 1 \in Len(rcvd) + 1 .. Len(sent)
    BY <1>2, Distances
  <2> QED BY <2>1 DEF IndInv, SlotInv
<1>5. (Len(rcvd) + 1) - 1 = Len(rcvd)
  BY Distances
<1>6. /\ slots[Idx(Last(head))].item = sent[Len(rcvd) + 1]
      /\ slots[Idx(Last(head))].wr = Len(rcvd) + 1
  BY <1>3, <1>4, <1>5
<1>7. Len(rcvd) + 1 \in 1 .. cons.view
  BY <1>1, Distances
<1> QED BY <1>2, <1>6, <1>7 DEF ReadOutcomes

LEMMA PopReadIndInv ==
    ASSUME SlotMapSafe, IndInv, PopRead
    PROVE  IndInv'
<1> DEFINE s0 == Idx(Len(rcvd))
           e == Len(rcvd) + 1
           x == sent[Len(rcvd) + 1]
<1>1. cons.pc = "read" /\ cons.epoch = Len(rcvd) /\ Len(rcvd) < cons.view
  BY DEF PopRead, IndInv, ConsumerInv
<1>2. Idx(Last(head)) = s0 /\ s0 \in 0 .. Capacity - 1 /\ Len(rcvd) < Len(sent)
  BY <1>1, ReadIsOldest, HeadIdx
<1>3. /\ slots' = [slots EXCEPT ![s0].rd = e]
      /\ cons' = [cons EXCEPT !.pc = "publish", !.item = x, !.epoch = e]
      /\ UNCHANGED <<tail, head, prod, sent, rcvd, reclaimed>>
  BY <1>1, <1>2, ReadIsOldest DEF PopRead
<1>4. /\ cons \in Thread({"idle", "read", "publish", "dropped"})
      /\ slots \in [0 .. Capacity - 1 -> [item : Entry, wr : Nat, rd : Nat]]
      /\ sent \in Seq(Items)
  BY DEF IndInv, TypeOK
<1>5. e \in Nat /\ x \in Entry
  BY <1>2, <1>4, Distances DEF Entry
<1> HIDE DEF s0, e, x
<1>6. /\ cons'.pc = "publish" /\ cons'.item = x /\ cons'.epoch = e
      /\ cons'.seen = cons.seen /\ cons'.view = cons.view
      /\ cons' \in Thread({"idle", "read", "publish", "dropped"})
  BY <1>3, <1>4, <1>5 DEF Thread
<1>7. /\ slots' \in [0 .. Capacity - 1 -> [item : Entry, wr : Nat, rd : Nat]]
      /\ slots'[s0].rd = e
      /\ \A s \in 0 .. Capacity - 1 :
            slots'[s].item = slots[s].item /\ slots'[s].wr = slots[s].wr
      /\ \A s \in 0 .. Capacity - 1 : s # s0 => slots'[s].rd = slots[s].rd
  BY <1>2, <1>3, <1>4, <1>5
<1>8. TypeOK'
  BY <1>3, <1>6, <1>7 DEF IndInv, TypeOK
<1>9. Counts(tail, Len(sent))' /\ Counts(head, Len(rcvd))'
  BY <1>3 DEF IndInv, Counts
<1>10. ProducerInv'
  BY <1>3 DEF IndInv, ProducerInv
<1>11. ConsumerInv'
  BY <1>1, <1>3, <1>6 DEF IndInv, ConsumerInv, e, x
<1>12. SlotInv'
  <2>1. ASSUME NEW n \in Len(rcvd) + 1 .. Len(sent)
        PROVE  slots'[Idx(n - 1)].item = sent[n] /\ slots'[Idx(n - 1)].wr = n
    <3>1. n - 1 \in Int
      BY Distances
    <3>2. Idx(n - 1) \in 0 .. Capacity - 1
      BY <3>1, IdxBound
    <3> QED BY <1>7, <3>2 DEF IndInv, SlotInv
  <2>2. ASSUME prod.pc = "publish"
        PROVE  slots'[Idx(Len(sent))].item = prod.item /\ slots'[Idx(Len(sent))].wr = Len(sent) + 1
    <3>1. Idx(Len(sent)) \in 0 .. Capacity - 1
      BY Distances, IdxBound
    <3> QED BY <1>7, <2>2, <3>1 DEF IndInv, SlotInv
  <2>3. ASSUME NEW s \in 0 .. Capacity - 1, slots'[s].rd # 0
        PROVE  slots'[s].rd <= e /\ Idx(slots'[s].rd - 1) = s
    <3>1. CASE s = s0
      <4>1. e - 1 = Len(rcvd)
        BY Distances DEF e
      <4> QED BY <1>5, <1>7, <3>1, <4>1 DEF s0
    <3>2. CASE s # s0
      <4>1. slots[s].rd <= cons.epoch /\ Idx(slots[s].rd - 1) = s /\ slots[s].rd \in Nat
        BY <1>4, <1>7, <2>3, <3>2 DEF IndInv, SlotInv
      <4> QED BY <1>1, <1>7, <3>2, <4>1, Distances DEF e
    <3> QED BY <3>1, <3>2
  <2> QED BY <1>3, <1>6, <2>1, <2>2, <2>3 DEF SlotInv
<1>13. HistoryInv'
  BY <1>1, <1>3, <1>6 DEF IndInv, HistoryInv, Gone
<1> QED BY <1>8, <1>9, <1>10, <1>11, <1>12, <1>13 DEF IndInv

LEMMA PopPublishIndInv ==
    ASSUME IndInv, PopPublish
    PROVE  IndInv'
<1>1. /\ cons.pc = "publish" /\ cons.epoch = Len(rcvd) + 1
      /\ cons.item = sent[Len(rcvd) + 1] /\ Len(rcvd) < cons.view
  BY DEF PopPublish, IndInv, ConsumerInv
<1>2. /\ cons' = [cons EXCEPT !.pc = "idle", !.item = NoItem]
      /\ rcvd' = Append(rcvd, cons.item)
      /\ head' = StoreRelease(head, WrappingAdd1(Last(head)), Len(rcvd) + 1)
      /\ UNCHANGED <<slots, tail, prod, sent, reclaimed>>
  BY <1>1 DEF PopPublish
<1>3. /\ cons \in Thread({"idle", "read", "publish", "dropped"})
      /\ rcvd \in Seq(Entry) /\ head \in Seq(Message)
  BY DEF IndInv, TypeOK
<1>4. /\ cons'.pc = "idle" /\ cons'.item = NoItem /\ cons'.epoch = cons.epoch
      /\ cons'.seen = cons.seen /\ cons'.view = cons.view
      /\ cons' \in Thread({"idle", "read", "publish", "dropped"})
  BY <1>2, <1>3 DEF Thread, Entry
<1>5. cons.item \in Entry /\ cons.view \in Nat
  BY <1>3 DEF Thread
<1>6. /\ rcvd' \in Seq(Entry) /\ Len(rcvd') = Len(rcvd) + 1
      /\ rcvd'[Len(rcvd) + 1] = sent[Len(rcvd) + 1]
      /\ \A n \in 1 .. Len(rcvd) : rcvd'[n] = rcvd[n]
  BY <1>1, <1>2, <1>3, <1>5, AppendProperties
<1>7. head' \in Seq(Message) /\ Len(head') = Len(head) + 1 /\ Counts(head', Len(rcvd) + 1)
  BY <1>2, <1>3, Distances, CountsStore DEF IndInv
<1>8. TypeOK'
  BY <1>2, <1>4, <1>6, <1>7, Distances DEF IndInv, TypeOK
<1>9. Counts(tail, Len(sent))'
  BY <1>2 DEF IndInv, Counts
<1>10. Counts(head, Len(rcvd))'
  BY <1>6, <1>7
<1>11. ProducerInv'
  BY <1>2, <1>7, Distances DEF IndInv, ProducerInv
<1>12. ConsumerInv'
  BY <1>1, <1>2, <1>4, <1>5, <1>6, Distances DEF IndInv, ConsumerInv
<1>13. SlotInv'
  <2>1. \A n \in Len(rcvd) + 2 .. Len(sent) : n \in Len(rcvd) + 1 .. Len(sent)
    BY Distances
  <2> QED BY <1>2, <1>4, <1>6, <2>1, Distances DEF IndInv, SlotInv
<1>14. HistoryInv'
  <2>1. \A n \in 1 .. Len(rcvd) + 1 : rcvd'[n] = sent[n]
    BY <1>6, Distances DEF IndInv, HistoryInv
  <2>2. Len(rcvd) + 1 <= Len(sent)
    BY <1>1, <1>5, Distances
  <2> QED BY <1>1, <1>2, <1>4, <1>6, <2>1, <2>2 DEF IndInv, HistoryInv, Gone
<1> QED BY <1>8, <1>9, <1>10, <1>11, <1>12, <1>13, <1>14 DEF IndInv

\* Inner::drop finds exactly the items in flight, in order.
LEMMA UnpoppedIsRest ==
    ASSUME SlotMapSafe, IndInv
    PROVE  Unpopped = SubSeq(sent, Len(rcvd) + 1, Len(sent))
<1> DEFINE Q == Len(rcvd)
           P == Len(sent)
<1>1. /\ P \in Nat /\ Q \in Nat /\ Q <= P /\ P - Q < Modulus /\ P <= MaxPush
      /\ Last(tail) = P % Modulus /\ Last(head) = Q % Modulus
  BY Distances, RingAssumption DEF IndInv, ProducerInv
<1>2. WrappingSub(Last(tail), Last(head)) = P - Q
  BY <1>1, WrappingSubExact
<1>3. ASSUME NEW n \in 1 .. P - Q
      PROVE  slots[Idx((Last(head) + n - 1) % Modulus)].item = sent[Q + n]
  <2>1. Q + n - 1 \in Nat /\ Q + n - 1 < MaxPush /\ n - 1 \in Int /\ Q + n \in Q + 1 .. P
    BY <1>1, Moduli
  <2>2. (Last(head) + n - 1) % Modulus = (Q + n - 1) % Modulus
    <3>1. /\ Q = Modulus * (Q \div Modulus) + (Q % Modulus)
          /\ Q \div Modulus \in Int /\ Q % Modulus \in Int
      <4>1. Q \in Int
        BY <1>1
      <4> HIDE DEF Q
      <4> QED BY <4>1, Moduli, ModDef
    <3>2. Q + n - 1 = Modulus * (Q \div Modulus) + (Last(head) + n - 1)
      <4> DEFINE k == Modulus * (Q \div Modulus)
      <4>1. Q = k + Last(head) /\ Q \in Int /\ Last(head) \in Int /\ n \in Int
        BY <1>1, <3>1
      <4>2. k \in Int
        BY <3>1, Moduli
      <4> HIDE DEF k, Q
      <4>3. Q + n - 1 = k + (Last(head) + n - 1)
        BY <4>1, <4>2
      <4> QED BY <4>3 DEF k, Q
    <3>3. Last(head) + n - 1 \in Int
      BY <1>1, <2>1, <3>1
    <3> QED BY <3>1, <3>2, <3>3, Moduli, ModAddMultiple
  <2>3. Idx((Q + n - 1) % Modulus) = Idx(Q + n - 1)
    BY <2>1, IdxOfWrapped
  <2>4. slots[Idx((Q + n) - 1)].item = sent[Q + n]
    BY <2>1 DEF IndInv, SlotInv
  <2> QED BY <2>2, <2>3, <2>4
<1>4. SubSeq(sent, Q + 1, P) = [n \in 1 .. P - Q |-> sent[Q + n]]
  BY <1>1 DEF IndInv, TypeOK
<1> QED BY <1>1, <1>2, <1>3, <1>4 DEF Unpopped

LEMMA DropProducerIndInv ==
    ASSUME SlotMapSafe, IndInv, DropProducer
    PROVE  IndInv'
<1>1. prod.pc = "idle"
  BY DEF DropProducer
<1>2. /\ prod' = [prod EXCEPT !.pc = "dropped"]
      /\ reclaimed' = IF cons.pc = "dropped"
                      THEN SubSeq(sent, Len(rcvd) + 1, Len(sent)) ELSE <<>>
      /\ UNCHANGED <<slots, tail, head, cons, sent, rcvd>>
  BY UnpoppedIsRest DEF DropProducer
<1>3. /\ prod \in Thread({"idle", "write", "publish", "dropped"})
      /\ sent \in Seq(Items)
  BY DEF IndInv, TypeOK
<1>4. /\ prod'.pc = "dropped" /\ prod'.item = prod.item /\ prod'.epoch = prod.epoch
      /\ prod'.seen = prod.seen /\ prod'.view = prod.view
      /\ prod' \in Thread({"idle", "write", "publish", "dropped"})
  BY <1>2, <1>3 DEF Thread
<1>5. reclaimed' \in Seq(Entry)
  <2>1. SubSeq(sent, Len(rcvd) + 1, Len(sent)) \in Seq(Items)
    BY <1>3, Distances, SubSeqProperties
  <2> QED BY <1>2, <2>1 DEF Entry
<1>6. TypeOK'
  BY <1>2, <1>4, <1>5 DEF IndInv, TypeOK
<1>7. Counts(tail, Len(sent))' /\ Counts(head, Len(rcvd))'
  BY <1>2 DEF IndInv, Counts
<1>8. ProducerInv' /\ ConsumerInv'
  BY <1>1, <1>2, <1>4 DEF IndInv, ProducerInv, ConsumerInv
<1>9. SlotInv'
  BY <1>2, <1>4 DEF IndInv, SlotInv
<1>10. HistoryInv'
  BY <1>2, <1>4 DEF IndInv, HistoryInv, Gone
<1> QED BY <1>6, <1>7, <1>8, <1>9, <1>10 DEF IndInv

LEMMA DropConsumerIndInv ==
    ASSUME SlotMapSafe, IndInv, DropConsumer
    PROVE  IndInv'
<1>1. cons.pc = "idle"
  BY DEF DropConsumer
<1>2. /\ cons' = [cons EXCEPT !.pc = "dropped"]
      /\ reclaimed' = IF prod.pc = "dropped"
                      THEN SubSeq(sent, Len(rcvd) + 1, Len(sent)) ELSE <<>>
      /\ UNCHANGED <<slots, tail, head, prod, sent, rcvd>>
  BY UnpoppedIsRest DEF DropConsumer
<1>3. /\ cons \in Thread({"idle", "read", "publish", "dropped"})
      /\ sent \in Seq(Items)
  BY DEF IndInv, TypeOK
<1>4. /\ cons'.pc = "dropped" /\ cons'.item = cons.item /\ cons'.epoch = cons.epoch
      /\ cons'.seen = cons.seen /\ cons'.view = cons.view
      /\ cons' \in Thread({"idle", "read", "publish", "dropped"})
  BY <1>2, <1>3 DEF Thread
<1>5. reclaimed' \in Seq(Entry)
  <2>1. SubSeq(sent, Len(rcvd) + 1, Len(sent)) \in Seq(Items)
    BY <1>3, Distances, SubSeqProperties
  <2> QED BY <1>2, <2>1 DEF Entry
<1>6. TypeOK'
  BY <1>2, <1>4, <1>5 DEF IndInv, TypeOK
<1>7. Counts(tail, Len(sent))' /\ Counts(head, Len(rcvd))'
  BY <1>2 DEF IndInv, Counts
<1>8. ProducerInv' /\ ConsumerInv'
  BY <1>1, <1>2, <1>4 DEF IndInv, ProducerInv, ConsumerInv
<1>9. SlotInv'
  BY <1>2, <1>4 DEF IndInv, SlotInv
<1>10. HistoryInv'
  BY <1>2, <1>4 DEF IndInv, HistoryInv, Gone
<1> QED BY <1>6, <1>7, <1>8, <1>9, <1>10 DEF IndInv

LEMMA StutterIndInv ==
    ASSUME IndInv, UNCHANGED vars
    PROVE  IndInv'
  BY DEF vars, IndInv, TypeOK, Counts, ProducerInv, ConsumerInv, SlotInv, HistoryInv, Gone

LEMMA NextIndInv ==
    ASSUME SlotMapSafe, IndInv, [Next]_vars
    PROVE  IndInv'
<1>1. ASSUME NEW i \in 1 .. Len(head), PushRejected(i) PROVE IndInv'
  BY <1>1, PushRejectedIndInv
<1>2. ASSUME NEW i \in 1 .. Len(head), NEW item \in Items, PushAdmitted(item, i) PROVE IndInv'
  BY <1>2, PushAdmittedIndInv
<1>3. CASE PushWrite
  BY <1>3, PushWriteIndInv
<1>4. CASE PushPublish
  BY <1>4, PushPublishIndInv
<1>5. CASE DropProducer
  BY <1>5, DropProducerIndInv
<1>6. ASSUME NEW i \in 1 .. Len(tail), PopEmpty(i) PROVE IndInv'
  BY <1>6, PopEmptyIndInv
<1>7. ASSUME NEW i \in 1 .. Len(tail), PopFound(i) PROVE IndInv'
  BY <1>7, PopFoundIndInv
<1>8. CASE PopRead
  BY <1>8, PopReadIndInv
<1>9. CASE PopPublish
  BY <1>9, PopPublishIndInv
<1>10. CASE DropConsumer
  BY <1>10, DropConsumerIndInv
<1>11. CASE Terminated \/ UNCHANGED vars
  BY <1>11, StutterIndInv DEF Terminated
<1> QED BY <1>1, <1>2, <1>3, <1>4, <1>5, <1>6, <1>7, <1>8, <1>9, <1>10, <1>11
        DEF Next, Producer, Consumer

\* The ring keeps its inductive invariant for every capacity and word size,
\* when capacity divides 2^w or the counters have not wrapped.
THEOREM Inductive ==
    ASSUME SlotMapSafe
    PROVE  Spec => []IndInv
<1>1. Init => IndInv
  BY InitIndInv
<1>2. IndInv /\ [Next]_vars => IndInv'
  BY NextIndInv
<1> QED BY <1>1, <1>2, PTL DEF Spec

(***************************************************************************)
(* What follows from the inductive invariant.                              *)
(***************************************************************************)
\* Type correctness: the counters in particular stay within usize.
THEOREM TypeCorrect ==
    ASSUME SlotMapSafe
    PROVE  Spec => []TypeOK
<1>1. IndInv => TypeOK
  BY DEF IndInv
<1> QED BY <1>1, Inductive, PTL

\* The two threads never race on a slot, and no uninitialised slot is read:
\* the claim of the SAFETY comments that justify the unsafe code.
THEOREM RaceFree ==
    ASSUME SlotMapSafe
    PROVE  Spec => []NoDataRace
<1>1. ASSUME IndInv
      PROVE  NoDataRace
  <2>1. ASSUME prod.pc = "write"
        PROVE  slots[Idx(Last(tail))].rd <= prod.view
    <3> DEFINE s0 == Idx(Len(sent))
               r == slots[s0].rd
    <3>1. Idx(Last(tail)) = s0 /\ s0 \in 0 .. Capacity - 1
      BY <1>1, <2>1, TailIdx
    <3>2. r \in Nat /\ (r # 0 => r <= cons.epoch /\ Idx(r - 1) = s0)
      BY <1>1, <3>1 DEF IndInv, SlotInv, TypeOK
    <3>3. Len(sent) < prod.view + Capacity /\ prod.view \in Nat
      BY <1>1, <2>1 DEF IndInv, ProducerInv, TypeOK, Thread
    <3>4. Len(sent) \in Int /\ cons.epoch <= Len(sent) /\ cons.epoch \in Nat
      BY <1>1, Distances DEF IndInv, TypeOK, Thread
    <3>5. CASE r = 0
      BY <3>1, <3>3, <3>5
    <3>6. CASE r # 0
      <4>1. r - 1 \in Int /\ r - 1 < Len(sent) /\ Idx(r - 1) = Idx(Len(sent))
        BY <3>2, <3>4, <3>6
      <4>2. Len(sent) - (r - 1) >= Capacity
        BY <3>4, <4>1, LapApart
      <4> QED BY <3>1, <3>2, <3>3, <3>4, <4>2, Moduli
    <3> QED BY <3>5, <3>6
  <2>2. ASSUME cons.pc = "read"
        PROVE  slots[Idx(Last(head))].wr \in 1 .. cons.view
    BY <1>1, <2>2, ReadIsOldest
  <2> QED BY <2>1, <2>2 DEF NoDataRace
<1> QED BY <1>1, Inductive, PTL

\* try_push never overwrites an item that has not been popped.
THEOREM NeverOverwrites ==
    ASSUME SlotMapSafe
    PROVE  Spec => []NoOverwrite
<1>1. ASSUME IndInv, prod.pc = "write", NEW n \in Len(rcvd) + 1 .. Len(sent)
      PROVE  Idx((n - 1) % Modulus) # Idx(Last(tail))
  <2>1. n - 1 \in Nat /\ n - 1 < MaxPush
    BY <1>1, Distances, Moduli DEF IndInv, ProducerInv
  <2>2. Idx((n - 1) % Modulus) = Idx(n - 1)
    BY <2>1, IdxOfWrapped
  <2> QED BY <1>1, <2>2, TailIdx, WriteSlotIsFree
<1>2. IndInv => NoOverwrite
  BY <1>1 DEF NoOverwrite
<1> QED BY <1>2, Inductive, PTL

\* Every accepted item is popped or destroyed, once and in order.
THEOREM EachItemOnce ==
    ASSUME SlotMapSafe
    PROVE  Spec => []ExactlyOnce
<1>1. ASSUME IndInv, Gone
      PROVE  rcvd \o reclaimed = sent
  <2> DEFINE Q == Len(rcvd)
             P == Len(sent)
  <2>1. /\ Q \in Nat /\ P \in Nat /\ Q <= P
        /\ rcvd \in Seq(Entry) /\ sent \in Seq(Items)
    BY <1>1, Distances DEF IndInv, TypeOK
  <2>2. reclaimed = SubSeq(sent, Q + 1, P) /\ \A n \in 1 .. Q : rcvd[n] = sent[n]
    BY <1>1 DEF IndInv, HistoryInv
  <2>3. /\ reclaimed \in Seq(Items) /\ Len(reclaimed) = P - Q
        /\ \A n \in 1 .. P - Q : reclaimed[n] = sent[Q + n]
    BY <2>1, <2>2
  <2>4. /\ rcvd \o reclaimed \in Seq(Entry) /\ Len(rcvd \o reclaimed) = P
        /\ \A n \in 1 .. P : (rcvd \o reclaimed)[n] = sent[n]
    BY <2>1, <2>2, <2>3 DEF Entry
  <2>5. sent \in Seq(Entry)
    BY <2>1 DEF Entry
  <2> HIDE DEF P
  <2> QED BY <2>4, <2>5, SeqEqual DEF P
<1>2. IndInv => ExactlyOnce
  BY <1>1 DEF ExactlyOnce
<1> QED BY <1>2, Inductive, PTL

\* A refusal is right of the counter that was read: with that head the ring is
\* full, with that tail it is empty.  The counter itself may be an old one.
THEOREM RefusesTruly ==
    ASSUME SlotMapSafe
    PROVE  Spec => []RefusalsAreTrue
<1>1. ASSUME IndInv, NEW i \in 1 .. Len(head), LoadHead(i), IsFull(Last(tail), head[i].val)
      PROVE  Len(sent) = (i - 1) + Capacity
  <2>1. i \in prod.seen .. Len(head)
    BY <1>1 DEF LoadHead
  <2>2. Len(sent) - (i - 1) \in 0 .. Capacity /\ Len(sent) - (i - 1) >= Capacity
    BY <1>1, <2>1, FullTest, i \in Nat
  <2> QED BY <1>1, <2>2, Distances, Moduli
<1>2. ASSUME IndInv, NEW i \in 1 .. Len(tail), LoadTail(i), IsEmpty(Last(head), tail[i].val)
      PROVE  Len(rcvd) = i - 1
  <2>1. i \in cons.seen .. Len(tail)
    BY <1>2 DEF LoadTail
  <2> QED BY <1>2, <2>1, EmptyTest, i \in Nat
<1>3. IndInv => RefusalsAreTrue
  BY <1>1, <1>2 DEF RefusalsAreTrue
<1> QED BY <1>3, Inductive, PTL
-------------------------------------------------------------------------------
(***************************************************************************)
(* The ring implements the bounded queue.                                  *)
(***************************************************************************)
\* Appending to a sequence appends to its suffix.
LEMMA SuffixAppend ==
    ASSUME NEW S, NEW s \in Seq(S), NEW x \in S, NEW q \in Nat, q <= Len(s)
    PROVE  SubSeq(Append(s, x), q + 1, Len(s) + 1) = Append(SubSeq(s, q + 1, Len(s)), x)
<1> DEFINE l == SubSeq(Append(s, x), q + 1, Len(s) + 1)
           t == SubSeq(s, q + 1, Len(s))
           r == Append(t, x)
<1>1. /\ Append(s, x) \in Seq(S) /\ Len(Append(s, x)) = Len(s) + 1
      /\ \A n \in 1 .. Len(s) : Append(s, x)[n] = s[n]
      /\ Append(s, x)[Len(s) + 1] = x
  BY AppendProperties
<1>2. /\ l \in Seq(S) /\ Len(l) = Len(s) + 1 - q
      /\ \A n \in 1 .. Len(s) + 1 - q : l[n] = Append(s, x)[q + n]
  BY <1>1
<1>3. /\ t \in Seq(S) /\ Len(t) = Len(s) - q
      /\ \A n \in 1 .. Len(s) - q : t[n] = s[q + n]
  OBVIOUS
<1> HIDE DEF l, t
<1>4. /\ r \in Seq(S) /\ Len(r) = Len(s) - q + 1
      /\ \A n \in 1 .. Len(s) - q : r[n] = t[n]
      /\ r[Len(s) - q + 1] = x
  BY <1>3, AppendProperties
<1> HIDE DEF r
<1>5. ASSUME NEW n \in 1 .. Len(l)
      PROVE  l[n] = r[n]
  <2>1. CASE n \in 1 .. Len(s) - q
    <3>1. q + n \in 1 .. Len(s) /\ n \in 1 .. Len(s) + 1 - q
      BY <2>1
    <3> QED BY <1>1, <1>2, <1>3, <1>4, <2>1, <3>1
  <2>2. CASE n = Len(s) - q + 1
    BY <1>1, <1>2, <1>4, <2>2
  <2> QED BY <1>2, <2>1, <2>2
<1>6. l = r
  BY <1>2, <1>4, <1>5, SeqEqual
<1> QED BY <1>6 DEF l, r, t

\* The head and the tail of a suffix.
LEMMA SuffixHeadTail ==
    ASSUME NEW S, NEW s \in Seq(S), NEW q \in Nat, q < Len(s)
    PROVE  /\ SubSeq(s, q + 1, Len(s)) # <<>>
           /\ Head(SubSeq(s, q + 1, Len(s))) = s[q + 1]
           /\ Tail(SubSeq(s, q + 1, Len(s))) = SubSeq(s, q + 2, Len(s))
<1> DEFINE t == SubSeq(s, q + 1, Len(s))
           u == SubSeq(s, q + 2, Len(s))
<1>1. /\ t \in Seq(S) /\ Len(t) = Len(s) - q
      /\ \A n \in 1 .. Len(s) - q : t[n] = s[q + n]
  OBVIOUS
<1>2. /\ u \in Seq(S) /\ Len(u) = Len(s) - q - 1
      /\ \A n \in 1 .. Len(s) - q - 1 : u[n] = s[q + 1 + n]
  OBVIOUS
<1> HIDE DEF t, u
<1>3. t # <<>>
  BY <1>1
<1>4. /\ Tail(t) \in Seq(S) /\ Len(Tail(t)) = Len(s) - q - 1
      /\ \A n \in 1 .. Len(s) - q - 1 : Tail(t)[n] = t[n + 1]
      /\ Head(t) = t[1]
  BY <1>1, <1>3, HeadTailProperties
<1>5. ASSUME NEW n \in 1 .. Len(s) - q - 1
      PROVE  Tail(t)[n] = u[n]
  <2>1. n + 1 \in 1 .. Len(s) - q /\ q + (n + 1) = q + 1 + n
    OBVIOUS
  <2> QED BY <1>1, <1>2, <1>4, <2>1
<1>6. Tail(t) = u
  <2> DEFINE v == Tail(t)
  <2>1. v \in Seq(S) /\ u \in Seq(S) /\ Len(v) = Len(u) /\ \A n \in 1 .. Len(v) : v[n] = u[n]
    BY <1>2, <1>4, <1>5
  <2> HIDE DEF v
  <2>2. v = u
    BY <2>1, SeqEqual
  <2> QED BY <2>2 DEF v
<1> QED BY <1>1, <1>3, <1>4, <1>6 DEF t, u

\* Every step of the ring is a step of the queue or leaves it alone.
LEMMA FifoStep ==
    ASSUME SlotMapSafe, IndInv, [Next]_vars
    PROVE  [Fifo!Next]_(Fifo!vars)
<1> USE DEF Fifo!Next, Fifo!vars
<1>1. /\ sent \in Seq(Items) /\ Len(sent) \in Nat /\ Len(rcvd) \in Nat
      /\ Len(rcvd) <= Len(sent) /\ Len(sent) - Len(rcvd) <= Capacity
  BY Distances DEF IndInv, TypeOK
<1>2. ASSUME NEW i \in 1 .. Len(head), PushRejected(i) PROVE UNCHANGED Fifo!vars
  BY <1>2 DEF PushRejected, LoadHead, Gone, IndInv, TypeOK, Thread
<1>3. ASSUME NEW i \in 1 .. Len(head), NEW item \in Items, PushAdmitted(item, i)
      PROVE  UNCHANGED Fifo!vars
  BY <1>3 DEF PushAdmitted, LoadHead, Gone, IndInv, TypeOK, Thread
<1>4. ASSUME PushWrite PROVE UNCHANGED Fifo!vars
  BY <1>4 DEF PushWrite, Gone, IndInv, TypeOK, Thread
<1>5. ASSUME PushPublish PROVE Fifo!Put(prod.item) /\ prod.item \in Items
  <2>1. /\ prod.item \in Items /\ Len(sent) < prod.view + Capacity /\ prod.view \in Nat
        /\ prod.pc = "publish" /\ prod'.pc = "idle"
    BY <1>5 DEF PushPublish, IndInv, ProducerInv, TypeOK, Thread
  <2>2. Len(sent) < Len(rcvd) + Capacity
    BY <1>1, <2>1, Distances, RingAssumption
  <2>3. Len(SubSeq(sent, Len(rcvd) + 1, Len(sent))) = Len(sent) - Len(rcvd)
    BY <1>1
  <2>4. Len(sent') = Len(sent) + 1 /\ sent' = Append(sent, prod.item)
    BY <1>1, <1>5, <2>1, AppendProperties DEF PushPublish
  <2>5. SubSeq(sent', Len(rcvd) + 1, Len(sent'))
          = Append(SubSeq(sent, Len(rcvd) + 1, Len(sent)), prod.item)
    <3>1. SubSeq(Append(sent, prod.item), Len(rcvd) + 1, Len(sent) + 1)
            = Append(SubSeq(sent, Len(rcvd) + 1, Len(sent)), prod.item)
      BY <1>1, <2>1, SuffixAppend
    <3> QED BY <2>4, <3>1
  <2>6. ~Gone /\ ~Gone' /\ UNCHANGED <<rcvd, reclaimed>>
    BY <1>5, <2>1 DEF PushPublish, Gone
  <2>7. Len(sent) - Len(rcvd) < Capacity
    BY <1>1, <2>2, RingAssumption
  <2> QED BY <2>1, <2>3, <2>5, <2>6, <2>7 DEF Fifo!Put
<1>6. ASSUME NEW i \in 1 .. Len(tail), PopEmpty(i) PROVE UNCHANGED Fifo!vars
  BY <1>6 DEF PopEmpty, LoadTail, Gone, IndInv, TypeOK, Thread
<1>7. ASSUME NEW i \in 1 .. Len(tail), PopFound(i) PROVE UNCHANGED Fifo!vars
  BY <1>7 DEF PopFound, LoadTail, Gone, IndInv, TypeOK, Thread
<1>8. ASSUME PopRead PROVE UNCHANGED Fifo!vars
  <2>1. cons.pc = "read" /\ cons'.pc = "publish"
    BY <1>8 DEF PopRead, IndInv, TypeOK, Thread
  <2> QED BY <1>8, <2>1 DEF PopRead, Gone
<1>9. ASSUME PopPublish PROVE Fifo!Take
  <2>1. /\ cons.pc = "publish" /\ cons'.pc = "idle" /\ Len(rcvd) < cons.view
        /\ cons.view \in Nat /\ cons.item = sent[Len(rcvd) + 1] /\ cons.item \in Entry
    BY <1>9 DEF PopPublish, IndInv, ConsumerInv, TypeOK, Thread
  <2>2. Len(rcvd) < Len(sent)
    BY <1>1, <2>1, Distances
  <2>3. Len(rcvd') = Len(rcvd) + 1 /\ rcvd' = Append(rcvd, cons.item)
    BY <1>9, <2>1, AppendProperties DEF PopPublish, IndInv, TypeOK
  <2>4. ~Gone /\ ~Gone' /\ UNCHANGED <<sent, reclaimed>>
    BY <1>9, <2>1 DEF PopPublish, Gone
  <2>5. SubSeq(sent', Len(rcvd') + 1, Len(sent')) = SubSeq(sent, Len(rcvd) + 2, Len(sent))
    BY <1>1, <2>3, <2>4
  <2> QED BY <1>1, <2>1, <2>2, <2>3, <2>4, <2>5, SuffixHeadTail DEF Fifo!Take
<1>10. ASSUME DropProducer PROVE Fifo!Destroy \/ UNCHANGED Fifo!vars
  <2>1. /\ prod.pc = "idle" /\ prod'.pc = "dropped" /\ cons' = cons
        /\ UNCHANGED <<sent, rcvd>> /\ ~Gone
        /\ reclaimed' = IF cons.pc = "dropped"
                        THEN SubSeq(sent, Len(rcvd) + 1, Len(sent)) ELSE <<>>
    BY <1>10, UnpoppedIsRest DEF DropProducer, Gone, IndInv, TypeOK, Thread
  <2>2. CASE cons.pc = "dropped"
    BY <2>1, <2>2 DEF Fifo!Destroy, Gone
  <2>3. CASE cons.pc # "dropped"
    BY <2>1, <2>3 DEF Gone, IndInv, HistoryInv
  <2> QED BY <2>2, <2>3
<1>11. ASSUME DropConsumer PROVE Fifo!Destroy \/ UNCHANGED Fifo!vars
  <2>1. /\ cons.pc = "idle" /\ cons'.pc = "dropped" /\ prod' = prod
        /\ UNCHANGED <<sent, rcvd>> /\ ~Gone
        /\ reclaimed' = IF prod.pc = "dropped"
                        THEN SubSeq(sent, Len(rcvd) + 1, Len(sent)) ELSE <<>>
    BY <1>11, UnpoppedIsRest DEF DropConsumer, Gone, IndInv, TypeOK, Thread
  <2>2. CASE prod.pc = "dropped"
    BY <2>1, <2>2 DEF Fifo!Destroy, Gone
  <2>3. CASE prod.pc # "dropped"
    BY <2>1, <2>3 DEF Gone, IndInv, HistoryInv
  <2> QED BY <2>2, <2>3
<1>12. ASSUME Terminated \/ UNCHANGED vars PROVE UNCHANGED Fifo!vars
  BY <1>12 DEF Terminated, vars, Gone
<1> QED BY <1>2, <1>3, <1>4, <1>5, <1>6, <1>7, <1>8, <1>9, <1>10, <1>11, <1>12
        DEF Next, Producer, Consumer

\* The ring implements BoundedFifo: seen from its two ends it is a first-in
\* first-out queue that never holds more than Capacity items.
THEOREM RingIsFifo ==
    ASSUME SlotMapSafe
    PROVE  Spec => FifoSpec
<1>1. Init => Fifo!Init
  <2>1. SubSeq(<<>>, Len(<<>>) + 1, Len(<<>>)) = <<>>
    OBVIOUS
  <2> QED BY <2>1 DEF Init, Fifo!Init, Gone
<1>2. IndInv /\ [Next]_vars => [Fifo!Next]_(Fifo!vars)
  BY FifoStep
<1> QED BY <1>1, <1>2, Inductive, PTL DEF Spec, FifoSpec, Fifo!Spec
=============================================================================
