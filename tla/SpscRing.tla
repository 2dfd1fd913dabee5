------------------------------- MODULE SpscRing -------------------------------
(***************************************************************************)
(* realtime::ring, the lock-free single-producer single-consumer queue.    *)
(*                                                                         *)
(* try_push and try_pop are split at every access to memory the two        *)
(* threads share.  An atomic counter is its modification order: the        *)
(* sequence of messages ever stored to it.  A thread that loads the other  *)
(* thread's counter may read any message not older than the last one it    *)
(* read (coherence), so loads may be late, as on hardware.  The thread     *)
(* that owns a counter always reads its own last store.                    *)
(*                                                                         *)
(* Happens-before is tracked with epochs.  A thread's epoch counts its     *)
(* accesses to slots, a slot remembers the epochs of its last write and    *)
(* last read, a Release store carries the storing thread's epoch, and an   *)
(* Acquire load adds it to the loader's view of the other thread.  Two     *)
(* accesses to a slot race when the later thread's view has not reached    *)
(* the earlier access.                                                     *)
(*                                                                         *)
(* A definition named Mutant_... is a plausible fault in the definition    *)
(* that follows it; the specification does not use it.                     *)
(***************************************************************************)
EXTENDS Integers, Sequences

CONSTANTS Capacity,   \* number of slots
          Modulus,    \* 2^w for the target's w-bit usize
          Items,      \* the values that can be pushed
          NoItem,     \* the content of memory never written
          MaxPush     \* bound on successful pushes, for TLC

(***************************************************************************)
(* channel asserts that the capacity is not zero; it is a usize, and so    *)
(* below the modulus.                                                      *)
(***************************************************************************)
ASSUME RingAssumption ==
    /\ Capacity \in Nat \ {0}
    /\ Modulus \in Nat
    /\ Capacity < Modulus
    /\ MaxPush \in Nat
    /\ NoItem \notin Items

VARIABLES slots,      \* buffer: item, epoch of last write, epoch of last read
          tail,       \* modification order of tail, stored by the producer
          head,       \* modification order of head, stored by the consumer
          prod,       \* the producer thread, inside or outside try_push
          cons,       \* the consumer thread, inside or outside try_pop
          sent,       \* history: items accepted by try_push
          rcvd,       \* history: items returned by try_pop
          reclaimed   \* history: items destroyed by Inner::drop

vars == <<slots, tail, head, prod, cons, sent, rcvd, reclaimed>>
-------------------------------------------------------------------------------
\* usize arithmetic.
Idx(i) == i % Capacity
Mutant_PlainAdd1(i) == i + 1
WrappingAdd1(i) == (i + 1) % Modulus
WrappingSub(a, b) == (a - b) % Modulus

Last(order) == order[Len(order)].val

Mutant_StoreRelaxed(order, v, epoch) == Append(order, [val |-> v, view |-> 0])

\* store(v, Release) by a thread at the given epoch.
StoreRelease(order, v, epoch) == Append(order, [val |-> v, view |-> epoch])

Mutant_LoadRelaxed(view, msg) == view

\* load(Acquire) of a message by a thread that had the given view.
LoadAcquire(view, msg) == IF msg.view > view THEN msg.view ELSE view

Init ==
    /\ slots = [s \in 0 .. Capacity - 1 |-> [item |-> NoItem, wr |-> 0, rd |-> 0]]
    /\ tail = <<[val |-> 0, view |-> 0]>>
    /\ head = <<[val |-> 0, view |-> 0]>>
    /\ prod = [pc |-> "idle", item |-> NoItem, seen |-> 1, view |-> 0, epoch |-> 0]
    /\ cons = [pc |-> "idle", item |-> NoItem, seen |-> 1, view |-> 0, epoch |-> 0]
    /\ sent = <<>>
    /\ rcvd = <<>>
    /\ reclaimed = <<>>

Gone == prod.pc = "dropped" /\ cons.pc = "dropped"
-------------------------------------------------------------------------------
(***************************************************************************)
(* try_push.  The loads of tail (the producer's own counter) and of head   *)
(* are one step: nobody else stores to tail.                               *)
(***************************************************************************)
Mutant_FullTooLate(t, h) == WrappingSub(t, h) > Capacity
Mutant_KeepsOneFree(t, h) == WrappingSub(t, h) >= Capacity - 1
IsFull(t, h) == WrappingSub(t, h) >= Capacity

\* The producer enters try_push and its load of head reads message i.
LoadHead(i) ==
    /\ prod.pc = "idle"
    /\ Len(sent) < MaxPush
    /\ i \in prod.seen .. Len(head)

PushRejected(i) ==
    /\ LoadHead(i)
    /\ IsFull(Last(tail), head[i].val)
    /\ prod' = [prod EXCEPT !.seen = i, !.view = LoadAcquire(prod.view, head[i])]
    /\ UNCHANGED <<slots, tail, head, cons, sent, rcvd, reclaimed>>

PushAdmitted(item, i) ==
    /\ LoadHead(i)
    /\ ~IsFull(Last(tail), head[i].val)
    /\ prod' = [prod EXCEPT !.pc = "write", !.item = item, !.seen = i,
                            !.view = LoadAcquire(prod.view, head[i])]
    /\ UNCHANGED <<slots, tail, head, cons, sent, rcvd, reclaimed>>

\* The plain write of the slot.
PushWrite ==
    /\ prod.pc = "write"
    /\ slots' = [slots EXCEPT ![Idx(Last(tail))].item = prod.item,
                              ![Idx(Last(tail))].wr = prod.epoch + 1]
    /\ prod' = [prod EXCEPT !.pc = "publish", !.epoch = prod.epoch + 1]
    /\ UNCHANGED <<tail, head, cons, sent, rcvd, reclaimed>>

PushPublish ==
    /\ prod.pc = "publish"
    /\ tail' = StoreRelease(tail, WrappingAdd1(Last(tail)), prod.epoch)
    /\ sent' = Append(sent, prod.item)
    /\ prod' = [prod EXCEPT !.pc = "idle", !.item = NoItem]
    /\ UNCHANGED <<slots, head, cons, rcvd, reclaimed>>
-------------------------------------------------------------------------------
(***************************************************************************)
(* try_pop.                                                                *)
(***************************************************************************)
Mutant_EmptyByOrder(h, t) == h >= t
IsEmpty(h, t) == h = t

\* The consumer enters try_pop and its load of tail reads message i.
LoadTail(i) ==
    /\ cons.pc = "idle"
    /\ i \in cons.seen .. Len(tail)

PopEmpty(i) ==
    /\ LoadTail(i)
    /\ IsEmpty(Last(head), tail[i].val)
    /\ cons' = [cons EXCEPT !.seen = i, !.view = LoadAcquire(cons.view, tail[i])]
    /\ UNCHANGED <<slots, tail, head, prod, sent, rcvd, reclaimed>>

PopFound(i) ==
    /\ LoadTail(i)
    /\ ~IsEmpty(Last(head), tail[i].val)
    /\ cons' = [cons EXCEPT !.pc = "read", !.seen = i,
                            !.view = LoadAcquire(cons.view, tail[i])]
    /\ UNCHANGED <<slots, tail, head, prod, sent, rcvd, reclaimed>>

\* What the plain read of a slot may return: its item when the write of it
\* happens before the read, and anything at all otherwise.
ReadOutcomes(slot) ==
    IF slot.wr \in 1 .. cons.view THEN {slot.item} ELSE Items \cup {NoItem}

PopRead ==
    /\ cons.pc = "read"
    /\ \E item \in ReadOutcomes(slots[Idx(Last(head))]) :
          cons' = [cons EXCEPT !.pc = "publish", !.item = item, !.epoch = cons.epoch + 1]
    /\ slots' = [slots EXCEPT ![Idx(Last(head))].rd = cons.epoch + 1]
    /\ UNCHANGED <<tail, head, prod, sent, rcvd, reclaimed>>

Mutant_PopKeepsHead ==
    /\ cons.pc = "publish"
    /\ rcvd' = Append(rcvd, cons.item)
    /\ cons' = [cons EXCEPT !.pc = "idle", !.item = NoItem]
    /\ UNCHANGED <<slots, head, tail, prod, sent, reclaimed>>

PopPublish ==
    /\ cons.pc = "publish"
    /\ head' = StoreRelease(head, WrappingAdd1(Last(head)), cons.epoch)
    /\ rcvd' = Append(rcvd, cons.item)
    /\ cons' = [cons EXCEPT !.pc = "idle", !.item = NoItem]
    /\ UNCHANGED <<slots, tail, prod, sent, reclaimed>>
-------------------------------------------------------------------------------
(***************************************************************************)
(* Dropping the two ends.  Whoever is last runs Inner::drop; the reference *)
(* count orders it after everything both threads did, so it reads the last *)
(* value of each counter.                                                  *)
(***************************************************************************)
Mutant_PlainDrain ==
    [n \in 1 .. Last(tail) - Last(head) |-> slots[Idx(Last(head) + n - 1)].item]

Unpopped ==
    [n \in 1 .. WrappingSub(Last(tail), Last(head)) |->
        slots[Idx((Last(head) + n - 1) % Modulus)].item]

DropProducer ==
    /\ prod.pc = "idle"
    /\ prod' = [prod EXCEPT !.pc = "dropped"]
    /\ reclaimed' = IF cons.pc = "dropped" THEN Unpopped ELSE <<>>
    /\ UNCHANGED <<slots, tail, head, cons, sent, rcvd>>

DropConsumer ==
    /\ cons.pc = "idle"
    /\ cons' = [cons EXCEPT !.pc = "dropped"]
    /\ reclaimed' = IF prod.pc = "dropped" THEN Unpopped ELSE <<>>
    /\ UNCHANGED <<slots, tail, head, prod, sent, rcvd>>

Producer ==
    \/ \E i \in 1 .. Len(head) :
          PushRejected(i) \/ \E item \in Items : PushAdmitted(item, i)
    \/ PushWrite
    \/ PushPublish
    \/ DropProducer

Consumer ==
    \/ \E i \in 1 .. Len(tail) : PopEmpty(i) \/ PopFound(i)
    \/ PopRead
    \/ PopPublish
    \/ DropConsumer

\* Both ends are gone: nothing is left to happen.
Terminated == Gone /\ UNCHANGED vars

Next == Producer \/ Consumer \/ Terminated

Spec == Init /\ [][Next]_vars
-------------------------------------------------------------------------------
(***************************************************************************)
(* Fairness: a thread that entered an operation finishes it, and a thread  *)
(* that keeps polling eventually reads the newest message of a counter     *)
(* ("atomic stores become visible in a finite time").                      *)
(***************************************************************************)
PollNewest == PopFound(Len(tail))
RetryNewest == \E item \in Items : PushAdmitted(item, Len(head))

PollingConsumer == WF_vars(PollNewest) /\ WF_vars(PopRead) /\ WF_vars(PopPublish)
RetryingProducer == WF_vars(RetryNewest) /\ WF_vars(PushWrite) /\ WF_vars(PushPublish)

FairSpec == Spec /\ PollingConsumer /\ RetryingProducer
-------------------------------------------------------------------------------
Entry == Items \cup {NoItem}
Message == [val : 0 .. Modulus - 1, view : Nat]
Thread(pcs) ==
    [pc : pcs, item : Entry, seen : Nat, view : Nat, epoch : Nat]

\* Type correctness; the counters stay within usize.
TypeOK ==
    /\ slots \in [0 .. Capacity - 1 -> [item : Entry, wr : Nat, rd : Nat]]
    /\ tail \in Seq(Message) /\ Len(tail) > 0
    /\ head \in Seq(Message) /\ Len(head) > 0
    /\ prod \in Thread({"idle", "write", "publish", "dropped"})
    /\ cons \in Thread({"idle", "read", "publish", "dropped"})
    /\ sent \in Seq(Items)
    /\ rcvd \in Seq(Entry)
    /\ reclaimed \in Seq(Entry)

\* No two accesses to a slot race: when the producer is about to write, the
\* consumer's last read of the slot happens before it, and when the consumer
\* is about to read, the slot was written and that write happens before it.
\* This is what the SAFETY comments of Inner, try_push and try_pop claim.
NoDataRace ==
    /\ prod.pc = "write" => slots[Idx(Last(tail))].rd <= prod.view
    /\ cons.pc = "read" => slots[Idx(Last(head))].wr \in 1 .. cons.view

\* try_push never writes the slot of an accepted item whose pop has not been
\* published ("the consumer is not currently reading it").
NoOverwrite ==
    prod.pc = "write" =>
        \A n \in Len(rcvd) + 1 .. Len(sent) :
            Idx((n - 1) % Modulus) # Idx(Last(tail))

\* Every accepted item leaves exactly once and in order: popped, or destroyed
\* by Inner::drop (a leak or a double drop would break the equality).
ExactlyOnce == Gone => rcvd \o reclaimed = sent

\* A refusal is right of the counter it reads: try_push rejects an item only if
\* Capacity items were pushed since the pops that this head counts, and try_pop
\* answers None only if as many were popped as this tail counts, wrapped
\* counters or not; so all of the capacity is usable.  A late load reads an
\* older counter, and may then refuse although there is room, or an item.
RefusalsAreTrue ==
    /\ \A i \in 1 .. Len(head) :
          LoadHead(i) /\ IsFull(Last(tail), head[i].val) => Len(sent) = (i - 1) + Capacity
    /\ \A i \in 1 .. Len(tail) :
          LoadTail(i) /\ IsEmpty(Last(head), tail[i].val) => Len(rcvd) = i - 1

\* The ring implements the abstract queue.
Fifo == INSTANCE BoundedFifo WITH
            queue <- IF Gone THEN <<>> ELSE SubSeq(sent, Len(rcvd) + 1, Len(sent)),
            taken <- rcvd,
            discarded <- reclaimed,
            open <- ~Gone
FifoSpec == Fifo!Spec

\* Every accepted item is eventually popped by a consumer that keeps polling,
\* however late the loads of tail are.
Delivered ==
    \A n \in 1 .. MaxPush :
        Len(sent) >= n ~> (Len(rcvd) >= n \/ cons.pc = "dropped")

\* A producer that retries a rejected push gets all its items in, even
\* through a full ring and wrapped counters, unless an end is dropped.
RetrySucceeds ==
    <>(Len(sent) = MaxPush \/ prod.pc = "dropped" \/ cons.pc = "dropped")
-------------------------------------------------------------------------------
(***************************************************************************)
(* When the slot of a counter value is well defined.  tail % capacity      *)
(* keeps stepping by one slot when the counter wraps only if the capacity  *)
(* divides 2^w; before the first wrap any capacity will do.                *)
(***************************************************************************)
SlotMapSafe == Modulus % Capacity = 0 \/ MaxPush <= Modulus

(***************************************************************************)
(* The inductive invariant.                                                *)
(***************************************************************************)
\* The k-th message of a counter is the count k - 1, stored at epoch k - 1.
Counts(order, n) ==
    /\ Len(order) = n + 1
    /\ \A k \in 1 .. n + 1 : order[k] = [val |-> (k - 1) % Modulus, view |-> k - 1]

ProducerInv ==
    /\ prod.seen \in 1 .. Len(head)
    /\ prod.view = prod.seen - 1
    /\ prod.epoch = IF prod.pc = "publish" THEN Len(sent) + 1 ELSE Len(sent)
    /\ Len(sent) <= prod.view + Capacity
    /\ Len(sent) <= MaxPush
    /\ prod.pc \in {"write", "publish"} =>
          /\ prod.item \in Items
          /\ Len(sent) < prod.view + Capacity
          /\ Len(sent) < MaxPush

ConsumerInv ==
    /\ cons.seen \in 1 .. Len(tail)
    /\ cons.view = cons.seen - 1
    /\ cons.epoch = IF cons.pc = "publish" THEN Len(rcvd) + 1 ELSE Len(rcvd)
    /\ Len(rcvd) <= cons.view
    /\ cons.pc \in {"read", "publish"} => Len(rcvd) < cons.view
    /\ cons.pc = "publish" => cons.item = sent[Len(rcvd) + 1]

\* Slots hold the items in flight, and remember only reads of their own laps.
SlotInv ==
    /\ \A n \in Len(rcvd) + 1 .. Len(sent) :
          slots[Idx(n - 1)].item = sent[n] /\ slots[Idx(n - 1)].wr = n
    /\ prod.pc = "publish" =>
          /\ slots[Idx(Len(sent))].item = prod.item
          /\ slots[Idx(Len(sent))].wr = Len(sent) + 1
    /\ \A s \in 0 .. Capacity - 1 :
          slots[s].rd # 0 => slots[s].rd <= cons.epoch /\ Idx(slots[s].rd - 1) = s

HistoryInv ==
    /\ Len(rcvd) <= Len(sent)
    /\ \A n \in 1 .. Len(rcvd) : rcvd[n] = sent[n]
    /\ reclaimed = IF Gone THEN SubSeq(sent, Len(rcvd) + 1, Len(sent)) ELSE <<>>

IndInv ==
    /\ TypeOK
    /\ Counts(tail, Len(sent))
    /\ Counts(head, Len(rcvd))
    /\ ProducerInv
    /\ ConsumerInv
    /\ SlotInv
    /\ HistoryInv
=============================================================================
