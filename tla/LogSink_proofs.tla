---------------------------- MODULE LogSink_proofs ----------------------------
(***************************************************************************)
(* Proofs about LogSink for every ring, and whether or not drain_one       *)
(* panics.  What is known of the ring carries over, because every step of  *)
(* the sink is a step of the ring or leaves the ring alone.                *)
(***************************************************************************)
EXTENDS LogSink, SpscRing_proofs
-------------------------------------------------------------------------------
\* A step of the sink is a step of its ring.
LEMMA SinkStepIsRingStep ==
    ASSUME [SinkNext]_allVars
    PROVE  [Next]_vars
<1>1. CASE Spawn \/ StoreShutdown \/ Join \/ DrainOne \/ DrainOnePanics \/ SeeShutdown
              \/ SeeNoShutdown \/ Wake
  BY <1>1 DEF Spawn, StoreShutdown, Join, DrainOne, DrainOnePanics, SeeShutdown,
              SeeNoShutdown, Wake
<1>2. CASE SpawnFails \/ Unwind \/ DropFields \/ Exit
  BY <1>2 DEF SpawnFails, Unwind, DropFields, Exit, Next, Producer, Consumer
<1>3. CASE LogStarts \/ LogContinues
  BY <1>3 DEF LogStarts, LogContinues, Next, Producer
<1>4. CASE \E i \in 1 .. Len(tail) : PassFound(i) \/ PassEnds(i)
  BY <1>4 DEF PassFound, PassEnds, Next, Consumer
<1>5. CASE PassReads \/ PassPops
  BY <1>5 DEF PassReads, PassPops, Next, Consumer
<1>6. CASE SinkTerminated \/ UNCHANGED allVars
  BY <1>6 DEF SinkTerminated, allVars
<1> QED BY <1>1, <1>2, <1>3, <1>4, <1>5, <1>6 DEF SinkNext, Owner, Drainer

\* The sink keeps the protocol of its ring: one producer, one consumer,
\* neither used after it is dropped.
THEOREM SinkUsesRing == SinkSpec => Spec
<1>1. SinkInit => Init
  BY DEF SinkInit
<1>2. [SinkNext]_allVars => [Next]_vars
  BY SinkStepIsRingStep
<1> QED BY <1>1, <1>2, PTL DEF SinkSpec, Spec
-------------------------------------------------------------------------------
LEMMA SinkInitInv == SinkInit => SinkInv
<1> SUFFICES ASSUME SinkInit PROVE SinkInv
  OBVIOUS
<1>1. TypeOK
  BY InitIndInv DEF SinkInit, IndInv
<1>2. SinkTypeOK
  <2>1. <<>> \in Seq(Entry)
    OBVIOUS
  <2>2. /\ owner = "new" /\ shutdown = FALSE /\ drainer = "unspawned" /\ drained = FALSE
        /\ floor = 1 /\ panicked = FALSE /\ invoked = <<>>
    BY DEF SinkInit
  <2> QED BY <1>1, <2>1, <2>2 DEF SinkTypeOK
<1>3. OwnerInv /\ DrainerInv /\ InvokedInv
  BY DEF SinkInit, Init, OwnerInv, DrainerInv, InvokedInv, Handling
<1> QED BY <1>2, <1>3 DEF SinkInv

\* A step of the owner keeps the sink's invariant.
LEMMA OwnerSinkInv ==
    ASSUME IndInv, IndInv', SinkInv, Owner
    PROVE  SinkInv'
<1>1. TypeOK /\ TypeOK'
  BY DEF IndInv
<1>2. ASSUME Spawn PROVE SinkInv'
  BY <1>1, <1>2 DEF Spawn, SinkInv, SinkTypeOK, OwnerInv, DrainerInv, InvokedInv, Handling,
                    InPass, vars
<1>3. ASSUME SpawnFails PROVE SinkInv'
  <2>1. cons.pc = "idle" /\ cons'.pc = "dropped" /\ UNCHANGED <<tail, prod, sent, rcvd>>
    BY <1>1, <1>3 DEF SpawnFails, DropConsumer, TypeOK, Thread
  <2> QED BY <1>1, <1>3, <2>1 DEF SpawnFails, SinkInv, SinkTypeOK, OwnerInv, DrainerInv,
                                  InvokedInv, Handling, InPass
<1>4. ASSUME Unwind PROVE SinkInv'
  <2>1. prod.pc = "idle" /\ prod'.pc = "dropped" /\ UNCHANGED <<tail, cons, sent, rcvd>>
    BY <1>1, <1>4 DEF Unwind, DropProducer, TypeOK, Thread
  <2> QED BY <1>1, <1>4, <2>1 DEF Unwind, SinkInv, SinkTypeOK, OwnerInv, DrainerInv,
                                  InvokedInv, Handling, InPass
<1>5. ASSUME LogStarts PROVE SinkInv'
  <2>1. prod.pc = "idle" /\ prod'.pc \in {"idle", "write"} /\ UNCHANGED <<tail, cons, sent, rcvd>>
    BY <1>1, <1>5 DEF LogStarts, PushRejected, PushAdmitted, LoadHead, TypeOK, Thread
  <2> QED BY <1>1, <1>5, <2>1 DEF LogStarts, sinkVars, SinkInv, SinkTypeOK, OwnerInv,
                                  DrainerInv, InvokedInv, Handling, InPass
<1>6. ASSUME LogContinues PROVE SinkInv'
  <2>1. ~shutdown /\ drainer # "unspawned" /\ owner = "live" /\ UNCHANGED sinkVars
    BY <1>6 DEF LogContinues, SinkInv, OwnerInv
  <2>2. prod'.pc \in {"idle", "publish"} /\ prod.pc # "dropped" /\ UNCHANGED <<cons, rcvd>>
    BY <1>1, <1>6 DEF LogContinues, PushWrite, PushPublish, TypeOK, Thread
  <2>3. \A n \in 1 .. Len(invoked) : sent'[n] = sent[n]
    <3>1. CASE PushWrite
      BY <3>1 DEF PushWrite
    <3>2. CASE PushPublish
      <4>1. Len(invoked) <= Len(sent)
        BY Distances DEF SinkInv, SinkTypeOK, InvokedInv, Handling
      <4>2. sent' = Append(sent, prod.item) /\ sent \in Seq(Items) /\ prod.item \in Items
        BY <1>1, <3>2 DEF PushPublish, IndInv, ProducerInv, TypeOK
      <4> QED BY <4>1, <4>2, AppendProperties DEF SinkInv, SinkTypeOK
    <3> QED BY <1>6, <3>1, <3>2 DEF LogContinues
  <2> QED BY <1>1, <2>1, <2>2, <2>3 DEF sinkVars, SinkInv, SinkTypeOK, OwnerInv, DrainerInv,
                                        InvokedInv, Handling, InPass
<1>7. ASSUME StoreShutdown PROVE SinkInv'
  BY <1>1, <1>7 DEF StoreShutdown, SinkInv, SinkTypeOK, OwnerInv, DrainerInv, InvokedInv,
                    Handling, InPass, vars
<1>8. ASSUME Join PROVE SinkInv'
  BY <1>1, <1>8 DEF Join, SinkInv, SinkTypeOK, OwnerInv, DrainerInv, InvokedInv, Handling,
                    InPass, vars
<1>9. ASSUME DropFields PROVE SinkInv'
  <2>1. prod.pc = "idle" /\ prod'.pc = "dropped" /\ UNCHANGED <<tail, cons, sent, rcvd>>
    BY <1>1, <1>9 DEF DropFields, DropProducer, TypeOK, Thread
  <2> QED BY <1>1, <1>9, <2>1 DEF DropFields, SinkInv, SinkTypeOK, OwnerInv, DrainerInv,
                                  InvokedInv, Handling, InPass
<1> QED BY <1>2, <1>3, <1>4, <1>5, <1>6, <1>7, <1>8, <1>9 DEF Owner

\* A step of the drainer keeps the sink's invariant.
LEMMA DrainerSinkInv ==
    ASSUME IndInv, IndInv', SinkInv, Drainer
    PROVE  SinkInv'
<1>1. TypeOK /\ TypeOK'
  BY DEF IndInv
<1>2. ASSUME NEW i \in 1 .. Len(tail), PassFound(i) PROVE SinkInv'
  <2>1. cons.pc = "idle" /\ cons'.pc = "read" /\ UNCHANGED <<tail, prod, sent, rcvd>>
    BY <1>1, <1>2 DEF PassFound, PopFound, LoadTail, TypeOK, Thread
  <2> QED BY <1>1, <1>2, <2>1 DEF PassFound, sinkVars, SinkInv, SinkTypeOK, OwnerInv,
                                  DrainerInv, InvokedInv, Handling, InPass
<1>3. ASSUME PassReads PROVE SinkInv'
  <2>1. cons.pc = "read" /\ cons'.pc = "publish" /\ UNCHANGED <<tail, prod, sent, rcvd>>
    BY <1>1, <1>3 DEF PassReads, PopRead, TypeOK, Thread
  <2> QED BY <1>1, <1>3, <2>1 DEF PassReads, sinkVars, SinkInv, SinkTypeOK, OwnerInv,
                                  DrainerInv, InvokedInv, Handling, InPass
<1>4. ASSUME PassPops PROVE SinkInv'
  <2>1. cons.pc = "publish" /\ cons'.pc = "idle" /\ UNCHANGED <<tail, prod, sent>>
    BY <1>1, <1>4 DEF PassPops, PopPublish, TypeOK, Thread
  <2>2. Len(rcvd') = Len(rcvd) + 1
    BY <1>1, <1>4 DEF PassPops, PopPublish, TypeOK, Thread
  <2>3. Len(sent') - Len(rcvd') < Capacity
    <3>1. Len(sent) \in Nat /\ Len(rcvd) \in Nat /\ Len(sent) - Len(rcvd) <= Capacity
      BY Distances
    <3> QED BY <2>1, <2>2, <3>1, Moduli
  <2> QED BY <1>1, <1>4, <2>1, <2>2, <2>3 DEF PassPops, SinkInv, SinkTypeOK, OwnerInv, DrainerInv,
                                        InvokedInv, Handling, InPass
<1>5. ASSUME NEW i \in 1 .. Len(tail), PassEnds(i) PROVE SinkInv'
  <2>1. /\ cons.pc = "idle" /\ cons'.pc = "idle" /\ UNCHANGED <<tail, prod, sent, rcvd>>
        /\ i \in cons.seen .. Len(tail) /\ Len(rcvd) = i - 1
    <3>1. i \in cons.seen .. Len(tail) /\ IsEmpty(Last(head), tail[i].val)
      BY <1>5 DEF PassEnds, PopEmpty, LoadTail
    <3>2. Len(rcvd) = i - 1
      BY <3>1, EmptyTest, i \in Nat
    <3> QED BY <1>1, <1>5, <3>1, <3>2 DEF PassEnds, PopEmpty, LoadTail, TypeOK, Thread
  <2>2. drainer = "flush" => shutdown /\ Len(rcvd) = Len(sent)
    BY <1>5, <2>1, Distances DEF PassEnds, SinkInv, SinkTypeOK, DrainerInv
  <2> QED BY <1>1, <1>5, <2>1, <2>2 DEF PassEnds, SinkInv, SinkTypeOK, OwnerInv, DrainerInv,
                                        InvokedInv, Handling, InPass
<1>6. ASSUME Handling
      PROVE  /\ Append(invoked, Event) \in Seq(Entry)
             /\ Len(Append(invoked, Event)) = Len(rcvd)
             /\ \A n \in 1 .. Len(rcvd) : Append(invoked, Event)[n] = sent[n]
             /\ Len(rcvd) \in 1 .. Len(sent)
  <2>1. /\ invoked \in Seq(Entry) /\ rcvd \in Seq(Entry) /\ Len(rcvd) = Len(invoked) + 1
        /\ \A n \in 1 .. Len(invoked) : invoked[n] = sent[n]
    BY <1>1, <1>6 DEF SinkInv, SinkTypeOK, InvokedInv, TypeOK
  <2>2. Event \in Entry /\ Event = sent[Len(rcvd)]
    BY <2>1 DEF Event, IndInv, HistoryInv
  <2>3. Len(rcvd) \in 1 .. Len(sent)
    BY <2>1, Distances
  <2> QED BY <2>1, <2>2, <2>3, AppendProperties
<1>7. ASSUME DrainOne PROVE SinkInv'
  BY <1>1, <1>6, <1>7 DEF DrainOne, vars, SinkInv, SinkTypeOK, OwnerInv, DrainerInv,
                          InvokedInv, Handling, InPass
<1>8. ASSUME DrainOnePanics PROVE SinkInv'
  BY <1>1, <1>6, <1>8 DEF DrainOnePanics, vars, SinkInv, SinkTypeOK, OwnerInv, DrainerInv,
                          InvokedInv, Handling, InPass
<1>9. ASSUME SeeShutdown PROVE SinkInv'
  BY <1>1, <1>9 DEF SeeShutdown, vars, SinkInv, SinkTypeOK, OwnerInv, DrainerInv, InvokedInv,
                    Handling, InPass, TypeOK
<1>10. ASSUME SeeNoShutdown PROVE SinkInv'
  BY <1>1, <1>10 DEF SeeNoShutdown, vars, SinkInv, SinkTypeOK, OwnerInv, DrainerInv, InvokedInv,
                     Handling, InPass
<1>11. ASSUME Wake PROVE SinkInv'
  BY <1>1, <1>11 DEF Wake, vars, SinkInv, SinkTypeOK, OwnerInv, DrainerInv, InvokedInv,
                     Handling, InPass
<1>12. ASSUME Exit PROVE SinkInv'
  <2>1. cons.pc = "idle" /\ cons'.pc = "dropped" /\ UNCHANGED <<tail, prod, sent, rcvd>>
    BY <1>1, <1>12 DEF Exit, DropConsumer, TypeOK, Thread
  <2> QED BY <1>1, <1>12, <2>1 DEF Exit, SinkInv, SinkTypeOK, OwnerInv, DrainerInv, InvokedInv,
                                   Handling, InPass
<1> QED BY <1>2, <1>3, <1>4, <1>5, <1>7, <1>8, <1>9, <1>10, <1>11, <1>12 DEF Drainer

LEMMA StutterSinkInv ==
    ASSUME SinkInv, UNCHANGED allVars
    PROVE  SinkInv'
  BY DEF allVars, vars, sinkVars, SinkInv, SinkTypeOK, TypeOK, OwnerInv, DrainerInv, InvokedInv,
         Handling, InPass

\* The sink keeps its invariant, and the ring's.
THEOREM SinkInductive ==
    ASSUME SlotMapSafe
    PROVE  SinkSpec => [](IndInv /\ SinkInv)
<1>1. SinkInit => SinkInv
  BY SinkInitInv
<1>2. IndInv /\ IndInv' /\ SinkInv /\ [SinkNext]_allVars => SinkInv'
  BY OwnerSinkInv, DrainerSinkInv, StutterSinkInv DEF SinkNext, SinkTerminated
<1>3. SinkSpec => []IndInv
  BY SinkUsesRing, Inductive, PTL
<1> QED BY <1>1, <1>2, <1>3, PTL DEF SinkSpec

\* The sink's state is well typed.
THEOREM SinkTypeCorrect ==
    ASSUME SlotMapSafe
    PROVE  SinkSpec => []SinkTypeOK
<1>1. SinkInv => SinkTypeOK
  BY DEF SinkInv
<1> QED BY <1>1, SinkInductive, PTL

\* After drop's join has returned the drainer takes no step.
THEOREM NothingRunsAfterDrop ==
    ASSUME SlotMapSafe
    PROVE  SinkSpec => QuietAfterDrop
<1>1. ASSUME SinkInv, [SinkNext]_allVars, owner \in {"joined", "dropped"}
      PROVE  UNCHANGED <<drainer, cons, head, invoked>>
  <2>1. drainer = "exited"
    BY <1>1 DEF SinkInv, OwnerInv
  <2>2. ~Drainer
    BY <2>1 DEF Drainer, InPass, PassFound, PassEnds, PassReads, PassPops, DrainOne,
                DrainOnePanics, SeeShutdown, SeeNoShutdown, Wake, Exit
  <2>3. CASE Owner
    BY <1>1, <2>3 DEF Owner, Spawn, SpawnFails, Unwind, LogStarts, LogContinues, StoreShutdown,
                      Join, DropFields, DropProducer
  <2>4. CASE SinkTerminated \/ UNCHANGED allVars
    BY <2>4 DEF SinkTerminated, allVars, vars, sinkVars
  <2> QED BY <1>1, <2>2, <2>3, <2>4 DEF SinkNext
<1>2. SinkInv /\ [SinkNext]_allVars =>
        [(owner \in {"joined", "dropped"}) => UNCHANGED <<drainer, cons, head, invoked>>]_allVars
  BY <1>1
<1> QED BY <1>2, SinkInductive, PTL DEF SinkSpec, QuietAfterDrop

\* Once the drainer has seen the shutdown flag only its last pass is left: no
\* step adds to it, each step of the drainer shortens it, and a full ring bounds
\* it, so that join cannot wait longer than Capacity calls of drain_one.
THEOREM LastPassIsBounded ==
    ASSUME SlotMapSafe
    PROVE  SinkSpec => LastPassEnds
<1> DEFINE L == Len(sent) - Len(rcvd)
           Shorter == /\ Finishing' \/ drainer' = "exited"
                      /\ StepsLeft' <= StepsLeft
                      /\ UNCHANGED <<drainer, cons>> \/ StepsLeft' < StepsLeft
<1>1. ASSUME IndInv, SinkInv, Finishing
      PROVE  StepsLeft \in Int /\ StepsLeft <= 4 * Capacity + 2
  <2>1. L \in 0 .. Capacity /\ Len(sent) \in Nat /\ Len(rcvd) \in Nat
    BY <1>1, Distances, Moduli
  <2>2. drainer = "flushHandle" => L <= Capacity - 1
    BY <1>1, <2>1, Moduli DEF SinkInv, DrainerInv
  <2>3. cons.pc \in {"idle", "read", "publish", "dropped"}
    BY <1>1 DEF IndInv, TypeOK, Thread
  <2> QED BY <1>1, <2>1, <2>2, <2>3, Moduli DEF Finishing, StepsLeft
<1>2. ASSUME IndInv, SinkInv, Finishing, SinkNext
      PROVE  Shorter
  <2>1. /\ shutdown \/ panicked
        /\ drainer \in {"flush", "flushHandle"} => owner = "joining"
        /\ owner \notin {"new", "unwinding", "failed", "joined", "dropped"}
    BY <1>2 DEF SinkInv, OwnerInv, DrainerInv, Finishing, SinkTypeOK
  <2>2. /\ Len(sent) \in Nat /\ Len(rcvd) \in Nat
        /\ cons \in Thread({"idle", "read", "publish", "dropped"})
        /\ rcvd \in Seq(Entry)
    BY <1>2 DEF IndInv, TypeOK
  <2>3. CASE Owner
    <3>1. CASE drainer = "exiting"
      <4>1. UNCHANGED <<drainer, cons>>
        BY <2>1, <2>3 DEF Owner, Spawn, SpawnFails, Unwind, LogStarts, LogContinues,
              StoreShutdown, Join, DropFields, PushRejected, PushAdmitted, PushWrite,
              PushPublish, vars, sinkVars
      <4> QED BY <3>1, <4>1 DEF Finishing, StepsLeft
    <3>2. CASE drainer \in {"flush", "flushHandle"}
      <4>1. owner = "joining"
        BY <2>1, <3>2
      <4>2. FALSE
        BY <2>3, <3>2, <4>1 DEF Owner, Spawn, SpawnFails, Unwind, LogStarts, LogContinues,
              StoreShutdown, Join, DropFields
      <4> QED BY <4>2
    <3> QED BY <1>2, <3>1, <3>2 DEF Finishing
  <2>4. ASSUME NEW i \in 1 .. Len(tail), PassFound(i)
        PROVE  Shorter
    <3>1. /\ drainer = "flush" /\ drainer' = drainer /\ UNCHANGED <<sent, rcvd>>
          /\ cons.pc = "idle" /\ cons'.pc = "read"
      BY <1>2, <2>2, <2>4 DEF PassFound, InPass, PopFound, LoadTail, sinkVars, Finishing, Thread
    <3> QED BY <2>2, <3>1 DEF Finishing, StepsLeft
  <2>5. ASSUME NEW i \in 1 .. Len(tail), PassEnds(i)
        PROVE  Shorter
    <3>1. /\ drainer = "flush" /\ drainer' = "exiting" /\ cons.pc = "idle"
      BY <1>2, <2>5 DEF PassEnds, InPass, PopEmpty, LoadTail, Finishing
    <3>2. Len(rcvd) <= Len(sent)
      BY <1>2, Distances
    <3> QED BY <2>2, <3>1, <3>2 DEF Finishing, StepsLeft
  <2>6. ASSUME PassReads
        PROVE  Shorter
    <3>1. /\ drainer = "flush" /\ drainer' = drainer /\ UNCHANGED <<sent, rcvd>>
          /\ cons.pc = "read" /\ cons'.pc = "publish"
      BY <1>2, <2>2, <2>6 DEF PassReads, InPass, PopRead, sinkVars, Finishing, Thread
    <3> QED BY <2>2, <3>1 DEF Finishing, StepsLeft
  <2>7. ASSUME PassPops
        PROVE  Shorter
    <3>1. /\ drainer = "flush" /\ drainer' = "flushHandle" /\ UNCHANGED sent
          /\ cons.pc = "publish" /\ rcvd' = Append(rcvd, cons.item)
      BY <1>2, <2>7 DEF PassPops, InPass, PopPublish, Finishing
    <3>2. Len(rcvd') = Len(rcvd) + 1
      BY <2>2, <3>1
    <3> QED BY <2>2, <3>1, <3>2 DEF Finishing, StepsLeft
  <2>8. ASSUME DrainOne
        PROVE  Shorter
    <3>1. /\ drainer = "flushHandle" /\ drainer' = "flush" /\ UNCHANGED <<sent, rcvd, cons>>
      BY <1>2, <2>8 DEF DrainOne, Finishing, vars
    <3>2. cons.pc = "idle" \/ cons.pc = "dropped"
      BY <1>2, <2>2, <3>1 DEF SinkInv, DrainerInv, InPass, Thread
    <3>3. Len(rcvd) <= Len(sent)
      BY <1>2, Distances
    <3> QED BY <2>2, <3>1, <3>2, <3>3 DEF Finishing, StepsLeft
  <2>9. ASSUME DrainOnePanics
        PROVE  Shorter
    <3>1. /\ drainer = "flushHandle" /\ drainer' = "exiting"
      BY <1>2, <2>9 DEF DrainOnePanics, Finishing
    <3>2. Len(rcvd) <= Len(sent)
      BY <1>2, Distances
    <3> QED BY <2>2, <3>1, <3>2 DEF Finishing, StepsLeft
  <2>10. ASSUME Exit
         PROVE  Shorter
    BY <2>10 DEF Exit, Finishing, StepsLeft
  <2>11. ~SeeShutdown /\ ~SeeNoShutdown /\ ~Wake
    BY <1>2 DEF Finishing, SeeShutdown, SeeNoShutdown, Wake
  <2>12. ~SinkTerminated
    BY <2>1 DEF SinkTerminated
  <2> HIDE DEF Shorter
  <2> QED BY <1>2, <2>3, <2>4, <2>5, <2>6, <2>7, <2>8, <2>9, <2>10, <2>11, <2>12
          DEF SinkNext, Drainer
<1>3. IndInv /\ SinkInv /\ [SinkNext]_allVars =>
        [Finishing =>
            /\ Finishing' \/ drainer' = "exited"
            /\ StepsLeft <= 4 * Capacity + 2
            /\ StepsLeft' <= StepsLeft
            /\ UNCHANGED <<drainer, cons>> \/ StepsLeft' < StepsLeft]_allVars
  BY <1>1, <1>2
<1> QED BY <1>3, SinkInductive, PTL DEF SinkSpec, LastPassEnds
-------------------------------------------------------------------------------
\* Unless drain_one panicked, it has been invoked for every event logged, in
\* order and once, before dropping the sink returns.
THEOREM FlushedOnDrop ==
    ASSUME SlotMapSafe
    PROVE  SinkSpec => []FlushedUnlessPanicked
<1>1. ASSUME IndInv, SinkInv, owner \in {"joined", "dropped"}, ~panicked
      PROVE  invoked = sent
  <2>1. drainer = "exited" /\ Len(rcvd) = Len(sent) /\ Len(invoked) = Len(rcvd)
    BY <1>1 DEF SinkInv, OwnerInv, DrainerInv, InvokedInv, Handling
  <2>2. invoked \in Seq(Entry) /\ sent \in Seq(Entry)
    BY <1>1 DEF SinkInv, SinkTypeOK, TypeOK, Entry
  <2>3. \A n \in 1 .. Len(invoked) : invoked[n] = sent[n]
    BY <1>1 DEF SinkInv, InvokedInv
  <2> QED BY <2>1, <2>2, <2>3, SeqEqual
<1>2. IndInv /\ SinkInv => FlushedUnlessPanicked
  BY <1>1 DEF FlushedUnlessPanicked
<1> QED BY <1>2, SinkInductive, PTL

\* What log.rs:88 promises of every event holds of a drain_one that does not
\* panic: a panic is the only way an event is left behind.
THEOREM InvokedUnlessItMayPanic ==
    ASSUME SlotMapSafe, ~MayPanic
    PROVE  SinkSpec => []InvokedForAll
<1>1. SinkInv /\ FlushedUnlessPanicked => InvokedForAll
  BY DEF SinkInv, DrainerInv, FlushedUnlessPanicked, InvokedForAll
<1> QED BY <1>1, SinkInductive, FlushedOnDrop, PTL

\* A queue that has not taken Capacity events never turns one away, however old
\* the head is that log reads: what DelayPlugin assumes of its sink.
THEOREM NoEarlyRefusal ==
    ASSUME SlotMapSafe
    PROVE  SinkSpec => [](\A i \in 1 .. Len(head) :
                              LoadHead(i) /\ IsFull(Last(tail), head[i].val)
                                  => Len(sent) >= Capacity)
<1>1. ASSUME RefusalsAreTrue, NEW i \in 1 .. Len(head), LoadHead(i),
             IsFull(Last(tail), head[i].val)
      PROVE  Len(sent) >= Capacity
  <2>1. Len(sent) = (i - 1) + Capacity
    BY <1>1 DEF RefusalsAreTrue
  <2> QED BY <2>1, i \in Nat, i >= 1, Moduli
<1>2. RefusalsAreTrue => \A i \in 1 .. Len(head) :
                             LoadHead(i) /\ IsFull(Last(tail), head[i].val)
                                 => Len(sent) >= Capacity
  BY <1>1
<1> QED BY <1>2, SinkUsesRing, RefusesTruly, PTL

\* Every step of the sink is a step of the abstract log or leaves it alone.
LEMMA EventLogStep ==
    ASSUME SlotMapSafe, IndInv, SinkInv, [SinkNext]_allVars
    PROVE  [Log!Next]_(Log!vars)
<1> USE DEF Log!Next, Log!vars
<1>1. /\ sent \in Seq(Items) /\ Len(sent) \in Nat /\ Len(rcvd) \in Nat /\ Len(invoked) \in Nat
      /\ Len(rcvd) <= Len(sent) /\ Len(invoked) <= Len(rcvd) /\ Len(rcvd) <= Len(invoked) + 1
  BY Distances DEF IndInv, TypeOK, SinkInv, SinkTypeOK, InvokedInv, Handling
<1>2. CASE Spawn \/ SpawnFails \/ StoreShutdown \/ SeeShutdown \/ SeeNoShutdown \/ Wake \/ Exit
  BY <1>2 DEF Spawn, SpawnFails, StoreShutdown, SeeShutdown, SeeNoShutdown, Wake, Exit,
              DropConsumer, vars
<1>3. CASE Unwind
  <2>1. /\ sent = <<>> /\ sent' = sent /\ invoked' = invoked /\ panicked' = panicked
        /\ owner = "unwinding" /\ owner' = "failed"
    BY <1>3 DEF Unwind, DropProducer, SinkInv, OwnerInv
  <2>2. Len(sent) < Len(invoked) + 1
    BY <1>1, <2>1
  <2>3. SubSeq(sent, Len(invoked) + 1, Len(sent)) = <<>>
    BY <1>1, <2>2
  <2> QED BY <2>1, <2>3 DEF Log!Close
<1>4. CASE LogStarts
  BY <1>4 DEF LogStarts, sinkVars, PushRejected, PushAdmitted
<1>5. CASE LogContinues
  <2>1. CASE PushWrite
    BY <1>5, <2>1 DEF LogContinues, sinkVars, PushWrite
  <2>2. CASE PushPublish
    <3>1. /\ prod.item \in Items /\ Len(sent) < prod.view + Capacity /\ prod.view \in Nat
          /\ sent' = Append(sent, prod.item)
      BY <2>2 DEF PushPublish, IndInv, ProducerInv, TypeOK, Thread
    <3>2. Len(sent') = Len(sent) + 1
      BY <1>1, <3>1, AppendProperties
    <3>3. SubSeq(sent', Len(invoked) + 1, Len(sent'))
            = Append(SubSeq(sent, Len(invoked) + 1, Len(sent)), prod.item)
      <4>1. Len(invoked) <= Len(sent)
        BY <1>1
      <4>2. SubSeq(Append(sent, prod.item), Len(invoked) + 1, Len(sent) + 1)
              = Append(SubSeq(sent, Len(invoked) + 1, Len(sent)), prod.item)
        BY <1>1, <3>1, <4>1, SuffixAppend
      <4> QED BY <3>1, <3>2, <4>2
    <3>4. Len(SubSeq(sent, Len(invoked) + 1, Len(sent))) < Capacity + 1
      <4>1. Len(SubSeq(sent, Len(invoked) + 1, Len(sent))) = Len(sent) - Len(invoked)
        BY <1>1
      <4>2. Len(sent) < Len(rcvd) + Capacity
        BY <1>1, <3>1, Distances, RingAssumption
      <4> QED BY <1>1, <4>1, <4>2, RingAssumption
    <3>5. owner = "live" /\ owner' = owner /\ invoked' = invoked /\ panicked' = panicked
      BY <1>5 DEF LogContinues, sinkVars
    <3>6. Log!Accept(prod.item)
      BY <3>3, <3>4, <3>5 DEF Log!Accept
    <3> QED BY <3>1, <3>6
  <2> QED BY <1>5, <2>1, <2>2 DEF LogContinues
<1>6. CASE Join
  <2>1. /\ drainer = "exited" /\ owner = "joining" /\ owner' = "joined"
        /\ UNCHANGED <<sent, invoked, panicked>>
    BY <1>6 DEF Join, vars
  <2>2. panicked \/ Len(invoked) = Len(sent)
    BY <2>1 DEF SinkInv, DrainerInv, InvokedInv, Handling
  <2>3. Len(invoked) = Len(sent) => SubSeq(sent, Len(invoked) + 1, Len(sent)) = <<>>
    BY <1>1
  <2> QED BY <2>1, <2>2, <2>3 DEF Log!Close
<1>7. CASE DropFields
  BY <1>7 DEF DropFields, DropProducer
<1>8. CASE \E i \in 1 .. Len(tail) : PassFound(i) \/ PassEnds(i)
  BY <1>8 DEF PassFound, PassEnds, sinkVars, PopFound, PopEmpty
<1>9. CASE PassReads \/ PassPops
  BY <1>9 DEF PassReads, PassPops, sinkVars, PopRead, PopPublish
<1>10. CASE DrainOne \/ DrainOnePanics
  <2>1. /\ Handling /\ invoked' = Append(invoked, Event) /\ UNCHANGED <<sent, owner>>
        /\ panicked' \in {FALSE, MayPanic} /\ ~panicked
        /\ owner \notin {"joined", "dropped", "failed"}
    <3>1. /\ drainer \in {"handle", "flushHandle"} /\ invoked' = Append(invoked, Event)
          /\ UNCHANGED <<sent, owner>>
      BY <1>10 DEF DrainOne, DrainOnePanics, vars
    <3>2. ~panicked /\ panicked \in BOOLEAN /\ owner \notin {"joined", "dropped", "failed"}
      BY <3>1 DEF SinkInv, SinkTypeOK, OwnerInv, DrainerInv
    <3>3. panicked' \in {FALSE, MayPanic}
      <4>1. CASE DrainOne
        BY <3>2, <4>1 DEF DrainOne
      <4>2. CASE DrainOnePanics
        BY <4>2, LogAssumption DEF DrainOnePanics
      <4> QED BY <1>10, <4>1, <4>2
    <3> QED BY <3>1, <3>2, <3>3 DEF Handling
  <2>2. Len(rcvd) = Len(invoked) + 1
    BY <2>1 DEF SinkInv, InvokedInv
  <2>3. Event = sent[Len(invoked) + 1] /\ Event \in Entry
    BY <1>1, <2>2 DEF Event, IndInv, HistoryInv, TypeOK
  <2>4. Len(invoked') = Len(invoked) + 1
    <3>1. invoked \in Seq(Entry) /\ Event \in Entry
      BY <2>3 DEF SinkInv, SinkTypeOK
    <3> QED BY <2>1, <3>1, AppendProperties
  <2>5. /\ SubSeq(sent, Len(invoked) + 1, Len(sent)) # <<>>
        /\ Head(SubSeq(sent, Len(invoked) + 1, Len(sent))) = Event
        /\ Tail(SubSeq(sent, Len(invoked) + 1, Len(sent))) = SubSeq(sent, Len(invoked) + 2, Len(sent))
    <3>1. Len(invoked) < Len(sent)
      BY <1>1, <2>2
    <3> QED BY <1>1, <2>3, <3>1, SuffixHeadTail
  <2>6. SubSeq(sent', Len(invoked') + 1, Len(sent')) = SubSeq(sent, Len(invoked) + 2, Len(sent))
    <3>1. Len(invoked') + 1 = Len(invoked) + 2
      BY <1>1, <2>4
    <3> QED BY <2>1, <3>1
  <2> QED BY <2>1, <2>5, <2>6 DEF Log!Deliver
<1>11. CASE SinkTerminated \/ UNCHANGED allVars
  BY <1>11 DEF SinkTerminated, allVars, vars, sinkVars
<1> QED BY <1>2, <1>3, <1>4, <1>5, <1>6, <1>7, <1>8, <1>9, <1>10, <1>11
        DEF SinkNext, Owner, Drainer

\* The sink implements EventLog: events reach drain_one once each and in
\* order, and dropping it leaves none behind unless drain_one panicked.
THEOREM SinkIsEventLog ==
    ASSUME SlotMapSafe
    PROVE  SinkSpec => EventLogSpec
<1>1. SinkInit => Log!Init
  <2>1. SubSeq(<<>>, Len(<<>>) + 1, Len(<<>>)) = <<>>
    OBVIOUS
  <2> QED BY <2>1 DEF SinkInit, Init, Log!Init
<1>2. IndInv /\ SinkInv /\ [SinkNext]_allVars => [Log!Next]_(Log!vars)
  BY EventLogStep
<1> QED BY <1>1, <1>2, SinkInductive, PTL DEF SinkSpec, EventLogSpec, Log!Spec
=============================================================================
