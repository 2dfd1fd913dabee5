----------------------------- MODULE Delay_proofs -----------------------------
(***************************************************************************)
(* Proofs about DelayLine for every buffer length, every set of delays and *)
(* controls and any number of frames, runs and activates; and, at the end, *)
(* about DelayPlugin for every sample rate and whatever the host writes.   *)
(***************************************************************************)
EXTENDS DelayPlugin, ModArith, SequenceTheorems
-------------------------------------------------------------------------------
(***************************************************************************)
(* Arithmetic on samples.                                                  *)
(***************************************************************************)
\* Sums, shares and blends of samples are samples.
LEMMA SampleClosed ==
    ASSUME NEW a \in Sample, NEW b \in Sample, NEW p \in Sample
    PROVE  Plus(a, b) \in Sample /\ Percent(p, a) \in Sample /\ Blend(p, a, b) \in Sample
<1>1. Plus(a, b) \in Sample
  BY DEF Plus, Sample
<1>2. Percent(p, a) \in Sample
  <2>1. CASE NaN \in {p, a}
    BY <2>1 DEF Percent, Sample
  <2>2. CASE NaN \notin {p, a}
    <3>1. p \in Int /\ a \in Int
      BY <2>2 DEF Sample
    <3>2. p * a \in Int
      BY <3>1
    <3>3. (p * a) \div 100 \in Int
      BY <3>2, ModDef
    <3> QED BY <2>2, <3>3 DEF Percent, Sample
  <2> QED BY <2>1, <2>2
<1>3. Blend(p, a, b) \in Sample
  <2>1. CASE NaN \in {p, a, b}
    BY <2>1 DEF Blend, Sample
  <2>2. CASE NaN \notin {p, a, b}
    <3>1. p \in Int /\ a \in Int /\ b \in Int
      BY <2>2 DEF Sample
    <3>2. (100 - p) * a + p * b \in Int
      BY <3>1
    <3>3. ((100 - p) * a + p * b) \div 100 \in Int
      BY <3>2, ModDef
    <3> QED BY <2>2, <3>3 DEF Blend, Sample
  <2> QED BY <2>1, <2>2
<1> QED BY <1>1, <1>2, <1>3

\* A share is monotone in what it is a share of.
LEMMA ShareMonotone ==
    ASSUME NEW p \in Nat, NEW s \in Int, NEW t \in Int, s <= t
    PROVE  p * s <= p * t
<1>1. p * (t - s) >= 0
  OBVIOUS
<1>2. p * (t - s) = p * t - p * s
  OBVIOUS
<1> QED BY <1>1, <1>2

\* Dividing by 100 divides bounds that are multiples of 100.
LEMMA HundredthBound ==
    ASSUME NEW e \in Int, NEW b \in Int, -(100 * b) <= e, e <= 100 * b
    PROVE  -b <= e \div 100 /\ e \div 100 <= b
  OBVIOUS

\* At most 95% of something within 20 peaks is within 19 peaks.
LEMMA PercentBound ==
    ASSUME NEW p \in 0 .. 95, NEW s \in Within(Loud)
    PROVE  /\ Percent(p, s) \in Int
           /\ -(19 * Peak) <= Percent(p, s)
           /\ Percent(p, s) <= 19 * Peak
<1>1. s \in Int /\ -(20 * Peak) <= s /\ s <= 20 * Peak
  BY DEF Within, Sample, Loud
<1>2. Peak \in Nat /\ p \in Nat /\ p \in Int
  BY DelayAssumption
<1> DEFINE L == 20 * Peak
<1>3. p * s <= p * L /\ p * (-L) <= p * s
  BY <1>1, <1>2, ShareMonotone
<1>4. p * L <= 95 * L /\ -(95 * L) <= p * (-L)
  BY <1>2
<1>5. p * s \in Int /\ 19 * Peak \in Int /\ 95 * L = 100 * (19 * Peak)
  BY <1>1, <1>2
<1>6. -(100 * (19 * Peak)) <= p * s /\ p * s <= 100 * (19 * Peak)
  BY <1>1, <1>2, <1>3, <1>4, <1>5
<1>7. -(19 * Peak) <= (p * s) \div 100 /\ (p * s) \div 100 <= 19 * Peak
  BY <1>5, <1>6, HundredthBound
<1>8. (p * s) \div 100 \in Int
  BY <1>5, ModDef
<1>9. Percent(p, s) = (p * s) \div 100
  BY <1>1, <1>2, NaNAssumption DEF Percent
<1> QED BY <1>7, <1>8, <1>9

\* A blend of two samples within a limit is within it.
LEMMA BlendBound ==
    ASSUME NEW m \in 0 .. 100, NEW x \in Within(Loud), NEW d \in Within(Loud)
    PROVE  Blend(m, x, d) \in Within(Loud)
<1>1. /\ x \in Int /\ -(20 * Peak) <= x /\ x <= 20 * Peak
      /\ d \in Int /\ -(20 * Peak) <= d /\ d <= 20 * Peak
  BY DEF Within, Sample, Loud
<1>2. Peak \in Nat /\ m \in Nat /\ m \in Int /\ 100 - m \in Nat
  BY DelayAssumption
<1> DEFINE L == 20 * Peak
           e == (100 - m) * x + m * d
<1>3. L \in Int /\ -L \in Int
  BY <1>2
<1>4. (100 - m) * x <= (100 - m) * L /\ (100 - m) * (-L) <= (100 - m) * x
  BY <1>1, <1>2, <1>3, ShareMonotone
<1>5. m * d <= m * L /\ m * (-L) <= m * d
  BY <1>1, <1>2, <1>3, ShareMonotone
<1>6. (100 - m) * L + m * L = 100 * L /\ (100 - m) * (-L) + m * (-L) = -(100 * L)
  BY <1>2, <1>3
<1>7. e \in Int /\ (100 - m) * x \in Int /\ m * d \in Int
  BY <1>1, <1>2
<1>8. -(100 * L) <= e /\ e <= 100 * L
  <2> HIDE DEF L
  <2>1. (100 - m) * L \in Int /\ m * L \in Int /\ (100 - m) * (-L) \in Int /\ m * (-L) \in Int
    BY <1>2, <1>3
  <2> QED BY <2>1, <1>3, <1>4, <1>5, <1>6, <1>7
<1>9. -L <= e \div 100 /\ e \div 100 <= L
  BY <1>3, <1>7, <1>8, HundredthBound
<1>10. e \div 100 \in Int
  BY <1>7, ModDef
<1>11. Blend(m, x, d) = e \div 100
  BY <1>1, <1>2, NaNAssumption DEF Blend
<1>12. Blend(m, x, d) # NaN
  BY <1>10, <1>11, NaNAssumption
<1> QED BY <1>9, <1>10, <1>11, <1>12 DEF Within, Sample, Loud
-------------------------------------------------------------------------------
(***************************************************************************)
(* Type correctness and the contents of the buffer.                        *)
(***************************************************************************)
\* The slots are the remainders of counts.
LEMMA SlotOf ==
    /\ BufferLen \in Nat \ {0}
    /\ \A n \in Int : n % BufferLen \in Slots
  BY DelayAssumption, ModDef DEF Slots

\* The read index is the slot of the count `delay` behind.
LEMMA ReadIs ==
    ASSUME NEW n \in Int, NEW d \in Int
    PROVE  ((n % BufferLen) + BufferLen - d) % BufferLen = (n - d) % BufferLen
<1> DEFINE q == n \div BufferLen
           r == n % BufferLen
<1>1. q \in Int /\ r \in Int /\ n = BufferLen * q + r
  BY SlotOf, ModDef DEF Slots
<1> HIDE DEF q, r
<1>2. 1 - q \in Int /\ n - d \in Int
  BY <1>1
<1>3. BufferLen * (1 - q) = BufferLen - BufferLen * q /\ BufferLen * q \in Int
  BY <1>1, SlotOf
<1>4. r + BufferLen - d = BufferLen * (1 - q) + (n - d)
  BY <1>1, <1>3, SlotOf
<1>5. (BufferLen * (1 - q) + (n - d)) % BufferLen = (n - d) % BufferLen
  BY <1>2, SlotOf, ModAddMultiple
<1> QED BY <1>4, <1>5 DEF r

\* Whatever a frame reads and stores are samples.
LEMMA FrameType ==
    ASSUME TypeOK, NEW x \in Inputs
    PROVE  /\ ReadIndex \in Slots
           /\ buffer[ReadIndex] \in Sample
           /\ x \in Sample
           /\ Blend(args.mix, x, buffer[ReadIndex]) \in Sample
           /\ \A y \in Sample : Stored(y, buffer[ReadIndex]) \in Sample
<1>1. write_index \in Int /\ args.delay \in Int /\ args.mix \in Sample /\ args.feedback \in Sample
  BY DEF TypeOK, Slots
<1>2. ReadIndex \in Slots
  <2>1. write_index + BufferLen - args.delay \in Int
    BY <1>1, SlotOf
  <2> QED BY <2>1, SlotOf DEF ReadIndex
<1>3. buffer[ReadIndex] \in Sample
  BY <1>2 DEF TypeOK
<1>4. x \in Sample
  BY DelayAssumption DEF Sample
<1> QED BY <1>1, <1>2, <1>3, <1>4, SampleClosed DEF Stored

\* Every step keeps the types.
LEMMA TypeStep ==
    ASSUME TypeOK, [Next]_vars
    PROVE  TypeOK'
<1> USE DEF TypeOK
<1>1. CASE Activate
  <2>1. 0 \in Sample /\ 0 \in Slots
    BY SlotOf DEF Sample, Slots
  <2> QED BY <1>1, <2>1 DEF Activate
<1>2. ASSUME NEW d \in DelaySamples, NEW f \in Feedbacks, NEW m \in Mixes, ApplyStarts(d, f, m)
      PROVE  TypeOK'
  <2>1. AtMost(d, BufferLen - 1) \in Slots
    BY DelayAssumption DEF AtMost, Slots
  <2>2. f \in Sample /\ m \in Sample
    BY DelayAssumption DEF Sample
  <2>3. args' \in [delay : Slots, feedback : Sample, mix : Sample]
    BY <1>2, <2>1, <2>2 DEF ApplyStarts
  <2> QED BY <1>2, <2>3 DEF ApplyStarts
<1>3. ASSUME NEW x \in Inputs, Frame(x)
      PROVE  TypeOK'
  <2> DEFINE delayed == buffer[ReadIndex]
             y == Blend(args.mix, x, delayed)
  <2>1. delayed \in Sample /\ x \in Sample /\ y \in Sample
    BY FrameType
  <2>2. \A z \in Sample : Stored(z, delayed) \in Sample
    BY FrameType
  <2>3. PICK z \in Reread(x, y) :
           /\ buffer' = [buffer EXCEPT ![write_index] = Stored(z, delayed)]
           /\ written' = Append(written, Stored(z, delayed))
    BY <1>3 DEF Frame
  <2>4. Stored(z, delayed) \in Sample
    BY <2>1, <2>2 DEF Reread
  <2>5. write_index' \in Slots
    <3>1. write_index + 1 \in Int
      BY DEF Slots
    <3> QED BY <1>3, <3>1, SlotOf DEF Frame
  <2>6. out' = y /\ UNCHANGED <<running, args>>
    BY <1>3 DEF Frame
  <2> HIDE DEF delayed, y
  <2>7. buffer' \in [Slots -> Sample] /\ written' \in Seq(Sample)
    BY <2>3, <2>4
  <2> QED BY <2>1, <2>5, <2>6, <2>7
<1>4. CASE ApplyReturns
  BY <1>4 DEF ApplyReturns
<1>5. CASE UNCHANGED vars
  BY <1>5 DEF vars
<1> QED BY <1>1, <1>2, <1>3, <1>4, <1>5 DEF Next

\* A frame keeps the last BufferLen samples in their slots.
LEMMA FrameKeepsBuffer ==
    ASSUME DelayInv, NEW x \in Inputs, Frame(x)
    PROVE  BufferInv'
<1> DEFINE n == Len(written)
<1>1. n \in Nat /\ written \in Seq(Sample) /\ n \in Int
  BY DEF DelayInv, TypeOK
<1>2. write_index = n % BufferLen
  BY DEF DelayInv, BufferInv
<1>3. PICK v : /\ buffer' = [buffer EXCEPT ![write_index] = v]
               /\ written' = Append(written, v)
  BY DEF Frame
<1>4. Len(written') = n + 1 /\ written'[n + 1] = v /\ \A k \in 1 .. n : written'[k] = written[k]
  BY <1>1, <1>3
<1>5. write_index' = Len(written') % BufferLen
  <2>1. ((n % BufferLen) + 1) % BufferLen = (n + 1) % BufferLen
    BY <1>1, SlotOf, ModInc
  <2> QED BY <1>2, <1>4, <2>1 DEF Frame
<1>6. buffer \in [Slots -> Sample] /\ write_index \in Slots
  BY DEF DelayInv, TypeOK
<1>7. ASSUME NEW k \in 1 .. Len(written'), Len(written') < k + BufferLen
      PROVE  buffer'[(k - 1) % BufferLen] = written'[k]
  <2> HIDE DEF n
  <2>0. k \in 1 .. n + 1 /\ n + 1 < k + BufferLen /\ BufferLen \in Int
    BY <1>4, <1>7, SlotOf
  <2>1. k - 1 \in Int /\ (k - 1) % BufferLen \in Slots
    <3>1. k - 1 \in Int
      BY <2>0, <1>1
    <3> QED BY <3>1, SlotOf
  <2>2. CASE k = n + 1
    <3>1. k - 1 = n
      BY <2>2, <1>1
    <3>2. (k - 1) % BufferLen = write_index
      BY <3>1, <1>2
    <3>3. buffer'[write_index] = v
      BY <1>3, <1>6
    <3> QED BY <3>2, <3>3, <2>2, <1>4
  <2>3. CASE k # n + 1
    <3>1. k \in 1 .. n /\ n < k + BufferLen
      BY <2>0, <2>3, <1>1
    <3>2. (k - 1) % BufferLen # n % BufferLen
      <4>1. k - 1 < n
        BY <3>1, <1>1
      <4>2. ASSUME (k - 1) % BufferLen = n % BufferLen
            PROVE  FALSE
        <5>1. n - (k - 1) >= BufferLen
          BY <4>1, <4>2, <2>1, <1>1, SlotOf, ModApart
        <5> QED BY <5>1, <1>1, <2>0
      <4> QED BY <4>2
    <3>3. buffer'[(k - 1) % BufferLen] = buffer[(k - 1) % BufferLen]
      BY <3>2, <2>1, <1>2, <1>3, <1>6
    <3>4. buffer[(k - 1) % BufferLen] = written[k]
      BY <3>1 DEF DelayInv, BufferInv, n
    <3> QED BY <3>1, <3>3, <3>4, <1>4
  <2> QED BY <2>2, <2>3
<1>8. ASSUME NEW s \in Slots, Len(written') <= s
      PROVE  buffer'[s] = 0
  <2> HIDE DEF n
  <2>1. BufferLen \in Int /\ s \in Int /\ s < BufferLen
    BY SlotOf DEF Slots
  <2>2. n \in 0 .. BufferLen - 1 /\ n < s
    BY <1>1, <1>4, <1>8, <2>1
  <2>3. write_index = n
    BY <2>2, <1>2, SlotOf, ModSmall
  <2>4. buffer[s] = 0
    BY <1>1, <2>1, <2>2 DEF DelayInv, BufferInv, n
  <2> QED BY <2>2, <2>3, <2>4, <1>1, <1>3, <1>6
<1> QED BY <1>5, <1>7, <1>8 DEF BufferInv

\* The invariant of the delay line holds in every reachable state: the buffer
\* holds the last BufferLen samples stored, each in its slot.
THEOREM DelayInductive == Spec => []DelayInv
<1>1. Init => DelayInv
  <2> SUFFICES ASSUME Init
               PROVE  DelayInv
    OBVIOUS
  <2>1. TypeOK
    <3>1. 0 \in Slots /\ 0 \in Sample
      BY SlotOf DEF Slots, Sample
    <3>2. args \in [delay : Slots, feedback : Sample, mix : Sample]
      BY <3>1 DEF Init
    <3> QED BY <3>1, <3>2 DEF Init, TypeOK
  <2>2. write_index = Len(written) % BufferLen
    <3>1. 0 % BufferLen = 0
      BY SlotOf, ModSmall
    <3> QED BY <3>1 DEF Init
  <2> QED BY <2>1, <2>2 DEF Init, DelayInv, BufferInv
<1>2. DelayInv /\ [Next]_vars => DelayInv'
  <2> SUFFICES ASSUME DelayInv, [Next]_vars
               PROVE  DelayInv'
    OBVIOUS
  <2>1. TypeOK'
    BY TypeStep DEF DelayInv
  <2>2. BufferInv'
    <3>1. CASE Activate
      <4>1. 0 % BufferLen = 0
        BY SlotOf, ModSmall
      <4> QED BY <3>1, <4>1 DEF Activate, BufferInv
    <3>2. ASSUME NEW d \in DelaySamples, NEW f \in Feedbacks, NEW m \in Mixes,
                 ApplyStarts(d, f, m)
          PROVE  BufferInv'
      BY <3>2 DEF ApplyStarts, DelayInv, BufferInv
    <3>3. ASSUME NEW x \in Inputs, Frame(x)
          PROVE  BufferInv'
      BY <3>3, FrameKeepsBuffer
    <3>4. CASE ApplyReturns
      BY <3>4 DEF ApplyReturns, DelayInv, BufferInv
    <3>5. CASE UNCHANGED vars
      BY <3>5 DEF vars, DelayInv, BufferInv
    <3> QED BY <3>1, <3>2, <3>3, <3>4, <3>5 DEF Next
  <2> QED BY <2>1, <2>2 DEF DelayInv
<1> QED BY <1>1, <1>2, PTL DEF Spec

\* Both indices stay inside the buffer, whatever delay is asked for.
THEOREM DelayTypeCorrect == Spec => []TypeOK
<1>1. DelayInv => TypeOK
  BY DEF DelayInv
<1> QED BY <1>1, DelayInductive, PTL
-------------------------------------------------------------------------------
(***************************************************************************)
(* The delay line is a tape.                                               *)
(***************************************************************************)
\* The abstract module's arithmetic is this module's.
LEMMA EchoArithmetic ==
    /\ \A a, b : Echo!AtMost(a, b) = AtMost(a, b)
    /\ \A a, b : Echo!Plus(a, b) = Plus(a, b)
    /\ \A p, a : Echo!Percent(p, a) = Percent(p, a)
    /\ \A p, a, b : Echo!Blend(p, a, b) = Blend(p, a, b)
  BY DEF Echo!AtMost, AtMost, Echo!Plus, Plus, Echo!Percent, Percent, Echo!Blend, Blend

\* How far back a frame reads.  A delay of zero does not read the current
\* sample but the oldest one there is, which is about to be overwritten.
Lag == IF args.delay = 0 THEN BufferLen ELSE args.delay

\* It is one frame at least.
LEMMA LagPositive ==
    ASSUME TypeOK
    PROVE  Lag \in Int /\ 0 < Lag
<1>1. args.delay \in Slots
  BY DEF TypeOK
<1> DEFINE d == args.delay
<1>2. d \in Nat /\ BufferLen \in Nat \ {0}
  BY <1>1, SlotOf DEF Slots
<1>3. Lag = IF d = 0 THEN BufferLen ELSE d
  BY DEF Lag
<1> HIDE DEF d
<1> QED BY <1>2, <1>3

\* What a frame reads from the buffer is what was stored Lag frames before it,
\* and silence if nothing was.
ReadsBack ==
    buffer[ReadIndex] = IF Lag <= Len(written) THEN written[Len(written) - Lag + 1] ELSE 0

LEMMA ReadsBackHolds ==
    ASSUME DelayInv
    PROVE  ReadsBack
<1> DEFINE n == Len(written)
           d == Lag
<1>1. n \in Nat /\ n \in Int
  BY DEF DelayInv, TypeOK
<1>2. d \in Int /\ 0 < d /\ d <= BufferLen /\ BufferLen \in Int
  <2>1. args.delay \in Slots
    BY DEF DelayInv, TypeOK
  <2> QED BY <2>1, SlotOf DEF Slots, Lag
<1>3. write_index = n % BufferLen
  BY DEF DelayInv, BufferInv
<1>4. ReadIndex = (n - d) % BufferLen
  <2>1. args.delay \in Int
    BY DEF DelayInv, TypeOK, Slots
  <2>2. ReadIndex = (n - args.delay) % BufferLen
    BY <1>1, <1>3, <2>1, ReadIs DEF ReadIndex
  <2>3. CASE args.delay = 0
    <3>1. BufferLen * 1 + (n - BufferLen) = n /\ n - BufferLen \in Int /\ 1 \in Int
      BY <1>1, <1>2
    <3>2. (BufferLen * 1 + (n - BufferLen)) % BufferLen = (n - BufferLen) % BufferLen
      BY <3>1, SlotOf, ModAddMultiple
    <3>3. n - args.delay = n
      BY <1>1, <2>3
    <3> QED BY <2>2, <2>3, <3>1, <3>2, <3>3 DEF Lag
  <2>4. CASE args.delay # 0
    BY <2>2, <2>4 DEF Lag
  <2> QED BY <2>3, <2>4
<1>5. CASE d <= n
  <2> HIDE DEF n, d
  <2>1. n - d + 1 \in 1 .. n /\ n < (n - d + 1) + BufferLen /\ (n - d + 1) - 1 = n - d
    BY <1>1, <1>2, <1>5
  <2>2. buffer[((n - d + 1) - 1) % BufferLen] = written[n - d + 1]
    BY <2>1 DEF DelayInv, BufferInv, n
  <2>3. buffer[ReadIndex] = written[n - d + 1]
    BY <2>1, <2>2, <1>4
  <2> QED BY <2>3, <1>5 DEF ReadsBack, n, d
<1>6. CASE ~(d <= n)
  <2> HIDE DEF n, d
  <2>1. n + BufferLen - d \in 0 .. BufferLen - 1 /\ n <= n + BufferLen - d
    BY <1>1, <1>2, <1>6
  <2>2. (BufferLen * 1 + (n - d)) % BufferLen = (n - d) % BufferLen
    <3>1. n - d \in Int /\ 1 \in Int
      BY <1>1, <1>2
    <3> QED BY <3>1, SlotOf, ModAddMultiple
  <2>3. BufferLen * 1 + (n - d) = n + BufferLen - d
    BY <1>1, <1>2
  <2>4. ReadIndex = n + BufferLen - d
    BY <1>4, <2>1, <2>2, <2>3, SlotOf, ModSmall
  <2>5. ReadIndex \in Slots /\ n <= ReadIndex
    BY <2>1, <2>4 DEF Slots
  <2>6. buffer[ReadIndex] = 0
    BY <2>5 DEF DelayInv, BufferInv, n
  <2> QED BY <2>6, <1>6 DEF ReadsBack, n, d
<1> QED BY <1>5, <1>6

\* Every frame reads Lag frames back: for a delay of one sample or more exactly
\* the delay asked for, and for a delay of zero the whole buffer, at every
\* buffer length, in place or not.
THEOREM EveryReadIsBack == Spec => []ReadsBack
<1>1. DelayInv => ReadsBack
  BY ReadsBackHolds
<1> QED BY <1>1, DelayInductive, PTL

\* Inside a run the delay is at least one sample.
Waits == running => args.delay # 0

LEMMA WaitsAlways ==
    ASSUME TapSafe
    PROVE  Spec => []Waits
<1>1. Init => Waits
  BY DEF Init, Waits
<1>2. Waits /\ [Next]_vars => Waits'
  <2> SUFFICES ASSUME Waits, [Next]_vars
               PROVE  Waits'
    OBVIOUS
  <2>1. ASSUME NEW d \in DelaySamples, NEW f \in Feedbacks, NEW m \in Mixes,
               ApplyStarts(d, f, m)
        PROVE  Waits'
    <3>1. d \in Nat \ {0} /\ BufferLen \in Nat /\ BufferLen > 1
      BY DelayAssumption DEF TapSafe
    <3>2. AtMost(d, BufferLen - 1) # 0
      BY <3>1 DEF AtMost
    <3> QED BY <2>1, <3>2 DEF ApplyStarts, Waits
  <2>2. CASE Activate
    BY <2>2 DEF Activate, Waits
  <2>3. ASSUME NEW x \in Inputs, Frame(x)
        PROVE  Waits'
    BY <2>3 DEF Frame, Waits
  <2>4. CASE ApplyReturns
    BY <2>4 DEF ApplyReturns, Waits
  <2>5. CASE UNCHANGED vars
    BY <2>5 DEF vars, Waits
  <2> QED BY <2>1, <2>2, <2>3, <2>4, <2>5 DEF Next
<1> QED BY <1>1, <1>2, PTL DEF Spec

\* What a frame reads from the buffer is what the tape holds `delay` back.
LEMMA ReadsTheTape ==
    ASSUME DelayInv, Waits, running, NEW x \in Inputs
    PROVE  buffer[ReadIndex] = Echo!Delayed(x)
<1>1. args.delay # 0 /\ Lag = args.delay
  BY DEF Waits, Lag
<1> QED BY <1>1, ReadsBackHolds DEF ReadsBack, Echo!Delayed

\* The circular buffer implements the tape, for every buffer of more than one
\* slot, every set of non-zero delays and every change of controls between
\* runs, unless one buffer is connected to In and Out.
THEOREM DelayLineIsTape ==
    ASSUME TapSafe
    PROVE  Spec => EchoSpec
<1>1. Init => Echo!Init
  BY DEF Init, Echo!Init
<1>2. DelayInv /\ Waits /\ [Next]_vars => [Echo!Next]_(Echo!vars)
  <2> SUFFICES ASSUME DelayInv, Waits, [Next]_vars
               PROVE  Echo!Next \/ UNCHANGED Echo!vars
    OBVIOUS
  <2>1. CASE Activate
    BY <2>1 DEF Activate, Echo!Erase, Echo!Next
  <2>2. ASSUME NEW d \in DelaySamples, NEW f \in Feedbacks, NEW m \in Mixes,
               ApplyStarts(d, f, m)
        PROVE  Echo!Next
    <3>1. Echo!RunStarts(d, f, m)
      BY <2>2, EchoArithmetic DEF ApplyStarts, Echo!RunStarts
    <3> QED BY <3>1 DEF Echo!Next
  <2>3. ASSUME NEW x \in Inputs, Frame(x)
        PROVE  Echo!Next
    <3> DEFINE delayed == buffer[ReadIndex]
               y == Blend(args.mix, x, delayed)
    <3>1. running /\ out' = y /\ UNCHANGED <<running, args>>
      BY <2>3 DEF Frame
    <3>2. delayed = Echo!Delayed(x)
      BY <3>1, ReadsTheTape
    <3>3. written' = Append(written, Plus(x, Percent(args.feedback, delayed)))
      <4>1. Reread(x, y) = {x}
        BY DEF Reread, TapSafe
      <4> QED BY <2>3, <4>1 DEF Frame, Stored
    <3> HIDE DEF delayed
    <3>4. Echo!Play(x)
      BY <3>1, <3>2, <3>3, EchoArithmetic DEF Echo!Play
    <3> QED BY <3>4 DEF Echo!Next
  <2>4. CASE ApplyReturns
    BY <2>4 DEF ApplyReturns, Echo!RunEnds, Echo!Next
  <2>5. CASE UNCHANGED vars
    BY <2>5 DEF vars, Echo!vars
  <2> QED BY <2>1, <2>2, <2>3, <2>4, <2>5 DEF Next
<1> QED BY <1>1, <1>2, DelayInductive, WaitsAlways, PTL DEF Spec, EchoSpec, Echo!Spec
-------------------------------------------------------------------------------
(***************************************************************************)
(* The feedback cap.                                                       *)
(***************************************************************************)
\* The controls of the run in progress are within their bounds, or a NaN.
ControlInv ==
    /\ args.feedback \in SuppliedNaN \cup (0 .. 95)
    /\ args.mix \in SuppliedNaN \cup (0 .. 100)

\* What a frame of tame samples plays and stores is tame: a NaN among them, or
\* on a control, is one that the host supplied.
LEMMA FrameTame ==
    ASSUME NEW x \in Inputs, NEW delayed \in Tame, ControlInv
    PROVE  Blend(args.mix, x, delayed) \in Tame /\ Stored(x, delayed) \in Tame
<1>1. x \in SuppliedNaN \cup (-Peak .. Peak) /\ Peak \in Nat
  BY DelayAssumption DEF SuppliedNaN
<1>2. Blend(args.mix, x, delayed) \in Tame
  <2>1. CASE NaN \in {args.mix, x, delayed}
    <3>1. NaN \in SuppliedNaN
      BY <1>1, <2>1, NaNAssumption DEF ControlInv, Tame, Within
    <3> QED BY <2>1, <3>1 DEF Blend, Tame
  <2>2. CASE NaN \notin {args.mix, x, delayed}
    <3>1. x \in -Peak .. Peak /\ delayed \in Within(Loud) /\ args.mix \in 0 .. 100
      BY <1>1, <2>2 DEF ControlInv, Tame, SuppliedNaN
    <3>2. x \in Within(Loud)
      BY <1>1, <3>1, NaNAssumption DEF Within, Loud, Sample
    <3> QED BY <3>1, <3>2, BlendBound DEF Tame
  <2> QED BY <2>1, <2>2
<1>3. Stored(x, delayed) \in Tame
  <2>1. CASE NaN \in {args.feedback, x, delayed}
    <3>1. NaN \in SuppliedNaN
      BY <1>1, <2>1, NaNAssumption DEF ControlInv, Tame, Within
    <3>2. Stored(x, delayed) = NaN
      BY <2>1 DEF Stored, Plus, Percent
    <3> QED BY <3>1, <3>2 DEF Tame
  <2>2. CASE NaN \notin {args.feedback, x, delayed}
    <3>1. x \in -Peak .. Peak /\ delayed \in Within(Loud) /\ args.feedback \in 0 .. 95
      BY <1>1, <2>2 DEF ControlInv, Tame, SuppliedNaN
    <3> DEFINE share == Percent(args.feedback, delayed)
    <3>2. share \in Int /\ -(19 * Peak) <= share /\ share <= 19 * Peak
      BY <3>1, PercentBound
    <3> HIDE DEF share
    <3>3. Plus(x, share) = x + share
      BY <1>1, <3>1, <3>2, NaNAssumption DEF Plus
    <3>4. x + share \in Within(Loud)
      BY <1>1, <3>1, <3>2, NaNAssumption DEF Within, Loud, Sample
    <3> QED BY <3>3, <3>4 DEF Stored, share, Tame
  <2> QED BY <2>1, <2>2
<1> QED BY <1>2, <1>3

\* One frame keeps everything within 20 peaks.
LEMMA FrameQuiet ==
    ASSUME DelayInv, NoRunaway, ControlInv, GainSafe, NEW x \in Inputs, Frame(x)
    PROVE  NoRunaway'
<1> DEFINE delayed == buffer[ReadIndex]
           y == Blend(args.mix, x, delayed)
           v == Stored(x, delayed)
<1>1. ReadIndex \in Slots
  BY FrameType DEF DelayInv
<1>2. delayed \in Tame
  BY <1>1 DEF NoRunaway
<1>3. y \in Tame /\ v \in Tame
  BY <1>2, FrameTame
<1>4. out' = y /\ buffer' = [buffer EXCEPT ![write_index] = v]
  <2>1. Reread(x, y) = {x}
    BY DEF Reread, GainSafe
  <2> QED BY <2>1 DEF Frame
<1>5. buffer \in [Slots -> Sample]
  BY DEF DelayInv, TypeOK
<1>6. Tame' = Tame
  BY DEF Tame, Within, Loud, SuppliedNaN
<1> HIDE DEF y, v
<1> QED BY <1>3, <1>4, <1>5, <1>6 DEF NoRunaway

\* No number stored or played ever exceeds 20 peaks, and none is a NaN unless
\* the host supplied one, for every buffer length, every schedule of runs and
\* every input within the peak, as long as the feedback is at most 95% and the
\* mix at most 100%.
THEOREM NeverRunsAway ==
    ASSUME GainSafe
    PROVE  Spec => []NoRunaway
<1> DEFINE Quiet == NoRunaway /\ ControlInv
<1>1. Init => Quiet
  <2>1. 0 \in Tame
    BY DelayAssumption, NaNAssumption DEF Tame, Within, Loud, Sample
  <2> QED BY <2>1 DEF Init, NoRunaway, ControlInv
<1>2. DelayInv /\ Quiet /\ [Next]_vars => Quiet'
  <2> SUFFICES ASSUME DelayInv, NoRunaway, ControlInv, [Next]_vars
               PROVE  NoRunaway' /\ ControlInv'
    OBVIOUS
  <2>0. Tame' = Tame /\ SuppliedNaN' = SuppliedNaN
    BY DEF Tame, Within, Loud, SuppliedNaN
  <2>1. CASE Activate
    <3>1. 0 \in Tame
      BY DelayAssumption, NaNAssumption DEF Tame, Within, Loud, Sample
    <3> QED BY <2>0, <2>1, <3>1 DEF Activate, NoRunaway, ControlInv
  <2>2. ASSUME NEW d \in DelaySamples, NEW f \in Feedbacks, NEW m \in Mixes,
               ApplyStarts(d, f, m)
        PROVE  NoRunaway' /\ ControlInv'
    <3>1. f \in SuppliedNaN \cup (0 .. 95) /\ m \in SuppliedNaN \cup (0 .. 100)
      BY DEF GainSafe, SuppliedNaN
    <3>2. args'.feedback = f /\ args'.mix = m /\ UNCHANGED <<buffer, out>>
      BY <2>2 DEF ApplyStarts
    <3> QED BY <2>0, <3>1, <3>2 DEF NoRunaway, ControlInv
  <2>3. ASSUME NEW x \in Inputs, Frame(x)
        PROVE  NoRunaway' /\ ControlInv'
    <3>1. ControlInv'
      BY <2>0, <2>3 DEF Frame, ControlInv
    <3> QED BY <2>3, <3>1, FrameQuiet
  <2>4. CASE ApplyReturns
    BY <2>0, <2>4 DEF ApplyReturns, NoRunaway, ControlInv
  <2>5. CASE UNCHANGED vars
    BY <2>0, <2>5 DEF vars, NoRunaway, ControlInv
  <2> QED BY <2>1, <2>2, <2>3, <2>4, <2>5 DEF Next
<1>3. Quiet => NoRunaway
  OBVIOUS
<1> QED BY <1>1, <1>2, <1>3, DelayInductive, PTL DEF Spec
-------------------------------------------------------------------------------
(***************************************************************************)
(* The plugin: what it passes to the delay line, so that what is proved of *)
(* the delay line holds of the plugin.                                     *)
(***************************************************************************)
\* Each step of the plugin is a step of its delay line, or leaves it alone.
LEMMA PluginUsesLine == PluginSpec => Spec
<1>1. PluginInit => Init
  BY DEF PluginInit
<1>2. [PluginNext]_pluginVars => [Next]_vars
  <2> SUFFICES ASSUME [PluginNext]_pluginVars
               PROVE  Next \/ UNCHANGED vars
    OBVIOUS
  <2>1. ASSUME NEW ms \in Millis, NEW f \in RawFeedbacks, NEW m \in RawMixes,
               RunBegins(ms, f, m)
        PROVE  Next
    <3>1. /\ InSamples(ms) \in DelaySamples
          /\ Feedback(f) \in Feedbacks
          /\ Mix(m) \in Mixes
      BY PluginAssumption DEF DelayArgs, FeedbackArgs, MixArgs
    <3>2. ApplyStarts(InSamples(ms), Feedback(f), Mix(m))
      BY <2>1 DEF RunBegins
    <3> QED BY <3>1, <3>2 DEF Next
  <2>2. CASE HostActivates
    BY <2>2 DEF HostActivates, Next
  <2>3. ASSUME NEW x \in Inputs, RunFrame(x)
        PROVE  Next
    BY <2>3 DEF RunFrame, Next
  <2>4. CASE RunReturns
    BY <2>4 DEF RunReturns, Next
  <2>5. CASE DrainerReports \/ Cleanup
    BY <2>5 DEF DrainerReports, Cleanup
  <2>6. CASE UNCHANGED pluginVars
    BY <2>6 DEF pluginVars
  <2>7. CASE Cleaned
    BY <2>7 DEF Cleaned, pluginVars
  <2> QED BY <2>1, <2>2, <2>3, <2>4, <2>5, <2>6, <2>7 DEF PluginNext
<1> QED BY <1>1, <1>2, PTL DEF PluginSpec, Spec

\* In the plugin, too, the buffer holds the last samples stored, each in the
\* slot of its number.
THEOREM PluginBuffer == PluginSpec => []DelayInv
  BY PluginUsesLine, DelayInductive, PTL

\* Two seconds of any sample rate are at least one slot, and one more is kept.
LEMMA BufferLonger == BufferLen \in Nat /\ BufferLen > 1
<1>1. BufferLen = ((2000 * SampleRate + 999) \div 1000) + 1
  BY PluginAssumption DEF BufferSize, MaxDelayMs
<1>2. SampleRate \in Nat /\ SampleRate >= 1
  BY PluginAssumption
<1> QED BY <1>1, <1>2

\* With separate buffers and delays of a sample or more the plugin plays an
\* echo tape, for every sample rate and whatever the host writes to the ports.
THEOREM PluginIsTape ==
    ASSUME ~InPlace, \A ms \in Millis : InSamples(ms) > 0
    PROVE  PluginSpec => EchoSpec
<1>1. 0 \notin DelaySamples
  BY PluginAssumption DEF DelayArgs
<1>2. TapSafe
  BY <1>1, BufferLonger DEF TapSafe
<1> QED BY <1>2, PluginUsesLine, DelayLineIsTape, PTL

\* With separate buffers no number is ever louder than Peak / (1 - 0.95), and
\* there is no NaN that the host did not supply, whatever it writes to the ports.
THEOREM PluginNeverRunsAway ==
    ASSUME ~InPlace
    PROVE  PluginSpec => []NoRunaway
<1>1. ASSUME NEW raw \in {NaN} \cup Int, NEW hi \in Nat
      PROVE  Clamp(raw, 0, hi) \in {NaN} \cup (0 .. hi)
  BY NaNAssumption DEF Clamp, AtMost
<1>2. Feedbacks \subseteq {NaN} \cup (0 .. 95)
  <2>1. RawFeedbacks \subseteq {NaN} \cup Int
    BY PluginAssumption
  <2>2. \A raw \in RawFeedbacks : Feedback(raw) \in {NaN} \cup (0 .. 95)
    BY <1>1, <2>1 DEF Feedback, FeedbackCap
  <2> QED BY <2>2, PluginAssumption DEF FeedbackArgs
<1>3. Mixes \subseteq {NaN} \cup (0 .. 100)
  <2>1. RawMixes \subseteq {NaN} \cup Int
    BY PluginAssumption
  <2>2. \A raw \in RawMixes : Mix(raw) \in {NaN} \cup (0 .. 100)
    BY <1>1, <2>1 DEF Mix
  <2> QED BY <2>2, PluginAssumption DEF MixArgs
<1>4. GainSafe
  BY <1>2, <1>3 DEF GainSafe
<1> QED BY <1>4, PluginUsesLine, NeverRunsAway, PTL
-------------------------------------------------------------------------------
(***************************************************************************)
(* The delay asked for.                                                    *)
(***************************************************************************)
\* Rounding down, and the longest delay inside the buffer.
LEMMA DelayFits ==
    ASSUME NEW ms \in Sample
    PROVE  LET d == AtMost(InSamples(ms), BufferLen - 1)
           IN  IF ms \in 0 .. MaxDelayMs
               THEN ms * SampleRate \in 1000 * d .. 1000 * d + 999
               ELSE d = IF ms = NaN \/ ms < 0 THEN 0 ELSE InSamples(MaxDelayMs)
<1> DEFINE longest == (2000 * SampleRate + 999) \div 1000
<1>1. SampleRate \in Nat /\ SampleRate >= 1
  BY PluginAssumption
<1>2. BufferLen - 1 = longest /\ longest \in Int
  BY <1>1, PluginAssumption DEF BufferSize, MaxDelayMs
<1>3. longest = 2 * SampleRate
  BY <1>1
<1> HIDE DEF longest
<1>4. InSamples(MaxDelayMs) = 2 * SampleRate
  BY <1>1, NaNAssumption DEF InSamples, NotNegative, MaxDelayMs
<1>5. \A t \in 0 .. MaxDelayMs : t \in Int /\ 0 <= t /\ t <= 2000
  BY DEF MaxDelayMs
<1>6. CASE ms = NaN \/ ms < 0
  <2>1. InSamples(ms) = 0
    <3>1. ms = NaN \/ (ms \in Int /\ ms < 0)
      BY <1>6 DEF Sample
    <3>2. NotNegative(ms) = 0
      BY <3>1 DEF NotNegative
    <3> QED BY <1>1, <3>2 DEF InSamples
  <2>2. 0 <= BufferLen - 1
    BY <1>1, <1>2, <1>3
  <2>3. AtMost(InSamples(ms), BufferLen - 1) = 0
    BY <2>1, <2>2 DEF AtMost
  <2>4. ms \notin 0 .. MaxDelayMs
    BY <1>5, <1>6, NaNAssumption
  <2> QED BY <1>6, <2>3, <2>4
<1>7. CASE ms # NaN /\ ms >= 0
  <2> DEFINE n == ms * SampleRate
             q == n \div 1000
  <2>0. ms \in Int
    BY <1>7 DEF Sample
  <2>1. n \in Nat
    BY <1>1, <1>7, <2>0
  <2>2. InSamples(ms) = q
    BY <1>7, <2>0 DEF InSamples, NotNegative
  <2>3. q \in Int /\ 1000 * q <= n /\ n <= 1000 * q + 999
    <3> HIDE DEF n
    <3> QED BY <2>1
  <2>4. CASE ms <= 2000
    <3>1. SampleRate * ms <= SampleRate * 2000
      BY <1>1, <2>0, <2>4, ShareMonotone
    <3>2. n <= 2000 * SampleRate
      BY <3>1, <1>1, <2>0
    <3> HIDE DEF n, q
    <3>3. q <= longest
      BY <3>2, <2>1, <2>3, <1>1, <1>2, <1>3
    <3>4. AtMost(InSamples(ms), BufferLen - 1) = q
      BY <3>3, <2>2, <1>2 DEF AtMost
    <3>5. n \in 1000 * q .. 1000 * q + 999
      BY <2>1, <2>3
    <3> QED BY <3>4, <3>5, <2>0, <2>4, <1>7 DEF MaxDelayMs, n
  <2>5. CASE ms > 2000
    <3>1. SampleRate * 2000 <= SampleRate * ms
      BY <1>1, <2>0, <2>5, ShareMonotone
    <3>2. 2000 * SampleRate <= n
      BY <3>1, <1>1, <2>0
    <3> HIDE DEF n, q
    <3>3. longest <= q
      BY <3>2, <2>1, <2>3, <1>1, <1>2, <1>3
    <3>4. AtMost(InSamples(ms), BufferLen - 1) = longest
      BY <3>3, <2>2, <2>3, <1>2 DEF AtMost
    <3>5. ms \notin 0 .. MaxDelayMs /\ ms # NaN /\ ~(ms < 0)
      <4>1. ms \notin 0 .. MaxDelayMs
        BY <1>5, <2>0, <2>5
      <4> QED BY <1>7, <2>0, <4>1
    <3> QED BY <3>4, <3>5, <1>3, <1>4
  <2> QED BY <2>0, <2>4, <2>5
<1> QED BY <1>6, <1>7 DEF Sample

(***************************************************************************)
(* The reports.                                                            *)
(***************************************************************************)
\* A sequence is itself with nothing left out.
LEMMA ThinnedNot == ASSUME NEW S, NEW t \in Seq(S) PROVE Thinned(t, t)
<1>1. [i \in DOMAIN t |-> i] \in [DOMAIN t -> DOMAIN t]
  OBVIOUS
<1> QED BY <1>1 DEF Thinned

\* An element may be added to both, or left out.
LEMMA ThinnedAppend ==
    ASSUME NEW S, NEW s \in Seq(S), NEW t \in Seq(S), NEW e \in S, Thinned(s, t)
    PROVE  /\ Thinned(s, Append(t, e))
           /\ Thinned(Append(s, e), Append(t, e))
<1> DEFINE u == Append(t, e)
           w == Append(s, e)
           m == Len(s)
           n == Len(t)
<1>2. m \in Nat /\ n \in Nat
  OBVIOUS
<1>3. /\ DOMAIN u = 1 .. n + 1 /\ u[n + 1] = e
      /\ \A k \in 1 .. n : u[k] = t[k]
  OBVIOUS
<1>4. /\ DOMAIN w = 1 .. m + 1 /\ w[m + 1] = e
      /\ \A k \in 1 .. m : w[k] = s[k]
  OBVIOUS
<1>5. DOMAIN s = 1 .. m /\ DOMAIN t = 1 .. n
  OBVIOUS
<1> HIDE DEF u, w, m, n
<1>1. PICK at \in [1 .. m -> 1 .. n] :
        /\ \A i, j \in 1 .. m : i < j => at[i] < at[j]
        /\ \A i \in 1 .. m : s[i] = t[at[i]]
  BY <1>5 DEF Thinned
<1>6. Thinned(s, u)
  <2>1. at \in [DOMAIN s -> DOMAIN u]
    BY <1>2, <1>3, <1>5
  <2>2. \A i \in DOMAIN s : s[i] = u[at[i]]
    BY <1>1, <1>3, <1>5
  <2>3. \A i, j \in DOMAIN s : i < j => at[i] < at[j]
    BY <1>1, <1>5
  <2> QED BY <2>1, <2>2, <2>3 DEF Thinned
<1>7. Thinned(w, u)
  <2> DEFINE to == [i \in 1 .. m + 1 |-> IF i = m + 1 THEN n + 1 ELSE at[i]]
  <2>1. to \in [DOMAIN w -> DOMAIN u]
    BY <1>2, <1>3, <1>4
  <2>2. ASSUME NEW i \in DOMAIN w PROVE w[i] = u[to[i]]
    <3>1. CASE i = m + 1
      <4>1. to[i] = n + 1
        BY <1>2, <1>4, <3>1
      <4> QED BY <1>3, <1>4, <3>1, <4>1
    <3>2. CASE i # m + 1
      <4>1. i \in 1 .. m
        BY <1>2, <1>4, <3>2
      <4>2. to[i] = at[i] /\ at[i] \in 1 .. n
        BY <1>2, <3>2, <4>1
      <4> QED BY <1>1, <1>3, <1>4, <4>1, <4>2
    <3> QED BY <3>1, <3>2
  <2>3. ASSUME NEW i \in DOMAIN w, NEW j \in DOMAIN w, i < j PROVE to[i] < to[j]
    <3>1. i \in 1 .. m /\ j \in 1 .. m + 1
      BY <1>2, <1>4, <2>3
    <3>2. at[i] \in 1 .. n
      BY <3>1
    <3>3. CASE j = m + 1
      BY <1>2, <3>1, <3>2, <3>3
    <3>4. CASE j \in 1 .. m
      BY <1>1, <1>2, <2>3, <3>1, <3>4
    <3> QED BY <1>2, <3>1, <3>3, <3>4
  <2> HIDE DEF to
  <2> QED BY <2>1, <2>2, <2>3 DEF Thinned
<1> QED BY <1>6, <1>7 DEF u, w

\* Taking the head of the queue to the end of the log moves nothing.
LEMMA DeliverKeeps ==
    ASSUME NEW S, NEW p \in Seq(S), NEW q \in Seq(S), q # <<>>
    PROVE  /\ Append(p, Head(q)) \in Seq(S) /\ Tail(q) \in Seq(S)
           /\ Append(p, Head(q)) \o Tail(q) = p \o q
<1>1. Head(q) \in S /\ Tail(q) \in Seq(S)
  BY HeadTailProperties
<1>2. Append(p, Head(q)) \in Seq(S)
  BY <1>1
<1>3. Append(p, Head(q)) \o Tail(q) = p \o q
  BY <1>1, <1>2
<1> QED BY <1>1, <1>2, <1>3

\* Accepting an event appends it to what was accepted.
LEMMA AcceptAppends ==
    ASSUME NEW S, NEW p \in Seq(S), NEW q \in Seq(S), NEW e \in S
    PROVE  p \o Append(q, e) = Append(p \o q, e)
  OBVIOUS

\* The inductive invariant of the plugin.
PluginInv ==
    /\ PluginTypeOK
    /\ DelayAsAsked
    /\ Len(Reported) <= Len(clamped)
    /\ ClampsReported

\* What begins a run keeps it: the delay asked for is the one used, and the
\* clamp is reported or lost to a full queue.
LEMMA RunBeginsKeeps ==
    ASSUME PluginInv, TypeOK', NEW ms \in Millis, NEW f \in RawFeedbacks, NEW m \in RawMixes,
           RunBegins(ms, f, m)
    PROVE  PluginInv'
<1> DEFINE log == Reported
<1>1. /\ invoked \in Seq(RawFeedbacks) /\ pending \in Seq(RawFeedbacks)
      /\ clamped \in Seq(RawFeedbacks) /\ Thinned(log, clamped)
      /\ Len(clamped) <= LogCapacity => log = clamped
      /\ Len(log) <= Len(clamped)
  BY DEF PluginInv, PluginTypeOK, ClampsReported
<1>2. log \in Seq(RawFeedbacks)
  BY <1>1 DEF Reported
<1>3. ~closed /\ UNCHANGED <<panicked, closed, invoked, sane>>
  BY DEF RunBegins, Report, logVars, Logger!Accept
<1>4. LogCapacity \in Nat
  BY PluginAssumption
<1>5. \/ /\ UNCHANGED <<pending, clamped>>
      \/ /\ clamped' = Append(clamped, f) /\ pending' = Append(pending, f)
      \/ /\ clamped' = Append(clamped, f) /\ UNCHANGED pending /\ Len(log) >= LogCapacity
  BY DEF RunBegins, Report, logVars, Logger!Accept
<1>6. /\ pending' \in Seq(RawFeedbacks) /\ clamped' \in Seq(RawFeedbacks)
  <2>1. /\ Append(pending, f) \in Seq(RawFeedbacks)
        /\ Append(clamped, f) \in Seq(RawFeedbacks)
    BY <1>1
  <2> QED BY <1>1, <1>5, <2>1
<1>7. DelayAsAsked'
  <2>1. asked'.ms = ms /\ args'.delay = AtMost(InSamples(ms), BufferLen - 1)
    BY DEF RunBegins, ApplyStarts
  <2>2. ms \in Sample
    BY PluginAssumption DEF Sample
  <2> QED BY <2>1, <2>2, DelayFits DEF DelayAsAsked
<1>8. PluginTypeOK'
  <2>1. asked' \in [ms : Sample, feedback : Sample, mix : Sample]
    BY PluginAssumption DEF RunBegins, Sample
  <2> QED BY <1>3, <1>6, <2>1 DEF PluginInv, PluginTypeOK
<1>9. /\ Thinned(Reported', clamped')
      /\ Len(Reported') <= Len(clamped')
      /\ Len(clamped') <= LogCapacity => Reported' = clamped'
  <2>1. CASE UNCHANGED <<pending, clamped>>
    BY <1>1, <1>3, <2>1 DEF Reported
  <2>2. CASE clamped' = Append(clamped, f) /\ pending' = Append(pending, f)
    <3>1. Reported' = Append(log, f)
      BY <1>1, <1>3, <2>2, AcceptAppends DEF Reported
    <3>2. Thinned(Append(log, f), Append(clamped, f))
      BY <1>1, <1>2, ThinnedAppend
    <3> HIDE DEF log
    <3> QED BY <1>1, <1>2, <1>4, <2>2, <3>1, <3>2
  <2>3. CASE clamped' = Append(clamped, f) /\ UNCHANGED pending /\ Len(log) >= LogCapacity
    <3>1. Reported' = log
      BY <1>3, <2>3 DEF Reported
    <3>2. Thinned(log, Append(clamped, f))
      BY <1>1, <1>2, ThinnedAppend
    <3> HIDE DEF log
    <3> QED BY <1>1, <1>2, <1>4, <2>3, <3>1, <3>2
  <2> QED BY <1>5, <2>1, <2>2, <2>3
<1> QED BY <1>3, <1>7, <1>8, <1>9 DEF PluginInv, ClampsReported

\* Reported is a matter of the log's variables alone.
LEMMA PluginInductive == PluginSpec => []PluginInv
<1>1. PluginInit => PluginInv
  <2> SUFFICES ASSUME PluginInit PROVE PluginInv
    OBVIOUS
  <2>1. /\ Init /\ pending = <<>> /\ invoked = <<>> /\ clamped = <<>>
        /\ panicked = FALSE /\ closed = FALSE
    BY DEF PluginInit, Logger!Init
  <2>2. TypeOK
    <3>1. 0 \in Sample /\ 0 \in Slots
      BY DelayAssumption DEF Sample, Slots
    <3>2. <<>> \in Seq(Sample)
      OBVIOUS
    <3> QED BY <2>1, <3>1, <3>2 DEF Init, TypeOK
  <2>3. \A S : <<>> \in Seq(S)
    OBVIOUS
  <2>4. PluginTypeOK
    <3>1. asked \in [ms : Sample, feedback : Sample, mix : Sample] /\ sane \in Nat
      BY DEF PluginInit, Sample
    <3>2. /\ pending \in Seq(RawFeedbacks) /\ invoked \in Seq(RawFeedbacks)
          /\ clamped \in Seq(RawFeedbacks)
      BY <2>1, <2>3
    <3> QED BY <2>1, <2>2, <3>1, <3>2 DEF PluginTypeOK
  <2>5. Reported = <<>>
    BY <2>1 DEF Reported
  <2>6. Thinned(<<>>, <<>>)
    BY <2>3, ThinnedNot
  <2>7. ClampsReported
    BY <2>1, <2>5, <2>6 DEF ClampsReported
  <2>8. DelayAsAsked
    BY <2>1 DEF Init, DelayAsAsked
  <2> QED BY <2>1, <2>4, <2>5, <2>7, <2>8 DEF PluginInv
<1>2. PluginInv /\ TypeOK' /\ [PluginNext]_pluginVars => PluginInv'
  <2> SUFFICES ASSUME PluginInv, TypeOK', [PluginNext]_pluginVars
               PROVE  PluginInv'
    OBVIOUS
  <2>1. ASSUME NEW ms \in Millis, NEW f \in RawFeedbacks, NEW m \in RawMixes,
               RunBegins(ms, f, m)
        PROVE  PluginInv'
    BY <2>1, RunBeginsKeeps
  <2>2. ASSUME /\ UNCHANGED <<logVars, asked, clamped>>
               /\ sane' \in Nat
               /\ running' => running /\ args' = args
        PROVE  PluginInv'
    <3>1. Reported' = Reported
      BY <2>2 DEF Reported, logVars
    <3>2. PluginTypeOK'
      BY <2>2 DEF PluginInv, PluginTypeOK, logVars
    <3>3. DelayAsAsked'
      BY <2>2 DEF PluginInv, DelayAsAsked
    <3> QED BY <2>2, <3>1, <3>2, <3>3 DEF PluginInv, ClampsReported, logVars
  <2>3. CASE HostActivates
    BY <2>2, <2>3 DEF HostActivates, Activate
  <2>4. ASSUME NEW x \in Inputs, RunFrame(x)
        PROVE  PluginInv'
    BY <2>2, <2>4 DEF RunFrame, Frame, PluginInv, PluginTypeOK
  <2>5. CASE RunReturns
    BY <2>2, <2>5 DEF RunReturns, ApplyReturns, PluginInv, PluginTypeOK
  <2>6. CASE DrainerReports
    <3>1. /\ UNCHANGED <<vars, hostVars, closed>> /\ ~closed
          /\ pending # <<>> /\ panicked' \in BOOLEAN
          /\ invoked' = Append(invoked, Head(pending)) /\ pending' = Tail(pending)
      BY <2>6 DEF DrainerReports, Logger!Deliver
    <3>2. invoked \in Seq(RawFeedbacks) /\ pending \in Seq(RawFeedbacks)
      BY DEF PluginInv, PluginTypeOK
    <3>3. /\ Reported' = Reported
          /\ invoked' \in Seq(RawFeedbacks) /\ pending' \in Seq(RawFeedbacks)
      BY <3>1, <3>2, DeliverKeeps DEF Reported
    <3>4. PluginTypeOK' /\ DelayAsAsked'
      BY <3>1, <3>3 DEF PluginInv, PluginTypeOK, DelayAsAsked, hostVars, vars
    <3> QED BY <3>1, <3>3, <3>4 DEF PluginInv, ClampsReported, hostVars
  <2>7. CASE Cleanup
    <3>1. /\ UNCHANGED <<vars, hostVars, pending, invoked, panicked>>
          /\ closed' = TRUE /\ (pending = <<>> \/ panicked)
      BY <2>7 DEF Cleanup, Logger!Close
    <3>2. Reported' = Reported
      BY <3>1 DEF Reported
    <3>3. PluginTypeOK' /\ DelayAsAsked'
      BY <3>1 DEF PluginInv, PluginTypeOK, DelayAsAsked, hostVars, vars
    <3> QED BY <3>1, <3>2, <3>3 DEF PluginInv, ClampsReported, hostVars
  <2>8. CASE UNCHANGED pluginVars
    BY <2>2, <2>8 DEF pluginVars, hostVars, vars, PluginInv, PluginTypeOK
  <2>9. CASE Cleaned
    BY <2>8, <2>9 DEF Cleaned
  <2> QED BY <2>1, <2>3, <2>4, <2>5, <2>6, <2>7, <2>8, <2>9 DEF PluginNext
<1> QED BY <1>1, <1>2, PluginUsesLine, DelayTypeCorrect, PTL DEF PluginSpec

\* Type correctness of the plugin.
THEOREM PluginTypeCorrect == PluginSpec => []PluginTypeOK
<1>1. PluginInv => PluginTypeOK
  BY DEF PluginInv
<1> QED BY <1>1, PluginInductive, PTL

\* Every delay within the port's bounds fits the buffer, at every sample rate,
\* and is used rounded down; outside them the nearest bound is used.
THEOREM PluginDelays == PluginSpec => []DelayAsAsked
<1>1. PluginInv => DelayAsAsked
  BY DEF PluginInv
<1> QED BY <1>1, PluginInductive, PTL

\* Clamps are reported in order, none twice, none lost that the queue had room
\* for, and all of them printed when cleanup returns unless printing panicked.
THEOREM PluginReports == PluginSpec => []ClampsReported
<1>1. PluginInv => ClampsReported
  BY DEF PluginInv
<1> QED BY <1>1, PluginInductive, PTL
-------------------------------------------------------------------------------
(***************************************************************************)
(* The plugin's log sink.                                                  *)
(***************************************************************************)
\* Each step of the plugin is a step of its log sink, or leaves it alone: it
\* logs only values of the feedback port, and nothing once cleanup closed it.
THEOREM PluginUsesLog == PluginSpec => Logger!Spec
<1>1. PluginInit => Logger!Init
  BY DEF PluginInit
<1>2. [PluginNext]_pluginVars => [Logger!Next]_(Logger!vars)
  <2> SUFFICES ASSUME [PluginNext]_pluginVars
               PROVE  Logger!Next \/ UNCHANGED Logger!vars
    OBVIOUS
  <2> USE DEF Logger!vars, logVars
  <2>1. ASSUME NEW ms \in Millis, NEW f \in RawFeedbacks, NEW m \in RawMixes,
               RunBegins(ms, f, m)
        PROVE  Logger!Next \/ UNCHANGED Logger!vars
    BY <2>1 DEF RunBegins, Report, Logger!Next
  <2>2. CASE HostActivates
    BY <2>2 DEF HostActivates
  <2>3. ASSUME NEW x \in Inputs, RunFrame(x)
        PROVE  UNCHANGED Logger!vars
    BY <2>3 DEF RunFrame
  <2>4. CASE RunReturns
    BY <2>4 DEF RunReturns
  <2>5. CASE DrainerReports \/ Cleanup
    BY <2>5 DEF DrainerReports, Cleanup, Logger!Next
  <2>6. CASE Cleaned \/ UNCHANGED pluginVars
    BY <2>6 DEF Cleaned, pluginVars
  <2> QED BY <2>1, <2>2, <2>3, <2>4, <2>5, <2>6 DEF PluginNext
<1> QED BY <1>1, <1>2, PTL DEF PluginSpec, Logger!Spec
-------------------------------------------------------------------------------
(***************************************************************************)
(* NaN in the feedback loop: how it gets in, that it stays, and that a     *)
(* plugin which was never given one recovers.                              *)
(***************************************************************************)
\* A sum, a share and a blend are a NaN only if something in them is.
LEMMA NaNFromNaN ==
    ASSUME NEW a \in Sample, NEW b \in Sample, NEW p \in Sample
    PROVE  /\ Plus(a, b) = NaN => NaN \in {a, b}
           /\ Percent(p, a) = NaN => NaN \in {p, a}
           /\ Blend(p, a, b) = NaN => NaN \in {p, a, b}
<1>1. ASSUME NaN \notin {a, b} PROVE Plus(a, b) # NaN
  <2>1. a \in Int /\ b \in Int
    BY <1>1 DEF Sample
  <2>2. a + b \in Int
    BY <2>1
  <2> QED BY <1>1, <2>2, NaNAssumption DEF Plus
<1>2. ASSUME NaN \notin {p, a} PROVE Percent(p, a) # NaN
  <2>1. p \in Int /\ a \in Int
    BY <1>2 DEF Sample
  <2>2. p * a \in Int
    BY <2>1
  <2>3. (p * a) \div 100 \in Int
    BY <2>2, ModDef
  <2> QED BY <1>2, <2>3, NaNAssumption DEF Percent
<1>3. ASSUME NaN \notin {p, a, b} PROVE Blend(p, a, b) # NaN
  <2>1. p \in Int /\ a \in Int /\ b \in Int
    BY <1>3 DEF Sample
  <2>2. (100 - p) * a + p * b \in Int
    BY <2>1
  <2>3. ((100 - p) * a + p * b) \div 100 \in Int
    BY <2>2, ModDef
  <2> QED BY <1>3, <2>3, NaNAssumption DEF Blend
<1> QED BY <1>1, <1>2, <1>3

\* The doors: a NaN comes into a slot only with the frame that writes it, from
\* the slot that frame reads, from the audio input, from the feedback port, or,
\* with one buffer behind In and Out, from the mix port.
NaNHasASource ==
    \A s \in Slots : buffer[s] # NaN /\ buffer'[s] = NaN =>
        /\ s = write_index
        /\ \/ buffer[ReadIndex] = NaN
           \/ NaN \in Inputs /\ Frame(NaN)
           \/ args.feedback = NaN
           \/ InPlace /\ args.mix = NaN

\* There is no other door, for every buffer, every input and every control.
THEOREM NaNEnters == Spec => [][NaNHasASource]_vars
<1>1. ASSUME TypeOK, Next
      PROVE  NaNHasASource
  <2>1. ASSUME NEW x \in Inputs, Frame(x)
        PROVE  NaNHasASource
    <3> DEFINE delayed == buffer[ReadIndex]
               y == Blend(args.mix, x, delayed)
    <3>1. /\ delayed \in Sample /\ x \in Sample /\ y \in Sample
          /\ args.mix \in Sample /\ args.feedback \in Sample
      BY <1>1, FrameType DEF TypeOK
    <3>2. PICK z \in Reread(x, y) : buffer' = [buffer EXCEPT ![write_index] = Stored(z, delayed)]
      BY <2>1 DEF Frame
    <3>3. z = x \/ (InPlace /\ z = y)
      BY <3>2 DEF Reread
    <3>4. ASSUME Stored(z, delayed) = NaN
          PROVE  NaN \in {x, delayed, args.feedback} \/ (InPlace /\ args.mix = NaN)
      <4>1. z \in Sample /\ Percent(args.feedback, delayed) \in Sample
        BY <3>1, <3>3, SampleClosed
      <4>2. z = NaN \/ NaN \in {args.feedback, delayed}
        BY <3>1, <3>4, <4>1, NaNFromNaN DEF Stored
      <4>3. y = NaN => NaN \in {args.mix, x, delayed}
        BY <3>1, NaNFromNaN
      <4> HIDE DEF y, delayed
      <4> QED BY <3>3, <4>2, <4>3
    <3>5. x = NaN => NaN \in Inputs /\ Frame(NaN)
      BY <2>1
    <3>6. \A s \in Slots : s # write_index => buffer'[s] = buffer[s]
      BY <1>1, <3>2 DEF TypeOK
    <3>7. buffer'[write_index] = Stored(z, delayed)
      BY <1>1, <3>2 DEF TypeOK
    <3> HIDE DEF y
    <3> QED BY <3>4, <3>5, <3>6, <3>7 DEF NaNHasASource
  <2>2. CASE Activate
    <3>1. \A s \in Slots : buffer'[s] # NaN
      BY <2>2, NaNAssumption DEF Activate
    <3> QED BY <3>1 DEF NaNHasASource
  <2>3. ASSUME UNCHANGED buffer
        PROVE  NaNHasASource
    BY <2>3 DEF NaNHasASource
  <2> QED BY <1>1, <2>1, <2>2, <2>3 DEF Next, ApplyStarts, ApplyReturns
<1>2. TypeOK /\ [Next]_vars => [NaNHasASource]_vars
  BY <1>1
<1> QED BY <1>2, DelayTypeCorrect, PTL DEF Spec

\* A frame that reads a NaN stores one, whatever the input and the controls.
LEMMA NaNIsFedBack == \A z : Stored(z, NaN) = NaN
  BY DEF Stored, Plus, Percent

\* How far back the frames of a run with delay d read.
Period(d) == IF AtMost(d, BufferLen - 1) = 0 THEN BufferLen ELSE AtMost(d, BufferLen - 1)

\* Every NaN is stored again, one period later.
Repeats(period) ==
    \A k \in 1 .. Len(written) :
        written[k] = NaN /\ k + period <= Len(written) => written[k + period] = NaN

\* With one delay all the time a single NaN, from whichever port it came, is
\* stored every period until activate: neither a feedback of zero nor an input
\* and controls that are numbers again end it.
THEOREM NaNRepeats ==
    ASSUME NEW d \in Nat, DelaySamples = {d}
    PROVE  Spec => []Repeats(Period(d))
<1> DEFINE Fixed == running => Lag = Period(d)
           Inv == Fixed /\ Repeats(Period(d))
<1>1. Init => Inv
  BY DEF Init, Repeats
<1>2. DelayInv /\ Inv /\ [Next]_vars => Inv'
  <2> SUFFICES ASSUME DelayInv, Inv, [Next]_vars
               PROVE  Inv'
    OBVIOUS
  <2>1. ASSUME UNCHANGED <<written, args>>, running' => running
        PROVE  Inv'
    BY <2>1 DEF Lag, Repeats, Period
  <2>2. ASSUME NEW e \in DelaySamples, NEW f \in Feedbacks, NEW m \in Mixes, ApplyStarts(e, f, m)
        PROVE  Inv'
    <3>1. args'.delay = AtMost(d, BufferLen - 1) /\ UNCHANGED written
      BY <2>2 DEF ApplyStarts
    <3> QED BY <3>1 DEF Lag, Repeats, Period
  <2>3. ASSUME NEW x \in Inputs, Frame(x)
        PROVE  Inv'
    <3> DEFINE n == Len(written)
               p == Period(d)
    <3>1. running /\ Lag = p /\ UNCHANGED <<running, args>>
      BY <2>3 DEF Frame
    <3>2. PICK z : written' = Append(written, Stored(z, buffer[ReadIndex]))
      BY <2>3 DEF Frame
    <3>3. written \in Seq(Sample) /\ n \in Nat /\ p \in Int /\ 0 < p
      <4>1. args.delay \in Slots /\ written \in Seq(Sample)
        BY DEF DelayInv, TypeOK
      <4>2. Lag \in Int /\ 0 < Lag
        BY LagPositive DEF DelayInv
      <4> QED BY <3>1, <4>1, <4>2
    <3>4. /\ Len(written') = n + 1
          /\ written'[n + 1] = Stored(z, buffer[ReadIndex])
          /\ \A k \in 1 .. n : written'[k] = written[k]
      BY <3>2, <3>3
    <3>5. Fixed'
      BY <3>1 DEF Lag, Period
    <3>6. ASSUME NEW k \in 1 .. n + 1, written'[k] = NaN, k + p <= n + 1
          PROVE  written'[k + p] = NaN
      <4> HIDE DEF n, p
      <4>1. k \in 1 .. n /\ written[k] = NaN
        BY <3>3, <3>4, <3>6
      <4>2. CASE k + p = n + 1
        <5>1. k = n - p + 1 /\ p <= n
          BY <3>3, <4>1, <4>2
        <5>2. buffer[ReadIndex] = NaN
          BY <3>1, <4>1, <5>1, ReadsBackHolds DEF ReadsBack, n
        <5> QED BY <3>4, <4>2, <5>2, NaNIsFedBack
      <4>3. CASE k + p # n + 1
        <5>1. k + p \in 1 .. n
          BY <3>3, <3>6, <4>1, <4>3
        <5>2. written[k + p] = NaN
          BY <3>3, <4>1, <5>1 DEF Repeats, n, p
        <5> QED BY <3>4, <5>1, <5>2
      <4> QED BY <4>2, <4>3
    <3>7. Repeats(Period(d))'
      <4>1. Period(d)' = Period(d)
        BY DEF Period
      <4> QED BY <3>4, <3>6, <4>1 DEF Repeats
    <3> QED BY <3>5, <3>7
  <2>4. CASE Activate
    BY <2>4 DEF Activate, Repeats, Lag, Period
  <2>5. CASE ApplyReturns
    BY <2>1, <2>5 DEF ApplyReturns
  <2>6. CASE UNCHANGED vars
    BY <2>1, <2>6 DEF vars
  <2> QED BY <2>2, <2>3, <2>4, <2>5, <2>6 DEF Next
<1>3. Inv => Repeats(Period(d))
  OBVIOUS
<1> QED BY <1>1, <1>2, <1>3, DelayInductive, PTL DEF Spec

\* The inductive invariant: no NaN is stored, and one is played only in a run
\* that was given one.
CleanInv ==
    /\ \A s \in Slots : buffer[s] # NaN
    /\ running => args.feedback # NaN /\ (args.mix = NaN => asked.mix = NaN)
    /\ out = NaN => sane = 0

\* A frame stores a number, and plays one if the mix is one.
LEMMA FrameClean ==
    ASSUME TypeOK, CleanInv, ~InPlace, NEW x \in Inputs, x # NaN, RunFrame(x)
    PROVE  CleanInv'
<1> DEFINE delayed == buffer[ReadIndex]
           y == Blend(args.mix, x, delayed)
           v == Stored(x, delayed)
<1>1. /\ running /\ args.feedback \in Int /\ args.mix \in Sample
      /\ args.mix = NaN => asked.mix = NaN
  <2>1. running
    BY DEF RunFrame, Frame
  <2> QED BY <2>1 DEF CleanInv, TypeOK, Sample
<1>2. x \in Int /\ delayed \in Int
  <2>1. ReadIndex \in Slots /\ delayed \in Sample /\ x \in Sample
    BY FrameType
  <2> QED BY <2>1 DEF CleanInv, Sample
<1>3. v # NaN
  <2>1. Percent(args.feedback, delayed) = (args.feedback * delayed) \div 100
    BY <1>1, <1>2, NaNAssumption DEF Percent
  <2>2. args.feedback * delayed \in Int
    BY <1>1, <1>2
  <2>3. (args.feedback * delayed) \div 100 \in Int
    BY <2>2, ModDef
  <2>4. x + (args.feedback * delayed) \div 100 \in Int
    BY <1>2, <2>3
  <2> QED BY <1>2, <2>1, <2>3, <2>4, NaNAssumption DEF Stored, Plus
<1>4. out' = y /\ buffer' = [buffer EXCEPT ![write_index] = v]
  <2>1. Reread(x, y) = {x}
    BY DEF Reread
  <2> QED BY <2>1 DEF RunFrame, Frame
<1>5. \A s \in Slots : buffer'[s] # NaN
  <2> HIDE DEF v
  <2> QED BY <1>3, <1>4 DEF CleanInv, TypeOK
<1>6. y = NaN => asked.mix = NaN
  <2> SUFFICES ASSUME asked.mix # NaN PROVE y # NaN
    OBVIOUS
  <2>1. args.mix \in Int
    BY <1>1 DEF Sample
  <2>2. y = ((100 - args.mix) * x + args.mix * delayed) \div 100
    BY <1>2, <2>1, NaNAssumption DEF Blend
  <2>3. (100 - args.mix) * x + args.mix * delayed \in Int
    BY <1>2, <2>1
  <2>4. y \in Int
    BY <2>2, <2>3, ModDef
  <2> QED BY <2>4, NaNAssumption
<1>7. out' = NaN => sane' = 0
  BY <1>4, <1>6 DEF RunFrame
<1> QED BY <1>1, <1>5, <1>7 DEF CleanInv, RunFrame, Frame

\* With separate buffers, a host that supplies NaN neither on the audio input
\* nor on the feedback port may write it to the other controls: the output is a
\* number again in the first frame whose mix is one.  NaNEnters and NaNRepeats
\* show why both have to be excluded.
THEOREM PluginRecovers ==
    ASSUME ~InPlace, NaN \notin RawFeedbacks, NaN \notin Inputs
    PROVE  PluginSpec => []Recovers
<1>1. PluginInit => CleanInv
  <2>1. 0 # NaN
    BY NaNAssumption
  <2> QED BY <2>1 DEF PluginInit, Init, CleanInv
<1>2. TypeOK /\ CleanInv /\ [PluginNext]_pluginVars => CleanInv'
  <2> SUFFICES ASSUME TypeOK, CleanInv, [PluginNext]_pluginVars
               PROVE  CleanInv'
    OBVIOUS
  <2>1. ASSUME NEW ms \in Millis, NEW f \in RawFeedbacks, NEW m \in RawMixes,
               RunBegins(ms, f, m)
        PROVE  CleanInv'
    <3>1. ASSUME NEW raw \in Int, NEW hi \in Nat
          PROVE  Clamp(raw, 0, hi) # NaN
      BY NaNAssumption DEF Clamp, AtMost
    <3>2. f \in Int /\ (m \in Int \/ m = NaN)
      BY PluginAssumption
    <3>3. Feedback(f) # NaN /\ (Mix(m) = NaN => m = NaN)
      BY <3>1, <3>2 DEF Feedback, FeedbackCap, Mix
    <3>4. /\ args'.feedback = Feedback(f) /\ args'.mix = Mix(m) /\ asked'.mix = m
          /\ UNCHANGED <<buffer, out, sane>>
      BY <2>1 DEF RunBegins, ApplyStarts
    <3> QED BY <3>3, <3>4 DEF CleanInv
  <2>2. CASE HostActivates
    <3>1. buffer' = [s \in Slots |-> 0] /\ sane' = 0 /\ UNCHANGED <<running, args, asked>>
      BY <2>2 DEF HostActivates, Activate
    <3> QED BY <3>1, NaNAssumption DEF CleanInv
  <2>3. ASSUME NEW x \in Inputs, RunFrame(x)
        PROVE  CleanInv'
    BY <2>3, FrameClean
  <2>4. CASE RunReturns
    BY <2>4 DEF RunReturns, ApplyReturns, CleanInv
  <2>5. CASE DrainerReports \/ Cleanup
    BY <2>5 DEF DrainerReports, Cleanup, vars, hostVars, CleanInv
  <2>6. CASE Cleaned \/ UNCHANGED pluginVars
    BY <2>6 DEF Cleaned, pluginVars, vars, hostVars, CleanInv
  <2> QED BY <2>1, <2>2, <2>3, <2>4, <2>5, <2>6 DEF PluginNext
<1>3. CleanInv => Recovers
  <2>1. BufferSize \in Nat
    BY BufferLonger, PluginAssumption
  <2> QED BY <2>1 DEF CleanInv, Recovers
<1> QED BY <1>1, <1>2, <1>3, PluginUsesLine, DelayTypeCorrect, PTL DEF PluginSpec

\* Once every slot holds a NaN, no control the host may write and no number of
\* frames brings the plugin back: only activate does.
THEOREM OnlyActivateRecovers ==
    Spec => [][(\A s \in Slots : buffer[s] = NaN) =>
                   Activate \/ \A s \in Slots : buffer'[s] = NaN]_vars
<1>1. ASSUME TypeOK, Next, \A s \in Slots : buffer[s] = NaN
      PROVE  Activate \/ \A s \in Slots : buffer'[s] = NaN
  <2>1. ASSUME NEW x \in Inputs, Frame(x)
        PROVE  \A s \in Slots : buffer'[s] = NaN
    <3>1. buffer[ReadIndex] = NaN
      BY <1>1, FrameType, <2>1
    <3>2. buffer' = [buffer EXCEPT ![write_index] = NaN]
      BY <2>1, <3>1, NaNIsFedBack DEF Frame
    <3> QED BY <1>1, <3>2 DEF TypeOK
  <2> QED BY <1>1, <2>1 DEF Next, ApplyStarts, ApplyReturns
<1>2. TypeOK /\ [Next]_vars =>
        [(\A s \in Slots : buffer[s] = NaN) =>
             Activate \/ \A s \in Slots : buffer'[s] = NaN]_vars
  BY <1>1
<1> QED BY <1>2, DelayTypeCorrect, PTL DEF Spec
=============================================================================
