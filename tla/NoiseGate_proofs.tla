--------------------------- MODULE NoiseGate_proofs ---------------------------
(***************************************************************************)
(* Proofs about NoiseGate for every set of samples and thresholds and any  *)
(* number of frames, runs and activates.                                   *)
(***************************************************************************)
EXTENDS NoiseGate, SequenceTheorems, TLAPS
-------------------------------------------------------------------------------
\* What a run does to the latch is decided by the sample's entry alone.
LEMMA LatchByEntry ==
    ASSUME NEW open \in BOOLEAN, NEW x, NEW o, NEW c,
           NEW e, e = [x |-> x, open |-> o, close |-> c]
    PROVE  Latch(open, x, o, c) = (Opens(e) \/ (open /\ ~Closes(e)))
<1>1. e.x = x /\ e.open = o /\ e.close = c
  OBVIOUS
<1>2. Above(Abs(x), o) \in BOOLEAN /\ Below(Abs(x), c) \in BOOLEAN
  BY DEF Above, Below
<1> QED BY <1>1, <1>2 DEF Latch, Opens, Closes

\* The gate by its past: open if one sample opened it and none closed it after.
OpenAfter(s) ==
    \E k \in 1 .. Len(s) : Opens(s[k]) /\ \A j \in k + 1 .. Len(s) : ~Closes(s[j])

\* One more sample opens the gate, closes it or leaves it as the past did.
LEMMA OneMoreSample ==
    ASSUME NEW S, NEW s \in Seq(S), NEW e \in S
    PROVE  OpenAfter(Append(s, e)) <=> Opens(e) \/ (OpenAfter(s) /\ ~Closes(e))
<1> DEFINE t == Append(s, e)
           n == Len(s)
<1>1. n \in Nat /\ Len(t) = n + 1 /\ t[n + 1] = e /\ \A k \in 1 .. n : t[k] = s[k]
  OBVIOUS
<1>2. ASSUME Opens(e)
      PROVE  OpenAfter(t)
  BY <1>1, <1>2 DEF OpenAfter
<1>3. ASSUME OpenAfter(s), ~Closes(e)
      PROVE  OpenAfter(t)
  <2>1. PICK k \in 1 .. n : Opens(s[k]) /\ \A j \in k + 1 .. n : ~Closes(s[j])
    BY <1>3 DEF OpenAfter
  <2>2. \A j \in k + 1 .. n + 1 : ~Closes(t[j])
    BY <2>1, <1>1, <1>3
  <2> HIDE DEF t, n
  <2> QED BY <2>1, <2>2, <1>1 DEF OpenAfter
<1>4. ASSUME OpenAfter(t), ~Opens(e)
      PROVE  OpenAfter(s) /\ ~Closes(e)
  <2> HIDE DEF t
  <2>1. PICK k \in 1 .. n + 1 : Opens(t[k]) /\ \A j \in k + 1 .. n + 1 : ~Closes(t[j])
    BY <1>1, <1>4 DEF OpenAfter
  <2>2. k # n + 1
    BY <2>1, <1>1, <1>4
  <2>3. k \in 1 .. n /\ ~Closes(e)
    BY <2>1, <2>2, <1>1
  <2>4. Opens(s[k]) /\ \A j \in k + 1 .. n : ~Closes(s[j])
    BY <2>1, <2>3, <1>1
  <2> QED BY <2>3, <2>4 DEF OpenAfter
<1> QED BY <1>2, <1>3, <1>4

\* Before the first sample the gate is closed.
LEMMA NothingOpens == OpenAfter(<<>>) = FALSE
<1>1. Len(<<>>) = 0
  OBVIOUS
<1>2. 1 .. Len(<<>>) = {}
  BY <1>1
<1> QED BY <1>2, Zenon DEF OpenAfter

Entries == [x : Level, open : Level, close : Level]

\* The invariant: the latch is what the past says.
GateInv ==
    /\ is_open \in BOOLEAN
    /\ heard \in Seq(Entries)
    /\ open_threshold \in Level /\ close_threshold \in Level
    /\ is_open = OpenAfter(heard)

\* The latch is what its past says, at every step.
THEOREM GateInductive == Spec => []GateInv
<1>1. Init => GateInv
  <2> SUFFICES ASSUME Init
               PROVE  GateInv
    OBVIOUS
  <2>1. heard = <<>> /\ is_open = FALSE
    BY DEF Init
  <2>2. is_open = OpenAfter(heard)
    BY <2>1, NothingOpens
  <2>3. heard \in Seq(Entries) /\ is_open \in BOOLEAN
    <3>1. heard \in Seq(Entries)
      BY <2>1
    <3>2. is_open \in BOOLEAN
      BY <2>1
    <3> QED BY <3>1, <3>2
  <2>4. open_threshold \in Level /\ close_threshold \in Level
    BY DEF Init, Level
  <2> QED BY <2>2, <2>3, <2>4 DEF GateInv
<1>2. GateInv /\ [Next]_vars => GateInv'
  <2> SUFFICES ASSUME GateInv, [Next]_vars
               PROVE  GateInv'
    OBVIOUS
  <2>1. CASE Activate
    <3>1. heard' = <<>> /\ is_open' = FALSE
      BY <2>1 DEF Activate
    <3>2. is_open' = OpenAfter(heard')
      BY <3>1, NothingOpens
    <3>3. heard' \in Seq(Entries) /\ is_open' \in BOOLEAN
      <4>1. heard' \in Seq(Entries)
        BY <3>1
      <4>2. is_open' \in BOOLEAN
        BY <3>1
      <4> QED BY <4>1, <4>2
    <3> QED BY <2>1, <3>2, <3>3 DEF Activate, GateInv
  <2>2. ASSUME NEW o \in Thresholds, NEW c \in Thresholds, RunStarts(o, c)
        PROVE  GateInv'
    BY <2>2, GateAssumption DEF RunStarts, GateInv, Level
  <2>3. ASSUME NEW x \in Inputs, Frame(x)
        PROVE  GateInv'
    <3> DEFINE e == [x |-> x, open |-> open_threshold, close |-> close_threshold]
    <3>1. e \in Entries
      BY GateAssumption DEF GateInv, Entries, Level
    <3>2. is_open' = (Opens(e) \/ (is_open /\ ~Closes(e)))
      BY <2>3, LatchByEntry DEF Frame, GateInv
    <3>3. heard' = Append(heard, e)
      BY <2>3 DEF Frame
    <3> HIDE DEF e
    <3>4. OpenAfter(heard') <=> Opens(e) \/ (OpenAfter(heard) /\ ~Closes(e))
      BY <3>1, <3>3, OneMoreSample DEF GateInv
    <3>5. is_open' \in BOOLEAN /\ is_open' = OpenAfter(heard')
      <4>1. OpenAfter(heard') \in BOOLEAN /\ is_open = OpenAfter(heard)
        BY DEF OpenAfter, GateInv
      <4> QED BY <3>2, <3>4, <4>1
    <3>6. heard' \in Seq(Entries)
      BY <3>1, <3>3 DEF GateInv
    <3> QED BY <2>3, <3>5, <3>6 DEF Frame, GateInv
  <2>4. CASE RunReturns
    BY <2>4 DEF RunReturns, GateInv
  <2>5. CASE UNCHANGED vars
    BY <2>5 DEF vars, GateInv
  <2> QED BY <2>1, <2>2, <2>3, <2>4, <2>5 DEF Next
<1> QED BY <1>1, <1>2, PTL DEF Spec

\* The gate is open exactly when its past says so, whatever the thresholds, the
\* samples and the division of the signal into runs.
THEOREM GateFollowsItsPast == Spec => []GateContract
<1>1. GateInv => GateContract
  BY DEF GateInv, GateContract, OpenAfter
<1> QED BY <1>1, GateInductive, PTL
-------------------------------------------------------------------------------
\* With close_threshold above open_threshold a sample that does not open the gate
\* closes it.
LEMMA NoMiddle ==
    ASSUME NEW e \in Entries, Above(e.close, e.open), e.x # NaN, ~Opens(e)
    PROVE  Closes(e)
<1>1. e.x \in Int /\ e.open \in Int /\ e.close \in Int /\ e.close > e.open
  BY NaNAssumption DEF Entries, Level, Above
<1>2. Abs(e.x) \in Int /\ Abs(e.x) # NaN
  BY <1>1, NaNAssumption DEF Abs
<1>3. Abs(e.x) <= e.open
  BY <1>1, <1>2, NaNAssumption DEF Opens, Above
<1> QED BY <1>1, <1>2, <1>3, NaNAssumption DEF Closes, Below

\* With the thresholds the wrong way round the gate is a single-threshold gate,
\* whatever came before.
THEOREM WrongWayRound == Spec => []SingleThreshold
<1>1. Init => SingleThreshold
  BY DEF Init, SingleThreshold
<1>2. GateInv /\ SingleThreshold /\ [Next]_vars => SingleThreshold'
  <2> SUFFICES ASSUME GateInv, SingleThreshold, [Next]_vars
               PROVE  SingleThreshold'
    OBVIOUS
  <2>1. CASE Activate
    BY <2>1 DEF Activate, SingleThreshold
  <2>2. ASSUME NEW o \in Thresholds, NEW c \in Thresholds, RunStarts(o, c)
        PROVE  SingleThreshold'
    BY <2>2 DEF RunStarts, SingleThreshold, Opens
  <2>3. ASSUME NEW x \in Inputs, Frame(x)
        PROVE  SingleThreshold'
    <3> DEFINE e == [x |-> x, open |-> open_threshold, close |-> close_threshold]
    <3>1. e \in Entries /\ e.x = x
      BY GateAssumption DEF GateInv, Entries, Level
    <3>2. /\ is_open' = (Opens(e) \/ (is_open /\ ~Closes(e)))
          /\ out' = Gated(is_open', e.x)
      BY <2>3, LatchByEntry DEF Frame, GateInv
    <3>3. heard' = Append(heard, e) /\ heard \in Seq(Entries)
      BY <2>3 DEF Frame, GateInv
    <3> HIDE DEF e
    <3>4. heard'[Len(heard')] = e
      BY <3>1, <3>3, AppendProperties
    <3>5. ASSUME Above(e.close, e.open), e.x # NaN
          PROVE  (is_open' <=> Opens(e)) /\ out' = IF Opens(e) THEN e.x ELSE 0
      <4>1. is_open' <=> Opens(e)
        BY <3>1, <3>2, <3>5, NoMiddle
      <4> QED BY <3>2, <4>1 DEF Gated
    <3> QED BY <3>4, <3>5 DEF SingleThreshold, Opens
  <2>4. CASE RunReturns
    BY <2>4 DEF RunReturns, SingleThreshold
  <2>5. CASE UNCHANGED vars
    BY <2>5 DEF vars, SingleThreshold
  <2> QED BY <2>1, <2>2, <2>3, <2>4, <2>5 DEF Next
<1> QED BY <1>1, <1>2, GateInductive, PTL DEF Spec
=============================================================================
