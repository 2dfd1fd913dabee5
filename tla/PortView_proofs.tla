----------------------------- MODULE PortView_proofs -----------------------------
(***************************************************************************)
(* Proofs about PortView, for every port table, every host memory and all  *)
(* plugin code the borrow checker accepts.                                 *)
(***************************************************************************)
EXTENDS PortView, TLAPS

USE PortViewAssumption DEF Port

\* What the invariant says holds when the host calls run.
LEMMA InitInv == Init => PortViewInv
<1> SUFFICES ASSUME Init PROVE PortViewInv
  OBVIOUS
<1>1. TypeOK
  BY DEF Init, TypeOK
<1>2. Footprint /\ BorrowInv
  BY DEF Init, Footprint, BorrowInv
<1> QED
  BY <1>1, <1>2 DEF PortViewInv

\* A call of an accessor touches no memory.
LEMMA LendSafe ==
  ASSUME TypeOK, Footprint, NEW ok, NEW new, Lend(ok, new), ok => new \subseteq Borrow
  PROVE  TypeOK' /\ Footprint'
<1>1. TypeOK'
  BY DEF Lend, TypeOK
<1>2. Footprint'
  BY DEF Lend, Footprint, Writes
<1> QED
  BY <1>1, <1>2

\* A panic lends nothing.
LEMMA PanicKeeps ==
  ASSUME BorrowInv, NEW ok, NEW new, Lend(ok, new), ~ok
  PROVE  BorrowInv'
  BY DEF Lend, BorrowInv

\* Every step preserves it.
LEMMA StepInv == PortViewInv /\ [Next]_vars => PortViewInv'
<1> SUFFICES ASSUME PortViewInv, [Next]_vars PROVE PortViewInv'
  OBVIOUS
<1> USE DEF PortViewInv
<1>f. frames \in 0 .. BlockLen
  BY DEF TypeOK
<1>1. ASSUME NEW p \in Indices, AudioInput(p) PROVE PortViewInv'
  <2> PICK v \in Unused : Lend(IsKind(p, "AudioInput"), {Shared(v, p, frames)})
    BY <1>1 DEF AudioInput
  <2> DEFINE in == Shared(v, p, frames)
  <2>1. IsKind(p, "AudioInput") => {in} \subseteq Borrow
    BY <1>f DEF IsKind, Shared, Borrow, Unused
  <2>2. Readable /\ Lend(IsKind(p, "AudioInput"), {in})
    BY <1>1 DEF AudioInput
  <2>3. in.port = p /\ in.write = FALSE /\ in.exclusive = FALSE
    BY DEF Shared
  <2> HIDE DEF in
  <2>4. ASSUME IsKind(p, "AudioInput") PROVE BorrowInv'
    BY <2>2, <2>3, <2>4 DEF Lend, Readable, IsKind, BorrowInv
  <2> QED
    BY <2>1, <2>2, <2>4, LendSafe, PanicKeeps
<1>2. ASSUME NEW p \in Indices, ControlInput(p) PROVE PortViewInv'
  <2>1. Lend(IsKind(p, "ControlInput"), {})
    BY <1>2 DEF ControlInput
  <2>2. ASSUME IsKind(p, "ControlInput") PROVE BorrowInv'
    BY <2>1, <2>2 DEF Lend, BorrowInv
  <2> QED
    BY <2>1, <2>2, LendSafe, PanicKeeps
<1>3. ASSUME NEW p \in Indices, AudioOutput(p) PROVE PortViewInv'
  <2> PICK v \in Vars : Lend(IsKind(p, "AudioOutput"), {Exclusive(v, p, TRUE, frames)})
    BY <1>3 DEF AudioOutput
  <2> DEFINE out == Exclusive(v, p, TRUE, frames)
  <2>1. IsKind(p, "AudioOutput") => {out} \subseteq Borrow
    BY <1>f DEF IsKind, Exclusive, Borrow
  <2>2. Writable /\ Lend(IsKind(p, "AudioOutput"), {out})
    BY <1>3 DEF AudioOutput
  <2>3. out.port = p /\ out.write = TRUE /\ out.exclusive = TRUE /\ out.len = frames
    BY DEF Exclusive
  <2> HIDE DEF out
  <2>4. ASSUME IsKind(p, "AudioOutput") PROVE BorrowInv'
    BY <2>2, <2>3, <2>4 DEF Lend, Writable, IsKind, BorrowInv
  <2> QED
    BY <2>1, <2>2, <2>4, LendSafe, PanicKeeps
<1>4. ASSUME NEW p \in Indices, ControlOutput(p) PROVE PortViewInv'
  <2> PICK v \in Vars : Lend(IsKind(p, "ControlOutput"), {Exclusive(v, p, TRUE, 1)})
    BY <1>4 DEF ControlOutput
  <2> DEFINE value == Exclusive(v, p, TRUE, 1)
  <2>1. IsKind(p, "ControlOutput") => {value} \subseteq Borrow
    BY DEF IsKind, Exclusive, Borrow
  <2>2. Writable /\ Lend(IsKind(p, "ControlOutput"), {value})
    BY <1>4 DEF ControlOutput
  <2>3. value.port = p /\ value.write = TRUE /\ value.exclusive = TRUE /\ value.len = 1
    BY DEF Exclusive
  <2> HIDE DEF value
  <2>4. ASSUME IsKind(p, "ControlOutput") PROVE BorrowInv'
    BY <2>2, <2>3, <2>4 DEF Lend, Writable, IsKind, BorrowInv
  <2> QED
    BY <2>1, <2>2, <2>4, LendSafe, PanicKeeps
<1>5. ASSUME NEW p \in Indices, NEW q \in Indices, AudioInOut(p, q) PROVE PortViewInv'
  <2> DEFINE in(v) == Exclusive(v, p, FALSE, frames)
             out(w) == Exclusive(w, q, TRUE, frames)
             ok == p # q /\ IsKind(p, "AudioInput") /\ IsKind(q, "AudioOutput")
  <2>1. PICK v \in Vars, w \in Vars : Lend(ok, {in(v), out(w)})
    BY <1>5 DEF AudioInOut
  <2> DEFINE i == in(v)
             o == out(w)
  <2>2. ok => {i, o} \subseteq Borrow
    BY <1>f DEF IsKind, Exclusive, Borrow
  <2>3. Writable /\ Lend(ok, {i, o})
    BY <1>5, <2>1 DEF AudioInOut
  <2>4. /\ i.port = p /\ i.write = FALSE /\ i.exclusive = TRUE
        /\ o.port = q /\ o.write = TRUE /\ o.exclusive = TRUE /\ o.len = frames
    BY DEF Exclusive
  <2>5. ok => Kinds[p] = "AudioInput" /\ Kinds[q] = "AudioOutput"
    BY DEF IsKind
  <2> HIDE DEF i, o, ok
  <2>6. ASSUME ok PROVE BorrowInv'
    <3>1. borrows' = {i, o} /\ UNCHANGED frames
      BY <2>3, <2>6 DEF Lend, Writable
    <3>2. Kinds[p] # "ControlOutput" /\ Kinds[q] # "ControlOutput"
      BY <2>5, <2>6
    <3> QED
      BY <2>4, <2>5, <2>6, <3>1, <3>2 DEF BorrowInv
  <2> QED
    BY <2>2, <2>3, <2>6, LendSafe, PanicKeeps
<1>6. ASSUME NEW b \in borrows, Release(b) PROVE PortViewInv'
  <2>1. TypeOK'
    BY <1>6 DEF Release, TypeOK
  <2>2. Footprint' /\ BorrowInv'
    BY <1>6 DEF Release, Footprint, Writes, BorrowInv
  <2> QED
    BY <2>1, <2>2
<1>7. ASSUME NEW b \in borrows, NEW i \in 0 .. BlockLen - 1, NEW x \in Samples, Store(b, i, x)
      PROVE  PortViewInv'
  <2>1. TypeOK'
    BY <1>7 DEF Store, TypeOK
  <2>2. Writes(ptrs[b.port], i)
    BY <1>7 DEF Store, Writes, BorrowInv, Borrow, TypeOK
  <2>3. Footprint'
    BY <1>7, <2>2 DEF Store, Footprint, Writes, TypeOK
  <2>4. BorrowInv'
    BY <1>7 DEF Store, BorrowInv
  <2> QED
    BY <2>1, <2>3, <2>4
<1>8. CASE UNCHANGED vars
  BY <1>8 DEF vars, TypeOK, Footprint, Writes, BorrowInv
<1> QED
  BY <1>1, <1>2, <1>3, <1>4, <1>5, <1>6, <1>7, <1>8 DEF Next

\* The invariant of the accessors.
THEOREM PortViewSafe == Spec => []PortViewInv
  BY InitInv, StepInv, PTL DEF Spec

\* Whatever the plugin's code does, a run writes the samples its output ports
\* name and nothing else of the host's memory.
THEOREM PortViewFootprint == Spec => []Footprint
<1>1. PortViewInv => Footprint
  BY DEF PortViewInv
<1> QED
  BY <1>1, PortViewSafe, PTL

\* Unless the host connected an input and an output to one cell, borrows that
\* are disjoint by port are disjoint in memory.
LEMMA ApartDisjoint ==
  ASSUME PortViewInv, InOutApart(ptrs)
  PROVE  BorrowsDisjoint
<1> SUFFICES ASSUME NEW b \in borrows, NEW c \in borrows, b # c, b.write \/ c.write
             PROVE  ptrs[b.port] # ptrs[c.port]
  BY DEF BorrowsDisjoint
<1>1. b.port \in Port /\ c.port \in Port /\ b.write \in BOOLEAN /\ c.write \in BOOLEAN
  BY DEF PortViewInv, TypeOK, Borrow
<1>2. b.exclusive \/ c.exclusive
  BY <1>1 DEF PortViewInv, BorrowInv
<1>3. b.exclusive /\ c.exclusive /\ c.write = ~b.write
  BY <1>1, <1>2 DEF PortViewInv, BorrowInv
<1>4. CASE b.write
  <2>1. Kinds[b.port] = "AudioOutput" /\ Kinds[c.port] = "AudioInput"
    BY <1>1, <1>3, <1>4 DEF PortViewInv, BorrowInv
  <2> QED BY <1>1, <2>1 DEF InOutApart
<1>5. CASE c.write
  <2>1. Kinds[c.port] = "AudioOutput" /\ Kinds[b.port] = "AudioInput"
    BY <1>1, <1>3, <1>5 DEF PortViewInv, BorrowInv
  <2> QED BY <1>1, <2>1 DEF InOutApart
<1> QED
  BY <1>4, <1>5

\* No two live borrows reach one sample unless both only read it, under a host
\* that does not process in place, whatever else it lets share a cell.
THEOREM PortViewDisjoint ==
  ASSUME \A p \in Connections : InOutApart(p)
  PROVE  Spec => []BorrowsDisjoint
<1>1. PortViewInv => BorrowsDisjoint
  BY ApartDisjoint DEF PortViewInv, TypeOK
<1> QED
  BY <1>1, PortViewSafe, PTL

\* That much is needed: audio_in_out on a pair of ports the host connected to
\* one cell lends a &[Data] and a &mut [Data] that overlap.
THEOREM InPlaceOverlaps ==
  ASSUME PortViewInv, NEW in_port \in Indices, NEW out_port \in Indices,
         IsKind(in_port, "AudioInput"), IsKind(out_port, "AudioOutput"),
         ptrs[in_port] = ptrs[out_port], frames > 0, AudioInOut(in_port, out_port)
  PROVE  ~BorrowsDisjoint'
<1>1. in_port # out_port
  BY DEF IsKind
<1>2. PICK v \in Vars, w \in Vars :
         borrows' = borrows \cup {Exclusive(v, in_port, FALSE, frames),
                                  Exclusive(w, out_port, TRUE, frames)}
  BY <1>1 DEF AudioInOut, Lend
<1> DEFINE b == Exclusive(v, in_port, FALSE, frames)
           c == Exclusive(w, out_port, TRUE, frames)
<1>3. /\ b.port = in_port /\ c.port = out_port /\ c.write = TRUE
      /\ b.len = frames /\ c.len = frames
  BY DEF Exclusive
<1>4. UNCHANGED ptrs
  BY DEF AudioInOut, Lend
<1> HIDE DEF b, c
<1>5. b \in borrows' /\ c \in borrows'
  BY <1>2 DEF b, c
<1>6. b # c
  BY <1>1, <1>3
<1> QED
  BY <1>3, <1>4, <1>5, <1>6 DEF BorrowsDisjoint

\* The samples behind a live &[Data] do not change, given such a host.
THEOREM PortViewStable ==
  ASSUME \A p \in Connections : InOutApart(p)
  PROVE  Spec => SharedStable
<1> DEFINE Stable == \A b \in borrows \cap borrows' :
                        ~b.write => \A i \in 0 .. b.len - 1 :
                           memory'[ptrs[b.port]][i] = memory[ptrs[b.port]][i]
<1>1. PortViewInv /\ [Next]_vars => Stable
  <2> SUFFICES ASSUME PortViewInv, [Next]_vars, NEW b \in borrows, ~b.write,
                      NEW i \in 0 .. b.len - 1
               PROVE  memory'[ptrs[b.port]][i] = memory[ptrs[b.port]][i]
    OBVIOUS
  <2>1. ASSUME NEW c \in borrows, NEW j \in 0 .. BlockLen - 1, NEW x \in Samples, Store(c, j, x)
        PROVE  memory'[ptrs[b.port]][i] = memory[ptrs[b.port]][i]
    <3>1. BorrowsDisjoint
      BY ApartDisjoint DEF PortViewInv, TypeOK
    <3>2. b.len \in Int /\ c.len \in Int /\ 0 < b.len /\ 0 < c.len
      BY <2>1 DEF Store, PortViewInv, TypeOK, Borrow
    <3>3. ptrs[b.port] # ptrs[c.port]
      BY <2>1, <3>1, <3>2 DEF Store, BorrowsDisjoint
    <3> QED
      BY <2>1, <3>3 DEF Store, PortViewInv, TypeOK, Borrow
  <2>2. CASE UNCHANGED memory
    BY <2>2
  <2> QED
    BY <2>1, <2>2 DEF Next, vars, AudioInput, AudioOutput, ControlInput, ControlOutput,
                      AudioInOut, Lend, Release
<1> QED
  BY <1>1, PortViewSafe, PTL DEF Spec, SharedStable
=============================================================================
