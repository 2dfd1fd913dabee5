-------------------------------- MODULE PortView --------------------------------
(***************************************************************************)
(* The Ports value run_shim lends to one call of a plugin's run (port.rs), *)
(* used by plugin code of which only one thing is known: that the borrow   *)
(* checker accepted it.  What an accessor returned is live until the code  *)
(* is done with it, and a live borrow of a &mut self accessor allows no    *)
(* other call on the view.                                                 *)
(*                                                                         *)
(* A definition named Mutant_... is a plausible fault in the definition    *)
(* that follows it; the specification does not use it.                     *)
(***************************************************************************)
EXTENDS Integers

CONSTANTS Kinds,        \* the port table: the kind of each port
          Cells,        \* the host's buffers and control cells,
          BlockLen,     \*   of this many samples each
          Samples,      \* values of a sample
          Connections,  \* port pointers a host may have set: ports to cells
          Supplies,     \* contents of the cells when it calls run
          Indices,      \* port indices plugin code may pass
          Vars          \* its variables, each of which holds one result

Port == DOMAIN Kinds
PortKind == {"AudioInput", "AudioOutput", "ControlInput", "ControlOutput"}

ASSUME PortViewAssumption ==
    /\ Kinds \in [Port -> PortKind]
    /\ Connections \subseteq [Port -> Cells]
    /\ Supplies \subseteq [Cells -> [0 .. BlockLen - 1 -> Samples]]
    /\ BlockLen \in Nat \ {0}

VARIABLES ptrs,      \* Ports::ptrs
          frames,    \* Ports::frames
          memory,    \* contents of the host's cells
          supplied,  \* history: those contents when the host called run
          borrows,   \* the live slices and references
          aborted    \* an accessor panicked, which extern "C" turns into an abort

vars == <<ptrs, frames, memory, supplied, borrows, aborted>>

\* `write`: a &mut [Data] or &mut Data; `exclusive`: from a &mut self accessor.
\* The samples reached are 0 .. len - 1 of the port's cell.
Borrow == [var : Vars, port : Port, write : BOOLEAN, exclusive : BOOLEAN, len : 0 .. BlockLen]

Shared(v, port, len) ==
    [var |-> v, port |-> port, write |-> FALSE, exclusive |-> FALSE, len |-> len]
Exclusive(v, port, write, len) ==
    [var |-> v, port |-> port, write |-> write, exclusive |-> TRUE, len |-> len]

\* What the borrow checker asks of a call with receiver &self or &mut self.
Readable == ~aborted /\ \A b \in borrows : ~b.exclusive
Writable == ~aborted /\ borrows = {}

Unused == {v \in Vars : \A b \in borrows : b.var # v}

Mutant_OnlyInBounds(port, kind) == port \in Port

\* assert_kind passes; otherwise it panics.
IsKind(port, kind) == port \in Port /\ Kinds[port] = kind

Init ==
    /\ ptrs \in Connections
    /\ frames \in 0 .. BlockLen
    /\ memory \in Supplies
    /\ supplied = memory
    /\ borrows = {}
    /\ aborted = FALSE
-------------------------------------------------------------------------------
\* The code gets new borrows, or the call panics, which aborts the process in
\* run_shim: from Rust 1.81, or with panic = "abort"; it is undefined otherwise.
Lend(ok, new) ==
    /\ IF ok THEN borrows' = borrows \cup new /\ UNCHANGED aborted
             ELSE aborted' = TRUE /\ UNCHANGED borrows
    /\ UNCHANGED <<ptrs, frames, memory, supplied>>

AudioInput(port) ==
    /\ Readable
    /\ \E v \in Unused : Lend(IsKind(port, "AudioInput"), {Shared(v, port, frames)})

\* control_input returns the value itself.
ControlInput(port) ==
    /\ Readable
    /\ Lend(IsKind(port, "ControlInput"), {})

Mutant_AudioOutputOfRef(port) ==
    /\ Readable
    /\ \E v \in Unused :
          Lend(IsKind(port, "AudioOutput"),
               {[Exclusive(v, port, TRUE, frames) EXCEPT !.exclusive = FALSE]})

AudioOutput(port) ==
    /\ Writable
    /\ \E v \in Vars : Lend(IsKind(port, "AudioOutput"), {Exclusive(v, port, TRUE, frames)})

Mutant_ControlIsBuffer(port) ==
    /\ Writable
    /\ \E v \in Vars : Lend(IsKind(port, "ControlOutput"), {Exclusive(v, port, TRUE, frames)})

ControlOutput(port) ==
    /\ Writable
    /\ \E v \in Vars : Lend(IsKind(port, "ControlOutput"), {Exclusive(v, port, TRUE, 1)})

AudioInOut(in_port, out_port) ==
    /\ Writable
    /\ \E v, w \in Vars :
          Lend(/\ in_port # out_port
               /\ IsKind(in_port, "AudioInput")
               /\ IsKind(out_port, "AudioOutput"),
               {Exclusive(v, in_port, FALSE, frames), Exclusive(w, out_port, TRUE, frames)})

\* The code stores a sample through a slice or reference it holds.
Store(b, i, x) ==
    /\ ~aborted
    /\ b \in borrows /\ b.write /\ i < b.len
    /\ memory' = [memory EXCEPT ![ptrs[b.port]][i] = x]
    /\ UNCHANGED <<ptrs, frames, supplied, borrows, aborted>>

\* The last use of a slice or reference.
Release(b) ==
    /\ ~aborted
    /\ b \in borrows
    /\ borrows' = borrows \ {b}
    /\ UNCHANGED <<ptrs, frames, memory, supplied, aborted>>

Next ==
    \/ \E p \in Indices :
        \/ AudioInput(p) \/ AudioOutput(p) \/ ControlInput(p) \/ ControlOutput(p)
        \/ \E q \in Indices : AudioInOut(p, q)
    \/ \E b \in borrows : Release(b) \/ \E i \in 0 .. BlockLen - 1, x \in Samples : Store(b, i, x)

Spec == Init /\ [][Next]_vars
-------------------------------------------------------------------------------
\* Type correctness.
TypeOK ==
    /\ ptrs \in Connections
    /\ frames \in 0 .. BlockLen
    /\ memory \in [Cells -> [0 .. BlockLen - 1 -> Samples]]
    /\ supplied \in [Cells -> [0 .. BlockLen - 1 -> Samples]]
    /\ borrows \subseteq Borrow
    /\ aborted \in BOOLEAN

\* What a run may write: the first `frames` samples of its audio outputs and
\* the value of its control outputs.
Writes(cell, i) ==
    \E p \in Port :
        /\ ptrs[p] = cell
        /\ \/ Kinds[p] = "AudioOutput" /\ i < frames
           \/ Kinds[p] = "ControlOutput" /\ i = 0

\* Whatever the code does, panic included, everything else in the host's memory
\* is at every moment as the host supplied it: the inputs, the tail of a buffer
\* longer than the block, and cells connected to no port.
Footprint ==
    \A cell \in Cells : \A i \in 0 .. BlockLen - 1 :
        memory[cell][i] # supplied[cell][i] => Writes(cell, i)

\* Two live borrows that reach one sample only read it: the premise of every
\* SAFETY comment of port.rs, and of the compiler.
BorrowsDisjoint ==
    \A b, c \in borrows :
        b # c /\ (b.write \/ c.write) /\ b.len > 0 /\ c.len > 0
            => ptrs[b.port] # ptrs[c.port]

\* A sample does not change under a live &[Data] that reaches it.
SharedStable ==
    [][\A b \in borrows \cap borrows' :
          ~b.write => \A i \in 0 .. b.len - 1 :
                         memory'[ptrs[b.port]][i] = memory[ptrs[b.port]][i]]_vars
-------------------------------------------------------------------------------
\* A host that does not process in place.  Nothing else is asked of it: outputs
\* may share a cell, and so may a control port and any other.
InOutApart(p) ==
    \A i, j \in Port : Kinds[i] = "AudioInput" /\ Kinds[j] = "AudioOutput" => p[i] # p[j]

\* Why the borrows stay disjoint: each is of a port of the kind its accessor
\* asked for, and one of an exclusive call is alone, but for the slice of the
\* other kind that came with it, which only an audio slice has.
BorrowInv ==
    \A b \in borrows :
        /\ ~b.write => Kinds[b.port] = "AudioInput"
        /\ b.write => \/ Kinds[b.port] = "AudioOutput" /\ b.len = frames
                      \/ Kinds[b.port] = "ControlOutput" /\ b.len = 1
        /\ b.write => b.exclusive
        /\ b.exclusive =>
              \A c \in borrows \ {b} :
                  c.exclusive /\ c.write = ~b.write /\ Kinds[b.port] # "ControlOutput"

PortViewInv == TypeOK /\ Footprint /\ BorrowInv
=============================================================================
