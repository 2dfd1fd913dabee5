------------------------------- MODULE DelayLine -------------------------------
(***************************************************************************)
(* apply_delay of examples/delay, the buffer it works on, and the parts of *)
(* instantiate and activate that set the buffer up.  A call of apply_delay *)
(* is one step per frame, so that everything the plugin keeps between      *)
(* frames and between runs is visible.                                     *)
(*                                                                         *)
(* As a sample NaN stands for the infinities too: the sums and products of *)
(* the loop never make a finite number of one.                             *)
(*                                                                         *)
(* A definition named Mutant_... is a plausible fault in the definition    *)
(* that follows it; the specification does not use it.                     *)
(***************************************************************************)
EXTENDS Samples, Sequences

CONSTANTS BufferLen,     \* buffer.len()
          Inputs,        \* the samples a host may supply, NaN among them,
          Peak,          \*   and no number louder than this
          DelaySamples,  \* arguments of apply_delay: delay_samples,
          Feedbacks,     \*   feedback in percent,
          Mixes,         \*   mix in percent
          InPlace,       \* the host connected one buffer to In and Out
          MaxFrames      \* bound on the frames between two activates, for TLC

ASSUME DelayAssumption ==
    /\ BufferLen \in Nat \ {0}
    /\ DelaySamples \subseteq Nat
    /\ Peak \in Nat
    /\ Inputs \subseteq {NaN} \cup (-Peak .. Peak)
    /\ Feedbacks \subseteq {NaN} \cup Int
    /\ Mixes \subseteq {NaN} \cup Int
    /\ InPlace \in BOOLEAN
    /\ MaxFrames \in Nat

VARIABLES buffer,       \* Delay::buffer
          write_index,  \* Delay::write_index
          running,      \* inside apply_delay
          args,         \* delay (capped), feedback and mix of that call
          out,          \* the last output sample
          written       \* history: what was stored since the last activate

vars == <<buffer, write_index, running, args, out, written>>

Slots == 0 .. BufferLen - 1

Init ==
    /\ buffer = [s \in Slots |-> 0]
    /\ write_index = 0
    /\ running = FALSE
    /\ args = [delay |-> 0, feedback |-> 0, mix |-> 0]
    /\ out = 0
    /\ written = <<>>
-------------------------------------------------------------------------------
Mutant_KeepsIndex ==
    /\ ~running
    /\ buffer' = [s \in Slots |-> 0]
    /\ written' = <<>>
    /\ UNCHANGED <<write_index, running, args, out>>

Mutant_KeepsBuffer ==
    /\ ~running
    /\ write_index' = 0
    /\ written' = <<>>
    /\ UNCHANGED <<buffer, running, args, out>>

Activate ==
    /\ ~running
    /\ buffer' = [s \in Slots |-> 0]
    /\ write_index' = 0
    /\ written' = <<>>
    /\ UNCHANGED <<running, args, out>>

Mutant_NoLengthCap(delay_samples, feedback, mix) ==
    /\ ~running
    /\ running' = TRUE
    /\ args' = [delay |-> delay_samples, feedback |-> feedback, mix |-> mix]
    /\ UNCHANGED <<buffer, write_index, out, written>>

\* run calls apply_delay, which caps the delay.
ApplyStarts(delay_samples, feedback, mix) ==
    /\ ~running
    /\ running' = TRUE
    /\ args' = [delay |-> AtMost(delay_samples, BufferLen - 1),
                feedback |-> feedback, mix |-> mix]
    /\ UNCHANGED <<buffer, write_index, out, written>>

ReadIndex == (write_index + BufferLen - args.delay) % BufferLen

\* The second read of *in_sample, after *out_sample has been written.  With
\* one buffer behind both slices the compiler may reload it or not.
Reread(x, y) == IF InPlace THEN {x, y} ELSE {x}

Stored(x, delayed) == Plus(x, Percent(args.feedback, delayed))

\* One iteration of the loop.
Frame(x) ==
    LET delayed == buffer[ReadIndex]
        y == Blend(args.mix, x, delayed)
    IN  /\ running
        /\ Len(written) < MaxFrames
        /\ out' = y
        /\ \E in_sample \in Reread(x, y) :
              /\ buffer' = [buffer EXCEPT ![write_index] = Stored(in_sample, delayed)]
              /\ written' = Append(written, Stored(in_sample, delayed))
        /\ write_index' = (write_index + 1) % BufferLen
        /\ UNCHANGED <<running, args>>

ApplyReturns ==
    /\ running
    /\ running' = FALSE
    /\ UNCHANGED <<buffer, write_index, args, out, written>>

Next ==
    \/ Activate
    \/ \E d \in DelaySamples, f \in Feedbacks, m \in Mixes : ApplyStarts(d, f, m)
    \/ \E x \in Inputs : Frame(x)
    \/ ApplyReturns

Spec == Init /\ [][Next]_vars
-------------------------------------------------------------------------------
Sample == {NaN} \cup Int

\* Type correctness; both indices stay inside the buffer.
TypeOK ==
    /\ buffer \in [Slots -> Sample]
    /\ write_index \in Slots
    /\ running \in BOOLEAN
    /\ args \in [delay : Slots, feedback : Sample, mix : Sample]
    /\ out \in Sample
    /\ written \in Seq(Sample)

\* The delay line is a tape: every frame mixes in, and feeds back, what was
\* stored `delay` samples before it, across runs with other delays, across
\* wrap-arounds of the buffer and after activate.
Echo == INSTANCE EchoTape WITH tape <- written, Longest <- BufferLen - 1
EchoSpec == Echo!Spec

Loud == 20 * Peak
Within(limit) == {s \in Sample : s # NaN /\ -limit <= s /\ s <= limit}

\* A NaN, if the host supplies one: on the audio input or on a control port.
SuppliedNaN == {NaN} \cap (Inputs \cup Feedbacks \cup Mixes)

\* What may be heard.
Tame == SuppliedNaN \cup Within(Loud)

\* The cap on the feedback is there "to avoid runaway gain": with inputs no
\* louder than Peak, no number stored or played is ever louder than
\* Peak / (1 - 0.95), and no NaN is made of numbers.
NoRunaway ==
    /\ \A s \in Slots : buffer[s] \in Tame
    /\ out \in Tame
-------------------------------------------------------------------------------
(***************************************************************************)
(* The inductive invariant: the buffer holds the last BufferLen samples    *)
(* stored, each where its number says, and silence where none was.         *)
(***************************************************************************)
BufferInv ==
    /\ write_index = Len(written) % BufferLen
    /\ \A k \in 1 .. Len(written) :
          Len(written) < k + BufferLen => buffer[(k - 1) % BufferLen] = written[k]
    /\ \A s \in Slots : Len(written) <= s => buffer[s] = 0

DelayInv == TypeOK /\ BufferInv

(***************************************************************************)
(* What the two promises need.  A delay of zero reads the slot about to be *)
(* overwritten, the oldest of all; a buffer of one slot has no other; and  *)
(* with one buffer behind In and Out the feedback may be taken twice.      *)
(***************************************************************************)
TapSafe == ~InPlace /\ 0 \notin DelaySamples /\ BufferLen > 1
GainSafe ==
    /\ ~InPlace
    /\ Feedbacks \subseteq {NaN} \cup (0 .. 95)
    /\ Mixes \subseteq {NaN} \cup (0 .. 100)
=============================================================================
