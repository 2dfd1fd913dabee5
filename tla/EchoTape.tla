------------------------------- MODULE EchoTape -------------------------------
(***************************************************************************)
(* What the feedback delay promises: a tape that only grows, onto which    *)
(* each input sample is recorded together with a share of what was         *)
(* recorded `delay` samples before, and of which the output plays a share. *)
(* The delay may change from one run to the next.  DelayLine, which has a  *)
(* circular buffer and a write index, is shown to implement this module.   *)
(***************************************************************************)
EXTENDS Samples, Sequences

CONSTANTS Inputs,        \* the samples a host may supply
          DelaySamples,  \* the delays run may ask for, in samples
          Longest,       \* the longest delay there is room for
          Feedbacks,     \* feedback shares, in percent
          Mixes          \* shares of the wet signal, in percent

VARIABLES tape,     \* everything recorded since the last activate
          running,  \* inside run
          args,     \* delay, feedback and mix of the current or last run
          out       \* the last sample played

vars == <<tape, running, args, out>>

Init ==
    /\ tape = <<>>
    /\ running = FALSE
    /\ args = [delay |-> 0, feedback |-> 0, mix |-> 0]
    /\ out = 0

RunStarts(delay, feedback, mix) ==
    /\ ~running
    /\ running' = TRUE
    /\ args' = [delay |-> AtMost(delay, Longest), feedback |-> feedback, mix |-> mix]
    /\ UNCHANGED <<tape, out>>

\* What was recorded `delay` samples before x; silence before the beginning.
Delayed(x) ==
    IF args.delay = 0 THEN x
    ELSE IF args.delay <= Len(tape) THEN tape[Len(tape) - args.delay + 1]
    ELSE 0

Play(x) ==
    /\ running
    /\ out' = Blend(args.mix, x, Delayed(x))
    /\ tape' = Append(tape, Plus(x, Percent(args.feedback, Delayed(x))))
    /\ UNCHANGED <<running, args>>

RunEnds ==
    /\ running
    /\ running' = FALSE
    /\ UNCHANGED <<tape, args, out>>

Erase ==
    /\ ~running
    /\ tape' = <<>>
    /\ UNCHANGED <<running, args, out>>

Next ==
    \/ \E d \in DelaySamples, f \in Feedbacks, m \in Mixes : RunStarts(d, f, m)
    \/ \E x \in Inputs : Play(x)
    \/ RunEnds
    \/ Erase

Spec == Init /\ [][Next]_vars
=============================================================================
