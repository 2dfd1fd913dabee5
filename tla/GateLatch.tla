------------------------------- MODULE GateLatch -------------------------------
(***************************************************************************)
(* The decisions of apply_gate in examples/noise-gate, without its state.  *)
(*                                                                         *)
(* A definition named Mutant_... is a plausible fault in the definition    *)
(* that follows it; the specification does not use it.                     *)
(***************************************************************************)
EXTENDS Samples

\* Comparisons with a NaN are false.
Above(a, b) == NaN \notin {a, b} /\ a > b
Below(a, b) == NaN \notin {a, b} /\ a < b
Abs(x) == IF x = NaN THEN NaN ELSE IF x < 0 THEN -x ELSE x

Mutant_CloseFirst(open, x, open_th, close_th) ==
    IF Below(Abs(x), close_th) THEN FALSE ELSE IF Above(Abs(x), open_th) THEN TRUE ELSE open
Mutant_NoHysteresis(open, x, open_th, close_th) == Above(Abs(x), open_th)

\* The next state of the latch.
Latch(open, x, open_th, close_th) ==
    IF Above(Abs(x), open_th) THEN TRUE ELSE IF Below(Abs(x), close_th) THEN FALSE ELSE open

Gated(open, x) == IF open THEN x ELSE 0
=============================================================================
