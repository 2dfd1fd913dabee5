-------------------------------- MODULE Samples --------------------------------
(***************************************************************************)
(* The f32 samples and controls of the example plugins, as integers.  A    *)
(* gain is in percent, a product is rounded down, and NaN is a value of    *)
(* its own that every operation passes on.                                 *)
(*                                                                         *)
(* A set of numbers and NaN is written with {NaN} first, here and in the   *)
(* modules about samples: of Int \cup {NaN} the prover's SMT translation   *)
(* would believe that it has integers only.                                *)
(***************************************************************************)
EXTENDS Integers

CONSTANT NaN

ASSUME NaNAssumption == NaN \notin Int

AtMost(a, b) == IF a <= b THEN a ELSE b

Plus(a, b) == IF NaN \in {a, b} THEN NaN ELSE a + b

Percent(p, s) == IF NaN \in {p, s} THEN NaN ELSE (p * s) \div 100

\* (1 - mix) * dry + mix * wet
Blend(mix, dry, wet) ==
    IF NaN \in {mix, dry, wet} THEN NaN ELSE ((100 - mix) * dry + mix * wet) \div 100

\* f32::clamp: a NaN stays a NaN.
Clamp(v, lo, hi) ==
    IF v = NaN THEN NaN ELSE IF v < lo THEN lo ELSE AtMost(v, hi)
=============================================================================
