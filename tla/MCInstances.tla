------------------------------ MODULE MCInstances ------------------------------
\* Instances of the noise gate (examples/noise-gate) between a few buffers: two
\* of them can share a buffer, work in place, or feed each other.
EXTENDS Instances, GateLatch, TLC

MCControls == {2, 3}
MCReset(open) == FALSE
MCStep(open, c, x) ==
    LET next == Latch(open, x, c[2], c[3])
    IN  [state |-> next, y |-> Gated(next, x)]

MCCells(p) == CASE p \in {In, Out} -> Buffers
                [] p = 2         -> {"open"}
                [] p = 3         -> {"close"}

\* A sample of 3 opens; one of 1 closes or holds as the close threshold moves.
MCSettings(k) == IF k = "open" THEN {2} ELSE {1, 2}

Symmetry == Permutations(Handles) \cup Permutations(Buffers)
=============================================================================
