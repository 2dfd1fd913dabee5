------------------------------ MODULE MCNoiseGate ------------------------------
\* Samples on both sides of zero, at, above and below the thresholds.
EXTENDS NoiseGate

MCInputs == {-4, 0, 1, 2, NaN}
=============================================================================
