\* Thresholds in either order, equal, and changed between runs.
SPECIFICATION Spec
CONSTANTS
    NaN = NaN
    Inputs <- MCInputs
    Thresholds = {1, 3, NaN}
    MaxFrames = 3
INVARIANTS GateContract SingleThreshold
