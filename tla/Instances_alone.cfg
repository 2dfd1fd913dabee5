\* Two gates, runs of up to two frames, two buffers.
SPECIFICATION Spec
CONSTANTS
    NaN = NaN
    Handles = {h1, h2}
    Buffers = {b1, b2}
    BlockLen = 2
    Knobs = {"open", "close"}
    Null = Null
    Controls <- MCControls
    States = {FALSE, TRUE}
    Fresh = FALSE
    Reset <- MCReset
    Step <- MCStep
    Cells <- MCCells
    Levels = {0, 1, 3}
    Silence = 0
    Fills = {1, 3}
    Values = {1, 2}
    Settings <- MCSettings
    InplaceBroken = FALSE
SYMMETRY Symmetry
INVARIANTS RunsAsAlone InstancesInv
