\* A host that does not process in place; any other ports may share a cell.
SPECIFICATION Spec
CONSTANTS
    Kinds <- MCKinds
    Cells = {"a", "b", "c", "d", "e"}
    BlockLen = 2
    Samples = {0, 1}
    Connections <- Apart
    Supplies <- MCSupplies
    Indices = {0, 1, 2, 3, 4, 5, 6}
    Vars = {"v", "w"}
INVARIANTS Footprint PortViewInv BorrowsDisjoint
PROPERTIES SharedStable
CHECK_DEADLOCK FALSE
