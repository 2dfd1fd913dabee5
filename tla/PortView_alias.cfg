\* A host that processes in place, which PROPERTIES of the plugin allow.
SPECIFICATION Spec
CONSTANTS
    Kinds <- MCKinds
    Cells = {"a", "b", "c", "d", "e"}
    BlockLen = 2
    Samples = {0, 1}
    Connections <- InPlace
    Supplies <- MCSupplies
    Indices = {0, 1, 2, 3, 4, 5, 6}
    Vars = {"v", "w"}
INVARIANT BorrowsDisjoint
CHECK_DEADLOCK FALSE
