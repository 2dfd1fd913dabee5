\* Three threads that may all be first.
SPECIFICATION Spec
CONSTANTS
    Threads = {1, 2, 3}
    Plugins <- MCPlugins
    WithNul = {"a NUL b"}
    MaxIndex = 1
    NULL = NULL
INVARIANTS Ownership HostReadsPlugin
PROPERTIES NeverMutated EveryCallReturns
CHECK_DEADLOCK FALSE
