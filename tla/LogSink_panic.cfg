\* drain_one may panic: what was logged after the event is lost.
SPECIFICATION SinkSpec
CONSTANTS
    Capacity = 2
    Modulus = 4
    Items = {a, b}
    NoItem = NoItem
    MaxPush = 5
    MayPanic = TRUE
INVARIANTS InvokedForAll
