\* drain_one may panic at any event; the owner may drop the sink at any time.
SPECIFICATION FairSinkSpec
CONSTANTS
    Capacity = 2
    Modulus = 4
    Items = {a, b}
    NoItem = NoItem
    MaxPush = 5
    MayPanic = TRUE
INVARIANTS SinkTypeOK FlushedUnlessPanicked SinkInv
PROPERTIES EventLogSpec QuietAfterDrop LastPassEnds DropReturns EventuallyInvoked
