\* Capacity divides 2^w: counters wrap any number of times.
SPECIFICATION FairSpec
CONSTANTS
    Capacity = 2
    Modulus = 4
    Items = {a, b}
    NoItem = NoItem
    MaxPush = 6
INVARIANTS TypeOK NoDataRace NoOverwrite ExactlyOnce RefusalsAreTrue IndInv
PROPERTIES FifoSpec Delivered RetrySucceeds
