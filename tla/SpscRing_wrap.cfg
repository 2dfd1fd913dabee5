\* Capacity 3 does not divide 2^w = 8: the ninth item lands on a live slot.
SPECIFICATION Spec
CONSTANTS
    Capacity = 3
    Modulus = 8
    Items = {a}
    NoItem = NoItem
    MaxPush = 10
INVARIANTS NoOverwrite
