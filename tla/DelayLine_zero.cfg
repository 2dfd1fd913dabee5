\* A delay of zero, which the port's bounds allow.
SPECIFICATION Spec
CONSTANTS
    NaN = NaN
    BufferLen = 3
    Inputs = {0, 100}
    Peak = 100
    DelaySamples = {0}
    Feedbacks = {0}
    Mixes = {100}
    InPlace = FALSE
    MaxFrames = 5
PROPERTIES EchoSpec
