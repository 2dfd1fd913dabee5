\* A host that writes NaN to the feedback port once.
SPECIFICATION PluginSpec
CONSTANTS
    NaN = NaN
    SampleRate = 1
    Millis = {1000}
    RawFeedbacks = {NaN, 0}
    RawMixes = {50}
    BufferLen <- BufferSize
    DelaySamples <- DelayArgs
    Feedbacks <- FeedbackArgs
    Mixes <- MixArgs
    Inputs = {100}
    Peak = 100
    InPlace = FALSE
    LogCapacity = 1
    MaxClamps = 1
    MaxFrames = 7
INVARIANTS Recovers
