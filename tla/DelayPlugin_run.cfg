\* Controls in and out of bounds, NaN on the audio input and on the feedback
\* port, delays of one sample and more, separate buffers, a log queue of one
\* event.
SPECIFICATION PluginSpec
CONSTANTS
    NaN = NaN
    SampleRate = 1
    Millis <- MCMillis
    RawFeedbacks <- MCFeedbacks
    RawMixes <- MCMixes
    BufferLen <- BufferSize
    DelaySamples <- DelayArgs
    Feedbacks <- FeedbackArgs
    Mixes <- MixArgs
    Inputs = {NaN, 0, 100}
    Peak = 100
    InPlace = FALSE
    LogCapacity = 1
    MaxClamps = 2
    MaxFrames = 6
INVARIANTS PluginTypeOK NoRunaway DelayInv DelayAsAsked ClampsReported
PROPERTIES EchoSpec
