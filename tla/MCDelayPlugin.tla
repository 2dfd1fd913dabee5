----------------------------- MODULE MCDelayPlugin -----------------------------
\* Control values outside the port bounds, which a .cfg cannot write down.
EXTENDS DelayPlugin

MCMillis == {1999, 3000}
MCFeedbacks == {-50, 400, NaN}
MCMixes == {50}
=============================================================================
