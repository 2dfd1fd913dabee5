------------------------------ MODULE DelayPlugin ------------------------------
(***************************************************************************)
(* The plugin of examples/delay: instantiate, activate, run and cleanup    *)
(* around the delay line, with the controls as the host wrote them and the *)
(* log sink that reports a clamped feedback.                               *)
(*                                                                         *)
(* The delay line is DelayLine, whose actions are conjuncts here, with the *)
(* buffer length and the arguments the plugin computes.  The sink is       *)
(* EventLog, which LogSink implements.                                     *)
(*                                                                         *)
(* A definition named Mutant_... is a plausible fault in the definition    *)
(* that follows it; the specification does not use it.                     *)
(***************************************************************************)
EXTENDS DelayLine

CONSTANTS SampleRate,   \* argument of instantiate
          Millis,       \* values the host may write to the control ports: delay,
          RawFeedbacks, \*   feedback in percent,
          RawMixes,     \*   mix in percent
          LogCapacity,  \* LOG_CAPACITY
          MaxClamps     \* bound on the clamped runs, for TLC

VARIABLES pending, invoked, panicked, closed,  \* the log sink
          asked,    \* the controls run found in its ports
          clamped,  \* history: the feedback values run had to clamp
          sane      \* history: frames in a row of which the host supplied no NaN

logVars == <<pending, invoked, panicked, closed>>
hostVars == <<asked, clamped, sane>>
pluginVars == <<vars, logVars, hostVars>>

MaxDelayMs == 2000
FeedbackCap == 95

\* instantiate: the buffer covers MaxDelayMs and one sample more.
Mutant_NoHeadroom == (MaxDelayMs * SampleRate + 999) \div 1000
BufferSize == (MaxDelayMs * SampleRate + 999) \div 1000 + 1

\* run: a delay in milliseconds becomes whole samples.  f32::max(0.0) makes a
\* zero of a NaN.
NotNegative(ms) == IF ms # NaN /\ ms > 0 THEN ms ELSE 0
InSamples(ms) == (NotNegative(ms) * SampleRate) \div 1000

Mutant_CapOnlyLogged(raw) == raw
Feedback(raw) == Clamp(raw, 0, FeedbackCap)
Mix(raw) == Clamp(raw, 0, 100)

\* What run passes to the delay line.
DelayArgs == {InSamples(ms) : ms \in Millis}
FeedbackArgs == {Feedback(raw) : raw \in RawFeedbacks}
MixArgs == {Mix(raw) : raw \in RawMixes}

ASSUME PluginAssumption ==
    /\ SampleRate \in Nat \ {0}
    /\ Millis \subseteq {NaN} \cup Int
    /\ RawFeedbacks \subseteq {NaN} \cup Int
    /\ RawMixes \subseteq {NaN} \cup Int
    /\ LogCapacity \in Nat \ {0}
    /\ MaxClamps \in Nat
    /\ BufferLen = BufferSize
    /\ DelaySamples = DelayArgs
    /\ Feedbacks = FeedbackArgs
    /\ Mixes = MixArgs

Logger == INSTANCE EventLog WITH
             Items <- RawFeedbacks,
             Bound <- LogCapacity + 1,
             MayPanic <- TRUE
-------------------------------------------------------------------------------
PluginInit ==
    /\ Init
    /\ Logger!Init
    /\ asked = [ms |-> 0, feedback |-> 0, mix |-> 0]
    /\ clamped = <<>>
    /\ sane = 0

HostActivates ==
    /\ ~closed
    /\ Activate
    /\ sane' = 0
    /\ UNCHANGED <<logVars, asked, clamped>>

\* NaN > cap is false.
TooHigh(raw) == raw # NaN /\ raw > FeedbackCap

\* The events the sink has accepted.
Reported == invoked \o pending

\* log: the sink takes the event, or its queue looks full and it is lost.  A
\* queue that never took LogCapacity events cannot look full.
Report(raw) ==
    \/ Logger!Accept(raw)
    \/ Len(Reported) >= LogCapacity /\ UNCHANGED logVars

RunBegins(ms, feedback, mix) ==
    /\ ~closed
    /\ ApplyStarts(InSamples(ms), Feedback(feedback), Mix(mix))
    /\ asked' = [ms |-> ms, feedback |-> feedback, mix |-> mix]
    /\ IF TooHigh(feedback)
       THEN /\ Len(clamped) < MaxClamps
            /\ Report(feedback)
            /\ clamped' = Append(clamped, feedback)
       ELSE UNCHANGED <<logVars, clamped>>
    /\ UNCHANGED sane

RunFrame(x) ==
    /\ Frame(x)
    /\ sane' = IF NaN \in {x, asked.feedback, asked.mix} THEN 0 ELSE sane + 1
    /\ UNCHANGED <<logVars, asked, clamped>>

RunReturns ==
    /\ ApplyReturns
    /\ UNCHANGED <<logVars, asked, clamped, sane>>

\* The drainer thread prints an event; eprintln! panics if stderr is gone.
DrainerReports ==
    /\ Logger!Deliver
    /\ UNCHANGED <<vars, hostVars>>

\* cleanup drops the instance, and with it the sink.
Mutant_Detaches ==
    /\ ~running
    /\ ~closed
    /\ closed' = TRUE
    /\ UNCHANGED <<vars, pending, invoked, panicked, hostVars>>

Cleanup ==
    /\ ~running
    /\ Logger!Close
    /\ UNCHANGED <<vars, hostVars>>

Cleaned == closed /\ UNCHANGED pluginVars

PluginNext ==
    \/ HostActivates
    \/ \E ms \in Millis, f \in RawFeedbacks, m \in RawMixes : RunBegins(ms, f, m)
    \/ \E x \in Inputs : RunFrame(x)
    \/ RunReturns
    \/ DrainerReports
    \/ Cleanup
    \/ Cleaned

PluginSpec == PluginInit /\ [][PluginNext]_pluginVars
-------------------------------------------------------------------------------
\* Type correctness.
PluginTypeOK ==
    /\ TypeOK
    /\ pending \in Seq(RawFeedbacks)
    /\ invoked \in Seq(RawFeedbacks)
    /\ panicked \in BOOLEAN /\ closed \in BOOLEAN
    /\ asked \in [ms : Sample, feedback : Sample, mix : Sample]
    /\ clamped \in Seq(RawFeedbacks)
    /\ sane \in Nat

\* A delay the port's bounds allow is used as asked, rounded down to whole
\* samples: the buffer is never too short for it.  Outside the bounds the
\* nearest bound is used, and for a NaN the lower one.
DelayAsAsked ==
    running =>
        IF asked.ms \in 0 .. MaxDelayMs
        THEN asked.ms * SampleRate \in 1000 * args.delay .. 1000 * args.delay + 999
        ELSE args.delay = IF asked.ms = NaN \/ asked.ms < 0 THEN 0 ELSE InSamples(MaxDelayMs)

\* s is t without some of its elements.
Thinned(s, t) ==
    \E at \in [DOMAIN s -> DOMAIN t] :
        /\ \A i, j \in DOMAIN s : i < j => at[i] < at[j]
        /\ \A i \in DOMAIN s : s[i] = t[at[i]]

\* Clamps are reported in order and none twice, and when cleanup returns every
\* clamp the queue had room for has been printed, unless printing panicked.
ClampsReported ==
    /\ Thinned(Reported, clamped)
    /\ Len(clamped) <= LogCapacity => Reported = clamped
    /\ closed /\ ~panicked => pending = <<>>

\* "The plugin must remain stable" when a host supplies a value outside the
\* bounds: once the controls and the input have been numbers for as long as the
\* buffer remembers, the output is a number.
Recovers == sane > BufferSize => out # NaN
=============================================================================
