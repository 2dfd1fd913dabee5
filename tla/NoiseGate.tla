------------------------------- MODULE NoiseGate -------------------------------
(***************************************************************************)
(* The plugin of examples/noise-gate: a latch driven by two thresholds,    *)
(* kept from frame to frame and from run to run, and reset by activate.    *)
(***************************************************************************)
EXTENDS GateLatch, Sequences

CONSTANTS Inputs,      \* the samples a host may supply
          Thresholds,  \* values the host may write to the threshold ports
          MaxFrames    \* bound on the frames between two activates, for TLC

ASSUME GateAssumption ==
    /\ Inputs \subseteq {NaN} \cup Int
    /\ Thresholds \subseteq {NaN} \cup Int
    /\ MaxFrames \in Nat

VARIABLES is_open,    \* NoiseGate::is_open
          running,    \* inside apply_gate
          open_threshold, close_threshold,  \* arguments of that call
          out,        \* the last output sample
          heard       \* history: samples since activate, and their thresholds

vars == <<is_open, running, open_threshold, close_threshold, out, heard>>

Init ==
    /\ is_open = FALSE
    /\ running = FALSE
    /\ open_threshold = 0
    /\ close_threshold = 0
    /\ out = 0
    /\ heard = <<>>

Activate ==
    /\ ~running
    /\ is_open' = FALSE
    /\ heard' = <<>>
    /\ UNCHANGED <<running, open_threshold, close_threshold, out>>

\* run reads both thresholds once and calls apply_gate.
RunStarts(open_th, close_th) ==
    /\ ~running
    /\ running' = TRUE
    /\ open_threshold' = open_th
    /\ close_threshold' = close_th
    /\ UNCHANGED <<is_open, out, heard>>

\* One iteration of the loop of apply_gate.
Frame(x) ==
    /\ running
    /\ Len(heard) < MaxFrames
    /\ is_open' = Latch(is_open, x, open_threshold, close_threshold)
    /\ out' = Gated(is_open', x)
    /\ heard' = Append(heard, [x |-> x, open |-> open_threshold, close |-> close_threshold])
    /\ UNCHANGED <<running, open_threshold, close_threshold>>

RunReturns ==
    /\ running
    /\ running' = FALSE
    /\ UNCHANGED <<is_open, open_threshold, close_threshold, out, heard>>

Next ==
    \/ Activate
    \/ \E o \in Thresholds, c \in Thresholds : RunStarts(o, c)
    \/ \E x \in Inputs : Frame(x)
    \/ RunReturns

Spec == Init /\ [][Next]_vars
-------------------------------------------------------------------------------
Level == {NaN} \cup Int

\* Type correctness.
TypeOK ==
    /\ is_open \in BOOLEAN
    /\ running \in BOOLEAN
    /\ open_threshold \in Level /\ close_threshold \in Level
    /\ out \in Level
    /\ heard \in Seq([x : Level, open : Level, close : Level])

Opens(e) == Above(Abs(e.x), e.open)
Closes(e) == Below(Abs(e.x), e.close) /\ ~Opens(e)

\* The gate is open exactly when some sample since the last activate was above
\* its open threshold and none after it was below its close threshold without
\* being above the open one: runs and changes of thresholds in between, and
\* samples that are not numbers, do not matter.  This is the module doc's three
\* rules, stated over the whole past.
GateContract ==
    is_open <=> \E k \in 1 .. Len(heard) :
                    /\ Opens(heard[k])
                    /\ \A j \in k + 1 .. Len(heard) : ~Closes(heard[j])

\* With the thresholds the wrong way round the gate has no memory left: it is
\* "a single-threshold gate", at the open threshold.
SingleThreshold ==
    heard # <<>> =>
        LET e == heard[Len(heard)]
        IN  Above(e.close, e.open) /\ e.x # NaN =>
                /\ is_open <=> Opens(e)
                /\ out = IF Opens(e) THEN e.x ELSE 0
=============================================================================
