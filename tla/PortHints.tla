------------------------------- MODULE PortHints -------------------------------
(***************************************************************************)
(* What a port declaration of port.rs tells the host, and how a host reads *)
(* it.  A LADSPA bit field is the set of the positions of its bits, so     *)
(* that |= is \cup.                                                        *)
(*                                                                         *)
(* A definition named Mutant_... is a plausible fault in the definition    *)
(* that follows it; the specification does not use it.                     *)
(***************************************************************************)
EXTENDS Integers, SequencesExt

\* raw/types.rs: kinds and directions of ports.
PORT_INPUT   == {0}
PORT_OUTPUT  == {1}
PORT_CONTROL == {2}
PORT_AUDIO   == {3}

PortKind == {"AudioInput", "AudioOutput", "ControlInput", "ControlOutput"}

LadspaBits(kind) ==
    CASE kind = "AudioInput"    -> PORT_AUDIO \cup PORT_INPUT
      [] kind = "AudioOutput"   -> PORT_AUDIO \cup PORT_OUTPUT
      [] kind = "ControlInput"  -> PORT_CONTROL \cup PORT_INPUT
      [] kind = "ControlOutput" -> PORT_CONTROL \cup PORT_OUTPUT

\* raw/types.rs: the hint bits.
HINT_BOUNDED_BELOW == {0}
HINT_BOUNDED_ABOVE == {1}
HINT_TOGGLED       == {2}
HINT_SAMPLE_RATE   == {3}
HINT_LOGARITHMIC   == {4}
HINT_INTEGER       == {5}
HINT_DEFAULT_MASK  == 6 .. 9

PortDefault == {"Minimum", "Low", "Middle", "High", "Maximum",
                "Zero", "One", "Hundred", "Hz440"}

Mutant_BitPerDefault(d) ==
    CASE d = "Minimum" -> {6} [] d = "Low" -> {7} [] d = "Middle" -> {8}
      [] d = "High" -> {9}    [] OTHER -> {6, 9}

DefaultBits(d) ==
    CASE d = "Minimum" -> {6}
      [] d = "Low"     -> {7}
      [] d = "Middle"  -> {6, 7}
      [] d = "High"    -> {8}
      [] d = "Maximum" -> {6, 8}
      [] d = "Zero"    -> {9}
      [] d = "One"     -> {6, 9}
      [] d = "Hundred" -> {7, 9}
      [] d = "Hz440"   -> {6, 7, 9}

EMPTY == [descriptor |-> {}, lower |-> 0, upper |-> 0]

WithBounds(hints, lower, upper) ==
    [descriptor |-> hints.descriptor \cup HINT_BOUNDED_BELOW \cup HINT_BOUNDED_ABOVE,
     lower |-> lower, upper |-> upper]

WithDefault(hints, d) == [hints EXCEPT !.descriptor = @ \cup DefaultBits(d)]

\* integer, toggled, logarithmic and sample_rate.
WithFlag(hints, bit) == [hints EXCEPT !.descriptor = @ \cup bit]
Flags == {HINT_INTEGER, HINT_TOGGLED, HINT_LOGARITHMIC, HINT_SAMPLE_RATE}

\* A port as its author declares it: a constructor, and calls chained to it.
Declared(name, kind, calls) == [name |-> name, kind |-> kind, calls |-> calls]

audio_input(name) == Declared(name, "AudioInput", <<>>)
audio_output(name) == Declared(name, "AudioOutput", <<>>)
control_input(name, calls) == Declared(name, "ControlInput", calls)
control_output(name, calls) == Declared(name, "ControlOutput", calls)

with_bounds(lower, upper) == [method |-> "with_bounds", lower |-> lower, upper |-> upper]
with_default(d) == [method |-> "with_default", default |-> d]

\* The calls an author can chain to a constructor, with bounds from a given set.
Calls(bounds) ==
    [method : {"with_bounds"}, lower : bounds, upper : bounds]
        \cup [method : {"with_default"}, default : PortDefault]
        \cup [method : {"flag"}, bit : Flags]

Chained(hints, call) ==
    CASE call.method = "with_bounds"  -> WithBounds(hints, call.lower, call.upper)
      [] call.method = "with_default" -> WithDefault(hints, call.default)
      [] call.method = "flag"         -> WithFlag(hints, call.bit)

\* The hints of a port declared by a chain of calls.
Built(calls) == FoldLeft(Chained, EMPTY, calls)
-------------------------------------------------------------------------------
\* A host's reading of the two fields, after ladspa.h.
KindRead(bits) ==
    LET direction == bits \cap (PORT_INPUT \cup PORT_OUTPUT)
        carries == bits \cap (PORT_CONTROL \cup PORT_AUDIO)
    IN  CASE carries = PORT_AUDIO /\ direction = PORT_INPUT -> "AudioInput"
          [] carries = PORT_AUDIO /\ direction = PORT_OUTPUT -> "AudioOutput"
          [] carries = PORT_CONTROL /\ direction = PORT_INPUT -> "ControlInput"
          [] carries = PORT_CONTROL /\ direction = PORT_OUTPUT -> "ControlOutput"
          [] OTHER -> "invalid"

DefaultRead(hints) ==
    LET code == hints.descriptor \cap HINT_DEFAULT_MASK
    IN  CASE code = {} -> "none"
          [] code = {6} -> "Minimum"
          [] code = {7} -> "Low"
          [] code = {6, 7} -> "Middle"
          [] code = {8} -> "High"
          [] code = {6, 8} -> "Maximum"
          [] code = {9} -> "Zero"
          [] code = {6, 9} -> "One"
          [] code = {7, 9} -> "Hundred"
          [] code = {6, 7, 9} -> "Hz440"
          [] OTHER -> "invalid"

BoundsRead(hints) ==
    [lower |-> IF HINT_BOUNDED_BELOW \subseteq hints.descriptor
               THEN {hints.lower} ELSE {},
     upper |-> IF HINT_BOUNDED_ABOVE \subseteq hints.descriptor
               THEN {hints.upper} ELSE {}]

FlagsRead(hints) == {bit \in Flags : bit \subseteq hints.descriptor}
-------------------------------------------------------------------------------
CallsTo(calls, method) == {j \in DOMAIN calls : calls[j].method = method}

\* What the author of a chain of calls declared: the last bounds, every flag,
\* and every default named.
BoundsDeclared(calls) ==
    LET at == CallsTo(calls, "with_bounds")
        last == CHOOSE j \in at : \A i \in at : i <= j
    IN  IF at = {} THEN [lower |-> {}, upper |-> {}]
        ELSE [lower |-> {calls[last].lower}, upper |-> {calls[last].upper}]

FlagsDeclared(calls) == {calls[j].bit : j \in CallsTo(calls, "flag")}
DefaultsDeclared(calls) == {calls[j].default : j \in CallsTo(calls, "with_default")}

\* A host reads what was declared, in whatever order it was; the default is
\* left open when two were named.
ReadAsDeclared(hints, calls) ==
    /\ BoundsRead(hints) = BoundsDeclared(calls)
    /\ FlagsRead(hints) = FlagsDeclared(calls)
    /\ \/ DefaultsDeclared(calls) = {} /\ DefaultRead(hints) = "none"
       \/ \E d \in PortDefault : DefaultsDeclared(calls) = {d} /\ DefaultRead(hints) = d
       \/ \E d, e \in DefaultsDeclared(calls) : d # e
=============================================================================
