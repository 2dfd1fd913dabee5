----------------------------- MODULE ExamplePlugins -----------------------------
(***************************************************************************)
(* What the three plugins under examples/ declare: their associated items  *)
(* and their port tables.  Bounds are in hundredths.                       *)
(***************************************************************************)
EXTENDS PortHints

\* An impl of Plugin; PROPERTIES is the default of the trait, no bit set.
Declaration(id, label, name, ports) ==
    [UNIQUE_ID |-> id, LABEL |-> label, NAME |-> name, MAKER |-> "tympan-ladspa",
     COPYRIGHT |-> "MIT OR Apache-2.0", PROPERTIES |-> {}, ports |-> ports]

AudioPorts == <<audio_input("In"), audio_output("Out")>>

Knob(name, default, upper) ==
    control_input(name, <<with_default(default), with_bounds(0, upper)>>)

Gain ==
    Declaration(12345, "tympan_gain", "Tympan Linear Gain",
                AudioPorts \o <<Knob("Gain", "One", 400)>>)

NoiseGate ==
    Declaration(23456, "tympan_noise_gate", "Tympan Hysteresis Noise Gate",
                AudioPorts \o <<Knob("Open Threshold", "Middle", 100),
                                Knob("Close Threshold", "Low", 100)>>)

Delay ==
    Declaration(34567, "tympan_delay", "Tympan Feedback Delay",
                AudioPorts \o <<Knob("Delay (ms)", "Hundred", 200000),
                                Knob("Feedback", "Middle", 95),
                                Knob("Mix", "Middle", 100)>>)
=============================================================================
