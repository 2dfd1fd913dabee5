----------------------------- MODULE MCPluginEntry -----------------------------
\* The three example plugins, one with a control port for every chain of up to
\* two builder calls, and two with a NUL byte in their maker or a port's name.
EXTENDS PluginEntry, ExamplePlugins

\* No call, or one.
Links == FoldSet(LAMBDA call, links : Append(links, <<call>>), << <<>> >>, Calls({0, 4}))
N == Len(Links)

Chains == [i \in 1 .. N * N |-> Links[(i - 1) \div N + 1] \o Links[((i - 1) % N) + 1]]

Knobs == Declaration(1, "knobs", "Knobs",
            <<control_output("Level", <<>>)>>
                \o [i \in DOMAIN Chains |-> control_input("Knob", Chains[i])])

MCPlugins == {Gain, NoiseGate, Delay, [Knobs EXCEPT !.PROPERTIES = {1, 2}],
              [Gain EXCEPT !.MAKER = "a NUL b"],
              [Delay EXCEPT !.ports[4].name = "a NUL b"]}
=============================================================================
