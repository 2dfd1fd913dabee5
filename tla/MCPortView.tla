------------------------------- MODULE MCPortView -------------------------------
\* Ports of every kind, two of the audio ones, and one index out of bounds.
EXTENDS PortView

MCKinds == [p \in 0 .. 5 |->
              CASE p \in {0, 1} -> "AudioInput" [] p \in {2, 3} -> "AudioOutput"
                [] p = 4 -> "ControlInput" [] p = 5 -> "ControlOutput"]

\* Everything but an audio input and an audio output may share a cell: the two
\* inputs, the two outputs, and a control port with either.
Apart == {p \in [0 .. 5 -> Cells] :
             /\ InOutApart(p)
             /\ p[2] = "a" /\ p[3] \in {"a", "b"}
             /\ p[0] = "d" /\ p[1] \in {"d", "e"}
             /\ p[4] \in {"a", "d"}
             /\ p[5] \in {"a", "c", "d"}}

MCSupplies == {[c \in Cells |-> [i \in 0 .. BlockLen - 1 |-> 0]]}

\* A host that processes in place.
InPlace == {[p \in 0 .. 5 |-> IF p \in {0, 2} THEN "a" ELSE IF p = 5 THEN "c" ELSE "b"]}
=============================================================================
