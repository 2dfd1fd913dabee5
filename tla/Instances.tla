------------------------------- MODULE Instances -------------------------------
(***************************************************************************)
(* The callbacks of entry.rs and the port views of port.rs, between a host *)
(* and several instances of one plugin.  The host serialises the calls on  *)
(* one instance and drives different instances from different threads, so  *)
(* a run is one step per frame and other calls come in between.            *)
(*                                                                         *)
(* The plugin has an audio input, an audio output and control inputs.      *)
(* What it does with a sample is the parameter Step.                       *)
(*                                                                         *)
(* A definition named Mutant_... is a plausible fault in the definition    *)
(* that follows it; the specification does not use it.                     *)
(***************************************************************************)
EXTENDS Integers, Sequences

CONSTANTS Handles,        \* addresses an instance can have
          Buffers,        \* the host's audio buffers,
          BlockLen,       \*   of this many samples each
          Knobs,          \* the host's control values
          Null,           \* the null pointer, and no instance
          Controls,       \* indices of the plugin's control input ports
          States,         \* states of the plugin
          Fresh,          \* its state after instantiate
          Reset(_),       \* activate
          Step(_, _, _),  \* one frame: state, controls, sample
          Cells(_),       \* what the host may connect to a port
          Levels,         \* values of a sample
          Silence,        \* the value of a sample of an unused buffer
          Fills,          \* samples the host writes into its buffers
          Values,         \* values of a control
          Settings(_),    \* those the host gives a knob
          InplaceBroken   \* PROPERTIES has PROPERTY_INPLACE_BROKEN

In == 0
Out == 1
Ports == {In, Out} \cup Controls

\* A table of port pointers.
Pointers == {f \in [Ports -> Buffers \cup Knobs \cup {Null}] :
                \A p \in Ports : f[p] \in Cells(p) \cup {Null}}

ASSUME InstancesAssumption ==
    /\ Controls \cap {In, Out} = {}
    /\ BlockLen \in Nat \ {0}
    /\ InplaceBroken \in BOOLEAN
    /\ Cells(In) \cup Cells(Out) \subseteq Buffers
    /\ \A p \in Controls : Cells(p) \subseteq Knobs
    /\ \A k \in Knobs : Settings(k) \subseteq Values
    /\ Fills \cup {Silence} \subseteq Levels
    /\ Null \notin Buffers \cup Knobs
    /\ Null \notin [plugin : States, ptrs : Pointers]

\* The plugin keeps to its types.
ASSUME PluginAssumption ==
    /\ Fresh \in States
    /\ \A s \in States : Reset(s) \in States
    /\ \A s \in States, c \in [Controls -> Values], x \in Levels :
          Step(s, c, x).state \in States /\ Step(s, c, x).y \in Levels

VARIABLES memory,     \* contents of the audio buffers
          knob,       \* contents of the control cells
          instances,  \* Instance<P> at each address, or Null
          call,       \* the run_shim in progress on each instance
          host        \* what the host knows of each instance: history

vars == <<memory, knob, instances, call, host>>

Frames == 0 .. BlockLen - 1
Live == {h \in Handles : instances[h] # Null}
Idle == [busy |-> FALSE, frames |-> 0, next |-> 0, controls |-> <<>>]
Running == {h \in Live : call[h].busy}

\* The host's record: what it connected, whether it activated the instance, the
\* control values when run began, and, had the instance been alone in the
\* world, its plugin state and the output samples due from this run.
Unknown == [bound |-> [p \in Ports |-> Null], active |-> FALSE,
            controls |-> <<>>, alone |-> Fresh, due |-> <<>>]

Init ==
    /\ memory = [b \in Buffers |-> [i \in Frames |-> Silence]]
    /\ knob \in [Knobs -> Values]
    /\ \A k \in Knobs : knob[k] \in Settings(k)
    /\ instances = [h \in Handles |-> Null]
    /\ call = [h \in Handles |-> Idle]
    /\ host = [h \in Handles |-> Unknown]
-------------------------------------------------------------------------------
\* instantiate_shim: Instance::new, with every port unconnected.
Instantiate(h) ==
    /\ instances[h] = Null
    /\ instances' = [instances EXCEPT ![h] =
                        [plugin |-> Fresh, ptrs |-> [p \in Ports |-> Null]]]
    /\ host' = [host EXCEPT ![h] = Unknown]
    /\ UNCHANGED <<memory, knob, call>>

\* P::instantiate returns Err: nothing is allocated and the host gets NULL.
InstantiateFails == UNCHANGED vars

Mutant_ConnectShared(h, p, cell) ==
    /\ h \in Live \ Running
    /\ instances' = [g \in Handles |->
                        IF g \in Live THEN [instances[g] EXCEPT !.ptrs[p] = cell] ELSE Null]
    /\ host' = [host EXCEPT ![h].bound[p] = cell]
    /\ UNCHANGED <<memory, knob, call>>

ConnectPort(h, p, cell) ==
    /\ h \in Live \ Running
    /\ instances' = [instances EXCEPT ![h].ptrs[p] = cell]
    /\ host' = [host EXCEPT ![h].bound[p] = cell]
    /\ UNCHANGED <<memory, knob, call>>

Activate(h) ==
    /\ h \in Live \ Running
    /\ ~host[h].active
    /\ instances' = [instances EXCEPT ![h].plugin = Reset(@)]
    /\ host' = [host EXCEPT ![h].active = TRUE, ![h].alone = Reset(@)]
    /\ UNCHANGED <<memory, knob, call>>

\* The host's side of the contract: the instance is active, every port is
\* connected, no instance running in another thread touches the output buffer
\* or writes the input buffer, and an INPLACE_BROKEN plugin gets two buffers.
MayRun(h) ==
    LET touches(g) == {host[g].bound[In], host[g].bound[Out]}
    IN  /\ host[h].active
        /\ \A p \in Ports : host[h].bound[p] # Null
        /\ \A g \in Running \ {h} :
              /\ host[h].bound[Out] \notin touches(g)
              /\ host[g].bound[Out] \notin touches(h)
        /\ InplaceBroken => host[h].bound[In] # host[h].bound[Out]

\* run_shim builds the port view and the plugin's run reads its controls.
RunStarts(h, frames) ==
    /\ h \in Live \ Running
    /\ MayRun(h)
    /\ call' = [call EXCEPT ![h] =
                   [busy |-> TRUE, frames |-> frames, next |-> 0,
                    controls |-> [p \in Controls |-> knob[instances[h].ptrs[p]]]]]
    /\ host' = [host EXCEPT
                   ![h].controls = [p \in Controls |-> knob[host[h].bound[p]]],
                   ![h].due = <<>>]
    /\ UNCHANGED <<memory, knob, instances>>

Mutant_RereadsControls(h) == [p \in Controls |-> knob[instances[h].ptrs[p]]]

\* The control values the frames of a run are processed with.
ControlsInUse(h) == call[h].controls

\* One iteration of the plugin's loop over audio_in_out(In, Out).
RunFrame(h) ==
    LET i == call[h].next
        ptrs == instances[h].ptrs
        result == Step(instances[h].plugin, ControlsInUse(h), memory[ptrs[In]][i])
        due == Step(host[h].alone, host[h].controls, memory[host[h].bound[In]][i])
    IN  /\ h \in Running
        /\ i < call[h].frames
        /\ memory' = [memory EXCEPT ![ptrs[Out]][i] = result.y]
        /\ instances' = [instances EXCEPT ![h].plugin = result.state]
        /\ call' = [call EXCEPT ![h].next = i + 1]
        /\ host' = [host EXCEPT ![h].alone = due.state, ![h].due = Append(@, due.y)]
        /\ UNCHANGED knob

RunReturns(h) ==
    /\ h \in Running
    /\ call[h].next = call[h].frames
    /\ call' = [call EXCEPT ![h] = Idle]
    /\ host' = [host EXCEPT ![h].controls = <<>>, ![h].due = <<>>]
    /\ UNCHANGED <<memory, knob, instances>>

Deactivate(h) ==
    /\ h \in Live \ Running
    /\ host[h].active
    /\ host' = [host EXCEPT ![h].active = FALSE]
    /\ UNCHANGED <<memory, knob, instances, call>>

\* cleanup_shim drops the box; its address may be given out again.
Cleanup(h) ==
    /\ h \in Live \ Running
    /\ ~host[h].active
    /\ instances' = [instances EXCEPT ![h] = Null]
    /\ host' = [host EXCEPT ![h] = Unknown]
    /\ UNCHANGED <<memory, knob, call>>
-------------------------------------------------------------------------------
\* The host writes a sample into a buffer no running instance works on.
HostFills(b, i, x) ==
    /\ \A h \in Running : b \notin {host[h].bound[In], host[h].bound[Out]}
    /\ memory' = [memory EXCEPT ![b][i] = x]
    /\ UNCHANGED <<knob, instances, call, host>>

\* The host moves a control, at any time.
HostTurns(k, v) ==
    /\ knob' = [knob EXCEPT ![k] = v]
    /\ UNCHANGED <<memory, instances, call, host>>

Next ==
    \/ InstantiateFails
    \/ \E h \in Handles :
        \/ Instantiate(h) \/ Activate(h) \/ Deactivate(h) \/ Cleanup(h)
        \/ \E p \in Ports : \E cell \in Cells(p) : ConnectPort(h, p, cell)
        \/ \E n \in 0 .. BlockLen : RunStarts(h, n)
        \/ RunFrame(h) \/ RunReturns(h)
    \/ \E b \in Buffers, i \in Frames, x \in Fills : HostFills(b, i, x)
    \/ \E k \in Knobs : \E v \in Settings(k) : HostTurns(k, v)

Spec == Init /\ [][Next]_vars
-------------------------------------------------------------------------------
\* Type correctness.
ControlValues == [Controls -> Values] \cup {<<>>}

TypeOK ==
    /\ memory \in [Buffers -> [Frames -> Levels]]
    /\ knob \in [Knobs -> Values]
    /\ instances \in [Handles -> [plugin : States, ptrs : Pointers] \cup {Null}]
    /\ call \in [Handles -> [busy : BOOLEAN, frames : 0 .. BlockLen,
                             next : 0 .. BlockLen, controls : ControlValues]]
    /\ host \in [Handles -> [bound : Pointers, active : BOOLEAN,
                             controls : ControlValues, alone : States, due : Seq(Levels)]]

\* Every instance is in the state, and has written to the buffers connected to
\* it the samples, that it would have come to alone: no call on another
\* instance, no control moved during a run and no earlier life of its address
\* shows.  This is what each instance having a plugin and a table of port
\* pointers of its own is for.
RunsAsAlone ==
    /\ \A h \in Live :
          /\ instances[h].plugin = host[h].alone
          /\ instances[h].ptrs = host[h].bound
    /\ \A h \in Running : \A i \in 0 .. call[h].next - 1 :
          memory[host[h].bound[Out]][i] = host[h].due[i + 1]

\* What keeps RunsAsAlone true: both sides of a run have the same controls and
\* have come to the same frame, and the host's contract holds while a run lasts
\* and not only when it begins.
HostContract ==
    \A h \in Running :
        /\ \A p \in Ports : host[h].bound[p] # Null
        /\ \A g \in Running \ {h} :
              host[h].bound[Out] \notin {host[g].bound[In], host[g].bound[Out]}

InStep ==
    /\ \A h \in Handles : call[h].busy => h \in Live
    /\ \A h \in Running :
          /\ call[h].controls \in [Controls -> Values]
          /\ call[h].controls = host[h].controls
          /\ call[h].next <= call[h].frames
          /\ Len(host[h].due) = call[h].next

\* The inductive invariant.
InstancesInv == TypeOK /\ HostContract /\ InStep /\ RunsAsAlone
=============================================================================
