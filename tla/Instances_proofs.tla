--------------------------- MODULE Instances_proofs ---------------------------
(***************************************************************************)
(* Proofs about Instances for every plugin (Fresh, Reset, Step), any       *)
(* number of instances, ports, buffers and frames, and any host that keeps *)
(* to the contract in the actions' guards.                                 *)
(***************************************************************************)
EXTENDS Instances, SequenceTheorems, TLAPS

HostRecord == [bound : Pointers, active : BOOLEAN, controls : ControlValues,
               alone : States, due : Seq(Levels)]
CallRecord == [busy : BOOLEAN, frames : 0 .. BlockLen, next : 0 .. BlockLen,
               controls : ControlValues]
InstanceRecord == [plugin : States, ptrs : Pointers]
-------------------------------------------------------------------------------
\* The port table before the host has connected a port, and after.
LEMMA Unconnected == [p \in Ports |-> Null] \in Pointers
BY DEF Pointers

LEMMA Connected ==
    ASSUME NEW f \in Pointers, NEW p \in Ports, NEW cell \in Cells(p)
    PROVE  [f EXCEPT ![p] = cell] \in Pointers
<1>1. cell \in Buffers \cup Knobs
  BY InstancesAssumption DEF Ports
<1> QED BY <1>1 DEF Pointers

LEMMA UnknownTyped == Unknown \in HostRecord
<1>1. <<>> \in Seq(Levels)
  OBVIOUS
<1> QED BY <1>1, Unconnected, PluginAssumption DEF Unknown, HostRecord, ControlValues

LEMMA Typed ==
    ASSUME TypeOK
    PROVE  /\ \A h \in Live : instances[h] \in InstanceRecord
           /\ \A h \in Handles : call[h] \in CallRecord /\ host[h] \in HostRecord
BY DEF TypeOK, Live, InstanceRecord, CallRecord, HostRecord

\* The controls run reads through its port table are values of controls.
LEMMA ControlsTyped ==
    ASSUME TypeOK, NEW f \in Pointers, \A p \in Controls : f[p] # Null
    PROVE  [p \in Controls |-> knob[f[p]]] \in [Controls -> Values]
<1>1. ASSUME NEW p \in Controls
      PROVE  knob[f[p]] \in Values
  <2>1. f[p] \in Cells(p)
    BY DEF Pointers, Ports
  <2>2. f[p] \in Knobs
    BY <2>1, InstancesAssumption
  <2> QED BY <2>2 DEF TypeOK
<1> QED BY <1>1

\* The audio ports of a running instance are connected to buffers.
LEMMA AudioCells ==
    ASSUME NEW f \in Pointers, f[In] # Null, f[Out] # Null
    PROVE  f[In] \in Buffers /\ f[Out] \in Buffers
BY InstancesAssumption DEF Pointers, Ports
-------------------------------------------------------------------------------
\* Connecting.
LEMMA ConnectTypes ==
    ASSUME TypeOK, NEW h \in Handles, NEW p \in Ports, NEW cell \in Cells(p),
           ConnectPort(h, p, cell)
    PROVE  TypeOK'
<1>1. instances[h] \in InstanceRecord /\ host[h] \in HostRecord /\ h \in Live
  BY Typed DEF ConnectPort
<1>2. [instances[h].ptrs EXCEPT ![p] = cell] \in Pointers
  BY <1>1, Connected DEF InstanceRecord
<1>3. [host[h].bound EXCEPT ![p] = cell] \in Pointers
  BY <1>1, Connected DEF HostRecord
<1>4. [instances[h] EXCEPT !.ptrs[p] = cell] \in InstanceRecord
  BY <1>1, <1>2 DEF InstanceRecord
<1>5. [host[h] EXCEPT !.bound[p] = cell] \in HostRecord
  BY <1>1, <1>3 DEF HostRecord
<1>6. instances' \in [Handles -> InstanceRecord \cup {Null}]
  BY <1>4 DEF ConnectPort, TypeOK, InstanceRecord
<1>7. host' \in [Handles -> HostRecord]
  BY <1>5 DEF ConnectPort, TypeOK, HostRecord
<1> QED BY <1>6, <1>7 DEF ConnectPort, TypeOK, InstanceRecord, HostRecord

\* What one frame does, read through the invariant: the plugin and the host's
\* record of it take the same step.
LEMMA FrameFacts ==
    ASSUME InstancesInv, NEW h \in Handles, RunFrame(h)
    PROVE  LET i == call[h].next
               in == host[h].bound[In]
               out == host[h].bound[Out]
               r == Step(host[h].alone, host[h].controls, memory[in][i])
           IN  /\ h \in Running /\ i \in Frames /\ in \in Buffers /\ out \in Buffers
               /\ i < call[h].frames
               /\ r.state \in States /\ r.y \in Levels
               /\ memory' = [memory EXCEPT ![out][i] = r.y]
               /\ instances' = [instances EXCEPT ![h].plugin = r.state]
               /\ call' = [call EXCEPT ![h].next = i + 1]
               /\ host' = [host EXCEPT ![h].alone = r.state, ![h].due = Append(@, r.y)]
               /\ knob' = knob
<1> DEFINE i == call[h].next
           in == host[h].bound[In]
           out == host[h].bound[Out]
           r == Step(host[h].alone, host[h].controls, memory[in][i])
<1>1. h \in Running /\ h \in Live /\ i < call[h].frames
  BY DEF RunFrame, Running
<1>2. instances[h] \in InstanceRecord /\ call[h] \in CallRecord /\ host[h] \in HostRecord
  BY <1>1, Typed DEF InstancesInv
<1>3. i \in Frames
  BY <1>1, <1>2, InstancesAssumption DEF CallRecord, Frames
<1>4. in \in Buffers /\ out \in Buffers
  BY <1>1, <1>2, AudioCells DEF InstancesInv, HostContract, HostRecord, Ports
<1>5. /\ instances[h].plugin = host[h].alone /\ instances[h].ptrs = host[h].bound
      /\ call[h].controls = host[h].controls /\ call[h].controls \in [Controls -> Values]
  BY <1>1 DEF InstancesInv, RunsAsAlone, InStep
<1>6. memory[in][i] \in Levels
  BY <1>3, <1>4 DEF InstancesInv, TypeOK
<1>7. r.state \in States /\ r.y \in Levels
  BY <1>2, <1>5, <1>6, PluginAssumption DEF HostRecord
<1> QED BY <1>1, <1>3, <1>4, <1>5, <1>7 DEF RunFrame, ControlsInUse

\* Type correctness, one action at a time.
LEMMA InitTypes == Init => TypeOK
<1> SUFFICES ASSUME Init PROVE TypeOK
  OBVIOUS
<1>1. memory \in [Buffers -> [Frames -> Levels]]
  BY InstancesAssumption DEF Init
<1>2. Idle \in CallRecord
  BY InstancesAssumption DEF Idle, CallRecord, ControlValues
<1> QED BY <1>1, <1>2, UnknownTyped DEF Init, TypeOK, CallRecord, HostRecord

LEMMA StepTypes == InstancesInv /\ Next => TypeOK'
<1> SUFFICES ASSUME InstancesInv, Next PROVE TypeOK'
  OBVIOUS
<1> TypeOK
  BY DEF InstancesInv
<1>1. CASE InstantiateFails
  BY <1>1 DEF InstantiateFails, vars, TypeOK
<1>2. ASSUME NEW h \in Handles, Instantiate(h) PROVE TypeOK'
  <2>1. [plugin |-> Fresh, ptrs |-> [p \in Ports |-> Null]] \in InstanceRecord
    BY Unconnected, PluginAssumption DEF InstanceRecord
  <2>2. instances' \in [Handles -> InstanceRecord \cup {Null}]
    BY <1>2, <2>1 DEF Instantiate, TypeOK, InstanceRecord
  <2>3. host' \in [Handles -> HostRecord]
    BY <1>2, UnknownTyped DEF Instantiate, TypeOK, HostRecord
  <2> QED BY <1>2, <2>2, <2>3 DEF Instantiate, TypeOK, InstanceRecord, HostRecord
<1>3. ASSUME NEW h \in Handles, Activate(h) PROVE TypeOK'
  <2>1. instances[h] \in InstanceRecord /\ host[h] \in HostRecord
    BY <1>3, Typed DEF Activate
  <2>2. [instances[h] EXCEPT !.plugin = Reset(@)] \in InstanceRecord
    BY <2>1, PluginAssumption DEF InstanceRecord
  <2>3. [host[h] EXCEPT !.active = TRUE, !.alone = Reset(@)] \in HostRecord
    BY <2>1, PluginAssumption DEF HostRecord
  <2>4. instances' \in [Handles -> InstanceRecord \cup {Null}]
    BY <1>3, <2>2 DEF Activate, TypeOK, InstanceRecord
  <2>5. host' \in [Handles -> HostRecord]
    BY <1>3, <2>3 DEF Activate, TypeOK, HostRecord
  <2> QED BY <1>3, <2>4, <2>5 DEF Activate, TypeOK, InstanceRecord, HostRecord
<1>4. ASSUME NEW h \in Handles, Deactivate(h) PROVE TypeOK'
  <2>1. [host[h] EXCEPT !.active = FALSE] \in HostRecord
    BY Typed DEF HostRecord
  <2>2. host' \in [Handles -> HostRecord]
    BY <1>4, <2>1 DEF Deactivate, TypeOK, HostRecord
  <2> QED BY <1>4, <2>2 DEF Deactivate, TypeOK, HostRecord
<1>5. ASSUME NEW h \in Handles, Cleanup(h) PROVE TypeOK'
  BY <1>5, UnknownTyped DEF Cleanup, TypeOK, HostRecord
<1>6. ASSUME NEW h \in Handles, NEW p \in Ports, NEW cell \in Cells(p), ConnectPort(h, p, cell)
      PROVE  TypeOK'
  BY <1>6, ConnectTypes
<1>7. ASSUME NEW h \in Handles, NEW n \in 0 .. BlockLen, RunStarts(h, n) PROVE TypeOK'
  <2>1. h \in Live /\ \A p \in Ports : host[h].bound[p] # Null
    BY <1>7 DEF RunStarts, MayRun
  <2>2. instances[h] \in InstanceRecord /\ host[h] \in HostRecord
    BY <2>1, Typed
  <2>3. instances[h].ptrs = host[h].bound
    BY <2>1 DEF InstancesInv, RunsAsAlone
  <2> DEFINE cv == [p \in Controls |-> knob[host[h].bound[p]]]
  <2>4. cv \in [Controls -> Values]
    BY <2>1, <2>2, ControlsTyped DEF HostRecord, Ports
  <2>5. [busy |-> TRUE, frames |-> n, next |-> 0, controls |-> cv] \in CallRecord
    BY <2>4, InstancesAssumption DEF CallRecord, ControlValues
  <2>6. [host[h] EXCEPT !.controls = cv, !.due = <<>>] \in HostRecord
    <3>1. <<>> \in Seq(Levels)
      OBVIOUS
    <3> QED BY <2>2, <2>4, <3>1 DEF HostRecord, ControlValues
  <2>7. call' = [call EXCEPT ![h] = [busy |-> TRUE, frames |-> n, next |-> 0, controls |-> cv]]
    BY <1>7, <2>3 DEF RunStarts
  <2>8. host' = [host EXCEPT ![h].controls = cv, ![h].due = <<>>]
    BY <1>7 DEF RunStarts
  <2>9. UNCHANGED <<memory, knob, instances>>
    BY <1>7 DEF RunStarts
  <2> HIDE DEF cv
  <2>10. host' \in [Handles -> HostRecord]
    BY <2>6, <2>8 DEF TypeOK, HostRecord
  <2> QED BY <2>5, <2>7, <2>9, <2>10 DEF TypeOK, CallRecord, HostRecord
<1>8. ASSUME NEW h \in Handles, RunFrame(h) PROVE TypeOK'
  <2> DEFINE i == call[h].next
             in == host[h].bound[In]
             out == host[h].bound[Out]
             r == Step(host[h].alone, host[h].controls, memory[in][i])
  <2>1. /\ h \in Running /\ i \in Frames /\ in \in Buffers /\ out \in Buffers
        /\ r.state \in States /\ r.y \in Levels
        /\ memory' = [memory EXCEPT ![out][i] = r.y]
        /\ instances' = [instances EXCEPT ![h].plugin = r.state]
        /\ call' = [call EXCEPT ![h].next = i + 1]
        /\ host' = [host EXCEPT ![h].alone = r.state, ![h].due = Append(@, r.y)]
        /\ knob' = knob
    BY <1>8, FrameFacts
  <2>2. instances[h] \in InstanceRecord /\ call[h] \in CallRecord /\ host[h] \in HostRecord
    BY <2>1, Typed DEF Running
  <2> HIDE DEF in, out, r
  <2>3. memory' \in [Buffers -> [Frames -> Levels]]
    BY <2>1 DEF TypeOK
  <2>4. [instances[h] EXCEPT !.plugin = r.state] \in InstanceRecord
    BY <2>1, <2>2 DEF InstanceRecord
  <2>5. instances' \in [Handles -> InstanceRecord \cup {Null}]
    BY <2>1, <2>4 DEF TypeOK, InstanceRecord
  <2>6. [call[h] EXCEPT !.next = i + 1] \in CallRecord
    BY <2>1, <2>2, InstancesAssumption DEF CallRecord, Frames
  <2>7. call' \in [Handles -> CallRecord]
    BY <2>1, <2>6 DEF TypeOK, CallRecord
  <2>8. Append(host[h].due, r.y) \in Seq(Levels)
    BY <2>1, <2>2 DEF HostRecord
  <2>9. [host[h] EXCEPT !.alone = r.state, !.due = Append(@, r.y)] \in HostRecord
    BY <2>1, <2>2, <2>8 DEF HostRecord
  <2>10. host' \in [Handles -> HostRecord]
    BY <2>1, <2>9 DEF TypeOK, HostRecord
  <2> QED BY <2>1, <2>3, <2>5, <2>7, <2>10 DEF TypeOK, InstanceRecord, CallRecord, HostRecord
<1>9. ASSUME NEW h \in Handles, RunReturns(h) PROVE TypeOK'
  <2>1. [host[h] EXCEPT !.controls = <<>>, !.due = <<>>] \in HostRecord
    <3>1. <<>> \in Seq(Levels)
      OBVIOUS
    <3> QED BY <3>1, Typed DEF HostRecord, ControlValues
  <2>2. host' \in [Handles -> HostRecord]
    BY <1>9, <2>1 DEF RunReturns, TypeOK, HostRecord
  <2>3. Idle \in CallRecord
    BY InstancesAssumption DEF Idle, CallRecord, ControlValues
  <2> QED BY <1>9, <2>2, <2>3 DEF RunReturns, TypeOK, HostRecord, CallRecord
<1>10. ASSUME NEW b \in Buffers, NEW i \in Frames, NEW x \in Fills, HostFills(b, i, x)
       PROVE  TypeOK'
  <2>1. x \in Levels
    BY InstancesAssumption
  <2> QED BY <1>10, <2>1 DEF HostFills, TypeOK
<1>11. ASSUME NEW k \in Knobs, NEW v \in Settings(k), HostTurns(k, v) PROVE TypeOK'
  <2>1. v \in Values
    BY InstancesAssumption
  <2> QED BY <1>11, <2>1 DEF HostTurns, TypeOK
<1> QED BY <1>1, <1>2, <1>3, <1>4, <1>5, <1>6, <1>7, <1>8, <1>9, <1>10, <1>11 DEF Next
-------------------------------------------------------------------------------
\* A step that leaves every other instance alone.
Others(h) ==
    \A g \in Handles \ {h} :
        instances'[g] = instances[g] /\ call'[g] = call[g] /\ host'[g] = host[g]

Rest == HostContract /\ InStep /\ RunsAsAlone

\* A call on an instance that is not running when it is over, and that does to
\* it what the host has noted, disturbs nothing.
LEMMA QuietCall ==
    ASSUME InstancesInv, NEW h \in Handles, Others(h), memory' = memory,
           ~call'[h].busy,
           h \in Live' => /\ instances'[h].plugin = host'[h].alone
                          /\ instances'[h].ptrs = host'[h].bound
    PROVE  Rest'
<1>1. Running' = Running \ {h} /\ Live' \ {h} = Live \ {h}
  BY DEF Running, Live, Others
<1>2. \A g \in Running' : g \in Running /\ call'[g] = call[g] /\ host'[g] = host[g]
  BY <1>1 DEF Running, Live, Others
<1>3. HostContract'
  BY <1>2 DEF InstancesInv, HostContract
<1>4. InStep'
  BY <1>1, <1>2 DEF InstancesInv, InStep, Others
<1>5. RunsAsAlone'
  <2>1. \A g \in Live' : instances'[g].plugin = host'[g].alone
                         /\ instances'[g].ptrs = host'[g].bound
    BY <1>1 DEF InstancesInv, RunsAsAlone, Others, Live
  <2> QED BY <2>1, <1>2 DEF InstancesInv, RunsAsAlone
<1> QED BY <1>3, <1>4, <1>5 DEF Rest

\* An instance that is not running, as the guards of the calls put it.
LEMMA NotBusy ==
    ASSUME InstancesInv, NEW h \in Handles, h \notin Running
    PROVE  ~call[h].busy
BY DEF InstancesInv, InStep, Running

LEMMA LifecycleRest ==
    ASSUME InstancesInv, NEW h \in Handles,
           \/ Instantiate(h) \/ Activate(h) \/ Deactivate(h) \/ Cleanup(h) \/ RunReturns(h)
           \/ \E p \in Ports : \E cell \in Cells(p) : ConnectPort(h, p, cell)
    PROVE  Rest'
<1> TypeOK
  BY DEF InstancesInv
<1> DEFINE agrees == h \in Live' => /\ instances'[h].plugin = host'[h].alone
                                    /\ instances'[h].ptrs = host'[h].bound
<1>1. h \in Live => /\ instances[h] \in InstanceRecord /\ host[h] \in HostRecord
                    /\ instances[h].plugin = host[h].alone
                    /\ instances[h].ptrs = host[h].bound
  BY Typed DEF InstancesInv, RunsAsAlone
<1>2. CASE Instantiate(h)
  <2>1. ~call'[h].busy
    BY <1>2, NotBusy DEF Instantiate, Running, Live
  <2>2. agrees
    BY <1>2 DEF Instantiate, Unknown, TypeOK
  <2>3. Others(h) /\ memory' = memory
    BY <1>2 DEF Instantiate, Others, TypeOK
  <2> QED BY <2>1, <2>2, <2>3, QuietCall
<1>3. CASE Activate(h)
  <2>1. ~call'[h].busy
    BY <1>3, NotBusy DEF Activate
  <2>2. agrees
    BY <1>1, <1>3 DEF Activate, TypeOK, InstanceRecord, HostRecord
  <2>3. Others(h) /\ memory' = memory
    BY <1>3 DEF Activate, Others, TypeOK
  <2> QED BY <2>1, <2>2, <2>3, QuietCall
<1>4. CASE Deactivate(h)
  <2>1. ~call'[h].busy
    BY <1>4, NotBusy DEF Deactivate
  <2>2. agrees
    BY <1>1, <1>4 DEF Deactivate, TypeOK, HostRecord, Live
  <2>3. Others(h) /\ memory' = memory
    BY <1>4 DEF Deactivate, Others, TypeOK
  <2> QED BY <2>1, <2>2, <2>3, QuietCall
<1>5. CASE Cleanup(h)
  <2>1. ~call'[h].busy
    BY <1>5, NotBusy DEF Cleanup
  <2>2. agrees
    BY <1>5 DEF Cleanup, TypeOK, Live
  <2>3. Others(h) /\ memory' = memory
    BY <1>5 DEF Cleanup, Others, TypeOK
  <2> QED BY <2>1, <2>2, <2>3, QuietCall
<1>6. CASE RunReturns(h)
  <2>1. ~call'[h].busy
    BY <1>6 DEF RunReturns, Idle, TypeOK
  <2>2. agrees
    BY <1>1, <1>6 DEF RunReturns, TypeOK, HostRecord, Live
  <2>3. Others(h) /\ memory' = memory
    BY <1>6 DEF RunReturns, Others, TypeOK
  <2> QED BY <2>1, <2>2, <2>3, QuietCall
<1>7. ASSUME NEW p \in Ports, NEW cell \in Cells(p), ConnectPort(h, p, cell)
      PROVE  Rest'
  <2>1. ~call'[h].busy
    BY <1>7, NotBusy DEF ConnectPort
  <2>2. agrees
    BY <1>1, <1>7 DEF ConnectPort, TypeOK, InstanceRecord, HostRecord
  <2>3. Others(h) /\ memory' = memory
    BY <1>7 DEF ConnectPort, Others, TypeOK
  <2> QED BY <2>1, <2>2, <2>3, QuietCall
<1> QED BY <1>2, <1>3, <1>4, <1>5, <1>6, <1>7

LEMMA RunStartsRest ==
    ASSUME InstancesInv, NEW h \in Handles, NEW n \in 0 .. BlockLen, RunStarts(h, n)
    PROVE  Rest'
<1> TypeOK
  BY DEF InstancesInv
<1>1. h \in Live /\ h \notin Running /\ MayRun(h)
  BY DEF RunStarts
<1>2. host[h] \in HostRecord /\ instances[h].ptrs = host[h].bound
  BY <1>1, Typed DEF InstancesInv, RunsAsAlone
<1> DEFINE cv == [p \in Controls |-> knob[host[h].bound[p]]]
<1>3. cv \in [Controls -> Values]
  BY <1>1, <1>2, ControlsTyped DEF MayRun, HostRecord, Ports
<1>4. /\ call' = [call EXCEPT ![h] = [busy |-> TRUE, frames |-> n, next |-> 0, controls |-> cv]]
      /\ host' = [host EXCEPT ![h].controls = cv, ![h].due = <<>>]
      /\ UNCHANGED <<memory, knob, instances>>
  BY <1>2 DEF RunStarts
<1> HIDE DEF cv
<1>5. Live' = Live /\ Running' = Running \cup {h}
  BY <1>1, <1>4 DEF Live, Running, TypeOK
<1>6. Others(h)
  BY <1>4 DEF Others, TypeOK
<1>7. /\ host'[h].bound = host[h].bound /\ host'[h].alone = host[h].alone
      /\ host'[h].controls = cv /\ host'[h].due = <<>>
      /\ call'[h].controls = cv /\ call'[h].next = 0 /\ call'[h].frames = n
  BY <1>2, <1>4 DEF TypeOK, HostRecord
<1>8. \A g \in Handles : host'[g].bound = host[g].bound /\ host'[g].alone = host[g].alone
  BY <1>6, <1>7 DEF Others
<1>9. HostContract'
  <2>1. \A g \in Running : /\ \A p \in Ports : host[g].bound[p] # Null
                          /\ \A k \in Running \ {g} : host[g].bound[Out] \notin
                                {host[k].bound[In], host[k].bound[Out]}
    BY DEF InstancesInv, HostContract
  <2>2. /\ \A p \in Ports : host[h].bound[p] # Null
        /\ \A g \in Running \ {h} :
              /\ host[h].bound[Out] \notin {host[g].bound[In], host[g].bound[Out]}
              /\ host[g].bound[Out] \notin {host[h].bound[In], host[h].bound[Out]}
    BY <1>1 DEF MayRun
  <2>3. Running \subseteq Handles
    BY DEF Running, Live
  <2> DEFINE bound(g) == host[g].bound
  <2>4. \A g \in Running' : \A k \in Running' \ {g} :
          bound(g)[Out] \notin {bound(k)[In], bound(k)[Out]}
    BY <1>5, <2>1, <2>2
  <2>5. \A g \in Running' : \A p \in Ports : bound(g)[p] # Null
    BY <1>5, <2>1, <2>2
  <2>6. \A g \in Running' : host'[g].bound = bound(g)
    BY <1>5, <1>8, <2>3
  <2> QED BY <2>4, <2>5, <2>6 DEF HostContract
<1>10. InStep'
  BY <1>1, <1>3, <1>5, <1>6, <1>7 DEF InstancesInv, InStep, Others, Running, Live
<1>11. RunsAsAlone'
  <2>1. \A g \in Live' : instances'[g].plugin = host'[g].alone
                         /\ instances'[g].ptrs = host'[g].bound
    BY <1>4, <1>5, <1>8 DEF InstancesInv, RunsAsAlone, Live
  <2>2. \A g \in Running : \A i \in 0 .. call[g].next - 1 :
          memory[host[g].bound[Out]][i] = host[g].due[i + 1]
    BY DEF InstancesInv, RunsAsAlone
  <2>3. \A g \in Running : call'[g] = call[g] /\ host'[g] = host[g]
    BY <1>1, <1>6 DEF Others, Running, Live
  <2>4. \A g \in Running : \A i \in 0 .. call'[g].next - 1 :
          memory'[host'[g].bound[Out]][i] = host'[g].due[i + 1]
    <3> SUFFICES ASSUME NEW g \in Running, NEW i \in 0 .. call'[g].next - 1
                 PROVE  memory'[host'[g].bound[Out]][i] = host'[g].due[i + 1]
      OBVIOUS
    <3>1. call'[g] = call[g] /\ host'[g] = host[g] /\ memory' = memory
      BY <2>3, <1>4
    <3> QED BY <2>2, <3>1
  <2>5. 0 .. call'[h].next - 1 = {}
    BY <1>7
  <2> QED BY <1>5, <2>1, <2>4, <2>5 DEF RunsAsAlone
<1> QED BY <1>9, <1>10, <1>11 DEF Rest

LEMMA AppendedAt ==
    ASSUME NEW S, NEW s \in Seq(S), NEW y \in S, NEW n \in Nat, Len(s) = n, NEW j \in 0 .. n
    PROVE  Append(s, y)[j + 1] = IF j = n THEN y ELSE s[j + 1]
OBVIOUS

\* One frame: the sample written is the one due, no earlier one of this run is
\* overwritten, and no other instance's buffers are touched.
LEMMA RunFrameRest ==
    ASSUME InstancesInv, NEW h \in Handles, RunFrame(h)
    PROVE  Rest'
<1> TypeOK
  BY DEF InstancesInv
<1> DEFINE i == call[h].next
           in == host[h].bound[In]
           out == host[h].bound[Out]
           r == Step(host[h].alone, host[h].controls, memory[in][i])
<1>1. /\ h \in Running /\ i \in Frames /\ in \in Buffers /\ out \in Buffers
      /\ i < call[h].frames
      /\ r.state \in States /\ r.y \in Levels
      /\ memory' = [memory EXCEPT ![out][i] = r.y]
      /\ instances' = [instances EXCEPT ![h].plugin = r.state]
      /\ call' = [call EXCEPT ![h].next = i + 1]
      /\ host' = [host EXCEPT ![h].alone = r.state, ![h].due = Append(@, r.y)]
      /\ knob' = knob
  BY FrameFacts
<1>2. instances[h] \in InstanceRecord /\ call[h] \in CallRecord /\ host[h] \in HostRecord
  BY <1>1, Typed DEF Running
<1> HIDE DEF in, r
<1>3. Others(h)
  BY <1>1 DEF Others, TypeOK
<1>4. /\ host'[h].bound = host[h].bound /\ host'[h].alone = r.state
      /\ host'[h].controls = host[h].controls /\ host'[h].due = Append(host[h].due, r.y)
  BY <1>1, <1>2 DEF TypeOK, HostRecord
<1>5. /\ call'[h].busy = call[h].busy /\ call'[h].next = i + 1
      /\ call'[h].frames = call[h].frames /\ call'[h].controls = call[h].controls
  BY <1>1, <1>2 DEF TypeOK, CallRecord
<1>6. instances'[h] \in InstanceRecord /\ instances'[h].plugin = r.state
      /\ instances'[h].ptrs = instances[h].ptrs
  BY <1>1, <1>2 DEF TypeOK, InstanceRecord, Running, Live
<1>7. Live' = Live
  <2>1. h \in Live /\ instances'[h] # Null
    BY <1>1, <1>6, InstancesAssumption DEF Running, InstanceRecord
  <2> QED BY <2>1, <1>3 DEF Live, Others
<1>8. Running' = Running
  BY <1>7, <1>5, <1>3 DEF Running, Live, Others
<1>9. HostContract'
  <2>1. \A g \in Running : host'[g].bound = host[g].bound
    BY <1>3, <1>4 DEF Others, Running, Live
  <2> QED BY <1>8, <2>1 DEF InstancesInv, HostContract
<1>10. InStep'
  <2>1. \A g \in Handles : call'[g].busy => g \in Live
    BY <1>3, <1>5 DEF InstancesInv, InStep, Others
  <2>2. /\ call[h].controls \in [Controls -> Values] /\ call[h].controls = host[h].controls
        /\ Len(host[h].due) = i
    BY <1>1 DEF InstancesInv, InStep
  <2>3. Len(host'[h].due) = i + 1
    BY <1>1, <1>2, <1>4, <2>2 DEF HostRecord
  <2>4. i + 1 <= call[h].frames
    BY <1>1, <1>2, InstancesAssumption DEF CallRecord, Frames
  <2>5. \A g \in Running \ {h} :
          /\ call'[g].controls \in [Controls -> Values]
          /\ call'[g].controls = host'[g].controls
          /\ call'[g].next <= call'[g].frames
          /\ Len(host'[g].due) = call'[g].next
    BY <1>3 DEF InstancesInv, InStep, Others, Running, Live
  <2> QED BY <1>4, <1>5, <1>7, <1>8, <2>1, <2>2, <2>3, <2>4, <2>5 DEF InStep
<1>11. RunsAsAlone'
  <2>1. \A g \in Live : instances'[g].plugin = host'[g].alone
                        /\ instances'[g].ptrs = host'[g].bound
    BY <1>3, <1>4, <1>6 DEF InstancesInv, RunsAsAlone, Others, Live
  <2>2. ASSUME NEW g \in Running, NEW j \in 0 .. call'[g].next - 1
        PROVE  memory'[host'[g].bound[Out]][j] = host'[g].due[j + 1]
    <3>1. j \in 0 .. call[g].next - 1 =>
            memory[host[g].bound[Out]][j] = host[g].due[j + 1]
      BY DEF InstancesInv, RunsAsAlone
    <3>2. CASE g = h
      <4>1. Len(host[h].due) = i /\ host[h].due \in Seq(Levels) /\ i \in Nat
        BY <1>1, <1>2 DEF InstancesInv, InStep, HostRecord, CallRecord
      <4>2. j \in 0 .. i
        BY <3>2, <1>5, <4>1
      <4>3. j \in Frames
        BY <4>2, <1>1, InstancesAssumption DEF Frames
      <4>4. memory'[out][j] = IF j = i THEN r.y ELSE memory[out][j]
        BY <4>3, <1>1 DEF TypeOK
      <4>5. host'[h].due[j + 1] = IF j = i THEN r.y ELSE host[h].due[j + 1]
        <5>1. r.y \in Levels
          BY <1>1
        <5> HIDE DEF i
        <5>2. Append(host[h].due, r.y)[j + 1] = IF j = i THEN r.y ELSE host[h].due[j + 1]
          BY <4>1, <4>2, <5>1, AppendedAt
        <5> QED BY <5>2, <1>4
      <4> QED BY <3>1, <3>2, <4>1, <4>2, <4>4, <4>5, <1>4
    <3>3. CASE g # h
      <4>1. host'[g] = host[g] /\ call'[g] = call[g]
        BY <3>3, <1>3 DEF Others, Running, Live
      <4>2. host[g].bound[Out] # out
        BY <3>3, <1>1 DEF InstancesInv, HostContract
      <4>3. host[g] \in HostRecord
        BY Typed DEF Running, Live
      <4>4. host[g].bound[Out] \in Buffers
        BY <4>3, AudioCells DEF InstancesInv, HostContract, HostRecord, Ports
      <4>5. memory'[host[g].bound[Out]] = memory[host[g].bound[Out]]
        BY <4>2, <4>4, <1>1 DEF TypeOK
      <4> QED BY <3>1, <4>1, <4>5
    <3> QED BY <3>2, <3>3
  <2> QED BY <1>7, <1>8, <2>1, <2>2 DEF RunsAsAlone
<1> QED BY <1>9, <1>10, <1>11 DEF Rest
-------------------------------------------------------------------------------
\* The host's own steps.
LEMMA HostRest ==
    ASSUME InstancesInv,
           \/ \E b \in Buffers, i \in Frames, x \in Fills : HostFills(b, i, x)
           \/ \E k \in Knobs : \E v \in Settings(k) : HostTurns(k, v)
           \/ UNCHANGED vars
    PROVE  Rest'
<1> TypeOK
  BY DEF InstancesInv
<1>1. ASSUME UNCHANGED <<instances, call, host>>,
             \A h \in Running : memory'[host[h].bound[Out]] = memory[host[h].bound[Out]]
      PROVE  Rest'
  <2>1. Live' = Live /\ Running' = Running
    BY <1>1 DEF Live, Running
  <2> QED BY <1>1, <2>1 DEF InstancesInv, Rest, HostContract, InStep, RunsAsAlone
<1>2. ASSUME NEW b \in Buffers, NEW i \in Frames, NEW x \in Fills, HostFills(b, i, x)
      PROVE  Rest'
  <2>1. ASSUME NEW h \in Running
        PROVE  memory'[host[h].bound[Out]] = memory[host[h].bound[Out]]
    BY <1>2 DEF HostFills, TypeOK
  <2> QED BY <1>1, <1>2, <2>1 DEF HostFills
<1>3. ASSUME NEW k \in Knobs, NEW v \in Settings(k), HostTurns(k, v)
      PROVE  Rest'
  BY <1>1, <1>3 DEF HostTurns
<1>4. CASE UNCHANGED vars
  BY <1>1, <1>4 DEF vars
<1> QED BY <1>2, <1>3, <1>4

\* InstancesInv is inductive: it holds at the start and every step keeps it.
THEOREM InstancesInductive == Spec => []InstancesInv
<1>1. Init => InstancesInv
  <2> SUFFICES ASSUME Init PROVE InstancesInv
    OBVIOUS
  <2>1. Live = {} /\ Running = {}
    BY DEF Init, Live, Running
  <2>2. \A h \in Handles : ~call[h].busy
    BY DEF Init, Idle
  <2> QED BY <2>1, <2>2, InitTypes DEF InstancesInv, HostContract, InStep, RunsAsAlone
<1>2. InstancesInv /\ [Next]_vars => InstancesInv'
  <2> SUFFICES ASSUME InstancesInv, [Next]_vars PROVE InstancesInv'
    OBVIOUS
  <2>1. TypeOK'
    BY StepTypes DEF vars, TypeOK, InstancesInv
  <2>2. Rest'
    BY LifecycleRest, RunStartsRest, RunFrameRest, HostRest DEF Next, InstantiateFails
  <2> QED BY <2>1, <2>2 DEF InstancesInv, Rest
<1> QED BY <1>1, <1>2, PTL DEF Spec

\* Instances are independent of each other and of the host's timing: each runs
\* as it would alone.
THEOREM InstancesRunAlone == Spec => []RunsAsAlone
<1>1. InstancesInv => RunsAsAlone
  BY DEF InstancesInv
<1> QED BY <1>1, InstancesInductive, PTL
=============================================================================
