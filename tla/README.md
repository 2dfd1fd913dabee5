# A formal model of tympan-ladspa

TLA+ models of `tympan-ladspa`, a Rust framework for LADSPA audio plugins, and
of the plugins shipped with it; TLC configurations that model-check them on
small instances; and proofs that TLAPS checks for every value of the constants.
Paths below are relative to the repository's root.

    tlc -config <name>.cfg <module>      # the pairs are in "What is checked"
    tlapm <module>_proofs.tla

## The system

A plugin author implements the trait `Plugin` and calls `plugin_entry!`. The
macro emits the C function `ladspa_descriptor`, through which a host finds the
plugin's metadata and its table of callbacks; the callbacks are generic shims
that own one `Instance<P>` per `LADSPA_Handle`. From `run`, on the host's
realtime thread, a plugin may use a lock-free ring and a log sink.

| component | source | state | operations | interacts with |
|---|---|---|---|---|
| ring | `src/realtime/ring.rs` | slots; two wrapping atomic counters; two ends | `channel`, `try_push`, `try_pop`, drop of each end, `Inner::drop` | its two ends are in two threads and share memory |
| log sink | `src/realtime/log.rs` | a producer, a shutdown flag, a join handle; the drainer thread has the consumer | `new`, `log`, drop, the drainer's loop | is built on the ring; calls the user's `drain_one` |
| shims | `src/entry.rs` | per handle: the plugin and a table of port pointers | `instantiate`, `connect_port`, `activate`, `run`, `deactivate`, `cleanup` | called by the host, call the plugin |
| port view | `src/port.rs` (`Ports`) | per run: the pointers, the block length, the borrows it has lent | `audio_input`, `audio_output`, `control_input`, `control_output`, `audio_in_out` | lent by the shim to the plugin's `run`; shares buffers and control cells with the host |
| port descriptors | `src/port.rs`, `src/raw/types.rs` | a kind and two bit fields | constructors, `with_bounds`, `with_default`, flags | read by the bundle, and through it by the host |
| descriptor and entry point | `src/descriptor.rs`, `src/macros.rs` | a `OnceLock` with a bundle of heap allocations that point to one another | `ladspa_descriptor`, `DescriptorBundle::build` | called by the host from any thread; the bundle outlives everything |
| delay | `examples/delay` | a circular buffer, a write index, a log sink | `instantiate`, `activate`, `run`, drop | uses the port view and the log sink |
| noise gate | `examples/noise-gate` | one latch | `instantiate`, `activate`, `run` | uses the port view |
| gain | `examples/gain` | none | `run` | uses the port view |
| trait, error, context, raw ABI | `src/plugin.rs`, `src/error.rs`, `src/realtime/context.rs`, `src/raw/` | none | types and defaults | |

What is hard about it, and what each part must get right:

* **Ring.** Two threads with no lock; the loads of the other side's counter may
  be late; counters wrap at `usize::MAX`; full and empty are both told by the
  distance of the counters. Right means: no data race on a slot, no item
  overwritten, lost, duplicated or reordered, the remainder destroyed once, and
  a polling consumer and a retrying producer get on.
* **Log sink.** The last events race with the shutdown flag and the final pass
  of the drainer; the drainer may be asleep, in `drain_one`, or dead of a panic;
  the thread may fail to spawn. Right means: every accepted event reaches
  `drain_one` once and in order, all of them before drop returns unless it
  panicked, and drop always returns.
* **Shims.** Several instances, driven from different threads, over buffers
  that instances share and controls the host moves at any moment; ports are
  connected again between runs; a freed address is used again. Right means that
  an instance cannot tell it is not alone.
* **Port view.** Slices made of raw pointers, handed to code of which only the
  borrow checker knows anything; two ports may have one buffer behind them; a
  port named by the wrong index or kind panics half-way through a run. Right
  means that nothing is aliased that Rust says is not, and that a run writes its
  outputs and nothing else.
* **Entry point.** Threads that race to build one bundle; a panic half-way
  through; self-references that must survive the move into the static. Right
  means that a pointer once returned is good for ever, that what a host reads
  behind it is what the author declared, and that every call returns.
* **Delay.** Index arithmetic at every wrap-around; delays changed while the
  buffer holds samples; feedback that must not run away, whatever is written to
  the controls. Right means that it is a tape with an echo.
* **Noise gate.** The output depends on the whole past. Right means that it
  depends on it as the module's doc says.

## The modules

| module | models | notes |
|---|---|---|
| `BoundedFifo` | what `channel` promises | abstract |
| `SpscRing` | `ring.rs` | one action per shared access of `try_push` and `try_pop` |
| `EventLog` | what `LogSink` promises | abstract |
| `LogSink` | `log.rs` | EXTENDS `SpscRing`: its actions have the ring's as conjuncts |
| `Samples` | f32 arithmetic of the examples | integers, gains in percent, and a NaN |
| `EchoTape` | what the feedback delay promises | abstract |
| `DelayLine` | `apply_delay` and the state it works on | one action per loop iteration |
| `DelayPlugin` | the delay plugin | EXTENDS `DelayLine`, whose actions are conjuncts of its own, and composes it with `EventLog` by INSTANCE |
| `GateLatch`, `NoiseGate` | the noise gate | the decisions, and the plugin around them |
| `Instances` | shims and `Instance<P>`, for any plugin | the plugin is the parameters `Fresh`, `Reset`, `Step` |
| `PortView` | `Ports` and its accessors, for any `run` | the plugin is any sequence of calls, stores and last uses the borrow checker accepts |
| `PortHints` | port declarations, and a host's reading of them | bit fields as sets of bit positions |
| `ExamplePlugins` | what the three examples declare | pure definitions |
| `PluginEntry` | `ladspa_descriptor` and `DescriptorBundle::build` | EXTENDS `PortHints`; one action per allocation |
| `MC...` | values of the constants that a `.cfg` cannot write down | `MCInstances` plugs the noise gate into `Instances` |
| `..._proofs`, `ModArith` | proofs; lemmas on `%` | |

A definition called `Mutant_...` stands before the definition of which it is a
faulty version. No specification uses it: substituting it shows that the
properties can fail.

**`SpscRing`.** `tail` and `head` are not numbers but modification orders: every
message ever stored, each with the view that a `Release` store publishes. A load
may read any message not older than the last one its thread has read, and an
`Acquire` load joins the message's view. `epoch` counts a thread's accesses to
the slots, so a slot remembers the epochs of its last write and read, and two
accesses race exactly when the later thread's view has not reached the earlier
access. A read that races returns anything. Counters are modulo `Modulus`, for
2^w. The loads of `try_push` are one step and the slot write and the `Release`
store one each: in between the other thread may do anything. `sent`, `rcvd` and
`reclaimed` are history. A late load can refuse a push although the ring has
room, or a pop although it has an item; `RefusalsAreTrue` says what a refusal
does tell, which is the truth about the counter that was read.

**`LogSink`.** `drainer` is the program counter of `drainer_loop`; `floor` is
what its `Acquire` load of the flag, once it reads TRUE, adds to what it knows of
`tail`. The poll interval is a step that may come at any time. `drop` takes
`&mut self`, so it does not begin while a `log` is in progress.

**`Instances`.** A run is one step per frame because the host drives other
instances, from other threads, meanwhile. The host's actions (`HostFills`,
`HostTurns`) and the guard `MayRun` are LADSPA's contract: calls on one instance
are serialised, ports are connected and the instance active before `run`, and
two threads do not work on one output buffer. `host[h].alone` is a second copy
of the plugin's state, stepped with nothing but what the host did to `h`.
One audio input, one audio output and any number of control inputs.

**`PortView`.** The plugin's code is not modelled but quantified over: the state
has the borrows that are live, and a call of an accessor has as its guard what
the borrow checker asks of its receiver, `Readable` for `&self` and `Writable`
for `&mut self`. A borrow has the variable of the plugin that holds it (`Vars`
bounds how many are live), the port, whether it may write, and how many
samples it reaches. `assert_kind` and the check on `in_port` and `out_port`
panic, which the model takes for an abort in `extern "C" fn run_shim` (see "What
is assumed of a panic"), and what was stored by then is in the host's buffers.
`Connections` is what hosts do: the passing run has no audio input and output in
one cell (`InOutApart`), the other one does.

**`DelayPlugin`.** The controls are what the host wrote, out of bounds included;
`instantiate`'s buffer length and `run`'s arguments are computed, and are the
values of `DelayLine`'s parameters `BufferLen`, `DelaySamples`, `Feedbacks` and
`Mixes` (`PluginAssumption` says so). The sink is `EventLog`, which `LogSink` is
proved to implement. The log queue may look full once it has taken
`LOG_CAPACITY` events.

**`PluginEntry`.** An address is a pair of the building thread and the
allocation. The descriptor is the record the host reads: metadata, the function
table (`Slots`) and pointers into the bundle's allocations. `get_or_init` is
modelled as its documentation says (one closure at a time; a panic leaves the
cell empty and wakes the others). A panic that reaches the `extern "C"` frame
aborts the process, after which nothing happens.

**What is assumed of a panic.** That one which reaches an `extern "C"` function
aborts the process (`Abort` of `PluginEntry`, `aborted` of `PortView`). Rust
guarantees this from 1.81; `docs/plugin-author-guide.md:38-52` gets it on any
version by asking authors for `panic = "abort"`. `Cargo.toml:9` allows Rust 1.75:
there, and without that setting, the unwinding is undefined behaviour, and
nothing shown here covers it.

## What is checked

| cfg (module) | question | states | bounds, and why they are enough |
|---|---|---|---|
| `SpscRing_run` (`SpscRing`) | type correctness, `NoDataRace`, `NoOverwrite`, `ExactlyOnce`, `RefusalsAreTrue`, `IndInv`; implements `BoundedFifo`; `Delivered`, `RetrySucceeds` | 7 940 | two slots, counters modulo 4, six pushes: the ring is full and empty at every slot and the counters wrap once; the proofs have no bounds |
| `LogSink_run` (`LogSink`) | type correctness, `FlushedUnlessPanicked`, `QuietAfterDrop`, `LastPassEnds`, `SinkInv`; implements `EventLog`; `DropReturns`, `EventuallyInvoked` | 20 754 | the same ring, two kinds of event, five of them, a failing spawn, a panic at any event |
| `DelayPlugin_run` (`MCDelayPlugin`) | type correctness, `NoRunaway`, `DelayInv`, `DelayAsAsked`, `ClampsReported`; implements `EchoTape` | 1 872 683 | one sample per second, so a buffer of three slots; six frames, so that the index wraps twice; a delay inside the bounds (one sample) and one above them (cut to the whole buffer); a feedback below its bounds, one above its cap, and NaN; audio samples that are silent, as loud as can be, and NaN; a log queue of one event and two clamps, so that it overflows |
| `NoiseGate_past` (`MCNoiseGate`) | `GateContract`, `SingleThreshold` | 1 677 601 | every sequence of three samples above, between, at and below the thresholds, or NaN; thresholds in either order, equal, or NaN |
| `Instances_alone` (`MCInstances`) | `RunsAsAlone`, `InstancesInv` | 692 084 | two noise gates, two buffers of two samples, one moving control: buffers can be shared, chained and used in place, and addresses reused; instances and buffers are symmetric |
| `PortView_run` (`MCPortView`) | `Footprint`, `BorrowsDisjoint`, `SharedStable`, `PortViewInv` | 24 992 | six ports: two audio inputs, two audio outputs and a control port of each kind, so that a wrong port and a wrong kind are both possible; one index out of range; two variables, so two live borrows; blocks of 0, 1 and 2 samples in buffers of 2; the two inputs, the two outputs, and a control port with an audio one, share cells or do not |
| `PluginEntry_publish` (`MCPluginEntry`) | `Ownership`, `HostReadsPlugin`, `NeverMutated`, `EveryCallReturns` | 2 156 | three threads (one builds, two wait or come late); the three example plugins, a plugin with one port for every chain of up to two builder calls and properties set, and NUL bytes early and late in `build` |
| `SpscRing_wrap` (`SpscRing`) | `NoOverwrite` is violated | | capacity 3, counters modulo 8 |
| `LogSink_panic` (`LogSink`) | `InvokedForAll` is violated | | as `LogSink_run` |
| `DelayLine_zero` (`DelayLine`) | the implementation of `EchoTape` is violated | | a delay of zero |
| `DelayPlugin_nan` (`DelayPlugin`) | `Recovers` is violated | | NaN on the feedback port for one run |
| `PortView_alias` (`MCPortView`) | `BorrowsDisjoint` is violated | | the input and the output of a plugin with default `PROPERTIES` are one buffer |

`MaxPush`, `MaxFrames` and `MaxClamps` bound histories; the program has no such
limits, and neither the proofs nor any guard of the code depends on them but
where `SlotMapSafe` says so. `CHECK_DEADLOCK` is off only for `PluginEntry` and
`PortView`, which stop when the process aborts. `TypeOK` of `PluginEntry`,
`PortView`, `DelayLine` and `Instances` are conjuncts of `Ownership`,
`PortViewInv`, `DelayInv` and `InstancesInv`, that of `NoiseGate` is in its
proof.

**Fairness.** `SpscRing`: an operation that was begun is finished (both are
wait-free), a consumer polls and a producer retries, and a thread that keeps
loading a counter reads its last store in the end, which C11 asks of
implementations. Nobody has to drop an end. `LogSink`: the OS schedules the
drainer, `sleep` and `drain_one` end, and stores to `tail` and to the flag
become visible in the end (strong fairness, because the loop leaves the states
in which it loads them again and again); an owner that has begun `log`, `drop`
or the unwinding of `new` goes on. It has to begin none. `PluginEntry`: threads
inside `ladspa_descriptor` are scheduled and none has to call it. Other modules
state safety only.

## What is proved

Every theorem is proved from the assumptions named in the modules (`ASSUME`)
and those in its statement, for all values of the constants.

* **`SpscRing_proofs`**: `Inductive`, `TypeCorrect`, `RaceFree`,
  `NeverOverwrites`, `EachItemOnce`, `RefusesTruly`, `RingIsFifo`, under
  `SlotMapSafe`: the capacity divides 2^w, or no more than 2^w items are ever
  pushed. `SlotMapExact` says that this is what the code needs and no more:
  `SlotMapSafe` holds exactly when any `Capacity` counts in a row have slots of
  their own. None of the properties is inductive: each needs to know that both
  counters are the numbers of items pushed and popped modulo 2^w (`Counts`),
  that a view is the index of the message read last (`ProducerInv`,
  `ConsumerInv`, which give
  popped <= seen by the consumer <= pushed <= seen by the producer + capacity),
  and that the slots hold exactly the items in flight (`SlotInv`). `ModArith`
  has the facts about `%` by which distinct items in flight have distinct slots.
* **`LogSink_proofs`**: `SinkUsesRing` (every step of the sink is a step of the
  ring or leaves it alone), so the ring's invariant carries over;
  `SinkInductive`, `SinkTypeCorrect`, `FlushedOnDrop`, `NothingRunsAfterDrop`,
  `SinkIsEventLog`. The point of `SinkInv` is that in the final pass `floor` is
  the last message of `tail`, so the pass ends only on the true end of the
  queue. `LastPassIsBounded` is the safety half of `DropReturns`: from the
  moment the drainer sees the flag, a measure of what it has left (`StepsLeft`)
  falls with each of its steps, rises with nobody's, and starts no higher than
  a full ring; so `drop` waits for at most `Capacity` calls of `drain_one`,
  which needs the last conjunct but one of `DrainerInv` (a drainer with an event
  in hand has taken it out of the ring). `InvokedUnlessItMayPanic` and
  `NoEarlyRefusal` are named below and under `Delay_proofs`.
* **`Delay_proofs`**: first the line, `DelayInductive`; `EveryReadIsBack`, with
  no hypothesis, says what each frame reads: what was stored `Lag` frames
  before; `DelayLineIsTape` follows where `Lag` is the delay asked for, under
  `TapSafe` (separate buffers, delays of at least one sample, a buffer of
  at least two); `NeverRunsAway` under `GainSafe` (separate buffers, feedback
  at most 95%, mix at most 100%, or NaN), says that no number is ever louder
  than twenty times the loudest input and that NaN is there only if it was
  supplied. `DelayInv` says that the buffer holds the last
  `BufferLen` samples stored, each where its number says. Then the plugin: every
  step of it is a step of the line or leaves the line alone (`PluginUsesLine`),
  so the line's theorems become the plugin's once their hypotheses are known of
  what `instantiate` and `run` compute: `PluginBuffer`, `PluginIsTape` (for
  delays of at least one sample), `PluginNeverRunsAway` (for whatever the host
  writes to the controls). In the same way every step is one of the sink or
  leaves it alone (`PluginUsesLog`), the sink being `EventLog`, which `SinkIsEventLog` shows
  `LogSink` to implement; `NoEarlyRefusal` is the one thing `Report` assumes
  of the queue beyond that. `PluginDelays` and `PluginReports` are about the
  plugin alone: the buffer holds every delay the port allows at every sample
  rate, and clamps are reported in order and once. Last, NaN in the feedback loop, with
  no hypothesis on inputs or controls: `NaNEnters` lists the ways in (the audio
  input, the feedback port, and with one buffer for both ports the mix), and
  `NaNRepeats` says that, while the delay stays the same, one that is in is
  stored again every period (the delay, or the buffer for a delay of zero).
  `PluginRecovers` (separate buffers, NaN neither among the audio samples nor
  on the feedback port; on the other ports it is allowed) keeps NaN out of the
  buffer by its invariant `CleanInv`.
* **`NoiseGate_proofs`**: `GateFollowsItsPast`, by how one more sample changes
  a statement about the whole past; from its invariant `WrongWayRound`.
* **`Instances_proofs`**: `InstancesInductive`, `InstancesRunAlone`, for every
  plugin with one audio input and one output. `RunsAsAlone` needs the host's
  contract as an invariant of whole runs (`HostContract`) and not only as a
  guard at their beginning, and that both copies of a run are at the same frame
  with the same controls (`InStep`).
* **`PortView_proofs`**: `PortViewSafe`, `PortViewFootprint`, for every port
  table, every host and every plugin; `PortViewDisjoint` and `PortViewStable`
  under `InOutApart`: no audio input is connected to the cell of an audio
  output. Nothing else is asked of the host: outputs may share a cell, because
  `&mut self` lends one at a time. `InPlaceOverlaps` shows that the hypothesis
  cannot be weakened: `audio_in_out` on such a pair breaks `BorrowsDisjoint`.
  `BorrowInv` is needed because `BorrowsDisjoint` says nothing of how a borrow
  came about: a borrow is of a port of its accessor's kind, and an exclusive one
  has at most the other half of its `audio_in_out` beside it.
* **`PluginEntry_proofs`**: `EntryInductive`, `OneBuilder`, `PublishedIsFrozen`
  for any threads and plugins. The invariant adds to `Ownership` the contents of
  every live allocation, whose bundle is in the cell, and that a pointer has
  been answered only for index 0 and only once the cell was full.
  `HostReadsDeclaration` needs one fact about data, `ChainReads`: a port's
  chain of builder calls, of any length, is read back as it was declared. The
  chain is folded by a recursive function. The library's induction theorems
  cannot be used here (they take an operator as a parameter), so the induction
  is over a set of numbers, of which `WFMin` gives the least element
  (`SetInduction`): the lengths up to which the fold is as it should be.

Proved of the five disagreements below, so that each is known to end where its
counterexample does: (1) the capacities `SlotMapSafe` excludes are those for
which a slot is reused too early, and no others (`SlotMapExact`); (2) without a
panic every event reaches `drain_one` (`InvokedUnlessItMayPanic`); (3) a delay of zero reads exactly one buffer length
back, and every other delay is exact (`EveryReadIsBack`); (4) NaN gets into
the buffer through the feedback port and the audio input and in no other way as
long as the buffers are separate (`NaNEnters`), so a plugin that is spared on
both recovers from NaN elsewhere (`PluginRecovers`); one NaN comes back every
period (`NaNRepeats`), and once NaN has filled the buffer only `activate` clears
it (`OnlyActivateRecovers`); (5) borrows
overlap under processing in place and under nothing else (`PortViewDisjoint`,
`InPlaceOverlaps`).

**A precaution.** tlapm 1.4.5 takes the type of the first operand for the type
of a union when it translates an obligation for Z3: from `x \in Int \cup {NaN}`
it proves `x \in Int`, which is false. With `{NaN}` first it does not. Every
union of numbers and NaN in these modules is therefore written `{NaN} \cup ...`,
and the proofs about NaN were made, or made again, in that form.

Model-checked only: liveness under fairness (`Delivered`, `RetrySucceeds`,
`DropReturns`, `EventuallyInvoked`, `EveryCallReturns`), which is beyond this
prover. Every invariant and every action property of the runs is proved.

## Where the code and its documentation disagree

Each of these is a run that TLC ends with a counterexample.

1. `tail % capacity` on a wrapping counter (`src/realtime/ring.rs:188`): if the
   capacity does not divide 2^w, the slots jump when the counter wraps, and a
   live slot is overwritten. On a 32-bit target this takes 2^32 pushes.
   (`SpscRing_wrap`)
2. A `drain_one` that panics leaves accepted events behind, although
   `LogSink::new` promises each is seen before drop returns. (`LogSink_panic`)
3. A delay of zero samples plays the oldest sample in the buffer.
   (`DelayLine_zero`)
4. A NaN on the feedback port passes `clamp` and stays in the feedback loop
   until `activate`. (`DelayPlugin_nan`) A NaN sample on the audio input, which
   `examples/delay/src/lib.rs:200` stores like any other, stays there as well.
5. `audio_in_out` relies on the host to give distinct buffers because
   `PROPERTY_INPLACE_BROKEN` is "the default"; the default is no property, so
   the host may put one buffer behind both ports, and a shared and a mutable
   slice of it are live together. (`PortView_alias`) One consequence in the
   model: with one buffer behind both ports of the delay (`InPlace`), the second
   read of the input sample may return the output, and the cap on the feedback
   does not bound the gain.

Others were met while reading and are not runs: the comment at
`src/realtime/ring.rs:181-183` has the `Acquire` load of `head` "rule out a false
'queue full' verdict", but an `Acquire` load may be as late as any other, and
`PushRejected` refuses for a head that is out of date while the ring has room (no harm
comes of it: the caller may retry, and `RetrySucceeds` says that it gets through);
`docs/architecture.md:147` has
a const assertion that `UNIQUE_ID` is not zero, and there is none; the doc of
`with_default` (`src/port.rs:168`) calls the API exact, but a second
`with_default` ORs two codes (Minimum, then Low, reads as Middle); `examples/delay/README.md:57` rounds the
delay, the code truncates; ADR 0004 (lines 50-53) does not require `Send` of a
plugin, `src/plugin.rs:98` does.

## What is not modelled

* f32 rounding: samples and controls are integers with a NaN, and products are
  rounded down. Infinities are not values of their own; as samples they
  stay in the loop as a NaN does. The properties that hold up to rounding only,
  or that depend on the conversions of `instantiate` and `run` losing whole samples at extreme
  rates, are out of reach.
* The truncation of `sample_rate` from `c_ulong` to `u32`.
* `run` of the gain example (one multiplication per sample, a stateless special
  case of `Step`), `RealtimeContext` (a marker type without state), the wording
  of errors, struct layout, CI and packaging.
* What breaks LADSPA's contract: `run` with an unconnected port, callbacks after
  `cleanup`, concurrent calls on one instance, `connect_port` with an index that
  is not a port's.

## Plan

The order follows importance: what is concurrent first, then what the framework
promises every plugin, then the examples.

1. Done: `BoundedFifo`, `SpscRing`, `EventLog`, `LogSink`; `EchoTape`,
   `DelayLine`, `DelayPlugin`; the noise gate; `Instances`, `PortView`;
   `PortHints`, `ExamplePlugins`, `PluginEntry`; and a module of proofs for each
   of these components.
2. Left to model: the delay as a second plugin of `Instances`, so that `cleanup`
   of one instance, on the host's thread, drops a log sink while others run; for
   this `Instances` needs a second hook, for what a plugin does on drop.
3. Left to prove: `RunsAsAlone` for plugins with any number of audio ports,
   which would put `PortView` below `Instances` as what its `Step` may read and
   write.
