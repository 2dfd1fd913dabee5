------------------------------ MODULE PluginEntry ------------------------------
(***************************************************************************)
(* ladspa_descriptor, emitted by plugin_entry! (macros.rs), called by a    *)
(* host from any of its threads, and the DescriptorBundle it builds on the *)
(* first call (descriptor.rs).                                             *)
(*                                                                         *)
(* The bundle is a struct of pointers into allocations it owns.  An        *)
(* address is a pair of the building thread and the field it was made for; *)
(* heap maps the live ones to their contents.  The OnceLock is external.   *)
(*                                                                         *)
(* A definition named Mutant_... is a plausible fault in the definition    *)
(* that follows it; the specification does not use it.                     *)
(***************************************************************************)
EXTENDS PortHints

CONSTANTS Threads,   \* the host's threads
          Plugins,   \* the plugin types considered: their associated items
          WithNul,   \* the strings that contain a NUL byte
          MaxIndex,  \* largest index the host asks for
          NULL       \* the null pointer, and no bundle

Strings == {"LABEL", "NAME", "MAKER", "COPYRIGHT"}

\* The order in which build makes the bundle's allocations.
BuildOrder == <<"LABEL", "NAME", "MAKER", "COPYRIGHT", "port_descriptors",
                "port_name_strings", "port_names", "port_range_hints">>
Fields == {BuildOrder[k] : k \in DOMAIN BuildOrder}

\* The fields the descriptor points to, and those the bundle keeps alive; what
\* it does not keep is freed when build returns.
Pointed == Fields \ {"port_name_strings"}
Mutant_ForgetsNames == Pointed
Kept == Fields

\* The shims plugin_entry! hands to build, and the function pointers build
\* makes of them: LADSPA's two optional ones stay empty.
Callbacks ==
    [instantiate |-> "instantiate_shim", connect_port |-> "connect_port_shim",
     run |-> "run_shim", cleanup |-> "cleanup_shim",
     activate |-> "activate_shim", deactivate |-> "deactivate_shim"]
Optional == {"run_adding", "set_run_adding_gain"}
Slots == [slot \in DOMAIN Callbacks \cup Optional |->
            IF slot \in Optional THEN NULL ELSE Callbacks[slot]]

\* The raw descriptor of a plugin type, built by thread t.
Descriptor(p, t) ==
    [unique_id |-> p.UNIQUE_ID, properties |-> p.PROPERTIES,
     port_count |-> Len(p.ports), slots |-> Slots, ptrs |-> [f \in Pointed |-> <<t, f>>]]

Static == "__TYMPAN_LADSPA_BUNDLE"  \* the descriptor's address: the static's

ASSUME PluginAssumption ==
    /\ \A p \in Plugins :
          /\ DOMAIN p = Strings \cup {"UNIQUE_ID", "PROPERTIES", "ports"}
          /\ DOMAIN p.ports = 1 .. Len(p.ports)
          /\ \A i \in DOMAIN p.ports :
                p.ports[i].kind \in PortKind /\ p.ports[i].calls \in Seq(Calls(Int))
          /\ \A t \in Threads : Descriptor(p, t) # NULL
    /\ \A slot \in DOMAIN Callbacks : Callbacks[slot] # NULL
    /\ NULL # Static
    /\ MaxIndex \in Nat

VARIABLES Plugin,   \* the type plugin_entry! was invoked with
          once,     \* state of __TYMPAN_LADSPA_BUNDLE: empty, busy or full
          bundle,   \* the DescriptorBundle in it: the pointers of its descriptor
          heap,     \* contents of the live allocations
          pc,       \* what each thread does
          made,     \* how many allocations each thread's build has made
          answers,  \* history: what ladspa_descriptor returned, pairs of an index and a pointer
          aborted   \* a panic reached the C caller

vars == <<Plugin, once, bundle, heap, pc, made, answers, aborted>>

PortNames == [i \in DOMAIN Plugin.ports |-> Plugin.ports[i].name]

\* What each of them holds.  port_names holds pointers to the port name strings,
\* here the one allocation they are in.
Content(t, field) ==
    CASE field \in Strings -> Plugin[field]
      [] field = "port_descriptors" ->
            [i \in DOMAIN Plugin.ports |-> LadspaBits(Plugin.ports[i].kind)]
      [] field = "port_name_strings" -> PortNames
      [] field = "port_names" -> <<t, "port_name_strings">>
      [] field = "port_range_hints" ->
            [i \in DOMAIN Plugin.ports |-> Built(Plugin.ports[i].calls)]

\* make_cstring panics on a NUL byte.
MakePanics(field) ==
    \/ field \in Strings /\ Plugin[field] \in WithNul
    \/ field = "port_name_strings" /\ \E i \in DOMAIN PortNames : PortNames[i] \in WithNul

Owned(t) == {<<t, BuildOrder[k]>> : k \in 1 .. made[t]}
Without(owned) == [a \in DOMAIN heap \ owned |-> heap[a]]

Init ==
    /\ Plugin \in Plugins
    /\ once = "empty"
    /\ bundle = NULL
    /\ heap = [a \in {} |-> NULL]
    /\ pc = [t \in Threads |-> "idle"]
    /\ made = [t \in Threads |-> 0]
    /\ answers = {}
    /\ aborted = FALSE
-------------------------------------------------------------------------------
\* The host calls ladspa_descriptor(index): only index 0 has a plugin.
Call(t, index) ==
    /\ pc[t] = "idle"
    /\ IF index = 0
       THEN /\ pc' = [pc EXCEPT ![t] = "get_or_init"]
            /\ UNCHANGED answers
       ELSE /\ answers' = answers \cup {<<index, NULL>>}
            /\ UNCHANGED pc
    /\ UNCHANGED <<Plugin, once, bundle, heap, made, aborted>>

Mutant_CheckThenBuild(t) ==
    /\ pc[t] = "get_or_init"
    /\ once # "full"
    /\ once' = "busy"
    /\ pc' = [pc EXCEPT ![t] = "build"]
    /\ UNCHANGED <<Plugin, bundle, heap, made, answers, aborted>>

\* get_or_init runs its closure on one of the threads that found the cell
\* empty; the others wait until the cell is full, or empty again.
InitStarts(t) ==
    /\ pc[t] = "get_or_init"
    /\ once = "empty"
    /\ once' = "busy"
    /\ pc' = [pc EXCEPT ![t] = "build"]
    /\ UNCHANGED <<Plugin, bundle, heap, made, answers, aborted>>

\* build makes the next allocation.
Make(t) ==
    LET field == BuildOrder[made[t] + 1]
    IN  /\ pc[t] = "build"
        /\ made[t] < Len(BuildOrder)
        /\ ~MakePanics(field)
        /\ made' = [made EXCEPT ![t] = @ + 1]
        /\ heap' = [a \in DOMAIN heap \cup {<<t, field>>} |->
                        IF a = <<t, field>> THEN Content(t, field) ELSE heap[a]]
        /\ UNCHANGED <<Plugin, once, bundle, pc, answers, aborted>>

\* make_cstring panics: build's locals are dropped and the cell is empty again.
MakeUnwinds(t) ==
    /\ pc[t] = "build"
    /\ made[t] < Len(BuildOrder)
    /\ MakePanics(BuildOrder[made[t] + 1])
    /\ heap' = Without(Owned(t))
    /\ made' = [made EXCEPT ![t] = 0]
    /\ once' = "empty"
    /\ pc' = [pc EXCEPT ![t] = "unwinding"]
    /\ UNCHANGED <<Plugin, bundle, answers, aborted>>

\* The panic reaches the extern "C" frame and aborts the process.  Rust does so
\* from 1.81, or with panic = "abort"; with neither it is undefined behaviour.
Abort(t) ==
    /\ pc[t] = "unwinding"
    /\ aborted' = TRUE
    /\ UNCHANGED <<Plugin, once, bundle, heap, pc, made, answers>>

Mutant_NeverFull(t) ==
    /\ pc[t] = "build"
    /\ made[t] = Len(BuildOrder)
    /\ pc' = [pc EXCEPT ![t] = "get_or_init"]
    /\ UNCHANGED <<Plugin, once, bundle, heap, made, answers, aborted>>

\* build returns the bundle, its strings and arrays staying where they are, and
\* get_or_init moves it into the cell.
InitEnds(t) ==
    /\ pc[t] = "build"
    /\ made[t] = Len(BuildOrder)
    /\ bundle' = Descriptor(Plugin, t)
    /\ heap' = Without({<<t, f>> : f \in Fields \ Kept})
    /\ made' = [made EXCEPT ![t] = 0]
    /\ once' = "full"
    /\ pc' = [pc EXCEPT ![t] = "get_or_init"]
    /\ UNCHANGED <<Plugin, answers, aborted>>

\* get_or_init finds the cell full: descriptor_ptr is a pointer into the static.
Returns(t) ==
    /\ pc[t] = "get_or_init"
    /\ once = "full"
    /\ answers' = answers \cup {<<0, Static>>}
    /\ pc' = [pc EXCEPT ![t] = "idle"]
    /\ UNCHANGED <<Plugin, once, bundle, heap, made, aborted>>

Thread(t) ==
    InitStarts(t) \/ Make(t) \/ MakeUnwinds(t) \/ Abort(t) \/ InitEnds(t) \/ Returns(t)

Next ==
    /\ ~aborted
    /\ \E t \in Threads : Thread(t) \/ \E index \in 0 .. MaxIndex : Call(t, index)

\* Threads that are inside ladspa_descriptor get to run; none has to call it.
Spec == Init /\ [][Next]_vars /\ \A t \in Threads : WF_vars(~aborted /\ Thread(t))
-------------------------------------------------------------------------------
\* Type correctness.
TypeOK ==
    /\ Plugin \in Plugins
    /\ once \in {"empty", "busy", "full"}
    /\ DOMAIN heap \subseteq Threads \X Fields
    /\ pc \in [Threads -> {"idle", "get_or_init", "build", "unwinding"}]
    /\ made \in [Threads -> 0 .. Len(BuildOrder)]
    /\ answers \subseteq (0 .. MaxIndex) \X {NULL, Static}
    /\ aborted \in BOOLEAN

\* One thread builds at a time, and the live allocations are those of its build
\* and those of the published bundle: a build that panics leaks nothing.
Ownership ==
    /\ TypeOK
    /\ once = "busy" <=> \E t \in Threads : pc[t] = "build"
    /\ \A t, u \in Threads : pc[t] = "build" /\ pc[u] = "build" => t = u
    /\ once = "full" <=> bundle # NULL
    /\ LET published == IF bundle = NULL THEN {}
                        ELSE {<<bundle.ptrs["LABEL"][1], f>> : f \in Fields}
       IN  DOMAIN heap = published \cup UNION {Owned(t) : t \in Threads}

\* The host sees one plugin, at index 0.  From the moment a pointer has been
\* returned to any thread, and for ever, following it and the pointers behind
\* it reaches live storage, in which a host reads what the plugin's author
\* declared, each port's kind, bounds, flags and default included.
HostReadsPlugin ==
    \A answer \in answers :
        /\ answer[2] = IF answer[1] = 0 THEN Static ELSE NULL
        /\ answer[1] = 0 =>
            /\ bundle # NULL
            /\ \A f \in Pointed : bundle.ptrs[f] \in DOMAIN heap
            /\ bundle.unique_id = Plugin.UNIQUE_ID
            /\ bundle.properties = Plugin.PROPERTIES
            /\ \A slot \in DOMAIN Slots : bundle.slots[slot] = NULL <=> slot \in Optional
            /\ bundle.port_count = Len(Plugin.ports)
            /\ \A f \in Strings : heap[bundle.ptrs[f]] = Plugin[f]
            /\ LET names == heap[bundle.ptrs["port_names"]]
                   kinds == heap[bundle.ptrs["port_descriptors"]]
                   hints == heap[bundle.ptrs["port_range_hints"]]
               IN  /\ names \in DOMAIN heap
                   /\ \A i \in 1 .. bundle.port_count :
                         /\ heap[names][i] = Plugin.ports[i].name
                         /\ KindRead(kinds[i]) = Plugin.ports[i].kind
                         /\ ReadAsDeclared(hints[i], Plugin.ports[i].calls)

\* Once the bundle is in the cell neither it nor anything it owns changes: the
\* ground of descriptor.rs for sharing it between threads without a lock.
NeverMutated ==
    [][bundle # NULL =>
        /\ bundle' = bundle
        /\ \A f \in Pointed : heap'[bundle.ptrs[f]] = heap[bundle.ptrs[f]]]_vars

\* Threads that wait for another one's build are not forgotten: every call
\* returns, unless a panic aborts the process.
EveryCallReturns ==
    \A t \in Threads : pc[t] # "idle" ~> (pc[t] = "idle" \/ aborted)
=============================================================================
