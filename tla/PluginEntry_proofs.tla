--------------------------- MODULE PluginEntry_proofs ---------------------------
(***************************************************************************)
(* Proofs about PluginEntry for any number of host threads and every       *)
(* plugin type: the bundle is built by one thread, published whole, and    *)
(* never changes; and a host reads from it what the plugin's author wrote, *)
(* with ports built by any chain of calls.                                 *)
(***************************************************************************)
EXTENDS PluginEntry, SequenceTheorems, WellFoundedInduction, TLAPS

(***************************************************************************)
(* The inductive invariant.  Beyond Ownership: every live allocation has   *)
(* the contents it was made with, the bundle is the descriptor one thread  *)
(* built, a thread that is not building owns nothing, and no pointer was   *)
(* returned before there was a bundle.                                     *)
(***************************************************************************)
Contents == \A t \in Threads : \A f \in Fields :
               <<t, f>> \in DOMAIN heap => heap[<<t, f>>] = Content(t, f)
Published == bundle # NULL => \E t \in Threads : bundle = Descriptor(Plugin, t)
Owning == \A t \in Threads : pc[t] # "build" => made[t] = 0
Answered ==
    \A answer \in answers :
        /\ answer[2] = IF answer[1] = 0 THEN Static ELSE NULL
        /\ answer[1] = 0 => bundle # NULL

EntryInv == Ownership /\ Contents /\ Published /\ Owning /\ Answered
-------------------------------------------------------------------------------
\* The eight allocations of build.
LEMMA EightFields ==
    /\ Len(BuildOrder) = 8 /\ DOMAIN BuildOrder = 1 .. 8
    /\ Strings \subseteq Fields
    /\ \A f \in {"port_descriptors", "port_name_strings", "port_names", "port_range_hints"} :
          f \in Fields
    /\ "LABEL" \in Pointed
    /\ Kept = Fields
  BY DEF BuildOrder, Fields, Strings, Pointed, Kept

\* What an allocation holds depends on the plugin type alone.
LEMMA ContentStable ==
    ASSUME Plugin' = Plugin, NEW t, NEW f
    PROVE  Content(t, f)' = Content(t, f)
  BY DEF Content, PortNames

\* Ownership as a statement about who is building.
LEMMA Builder ==
    ASSUME EntryInv, NEW t \in Threads, pc[t] = "build"
    PROVE  /\ once = "busy" /\ bundle = NULL
           /\ \A u \in Threads : u # t => pc[u] # "build" /\ made[u] = 0
           /\ DOMAIN heap = Owned(t)
<1>1. once = "busy" /\ bundle = NULL
  BY DEF EntryInv, Ownership
<1>2. \A u \in Threads : u # t => pc[u] # "build" /\ made[u] = 0
  BY DEF EntryInv, Ownership, Owning
<1>3. \A u \in Threads : u # t => Owned(u) = {}
  BY <1>2 DEF Owned
<1>4. DOMAIN heap = UNION {Owned(u) : u \in Threads}
  BY <1>1 DEF EntryInv, Ownership
<1> QED BY <1>1, <1>2, <1>3, <1>4

\* The storage of the published bundle and of whoever is building.
Storage == LET published == IF bundle = NULL THEN {}
                            ELSE {<<bundle.ptrs["LABEL"][1], f>> : f \in Fields}
           IN  DOMAIN heap = published \cup UNION {Owned(t) : t \in Threads}

Exclusion ==
    /\ once = "busy" <=> \E t \in Threads : pc[t] = "build"
    /\ \A t, u \in Threads : pc[t] = "build" /\ pc[u] = "build" => t = u
    /\ once = "full" <=> bundle # NULL

LEMMA OwnershipParts == Ownership <=> TypeOK /\ Exclusion /\ Storage
  BY DEF Ownership, Exclusion, Storage

LEMMA EntryInit == Init => EntryInv
<1> SUFFICES ASSUME Init PROVE EntryInv
  OBVIOUS
<1>1. TypeOK
  <2>1. DOMAIN heap = {} /\ made \in [Threads -> 0 .. Len(BuildOrder)]
    BY EightFields DEF Init
  <2> QED BY <2>1 DEF Init, TypeOK
<1>2. Exclusion
  BY DEF Init, Exclusion
<1>3. Storage
  <2>1. \A t \in Threads : Owned(t) = {}
    BY DEF Init, Owned
  <2>2. DOMAIN heap = {} /\ bundle = NULL
    BY DEF Init
  <2> QED BY <2>1, <2>2 DEF Storage
<1>4. Contents /\ Published /\ Owning /\ Answered
  BY DEF Init, Contents, Published, Owning, Answered
<1> QED BY <1>1, <1>2, <1>3, <1>4, OwnershipParts DEF EntryInv

\* A step that touches neither the storage nor who builds.
LEMMA QuietStep ==
    ASSUME EntryInv, UNCHANGED <<Plugin, once, bundle, heap, made>>, TypeOK',
           \A t \in Threads : pc'[t] = "build" <=> pc[t] = "build", Answered'
    PROVE  EntryInv'
<1>1. Exclusion' /\ Storage'
  BY OwnershipParts DEF EntryInv, Exclusion, Storage, Owned
<1>2. Contents'
  BY ContentStable DEF EntryInv, Contents
<1>3. Published' /\ Owning'
  BY DEF EntryInv, Published, Owning
<1>4. Ownership'
  BY <1>1 DEF Ownership, Exclusion, Storage
<1> QED BY <1>2, <1>3, <1>4 DEF EntryInv

LEMMA CallKeeps ==
    ASSUME EntryInv, NEW t \in Threads, NEW index \in 0 .. MaxIndex, Call(t, index)
    PROVE  EntryInv'
<1>1. UNCHANGED <<Plugin, once, bundle, heap, made, aborted>>
  BY DEF Call
<1>2. TypeOK'
  BY DEF Call, EntryInv, Ownership, TypeOK
<1>3. \A u \in Threads : pc'[u] = "build" <=> pc[u] = "build"
  BY DEF Call, EntryInv, Ownership, TypeOK
<1>4. Answered'
  BY DEF Call, EntryInv, Answered
<1> QED BY <1>1, <1>2, <1>3, <1>4, QuietStep

LEMMA ReturnsKeeps ==
    ASSUME EntryInv, NEW t \in Threads, Returns(t)
    PROVE  EntryInv'
<1>1. UNCHANGED <<Plugin, once, bundle, heap, made, aborted>> /\ bundle # NULL
  BY DEF Returns, EntryInv, Ownership
<1>2. TypeOK'
  BY PluginAssumption DEF Returns, EntryInv, Ownership, TypeOK
<1>3. \A u \in Threads : pc'[u] = "build" <=> pc[u] = "build"
  BY DEF Returns, EntryInv, Ownership, TypeOK
<1>4. Answered'
  BY <1>1 DEF Returns, EntryInv, Answered
<1> QED BY <1>1, <1>2, <1>3, <1>4, QuietStep

LEMMA InitStartsKeeps ==
    ASSUME EntryInv, NEW t \in Threads, InitStarts(t)
    PROVE  EntryInv'
<1>1. UNCHANGED <<Plugin, bundle, heap, made, answers, aborted>>
  BY DEF InitStarts
<1>2. /\ pc \in [Threads -> {"idle", "get_or_init", "build", "unwinding"}]
      /\ \A u \in Threads : pc[u] # "build"
      /\ bundle = NULL
  BY DEF InitStarts, EntryInv, Ownership, TypeOK
<1>3. /\ once' = "busy" /\ pc'[t] = "build"
      /\ \A u \in Threads : u # t => pc'[u] = pc[u]
  BY <1>2 DEF InitStarts
<1>4. TypeOK'
  BY DEF InitStarts, EntryInv, Ownership, TypeOK
<1>5. Exclusion'
  BY <1>1, <1>2, <1>3 DEF Exclusion
<1>6. Storage'
  BY <1>1, OwnershipParts DEF EntryInv, Storage, Owned
<1>7. Contents'
  BY <1>1, ContentStable DEF EntryInv, Contents
<1>8. Published' /\ Owning' /\ Answered'
  BY <1>1, <1>2, <1>3 DEF EntryInv, Published, Owning, Answered
<1>9. Ownership'
  BY <1>4, <1>5, <1>6 DEF Ownership, Exclusion, Storage
<1> QED BY <1>7, <1>8, <1>9 DEF EntryInv

LEMMA MakeKeeps ==
    ASSUME EntryInv, NEW t \in Threads, Make(t)
    PROVE  EntryInv'
<1> DEFINE field == BuildOrder[made[t] + 1]
           fresh == <<t, field>>
<1>1. /\ UNCHANGED <<Plugin, once, bundle, pc, answers, aborted>>
      /\ pc[t] = "build" /\ made[t] < 8
      /\ made' = [made EXCEPT ![t] = @ + 1]
      /\ heap' = [a \in DOMAIN heap \cup {fresh} |->
                     IF a = fresh THEN Content(t, field) ELSE heap[a]]
  BY EightFields DEF Make
<1>2. made \in [Threads -> 0 .. 8] /\ made' \in [Threads -> 0 .. 8]
  BY <1>1, EightFields DEF EntryInv, Ownership, TypeOK
<1>3. made[t] \in 0 .. 7 /\ made'[t] = made[t] + 1 /\ \A u \in Threads : u # t => made'[u] = made[u]
  BY <1>1, <1>2
<1>4. field \in Fields /\ fresh \in Threads \X Fields
  BY <1>3, EightFields DEF Fields
<1>5. DOMAIN heap = Owned(t) /\ bundle = NULL
      /\ \A u \in Threads : u # t => pc[u] # "build" /\ made[u] = 0
  BY <1>1, Builder
<1>6. Owned(t)' = Owned(t) \cup {fresh}
  BY <1>3 DEF Owned
<1>7. \A u \in Threads : u # t => Owned(u)' = {}
  BY <1>3, <1>5 DEF Owned
<1>8. DOMAIN heap' = Owned(t)'
  BY <1>1, <1>5, <1>6
<1>9. Storage'
  BY <1>1, <1>5, <1>7, <1>8 DEF Storage
<1>10. TypeOK'
  BY <1>1, <1>2, <1>4, EightFields DEF EntryInv, Ownership, TypeOK
<1>11. Exclusion'
  BY <1>1, OwnershipParts DEF EntryInv, Exclusion
<1>12. Contents'
  <2> SUFFICES ASSUME NEW u \in Threads, NEW f \in Fields, <<u, f>> \in DOMAIN heap'
               PROVE  heap'[<<u, f>>] = Content(u, f)
    BY <1>1, ContentStable DEF Contents
  <2>1. CASE <<u, f>> = fresh
    BY <1>1, <2>1
  <2>2. CASE <<u, f>> # fresh
    BY <1>1, <2>2 DEF EntryInv, Contents
  <2> QED BY <2>1, <2>2
<1>13. Published' /\ Owning' /\ Answered'
  BY <1>1, <1>3 DEF EntryInv, Published, Owning, Answered
<1>14. Ownership'
  BY <1>9, <1>10, <1>11 DEF Ownership, Exclusion, Storage
<1> QED BY <1>12, <1>13, <1>14 DEF EntryInv

LEMMA MakeUnwindsKeeps ==
    ASSUME EntryInv, NEW t \in Threads, MakeUnwinds(t)
    PROVE  EntryInv'
<1>1. /\ UNCHANGED <<Plugin, bundle, answers, aborted>>
      /\ pc[t] = "build" /\ pc' = [pc EXCEPT ![t] = "unwinding"]
      /\ made' = [made EXCEPT ![t] = 0] /\ once' = "empty"
      /\ heap' = [a \in DOMAIN heap \ Owned(t) |-> heap[a]]
  BY DEF MakeUnwinds, Without
<1>2. /\ pc \in [Threads -> {"idle", "get_or_init", "build", "unwinding"}]
      /\ made \in [Threads -> 0 .. Len(BuildOrder)]
  BY DEF EntryInv, Ownership, TypeOK
<1>3. DOMAIN heap = Owned(t) /\ bundle = NULL
      /\ \A u \in Threads : u # t => pc[u] # "build" /\ made[u] = 0
  BY <1>1, Builder
<1>4. DOMAIN heap' = {}
  BY <1>1, <1>3
<1>5. \A u \in Threads : made'[u] = 0 /\ pc'[u] # "build"
  BY <1>1, <1>2, <1>3
<1>6. TypeOK'
  <2>1. made' \in [Threads -> 0 .. Len(BuildOrder)]
    BY <1>1, <1>2, EightFields
  <2> QED BY <1>1, <1>2, <1>4, <2>1 DEF EntryInv, Ownership, TypeOK
<1>7. Exclusion'
  BY <1>1, <1>3, <1>5 DEF Exclusion
<1>8. Storage'
  <2>1. \A u \in Threads : Owned(u)' = {}
    BY <1>5 DEF Owned
  <2> QED BY <1>1, <1>3, <1>4, <2>1 DEF Storage
<1>9. Contents' /\ Published' /\ Owning' /\ Answered'
  BY <1>1, <1>3, <1>4, <1>5 DEF EntryInv, Contents, Published, Owning, Answered
<1>10. Ownership'
  BY <1>6, <1>7, <1>8 DEF Ownership, Exclusion, Storage
<1> QED BY <1>9, <1>10 DEF EntryInv

LEMMA AbortKeeps ==
    ASSUME EntryInv, NEW t \in Threads, Abort(t)
    PROVE  EntryInv'
<1>1. UNCHANGED <<Plugin, once, bundle, heap, pc, made, answers>>
  BY DEF Abort
<1>2. TypeOK'
  BY DEF Abort, EntryInv, Ownership, TypeOK
<1>3. Answered'
  BY <1>1 DEF EntryInv, Answered
<1> QED BY <1>1, <1>2, <1>3, QuietStep

\* Where the descriptor thread t built points to.
LEMMA Pointers ==
    ASSUME NEW p, NEW t
    PROVE  \A f \in Pointed : Descriptor(p, t).ptrs[f] = <<t, f>>
  BY DEF Descriptor

LEMMA InitEndsKeeps ==
    ASSUME EntryInv, NEW t \in Threads, InitEnds(t)
    PROVE  EntryInv'
<1>1. /\ UNCHANGED <<Plugin, answers, aborted>>
      /\ pc[t] = "build" /\ pc' = [pc EXCEPT ![t] = "get_or_init"]
      /\ made[t] = 8 /\ made' = [made EXCEPT ![t] = 0] /\ once' = "full"
      /\ bundle' = Descriptor(Plugin, t)
      /\ heap' = Without({<<t, f>> : f \in Fields \ Kept})
  BY EightFields DEF InitEnds
<1>2. /\ pc \in [Threads -> {"idle", "get_or_init", "build", "unwinding"}]
      /\ made \in [Threads -> 0 .. Len(BuildOrder)]
      /\ Plugin \in Plugins
  BY DEF EntryInv, Ownership, TypeOK
<1>3. DOMAIN heap = Owned(t) /\ bundle = NULL
      /\ \A u \in Threads : u # t => pc[u] # "build" /\ made[u] = 0
  BY <1>1, Builder
<1>4. heap' = [a \in DOMAIN heap |-> heap[a]]
  <2>1. {<<t, f>> : f \in Fields \ Kept} = {}
    BY EightFields
  <2> QED BY <1>1, <2>1 DEF Without
<1>5. DOMAIN heap' = {<<t, f>> : f \in Fields}
  BY <1>1, <1>3, <1>4, EightFields DEF Owned, Fields
<1>6. \A u \in Threads : made'[u] = 0 /\ pc'[u] # "build"
  BY <1>1, <1>2, <1>3
<1>7. bundle' # NULL
  BY <1>1, <1>2, PluginAssumption
<1>8. TypeOK'
  <2>1. made' \in [Threads -> 0 .. Len(BuildOrder)]
    BY <1>1, <1>2, EightFields
  <2>2. DOMAIN heap' \subseteq Threads \X Fields
    BY <1>5
  <2> QED BY <1>1, <1>2, <2>1, <2>2 DEF EntryInv, Ownership, TypeOK
<1>9. Exclusion'
  BY <1>1, <1>6, <1>7 DEF Exclusion
<1>10. Storage'
  <2>1. \A u \in Threads : Owned(u)' = {}
    BY <1>6 DEF Owned
  <2>2. bundle'.ptrs["LABEL"] = <<t, "LABEL">>
    BY <1>1, Pointers, EightFields
  <2> QED BY <1>5, <1>7, <2>1, <2>2 DEF Storage
<1>11. Contents'
  BY <1>1, <1>4, ContentStable DEF EntryInv, Contents
<1>12. Published'
  <2>1. Descriptor(Plugin, t)' = Descriptor(Plugin, t)
    BY <1>1 DEF Descriptor
  <2> QED BY <1>1, <2>1 DEF Published
<1>13. Owning' /\ Answered'
  BY <1>1, <1>6, <1>7 DEF EntryInv, Owning, Answered
<1>14. Ownership'
  BY <1>8, <1>9, <1>10 DEF Ownership, Exclusion, Storage
<1> QED BY <1>11, <1>12, <1>13, <1>14 DEF EntryInv

LEMMA EntryStutters == EntryInv /\ UNCHANGED vars => EntryInv'
<1> SUFFICES ASSUME EntryInv, UNCHANGED vars PROVE EntryInv'
  OBVIOUS
<1>1. TypeOK' /\ Answered'
  BY DEF vars, EntryInv, Ownership, TypeOK, Answered
<1> QED BY <1>1, QuietStep DEF vars

\* The inductive invariant, for any number of threads calling at any time.
THEOREM EntryInductive == Spec => []EntryInv
<1>1. EntryInv /\ [Next]_vars => EntryInv'
  <2> SUFFICES ASSUME EntryInv, [Next]_vars PROVE EntryInv'
    OBVIOUS
  <2>1. CASE UNCHANGED vars
    BY <2>1, EntryStutters
  <2>2. ASSUME NEW t \in Threads, Thread(t) PROVE EntryInv'
    BY <2>2, InitStartsKeeps, MakeKeeps, MakeUnwindsKeeps, AbortKeeps, InitEndsKeeps,
       ReturnsKeeps DEF Thread
  <2>3. ASSUME NEW t \in Threads, NEW index \in 0 .. MaxIndex, Call(t, index) PROVE EntryInv'
    BY <2>3, CallKeeps
  <2> QED BY <2>1, <2>2, <2>3 DEF Next
<1> QED BY <1>1, EntryInit, PTL DEF Spec

\* One thread builds at a time and nothing leaks, a panic in build included.
THEOREM OneBuilder == Spec => []Ownership
<1>1. EntryInv => Ownership
  BY DEF EntryInv
<1> QED BY <1>1, EntryInductive, PTL

\* No step, whichever thread's, changes the bundle or what it points to once it
\* is in the cell.
LEMMA Frozen ==
    ASSUME EntryInv, [Next]_vars, bundle # NULL
    PROVE  bundle' = bundle /\ heap' = heap
<1>1. once = "full" /\ \A t \in Threads : pc[t] # "build"
  BY DEF EntryInv, Ownership
<1>2. ASSUME NEW t \in Threads, Thread(t) PROVE bundle' = bundle /\ heap' = heap
  BY <1>1, <1>2 DEF Thread, InitStarts, Make, MakeUnwinds, Abort, InitEnds, Returns
<1>3. ASSUME NEW t \in Threads, NEW index \in 0 .. MaxIndex, Call(t, index)
      PROVE  bundle' = bundle /\ heap' = heap
  BY <1>3 DEF Call
<1> QED BY <1>2, <1>3 DEF Next, vars

THEOREM PublishedIsFrozen == Spec => NeverMutated
<1>1. EntryInv /\ [Next]_vars =>
        [bundle # NULL =>
            /\ bundle' = bundle
            /\ \A f \in Pointed : heap'[bundle.ptrs[f]] = heap[bundle.ptrs[f]]]_vars
  BY Frozen
<1> QED BY <1>1, EntryInductive, PTL DEF Spec, NeverMutated
-------------------------------------------------------------------------------
\* A host reads each kind of port as it was declared.
LEMMA KindsRead == ASSUME NEW kind \in PortKind PROVE KindRead(LadspaBits(kind)) = kind
<1>1. kind \in {"AudioInput", "AudioOutput", "ControlInput", "ControlOutput"}
  BY DEF PortKind
<1>2. 0 # 1 /\ 0 # 2 /\ 0 # 3 /\ 1 # 2 /\ 1 # 3 /\ 2 # 3
  OBVIOUS
<1> QED BY <1>1, <1>2 DEF KindRead, LadspaBits, PORT_INPUT, PORT_OUTPUT, PORT_CONTROL, PORT_AUDIO

(***************************************************************************)
(* Induction on the numbers in the form of a set, which the provers can    *)
(* instantiate: a non-empty set of numbers has a least element.            *)
(***************************************************************************)
LEMMA SetInduction ==
    ASSUME NEW S, 0 \in S, \A n \in Nat : n \in S => n + 1 \in S
    PROVE  \A n \in Nat : n \in S
<1> SUFFICES ASSUME NEW m \in Nat, m \notin S PROVE FALSE
  OBVIOUS
<1>1. \E n \in Nat \ S : \A k \in Nat \ S : <<k, n>> \notin OpToRel(<, Nat)
  BY WFMin, NatLessThanWellFounded
<1>2. PICK n \in Nat \ S : \A k \in Nat \ S : ~(k < n)
  BY <1>1 DEF OpToRel
<1>3. n # 0 /\ n - 1 \in Nat /\ n - 1 < n
  BY <1>2
<1>4. n - 1 \in S
  BY <1>2, <1>3
<1> QED BY <1>2, <1>3, <1>4

(***************************************************************************)
(* The fold of PortHints, unfolded: there is a function of the sets of     *)
(* positions with the recursion FoldLeft is defined by.                    *)
(***************************************************************************)
Unfolds(g, calls, n) ==
    g = [s \in SUBSET (1 .. n) |->
            IF s = {} THEN EMPTY ELSE Chained(g[s \ {Max(s)}], calls[Max(s)])]

LEMMA MaxIsLast == 
    ASSUME NEW n \in Nat, NEW s \in SUBSET (1 .. n + 1), n + 1 \in s
    PROVE  Max(s) = n + 1
<1>1. \A y \in s : n + 1 >= y
  OBVIOUS
<1>2. \A x \in s : (\A y \in s : x >= y) => x = n + 1
  OBVIOUS
<1> QED BY <1>1, <1>2 DEF Max

LEMMA Unfolding == ASSUME NEW calls, NEW n \in Nat PROVE \E g : Unfolds(g, calls, n)
<1> DEFINE S == {k \in Nat : \E g : Unfolds(g, calls, k)}
<1>1. 0 \in S
  <2> DEFINE g == [s \in SUBSET (1 .. 0) |-> EMPTY]
  <2>1. Unfolds(g, calls, 0)
    BY DEF Unfolds
  <2> QED BY <2>1
<1>2. ASSUME NEW k \in Nat, k \in S PROVE k + 1 \in S
  <2>1. PICK g : Unfolds(g, calls, k)
    BY <1>2
  <2> DEFINE f == [s \in SUBSET (1 .. k + 1) |->
                      IF k + 1 \in s THEN Chained(g[s \ {k + 1}], calls[k + 1]) ELSE g[s]]
  <2>2. ASSUME NEW s \in SUBSET (1 .. k + 1)
        PROVE  f[s] = IF s = {} THEN EMPTY ELSE Chained(f[s \ {Max(s)}], calls[Max(s)])
    <3>1. CASE k + 1 \in s
      <4>1. Max(s) = k + 1 /\ s \ {k + 1} \in SUBSET (1 .. k + 1) /\ k + 1 \notin s \ {k + 1}
        BY <3>1, MaxIsLast
      <4>2. f[s \ {k + 1}] = g[s \ {k + 1}]
        BY <4>1
      <4>3. f[s] = Chained(g[s \ {k + 1}], calls[k + 1])
        BY <3>1
      <4> QED BY <3>1, <4>1, <4>2, <4>3
    <3>2. CASE k + 1 \notin s
      <4>0. \A x \in s : x \in 1 .. k
        BY <3>2
      <4>1. s \in SUBSET (1 .. k) /\ s \ {Max(s)} \in SUBSET (1 .. k)
        BY <4>0
      <4>2. g[s] = IF s = {} THEN EMPTY ELSE Chained(g[s \ {Max(s)}], calls[Max(s)])
        BY <2>1, <4>1 DEF Unfolds
      <4>3. s \ {Max(s)} \in SUBSET (1 .. k + 1) /\ k + 1 \notin s \ {Max(s)}
        BY <3>2
      <4>4. f[s] = g[s] /\ f[s \ {Max(s)}] = g[s \ {Max(s)}]
        BY <3>2, <4>3
      <4> QED BY <4>2, <4>4
    <3> QED BY <3>1, <3>2
  <2>3. Unfolds(f, calls, k + 1)
    <3> HIDE DEF f
    <3>1. f = [s \in SUBSET (1 .. k + 1) |-> f[s]]
      BY DEF f
    <3>2. f = [s \in SUBSET (1 .. k + 1) |->
                 IF s = {} THEN EMPTY ELSE Chained(f[s \ {Max(s)}], calls[Max(s)])]
      BY <2>2, <3>1
    <3> QED BY <3>2 DEF Unfolds
  <2> HIDE DEF f
  <2>4. k + 1 \in Nat
    OBVIOUS
  <2> QED BY <2>3, <2>4
<1> HIDE DEF S
<1>3. n \in S
  BY <1>1, <1>2, SetInduction
<1> QED BY <1>3 DEF S

\* The hints of a chain, call by call.
LEMMA BuiltByCall ==
    ASSUME NEW C, NEW calls \in Seq(C)
    PROVE  \E f : /\ f[0] = EMPTY
                  /\ \A k \in Nat : k < Len(calls) => f[k + 1] = Chained(f[k], calls[k + 1])
                  /\ Built(calls) = f[Len(calls)]
<1> DEFINE n == Len(calls)
<1>1. n \in Nat /\ DOMAIN calls = 1 .. n
  BY LenProperties
<1> HIDE DEF n
<1>2. PICK g : Unfolds(g, calls, n) /\ Built(calls) = g[1 .. n]
  <2>1. \E g : Unfolds(g, calls, n)
    BY <1>1, Unfolding
  <2>2. \E g : g = [s \in SUBSET DOMAIN calls |->
                      IF s = {} THEN EMPTY ELSE Chained(g[s \ {Max(s)}], calls[Max(s)])]
    BY <1>1, <2>1 DEF Unfolds
  <2>3. \E g : /\ g = [s \in SUBSET DOMAIN calls |->
                      IF s = {} THEN EMPTY ELSE Chained(g[s \ {Max(s)}], calls[Max(s)])]
               /\ Built(calls) = g[DOMAIN calls]
    BY <2>2 DEF Built, FoldLeft, MapThenFoldSet
  <2> QED BY <1>1, <2>3 DEF Unfolds
<1> DEFINE f == [k \in 0 .. n |-> g[1 .. k]]
<1>3. f[0] = EMPTY
  <2>1. (1 .. 0) \in SUBSET (1 .. n) /\ 1 .. 0 = {} /\ 0 \in 0 .. n
    BY <1>1
  <2> QED BY <1>2, <2>1 DEF Unfolds
<1>4. ASSUME NEW k \in Nat, k < n PROVE f[k + 1] = Chained(f[k], calls[k + 1])
  <2>1. /\ 1 .. k + 1 \in SUBSET (1 .. n) /\ 1 .. k + 1 # {}
        /\ k \in 0 .. n /\ k + 1 \in 0 .. n /\ k + 1 \in 1 .. k + 1
    BY <1>1, <1>4
  <2>2. Max(1 .. k + 1) = k + 1
    BY <2>1, MaxIsLast
  <2>3. (1 .. k + 1) \ {k + 1} = 1 .. k
    BY <1>4
  <2>4. g[1 .. k + 1] = Chained(g[1 .. k], calls[k + 1])
    BY <1>2, <2>1, <2>2, <2>3 DEF Unfolds
  <2> QED BY <2>1, <2>4
<1>5. Built(calls) = f[n]
  <2>1. n \in 0 .. n
    BY <1>1
  <2> QED BY <1>2, <2>1
<1> HIDE DEF f
<1> QED BY <1>3, <1>4, <1>5 DEF n

(***************************************************************************)
(* What a chain of calls leaves in the hints.                              *)
(***************************************************************************)
\* The bits a call sets.
Adds(call) ==
    CASE call.method = "with_bounds"  -> HINT_BOUNDED_BELOW \cup HINT_BOUNDED_ABOVE
      [] call.method = "with_default" -> DefaultBits(call.default)
      [] call.method = "flag"         -> call.bit

IsCall(call) ==
    \/ call.method = "with_bounds"
    \/ call.method = "with_default" /\ call.default \in PortDefault
    \/ call.method = "flag" /\ call.bit \in Flags

LEMMA CallKinds == ASSUME NEW call \in Calls(Int) PROVE IsCall(call)
  BY DEF Calls, IsCall

LEMMA ChainedAdds ==
    ASSUME NEW call, IsCall(call), NEW bits, NEW lower, NEW upper
    PROVE  Chained([descriptor |-> bits, lower |-> lower, upper |-> upper], call) =
             [descriptor |-> bits \cup Adds(call),
              lower |-> IF call.method = "with_bounds" THEN call.lower ELSE lower,
              upper |-> IF call.method = "with_bounds" THEN call.upper ELSE upper]
<1>1. CASE call.method = "with_bounds"
  BY <1>1 DEF Chained, WithBounds, Adds
<1>2. CASE call.method = "with_default"
  BY <1>2 DEF Chained, WithDefault, Adds
<1>3. CASE call.method = "flag"
  BY <1>3 DEF Chained, WithFlag, Adds
<1> QED BY <1>1, <1>2, <1>3 DEF IsCall

\* The hints after k calls: the bits of all of them, the last bounds given.
Gathered(h, calls, k) ==
    \E bits, lower, upper :
      /\ h = [descriptor |-> bits, lower |-> lower, upper |-> upper]
      /\ \A b : b \in bits <=> \E j \in 1 .. k : b \in Adds(calls[j])
      /\ \/ \A j \in 1 .. k : calls[j].method # "with_bounds"
         \/ \E j \in 1 .. k :
              /\ calls[j].method = "with_bounds"
              /\ lower = calls[j].lower /\ upper = calls[j].upper
              /\ \A i \in 1 .. k : calls[i].method = "with_bounds" => i <= j

LEMMA GatheredAll ==
    ASSUME NEW calls \in Seq(Calls(Int))
    PROVE  Gathered(Built(calls), calls, Len(calls))
<1> DEFINE n == Len(calls)
<1>1. n \in Nat /\ \A k \in 1 .. n : IsCall(calls[k])
  <2>1. n \in Nat /\ \A k \in 1 .. n : calls[k] \in Calls(Int)
    BY LenProperties, ElementOfSeq
  <2> QED BY <2>1, CallKinds
<1>2. PICK f : /\ f[0] = EMPTY
               /\ \A k \in Nat : k < n => f[k + 1] = Chained(f[k], calls[k + 1])
               /\ Built(calls) = f[n]
  BY BuiltByCall
<1> HIDE DEF n
<1> DEFINE S == {k \in Nat : k <= n => Gathered(f[k], calls, k)}
<1>3. 0 \in S
  <2>1. EMPTY = [descriptor |-> {}, lower |-> 0, upper |-> 0]
    BY DEF EMPTY
  <2>2. 1 .. 0 = {}
    OBVIOUS
  <2>3. Gathered(f[0], calls, 0)
    BY <1>2, <2>1, <2>2 DEF Gathered
  <2> QED BY <2>3
<1>4. ASSUME NEW k \in Nat, k \in S PROVE k + 1 \in S
  <2> SUFFICES ASSUME k + 1 <= n PROVE Gathered(f[k + 1], calls, k + 1)
    OBVIOUS
  <2> DEFINE call == calls[k + 1]
  <2>1. IsCall(call) /\ k < n /\ k + 1 \in 1 .. k + 1
    BY <1>1
  <2>2. PICK bits, lower, upper :
          /\ f[k] = [descriptor |-> bits, lower |-> lower, upper |-> upper]
          /\ \A b : b \in bits <=> \E j \in 1 .. k : b \in Adds(calls[j])
          /\ \/ \A j \in 1 .. k : calls[j].method # "with_bounds"
             \/ \E j \in 1 .. k :
                  /\ calls[j].method = "with_bounds"
                  /\ lower = calls[j].lower /\ upper = calls[j].upper
                  /\ \A i \in 1 .. k : calls[i].method = "with_bounds" => i <= j
    <3>1. Gathered(f[k], calls, k)
      BY <1>1, <1>4, <2>1
    <3> QED BY <3>1 DEF Gathered
  <2> DEFINE more == bits \cup Adds(call)
             low == IF call.method = "with_bounds" THEN call.lower ELSE lower
             up == IF call.method = "with_bounds" THEN call.upper ELSE upper
  <2>3. f[k + 1] = [descriptor |-> more, lower |-> low, upper |-> up]
    BY <1>2, <2>1, <2>2, ChainedAdds
  <2>4. \A j : j \in 1 .. k + 1 <=> j \in 1 .. k \/ j = k + 1
    OBVIOUS
  <2>5. \A b : b \in more <=> \E j \in 1 .. k + 1 : b \in Adds(calls[j])
    BY <2>2, <2>4
  <2>6. \/ \A j \in 1 .. k + 1 : calls[j].method # "with_bounds"
        \/ \E j \in 1 .. k + 1 :
             /\ calls[j].method = "with_bounds"
             /\ low = calls[j].lower /\ up = calls[j].upper
             /\ \A i \in 1 .. k + 1 : calls[i].method = "with_bounds" => i <= j
    <3>1. CASE call.method = "with_bounds"
      <4>1. /\ low = call.lower /\ up = call.upper
            /\ \A i \in 1 .. k + 1 : i <= k + 1
        BY <3>1
      <4> QED BY <2>1, <3>1, <4>1
    <3>2. CASE call.method # "with_bounds"
      <4>1. low = lower /\ up = upper
        BY <3>2
      <4> HIDE DEF low, up
      <4>2. \A i \in 1 .. k + 1 : calls[i].method = "with_bounds" => i \in 1 .. k
        BY <2>4, <3>2
      <4> QED BY <2>2, <2>4, <4>1, <4>2
    <3> QED BY <3>1, <3>2
  <2> HIDE DEF more, low, up
  <2> QED BY <2>3, <2>5, <2>6 DEF Gathered
<1> HIDE DEF S
<1>5. n \in S
  BY <1>1, <1>3, <1>4, SetInduction
<1> QED BY <1>1, <1>2, <1>5 DEF S, n

\* Which bits which calls set.
LEMMA BitsOf ==
    ASSUME NEW call, IsCall(call)
    PROVE  /\ \A b \in {0, 1} : b \in Adds(call) <=> call.method = "with_bounds"
           /\ \A bit \in Flags : bit \subseteq Adds(call) <=>
                 call.method = "flag" /\ call.bit = bit
           /\ \A b \in 6 .. 9 : b \in Adds(call) <=>
                 call.method = "with_default" /\ b \in DefaultBits(call.default)
<1>1. CASE call.method = "with_bounds"
  <2>1. Adds(call) = {0, 1}
    BY <1>1 DEF Adds, HINT_BOUNDED_BELOW, HINT_BOUNDED_ABOVE
  <2> QED
    BY <1>1, <2>1 DEF Flags, HINT_INTEGER, HINT_TOGGLED, HINT_LOGARITHMIC, HINT_SAMPLE_RATE
<1>2. CASE call.method = "with_default"
  <2>1. Adds(call) = DefaultBits(call.default) /\ call.default \in PortDefault
    BY <1>2 DEF Adds, IsCall
  <2>2. DefaultBits(call.default) \in {{6}, {7}, {6, 7}, {8}, {6, 8}, {9}, {6, 9}, {7, 9}, {6, 7, 9}}
    BY <2>1 DEF DefaultBits, PortDefault
  <2>3. \A b \in Adds(call) : b \in 6 .. 9
    BY <2>1, <2>2
  <2> QED
    BY <1>2, <2>1, <2>3 DEF Flags, HINT_INTEGER, HINT_TOGGLED, HINT_LOGARITHMIC, HINT_SAMPLE_RATE
<1>3. CASE call.method = "flag"
  <2>1. Adds(call) = call.bit /\ call.bit \in {{5}, {2}, {4}, {3}}
    BY <1>3 DEF Adds, IsCall, Flags, HINT_INTEGER, HINT_TOGGLED, HINT_LOGARITHMIC, HINT_SAMPLE_RATE
  <2> QED
    BY <1>3, <2>1 DEF Flags, HINT_INTEGER, HINT_TOGGLED, HINT_LOGARITHMIC, HINT_SAMPLE_RATE
<1> QED BY <1>1, <1>2, <1>3 DEF IsCall

LEMMA DefaultsRead ==
    ASSUME NEW d \in PortDefault, NEW hints,
           hints.descriptor \cap HINT_DEFAULT_MASK = DefaultBits(d)
    PROVE  DefaultRead(hints) = d
<1>1. 6 # 7 /\ 6 # 8 /\ 6 # 9 /\ 7 # 8 /\ 7 # 9 /\ 8 # 9
  OBVIOUS
<1> QED BY <1>1 DEF DefaultRead, DefaultBits, PortDefault

\* A host reads every chain of calls as its author meant it.
THEOREM ChainReads ==
    ASSUME NEW calls \in Seq(Calls(Int))
    PROVE  ReadAsDeclared(Built(calls), calls)
<1> DEFINE n == Len(calls)
           hints == Built(calls)
<1>1. /\ n \in Nat /\ DOMAIN calls = 1 .. n
      /\ \A k \in 1 .. n : IsCall(calls[k])
  <2>1. n \in Nat /\ DOMAIN calls = 1 .. n /\ \A k \in 1 .. n : calls[k] \in Calls(Int)
    BY LenProperties, ElementOfSeq
  <2> QED BY <2>1, CallKinds
<1>2. Gathered(hints, calls, n)
  BY GatheredAll
<1> HIDE DEF n, hints
<1>3. PICK bits, lower, upper :
        /\ hints = [descriptor |-> bits, lower |-> lower, upper |-> upper]
        /\ \A b : b \in bits <=> \E j \in 1 .. n : b \in Adds(calls[j])
        /\ \/ \A j \in 1 .. n : calls[j].method # "with_bounds"
           \/ \E j \in 1 .. n :
                /\ calls[j].method = "with_bounds"
                /\ lower = calls[j].lower /\ upper = calls[j].upper
                /\ \A i \in 1 .. n : calls[i].method = "with_bounds" => i <= j
  BY <1>2 DEF Gathered
<1>4. hints.descriptor = bits /\ hints.lower = lower /\ hints.upper = upper
  BY <1>3
<1>5. BoundsRead(hints) = BoundsDeclared(calls)
  <2> DEFINE at == CallsTo(calls, "with_bounds")
             last == CHOOSE j \in at : \A i \in at : i <= j
  <2>1. \A j : j \in at <=> j \in 1 .. n /\ calls[j].method = "with_bounds"
    BY <1>1 DEF CallsTo
  <2>2. \A b \in {0, 1} : b \in bits <=> at # {}
    BY <1>1, <1>3, <2>1, BitsOf
  <2>3. CASE at = {}
    <3>1. ~(HINT_BOUNDED_BELOW \subseteq bits) /\ ~(HINT_BOUNDED_ABOVE \subseteq bits)
      BY <2>2, <2>3 DEF HINT_BOUNDED_BELOW, HINT_BOUNDED_ABOVE
    <3> QED BY <1>4, <2>3, <3>1 DEF BoundsRead, BoundsDeclared
  <2>4. CASE at # {}
    <3>1. PICK j \in 1 .. n : /\ calls[j].method = "with_bounds"
                              /\ lower = calls[j].lower /\ upper = calls[j].upper
                              /\ \A i \in 1 .. n : calls[i].method = "with_bounds" => i <= j
      BY <1>3, <2>1, <2>4
    <3>2. j \in at /\ (\A i \in at : i <= j) /\ at \subseteq Int
      BY <1>1, <2>1, <3>1
    <3> HIDE DEF at
    <3>3. last = j
      <4>1. \A k \in at : (\A i \in at : i <= k) => k = j
        BY <3>2
      <4> QED BY <3>2, <4>1
    <3> HIDE DEF last
    <3>4. HINT_BOUNDED_BELOW \subseteq bits /\ HINT_BOUNDED_ABOVE \subseteq bits
      BY <2>2, <2>4 DEF HINT_BOUNDED_BELOW, HINT_BOUNDED_ABOVE
    <3>5. BoundsRead(hints) = [lower |-> {lower}, upper |-> {upper}]
      BY <1>4, <3>4 DEF BoundsRead
    <3>6. BoundsDeclared(calls) = [lower |-> {calls[last].lower}, upper |-> {calls[last].upper}]
      BY <2>4 DEF BoundsDeclared, at, last
    <3> QED BY <3>1, <3>3, <3>5, <3>6
  <2> QED BY <2>3, <2>4
<1>6. FlagsRead(hints) = FlagsDeclared(calls)
  <2>1. ASSUME NEW bit \in Flags
        PROVE  bit \subseteq bits <=> \E j \in 1 .. n : calls[j].method = "flag" /\ calls[j].bit = bit
    <3>1. PICK b : bit = {b}
      BY DEF Flags, HINT_INTEGER, HINT_TOGGLED, HINT_LOGARITHMIC, HINT_SAMPLE_RATE
    <3>2. bit \subseteq bits <=> \E j \in 1 .. n : bit \subseteq Adds(calls[j])
      BY <1>3, <3>1
    <3> QED BY <1>1, <3>2, BitsOf
  <2>2. \A j \in 1 .. n : calls[j].method = "flag" => calls[j].bit \in Flags
    BY <1>1 DEF IsCall
  <2>3. \A bit : bit \in FlagsDeclared(calls) <=>
           \E j \in 1 .. n : calls[j].method = "flag" /\ calls[j].bit = bit
    BY <1>1 DEF FlagsDeclared, CallsTo
  <2>4. \A bit : bit \in FlagsRead(hints) <=> bit \in Flags /\ bit \subseteq bits
    BY <1>4 DEF FlagsRead
  <2>5. \A bit : bit \in FlagsRead(hints) <=> bit \in FlagsDeclared(calls)
    BY <2>1, <2>2, <2>3, <2>4
  <2> QED BY <2>5 DEF FlagsRead, FlagsDeclared
<1>7. \/ DefaultsDeclared(calls) = {} /\ DefaultRead(hints) = "none"
      \/ \E d \in PortDefault : DefaultsDeclared(calls) = {d} /\ DefaultRead(hints) = d
      \/ \E d, e \in DefaultsDeclared(calls) : d # e
  <2> DEFINE code == hints.descriptor \cap HINT_DEFAULT_MASK
             named == DefaultsDeclared(calls)
  <2>1. \A d : d \in named <=>
           \E j \in 1 .. n : calls[j].method = "with_default" /\ calls[j].default = d
    BY <1>1 DEF DefaultsDeclared, CallsTo
  <2>2. \A d \in named : d \in PortDefault
    BY <1>1, <2>1 DEF IsCall
  <2>3. \A b : b \in code <=> b \in 6 .. 9 /\ \E d \in named : b \in DefaultBits(d)
    <3>1. ASSUME NEW b \in 6 .. 9
          PROVE  b \in bits <=> \E d \in named : b \in DefaultBits(d)
      <4> HIDE DEF named
      <4>1. b \in bits <=> \E j \in 1 .. n : b \in Adds(calls[j])
        BY <1>3
      <4>2. \A j \in 1 .. n : b \in Adds(calls[j]) <=>
               calls[j].method = "with_default" /\ b \in DefaultBits(calls[j].default)
        BY <1>1, BitsOf
      <4> QED BY <2>1, <4>1, <4>2
    <3>2. \A b : b \in code <=> b \in bits /\ b \in 6 .. 9
      BY <1>4 DEF HINT_DEFAULT_MASK
    <3> HIDE DEF named, code
    <3> QED BY <3>1, <3>2
  <2> HIDE DEF named
  <2>4. CASE named = {}
    <3>1. code = {}
      BY <2>3, <2>4
    <3>2. DefaultRead(hints) = "none"
      BY <3>1 DEF DefaultRead
    <3> QED BY <2>4, <3>2 DEF named
  <2>5. ASSUME NEW d \in named, \A e \in named : e = d
        PROVE  DefaultsDeclared(calls) = {d} /\ DefaultRead(hints) = d
    <3>1. named = {d} /\ d \in PortDefault
      BY <2>2, <2>5
    <3>2. \A b \in DefaultBits(d) : b \in 6 .. 9
      BY <3>1 DEF DefaultBits, PortDefault
    <3>3. code = DefaultBits(d)
      BY <2>3, <3>1, <3>2
    <3> QED BY <3>1, <3>3, DefaultsRead DEF named
  <2> QED BY <2>2, <2>4, <2>5 DEF named
<1> QED BY <1>5, <1>6, <1>7 DEF ReadAsDeclared, hints

\* Whatever pointer a host has been given, now or earlier and on any thread, it
\* reads the plugin's declaration through it.
LEMMA HostReads ==
    ASSUME EntryInv
    PROVE  HostReadsPlugin
<1> SUFFICES ASSUME NEW answer \in answers, answer[1] = 0, bundle # NULL
             PROVE  /\ \A f \in Pointed : bundle.ptrs[f] \in DOMAIN heap
                    /\ bundle.unique_id = Plugin.UNIQUE_ID
                    /\ bundle.properties = Plugin.PROPERTIES
                    /\ \A slot \in DOMAIN Slots : bundle.slots[slot] = NULL <=> slot \in Optional
                    /\ bundle.port_count = Len(Plugin.ports)
                    /\ \A f \in Strings : heap[bundle.ptrs[f]] = Plugin[f]
                    /\ heap[bundle.ptrs["port_names"]] \in DOMAIN heap
                    /\ \A i \in 1 .. bundle.port_count :
                         /\ heap[heap[bundle.ptrs["port_names"]]][i] = Plugin.ports[i].name
                         /\ KindRead(heap[bundle.ptrs["port_descriptors"]][i])
                              = Plugin.ports[i].kind
                         /\ ReadAsDeclared(heap[bundle.ptrs["port_range_hints"]][i],
                                           Plugin.ports[i].calls)
  BY DEF HostReadsPlugin, EntryInv, Answered
<1>1. PICK t \in Threads : bundle = Descriptor(Plugin, t)
  BY DEF EntryInv, Published
<1>2. /\ bundle.unique_id = Plugin.UNIQUE_ID
      /\ bundle.properties = Plugin.PROPERTIES
      /\ bundle.slots = Slots
      /\ bundle.port_count = Len(Plugin.ports)
      /\ \A f \in Pointed : bundle.ptrs[f] = <<t, f>>
  BY <1>1, Pointers DEF Descriptor
<1>3. \A slot \in DOMAIN Slots : Slots[slot] = NULL <=> slot \in Optional
  BY PluginAssumption DEF Slots, Optional, Callbacks
<1>4. \A f \in Fields : <<t, f>> \in DOMAIN heap /\ heap[<<t, f>>] = Content(t, f)
  <2>1. bundle.ptrs["LABEL"][1] = t
    BY <1>2, EightFields
  <2>2. \A f \in Fields : <<t, f>> \in DOMAIN heap
    BY <2>1, OwnershipParts DEF EntryInv, Storage
  <2> QED BY <2>2 DEF EntryInv, Contents
<1>5. /\ \A f \in Strings : f \in Pointed
      /\ "port_names" \in Pointed /\ "port_descriptors" \in Pointed
      /\ "port_range_hints" \in Pointed
      /\ \A f \in Pointed : f \in Fields
  BY EightFields DEF Pointed, Strings
<1>6. /\ \A f \in Strings : Content(t, f) = Plugin[f]
      /\ Content(t, "port_names") = <<t, "port_name_strings">>
      /\ Content(t, "port_name_strings") = PortNames
      /\ Content(t, "port_descriptors")
            = [i \in DOMAIN Plugin.ports |-> LadspaBits(Plugin.ports[i].kind)]
      /\ Content(t, "port_range_hints")
            = [i \in DOMAIN Plugin.ports |-> Built(Plugin.ports[i].calls)]
  BY DEF Content, Strings
<1>7. \A i \in 1 .. bundle.port_count : i \in DOMAIN Plugin.ports /\ Plugin.ports[i].kind \in PortKind
  BY <1>2, PluginAssumption DEF EntryInv, Ownership, TypeOK
<1>8. /\ bundle.ptrs["port_names"] = <<t, "port_names">>
      /\ bundle.ptrs["port_descriptors"] = <<t, "port_descriptors">>
      /\ bundle.ptrs["port_range_hints"] = <<t, "port_range_hints">>
  BY <1>2, <1>5
<1>9. /\ heap[bundle.ptrs["port_names"]] = <<t, "port_name_strings">>
      /\ heap[heap[bundle.ptrs["port_names"]]] = PortNames
      /\ heap[bundle.ptrs["port_names"]] \in DOMAIN heap
  <2>1. heap[<<t, "port_names">>] = <<t, "port_name_strings">>
    BY <1>4, <1>6, EightFields
  <2>2. heap[<<t, "port_name_strings">>] = PortNames /\ <<t, "port_name_strings">> \in DOMAIN heap
    BY <1>4, <1>6, EightFields
  <2> QED BY <2>1, <2>2, <1>8
<1>10. heap[bundle.ptrs["port_descriptors"]]
          = [i \in DOMAIN Plugin.ports |-> LadspaBits(Plugin.ports[i].kind)]
  <2>1. heap[<<t, "port_descriptors">>] = Content(t, "port_descriptors")
    BY <1>4, EightFields
  <2> QED BY <1>6, <1>8, <2>1
<1>11. heap[bundle.ptrs["port_range_hints"]]
          = [i \in DOMAIN Plugin.ports |-> Built(Plugin.ports[i].calls)]
  <2>1. heap[<<t, "port_range_hints">>] = Content(t, "port_range_hints")
    BY <1>4, EightFields
  <2> QED BY <1>6, <1>8, <2>1
<1>12. ASSUME NEW i \in 1 .. bundle.port_count
       PROVE  /\ heap[heap[bundle.ptrs["port_names"]]][i] = Plugin.ports[i].name
              /\ KindRead(heap[bundle.ptrs["port_descriptors"]][i]) = Plugin.ports[i].kind
              /\ ReadAsDeclared(heap[bundle.ptrs["port_range_hints"]][i], Plugin.ports[i].calls)
  <2>1. i \in DOMAIN Plugin.ports /\ Plugin.ports[i].kind \in PortKind
    BY <1>7
  <2>2. PortNames[i] = Plugin.ports[i].name
    BY <2>1 DEF PortNames
  <2>3. heap[bundle.ptrs["port_descriptors"]][i] = LadspaBits(Plugin.ports[i].kind)
    BY <1>10, <2>1
  <2>4. heap[bundle.ptrs["port_range_hints"]][i] = Built(Plugin.ports[i].calls)
    BY <1>11, <2>1
  <2>5. ReadAsDeclared(Built(Plugin.ports[i].calls), Plugin.ports[i].calls)
    <3>1. Plugin.ports[i].calls \in Seq(Calls(Int))
      BY <2>1, PluginAssumption DEF EntryInv, Ownership, TypeOK
    <3> QED BY <3>1, ChainReads
  <2> QED BY <1>9, <2>1, <2>2, <2>3, <2>4, <2>5, KindsRead
<1>13. \A f \in Strings : heap[bundle.ptrs[f]] = Plugin[f]
  <2> SUFFICES ASSUME NEW f \in Strings PROVE heap[bundle.ptrs[f]] = Plugin[f]
    OBVIOUS
  <2>1. bundle.ptrs[f] = <<t, f>> /\ f \in Fields
    BY <1>2, <1>5
  <2> QED BY <2>1, <1>4, <1>6
<1>14. \A f \in Pointed : bundle.ptrs[f] \in DOMAIN heap
  <2> SUFFICES ASSUME NEW f \in Pointed PROVE bundle.ptrs[f] \in DOMAIN heap
    OBVIOUS
  <2>1. bundle.ptrs[f] = <<t, f>> /\ f \in Fields
    BY <1>2, <1>5
  <2> QED BY <2>1, <1>4
<1>15. \A slot \in DOMAIN Slots : bundle.slots[slot] = NULL <=> slot \in Optional
  BY <1>2, <1>3
<1> QED BY <1>2, <1>9, <1>12, <1>13, <1>14, <1>15

\* A host reads what the plugin's author declared, through every pointer it was
\* given and at any time later.
THEOREM HostReadsDeclaration == Spec => []HostReadsPlugin
<1>1. EntryInv => HostReadsPlugin
  BY HostReads
<1> QED BY <1>1, EntryInductive, PTL
=============================================================================
