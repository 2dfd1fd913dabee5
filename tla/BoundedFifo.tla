----------------------------- MODULE BoundedFifo -----------------------------
(***************************************************************************)
(* What a channel of realtime::ring promises its two ends: a bounded       *)
(* first-in first-out queue that hands over every item it accepted at most *)
(* once and, when both ends are gone, destroys exactly the items nobody    *)
(* took.  SpscRing, which has slots, wrapping counters and atomics that    *)
(* may be read late, is shown to implement this module.                    *)
(***************************************************************************)
EXTENDS Naturals, Sequences

CONSTANTS Items,      \* the values that can be pushed
          Capacity    \* the most items the queue may hold

VARIABLES queue,      \* accepted and not yet taken, oldest first
          taken,      \* every item taken so far, in order
          discarded,  \* the items destroyed with the queue
          open        \* the queue still exists

vars == <<queue, taken, discarded, open>>

Init ==
    /\ queue = <<>>
    /\ taken = <<>>
    /\ discarded = <<>>
    /\ open = TRUE

\* try_push answered Ok.
Put(item) ==
    /\ open
    /\ Len(queue) < Capacity
    /\ queue' = Append(queue, item)
    /\ UNCHANGED <<taken, discarded, open>>

\* try_pop answered Some.
Take ==
    /\ open
    /\ queue # <<>>
    /\ taken' = Append(taken, Head(queue))
    /\ queue' = Tail(queue)
    /\ UNCHANGED <<discarded, open>>

\* The second of the two ends was dropped.
Destroy ==
    /\ open
    /\ open' = FALSE
    /\ discarded' = queue
    /\ queue' = <<>>
    /\ UNCHANGED taken

Next == (\E item \in Items : Put(item)) \/ Take \/ Destroy

Spec == Init /\ [][Next]_vars
=============================================================================
