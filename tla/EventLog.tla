------------------------------- MODULE EventLog -------------------------------
(***************************************************************************)
(* What realtime::log promises a plugin: events that were accepted reach   *)
(* drain_one once each and in order, and when dropping the sink returns    *)
(* none is left, unless drain_one panicked.  LogSink is shown to implement *)
(* this module.                                                            *)
(***************************************************************************)
EXTENDS Naturals, Sequences

CONSTANTS Items,      \* the events that can be logged
          Bound,      \* the most events that may be waiting for drain_one
          MayPanic    \* whether drain_one may panic

VARIABLES pending,    \* accepted, drain_one not invoked yet, oldest first
          invoked,    \* every event drain_one was invoked with, in order
          panicked,   \* an invocation of drain_one panicked
          closed      \* dropping the sink (or unwinding out of new) returned

vars == <<pending, invoked, panicked, closed>>

Init ==
    /\ pending = <<>>
    /\ invoked = <<>>
    /\ panicked = FALSE
    /\ closed = FALSE

\* log answered true; it may do so after a panic of the drainer.
Accept(event) ==
    /\ ~closed
    /\ Len(pending) < Bound
    /\ pending' = Append(pending, event)
    /\ UNCHANGED <<invoked, panicked, closed>>

\* drain_one is invoked with the oldest event.
Deliver ==
    /\ ~closed
    /\ ~panicked
    /\ pending # <<>>
    /\ invoked' = Append(invoked, Head(pending))
    /\ pending' = Tail(pending)
    /\ panicked' \in {FALSE, MayPanic}
    /\ UNCHANGED closed

\* Dropping the sink returns.
Close ==
    /\ ~closed
    /\ pending = <<>> \/ panicked
    /\ closed' = TRUE
    /\ UNCHANGED <<pending, invoked, panicked>>

Next == (\E event \in Items : Accept(event)) \/ Deliver \/ Close

Spec == Init /\ [][Next]_vars
=============================================================================
