------------------------------- MODULE LogSink -------------------------------
(***************************************************************************)
(* realtime::log, a LogSink: the owner (the plugin) pushes events into a   *)
(* ring from the realtime thread, and a drainer thread pops them and calls *)
(* drain_one.  Dropping the sink stores the shutdown flag, joins the       *)
(* drainer and then drops the ring's producer.                             *)
(*                                                                         *)
(* The ring is SpscRing, whose actions are conjuncts here.  The shutdown    *)
(* flag is stored once.  A load of it may be late; the load that reads     *)
(* TRUE synchronises with the store, after which the drainer cannot read   *)
(* an older tail than the one its owner had stored by then.                *)
(*                                                                         *)
(* A definition named Mutant_... is a plausible fault in the definition    *)
(* that follows it; the specification does not use it.                     *)
(***************************************************************************)
EXTENDS SpscRing

CONSTANT MayPanic     \* whether the user's drain_one may panic

ASSUME LogAssumption == MayPanic \in BOOLEAN

VARIABLES owner,      \* how far the LogSink value has come
          shutdown,   \* the shutdown flag
          drainer,    \* control state of the drainer thread
          drained,    \* drainer_loop's local of that name
          floor,      \* oldest message of tail the drainer may still read
          panicked,   \* drain_one panicked
          invoked     \* history: the events drain_one was invoked with

sinkVars == <<owner, shutdown, drainer, drained, floor, panicked, invoked>>
allVars == <<vars, sinkVars>>

SinkInit ==
    /\ Init
    /\ owner = "new"
    /\ shutdown = FALSE
    /\ drainer = "unspawned"
    /\ drained = FALSE
    /\ floor = 1
    /\ panicked = FALSE
    /\ invoked = <<>>
-------------------------------------------------------------------------------
(***************************************************************************)
(* new: the drainer thread is spawned, or spawning fails: the closure and  *)
(* its consumer are dropped, and expect unwinds and drops the producer.    *)
(***************************************************************************)
Spawn ==
    /\ owner = "new"
    /\ owner' = "live"
    /\ drainer' = "poll"
    /\ UNCHANGED <<vars, shutdown, drained, floor, panicked, invoked>>

SpawnFails ==
    /\ owner = "new"
    /\ owner' = "unwinding"
    /\ DropConsumer
    /\ UNCHANGED <<shutdown, drainer, drained, floor, panicked, invoked>>

Unwind ==
    /\ owner = "unwinding"
    /\ owner' = "failed"
    /\ DropProducer
    /\ UNCHANGED <<shutdown, drainer, drained, floor, panicked, invoked>>

(***************************************************************************)
(* log: one try_push.                                                      *)
(***************************************************************************)
LogStarts ==
    /\ owner = "live"
    /\ \E i \in 1 .. Len(head) :
          PushRejected(i) \/ \E event \in Items : PushAdmitted(event, i)
    /\ UNCHANGED sinkVars

LogContinues ==
    /\ owner = "live"
    /\ PushWrite \/ PushPublish
    /\ UNCHANGED sinkVars

(***************************************************************************)
(* Drop for LogSink.  drop has exclusive access: no log is in progress.    *)
(* After drop the fields are dropped, the producer among them.             *)
(***************************************************************************)
Mutant_NoShutdownStore ==
    /\ owner = "live"
    /\ prod.pc = "idle"
    /\ owner' = "joining"
    /\ UNCHANGED <<vars, shutdown, drainer, drained, floor, panicked, invoked>>

StoreShutdown ==
    /\ owner = "live"
    /\ prod.pc = "idle"
    /\ owner' = "joining"
    /\ shutdown' = TRUE
    /\ UNCHANGED <<vars, drainer, drained, floor, panicked, invoked>>

Mutant_Detaches ==
    /\ owner = "joining"
    /\ owner' = "joined"
    /\ UNCHANGED <<vars, shutdown, drainer, drained, floor, panicked, invoked>>

\* join returns, with Ok or with the drainer's panic, which is ignored.
Join ==
    /\ owner = "joining"
    /\ drainer = "exited"
    /\ owner' = "joined"
    /\ UNCHANGED <<vars, shutdown, drainer, drained, floor, panicked, invoked>>

DropFields ==
    /\ owner = "joined"
    /\ owner' = "dropped"
    /\ DropProducer
    /\ UNCHANGED <<shutdown, drainer, drained, floor, panicked, invoked>>
-------------------------------------------------------------------------------
(***************************************************************************)
(* drainer_loop.  "poll" is its first while-let loop and "flush" the last  *)
(* pass; "handle" and "flushHandle" are the calls of drain_one in them.    *)
(***************************************************************************)
InPass == drainer \in {"poll", "flush"}

\* try_pop finds an event or finishes taking it out.
PassFound(i) ==
    /\ InPass
    /\ i >= floor
    /\ PopFound(i)
    /\ UNCHANGED sinkVars

PassReads ==
    /\ InPass
    /\ PopRead
    /\ UNCHANGED sinkVars

PassPops ==
    /\ InPass
    /\ PopPublish
    /\ drainer' = IF drainer = "poll" THEN "handle" ELSE "flushHandle"
    /\ UNCHANGED <<owner, shutdown, drained, floor, panicked, invoked>>

Mutant_NoBreak(i) ==
    /\ InPass
    /\ i >= floor
    /\ PopEmpty(i)
    /\ drainer' = "check"
    /\ UNCHANGED <<owner, shutdown, drained, floor, panicked, invoked>>

\* try_pop answers None: the pass is over.
PassEnds(i) ==
    /\ InPass
    /\ i >= floor
    /\ PopEmpty(i)
    /\ drainer' = IF drainer = "poll" THEN "check" ELSE "exiting"
    /\ UNCHANGED <<owner, shutdown, drained, floor, panicked, invoked>>

Event == rcvd[Len(rcvd)]

\* drain_one(event) returns.
DrainOne ==
    /\ drainer \in {"handle", "flushHandle"}
    /\ invoked' = Append(invoked, Event)
    /\ drained' = (drained \/ drainer = "handle")
    /\ drainer' = IF drainer = "handle" THEN "poll" ELSE "flush"
    /\ UNCHANGED <<vars, owner, shutdown, floor, panicked>>

\* drain_one(event) panics: the thread unwinds.
DrainOnePanics ==
    /\ MayPanic
    /\ drainer \in {"handle", "flushHandle"}
    /\ invoked' = Append(invoked, Event)
    /\ panicked' = TRUE
    /\ drainer' = "exiting"
    /\ UNCHANGED <<vars, owner, shutdown, drained, floor>>

Mutant_ShutdownRelaxed ==
    /\ drainer = "check"
    /\ shutdown
    /\ drainer' = "flush"
    /\ UNCHANGED <<vars, owner, shutdown, drained, floor, panicked, invoked>>

Mutant_NoLastPass ==
    /\ drainer = "check"
    /\ shutdown
    /\ drainer' = "exiting"
    /\ floor' = Len(tail)
    /\ UNCHANGED <<vars, owner, shutdown, drained, panicked, invoked>>

\* load(Acquire) of the flag reads TRUE: the pushes before the store of the
\* flag, which are all the pushes there will be, are visible from here on.
SeeShutdown ==
    /\ drainer = "check"
    /\ shutdown
    /\ drainer' = "flush"
    /\ floor' = Len(tail)
    /\ UNCHANGED <<vars, owner, shutdown, drained, panicked, invoked>>

Mutant_StopsWhenIdle ==
    /\ drainer = "check"
    /\ drainer' = IF drained THEN "poll" ELSE "exiting"
    /\ drained' = FALSE
    /\ UNCHANGED <<vars, owner, shutdown, floor, panicked, invoked>>

\* The load reads FALSE, perhaps late.  The loop goes round, after a sleep if
\* the pass found nothing.
SeeNoShutdown ==
    /\ drainer = "check"
    /\ drainer' = IF drained THEN "poll" ELSE "sleep"
    /\ drained' = FALSE
    /\ UNCHANGED <<vars, owner, shutdown, floor, panicked, invoked>>

Wake ==
    /\ drainer = "sleep"
    /\ drainer' = "poll"
    /\ UNCHANGED <<vars, owner, shutdown, drained, floor, panicked, invoked>>

\* The closure ends or unwinds and drops its consumer.
Exit ==
    /\ drainer = "exiting"
    /\ drainer' = "exited"
    /\ DropConsumer
    /\ UNCHANGED <<owner, shutdown, drained, floor, panicked, invoked>>
-------------------------------------------------------------------------------
Owner ==
    \/ Spawn \/ SpawnFails \/ Unwind
    \/ LogStarts \/ LogContinues
    \/ StoreShutdown \/ Join \/ DropFields

Drainer ==
    \/ \E i \in 1 .. Len(tail) : PassFound(i) \/ PassEnds(i)
    \/ PassReads \/ PassPops
    \/ DrainOne \/ DrainOnePanics
    \/ SeeShutdown \/ SeeNoShutdown \/ Wake \/ Exit

SinkTerminated == owner \in {"dropped", "failed"} /\ UNCHANGED allVars

SinkNext == Owner \/ Drainer \/ SinkTerminated

SinkSpec == SinkInit /\ [][SinkNext]_allVars

(***************************************************************************)
(* Fairness: the drainer thread is scheduled, sleep and drain_one end, a   *)
(* store becomes visible in the end, and an owner that has begun log, drop *)
(* or the unwinding of new finishes it.  Nothing obliges the owner to log  *)
(* or to drop the sink.                                                    *)
(***************************************************************************)
FindNewest == PassFound(Len(tail))

FairSinkSpec ==
    /\ SinkSpec
    /\ WF_allVars(Drainer)
    /\ SF_allVars(FindNewest)
    /\ SF_allVars(SeeShutdown)
    /\ WF_allVars(LogContinues)
    /\ WF_allVars(Unwind) /\ WF_allVars(Join) /\ WF_allVars(DropFields)
-------------------------------------------------------------------------------
\* Type correctness of the sink's own state.
SinkTypeOK ==
    /\ TypeOK
    /\ owner \in {"new", "unwinding", "failed", "live", "joining", "joined", "dropped"}
    /\ shutdown \in BOOLEAN
    /\ drainer \in {"unspawned", "poll", "handle", "check", "sleep", "flush",
                    "flushHandle", "exiting", "exited"}
    /\ drained \in BOOLEAN
    /\ floor \in Nat
    /\ panicked \in BOOLEAN
    /\ invoked \in Seq(Entry)

\* Unless drain_one panicked it has been invoked once for every event logged, in
\* order, before drop returns: nothing accepted is left behind by the shutdown.
FlushedUnlessPanicked == owner \in {"joined", "dropped"} => panicked \/ invoked = sent

\* Once drop's join has returned no code of the drainer runs any more, drain_one
\* included: a host may unload the plugin's library after cleanup.
QuietAfterDrop ==
    [][(owner \in {"joined", "dropped"}) => UNCHANGED <<drainer, cons, head, invoked>>]_allVars

\* The drainer has seen the flag; only its last pass is left.
Finishing == drainer \in {"flush", "flushHandle", "exiting"}

\* How many steps it has left: four for an event that is still queued.
StepsLeft ==
    LET queued == 4 * (Len(sent) - Len(rcvd))
    IN  CASE drainer = "flushHandle"                       -> queued + 3
          [] drainer = "flush" /\ cons.pc = "idle"         -> queued + 2
          [] drainer = "flush" /\ cons.pc = "read"         -> queued + 1
          [] drainer = "flush" /\ cons.pc = "publish"      -> queued
          [] drainer = "exiting"                           -> 1
          [] OTHER                                         -> 0

\* The last pass ends: from the moment the drainer sees the flag it only goes
\* towards its exit, each of its steps leaves fewer, nobody adds any, and there
\* are no more than a full ring needs.  So drop's join waits for at most
\* Capacity calls of drain_one.
LastPassEnds ==
    [][Finishing =>
          /\ Finishing' \/ drainer' = "exited"
          /\ StepsLeft <= 4 * Capacity + 2
          /\ StepsLeft' <= StepsLeft
          /\ UNCHANGED <<drainer, cons>> \/ StepsLeft' < StepsLeft]_allVars

\* log.rs:88: drain_one "is invoked at least once per event (no duplicates)
\* before Drop::drop returns", with no exception for a panic.
InvokedForAll == owner \in {"joined", "dropped"} => invoked = sent

\* The sink implements the abstract event log.  An event that was popped and
\* has not reached drain_one no longer occupies a slot.
Log == INSTANCE EventLog WITH
          Bound <- Capacity + 1,
          pending <- SubSeq(sent, Len(invoked) + 1, Len(sent)),
          closed <- owner \in {"joined", "dropped", "failed"}
EventLogSpec == Log!Spec

\* Dropping the sink always returns, whether or not drain_one panicked.
DropReturns == owner = "joining" ~> owner = "dropped"

\* Every event logged reaches drain_one in the end, though nobody drops the
\* sink, unless drain_one panics.
EventuallyInvoked ==
    \A n \in 1 .. MaxPush : Len(sent) >= n ~> (Len(invoked) >= n \/ panicked)
-------------------------------------------------------------------------------
(***************************************************************************)
(* The inductive invariant of the sink, on top of the ring's IndInv.       *)
(***************************************************************************)
Handling == drainer \in {"handle", "flushHandle"}

OwnerInv ==
    /\ prod.pc \in {"write", "publish"} => owner = "live"
    /\ prod.pc = "dropped" <=> owner \in {"failed", "dropped"}
    /\ shutdown <=> owner \in {"joining", "joined", "dropped"}
    /\ owner \in {"joined", "dropped"} => drainer = "exited"
    /\ drainer = "unspawned" <=> owner \in {"new", "unwinding", "failed"}
    /\ drainer = "unspawned" => sent = <<>>

DrainerInv ==
    /\ cons.pc \in {"read", "publish"} => InPass
    /\ cons.pc = "dropped" <=> drainer = "exited" \/ owner \in {"unwinding", "failed"}
    /\ panicked => MayPanic /\ drainer \in {"exiting", "exited"}
    /\ drainer \in {"flush", "flushHandle"} => shutdown /\ floor = Len(tail)
    /\ drainer = "flushHandle" => Len(sent) - Len(rcvd) < Capacity
    /\ drainer \in {"exiting", "exited"} => panicked \/ (shutdown /\ Len(rcvd) = Len(sent))

InvokedInv ==
    /\ Len(rcvd) = IF Handling THEN Len(invoked) + 1 ELSE Len(invoked)
    /\ \A n \in 1 .. Len(invoked) : invoked[n] = sent[n]

SinkInv == SinkTypeOK /\ OwnerInv /\ DrainerInv /\ InvokedInv
=============================================================================
