----------------------------- MODULE AsyncWorker -----------------------------
(***************************************************************************)
(* AsyncWorker.hpp: any number of threads push formatted messages into the *)
(* producer buffer under mtx_; one worker thread swaps the two buffers and *)
(* writes the consumer buffer out without the lock.  A critical section is *)
(* one step, since both condition variables release mtx_ while they wait.  *)
(*                                                                         *)
(* Stop is called by the destructor alone, run by whoever drops the last   *)
(* shared_ptr to the logger, while a thread inside Push holds one: so Stop *)
(* begins when no push is under way, and no push follows it.               *)
(***************************************************************************)
EXTENDS AsyncBuffer

CONSTANTS
  Producers,   \* the threads that log
  Lens,        \* the lengths a formatted message may have
  MaxMsgs,     \* bound: messages each producer pushes
  AsyncSafe    \* async_type_ = ASYNC_SAFE

ASSUME WorkerAssumption ==
  /\ Lens \subseteq Nat \ {0}       \* LogMessage::format always ends a line
  /\ MaxMsgs \in Nat
  /\ AsyncSafe \in BOOLEAN

VARIABLES
  stop,      \* stop_
  spc,       \* the owner: "running", then Stop's "notify", "join", "stopped"
  prod,      \* buffer_productor_
  cons,      \* buffer_consumer_
  wpc,       \* the worker: "locking", "waiting", "flush" or "exited"
  ppc,       \* each producer: "idle", "locking" or "waiting"
  pending,   \* the length each producer is pushing, 0 when idle
  sent,      \* how many messages each producer has begun to push
  flushed    \* what callback_ was given, in order

vars == <<stop, spc, prod, cons, wpc, ppc, pending, sent, flushed>>

Message == [from : Producers, id : 1 .. MaxMsgs, len : Lens]

Init ==
  /\ stop = FALSE
  /\ spc = "running"
  /\ prod = NewBuffer
  /\ cons = NewBuffer
  /\ wpc = "locking"
  /\ ppc = [p \in Producers |-> "idle"]
  /\ pending = [p \in Producers |-> 0]
  /\ sent = [p \in Producers |-> 0]
  /\ flushed = <<>>
-----------------------------------------------------------------------------
Waiting == {p \in Producers : ppc[p] = "waiting"}

\* A condition variable wakes a thread by sending it back for the mutex.
Woken(ws) == [p \in Producers |-> IF p \in ws THEN "locking" ELSE ppc[p]]

\* Fault: cond_consumer_ is never notified.
WakeNobody == UNCHANGED wpc
WakeWorker == wpc' = IF wpc = "waiting" THEN "locking" ELSE wpc

\* Fault: waits for room in either mode.
AlwaysWaits(p) == pending[p] <= WriteableSize(prod)
\* The predicate of cond_productor_.wait
HasRoom(p) == AsyncSafe => pending[p] <= WriteableSize(prod)

\* A producer calls Push and competes for mtx_.
PushCall(p) ==
  /\ spc = "running"
  /\ ppc[p] = "idle"
  /\ sent[p] < MaxMsgs
  /\ \E len \in Lens : pending' = [pending EXCEPT ![p] = len]
  /\ sent' = [sent EXCEPT ![p] = @ + 1]
  /\ ppc' = [ppc EXCEPT ![p] = "locking"]
  /\ UNCHANGED <<stop, spc, prod, cons, wpc, flushed>>

PushWait(p) ==
  /\ ppc[p] = "locking"
  /\ ~HasRoom(p)
  /\ ppc' = [ppc EXCEPT ![p] = "waiting"]
  /\ UNCHANGED <<stop, spc, prod, cons, wpc, pending, sent, flushed>>

\* Fault: the call leaves its length behind.
ReturnDirty(p) == ppc' = [ppc EXCEPT ![p] = "idle"] /\ UNCHANGED pending
Return(p) ==
  /\ ppc' = [ppc EXCEPT ![p] = "idle"]
  /\ pending' = [pending EXCEPT ![p] = 0]

PushWrite(p) ==
  /\ ppc[p] = "locking"
  /\ HasRoom(p)
  /\ ~GrowthThrows(prod, pending[p])
  /\ prod' = BufferPush(prod, [from |-> p, id |-> sent[p], len |-> pending[p]])
  /\ WakeWorker
  /\ Return(p)
  /\ UNCHANGED <<stop, spc, cons, sent, flushed>>

\* resize throws out of Push: the lock is released, nobody is notified.
PushThrow(p) ==
  /\ ppc[p] = "locking"
  /\ HasRoom(p)
  /\ GrowthThrows(prod, pending[p])
  /\ Return(p)
  /\ UNCHANGED <<stop, spc, prod, cons, wpc, sent, flushed>>

\* wait may return unasked; the predicate is then tested again.
SpuriousWakeup ==
  /\ \/ \E p \in Waiting : ppc' = Woken({p}) /\ UNCHANGED wpc
     \/ wpc = "waiting" /\ wpc' = "locking" /\ UNCHANGED ppc
  /\ UNCHANGED <<stop, spc, prod, cons, pending, sent, flushed>>
-----------------------------------------------------------------------------
\* Fault: sleeps without testing the predicate first.
WorkerWaitBlind ==
  /\ wpc = "locking" /\ ~stop
  /\ wpc' = "waiting"
  /\ UNCHANGED <<stop, spc, prod, cons, ppc, pending, sent, flushed>>

WorkerWait ==
  /\ wpc = "locking"
  /\ ~stop
  /\ IsEmpty(prod)
  /\ wpc' = "waiting"
  /\ UNCHANGED <<stop, spc, prod, cons, ppc, pending, sent, flushed>>

\* Fault: leaves as soon as stop_ is set.
WorkerExitEager ==
  /\ wpc = "locking" /\ stop
  /\ wpc' = "exited"
  /\ UNCHANGED <<stop, spc, prod, cons, ppc, pending, sent, flushed>>

WorkerExit ==
  /\ wpc = "locking"
  /\ stop
  /\ IsEmpty(prod)
  /\ wpc' = "exited"
  /\ UNCHANGED <<stop, spc, prod, cons, ppc, pending, sent, flushed>>

\* Fault: swaps without waking a producer.
WorkerSwapSilent ==
  /\ wpc = "locking" /\ ~IsEmpty(prod)
  /\ prod' = cons /\ cons' = prod
  /\ wpc' = "flush"
  /\ UNCHANGED <<stop, spc, ppc, pending, sent, flushed>>

\* Swap the buffers, and in ASYNC_SAFE wake one waiting producer.
WorkerSwap ==
  /\ wpc = "locking"
  /\ ~IsEmpty(prod)
  /\ prod' = cons
  /\ cons' = prod
  /\ IF AsyncSafe /\ Waiting # {}
     THEN \E p \in Waiting : ppc' = Woken({p})
     ELSE UNCHANGED ppc
  /\ wpc' = "flush"
  /\ UNCHANGED <<stop, spc, pending, sent, flushed>>

\* callback_ (AsyncLogger::RealFlush), then Reset: the worker's own buffer.
WorkerFlush ==
  /\ wpc = "flush"
  /\ flushed' = flushed \o cons.msgs
  /\ cons' = Reset(cons)
  /\ wpc' = "locking"
  /\ UNCHANGED <<stop, spc, prod, ppc, pending, sent>>
-----------------------------------------------------------------------------
StopBegin ==
  /\ spc = "running"
  /\ \A p \in Producers : ppc[p] = "idle"
  /\ stop' = TRUE
  /\ spc' = "notify"
  /\ UNCHANGED <<prod, cons, wpc, ppc, pending, sent, flushed>>

\* The two notify_all calls, outside the lock.
StopNotify ==
  /\ spc = "notify"
  /\ WakeWorker
  /\ ppc' = Woken(Waiting)
  /\ spc' = "join"
  /\ UNCHANGED <<stop, prod, cons, pending, sent, flushed>>

\* thread_.join() or worker_future_.get()
StopJoin ==
  /\ spc = "join"
  /\ wpc = "exited"
  /\ spc' = "stopped"
  /\ UNCHANGED <<stop, prod, cons, wpc, ppc, pending, sent, flushed>>

\* The worker object is gone: the only state the component may end in.
Finished == spc = "stopped" /\ UNCHANGED vars
-----------------------------------------------------------------------------
Push(p) == PushWait(p) \/ PushWrite(p) \/ PushThrow(p)

Worker == WorkerWait \/ WorkerExit \/ WorkerSwap \/ WorkerFlush

Owner == StopBegin \/ StopNotify \/ StopJoin

Next ==
  \/ \E p \in Producers : PushCall(p) \/ Push(p)
  \/ SpuriousWakeup
  \/ Worker
  \/ Owner
  \/ Finished

\* A thread that can run is scheduled; nobody has to call Push or Stop, and a
\* wait need not return before it is notified.
Fairness ==
  /\ \A p \in Producers : WF_vars(Push(p))
  /\ WF_vars(Worker)
  /\ WF_vars(StopNotify)
  /\ WF_vars(StopJoin)

Spec == Init /\ [][Next]_vars /\ Fairness
-----------------------------------------------------------------------------
BufferType ==
  [cap : 0 .. MaxCapacity, write : Nat, msgs : Seq(Message)]

\* Every variable has its type; a producer has a pending length exactly while
\* it is inside Push, and no push is under way once Stop has begun.
TypeOK ==
  /\ stop \in BOOLEAN
  /\ spc \in {"running", "notify", "join", "stopped"}
  /\ stop <=> (spc # "running")
  /\ prod \in BufferType /\ cons \in BufferType
  /\ wpc \in {"locking", "waiting", "flush", "exited"}
  /\ ppc \in [Producers -> {"idle", "locking", "waiting"}]
  /\ pending \in [Producers -> Lens \cup {0}]
  /\ \A p \in Producers : (ppc[p] = "idle") <=> (pending[p] = 0)
  /\ stop => \A p \in Producers : ppc[p] = "idle"
  /\ sent \in [Producers -> 0 .. MaxMsgs]
  /\ \A p \in Producers : ppc[p] # "idle" => sent[p] > 0
  /\ flushed \in Seq(Message)

\* Push never copies bytes past the end of the vector: ToBeEnough, called just
\* before the copy, left room for them.
NoOverrun == prod.write <= prod.cap /\ cons.write <= cons.cap

\* No wake-up of the worker is lost: it sleeps only while there is nothing to
\* flush, and through a Stop only until Stop's notify_all, still to come.
NoSleepOnWork == wpc = "waiting" => IsEmpty(prod) /\ spc \in {"running", "notify"}

\* notify_one strands no producer: while one waits for room, either the buffer
\* is due to be swapped, which wakes one, or another producer is on its way to
\* the buffer and will fill it.
NoStrandedProducer ==
  Waiting # {} => ~IsEmpty(prod) \/ \E p \in Producers : ppc[p] = "locking"

\* Stop returns only after the callback was given every message pushed.
StopFlushesAll ==
  spc = "stopped" => prod.msgs = <<>> /\ cons.msgs = <<>>

\* With finite traffic every call of Push comes back, whoever else waits.
EveryPushReturns == \A p \in Producers : ppc[p] # "idle" ~> ppc[p] = "idle"

\* Once Stop has begun it returns: the worker hears of it and exits.
StopReturns == stop ~> spc = "stopped"

\* The worker is a log channel: what Push accepted is in one of the buffers or
\* in the files, in order, and is delivered.
Chan == INSTANCE LogChannel WITH
  Messages  <- Message,
  accepted  <- flushed \o cons.msgs \o prod.msgs,
  delivered <- Len(flushed),
  closed    <- wpc = "exited"

ImplementsChannel == Chan!ChanSpec
=============================================================================
