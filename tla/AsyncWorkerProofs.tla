-------------------------- MODULE AsyncWorkerProofs --------------------------
(***************************************************************************)
(* Proofs about AsyncWorker for any producers, any number of messages and  *)
(* any configuration of the buffers that meets the assumption each theorem *)
(* names.                                                                  *)
(***************************************************************************)
EXTENDS AsyncWorker, TLAPS

\* A buffer starts well typed.
LEMMA NewBufferType == NewBuffer \in BufferType
  BY BufferAssumption DEF NewBuffer, BufferType

\* A buffer that is reset is still a buffer.
LEMMA ResetType == ASSUME NEW b \in BufferType PROVE Reset(b) \in BufferType
  BY DEF Reset, BufferType

\* So is one that grows without throwing.
LEMMA ToBeEnoughType ==
  ASSUME NEW b \in BufferType, NEW len \in Nat, ~GrowthThrows(b, len)
  PROVE  ToBeEnough(b, len) \in BufferType
<1>1. CASE MustGrow(b, len)
  BY <1>1 DEF GrowthThrows, ToBeEnough, BufferType
<1>2. CASE ~MustGrow(b, len)
  BY <1>2 DEF ToBeEnough
<1> QED BY <1>1, <1>2

\* A message has at least one byte.
LEMMA MessageLen == ASSUME NEW m \in Message PROVE m.len \in Nat /\ m.len > 0
<1>1. m.len \in Lens
  BY DEF Message
<1>2. m.len \in Nat \ {0}
  BY <1>1, WorkerAssumption, Zenon
<1> QED BY <1>2

\* What BufferPush does to each field.
LEMMA PushFields ==
  ASSUME NEW b \in BufferType, NEW m \in Message, ~GrowthThrows(b, m.len)
  PROVE  /\ BufferPush(b, m) \in BufferType
         /\ BufferPush(b, m).cap = ToBeEnough(b, m.len).cap
         /\ BufferPush(b, m).write = b.write + m.len
         /\ BufferPush(b, m).msgs = Append(b.msgs, m)
<1>1. b.write + m.len \in Nat
  BY MessageLen DEF BufferType
<1>2. Append(b.msgs, m) \in Seq(Message)
  BY DEF BufferType
<1>3. ToBeEnough(b, m.len) \in BufferType
  BY ToBeEnoughType, MessageLen
<1> QED BY <1>1, <1>2, <1>3 DEF BufferPush, BufferType

\* Every variable keeps its type, and TypeOK is inductive by itself: no push can
\* be under way once stop_ is set.
THEOREM TypeCorrect == Spec => []TypeOK
<1>1. Init => TypeOK
  <2> SUFFICES ASSUME Init PROVE TypeOK
    OBVIOUS
  <2>1. prod \in BufferType /\ cons \in BufferType
    BY NewBufferType DEF Init
  <2>2. sent \in [Producers -> 0 .. MaxMsgs] /\ flushed \in Seq(Message)
    BY WorkerAssumption DEF Init
  <2> QED BY <2>1, <2>2 DEF Init, TypeOK
<1>2. TypeOK /\ [Next]_vars => TypeOK'
  <2> SUFFICES ASSUME TypeOK, [Next]_vars PROVE TypeOK'
    OBVIOUS
  <2> USE DEF TypeOK
  <2>1. ASSUME NEW p \in Producers, PushCall(p) PROVE TypeOK'
    BY <2>1, WorkerAssumption DEF PushCall
  <2>2. ASSUME NEW p \in Producers, PushWait(p) PROVE TypeOK'
    BY <2>2 DEF PushWait
  <2>3. ASSUME NEW p \in Producers, PushWrite(p) PROVE TypeOK'
    <3> DEFINE m == [from |-> p, id |-> sent[p], len |-> pending[p]]
    <3>1. m \in Message
      BY <2>3, WorkerAssumption DEF PushWrite, Message
    <3>2. prod' \in BufferType
      BY <2>3, <3>1, PushFields DEF PushWrite
    <3>3. wpc' \in {"locking", "waiting", "flush", "exited"}
      BY <2>3 DEF PushWrite, WakeWorker
    <3> QED BY <2>3, <3>2, <3>3, WorkerAssumption DEF PushWrite, Return
  <2>4. ASSUME NEW p \in Producers, PushThrow(p) PROVE TypeOK'
    BY <2>4, WorkerAssumption DEF PushThrow, Return
  <2>5. CASE SpuriousWakeup
    BY <2>5 DEF SpuriousWakeup, Woken, Waiting
  <2>6. CASE WorkerWait
    BY <2>6 DEF WorkerWait
  <2>7. CASE WorkerExit
    BY <2>7 DEF WorkerExit
  <2>8. CASE WorkerSwap
    BY <2>8 DEF WorkerSwap, Woken, Waiting
  <2>9. CASE WorkerFlush
    <3>1. flushed' \in Seq(Message)
      BY <2>9 DEF WorkerFlush, BufferType
    <3> QED BY <2>9, <3>1, ResetType DEF WorkerFlush
  <2>10. CASE StopBegin
    BY <2>10 DEF StopBegin
  <2>11. CASE StopNotify
    BY <2>11 DEF StopNotify, WakeWorker, Woken, Waiting
  <2>12. CASE StopJoin
    BY <2>12 DEF StopJoin
  <2>13. CASE UNCHANGED vars
    BY <2>13 DEF vars
  <2> QED
    BY <2>1, <2>2, <2>3, <2>4, <2>5, <2>6, <2>7, <2>8, <2>9, <2>10, <2>11,
       <2>12, <2>13 DEF Next, Push, Worker, Owner, Finished
<1> QED BY <1>1, <1>2, PTL DEF Spec
-----------------------------------------------------------------------------
\* The configurations for which the buffers are safe: a message fits an empty
\* buffer, one growth makes room for one, and no capacity reaches the sign bit
\* of an int.
WithinCapacity ==
  /\ \A len \in Lens : len <= BufferSize
  /\ BufferSize <= LinearGrowth
  /\ MaxCapacity < IntSpan \div 2

\* Buffers only grow, and hold what was written to them.
BufferOK(b) == b.write <= b.cap /\ BufferSize <= b.cap

BuffersOK == BufferOK(prod) /\ BufferOK(cons)

\* Below half the span the conversion to int changes nothing.
LEMMA ToIntSmall ==
  ASSUME NEW n \in Nat, n < IntSpan \div 2
  PROVE  ToInt(n) = n
<1>1. IntSpan \in Nat /\ IntSpan > 0
  BY BufferAssumption
<1>2. n < IntSpan
  BY <1>1
<1>3. n % IntSpan = n
  BY <1>1, <1>2
<1> QED BY <1>1, <1>3 DEF ToInt

\* Push leaves a buffer that holds what was written and is no smaller,
\* whether or not it waited for room first.
LEMMA PushFits ==
  ASSUME WithinCapacity, NEW b \in BufferType, BufferOK(b),
         NEW m \in Message, ~GrowthThrows(b, m.len)
  PROVE  BufferOK(BufferPush(b, m))
<1>1. m.len \in Nat /\ m.len <= BufferSize
  BY MessageLen DEF Message, WithinCapacity
<1>2. /\ b.cap \in Nat /\ b.cap <= MaxCapacity /\ b.write \in Nat
      /\ BufferSize \in Nat /\ LinearGrowth \in Nat /\ MaxCapacity \in Nat
      /\ IntSpan \in Nat
  BY BufferAssumption DEF BufferType
<1>3. ToInt(b.cap) = b.cap
  BY <1>2, ToIntSmall DEF WithinCapacity
<1>4. Grown(b) >= b.cap + BufferSize
  BY <1>2, <1>3 DEF Grown, BufferOK, WithinCapacity
<1>5. b.write + m.len <= ToBeEnough(b, m.len).cap /\ BufferSize <= ToBeEnough(b, m.len).cap
  <2>1. CASE MustGrow(b, m.len)
    <3>1. ToBeEnough(b, m.len).cap = Grown(b)
      BY <2>1 DEF ToBeEnough, BufferType
    <3>2. Grown(b) \in Nat
      BY <2>1, <1>2 DEF GrowthThrows
    <3> QED BY <3>1, <3>2, <1>1, <1>2, <1>4 DEF BufferOK
  <2>2. CASE ~MustGrow(b, m.len)
    BY <2>2, <1>1, <1>2 DEF ToBeEnough, MustGrow, WriteableSize, BufferOK
  <2> QED BY <2>1, <2>2
<1> QED BY <1>5, PushFields DEF BufferOK

\* Every step keeps each buffer as large as configured and as what it holds.
LEMMA BuffersOKStep ==
  ASSUME WithinCapacity, TypeOK, BuffersOK, [Next]_vars
  PROVE  BuffersOK'
<1> USE DEF BuffersOK
<1>1. ASSUME NEW p \in Producers, PushWrite(p) PROVE BuffersOK'
  <2> DEFINE m == [from |-> p, id |-> sent[p], len |-> pending[p]]
  <2>1. m \in Message
    BY <1>1, WorkerAssumption DEF PushWrite, Message, TypeOK
  <2>2. BufferOK(BufferPush(prod, m))
    BY <1>1, <2>1, PushFits DEF PushWrite, TypeOK
  <2> QED BY <1>1, <2>2 DEF PushWrite
<1>2. CASE WorkerSwap
  BY <1>2 DEF WorkerSwap
<1>3. CASE WorkerFlush
  BY <1>3, BufferAssumption DEF WorkerFlush, Reset, BufferOK, TypeOK, BufferType
<1>4. CASE UNCHANGED <<prod, cons>>
  BY <1>4
<1> QED
  BY <1>1, <1>2, <1>3, <1>4
  DEF Next, PushCall, Push, PushWait, PushThrow, SpuriousWakeup, Worker, WorkerWait,
      WorkerExit, Owner, StopBegin, StopNotify, StopJoin, Finished, vars

\* So both buffers always are.
LEMMA BuffersOKInvariant == ASSUME WithinCapacity PROVE Spec => []BuffersOK
<1>1. Init => BuffersOK
  BY BufferAssumption DEF Init, BuffersOK, BufferOK, NewBuffer
<1> QED BY <1>1, BuffersOKStep, TypeCorrect, PTL DEF Spec

\* No push writes past the end of the vector, in either mode: growing once is
\* enough for messages that fit an empty buffer.
THEOREM NoOverrunCorrect == ASSUME WithinCapacity PROVE Spec => []NoOverrun
<1>1. BuffersOK => NoOverrun
  BY DEF BuffersOK, BufferOK, NoOverrun
<1> QED BY <1>1, BuffersOKInvariant, PTL
-----------------------------------------------------------------------------
\* The worker never sleeps through work, whatever the configuration: its test
\* of the predicate and its going to sleep are one critical section, and every
\* change that makes the predicate true is followed by a notification.
THEOREM NoSleepOnWorkCorrect == Spec => []NoSleepOnWork
<1>1. Init => NoSleepOnWork
  BY DEF Init, NoSleepOnWork
<1>2. TypeOK /\ NoSleepOnWork /\ [Next]_vars => NoSleepOnWork'
  <2> SUFFICES ASSUME TypeOK, NoSleepOnWork, [Next]_vars PROVE NoSleepOnWork'
    OBVIOUS
  <2> USE DEF NoSleepOnWork, IsEmpty
  <2>1. ASSUME NEW p \in Producers, PushWrite(p) PROVE NoSleepOnWork'
    BY <2>1 DEF PushWrite, WakeWorker
  <2>2. ASSUME NEW p \in Producers, PushCall(p) \/ PushWait(p) \/ PushThrow(p)
        PROVE  NoSleepOnWork'
    BY <2>2 DEF PushCall, PushWait, PushThrow
  <2>3. CASE SpuriousWakeup
    BY <2>3 DEF SpuriousWakeup
  <2>4. CASE Worker
    BY <2>4 DEF Worker, WorkerWait, WorkerExit, WorkerSwap, WorkerFlush, TypeOK
  <2>5. CASE StopBegin
    BY <2>5 DEF StopBegin
  <2>6. CASE StopNotify
    BY <2>6 DEF StopNotify, WakeWorker
  <2>7. CASE StopJoin
    BY <2>7 DEF StopJoin
  <2>8. CASE UNCHANGED vars
    BY <2>8 DEF vars
  <2> QED
    BY <2>1, <2>2, <2>3, <2>4, <2>5, <2>6, <2>7, <2>8 DEF Next, Push, Owner, Finished
<1> QED BY <1>1, <1>2, TypeCorrect, PTL DEF Spec
-----------------------------------------------------------------------------
\* For the shutdown: an empty buffer lists no message, the consumer buffer is
\* empty unless it is being flushed, and the worker has exited only after Stop
\* began and the producer buffer was drained.
Drained ==
  /\ IsEmpty(prod) <=> prod.msgs = <<>>
  /\ IsEmpty(cons) <=> cons.msgs = <<>>
  /\ wpc = "flush" <=> cons.msgs # <<>>
  /\ wpc = "exited" => stop /\ IsEmpty(prod)
  /\ spc = "stopped" => wpc = "exited"

\* Every step keeps the worker's step and what the two buffers hold in agreement.
LEMMA DrainedStep == ASSUME TypeOK, Drained, [Next]_vars PROVE Drained'
<1> USE DEF Drained
<1>1. ASSUME NEW p \in Producers, PushWrite(p) PROVE Drained'
  <2> DEFINE m == [from |-> p, id |-> sent[p], len |-> pending[p]]
  <2>1. ~stop
    BY <1>1 DEF PushWrite, TypeOK
  <2>2. prod.write \in Nat /\ prod.msgs \in Seq(Message) /\ m \in Message
    BY <1>1, WorkerAssumption DEF PushWrite, Message, TypeOK, BufferType
  <2>3. prod'.write = prod.write + m.len /\ prod'.msgs = Append(prod.msgs, m)
    BY <1>1, <2>2, PushFields DEF PushWrite, TypeOK
  <2>4. m.len \in Nat /\ m.len > 0
    BY <2>2, MessageLen
  <2>5. ~IsEmpty(prod)' /\ prod'.msgs # <<>>
    BY <2>2, <2>3, <2>4 DEF IsEmpty
  <2>6. wpc # "exited" /\ spc # "stopped" /\ (wpc' = "flush" <=> wpc = "flush") /\ wpc' # "exited"
    BY <1>1, <2>1 DEF PushWrite, WakeWorker, TypeOK
  <2> QED BY <1>1, <2>5, <2>6 DEF PushWrite, IsEmpty
<1>2. ASSUME NEW p \in Producers, PushCall(p) \/ PushWait(p) \/ PushThrow(p)
      PROVE  Drained'
  BY <1>2 DEF PushCall, PushWait, PushThrow, IsEmpty
<1>3. CASE SpuriousWakeup
  BY <1>3 DEF SpuriousWakeup, IsEmpty
<1>4. CASE WorkerWait \/ WorkerExit
  BY <1>4 DEF WorkerWait, WorkerExit, IsEmpty
<1>5. CASE WorkerSwap
  BY <1>5 DEF WorkerSwap, IsEmpty, TypeOK
<1>6. CASE WorkerFlush
  BY <1>6 DEF WorkerFlush, Reset, IsEmpty, TypeOK
<1>7. CASE StopBegin
  BY <1>7 DEF StopBegin, IsEmpty
<1>8. CASE StopNotify
  BY <1>8 DEF StopNotify, WakeWorker, IsEmpty
<1>9. CASE StopJoin
  BY <1>9 DEF StopJoin, IsEmpty
<1>10. CASE UNCHANGED vars
  BY <1>10 DEF vars, IsEmpty
<1> QED
  BY <1>1, <1>2, <1>3, <1>4, <1>5, <1>6, <1>7, <1>8, <1>9, <1>10
  DEF Next, Push, Worker, Owner, Finished

\* So they always agree.
LEMMA DrainedInvariant == Spec => []Drained
<1>1. Init => Drained
  BY DEF Init, Drained, NewBuffer, IsEmpty
<1> QED BY <1>1, DrainedStep, TypeCorrect, PTL DEF Spec

\* Stop returns with nothing left in a buffer, whatever the configuration.
THEOREM StopFlushesAllCorrect == Spec => []StopFlushesAll
<1>1. Drained => StopFlushesAll
  BY DEF Drained, StopFlushesAll
<1> QED BY <1>1, DrainedInvariant, PTL
-----------------------------------------------------------------------------
\* Only a buffer of fixed size makes anyone wait, and never for nothing.
NoneStranded == (~AsyncSafe => Waiting = {}) /\ NoStrandedProducer

\* Every step leaves producers waiting only while the worker has something to
\* take, or another producer is about to give it something.
LEMMA NoneStrandedStep ==
  ASSUME WithinCapacity, \A len \in Lens : len < BufferSize,
         TypeOK, BuffersOK, NoneStranded, [Next]_vars
  PROVE  NoneStranded'
<1> USE DEF NoneStranded, NoStrandedProducer, Waiting
<1>1. \A p \in Producers : ppc[p] = "locking" => pending[p] \in Nat /\ pending[p] < BufferSize
  <2>1. \A p \in Producers : ppc[p] = "locking" => pending[p] \in Lens
    BY DEF TypeOK
  <2>2. \A len \in Lens : len \in Nat
    BY WorkerAssumption, Zenon
  <2> QED BY <2>1, <2>2
<1>2. /\ prod.cap \in Nat /\ prod.write \in Nat /\ BufferSize \in Nat
      /\ BufferSize <= prod.cap
  BY BufferAssumption DEF TypeOK, BufferType, BuffersOK, BufferOK
<1>3. ASSUME NEW p \in Producers, PushCall(p) PROVE NoneStranded'
  BY <1>3 DEF PushCall, IsEmpty, TypeOK
<1>4. ASSUME NEW p \in Producers, PushWait(p) PROVE NoneStranded'
  <2>1. AsyncSafe /\ ~IsEmpty(prod)
    BY <1>4, <1>1, <1>2 DEF PushWait, HasRoom, WriteableSize, IsEmpty
  <2> QED BY <1>4, <2>1 DEF PushWait, IsEmpty
<1>5. ASSUME NEW p \in Producers, PushWrite(p) PROVE NoneStranded'
  <2> DEFINE m == [from |-> p, id |-> sent[p], len |-> pending[p]]
  <2>1. m \in Message
    BY <1>5, WorkerAssumption DEF PushWrite, Message, TypeOK
  <2>2. ~IsEmpty(prod)'
    BY <1>2, <1>5, <2>1, PushFields, MessageLen DEF PushWrite, IsEmpty, TypeOK
  <2>3. Waiting' = Waiting
    BY <1>5 DEF PushWrite, Return, TypeOK
  <2> QED BY <2>2, <2>3
<1>6. ASSUME NEW p \in Producers, PushThrow(p) PROVE NoneStranded'
  <2>1. ~IsEmpty(prod)
    BY <1>1, <1>2, <1>6 DEF PushThrow, GrowthThrows, MustGrow, WriteableSize, IsEmpty
  <2>2. Waiting' = Waiting
    BY <1>6 DEF PushThrow, Return, TypeOK
  <2> QED BY <1>6, <2>1, <2>2 DEF PushThrow, IsEmpty
<1>7. CASE SpuriousWakeup
  BY <1>7 DEF SpuriousWakeup, Woken, IsEmpty, TypeOK
<1>8. CASE WorkerWait \/ WorkerExit
  BY <1>8 DEF WorkerWait, WorkerExit, IsEmpty
<1>9. CASE WorkerSwap
  BY <1>9 DEF WorkerSwap, Woken, IsEmpty, TypeOK
<1>10. CASE WorkerFlush
  BY <1>10 DEF WorkerFlush, IsEmpty
<1>11. CASE StopBegin
  BY <1>11 DEF StopBegin, IsEmpty
<1>12. CASE StopNotify
  BY <1>12 DEF StopNotify, Woken, TypeOK
<1>13. CASE StopJoin
  BY <1>13 DEF StopJoin, IsEmpty
<1>14. CASE UNCHANGED vars
  BY <1>14 DEF vars, IsEmpty
<1> QED
  BY <1>3, <1>4, <1>5, <1>6, <1>7, <1>8, <1>9, <1>10, <1>11, <1>12, <1>13, <1>14
  DEF Next, Push, Worker, Owner, Finished

\* notify_one strands nobody, even when growing fails, provided every message
\* is shorter than an empty buffer.
THEOREM NoStrandedProducerCorrect ==
  ASSUME WithinCapacity, \A len \in Lens : len < BufferSize
  PROVE  Spec => []NoStrandedProducer
<1>1. Init => NoneStranded
  BY DEF Init, NoneStranded, NoStrandedProducer, Waiting
<1>2. NoneStranded => NoStrandedProducer
  BY DEF NoneStranded
<1> QED BY <1>1, <1>2, NoneStrandedStep, BuffersOKInvariant, TypeCorrect, PTL DEF Spec
-----------------------------------------------------------------------------
\* What is delivered, being flushed and still to come are three sequences.
LEMMA ConcatFacts ==
  ASSUME NEW S, NEW f \in Seq(S), NEW c \in Seq(S), NEW p \in Seq(S)
  PROVE  /\ f \o c \in Seq(S) /\ (f \o c) \o p \in Seq(S)
         /\ Len((f \o c) \o p) = Len(f) + Len(c) + Len(p)
         /\ (f \o <<>>) \o c = (f \o c) \o <<>>
  OBVIOUS

\* A message that comes last in the buffer comes last in all.
LEMMA AppendConcat ==
  ASSUME NEW S, NEW f \in Seq(S), NEW c \in Seq(S), NEW p \in Seq(S), NEW m \in S
  PROVE  (f \o c) \o Append(p, m) = Append((f \o c) \o p, m)
  OBVIOUS

\* A flush delivers something, and nothing that was not accepted.
LEMMA DeliveredRange ==
  ASSUME NEW a \in Nat, NEW b \in Nat \ {0}, NEW c \in Nat
  PROVE  a < a + b + c /\ a + b \in (a + 1) .. (a + b + c)
  OBVIOUS

\* A step of the worker is a step of the log channel: PushWrite accepts,
\* WorkerFlush delivers, WorkerExit closes, every other step changes nothing
\* the channel shows.
LEMMA ChannelStep ==
  ASSUME TypeOK, Drained, [Next]_vars
  PROVE  [Chan!ChanNext]_(Chan!chanVars)
<1> DEFINE acc == (flushed \o cons.msgs) \o prod.msgs
<1>1. flushed \in Seq(Message) /\ cons.msgs \in Seq(Message) /\ prod.msgs \in Seq(Message)
  BY DEF TypeOK, BufferType
<1>2. ASSUME NEW p \in Producers, PushWrite(p) PROVE Chan!Accept
  <2> DEFINE m == [from |-> p, id |-> sent[p], len |-> pending[p]]
  <2>1. m \in Message
    BY <1>2, WorkerAssumption DEF PushWrite, Message, TypeOK
  <2>2. prod'.msgs = Append(prod.msgs, m) /\ UNCHANGED <<cons, flushed>>
    BY <1>2, <2>1, PushFields DEF PushWrite, TypeOK
  <2>3. acc' = Append(acc, m)
    <3>1. acc' = (flushed \o cons.msgs) \o Append(prod.msgs, m)
      BY <2>2
    <3> DEFINE c == cons.msgs  q == prod.msgs
    <3>2. c \in Seq(Message) /\ q \in Seq(Message) /\ flushed \in Seq(Message)
      BY <1>1
    <3> HIDE DEF c, q, m
    <3>3. (flushed \o c) \o Append(q, m) = Append((flushed \o c) \o q, m)
      BY <2>1, <3>2, AppendConcat
    <3> QED BY <3>1, <3>3 DEF c, q
  <2>4. wpc # "exited" /\ wpc' # "exited"
    BY <1>2 DEF PushWrite, WakeWorker, Drained, TypeOK
  <2> QED BY <2>1, <2>2, <2>3, <2>4 DEF Chan!Accept
<1>3. CASE WorkerFlush
  <2>1. flushed' = flushed \o cons.msgs /\ cons'.msgs = <<>> /\ prod' = prod
    BY <1>3 DEF WorkerFlush, Reset
  <2>2. acc' = acc
    BY <2>1, <1>1
  <2>3. Len(cons.msgs) \in Nat \ {0}
    BY <1>3, <1>1 DEF WorkerFlush, Drained
  <2>4. Len(flushed') = Len(flushed) + Len(cons.msgs)
    BY <2>1, <1>1
  <2>5. Len(acc) = Len(flushed) + Len(cons.msgs) + Len(prod.msgs)
    BY <1>1, ConcatFacts
  <2>6. wpc # "exited" /\ wpc' # "exited"
    BY <1>3 DEF WorkerFlush
  <2>7. /\ Len(flushed) < Len(acc)
        /\ Len(flushed') \in (Len(flushed) + 1) .. Len(acc)
    <3>1. Len(flushed) \in Nat /\ Len(prod.msgs) \in Nat
      BY <1>1
    <3> HIDE DEF acc
    <3> QED BY <3>1, <2>3, <2>4, <2>5, DeliveredRange, Zenon
  <2> HIDE DEF acc
  <2>8. Chan!Deliver
    BY <2>2, <2>6, <2>7 DEF Chan!Deliver, acc
  <2> QED BY <2>8 DEF Chan!ChanNext
<1>4. CASE WorkerExit
  <2>1. prod.msgs = <<>> /\ cons.msgs = <<>>
    BY <1>4 DEF WorkerExit, Drained
  <2>2. acc' = acc /\ Len(acc) = Len(flushed)
    BY <1>4, <1>1, <2>1 DEF WorkerExit
  <2>3. Chan!Close
    BY <1>4, <2>2 DEF WorkerExit, Chan!Close
  <2> QED BY <2>3 DEF Chan!ChanNext
<1>5. CASE WorkerSwap
  <2>1. cons.msgs = <<>>
    BY <1>5 DEF WorkerSwap, Drained
  <2>2. acc' = acc
    BY <1>5, <2>1, <1>1 DEF WorkerSwap
  <2> QED BY <1>5, <2>2 DEF WorkerSwap, Chan!chanVars
<1>6. ASSUME UNCHANGED <<flushed, cons, prod>>, (wpc' = "exited") <=> (wpc = "exited")
      PROVE  UNCHANGED Chan!chanVars
  BY <1>6 DEF Chan!chanVars
<1>7. ASSUME NEW p \in Producers, PushCall(p) \/ PushWait(p) \/ PushThrow(p)
      PROVE  UNCHANGED Chan!chanVars
  BY <1>7, <1>6 DEF PushCall, PushWait, PushThrow
<1>8. CASE SpuriousWakeup \/ WorkerWait
  BY <1>8, <1>6 DEF SpuriousWakeup, WorkerWait
<1>9. CASE Owner \/ Finished \/ UNCHANGED vars
  BY <1>9, <1>6 DEF Owner, StopBegin, StopNotify, WakeWorker, StopJoin, Finished, vars
<1> QED
  BY <1>2, <1>3, <1>4, <1>5, <1>7, <1>8, <1>9 DEF Next, Push, Worker, Owner, Chan!ChanNext

\* The safety part of ImplementsChannel: no message a Push accepted is lost,
\* duplicated or reordered on its way to the files.
THEOREM ChannelSafety == Spec => Chan!ChanInit /\ [][Chan!ChanNext]_(Chan!chanVars)
<1>1. Init => Chan!ChanInit
  BY DEF Init, NewBuffer, Chan!ChanInit
<1> QED BY <1>1, ChannelStep, DrainedInvariant, TypeCorrect, PTL DEF Spec
=============================================================================
