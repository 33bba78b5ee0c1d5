------------------------------ MODULE ThreadPool ------------------------------
(***************************************************************************)
(* ThreadPoll.hpp: threads that take tasks from one queue under            *)
(* queue_mutex and sleep on one condition variable when it is empty.  A    *)
(* critical section is one step.  Nothing but the task it runs tells one   *)
(* thread from another, so they are counted by where they are.             *)
(***************************************************************************)
EXTENDS Naturals, Sequences, FiniteSets

CONSTANT ThreadCount   \* g_conf_data->thread_count

ASSUME PoolAssumption == ThreadCount \in Nat

VARIABLES
  tasks,      \* tasks: the queue
  poolStop,   \* stop
  locking,    \* threads on their way to queue_mutex
  sleeping,   \* threads in condition.wait
  running,    \* the tasks threads are running
  exited      \* threads that have returned

poolVars == <<tasks, poolStop, locking, sleeping, running, exited>>

\* Fault: starts one thread less.
PoolInitShort ==
  /\ tasks = <<>> /\ poolStop = FALSE
  /\ locking = ThreadCount - 1 /\ sleeping = 0
  /\ running = {} /\ exited = 0
\* The constructor starts every thread.
PoolInit ==
  /\ tasks = <<>>
  /\ poolStop = FALSE
  /\ locking = ThreadCount
  /\ sleeping = 0
  /\ running = {}
  /\ exited = 0

\* A notification sends n sleepers for the mutex.
Wake(n) == locking' = locking + n /\ sleeping' = sleeping - n

\* The critical section of enqueue; it throws on a stopped pool.  The caller
\* notifies after it has released the mutex.
Enqueue(j) ==
  /\ ~poolStop
  /\ tasks' = Append(tasks, j)
  /\ UNCHANGED <<poolStop, locking, sleeping, running, exited>>

\* Fault: nobody is notified.
NotifyNobody == UNCHANGED poolVars
\* condition.notify_one
NotifyOne ==
  /\ Wake(IF sleeping > 0 THEN 1 ELSE 0)
  /\ UNCHANGED <<tasks, poolStop, running, exited>>
-----------------------------------------------------------------------------
PoolWait ==
  /\ locking > 0
  /\ ~poolStop
  /\ tasks = <<>>
  /\ locking' = locking - 1
  /\ sleeping' = sleeping + 1
  /\ UNCHANGED <<tasks, poolStop, running, exited>>

\* wait may return unasked; the predicate is then tested again.
PoolSpurious ==
  /\ sleeping > 0
  /\ locking' = locking + 1
  /\ sleeping' = sleeping - 1
  /\ UNCHANGED <<tasks, poolStop, running, exited>>

Take ==
  /\ locking > 0
  /\ tasks # <<>>
  /\ locking' = locking - 1
  /\ running' = running \cup {Head(tasks)}
  /\ tasks' = Tail(tasks)
  /\ UNCHANGED <<poolStop, sleeping, exited>>

\* task() has returned.
Done(j) ==
  /\ j \in running
  /\ running' = running \ {j}
  /\ locking' = locking + 1
  /\ UNCHANGED <<tasks, poolStop, sleeping, exited>>

PoolExit ==
  /\ locking > 0
  /\ poolStop
  /\ tasks = <<>>
  /\ locking' = locking - 1
  /\ exited' = exited + 1
  /\ UNCHANGED <<tasks, poolStop, sleeping, running>>
-----------------------------------------------------------------------------
\* The destructor: set stop, wake everybody, join.
PoolSetStop ==
  /\ poolStop' = TRUE
  /\ UNCHANGED <<tasks, locking, sleeping, running, exited>>

\* Fault: wakes one thread of all that sleep.
PoolNotifySome == NotifyOne
PoolNotifyAll ==
  /\ Wake(sleeping)
  /\ UNCHANGED <<tasks, poolStop, running, exited>>

Joined == exited = ThreadCount
=============================================================================
