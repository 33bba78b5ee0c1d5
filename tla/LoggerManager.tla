----------------------------- MODULE LoggerManager -----------------------------
(***************************************************************************)
(* Manager.hpp: the registry of loggers, and with it the life of a logger  *)
(* (AsyncLogger.hpp): built, registered, held by shared_ptr, logged to,    *)
(* and destroyed by whoever drops the last shared_ptr.  A logger is a      *)
(* <<name, builder>> pair, so that two threads may build one name.         *)
(*                                                                         *)
(* A logger's worker is the channel that module AsyncWorker implements: a  *)
(* buffer of Room messages, swapped and delivered as one batch.  It runs   *)
(* on the pool or on a thread of its own.                                  *)
(***************************************************************************)
EXTENDS ThreadPool

CONSTANTS
  Names,     \* logger names, Default among them
  Default,   \* "default", the logger the manager builds for itself
  Extra,     \* names the threads it starts may register while they run
  Main,      \* the thread that starts and ends the program
  Users,     \* the threads it starts
  Room,      \* messages that fit the producer buffer
  None

ASSUME ManagerAssumption ==
  /\ Default \in Names
  /\ Extra \subseteq Names \ {Default}
  /\ IsFiniteSet(Users) /\ Main \notin Users
  /\ None \notin Users \cup {Main} /\ None \notin Names \X (Users \cup {Main})
  /\ Room \in Nat \ {0}

Callers == Users \cup {Main}
\* Main registers what the others do not.
Loggers == ((Names \ Extra) \X {Main}) \cup (Extra \X Users)
NameOf(l) == l[1]

VARIABLES
  usePool,    \* g_conf_data->use_worker_pool
  submitter,  \* is a TaskSubmitter set?
  mtx,        \* the caller that keeps mtx_ from step to step, or None
  loggers,    \* loggers_: the logger of each name, or None
  default,    \* default_logger_
  pc,         \* where each caller is
  hold,       \* the logger of its temporary shared_ptr, or None
  stopping,   \* stop_ of each logger's worker
  wpc,        \* each worker: "none", "queued", "ready", "flush", "exited"
  accepted,   \* the messages each logger took, by the caller that logged them
  batch,      \* how many of them are in the consumer buffer
  delivered   \* how many have been written

regVars == <<mtx, loggers, default>>
workVars == <<stopping, wpc, accepted, batch, delivered>>
confVars == <<usePool, submitter>>

ManagerInit ==
  /\ PoolInit
  /\ usePool \in BOOLEAN
  /\ submitter = FALSE
  /\ mtx = None
  /\ loggers = [n \in Names |-> None]
  /\ default = None
  /\ hold = [c \in Callers |-> None]
  /\ stopping = [l \in Loggers |-> FALSE]
  /\ wpc = [l \in Loggers |-> "none"]
  /\ accepted = [l \in Loggers |-> <<>>]
  /\ batch = [l \in Loggers |-> 0]
  /\ delivered = [l \in Loggers |-> 0]

Goto(c, where) == pc' = [pc EXCEPT ![c] = where]
Hold(c, l) == hold' = [hold EXCEPT ![c] = l]

\* Does the registry own logger l?
Registered(l) == loggers[NameOf(l)] = l \/ default = l
-----------------------------------------------------------------------------
\* What becomes of the logger just built: its manager keeps the default one,
\* AddLogger is called with any other.
Keep(l) == IF NameOf(l) = Default THEN "install" ELSE "exist"

\* LoggerBuilder::Build: the worker is handed to the pool, or started.
Build(c, n) ==
  /\ wpc[<<n, c>>] = "none"
  /\ Hold(c, <<n, c>>)
  /\ IF usePool /\ submitter
     THEN /\ Enqueue(<<n, c>>)
          /\ wpc' = [wpc EXCEPT ![<<n, c>>] = "queued"]
          /\ Goto(c, "notify")
     ELSE /\ wpc' = [wpc EXCEPT ![<<n, c>>] = "ready"]
          /\ Goto(c, Keep(<<n, c>>))
          /\ UNCHANGED poolVars
  /\ UNCHANGED <<confVars, regVars, stopping, accepted, batch, delivered>>

\* The rest of enqueue, after the mutex.
Submitted(c) ==
  /\ pc[c] = "notify"
  /\ Goto(c, Keep(hold[c]))
  /\ NotifyOne
  /\ UNCHANGED <<confVars, regVars, hold, workVars>>

\* LoggerManager's constructor keeps the logger it built.
Install(c) ==
  /\ pc[c] = "install"
  /\ default' = hold[c]
  /\ loggers' = [loggers EXCEPT ![Default] = hold[c]]
  /\ Hold(c, None)
  /\ Goto(c, "idle")
  /\ UNCHANGED <<poolVars, confVars, mtx, workVars>>

\* AddLogger, first LoggerExist under mtx_ ...
Exist(c) ==
  /\ pc[c] = "exist"
  /\ mtx = None
  /\ Goto(c, IF loggers[NameOf(hold[c])] = None THEN "insert" ELSE "drop")
  /\ UNCHANGED <<poolVars, confVars, regVars, hold, workVars>>

\* Fault: replaces the logger another thread has inserted.
Overwrite(map, l) == [map EXCEPT ![NameOf(l)] = l]
\* ... then unordered_map::insert, under mtx_ again: the first one stays.
Inserted(map, l) ==
  [map EXCEPT ![NameOf(l)] = IF @ = None THEN l ELSE @]

Insert(c) ==
  /\ pc[c] = "insert"
  /\ mtx = None
  /\ loggers' = Inserted(loggers, hold[c])
  /\ Goto(c, "drop")
  /\ UNCHANGED <<poolVars, confVars, mtx, default, hold, workVars>>

\* GetLogger: a copy of the shared_ptr, or a null one.
GetLogger(c, n) ==
  /\ mtx = None
  /\ Hold(c, loggers[n])
  /\ Goto(c, "log")
  /\ UNCHANGED <<poolVars, confVars, regVars, workVars>>

\* Info and its sisters, up to AsyncWorker::Push, which waits for room.
Log(c) ==
  LET l == hold[c]
  IN  /\ pc[c] = "log"
      /\ l # None
      /\ Len(accepted[l]) - delivered[l] - batch[l] < Room
      /\ accepted' = [accepted EXCEPT ![l] = Append(@, c)]
      /\ Goto(c, "drop")
      /\ UNCHANGED <<poolVars, confVars, regVars, hold, stopping, wpc, batch, delivered>>
-----------------------------------------------------------------------------
\* Fault: every owner takes itself for the last.
OwnedByNobody(c, l) == FALSE
\* Does anything but c's temporary own l?
OwnedElsewhere(c, l) == Registered(l) \/ \E d \in Callers \ {c} : hold[d] = l

\* Where a caller goes on when its temporary is gone.
Resume(c) == IF mtx = c THEN "clear" ELSE "idle"

\* The temporary goes.  The last owner destroys the logger: Stop sets stop_ ...
Drop(c) ==
  /\ pc[c] = "drop"
  /\ IF OwnedElsewhere(c, hold[c])
     THEN Hold(c, None) /\ Goto(c, Resume(c)) /\ UNCHANGED stopping
     ELSE /\ stopping' = [stopping EXCEPT ![hold[c]] = TRUE]
          /\ Goto(c, "join")
          /\ UNCHANGED hold
  /\ UNCHANGED <<poolVars, confVars, regVars, wpc, accepted, batch, delivered>>

\* ... and waits for worker_future_ or for thread_.
Join(c) ==
  /\ pc[c] = "join"
  /\ wpc[hold[c]] = "exited"
  /\ Hold(c, None)
  /\ Goto(c, Resume(c))
  /\ UNCHANGED <<poolVars, confVars, regVars, workVars>>

\* Shutdown: mtx_ is kept from here to ShutdownEnd.
ShutdownBegin(c) ==
  /\ mtx = None
  /\ mtx' = c
  /\ Goto(c, "clear")
  /\ UNCHANGED <<poolVars, confVars, loggers, default, hold, workVars>>

\* loggers_.clear(), in the order of the hash table, then default_logger_.reset().
ClearOne(c) ==
  /\ pc[c] = "clear"
  /\ \/ \E n \in Names :
          /\ loggers[n] # None
          /\ Hold(c, loggers[n])
          /\ loggers' = [loggers EXCEPT ![n] = None]
          /\ UNCHANGED default
     \/ /\ \A n \in Names : loggers[n] = None
        /\ default # None
        /\ Hold(c, default)
        /\ default' = None
        /\ UNCHANGED loggers
  /\ Goto(c, "drop")
  /\ UNCHANGED <<poolVars, confVars, mtx, workVars>>

ShutdownEnd(c, where) ==
  /\ pc[c] = "clear"
  /\ \A n \in Names : loggers[n] = None
  /\ default = None
  /\ mtx' = None
  /\ Goto(c, where)
  /\ UNCHANGED <<poolVars, confVars, loggers, default, hold, workVars>>
-----------------------------------------------------------------------------
\* A pool thread enters ThreadEntry of the logger it took.
StartWorker ==
  /\ Take
  /\ wpc' = [wpc EXCEPT ![Head(tasks)] = "ready"]
  /\ UNCHANGED <<confVars, regVars, pc, hold, stopping, accepted, batch, delivered>>

\* ThreadEntry has returned, and the packaged task with it.
WorkerReturned(l) == wpc[l] = "exited" /\ Done(l)

PoolStep ==
  /\ PoolExit \/ \E l \in Loggers : WorkerReturned(l)
  /\ UNCHANGED <<confVars, regVars, pc, hold, workVars>>

PoolSleep ==
  /\ PoolWait \/ PoolSpurious
  /\ UNCHANGED <<confVars, regVars, pc, hold, workVars>>

WorkerSwap(l) ==
  /\ wpc[l] = "ready"
  /\ delivered[l] < Len(accepted[l])
  /\ batch' = [batch EXCEPT ![l] = Len(accepted[l]) - delivered[l]]
  /\ wpc' = [wpc EXCEPT ![l] = "flush"]
  /\ UNCHANGED <<poolVars, confVars, regVars, pc, hold, stopping, accepted, delivered>>

\* Fault: the bytes written stay in the buffer.
WorkerFlushNoReset(l) ==
  /\ wpc[l] = "flush"
  /\ delivered' = [delivered EXCEPT ![l] = @ + batch[l]]
  /\ wpc' = [wpc EXCEPT ![l] = "ready"]
  /\ UNCHANGED <<poolVars, confVars, regVars, pc, hold, stopping, accepted, batch>>

WorkerFlush(l) ==
  /\ wpc[l] = "flush"
  /\ delivered' = [delivered EXCEPT ![l] = @ + batch[l]]
  /\ batch' = [batch EXCEPT ![l] = 0]
  /\ wpc' = [wpc EXCEPT ![l] = "ready"]
  /\ UNCHANGED <<poolVars, confVars, regVars, pc, hold, stopping, accepted>>

\* Fault: leaves as soon as stop_ is set.
WorkerExitEager(l) ==
  /\ wpc[l] = "ready" /\ stopping[l]
  /\ wpc' = [wpc EXCEPT ![l] = "exited"]
  /\ UNCHANGED <<poolVars, confVars, regVars, pc, hold, stopping, accepted, batch, delivered>>

WorkerExit(l) ==
  /\ wpc[l] = "ready"
  /\ stopping[l]
  /\ delivered[l] = Len(accepted[l])
  /\ wpc' = [wpc EXCEPT ![l] = "exited"]
  /\ UNCHANGED <<poolVars, confVars, regVars, pc, hold, stopping, accepted, batch, delivered>>

Worker(l) == WorkerSwap(l) \/ WorkerFlush(l) \/ WorkerExit(l)
=============================================================================
