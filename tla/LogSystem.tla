------------------------------ MODULE LogSystem ------------------------------
(***************************************************************************)
(* The life of the log system in one process (Test.cpp): main sets up the  *)
(* pool and the loggers, starts the threads that log, joins them, shuts    *)
(* the registry down and destroys the pool.                                *)
(***************************************************************************)
EXTENDS LoggerManager

CONSTANTS
  Setup,     \* the names main registers, in order
  MaxLogs    \* bound: messages logged in all

ASSUME SetupAssumption ==
  /\ Setup \in Seq(Names \ (Extra \cup {Default}))
  /\ MaxLogs \in Nat

VARIABLE logged   \* how many messages have been logged

vars == <<poolVars, confVars, regVars, pc, hold, workVars, logged>>

Init ==
  /\ ManagerInit
  /\ pc = [c \in Callers |-> IF c = Main THEN "boot" ELSE "unborn"]
  /\ logged = 0

\* What main goes through besides the calls every thread makes.
Steps == {"boot", "first", "spawned", "submitter", "poolstop", "poolnotify", "pooljoin", "done"}
-----------------------------------------------------------------------------
MainStep(from, to) == pc[Main] = from /\ Goto(Main, to)

\* log_system_module_init: the pool, then SetTaskSubmitter.
Boot ==
  /\ MainStep("boot", "first")
  /\ submitter' = TRUE
  /\ UNCHANGED <<poolVars, usePool, regVars, hold, workVars, logged>>

\* The first GetInstance constructs the manager and its default logger.
FirstGetInstance ==
  /\ pc[Main] = "first"
  /\ Build(Main, Default)
  /\ UNCHANGED logged

\* Main is between two calls and has still to register the i-th name.
InSetup(i) ==
  /\ pc[Main] = "idle"
  /\ i \in DOMAIN Setup
  /\ \A j \in DOMAIN Setup : (wpc[<<Setup[j], Main>>] # "none") <=> (j < i)

SetupDone == \A j \in DOMAIN Setup : wpc[<<Setup[j], Main>>] # "none"

BuildRollLogger ==
  /\ \E i \in DOMAIN Setup : InSetup(i) /\ Build(Main, Setup[i])
  /\ UNCHANGED logged

\* The thread of service_module starts.
Spawn ==
  /\ SetupDone
  /\ pc[Main] = "idle"
  /\ pc' = [c \in Callers |-> IF c = Main THEN "spawned" ELSE "idle"]
  /\ UNCHANGED <<poolVars, confVars, regVars, hold, workVars, logged>>

\* Fault: joins nobody.
NobodyJoined == TRUE
\* t1.join()
UsersJoined == \A u \in Users : pc[u] = "done"

ShutdownCall ==
  /\ pc[Main] = "spawned"
  /\ UsersJoined
  /\ ShutdownBegin(Main)
  /\ UNCHANGED logged

ShutdownReturn == ShutdownEnd(Main, "submitter") /\ UNCHANGED logged

\* SetTaskSubmitter({})
ClearSubmitter ==
  /\ MainStep("submitter", "poolstop")
  /\ submitter' = FALSE
  /\ UNCHANGED <<poolVars, usePool, regVars, hold, workVars, logged>>

\* thread_pool.reset()
DestroyPool ==
  /\ \/ MainStep("poolstop", "poolnotify") /\ PoolSetStop
     \/ MainStep("poolnotify", "pooljoin") /\ PoolNotifyAll
     \/ MainStep("pooljoin", "done") /\ Joined /\ UNCHANGED poolVars
  /\ UNCHANGED <<confVars, regVars, hold, workVars, logged>>
-----------------------------------------------------------------------------
\* A handler logs to a logger main registered, or that it registered itself.
Known(c) == {Setup[i] : i \in DOMAIN Setup}
  \cup {n \in Extra : c \in Users /\ wpc[<<n, c>>] # "none"}

LogCall(c) ==
  /\ pc[c] = "idle"
  /\ c = Main => SetupDone      \* DataManager logs before t1 starts
  /\ logged < MaxLogs
  /\ logged' = logged + 1
  /\ \E n \in Known(c) : GetLogger(c, n)

AddCall(u) ==
  /\ pc[u] = "idle"
  /\ \E n \in Extra : Build(u, n)
  /\ UNCHANGED logged

Leave(u) ==
  /\ pc[u] = "idle"
  /\ Goto(u, "done")
  /\ UNCHANGED <<poolVars, confVars, regVars, hold, workVars, logged>>

\* The steps inside a call of the registry or of a logger.
Inside(c) ==
  /\ Submitted(c) \/ Install(c) \/ Exist(c) \/ Insert(c) \/ Log(c) \/ Drop(c)
       \/ Join(c) \/ ClearOne(c)
  /\ UNCHANGED logged

MainProgram ==
  \/ Boot \/ FirstGetInstance \/ BuildRollLogger \/ Spawn
  \/ ShutdownCall \/ ShutdownReturn \/ ClearSubmitter \/ DestroyPool

Finished == pc[Main] = "done" /\ UNCHANGED vars

\* What a thread does that is inside a call, or runs a task, or is main.
Progress ==
  \/ MainProgram
  \/ \E c \in Callers : Inside(c)
  \/ (StartWorker \/ PoolStep) /\ UNCHANGED logged
  \/ \E l \in Loggers : Worker(l) /\ UNCHANGED logged

Next ==
  \/ Progress
  \/ \E c \in Callers : LogCall(c)
  \/ \E u \in Users : AddCall(u) \/ Leave(u)
  \/ PoolSleep /\ UNCHANGED logged
  \/ Finished

\* The machine does not stop while some thread can go on.  Which one goes is
\* left open, and a user thread need not make calls, nor end.
Spec == Init /\ [][Next]_vars /\ WF_vars(Progress)
-----------------------------------------------------------------------------
PCs == {"unborn", "idle", "notify", "install", "exist", "insert", "log", "drop",
        "join", "clear"} \cup Steps

\* Every variable has its type, and what a worker has written and is writing
\* has been logged.
TypeOK ==
  /\ tasks \in Seq(Loggers)
  /\ poolStop \in BOOLEAN
  /\ locking \in Nat /\ sleeping \in Nat /\ exited \in Nat
  /\ running \subseteq Loggers
  /\ usePool \in BOOLEAN /\ submitter \in BOOLEAN
  /\ mtx \in {None, Main}
  /\ loggers \in [Names -> Loggers \cup {None}]
  /\ default \in Loggers \cup {None}
  /\ pc \in [Callers -> PCs]
  /\ hold \in [Callers -> Loggers \cup {None}]
  /\ stopping \in [Loggers -> BOOLEAN]
  /\ wpc \in [Loggers -> {"none", "queued", "ready", "flush", "exited"}]
  /\ accepted \in [Loggers -> Seq(Callers)]
  /\ batch \in [Loggers -> Nat] /\ delivered \in [Loggers -> Nat]
  /\ \A l \in Loggers : delivered[l] + batch[l] <= Len(accepted[l])
  /\ logged \in 0 .. MaxLogs

Notifying == {c \in Callers : pc[c] = "notify"}

\* notify_one strands no task: while a pool thread sleeps, every queued task
\* has a thread, or a notification, on the way to it.
NoStrandedTask ==
  sleeping > 0 => Len(tasks) <= locking + Cardinality(Notifying)

\* GetLogger never gives a thread the null pointer the handlers do not test
\* for: a name a thread knows is registered until main has joined it.
NeverNull == \A c \in Callers : pc[c] = "log" => hold[c] # None

\* Of two loggers built with one name the registry keeps the first: a message
\* logged later goes where the earlier ones went, until Shutdown.
FirstLoggerStays ==
  [][mtx = None => \A n \in Names : loggers[n] # None => loggers'[n] = loggers[n]]_vars

\* With as many pool threads as loggers every call of a thread comes back, also
\* one that destroys the logger it could not register: again and again (calls
\* being finitely many) nobody is inside one.
CallsReturn == []<>(\A u \in Users : pc[u] \in {"unborn", "idle", "done"})

\* Once the threads that log have ended main gets through Shutdown, which joins
\* the workers with mtx_ in hand, and through the pool's destructor; and by then
\* every logger ever built, registered or not, has written all it accepted.
EndsCleanly ==
  UsersJoined ~> /\ pc[Main] = "done"
                 /\ \A l \in Loggers : delivered[l] = Len(accepted[l])

Chan(l) == INSTANCE LogChannel WITH
  Messages  <- Callers,
  accepted  <- accepted[l],
  delivered <- delivered[l],
  closed    <- wpc[l] = "exited"

\* Each logger is a log channel: whatever the registry does with it, it takes
\* no message after its worker has left, and loses and repeats none.
ImplementsChannels ==
  /\ \A l \in Loggers : Chan(l)!ChanInit
  /\ [][\A l \in Loggers : Chan(l)!ChanNext \/ UNCHANGED Chan(l)!chanVars]_vars
=============================================================================
