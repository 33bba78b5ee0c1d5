---------------------------- MODULE LogSystemProofs ----------------------------
(***************************************************************************)
(* Proofs about LogSystem, for any number of pool threads, of threads that *)
(* log and of loggers: its type invariant, that no task is stranded in the *)
(* queue, that no thread gets a null logger, that the first logger of a    *)
(* name stays, and that every logger, however its threads race to register *)
(* and to drop it, is a log channel.                                       *)
(***************************************************************************)
EXTENDS LogSystem, FiniteSetTheorems, TLAPS

\* The thread that built logger l.
Builder(l) == l[2]

Building == {"notify", "install", "exist", "insert"}
Before == Building \cup {"boot", "first", "idle", "log", "drop", "join"}
After == {"submitter", "poolstop", "poolnotify", "pooljoin", "done"}
UserPCs == {"unborn", "idle", "notify", "exist", "insert", "log", "drop", "join", "done"}

\* Main is in Shutdown, or past it.
Ending == mtx = Main \/ pc[Main] \in After

\* Main registers before it starts the threads, and shuts down after they
\* ended.
Phases ==
  /\ pc[Main] # "unborn"
  /\ pc[Main] = "clear" => mtx = Main
  /\ mtx = Main => pc[Main] \in {"clear", "drop", "join"}
  /\ mtx = None /\ pc[Main] \in Before => \A u \in Users : pc[u] = "unborn"
  /\ Ending => \A u \in Users : pc[u] = "done"
  /\ \A u \in Users : pc[u] \in UserPCs

\* Main has registered every name before it starts a thread.
Prepared == \A u \in Users : pc[u] # "unborn" => SetupDone

\* What a caller has in hand, inside a call.
Holding ==
  \A c \in Callers :
    /\ pc[c] \in Building \cup {"log", "drop", "join"} => hold[c] # None
    /\ pc[c] \in Building => Builder(hold[c]) = c
    /\ pc[c] = "install" => NameOf(hold[c]) = Default
    /\ pc[c] \in {"exist", "insert"} => NameOf(hold[c]) # Default
    /\ hold[c] # None => wpc[hold[c]] # "none"

\* The registry has built loggers, each under its name.
Named ==
  /\ \A n \in Names : loggers[n] # None => NameOf(loggers[n]) = n /\ wpc[loggers[n]] # "none"
  /\ default # None => wpc[default] # "none"

\* Nothing is registered as default before the manager is constructed.
DefaultFirst ==
  \/ pc[Main] \in {"boot", "first", "install"}
  \/ pc[Main] = "notify" /\ hold[Main] = <<Default, Main>>
  => loggers[Default] = None

\* A name whose logger was built is taken, unless the builder is on its way to
\* register it; until Shutdown.
Taken ==
  \A l \in Loggers :
    wpc[l] # "none" /\ ~Ending =>
      \/ loggers[NameOf(l)] # None
      \/ hold[Builder(l)] = l /\ pc[Builder(l)] \in Building

\* A logger that has been told to stop is out of everybody's reach, but of the
\* thread that waits for its worker.
Gone ==
  \A l \in Loggers :
    /\ wpc[l] = "exited" => stopping[l]
    /\ stopping[l] => /\ ~Registered(l)
                      /\ wpc[l] # "none"
                      /\ \A c \in Callers : hold[c] = l => pc[c] = "join"

\* Every task in the queue waits to be run, and is there once.
Queue ==
  /\ \A i \in 1 .. Len(tasks) : wpc[tasks[i]] = "queued"
  /\ \A i, j \in 1 .. Len(tasks) : tasks[i] = tasks[j] => i = j

\* A worker that writes has something to write.
Flushing == \A l \in Loggers : wpc[l] = "flush" => batch[l] > 0

IInv == Phases /\ Prepared /\ Holding /\ Named /\ DefaultFirst /\ Taken /\ Gone /\ Queue /\ Flushing
-----------------------------------------------------------------------------
\* The assumptions on the constants, about what the model makes of them.
LEMMA Constants ==
  /\ Main \in Callers /\ Users \subseteq Callers /\ Main \notin Users
  /\ None \notin Loggers /\ None \notin Callers
  /\ \A l \in Loggers : /\ NameOf(l) \in Names /\ Builder(l) \in Callers
                        /\ l = <<NameOf(l), Builder(l)>>
                        /\ NameOf(l) = Default => Builder(l) = Main
  /\ IsFiniteSet(Callers)
  /\ Default \in Names /\ Room \in Nat \ {0} /\ ThreadCount \in Nat /\ MaxLogs \in Nat
<1>1. IsFiniteSet(Callers)
  BY ManagerAssumption, FS_AddElement DEF Callers
<1>2. ASSUME NEW l \in Loggers
      PROVE  /\ NameOf(l) \in Names /\ Builder(l) \in Callers
             /\ l = <<NameOf(l), Builder(l)>>
             /\ NameOf(l) = Default => Builder(l) = Main
  BY ManagerAssumption DEF Callers, Loggers, NameOf, Builder
<1>3. None \notin Loggers
  BY ManagerAssumption DEF Loggers
<1>4. None \notin Callers
  BY ManagerAssumption DEF Callers
<1> QED
  BY <1>1, <1>2, <1>3, <1>4, ManagerAssumption, SetupAssumption, PoolAssumption, Zenon DEF Callers

\* Whoever builds a logger: main the default one, then those it registers; the
\* other threads the extra ones.
LEMMA BuildCall ==
  ASSUME FirstGetInstance \/ BuildRollLogger \/ \E u \in Users : AddCall(u)
  PROVE  \E c \in Callers, n \in Names :
           /\ <<n, c>> \in Loggers
           /\ pc[c] = IF n = Default THEN "first" ELSE "idle"
           /\ Build(c, n)
           /\ logged' = logged
<1>1. CASE FirstGetInstance
  <2>1. <<Default, Main>> \in Loggers
    BY ManagerAssumption DEF Loggers
  <2> QED BY <1>1, <2>1, Constants DEF FirstGetInstance
<1>2. CASE BuildRollLogger
  <2>1. PICK i \in DOMAIN Setup : InSetup(i) /\ Build(Main, Setup[i]) /\ logged' = logged
    BY <1>2 DEF BuildRollLogger
  <2>2. Setup[i] \in Names \ (Extra \cup {Default})
    BY <2>1, SetupAssumption
  <2>3. <<Setup[i], Main>> \in Loggers
    BY <2>2 DEF Loggers
  <2> QED BY <2>1, <2>2, <2>3, Constants DEF InSetup
<1>3. ASSUME NEW u \in Users, AddCall(u)
      PROVE  \E c \in Callers, n \in Names :
               /\ <<n, c>> \in Loggers
               /\ pc[c] = IF n = Default THEN "first" ELSE "idle"
               /\ Build(c, n)
               /\ logged' = logged
  <2>1. PICK n \in Extra : Build(u, n) /\ pc[u] = "idle" /\ logged' = logged
    BY <1>3 DEF AddCall
  <2>2. n \in Names /\ n # Default /\ <<n, u>> \in Loggers
    BY ManagerAssumption DEF Loggers
  <2> QED BY <2>1, <2>2, Constants
<1> QED BY <1>1, <1>2, <1>3

\* Building a logger gives its worker to the pool or starts it at once.
LEMMA BuildDoes ==
  ASSUME NEW c \in Callers, NEW n \in Names, Build(c, n)
  PROVE  /\ wpc[<<n, c>>] = "none"
         /\ hold' = [hold EXCEPT ![c] = <<n, c>>]
         /\ UNCHANGED <<usePool, submitter, mtx, loggers, default, stopping, accepted, batch, delivered>>
         /\ UNCHANGED <<poolStop, locking, sleeping, running, exited>>
         /\ \/ /\ tasks' = Append(tasks, <<n, c>>)
               /\ wpc' = [wpc EXCEPT ![<<n, c>>] = "queued"]
               /\ pc' = [pc EXCEPT ![c] = "notify"]
            \/ /\ tasks' = tasks
               /\ wpc' = [wpc EXCEPT ![<<n, c>>] = "ready"]
               /\ pc' = [pc EXCEPT ![c] = IF n = Default THEN "install" ELSE "exist"]
  BY DEF Build, Enqueue, Goto, Hold, Keep, NameOf, confVars, regVars, poolVars

\* The steps, one by one, by who takes them.
LEMMA StepOf ==
  ASSUME [Next]_vars
  PROVE  \/ FirstGetInstance \/ BuildRollLogger \/ \E u \in Users : AddCall(u)
         \/ Boot \/ Spawn \/ ShutdownCall \/ ShutdownReturn \/ ClearSubmitter \/ DestroyPool
         \/ \E c \in Callers : Inside(c)
         \/ \E c \in Callers : LogCall(c)
         \/ \E u \in Users : Leave(u)
         \/ StartWorker /\ logged' = logged
         \/ (PoolStep \/ PoolSleep) /\ logged' = logged
         \/ \E l \in Loggers : Worker(l) /\ logged' = logged
         \/ UNCHANGED vars
  BY Zenon DEF Next, Progress, MainProgram, Finished

\* How the phases follow one another.
LEMMA PhasesKept ==
  ASSUME TypeOK, IInv, [Next]_vars PROVE Phases'
<1>0. pc \in [Callers -> PCs] /\ mtx \in {None, Main}
  BY DEF TypeOK
<1> USE <1>0, Constants DEF Phases, Ending, Before, After, UserPCs, Building, Goto, Resume, Keep
<1>1. CASE FirstGetInstance \/ BuildRollLogger \/ \E u \in Users : AddCall(u)
  <2>1. PICK c \in Callers, n \in Names :
           /\ <<n, c>> \in Loggers
           /\ pc[c] = IF n = Default THEN "first" ELSE "idle"
           /\ Build(c, n)
    BY <1>1, BuildCall, Zenon
  <2>2. /\ mtx' = mtx
        /\ \E next \in {"notify", "install", "exist"} :
             /\ pc' = [pc EXCEPT ![c] = next]
             /\ next = "install" => n = Default
    BY <2>1, BuildDoes
  <2>3. c \in Users => n # Default
    BY <2>1 DEF Loggers, NameOf, Builder
  <2> QED BY <2>1, <2>2, <2>3 DEF IInv, Callers
<1>2. CASE Boot \/ ClearSubmitter \/ DestroyPool
  BY <1>2 DEF IInv, Boot, ClearSubmitter, DestroyPool, MainStep, regVars
<1>3. CASE Spawn
  BY <1>3 DEF IInv, Spawn, regVars
<1>4. CASE ShutdownCall \/ ShutdownReturn
  BY <1>4 DEF IInv, ShutdownCall, ShutdownReturn, ShutdownBegin, ShutdownEnd, UsersJoined
<1>5. ASSUME NEW c \in Callers, Inside(c) PROVE Phases'
  <2>1. CASE Submitted(c)
    <3>1. /\ pc[c] = "notify" /\ mtx' = mtx
          /\ pc' = [pc EXCEPT ![c] = Keep(hold[c])]
      BY <2>1, Zenon DEF Submitted, regVars, Goto
    <3>2. hold[c] \in Loggers /\ Builder(hold[c]) = c
      BY <3>1 DEF TypeOK, IInv, Holding
    <3>3. Keep(hold[c]) \in {"install", "exist"} /\ (Keep(hold[c]) = "install" => c = Main)
      BY <3>2
    <3> QED BY <3>1, <3>3 DEF IInv, Callers
  <2>2. CASE Install(c)
    BY <2>2 DEF IInv, Install, Callers
  <2>3. CASE Exist(c)
    BY <2>3 DEF IInv, Exist, regVars, Callers
  <2>4. CASE Insert(c)
    BY <2>4 DEF IInv, Insert, Callers
  <2>5. CASE Log(c)
    BY <2>5 DEF IInv, Log, regVars, Callers
  <2>6. CASE Drop(c)
    <3>1. /\ pc[c] = "drop" /\ mtx' = mtx
          /\ \E next \in {"join", Resume(c)} : pc' = [pc EXCEPT ![c] = next]
      BY <2>6, Zenon DEF Drop, regVars, Goto
    <3> QED BY <3>1 DEF IInv, Callers
  <2>7. CASE Join(c)
    <3>1. /\ pc[c] = "join" /\ mtx' = mtx
          /\ pc' = [pc EXCEPT ![c] = Resume(c)]
      BY <2>7, Zenon DEF Join, regVars, Goto
    <3> QED BY <3>1 DEF IInv, Callers
  <2>8. CASE ClearOne(c)
    BY <2>8 DEF IInv, ClearOne, Callers
  <2> QED BY <1>5, <2>1, <2>2, <2>3, <2>4, <2>5, <2>6, <2>7, <2>8, Zenon DEF Inside
<1>6. ASSUME NEW c \in Callers, LogCall(c) PROVE Phases'
  BY <1>6 DEF IInv, LogCall, GetLogger, regVars, Callers
<1>7. ASSUME NEW u \in Users, Leave(u) PROVE Phases'
  BY <1>7 DEF IInv, Leave, regVars, Callers
<1>8. ASSUME UNCHANGED <<pc, mtx>> PROVE Phases'
  BY <1>8 DEF IInv
<1>9. CASE \/ StartWorker \/ PoolStep \/ PoolSleep \/ \E l \in Loggers : Worker(l)
           \/ UNCHANGED vars
  BY <1>8, <1>9, Zenon DEF StartWorker, PoolStep, PoolSleep, Worker, WorkerSwap, WorkerFlush,
     WorkerExit, vars, regVars
<1> QED BY <1>1, <1>2, <1>3, <1>4, <1>5, <1>6, <1>7, <1>9, StepOf, Zenon

\* TypeOK, in parts.
PoolOK ==
  /\ tasks \in Seq(Loggers)
  /\ poolStop \in BOOLEAN
  /\ locking \in Nat /\ sleeping \in Nat /\ exited \in Nat
  /\ running \subseteq Loggers
RegistryOK ==
  /\ usePool \in BOOLEAN /\ submitter \in BOOLEAN
  /\ mtx \in {None, Main}
  /\ loggers \in [Names -> Loggers \cup {None}]
  /\ default \in Loggers \cup {None}
CallersOK ==
  /\ pc \in [Callers -> PCs]
  /\ hold \in [Callers -> Loggers \cup {None}]
  /\ logged \in 0 .. MaxLogs
WorkersOK ==
  /\ stopping \in [Loggers -> BOOLEAN]
  /\ wpc \in [Loggers -> {"none", "queued", "ready", "flush", "exited"}]
  /\ accepted \in [Loggers -> Seq(Callers)]
  /\ batch \in [Loggers -> Nat] /\ delivered \in [Loggers -> Nat]
  /\ \A l \in Loggers : delivered[l] + batch[l] <= Len(accepted[l])

LEMMA TypeParts == TypeOK <=> PoolOK /\ RegistryOK /\ CallersOK /\ WorkersOK
  BY DEF TypeOK, PoolOK, RegistryOK, CallersOK, WorkersOK

LEMMA PoolTyped == ASSUME TypeOK, [Next]_vars PROVE PoolOK'
<1>0. PoolOK
  BY TypeParts
<1>1. CASE FirstGetInstance \/ BuildRollLogger \/ \E u \in Users : AddCall(u)
  <2>1. PICK c \in Callers, n \in Names : <<n, c>> \in Loggers /\ Build(c, n)
    BY <1>1, BuildCall, Zenon
  <2>2. UNCHANGED <<poolStop, locking, sleeping, running, exited>>
    BY <2>1, BuildDoes, Zenon
  <2>3. tasks' = tasks \/ tasks' = Append(tasks, <<n, c>>)
    BY <2>1, BuildDoes, Zenon
  <2>4. tasks' \in Seq(Loggers)
    BY <1>0, <2>1, <2>3 DEF PoolOK
  <2> QED BY <1>0, <2>2, <2>4 DEF PoolOK
<1>2. CASE DestroyPool
  <2>1. CASE PoolSetStop
    BY <1>0, <2>1 DEF PoolOK, PoolSetStop
  <2>2. CASE PoolNotifyAll
    BY <1>0, <2>2 DEF PoolOK, PoolNotifyAll, Wake
  <2>3. CASE UNCHANGED poolVars
    BY <1>0, <2>3 DEF PoolOK, poolVars
  <2> QED BY <1>2, <2>1, <2>2, <2>3, Zenon DEF DestroyPool
<1>3. ASSUME NEW c \in Callers, Submitted(c) PROVE PoolOK'
  BY <1>0, <1>3 DEF PoolOK, Submitted, NotifyOne, Wake
<1>4. CASE StartWorker
  <2>1. Take
    BY <1>4 DEF StartWorker
  <2>2. tasks # <<>> /\ Head(tasks) \in Loggers /\ Tail(tasks) \in Seq(Loggers)
    BY <1>0, <2>1 DEF PoolOK, Take
  <2> QED BY <1>0, <2>1, <2>2 DEF PoolOK, Take
<1>5. CASE PoolStep
  BY <1>0, <1>5 DEF PoolOK, PoolStep, PoolExit, WorkerReturned, Done
<1>6. CASE PoolSleep
  BY <1>0, <1>6 DEF PoolOK, PoolSleep, PoolWait, PoolSpurious
<1>7. CASE UNCHANGED poolVars
  BY <1>0, <1>7 DEF PoolOK, poolVars
<1>8. ASSUME NEW c \in Callers, Inside(c) PROVE Submitted(c) \/ UNCHANGED poolVars
  BY <1>8, Zenon DEF Inside, Install, Exist, Insert, Log, Drop, Join, ClearOne
<1>9. CASE \/ Boot \/ Spawn \/ ShutdownCall \/ ShutdownReturn \/ ClearSubmitter
           \/ \E c \in Callers : LogCall(c)
           \/ \E u \in Users : Leave(u)
           \/ \E l \in Loggers : Worker(l)
           \/ UNCHANGED vars
  BY <1>7, <1>9, Zenon DEF Boot, Spawn, ShutdownCall, ShutdownBegin, ShutdownReturn, ShutdownEnd,
     ClearSubmitter, LogCall, GetLogger, Leave, Worker, WorkerSwap, WorkerFlush, WorkerExit, vars
<1> QED BY <1>1, <1>2, <1>3, <1>4, <1>5, <1>6, <1>7, <1>8, <1>9, StepOf, Zenon

LEMMA RegistryTyped == ASSUME TypeOK, [Next]_vars PROVE RegistryOK'
<1>0. RegistryOK /\ CallersOK
  BY TypeParts
<1>1. CASE FirstGetInstance \/ BuildRollLogger \/ \E u \in Users : AddCall(u)
  <2>1. PICK c \in Callers, n \in Names : <<n, c>> \in Loggers /\ Build(c, n)
    BY <1>1, BuildCall, Zenon
  <2>2. UNCHANGED <<usePool, submitter, mtx, loggers, default>>
    BY <2>1, BuildDoes, Zenon
  <2> QED BY <1>0, <2>2 DEF RegistryOK
<1>2. CASE Boot \/ ClearSubmitter
  BY <1>0, <1>2 DEF RegistryOK, Boot, ClearSubmitter, regVars
<1>3. CASE ShutdownCall
  BY <1>0, <1>3 DEF RegistryOK, ShutdownCall, ShutdownBegin, confVars
<1>4. CASE ShutdownReturn
  BY <1>0, <1>4 DEF RegistryOK, ShutdownReturn, ShutdownEnd, confVars
<1>5. ASSUME NEW c \in Callers, Inside(c)
      PROVE  Install(c) \/ Insert(c) \/ ClearOne(c) \/ UNCHANGED <<confVars, regVars>>
  BY <1>5, Zenon DEF Inside, Submitted, Exist, Log, Drop, Join
<1>6. ASSUME NEW c \in Callers, Install(c) PROVE RegistryOK'
  <2>1. /\ default' = hold[c] /\ loggers' = [loggers EXCEPT ![Default] = hold[c]]
        /\ UNCHANGED <<usePool, submitter, mtx>>
    BY <1>6, Zenon DEF Install, confVars
  <2> QED BY <1>0, <2>1 DEF RegistryOK, CallersOK
<1>7. ASSUME NEW c \in Callers, Insert(c) PROVE RegistryOK'
  <2>1. /\ loggers' = Inserted(loggers, hold[c])
        /\ UNCHANGED <<default, usePool, submitter, mtx>>
    BY <1>7, Zenon DEF Insert, confVars
  <2>2. loggers' \in [Names -> Loggers \cup {None}]
    BY <1>0, <2>1 DEF RegistryOK, CallersOK, Inserted
  <2> QED BY <1>0, <2>1, <2>2 DEF RegistryOK
<1>8. ASSUME NEW c \in Callers, ClearOne(c) PROVE RegistryOK'
  <2>1. UNCHANGED <<usePool, submitter, mtx>>
    BY <1>8, Zenon DEF ClearOne, confVars
  <2>2. /\ loggers' = loggers \/ \E n \in Names : loggers' = [loggers EXCEPT ![n] = None]
        /\ default' \in {default, None}
    BY <1>8 DEF ClearOne
  <2> QED BY <1>0, <2>1, <2>2 DEF RegistryOK
<1>9. CASE UNCHANGED <<confVars, regVars>>
  BY <1>0, <1>9 DEF RegistryOK, confVars, regVars
<1>10. CASE \/ Spawn \/ DestroyPool \/ StartWorker \/ PoolStep \/ PoolSleep
            \/ \E c \in Callers : LogCall(c)
            \/ \E u \in Users : Leave(u)
            \/ \E l \in Loggers : Worker(l)
            \/ UNCHANGED vars
  BY <1>9, <1>10, Zenon DEF Spawn, DestroyPool, StartWorker, PoolStep, PoolSleep, LogCall, GetLogger,
     Leave, Worker, WorkerSwap, WorkerFlush, WorkerExit, vars
<1> QED BY <1>1, <1>2, <1>3, <1>4, <1>5, <1>6, <1>7, <1>8, <1>9, <1>10, StepOf, Zenon

\* Whatever a step does to pc and hold, the new values are legal ones.
LEMMA CallersTyped == ASSUME TypeOK, [Next]_vars PROVE CallersOK'
<1>0. RegistryOK /\ CallersOK
  BY TypeParts
<1>1. CASE FirstGetInstance \/ BuildRollLogger \/ \E u \in Users : AddCall(u)
  <2>1. PICK c \in Callers, n \in Names : <<n, c>> \in Loggers /\ Build(c, n) /\ logged' = logged
    BY <1>1, BuildCall, Zenon
  <2>2. hold' = [hold EXCEPT ![c] = <<n, c>>]
    BY <2>1, BuildDoes, Zenon
  <2>3. \E next \in PCs : pc' = [pc EXCEPT ![c] = next]
    BY <2>1, BuildDoes DEF PCs
  <2> QED BY <1>0, <2>1, <2>2, <2>3 DEF CallersOK
<1>2. ASSUME NEW c \in Callers, \E next \in PCs : pc' = [pc EXCEPT ![c] = next],
             \E l \in Loggers \cup {None} : hold' = [hold EXCEPT ![c] = l] \/ hold' = hold,
             logged' \in 0 .. MaxLogs
      PROVE  CallersOK'
  BY <1>0, <1>2 DEF CallersOK
<1>3. CASE Boot \/ ShutdownCall \/ ShutdownReturn \/ ClearSubmitter \/ DestroyPool
  <2>1. hold' = hold /\ logged' = logged
    BY <1>3, Zenon DEF Boot, ShutdownCall, ShutdownBegin, ShutdownReturn, ShutdownEnd, ClearSubmitter,
       DestroyPool
  <2>2. \E next \in PCs : pc' = [pc EXCEPT ![Main] = next]
    BY <1>3 DEF Boot, ShutdownCall, ShutdownBegin, ShutdownReturn, ShutdownEnd, ClearSubmitter,
       DestroyPool, MainStep, Goto, PCs, Steps
  <2>3. logged' \in 0 .. MaxLogs
    BY <1>0, <2>1 DEF CallersOK
  <2> QED BY <1>2, <2>1, <2>2, <2>3, Constants
<1>4. CASE Spawn
  BY <1>0, <1>4 DEF CallersOK, Spawn, PCs, Steps
<1>5. ASSUME NEW c \in Callers, Inside(c) PROVE CallersOK'
  <2>1. logged' \in 0 .. MaxLogs
    BY <1>0, <1>5 DEF CallersOK, Inside
  <2>2. \E next \in PCs : pc' = [pc EXCEPT ![c] = next]
    BY <1>5 DEF Inside, Submitted, Install, Exist, Insert, Log, Drop, Join, ClearOne, Goto, PCs,
       Keep, Resume
  <2>3. \E l \in Loggers \cup {None} : hold' = [hold EXCEPT ![c] = l] \/ hold' = hold
    <3>1. CASE ClearOne(c)
      <4>1. \/ \E n \in Names : hold' = [hold EXCEPT ![c] = loggers[n]]
            \/ hold' = [hold EXCEPT ![c] = default]
        BY <3>1, Zenon DEF ClearOne, Hold
      <4> QED BY <1>0, <4>1 DEF RegistryOK
    <3>2. CASE ~ClearOne(c)
      <4>1. hold' = hold \/ hold' = [hold EXCEPT ![c] = None]
        BY <1>5, <3>2, Zenon DEF Inside, Submitted, Install, Exist, Insert, Log, Drop, Join, Hold
      <4> QED BY <4>1
    <3> QED BY <3>1, <3>2
  <2> QED BY <1>2, <2>1, <2>2, <2>3
<1>6. ASSUME NEW c \in Callers, LogCall(c) PROVE CallersOK'
  <2>1. PICK n \in Known(c) : GetLogger(c, n)
    BY <1>6, Zenon DEF LogCall
  <2>2. n \in Names
    BY <2>1, ManagerAssumption, SetupAssumption DEF Known
  <2>3. hold' = [hold EXCEPT ![c] = loggers[n]] /\ pc' = [pc EXCEPT ![c] = "log"]
    BY <2>1, Zenon DEF GetLogger, Goto, Hold
  <2>4. logged' \in 0 .. MaxLogs
    BY <1>0, <1>6, Constants DEF CallersOK, LogCall
  <2> QED BY <1>0, <1>2, <2>2, <2>3, <2>4 DEF RegistryOK, PCs
<1>7. ASSUME NEW u \in Users, Leave(u) PROVE CallersOK'
  <2>1. pc' = [pc EXCEPT ![u] = "done"] /\ hold' = hold /\ logged' = logged
    BY <1>7, Zenon DEF Leave, Goto
  <2> QED BY <1>0, <2>1 DEF CallersOK, PCs, Steps
<1>8. CASE UNCHANGED <<pc, hold, logged>>
  BY <1>0, <1>8 DEF CallersOK
<1>9. CASE \/ StartWorker /\ logged' = logged
           \/ (PoolStep \/ PoolSleep) /\ logged' = logged
           \/ \E l \in Loggers : Worker(l) /\ logged' = logged
           \/ UNCHANGED vars
  BY <1>8, <1>9, Zenon DEF StartWorker, PoolStep, PoolSleep, Worker, WorkerSwap, WorkerFlush, WorkerExit,
     vars
<1> QED BY <1>1, <1>3, <1>4, <1>5, <1>6, <1>7, <1>8, <1>9, StepOf, Zenon

\* What a step does to the workers: nothing, or one of these.
LEMMA WorkersSame ==
  ASSUME [Next]_vars
  PROVE  \/ FirstGetInstance \/ BuildRollLogger \/ \E u \in Users : AddCall(u)
         \/ \E c \in Callers : Log(c) \/ Drop(c)
         \/ StartWorker
         \/ \E l \in Loggers : Worker(l)
         \/ UNCHANGED workVars
<1>1. ASSUME NEW c \in Callers, Inside(c) PROVE Log(c) \/ Drop(c) \/ UNCHANGED workVars
  BY <1>1, Zenon DEF Inside, Submitted, Install, Exist, Insert, Join, ClearOne
<1>2. CASE \/ Boot \/ Spawn \/ ShutdownCall \/ ShutdownReturn \/ ClearSubmitter \/ DestroyPool
           \/ PoolStep \/ PoolSleep
           \/ \E c \in Callers : LogCall(c)
           \/ \E u \in Users : Leave(u)
           \/ UNCHANGED vars
  BY <1>2, Zenon DEF Boot, Spawn, ShutdownCall, ShutdownBegin, ShutdownReturn, ShutdownEnd,
     ClearSubmitter, DestroyPool, PoolStep, PoolSleep, LogCall, GetLogger, Leave, vars
<1> QED BY <1>1, <1>2, StepOf, Zenon

\* A message is in the buffer, in the batch or written, whatever the worker
\* does.
LEMMA WorkersTyped == ASSUME TypeOK, [Next]_vars PROVE WorkersOK'
<1>0. WorkersOK /\ CallersOK /\ PoolOK
  BY TypeParts
<1>1. CASE FirstGetInstance \/ BuildRollLogger \/ \E u \in Users : AddCall(u)
  <2>1. PICK c \in Callers, n \in Names : <<n, c>> \in Loggers /\ Build(c, n)
    BY <1>1, BuildCall, Zenon
  <2>2. UNCHANGED <<stopping, accepted, batch, delivered>>
    BY <2>1, BuildDoes, Zenon
  <2>3. \/ wpc' = [wpc EXCEPT ![<<n, c>>] = "queued"]
        \/ wpc' = [wpc EXCEPT ![<<n, c>>] = "ready"]
    BY <2>1, BuildDoes, Zenon
  <2> QED BY <1>0, <2>2, <2>3 DEF WorkersOK
<1>2. ASSUME NEW c \in Callers, Log(c) PROVE WorkersOK'
  <2>1. /\ hold[c] # None
        /\ accepted' = [accepted EXCEPT ![hold[c]] = Append(@, c)]
        /\ UNCHANGED <<stopping, wpc, batch, delivered>>
    BY <1>2, Zenon DEF Log
  <2>2. hold[c] \in Loggers
    BY <1>0, <2>1 DEF CallersOK
  <2>3. accepted' \in [Loggers -> Seq(Callers)]
    BY <1>0, <2>1, <2>2 DEF WorkersOK
  <2>4. \A l \in Loggers : Len(accepted[l]) <= Len(accepted'[l])
    BY <1>0, <2>1, <2>2 DEF WorkersOK
  <2>5. ASSUME NEW l \in Loggers PROVE delivered[l] + batch[l] <= Len(accepted'[l])
    BY <1>0, <2>3, <2>4 DEF WorkersOK
  <2> QED BY <1>0, <2>1, <2>3, <2>5 DEF WorkersOK
<1>3. ASSUME NEW c \in Callers, Drop(c) PROVE WorkersOK'
  <2>1. /\ stopping' = stopping \/ stopping' = [stopping EXCEPT ![hold[c]] = TRUE]
        /\ UNCHANGED <<wpc, accepted, batch, delivered>>
    BY <1>3, Zenon DEF Drop
  <2>2. stopping' \in [Loggers -> BOOLEAN]
    BY <1>0, <2>1 DEF WorkersOK
  <2> QED BY <1>0, <2>1, <2>2 DEF WorkersOK
<1>4. CASE StartWorker
  BY <1>0, <1>4 DEF WorkersOK, StartWorker
<1>5. ASSUME NEW l \in Loggers, WorkerSwap(l) PROVE WorkersOK'
  BY <1>0, <1>5 DEF WorkersOK, WorkerSwap
<1>6. ASSUME NEW l \in Loggers, WorkerFlush(l) PROVE WorkersOK'
  BY <1>0, <1>6 DEF WorkersOK, WorkerFlush
<1>7. ASSUME NEW l \in Loggers, WorkerExit(l) PROVE WorkersOK'
  BY <1>0, <1>7 DEF WorkersOK, WorkerExit
<1>8. CASE UNCHANGED workVars
  BY <1>0, <1>8 DEF WorkersOK, workVars
<1> QED BY <1>1, <1>2, <1>3, <1>4, <1>5, <1>6, <1>7, <1>8, WorkersSame, Zenon DEF Worker

\* Every variable keeps its type, and no worker writes what was not logged,
\* for any number of threads and of loggers.
THEOREM TypeCorrect == Spec => []TypeOK
<1>1. Init => TypeOK
  <2> SUFFICES ASSUME Init PROVE TypeOK
    OBVIOUS
  <2>1. PoolOK
    <3>1. /\ tasks = <<>> /\ poolStop = FALSE /\ running = {}
          /\ locking = ThreadCount /\ sleeping = 0 /\ exited = 0
      BY Zenon DEF Init, ManagerInit, PoolInit
    <3>2. poolStop \in BOOLEAN
      BY <3>1, Zenon
    <3>3. tasks \in Seq(Loggers) /\ running \subseteq Loggers
      BY <3>1
    <3>4. locking \in Nat /\ sleeping \in Nat /\ exited \in Nat
      BY <3>1, PoolAssumption
    <3> QED BY <3>2, <3>3, <3>4, Zenon DEF PoolOK
  <2>2. RegistryOK
    BY Constants DEF Init, ManagerInit, RegistryOK
  <2>3. CallersOK
    BY Constants DEF Init, ManagerInit, CallersOK, PCs, Steps
  <2>4. WorkersOK
    BY Constants DEF Init, ManagerInit, WorkersOK
  <2> QED BY <2>1, <2>2, <2>3, <2>4, TypeParts
<1>2. TypeOK /\ [Next]_vars => TypeOK'
  <2> SUFFICES ASSUME TypeOK, [Next]_vars PROVE TypeOK'
    OBVIOUS
  <2> QED BY PoolTyped, RegistryTyped, CallersTyped, WorkersTyped
          DEF TypeOK, PoolOK, RegistryOK, CallersOK, WorkersOK
<1> QED BY <1>1, <1>2, PTL DEF Spec
-----------------------------------------------------------------------------

\* Phases starts true; so does all the rest.
LEMMA StartsWell == Init => IInv
<1> SUFFICES ASSUME Init PROVE IInv
  OBVIOUS
<1>1. /\ pc = [c \in Callers |-> IF c = Main THEN "boot" ELSE "unborn"]
      /\ tasks = <<>> /\ mtx = None /\ default = None
      /\ loggers = [k \in Names |-> None]
      /\ hold = [c \in Callers |-> None]
      /\ stopping = [l \in Loggers |-> FALSE]
      /\ wpc = [l \in Loggers |-> "none"]
  BY DEF Init, ManagerInit, PoolInit
<1>2. Phases
  BY <1>1, Constants DEF Phases, Ending, Before, After, Building, UserPCs
<1>7. Prepared
  BY <1>1, Constants DEF Prepared
<1>3. Holding
  BY <1>1, Constants DEF Holding, Building
<1>4. Named /\ DefaultFirst /\ Taken
  BY <1>1, Constants DEF Named, DefaultFirst, Taken
<1>5. Gone /\ Flushing
  BY <1>1, Constants DEF Gone, Flushing
<1>6. Queue
  BY <1>1 DEF Queue
<1> QED BY <1>2, <1>3, <1>4, <1>5, <1>6, <1>7 DEF IInv

\* What a step does to the registry: nothing, or one of these.
LEMMA RegistrySame ==
  ASSUME [Next]_vars
  PROVE  (\E c \in Callers : Install(c) \/ Insert(c) \/ ClearOne(c)) \/ UNCHANGED <<loggers, default>>
<1>1. ASSUME NEW c \in Callers, Inside(c)
      PROVE  Install(c) \/ Insert(c) \/ ClearOne(c) \/ UNCHANGED <<loggers, default>>
  BY <1>1, Zenon DEF Inside, Submitted, Exist, Log, Drop, Join, regVars
<1>2. CASE \/ Boot \/ Spawn \/ ShutdownCall \/ ShutdownReturn \/ ClearSubmitter \/ DestroyPool
           \/ StartWorker \/ PoolStep \/ PoolSleep
           \/ \E c \in Callers : LogCall(c)
           \/ \E u \in Users : Leave(u)
           \/ \E l \in Loggers : Worker(l)
           \/ UNCHANGED vars
  BY <1>2, Zenon DEF Boot, Spawn, ShutdownCall, ShutdownBegin, ShutdownReturn, ShutdownEnd,
     ClearSubmitter, DestroyPool, StartWorker, PoolStep, PoolSleep, LogCall, GetLogger, Leave,
     Worker, WorkerSwap, WorkerFlush, WorkerExit, vars, regVars
<1>3. CASE FirstGetInstance \/ BuildRollLogger \/ \E u \in Users : AddCall(u)
  <2>1. PICK c \in Callers, n \in Names : Build(c, n)
    BY <1>3, BuildCall, Zenon
  <2> QED BY <2>1, Zenon DEF Build, regVars
<1> QED BY <1>1, <1>2, <1>3, StepOf, Zenon

\* What a step does to the queue: nothing, or one of these.
LEMMA QueueSame ==
  ASSUME [Next]_vars
  PROVE  \/ FirstGetInstance \/ BuildRollLogger \/ \E u \in Users : AddCall(u)
         \/ StartWorker
         \/ tasks' = tasks
<1>1. CASE DestroyPool \/ \E c \in Callers : Submitted(c)
  BY <1>1, Zenon DEF DestroyPool, PoolSetStop, PoolNotifyAll, poolVars, Submitted, NotifyOne
<1>2. ASSUME NEW c \in Callers, Inside(c) PROVE Submitted(c) \/ tasks' = tasks
  BY <1>2, Zenon DEF Inside, Install, Exist, Insert, Log, Drop, Join, ClearOne, poolVars
<1>3. CASE \/ Boot \/ Spawn \/ ShutdownCall \/ ShutdownReturn \/ ClearSubmitter
           \/ \E c \in Callers : LogCall(c)
           \/ \E u \in Users : Leave(u)
           \/ \E l \in Loggers : Worker(l)
           \/ UNCHANGED vars
  BY <1>3, Zenon DEF Boot, Spawn, ShutdownCall, ShutdownBegin, ShutdownReturn, ShutdownEnd,
     ClearSubmitter, LogCall, GetLogger, Leave, Worker, WorkerSwap, WorkerFlush, WorkerExit, vars, poolVars
<1>4. CASE PoolStep \/ PoolSleep
  BY <1>4, Zenon DEF PoolStep, PoolSleep, PoolExit, WorkerReturned, Done, PoolWait, PoolSpurious
<1> QED BY <1>1, <1>2, <1>3, <1>4, StepOf, Zenon

\* A task leaves the queue when its worker starts, and no worker that waits in
\* it can do anything else.
LEMMA QueueKept == ASSUME TypeOK, IInv, [Next]_vars PROVE Queue'
<1>0. /\ Queue /\ tasks \in Seq(Loggers)
      /\ wpc \in [Loggers -> {"none", "queued", "ready", "flush", "exited"}]
  BY DEF IInv, TypeOK
<1>1. CASE FirstGetInstance \/ BuildRollLogger \/ \E u \in Users : AddCall(u)
  <2>1. PICK c \in Callers, n \in Names : <<n, c>> \in Loggers /\ Build(c, n)
    BY <1>1, BuildCall, Zenon
  <2>2. \A i \in 1 .. Len(tasks) : tasks[i] \in Loggers /\ tasks[i] # <<n, c>>
    BY <1>0, <2>1, BuildDoes DEF Queue
  <2>3. CASE tasks' = tasks /\ wpc' = [wpc EXCEPT ![<<n, c>>] = "ready"]
    BY <1>0, <2>2, <2>3 DEF Queue
  <2>4. CASE tasks' = Append(tasks, <<n, c>>) /\ wpc' = [wpc EXCEPT ![<<n, c>>] = "queued"]
    <3>1. Len(tasks') = Len(tasks) + 1 /\ Len(tasks) \in Nat
      BY <1>0, <2>1, <2>4
    <3>2. \A i \in 1 .. Len(tasks) + 1 :
             tasks'[i] = IF i = Len(tasks) + 1 THEN <<n, c>> ELSE tasks[i]
      BY <1>0, <2>1, <2>4
    <3>3. ASSUME NEW i \in 1 .. Len(tasks') PROVE wpc'[tasks'[i]] = "queued"
      BY <1>0, <2>1, <2>2, <2>4, <3>1, <3>2 DEF Queue
    <3>4. ASSUME NEW i \in 1 .. Len(tasks'), NEW j \in 1 .. Len(tasks'), tasks'[i] = tasks'[j]
          PROVE  i = j
      BY <1>0, <2>2, <3>1, <3>2, <3>4 DEF Queue
    <3> QED BY <3>3, <3>4 DEF Queue
  <2> QED BY <2>1, <2>3, <2>4, BuildDoes
<1>2. CASE StartWorker
  <2>1. /\ tasks # <<>> /\ tasks' = Tail(tasks)
        /\ wpc' = [wpc EXCEPT ![Head(tasks)] = "ready"]
    BY <1>2 DEF StartWorker, Take
  <2>2. /\ Len(tasks') = Len(tasks) - 1 /\ Len(tasks) \in Nat \ {0}
        /\ \A i \in 1 .. Len(tasks) - 1 : tasks'[i] = tasks[i + 1]
        /\ Head(tasks) = tasks[1]
    BY <1>0, <2>1
  <2>3. ASSUME NEW i \in 1 .. Len(tasks') PROVE tasks'[i] # Head(tasks) /\ wpc[tasks'[i]] = "queued"
    BY <1>0, <2>2 DEF Queue
  <2>4. ASSUME NEW i \in 1 .. Len(tasks') PROVE wpc'[tasks'[i]] = "queued"
    <3>1. tasks'[i] \in Loggers
      BY <1>0, <2>2
    <3> QED BY <1>0, <2>1, <2>3, <3>1
  <2>5. ASSUME NEW i \in 1 .. Len(tasks'), NEW j \in 1 .. Len(tasks'), tasks'[i] = tasks'[j]
        PROVE  i = j
    <3>1. i + 1 \in 1 .. Len(tasks) /\ j + 1 \in 1 .. Len(tasks) /\ tasks[i + 1] = tasks[j + 1]
      BY <2>2, <2>5
    <3>2. i + 1 = j + 1
      BY <1>0, <3>1 DEF Queue
    <3> QED BY <3>2
  <2> QED BY <2>4, <2>5 DEF Queue
<1>3. ASSUME tasks' = tasks, NEW l \in Loggers, wpc[l] # "queued",
             \E where \in {"ready", "flush", "exited"} : wpc' = [wpc EXCEPT ![l] = where]
      PROVE  Queue'
  BY <1>0, <1>3 DEF Queue
<1>4. ASSUME NEW l \in Loggers, Worker(l) PROVE Queue'
  BY <1>3, <1>4 DEF Worker, WorkerSwap, WorkerFlush, WorkerExit, poolVars
<1>5. CASE tasks' = tasks /\ wpc' = wpc
  BY <1>0, <1>5 DEF Queue
<1>6. ASSUME NEW c \in Callers, Log(c) \/ Drop(c) PROVE wpc' = wpc
  BY <1>6, Zenon DEF Log, Drop
<1> QED BY <1>1, <1>2, <1>4, <1>5, <1>6, QueueSame, WorkersSame, Zenon DEF workVars

LEMMA FlushingKept == ASSUME TypeOK, IInv, [Next]_vars PROVE Flushing'
<1>0. /\ Flushing /\ WorkersOK /\ PoolOK
  BY TypeParts DEF IInv
<1>1. CASE FirstGetInstance \/ BuildRollLogger \/ \E u \in Users : AddCall(u)
  <2>1. PICK c \in Callers, n \in Names : <<n, c>> \in Loggers /\ Build(c, n)
    BY <1>1, BuildCall, Zenon
  <2> QED BY <1>0, <2>1, BuildDoes DEF Flushing, WorkersOK
<1>2. ASSUME NEW c \in Callers, Log(c) \/ Drop(c) PROVE Flushing'
  BY <1>0, <1>2 DEF Flushing, Log, Drop
<1>3. CASE StartWorker
  BY <1>0, <1>3 DEF Flushing, StartWorker, WorkersOK
<1>4. ASSUME NEW l \in Loggers, Worker(l) PROVE Flushing'
  BY <1>0, <1>4 DEF Flushing, Worker, WorkerSwap, WorkerFlush, WorkerExit, WorkersOK
<1>5. CASE UNCHANGED workVars
  BY <1>0, <1>5 DEF Flushing, workVars
<1> QED BY <1>1, <1>2, <1>3, <1>4, <1>5, WorkersSame, Zenon

\* What was built stays so.
LEMMA BuiltStays ==
  ASSUME TypeOK, [Next]_vars, NEW l \in Loggers, wpc[l] # "none" PROVE wpc'[l] # "none"
<1>0. wpc \in [Loggers -> {"none", "queued", "ready", "flush", "exited"}]
  BY DEF TypeOK
<1>1. CASE FirstGetInstance \/ BuildRollLogger \/ \E u \in Users : AddCall(u)
  <2>1. PICK c \in Callers, n \in Names : <<n, c>> \in Loggers /\ Build(c, n)
    BY <1>1, BuildCall, Zenon
  <2> QED BY <1>0, <2>1, BuildDoes
<1>2. CASE StartWorker
  BY <1>0, <1>2 DEF StartWorker
<1>3. ASSUME NEW k \in Loggers, Worker(k) PROVE wpc'[l] # "none"
  BY <1>0, <1>3 DEF Worker, WorkerSwap, WorkerFlush, WorkerExit
<1>4. CASE wpc' = wpc
  BY <1>4
<1>5. ASSUME NEW c \in Callers, Log(c) \/ Drop(c) PROVE wpc' = wpc
  BY <1>5, Zenon DEF Log, Drop
<1> QED BY <1>1, <1>2, <1>3, <1>4, <1>5, WorkersSame, Zenon DEF workVars

\* A name that a thread may log to is registered: main registered it before the
\* thread began, or it did so itself, and nothing is taken out until it ended.
LEMMA RegisteredWhenKnown ==
  ASSUME TypeOK, IInv, NEW c \in Callers, LogCall(c), NEW n \in Known(c)
  PROVE  n \in Names /\ loggers[n] # None
<1>0. /\ Phases /\ Taken /\ pc[c] = "idle" /\ mtx = None /\ (c = Main => SetupDone)
  BY DEF IInv, LogCall, GetLogger
<1>1. ASSUME NEW l \in Loggers, NameOf(l) = n, Builder(l) \in {c, Main}, wpc[l] # "none"
      PROVE  n \in Names /\ loggers[n] # None
  <2>1. ~Ending
    BY <1>0, Constants DEF Ending, Phases, After, Callers
  <2>2. pc[Builder(l)] \notin Building
    BY <1>0, <1>1, Constants DEF Phases, Before, Building, Callers
  <2> QED BY <1>0, <1>1, <2>1, <2>2, Constants DEF Taken
<1>2. CASE c \in Users /\ n \in Extra /\ wpc[<<n, c>>] # "none"
  <2>1. <<n, c>> \in Loggers
    BY <1>2 DEF Loggers
  <2> QED BY <1>1, <1>2, <2>1 DEF NameOf, Builder
<1>3. ASSUME NEW i \in DOMAIN Setup, n = Setup[i]
      PROVE  n \in Names /\ loggers[n] # None
  <2>1. n \in Names \ (Extra \cup {Default})
    BY <1>3, SetupAssumption
  <2>2. <<n, Main>> \in Loggers
    BY <2>1 DEF Loggers
  <2>3. SetupDone
    BY <1>0 DEF IInv, Prepared, Callers
  <2>4. wpc[<<n, Main>>] # "none"
    BY <1>3, <2>3 DEF SetupDone
  <2> QED BY <1>1, <2>2, <2>4 DEF NameOf, Builder
<1> QED BY <1>2, <1>3 DEF Known

LEMMA PreparedKept == ASSUME TypeOK, IInv, [Next]_vars PROVE Prepared'
<1>0. Prepared /\ Phases /\ pc \in [Callers -> PCs]
  BY DEF IInv, TypeOK
<1>1. SetupDone => SetupDone'
  <2>1. ASSUME NEW i \in DOMAIN Setup PROVE <<Setup[i], Main>> \in Loggers
    BY SetupAssumption DEF Loggers
  <2> QED BY <2>1, BuiltStays DEF SetupDone
<1>2. ASSUME NEW u \in Users, pc[u] = "unborn", pc'[u] # "unborn" PROVE Spawn
  <2>1. CASE FirstGetInstance \/ BuildRollLogger \/ \E v \in Users : AddCall(v)
    <3>1. PICK c \in Callers, n \in Names :
             /\ <<n, c>> \in Loggers
             /\ pc[c] = IF n = Default THEN "first" ELSE "idle"
             /\ Build(c, n)
      BY <2>1, BuildCall, Zenon
    <3> QED BY <1>0, <1>2, <3>1, BuildDoes DEF Callers
  <2>2. ASSUME NEW c \in Callers, Inside(c) \/ LogCall(c) \/ Leave(c) PROVE FALSE
    BY <1>0, <1>2, <2>2 DEF Inside, Submitted, Install, Exist, Insert, Log, Drop, Join, ClearOne, Goto,
       LogCall, GetLogger, Leave, Callers
  <2>3. CASE Boot \/ ShutdownCall \/ ShutdownReturn \/ ClearSubmitter \/ DestroyPool
    BY <1>0, <1>2, <2>3, Constants DEF Boot, ShutdownCall, ShutdownBegin, ShutdownReturn, ShutdownEnd,
       ClearSubmitter, DestroyPool, MainStep, Goto, Callers
  <2>4. CASE \/ StartWorker \/ PoolStep \/ PoolSleep
             \/ \E l \in Loggers : Worker(l)
             \/ UNCHANGED vars
    <3>1. pc' = pc
      BY <2>4, Zenon DEF StartWorker, PoolStep, PoolSleep, Worker, WorkerSwap, WorkerFlush, WorkerExit,
         vars
    <3> QED BY <1>2, <3>1
  <2>5. CASE \E v \in Users : Leave(v)
    BY <2>2, <2>5 DEF Callers
  <2> QED BY <2>1, <2>2, <2>3, <2>4, <2>5, StepOf, Zenon
<1>3. Spawn => SetupDone
  BY DEF Spawn
<1> QED BY <1>0, <1>1, <1>2, <1>3 DEF Prepared

LEMMA HoldingKept == ASSUME TypeOK, IInv, [Next]_vars PROVE Holding'
<1>0. /\ Holding /\ Named /\ pc \in [Callers -> PCs] /\ hold \in [Callers -> Loggers \cup {None}]
      /\ loggers \in [Names -> Loggers \cup {None}] /\ default \in Loggers \cup {None}
  BY DEF IInv, TypeOK
<1> USE <1>0, BuiltStays, Constants DEF Building
<1>1. CASE FirstGetInstance \/ BuildRollLogger \/ \E u \in Users : AddCall(u)
  <2>1. PICK c \in Callers, n \in Names : <<n, c>> \in Loggers /\ Build(c, n)
    BY <1>1, BuildCall, Zenon
  <2>2. /\ hold' = [hold EXCEPT ![c] = <<n, c>>]
        /\ \E next \in {"notify", IF n = Default THEN "install" ELSE "exist"} :
             pc' = [pc EXCEPT ![c] = next]
    BY <2>1, BuildDoes
  <2>3. wpc'[<<n, c>>] # "none"
    <3>1. \E where \in {"queued", "ready"} : wpc' = [wpc EXCEPT ![<<n, c>>] = where]
      BY <2>1, BuildDoes
    <3>2. wpc \in [Loggers -> {"none", "queued", "ready", "flush", "exited"}]
      BY DEF TypeOK
    <3> QED BY <2>1, <3>1, <3>2
  <2>4. NameOf(<<n, c>>) = n /\ Builder(<<n, c>>) = c /\ <<n, c>> # None
    BY <2>1 DEF NameOf, Builder
  <2> QED BY <2>1, <2>2, <2>3, <2>4 DEF Holding
<1>2. ASSUME NEW c \in Callers, hold' = [hold EXCEPT ![c] = None],
             \E next \in {"idle", "clear"} : pc' = [pc EXCEPT ![c] = next]
      PROVE  Holding'
  BY <1>2 DEF Holding
<1>3. ASSUME NEW c \in Callers, hold' = hold, pc[c] \in Building \cup {"log", "drop"},
             \E next \in {"drop", "join"} : pc' = [pc EXCEPT ![c] = next]
      PROVE  Holding'
  BY <1>3 DEF Holding
<1>4. ASSUME NEW c \in Callers, hold' = hold,
             \E next \in PCs \ (Building \cup {"log", "drop", "join"}) : pc' = [pc EXCEPT ![c] = next]
      PROVE  Holding'
  BY <1>4 DEF Holding
<1>5. ASSUME NEW c \in Callers, NEW l \in Loggers, hold' = [hold EXCEPT ![c] = l], wpc[l] # "none",
             \E next \in {"log", "drop"} : pc' = [pc EXCEPT ![c] = next]
      PROVE  Holding'
  BY <1>5 DEF Holding
<1>6. CASE UNCHANGED <<pc, hold>>
  BY <1>6 DEF Holding
<1>7. ASSUME NEW c \in Callers, Inside(c) PROVE Holding'
  <2>1. CASE Submitted(c)
    <3>1. pc[c] = "notify" /\ hold' = hold /\ pc' = [pc EXCEPT ![c] = Keep(hold[c])]
      BY <2>1, Zenon DEF Submitted, Goto
    <3> QED BY <3>1 DEF Holding, Keep
  <2>2. CASE Install(c)
    BY <1>2, <2>2 DEF Install, Goto, Hold
  <2>3. CASE Exist(c)
    <3>1. /\ pc[c] = "exist" /\ hold' = hold
          /\ \E next \in {"insert", "drop"} : pc' = [pc EXCEPT ![c] = next]
      BY <2>3 DEF Exist, Goto
    <3> QED BY <3>1 DEF Holding
  <2>4. CASE Insert(c)
    BY <1>3, <2>4 DEF Insert, Goto
  <2>5. CASE Log(c)
    BY <1>3, <2>5 DEF Log, Goto
  <2>6. CASE Drop(c)
    <3>1. \/ hold' = hold /\ pc' = [pc EXCEPT ![c] = "join"] /\ pc[c] = "drop"
          \/ hold' = [hold EXCEPT ![c] = None] /\ pc' = [pc EXCEPT ![c] = Resume(c)]
      BY <2>6, Zenon DEF Drop, Goto, Hold
    <3> QED BY <1>2, <1>3, <3>1 DEF Resume
  <2>7. CASE Join(c)
    <3>1. hold' = [hold EXCEPT ![c] = None] /\ pc' = [pc EXCEPT ![c] = Resume(c)]
      BY <2>7, Zenon DEF Join, Goto, Hold
    <3> QED BY <1>2, <3>1 DEF Resume
  <2>8. CASE ClearOne(c)
    <3>1. pc' = [pc EXCEPT ![c] = "drop"]
      BY <2>8 DEF ClearOne, Goto
    <3>2. CASE \E n \in Names : loggers[n] # None /\ hold' = [hold EXCEPT ![c] = loggers[n]]
      BY <1>5, <3>1, <3>2 DEF Named
    <3>3. CASE default # None /\ hold' = [hold EXCEPT ![c] = default]
      BY <1>5, <3>1, <3>3 DEF Named
    <3> QED BY <2>8, <3>2, <3>3, Zenon DEF ClearOne, Hold
  <2> QED BY <1>7, <2>1, <2>2, <2>3, <2>4, <2>5, <2>6, <2>7, <2>8, Zenon DEF Inside
<1>8. CASE Boot \/ ShutdownCall \/ ShutdownReturn \/ ClearSubmitter \/ DestroyPool
  <2>1. hold' = hold
    BY <1>8, Zenon DEF Boot, ShutdownCall, ShutdownBegin, ShutdownReturn, ShutdownEnd, ClearSubmitter,
       DestroyPool
  <2>2. \E next \in PCs \ (Building \cup {"log", "drop", "join"}) : pc' = [pc EXCEPT ![Main] = next]
    BY <1>8 DEF Boot, ShutdownCall, ShutdownBegin, ShutdownReturn, ShutdownEnd, ClearSubmitter,
       DestroyPool, MainStep, Goto, PCs, Steps
  <2> QED BY <1>4, <2>1, <2>2
<1>9. CASE Spawn
  BY <1>9 DEF Holding, Spawn
<1>10. ASSUME NEW c \in Callers, LogCall(c) PROVE Holding'
  <2>1. PICK n \in Known(c) : GetLogger(c, n)
    BY <1>10, Zenon DEF LogCall
  <2>2. /\ pc[c] = "idle" /\ mtx = None /\ (c = Main => SetupDone)
        /\ hold' = [hold EXCEPT ![c] = loggers[n]] /\ pc' = [pc EXCEPT ![c] = "log"]
    BY <1>10, <2>1, Zenon DEF LogCall, GetLogger, Goto, Hold
  <2>3. n \in Names /\ loggers[n] # None
    BY <1>10, <2>1, RegisteredWhenKnown
  <2> QED BY <1>5, <2>2, <2>3 DEF Named
<1>11. ASSUME NEW u \in Users, Leave(u) PROVE Holding'
  BY <1>4, <1>11 DEF Leave, Goto, PCs, Steps
<1>12. CASE \/ StartWorker \/ PoolStep \/ PoolSleep
            \/ \E l \in Loggers : Worker(l)
            \/ UNCHANGED vars
  BY <1>6, <1>12, Zenon DEF StartWorker, PoolStep, PoolSleep, Worker, WorkerSwap, WorkerFlush, WorkerExit,
     vars
<1> QED BY <1>1, <1>7, <1>8, <1>9, <1>10, <1>11, <1>12, StepOf, Zenon

LEMMA NamedKept == ASSUME TypeOK, IInv, [Next]_vars PROVE Named'
<1>0. /\ Named /\ Holding
      /\ loggers \in [Names -> Loggers \cup {None}] /\ default \in Loggers \cup {None}
      /\ hold \in [Callers -> Loggers \cup {None}]
  BY DEF IInv, TypeOK
<1>1. ASSUME NEW l \in Loggers, wpc[l] # "none" PROVE wpc'[l] # "none"
  BY <1>1, BuiltStays
<1>2. ASSUME NEW c \in Callers, Install(c) PROVE Named'
  <2>1. /\ hold[c] \in Loggers /\ NameOf(hold[c]) = Default /\ wpc[hold[c]] # "none"
        /\ default' = hold[c] /\ loggers' = [loggers EXCEPT ![Default] = hold[c]]
    BY <1>0, <1>2 DEF Install, Holding, Building
  <2> QED BY <1>0, <1>1, <2>1 DEF Named
<1>3. ASSUME NEW c \in Callers, Insert(c) PROVE Named'
  <2>1. /\ hold[c] \in Loggers /\ wpc[hold[c]] # "none"
        /\ default' = default /\ loggers' = Inserted(loggers, hold[c])
    BY <1>0, <1>3 DEF Insert, Holding, Building
  <2> QED BY <1>0, <1>1, <2>1 DEF Named, Inserted
<1>4. ASSUME NEW c \in Callers, ClearOne(c) PROVE Named'
  <2>1. /\ default' \in {default, None}
        /\ \A n \in Names : loggers'[n] \in {loggers[n], None}
    BY <1>0, <1>4 DEF ClearOne
  <2> QED BY <1>0, <1>1, <2>1 DEF Named
<1>5. CASE UNCHANGED <<loggers, default>>
  BY <1>0, <1>1, <1>5 DEF Named
<1> QED BY <1>2, <1>3, <1>4, <1>5, RegistrySame

\* Outside Shutdown what is registered stays: Install and Insert find nothing
\* where they put a logger.
LEMMA RegisteredStays ==
  ASSUME TypeOK, IInv, [Next]_vars, mtx = None, NEW n \in Names, loggers[n] # None
  PROVE  loggers'[n] = loggers[n]
<1>0. /\ Phases /\ DefaultFirst
      /\ loggers \in [Names -> Loggers \cup {None}]
  BY DEF IInv, TypeOK
<1>1. ASSUME NEW c \in Callers, Install(c) PROVE loggers'[n] = loggers[n]
  <2>1. pc[c] = "install" /\ loggers' = [loggers EXCEPT ![Default] = hold[c]]
    BY <1>1 DEF Install
  <2>2. c = Main
    BY <1>0, <2>1 DEF Phases, UserPCs, Callers
  <2>3. n # Default
    BY <1>0, <2>1, <2>2 DEF DefaultFirst
  <2> QED BY <1>0, <2>1, <2>3
<1>2. ASSUME NEW c \in Callers, Insert(c) PROVE loggers'[n] = loggers[n]
  BY <1>0, <1>2 DEF Insert, Inserted
<1>3. ASSUME NEW c \in Callers, ClearOne(c) PROVE FALSE
  <2>1. pc[c] = "clear"
    BY <1>3 DEF ClearOne
  <2> QED BY <1>0, <2>1, Constants DEF Phases, UserPCs, Callers
<1> QED BY <1>1, <1>2, <1>3, RegistrySame

\* A thread that is registering a logger goes on to do that, or waits.
LEMMA BuildingSteps ==
  ASSUME TypeOK, IInv, [Next]_vars, NEW c \in Callers, pc[c] \in Building
  PROVE  \/ Submitted(c) \/ Install(c) \/ Exist(c) \/ Insert(c)
         \/ pc'[c] = pc[c] /\ hold'[c] = hold[c]
<1>0. /\ Phases /\ pc \in [Callers -> PCs] /\ hold \in [Callers -> Loggers \cup {None}]
      /\ mtx \in {None, Main}
  BY DEF IInv, TypeOK
<1>1. CASE FirstGetInstance \/ BuildRollLogger \/ \E u \in Users : AddCall(u)
  <2>1. PICK d \in Callers, n \in Names :
           /\ <<n, d>> \in Loggers
           /\ pc[d] = IF n = Default THEN "first" ELSE "idle"
           /\ Build(d, n)
    BY <1>1, BuildCall, Zenon
  <2> QED BY <1>0, <2>1, BuildDoes DEF Building
<1>2. ASSUME NEW d \in Callers, Inside(d), d # c PROVE pc'[c] = pc[c] /\ hold'[c] = hold[c]
  BY <1>0, <1>2 DEF Inside, Submitted, Install, Exist, Insert, Log, Drop, Join, ClearOne, Goto, Hold
<1>3. CASE Inside(c)
  BY <1>3 DEF Inside, Log, Drop, Join, ClearOne, Building
<1>4. ASSUME NEW d \in Callers, LogCall(d) PROVE pc'[c] = pc[c] /\ hold'[c] = hold[c]
  BY <1>0, <1>4 DEF LogCall, GetLogger, Goto, Hold, Building
<1>5. ASSUME NEW d \in Users, Leave(d) PROVE pc'[c] = pc[c] /\ hold'[c] = hold[c]
  BY <1>0, <1>5 DEF Leave, Goto, Building
<1>6. CASE Boot \/ ShutdownCall \/ ShutdownReturn \/ ClearSubmitter \/ DestroyPool
  BY <1>0, <1>6 DEF Boot, ShutdownCall, ShutdownBegin, ShutdownReturn, ShutdownEnd, ClearSubmitter,
     DestroyPool, MainStep, Goto, Building
<1>7. CASE Spawn
  BY <1>0, <1>7, Constants DEF Spawn, Phases, Before, Building, Callers
<1>8. CASE \/ StartWorker \/ PoolStep \/ PoolSleep
           \/ \E l \in Loggers : Worker(l)
           \/ UNCHANGED vars
  <2>1. pc' = pc /\ hold' = hold
    BY <1>8, Zenon DEF StartWorker, PoolStep, PoolSleep, Worker, WorkerSwap, WorkerFlush, WorkerExit,
       vars
  <2> QED BY <2>1
<1> QED BY <1>1, <1>2, <1>3, <1>4, <1>5, <1>6, <1>7, <1>8, StepOf

\* Shutdown is not undone.
LEMMA EndingStays == ASSUME TypeOK, IInv, [Next]_vars, Ending PROVE Ending'
<1>0. /\ Phases /\ pc \in [Callers -> PCs] /\ mtx \in {None, Main}
  BY DEF IInv, TypeOK
<1>1. mtx = Main /\ mtx' = mtx => Ending'
  BY DEF Ending
<1>2. pc[Main] \in After /\ pc'[Main] = pc[Main] => Ending'
  BY DEF Ending
<1>3. CASE FirstGetInstance \/ BuildRollLogger \/ \E u \in Users : AddCall(u)
  <2>1. PICK d \in Callers, n \in Names :
           /\ <<n, d>> \in Loggers
           /\ pc[d] = IF n = Default THEN "first" ELSE "idle"
           /\ Build(d, n)
    BY <1>3, BuildCall, Zenon
  <2>2. mtx' = mtx /\ pc'[Main] \in PCs /\ (d # Main => pc'[Main] = pc[Main])
    BY <1>0, <2>1, BuildDoes, Constants DEF PCs
  <2>3. d = Main => pc[Main] \notin After
    BY <2>1 DEF After
  <2> QED BY <1>1, <1>2, <2>2, <2>3 DEF Ending
<1>4. ASSUME NEW c \in Callers, Inside(c) PROVE Ending'
  <2>1. mtx' = mtx
    BY <1>4, Zenon DEF Inside, Submitted, Install, Exist, Insert, Log, Drop, Join, ClearOne, regVars
  <2>2. pc[Main] \in After => pc'[Main] = pc[Main]
    BY <1>0, <1>4, Constants DEF Inside, Submitted, Install, Exist, Insert, Log, Drop, Join, ClearOne,
       Goto, After
  <2> QED BY <1>1, <1>2, <2>1, <2>2 DEF Ending
<1>5. ASSUME NEW d \in Callers, LogCall(d) \/ Leave(d) PROVE Ending'
  BY <1>0, <1>5, Constants DEF LogCall, GetLogger, Leave, Goto, After, Ending, regVars
<1>6. CASE Boot \/ Spawn \/ ShutdownCall
  BY <1>0, <1>6, Constants DEF Boot, Spawn, ShutdownCall, ShutdownBegin, MainStep, Goto, Ending, Phases,
     After, regVars
<1>7. CASE ShutdownReturn \/ ClearSubmitter \/ DestroyPool
  BY <1>0, <1>7, Constants DEF ShutdownReturn, ShutdownEnd, ClearSubmitter, DestroyPool, MainStep, Goto,
     Ending, After
<1>8. CASE \/ StartWorker \/ PoolStep \/ PoolSleep
           \/ \E l \in Loggers : Worker(l)
           \/ UNCHANGED vars
  <2>1. pc' = pc /\ mtx' = mtx
    BY <1>8, Zenon DEF StartWorker, PoolStep, PoolSleep, Worker, WorkerSwap, WorkerFlush, WorkerExit,
       vars, regVars
  <2> QED BY <1>1, <1>2, <2>1 DEF Ending
<1> QED BY <1>3, <1>4, <1>5, <1>6, <1>7, <1>8, StepOf, Constants

LEMMA TakenKept == ASSUME TypeOK, IInv, [Next]_vars PROVE Taken'
<1> SUFFICES ASSUME NEW l \in Loggers, wpc'[l] # "none", ~Ending'
             PROVE  \/ loggers'[NameOf(l)] # None
                    \/ hold'[Builder(l)] = l /\ pc'[Builder(l)] \in Building
  BY DEF Taken
<1>0. /\ Taken /\ Phases /\ Holding
      /\ pc \in [Callers -> PCs] /\ mtx \in {None, Main}
      /\ hold \in [Callers -> Loggers \cup {None}]
      /\ loggers \in [Names -> Loggers \cup {None}]
      /\ wpc \in [Loggers -> {"none", "queued", "ready", "flush", "exited"}]
  BY DEF IInv, TypeOK
<1>1. ~Ending /\ mtx = None
  BY <1>0, EndingStays DEF Ending
<1>2. CASE loggers[NameOf(l)] # None
  BY <1>0, <1>1, <1>2, RegisteredStays, Constants
<1>3. CASE hold[Builder(l)] = l /\ pc[Builder(l)] \in Building
  <2> DEFINE c == Builder(l)
  <2>1. c \in Callers /\ hold[c] = l /\ l # None
    BY <1>3, Constants
  <2> HIDE DEF c
  <2>2. CASE Submitted(c)
    <3>1. hold' = hold /\ \E next \in {"install", "exist"} : pc' = [pc EXCEPT ![c] = next]
      BY <2>2 DEF Submitted, Goto, Keep
    <3> QED BY <1>0, <2>1, <3>1 DEF c, Building
  <2>3. CASE Install(c)
    <3>1. NameOf(l) = Default /\ loggers' = [loggers EXCEPT ![Default] = l]
      BY <1>0, <2>1, <2>3 DEF Install, Holding
    <3> QED BY <1>0, <2>1, <3>1, Constants
  <2>4. CASE Exist(c)
    <3>1. hold' = hold /\ loggers' = loggers
      BY <2>4, Zenon DEF Exist, regVars
    <3>2. pc' = [pc EXCEPT ![c] = IF loggers[NameOf(l)] = None THEN "insert" ELSE "drop"]
      BY <2>1, <2>4 DEF Exist, Goto
    <3> QED BY <1>0, <2>1, <3>1, <3>2 DEF c, Building
  <2>5. CASE Insert(c)
    BY <1>0, <2>1, <2>5, Constants DEF Insert, Inserted
  <2> QED BY <1>3, <2>1, <2>2, <2>3, <2>4, <2>5, BuildingSteps DEF c
<1>4. CASE wpc[l] = "none"
  <2>1. CASE FirstGetInstance \/ BuildRollLogger \/ \E u \in Users : AddCall(u)
    <3>1. PICK d \in Callers, n \in Names : <<n, d>> \in Loggers /\ Build(d, n)
      BY <2>1, BuildCall, Zenon
    <3>2. l = <<n, d>>
      BY <1>0, <1>4, <3>1, BuildDoes
    <3> QED BY <1>0, <3>1, <3>2, BuildDoes DEF Building, Builder
  <2>2. CASE StartWorker
    <3>1. tasks # <<>> /\ tasks \in Seq(Loggers) /\ wpc' = [wpc EXCEPT ![Head(tasks)] = "ready"]
      BY <2>2 DEF StartWorker, Take, TypeOK
    <3>2. wpc[Head(tasks)] = "queued"
      BY <3>1 DEF IInv, Queue
    <3> QED BY <1>0, <1>4, <3>1, <3>2
  <2>3. ASSUME NEW k \in Loggers, Worker(k) PROVE FALSE
    BY <1>0, <1>4, <2>3 DEF Worker, WorkerSwap, WorkerFlush, WorkerExit
  <2>4. wpc' # wpc
    BY <1>4
  <2>5. ASSUME NEW c \in Callers, Log(c) \/ Drop(c) PROVE wpc' = wpc
    BY <2>5, Zenon DEF Log, Drop
  <2> QED BY <2>1, <2>2, <2>3, <2>4, <2>5, WorkersSame DEF workVars
<1> QED BY <1>0, <1>1, <1>2, <1>3, <1>4 DEF Taken

LEMMA DefaultFirstKept == ASSUME TypeOK, IInv, [Next]_vars PROVE DefaultFirst'
<1> DEFINE early == \/ pc[Main] \in {"boot", "first", "install"}
                    \/ pc[Main] = "notify" /\ hold[Main] = <<Default, Main>>
<1>0. /\ DefaultFirst /\ Phases /\ Holding /\ pc \in [Callers -> PCs]
      /\ hold \in [Callers -> Loggers \cup {None}]
      /\ loggers \in [Names -> Loggers \cup {None}]
  BY DEF IInv, TypeOK
<1>1. ASSUME early' PROVE early
  <2>1. CASE pc'[Main] = pc[Main] /\ hold'[Main] = hold[Main]
    BY <1>1, <2>1
  <2>2. CASE FirstGetInstance \/ BuildRollLogger \/ \E u \in Users : AddCall(u)
    <3>1. PICK d \in Callers, n \in Names :
             /\ <<n, d>> \in Loggers
             /\ pc[d] = IF n = Default THEN "first" ELSE "idle"
             /\ Build(d, n)
      BY <2>2, BuildCall, Zenon
    <3> QED BY <1>0, <1>1, <3>1, BuildDoes, Constants
  <2>3. CASE Inside(Main)
    <3>1. CASE Submitted(Main)
      <4>1. /\ pc[Main] = "notify" /\ hold' = hold /\ pc' = [pc EXCEPT ![Main] = Keep(hold[Main])]
        BY <3>1, Zenon DEF Submitted, Goto
      <4>2. hold[Main] \in Loggers /\ Builder(hold[Main]) = Main
        BY <1>0, <4>1, Constants DEF Holding, Building
      <4>3. NameOf(hold[Main]) = Default
        BY <1>0, <1>1, <4>1, Constants DEF Keep
      <4> QED BY <4>1, <4>2, <4>3, Constants
    <3>2. CASE ~Submitted(Main)
      BY <1>0, <1>1, <2>3, <3>2, Constants DEF Inside, Install, Exist, Insert, Log, Drop, Join, ClearOne,
         Goto, Resume
    <3> QED BY <3>1, <3>2
  <2>4. ASSUME NEW c \in Users, Inside(c) \/ LogCall(c) \/ Leave(c) PROVE early
    <3>1. c # Main /\ c \in Callers
      BY <2>4, Constants
    <3>2. pc'[Main] = pc[Main] /\ hold'[Main] = hold[Main]
      BY <1>0, <2>4, <3>1, Constants DEF Inside, Submitted, Install, Exist, Insert, Log, Drop, Join,
         ClearOne, LogCall, GetLogger, Leave, Goto, Hold
    <3> QED BY <2>1, <3>2
  <2>5. CASE LogCall(Main)
    BY <1>0, <1>1, <2>5, Constants DEF LogCall, GetLogger, Goto
  <2>6. CASE Boot
    BY <2>6 DEF Boot, MainStep
  <2>7. CASE Spawn \/ ShutdownCall \/ ShutdownReturn \/ ClearSubmitter \/ DestroyPool
    BY <1>0, <1>1, <2>7, Constants DEF Spawn, ShutdownCall, ShutdownBegin, ShutdownReturn, ShutdownEnd,
       ClearSubmitter, DestroyPool, MainStep, Goto
  <2>8. CASE \/ StartWorker \/ PoolStep \/ PoolSleep
             \/ \E l \in Loggers : Worker(l)
             \/ UNCHANGED vars
    <3>1. pc' = pc /\ hold' = hold
      BY <2>8, Zenon DEF StartWorker, PoolStep, PoolSleep, Worker, WorkerSwap, WorkerFlush, WorkerExit,
         vars
    <3> QED BY <2>1, <3>1
  <2> QED BY <2>2, <2>3, <2>4, <2>5, <2>6, <2>7, <2>8, StepOf, Zenon DEF Callers
<1>2. early => loggers[Default] = None
  BY <1>0 DEF DefaultFirst
<1>3. ASSUME NEW c \in Callers, Install(c) PROVE ~early'
  BY <1>0, <1>3, Constants DEF Install, Goto, Phases, UserPCs, Callers
<1>4. ASSUME NEW c \in Callers, Insert(c) PROVE loggers'[Default] = loggers[Default]
  BY <1>0, <1>4, Constants DEF Insert, Inserted, Holding, Building
<1>5. ASSUME NEW c \in Callers, ClearOne(c) PROVE loggers'[Default] \in {loggers[Default], None}
  BY <1>0, <1>5, Constants DEF ClearOne
<1> HIDE DEF early
<1>6. early' => loggers'[Default] = None
  BY <1>1, <1>2, <1>3, <1>4, <1>5, RegistrySame
<1> QED BY <1>6 DEF DefaultFirst, early

\* Whoever has a logger in hand after a step had it before, has just built it,
\* or has it from the registry; and who waits for its worker goes on waiting.
LEMMA HandStep ==
  ASSUME TypeOK, IInv, [Next]_vars, NEW c \in Callers, NEW l \in Loggers, hold'[c] = l
  PROVE  \/ hold[c] = l /\ (pc[c] = "join" => pc'[c] = "join")
         \/ wpc[l] = "none"
         \/ Registered(l)
<1>0. /\ Named /\ Phases /\ pc \in [Callers -> PCs] /\ hold \in [Callers -> Loggers \cup {None}]
      /\ mtx \in {None, Main}
      /\ loggers \in [Names -> Loggers \cup {None}] /\ default \in Loggers \cup {None}
  BY DEF IInv, TypeOK
<1>1. CASE FirstGetInstance \/ BuildRollLogger \/ \E u \in Users : AddCall(u)
  <2>1. PICK d \in Callers, n \in Names :
           /\ <<n, d>> \in Loggers
           /\ pc[d] = IF n = Default THEN "first" ELSE "idle"
           /\ Build(d, n)
    BY <1>1, BuildCall, Zenon
  <2> QED BY <1>0, <2>1, BuildDoes
<1>2. ASSUME NEW d \in Callers, Inside(d), d # c PROVE pc'[c] = pc[c] /\ hold'[c] = hold[c]
  BY <1>0, <1>2 DEF Inside, Submitted, Install, Exist, Insert, Log, Drop, Join, ClearOne, Goto, Hold
<1>3. CASE Inside(c) /\ ~ClearOne(c)
  BY <1>0, <1>3, Constants DEF Inside, Submitted, Install, Exist, Insert, Log, Drop, Join, Goto, Hold
<1>4. CASE ClearOne(c)
  BY <1>0, <1>4, Constants DEF ClearOne, Hold, Named, Registered
<1>5. ASSUME NEW d \in Callers, LogCall(d)
      PROVE  (hold[c] = l /\ (pc[c] = "join" => pc'[c] = "join")) \/ Registered(l)
  <2>1. PICK n \in Known(d) : GetLogger(d, n)
    BY <1>5, Zenon DEF LogCall
  <2>2. n \in Names /\ pc[d] = "idle"
    BY <1>5, <2>1, RegisteredWhenKnown DEF LogCall
  <2> QED BY <1>0, <2>1, <2>2, Constants DEF GetLogger, Hold, Goto, Named, Registered
<1>6. ASSUME NEW d \in Users, Leave(d) PROVE hold[c] = l /\ (pc[c] = "join" => pc'[c] = "join")
  BY <1>0, <1>6 DEF Leave, Goto
<1>7. CASE Boot \/ ShutdownCall \/ ShutdownReturn \/ ClearSubmitter \/ DestroyPool
  BY <1>0, <1>7 DEF Boot, ShutdownCall, ShutdownBegin, ShutdownReturn, ShutdownEnd, ClearSubmitter,
     DestroyPool, MainStep, Goto
<1>8. CASE Spawn
  BY <1>0, <1>8, Constants DEF Spawn, Phases, Before, Building, Callers
<1>9. CASE \/ StartWorker \/ PoolStep \/ PoolSleep
           \/ \E k \in Loggers : Worker(k)
           \/ UNCHANGED vars
  <2>1. pc' = pc /\ hold' = hold
    BY <1>9, Zenon DEF StartWorker, PoolStep, PoolSleep, Worker, WorkerSwap, WorkerFlush, WorkerExit,
       vars
  <2> QED BY <2>1
<1> QED BY <1>1, <1>2, <1>3, <1>4, <1>5, <1>6, <1>7, <1>8, <1>9, StepOf

\* A logger is registered by a thread that has it in hand and is not about to
\* destroy it.
LEMMA RegisteredStep ==
  ASSUME TypeOK, IInv, [Next]_vars, NEW l \in Loggers, Registered(l)', ~Registered(l)
  PROVE  \E c \in Callers : hold[c] = l /\ pc[c] # "join"
<1>0. /\ loggers \in [Names -> Loggers \cup {None}] /\ Holding
      /\ hold \in [Callers -> Loggers \cup {None}]
  BY DEF IInv, TypeOK
<1>1. ASSUME NEW c \in Callers, Install(c) PROVE hold[c] = l /\ pc[c] # "join"
  BY <1>0, <1>1, Constants DEF Install, Registered
<1>2. ASSUME NEW c \in Callers, Insert(c) PROVE hold[c] = l /\ pc[c] # "join"
  BY <1>0, <1>2, Constants DEF Insert, Inserted, Registered
<1>3. ASSUME NEW c \in Callers, ClearOne(c) PROVE FALSE
  BY <1>0, <1>3, Constants DEF ClearOne, Registered
<1>4. CASE UNCHANGED <<loggers, default>>
  BY <1>4 DEF Registered
<1> QED BY <1>1, <1>2, <1>3, <1>4, RegistrySame

\* Only a Drop by the last owner stops a logger.
LEMMA StoppedStep ==
  ASSUME TypeOK, [Next]_vars, NEW l \in Loggers
  PROVE  /\ stopping[l] => stopping'[l]
         /\ stopping'[l] /\ ~stopping[l] =>
              \E c \in Callers : /\ Drop(c) /\ hold[c] = l /\ ~OwnedElsewhere(c, l)
                                 /\ hold' = hold /\ pc' = [pc EXCEPT ![c] = "join"]
<1>0. stopping \in [Loggers -> BOOLEAN]
  BY DEF TypeOK
<1>1. CASE stopping' = stopping
  BY <1>1
<1>2. ASSUME NEW c \in Callers, Drop(c), stopping' # stopping
      PROVE  /\ stopping[l] => stopping'[l]
             /\ stopping'[l] /\ ~stopping[l] =>
                  /\ hold[c] = l /\ ~OwnedElsewhere(c, l)
                  /\ hold' = hold /\ pc' = [pc EXCEPT ![c] = "join"]
  <2>1. /\ stopping' = [stopping EXCEPT ![hold[c]] = TRUE] /\ ~OwnedElsewhere(c, hold[c])
        /\ hold' = hold /\ pc' = [pc EXCEPT ![c] = "join"]
    BY <1>2, Zenon DEF Drop, Goto
  <2>2. stopping'[l] = IF hold[c] = l THEN TRUE ELSE stopping[l]
    BY <1>0, <2>1
  <2> QED BY <2>1, <2>2
<1>3. ASSUME NEW c \in Callers, Log(c) PROVE stopping' = stopping
  BY <1>3, Zenon DEF Log
<1>4. ASSUME NEW k \in Loggers, Worker(k) PROVE stopping' = stopping
  BY <1>4, Zenon DEF Worker, WorkerSwap, WorkerFlush, WorkerExit
<1>5. CASE FirstGetInstance \/ BuildRollLogger \/ \E u \in Users : AddCall(u)
  <2>1. PICK c \in Callers, n \in Names : Build(c, n)
    BY <1>5, BuildCall, Zenon
  <2>2. stopping' = stopping
    BY <2>1, BuildDoes, Zenon
  <2> QED BY <1>1, <2>2
<1>6. StartWorker => stopping' = stopping
  BY Zenon DEF StartWorker
<1> QED BY <1>1, <1>2, <1>3, <1>4, <1>5, <1>6, WorkersSame, Zenon DEF workVars

LEMMA GoneKept == ASSUME TypeOK, IInv, [Next]_vars PROVE Gone'
<1>0. /\ Gone /\ Holding
      /\ pc \in [Callers -> PCs] /\ hold \in [Callers -> Loggers \cup {None}]
      /\ wpc \in [Loggers -> {"none", "queued", "ready", "flush", "exited"}]
  BY DEF IInv, TypeOK
<1>1. ASSUME NEW l \in Loggers, wpc'[l] = "exited" PROVE stopping'[l]
  <2>1. wpc[l] = "exited" \/ WorkerExit(l)
    <3>1. CASE FirstGetInstance \/ BuildRollLogger \/ \E u \in Users : AddCall(u)
      <4>1. PICK c \in Callers, n \in Names : <<n, c>> \in Loggers /\ Build(c, n)
        BY <3>1, BuildCall, Zenon
      <4> QED BY <1>0, <1>1, <4>1, BuildDoes
    <3>2. ASSUME NEW k \in Loggers, Worker(k) PROVE wpc[l] = "exited" \/ WorkerExit(l)
      BY <1>0, <1>1, <3>2 DEF Worker, WorkerSwap, WorkerFlush, WorkerExit
    <3>3. CASE StartWorker
      BY <1>0, <1>1, <3>3 DEF StartWorker
    <3>4. ASSUME NEW c \in Callers, Log(c) \/ Drop(c) PROVE wpc' = wpc
      BY <3>4, Zenon DEF Log, Drop
    <3>5. CASE wpc' = wpc
      BY <1>1, <3>5
    <3> QED BY <3>1, <3>2, <3>3, <3>4, <3>5, WorkersSame DEF workVars
  <2> QED BY <1>0, <2>1, StoppedStep DEF Gone, WorkerExit
<1>2. ASSUME NEW l \in Loggers, stopping[l]
      PROVE  ~Registered(l)' /\ wpc'[l] # "none" /\ \A c \in Callers : hold'[c] = l => pc'[c] = "join"
  <2>1. ~Registered(l) /\ wpc[l] # "none" /\ \A c \in Callers : hold[c] = l => pc[c] = "join"
    BY <1>0, <1>2 DEF Gone
  <2> QED BY <2>1, RegisteredStep, BuiltStays, HandStep
<1>3. ASSUME NEW l \in Loggers, stopping'[l], ~stopping[l]
      PROVE  ~Registered(l)' /\ wpc'[l] # "none" /\ \A c \in Callers : hold'[c] = l => pc'[c] = "join"
  <2>1. PICK c \in Callers : /\ Drop(c) /\ hold[c] = l /\ ~OwnedElsewhere(c, l)
                             /\ hold' = hold /\ pc' = [pc EXCEPT ![c] = "join"]
    BY <1>3, StoppedStep
  <2>2. ~Registered(l) /\ \A d \in Callers \ {c} : hold[d] # l
    BY <2>1 DEF OwnedElsewhere
  <2>3. ~Registered(l)'
    BY <2>1, <2>2 DEF Drop, Registered, regVars
  <2>4. wpc'[l] # "none"
    BY <1>0, <2>1, BuiltStays, Constants DEF Holding
  <2> QED BY <1>0, <2>1, <2>2, <2>3, <2>4
<1> QED BY <1>1, <1>2, <1>3 DEF Gone

\* The invariant behind the theorems that follow.
THEOREM LogsSafely == Spec => []IInv
<1>1. TypeOK /\ IInv /\ [Next]_vars => IInv'
  BY PhasesKept, PreparedKept, HoldingKept, NamedKept, DefaultFirstKept, TakenKept, GoneKept, QueueKept,
     FlushingKept DEF IInv
<1> QED BY <1>1, StartsWell, TypeCorrect, PTL DEF Spec

\* Of two loggers built with one name the first that is registered stays, for
\* any number of threads that race to register it.
THEOREM FirstStays == Spec => FirstLoggerStays
<1>1. TypeOK /\ IInv /\ [Next]_vars
        => [mtx = None => \A n \in Names : loggers[n] # None => loggers'[n] = loggers[n]]_vars
  BY RegisteredStays
<1> QED BY <1>1, TypeCorrect, LogsSafely, PTL DEF Spec, FirstLoggerStays

-----------------------------------------------------------------------------
\* Only finitely many threads are ever between the two halves of enqueue.
LEMMA FewNotifying == IsFiniteSet(Notifying) /\ Cardinality(Notifying) \in Nat
<1>1. Notifying \subseteq Callers
  BY DEF Notifying
<1> QED BY <1>1, Constants, FS_Subset, FS_CardinalityType

\* The same of the threads that are there after a step.
LEMMA FewNotifyingThen == IsFiniteSet(Notifying') /\ Cardinality(Notifying') \in Nat
<1>1. Notifying' \subseteq Callers
  BY DEF Notifying
<1> QED BY <1>1, Constants, FS_Subset, FS_CardinalityType

\* enqueue and its notify_one are two steps, and a thread that goes to sleep
\* between them is woken by the second: while a thread sleeps every task has a
\* thread or a notification on the way to it, for any number of each.
THEOREM NothingStranded == Spec => []NoStrandedTask
<1>1. Init => NoStrandedTask
  BY DEF Init, ManagerInit, PoolInit, NoStrandedTask
<1>2. TypeOK /\ IInv /\ NoStrandedTask /\ [Next]_vars => NoStrandedTask'
  <2> SUFFICES ASSUME TypeOK, IInv, NoStrandedTask, [Next]_vars, sleeping' > 0
               PROVE  Len(tasks') <= locking' + Cardinality(Notifying')
    BY DEF NoStrandedTask
  <2> DEFINE n == Cardinality(Notifying)
             m == Cardinality(Notifying')
  <2>0. /\ tasks \in Seq(Loggers) /\ Len(tasks) \in Nat
        /\ locking \in Nat /\ sleeping \in Nat /\ n \in Nat /\ m \in Nat
        /\ pc \in [Callers -> PCs]
        /\ sleeping > 0 => Len(tasks) <= locking + n
    BY FewNotifying, FewNotifyingThen DEF TypeOK, NoStrandedTask
  <2> HIDE DEF n, m
  <2>1. ASSUME NEW c \in Callers, pc[c] # "notify", NEW next \in PCs, pc' = [pc EXCEPT ![c] = next]
        PROVE  m = IF next = "notify" THEN n + 1 ELSE n
    <3>1. Notifying' = IF next = "notify" THEN Notifying \cup {c} ELSE Notifying
      BY <2>0, <2>1 DEF Notifying
    <3>2. c \notin Notifying
      BY <2>1 DEF Notifying
    <3> QED BY <3>1, <3>2, FewNotifying, FS_AddElement DEF n, m
  <2>2. ASSUME NEW c \in Callers, pc[c] = "notify", NEW next \in PCs \ {"notify"},
               pc' = [pc EXCEPT ![c] = next]
        PROVE  m = n - 1
    <3>1. Notifying' = Notifying \ {c}
      BY <2>0, <2>2 DEF Notifying
    <3>2. c \in Notifying
      BY <2>2 DEF Notifying
    <3> QED BY <3>1, <3>2, FewNotifying, FS_RemoveElement DEF n, m
  <2>3. CASE FirstGetInstance \/ BuildRollLogger \/ \E u \in Users : AddCall(u)
    <3>1. PICK c \in Callers, k \in Names :
             /\ <<k, c>> \in Loggers
             /\ pc[c] = IF k = Default THEN "first" ELSE "idle"
             /\ Build(c, k)
      BY <2>3, BuildCall, Zenon
    <3>2. pc[c] # "notify" /\ locking' = locking /\ sleeping' = sleeping
      BY <3>1, BuildDoes
    <3>3. CASE tasks' = tasks /\ \E next \in {"install", "exist"} : pc' = [pc EXCEPT ![c] = next]
      BY <2>0, <2>1, <3>2, <3>3 DEF PCs, m
    <3>4. CASE tasks' = Append(tasks, <<k, c>>) /\ pc' = [pc EXCEPT ![c] = "notify"]
      <4>1. m = n + 1
        BY <2>1, <3>2, <3>4 DEF PCs
      <4>2. Len(tasks') = Len(tasks) + 1
        BY <2>0, <3>1, <3>4
      <4> QED BY <2>0, <3>2, <4>1, <4>2 DEF m
    <3> QED BY <3>1, <3>3, <3>4, BuildDoes
  <2>4. ASSUME NEW c \in Callers, Submitted(c)
        PROVE  Len(tasks') <= locking' + Cardinality(Notifying')
    <3>1. /\ pc[c] = "notify" /\ pc' = [pc EXCEPT ![c] = Keep(hold[c])]
          /\ Keep(hold[c]) \in PCs \ {"notify"}
      BY <2>4 DEF Submitted, Goto, Keep, PCs
    <3>2. m = n - 1
      BY <2>2, <3>1
    <3>3. tasks' = tasks /\ sleeping > 0 /\ locking' = locking + 1
      BY <2>0, <2>4 DEF Submitted, NotifyOne, Wake
    <3> QED BY <2>0, <3>2, <3>3 DEF m
  <2>5. CASE pc' = pc /\ (StartWorker \/ PoolStep \/ PoolSleep)
    <3>1. m = n
      BY <2>5 DEF m, n, Notifying
    <3>2. CASE StartWorker
      <4>1. /\ tasks # <<>> /\ tasks' = Tail(tasks) /\ locking > 0 /\ locking' = locking - 1
            /\ sleeping' = sleeping
        BY <3>2 DEF StartWorker, Take
      <4>2. Len(tasks') = Len(tasks) - 1
        BY <2>0, <4>1
      <4> QED BY <2>0, <3>1, <4>1, <4>2 DEF m
    <3>3. CASE PoolStep
      BY <2>0, <3>1, <3>3 DEF m, PoolStep, PoolExit, WorkerReturned, Done
    <3>4. CASE PoolSleep
      BY <2>0, <3>1, <3>4 DEF m, PoolSleep, PoolWait, PoolSpurious
    <3> QED BY <2>5, <3>2, <3>3, <3>4
  <2>6. CASE DestroyPool
    <3>1. /\ pc[Main] # "notify"
          /\ \E next \in PCs \ {"notify"} : pc' = [pc EXCEPT ![Main] = next]
      BY <2>6 DEF DestroyPool, MainStep, Goto, PCs, Steps
    <3>2. m = n
      BY <2>1, <3>1, Constants
    <3>3. tasks' = tasks /\ locking' = locking /\ sleeping' = sleeping
      BY <2>0, <2>6 DEF DestroyPool, PoolSetStop, PoolNotifyAll, Wake, poolVars
    <3> QED BY <2>0, <3>2, <3>3 DEF m
  <2>7. CASE UNCHANGED poolVars /\ m = n
    BY <2>0, <2>7 DEF m, poolVars
  <2>8. ASSUME UNCHANGED poolVars,
               NEW c \in Callers, pc[c] # "notify",
               \E next \in PCs \ {"notify"} : pc' = [pc EXCEPT ![c] = next]
        PROVE  Len(tasks') <= locking' + Cardinality(Notifying')
    BY <2>1, <2>7, <2>8
  <2>9. ASSUME NEW c \in Callers, Inside(c), ~Submitted(c)
        PROVE  Len(tasks') <= locking' + Cardinality(Notifying')
    <3>1. UNCHANGED poolVars
      BY <2>9, Zenon DEF Inside, Install, Exist, Insert, Log, Drop, Join, ClearOne
    <3>2. pc[c] # "notify" /\ \E next \in PCs \ {"notify"} : pc' = [pc EXCEPT ![c] = next]
      BY <2>9 DEF Inside, Install, Exist, Insert, Log, Drop, Join, ClearOne, Goto, PCs, Resume
    <3> QED BY <2>8, <3>1, <3>2
  <2>10. CASE Boot \/ ShutdownCall \/ ShutdownReturn \/ ClearSubmitter
    <3>1. UNCHANGED poolVars
      BY <2>10, Zenon DEF Boot, ShutdownCall, ShutdownBegin, ShutdownReturn, ShutdownEnd, ClearSubmitter
    <3>2. pc[Main] # "notify" /\ \E next \in PCs \ {"notify"} : pc' = [pc EXCEPT ![Main] = next]
      BY <2>10 DEF Boot, ShutdownCall, ShutdownBegin, ShutdownReturn, ShutdownEnd, ClearSubmitter,
         MainStep, Goto, PCs, Steps
    <3> QED BY <2>8, <3>1, <3>2, Constants
  <2>11. ASSUME NEW c \in Callers, LogCall(c) \/ Leave(c)
         PROVE  Len(tasks') <= locking' + Cardinality(Notifying')
    <3>1. UNCHANGED poolVars
      BY <2>11, Zenon DEF LogCall, GetLogger, Leave
    <3>2. pc[c] # "notify" /\ \E next \in PCs \ {"notify"} : pc' = [pc EXCEPT ![c] = next]
      BY <2>11 DEF LogCall, GetLogger, Leave, Goto, PCs, Steps
    <3> QED BY <2>8, <3>1, <3>2
  <2>12. CASE \E l \in Loggers : Worker(l)
    <3>1. UNCHANGED <<pc, poolVars>>
      BY <2>12, Zenon DEF Worker, WorkerSwap, WorkerFlush, WorkerExit
    <3> QED BY <2>7, <3>1 DEF m, n, Notifying
  <2>13. CASE UNCHANGED vars
    BY <2>7, <2>13 DEF m, n, Notifying, vars
  <2>14. CASE Spawn
    <3>1. UNCHANGED poolVars /\ pc' = [c \in Callers |-> IF c = Main THEN "spawned" ELSE "idle"]
      BY <2>14 DEF Spawn
    <3>2. \A c \in Callers : pc[c] # "notify" /\ pc'[c] # "notify"
      BY <2>14, <3>1, Constants DEF Spawn, IInv, Phases, Before, Building, Callers, TypeOK
    <3>3. Notifying = {} /\ Notifying' = {}
      BY <3>2 DEF Notifying
    <3> QED BY <2>7, <3>1, <3>3 DEF m, n
  <2>15. StartWorker \/ PoolStep \/ PoolSleep => pc' = pc
    BY Zenon DEF StartWorker, PoolStep, PoolSleep
  <2>16. \A u \in Users : Leave(u) => u \in Callers
    BY Constants
  <2> QED BY <2>3, <2>4, <2>5, <2>6, <2>9, <2>10, <2>11, <2>12, <2>13, <2>14, <2>15, <2>16, StepOf, Zenon
<1> QED BY <1>1, <1>2, TypeCorrect, LogsSafely, PTL DEF Spec

\* GetLogger never returns a null pointer to a thread: of any number of them,
\* each logs to what it or main has registered, and Shutdown waits for all.
THEOREM NullNeverSeen == Spec => []NeverNull
<1>1. IInv => NeverNull
  BY DEF IInv, Holding, NeverNull
<1> QED BY <1>1, LogsSafely, PTL
-----------------------------------------------------------------------------
\* Every step is, for each logger, a step of its channel or none.
LEMMA ChannelStep ==
  ASSUME TypeOK, IInv, [Next]_vars, NEW l \in Loggers
  PROVE  Chan(l)!ChanNext \/ UNCHANGED Chan(l)!chanVars
<1>0. /\ Gone /\ Holding /\ Queue /\ Flushing /\ WorkersOK
      /\ hold \in [Callers -> Loggers \cup {None}]
  BY TypeParts DEF IInv, CallersOK
<1>1. ASSUME accepted' = accepted, delivered' = delivered, (wpc'[l] = "exited") = (wpc[l] = "exited")
      PROVE  UNCHANGED Chan(l)!chanVars
  BY <1>1 DEF Chan!chanVars
<1>2. CASE FirstGetInstance \/ BuildRollLogger \/ \E u \in Users : AddCall(u)
  <2>1. PICK c \in Callers, n \in Names : <<n, c>> \in Loggers /\ Build(c, n)
    BY <1>2, BuildCall, Zenon
  <2>2. (wpc'[l] = "exited") = (wpc[l] = "exited")
    BY <1>0, <2>1, BuildDoes DEF WorkersOK
  <2> QED BY <1>1, <2>1, <2>2, BuildDoes
<1>3. ASSUME NEW c \in Callers, Log(c) PROVE Chan(l)!ChanNext \/ UNCHANGED Chan(l)!chanVars
  <2>1. /\ pc[c] = "log" /\ hold[c] \in Loggers /\ wpc' = wpc /\ delivered' = delivered
        /\ accepted' = [accepted EXCEPT ![hold[c]] = Append(@, c)]
    BY <1>0, <1>3 DEF Log
  <2>2. wpc[hold[c]] # "exited"
    BY <1>0, <2>1 DEF Gone
  <2>3. CASE l = hold[c]
    <3>1. accepted'[l] = Append(accepted[l], c)
      BY <1>0, <2>1, <2>3 DEF WorkersOK
    <3> QED BY <2>1, <2>2, <2>3, <3>1 DEF Chan!ChanNext, Chan!Accept
  <2>4. CASE l # hold[c]
    <3>1. accepted'[l] = accepted[l]
      BY <1>0, <2>1, <2>4 DEF WorkersOK
    <3> QED BY <2>1, <3>1 DEF Chan!chanVars
  <2> QED BY <2>3, <2>4
<1>4. ASSUME NEW c \in Callers, Drop(c) PROVE UNCHANGED Chan(l)!chanVars
  BY <1>1, <1>4 DEF Drop
<1>5. CASE StartWorker
  <2>1. tasks # <<>> /\ tasks \in Seq(Loggers) /\ wpc' = [wpc EXCEPT ![Head(tasks)] = "ready"]
    BY <1>5 DEF StartWorker, Take, TypeOK
  <2>2. wpc[Head(tasks)] = "queued"
    BY <1>0, <2>1 DEF Queue
  <2> QED BY <1>0, <1>1, <1>5, <2>1, <2>2 DEF StartWorker, WorkersOK
<1>6. ASSUME NEW k \in Loggers, WorkerSwap(k) PROVE UNCHANGED Chan(l)!chanVars
  BY <1>0, <1>1, <1>6 DEF WorkerSwap, WorkersOK
<1>7. ASSUME NEW k \in Loggers, WorkerFlush(k) PROVE Chan(l)!ChanNext \/ UNCHANGED Chan(l)!chanVars
  <2>1. /\ wpc[k] = "flush" /\ accepted' = accepted
        /\ delivered' = [delivered EXCEPT ![k] = @ + batch[k]]
        /\ wpc' = [wpc EXCEPT ![k] = "ready"]
    BY <1>7 DEF WorkerFlush
  <2>2. (wpc'[l] = "exited") = (wpc[l] = "exited")
    BY <1>0, <2>1 DEF WorkersOK
  <2>3. CASE l = k
    <3>1. /\ delivered'[l] = delivered[l] + batch[l] /\ batch[l] > 0
          /\ delivered[l] \in Nat /\ batch[l] \in Nat /\ Len(accepted[l]) \in Nat
          /\ delivered[l] + batch[l] <= Len(accepted[l])
      BY <1>0, <2>1, <2>3 DEF WorkersOK, Flushing
    <3> QED BY <2>1, <2>2, <3>1 DEF Chan!ChanNext, Chan!Deliver
  <2>4. CASE l # k
    <3>1. delivered'[l] = delivered[l]
      BY <1>0, <2>1, <2>4 DEF WorkersOK
    <3> QED BY <2>1, <2>2, <3>1 DEF Chan!chanVars
  <2> QED BY <2>3, <2>4
<1>8. ASSUME NEW k \in Loggers, WorkerExit(k) PROVE Chan(l)!ChanNext \/ UNCHANGED Chan(l)!chanVars
  <2>1. /\ wpc[k] = "ready" /\ delivered[k] = Len(accepted[k])
        /\ accepted' = accepted /\ delivered' = delivered
        /\ wpc' = [wpc EXCEPT ![k] = "exited"]
    BY <1>8 DEF WorkerExit
  <2>2. CASE l = k
    <3>1. wpc[l] # "exited" /\ wpc'[l] = "exited"
      BY <1>0, <2>1, <2>2 DEF WorkersOK
    <3> QED BY <2>1, <2>2, <3>1 DEF Chan!ChanNext, Chan!Close
  <2>3. CASE l # k
    BY <1>0, <1>1, <2>1, <2>3 DEF WorkersOK
  <2> QED BY <2>2, <2>3
<1>9. CASE UNCHANGED workVars
  BY <1>1, <1>9 DEF workVars
<1> QED BY <1>2, <1>3, <1>4, <1>5, <1>6, <1>7, <1>8, <1>9, WorkersSame DEF Worker

\* Every logger is a log channel, for any number of loggers and of threads that
\* register, share, log to and drop them: no message is taken after the worker
\* left, which it does with nothing left to write.
THEOREM LoggersAreChannels == Spec => ImplementsChannels
<1>1. Init => \A l \in Loggers : Chan(l)!ChanInit
  BY DEF Init, ManagerInit, Chan!ChanInit
<1>2. TypeOK /\ IInv /\ [Next]_vars
        => [\A l \in Loggers : Chan(l)!ChanNext \/ UNCHANGED Chan(l)!chanVars]_vars
  BY ChannelStep
<1> QED BY <1>1, <1>2, TypeCorrect, LogsSafely, PTL DEF Spec, ImplementsChannels
=============================================================================
