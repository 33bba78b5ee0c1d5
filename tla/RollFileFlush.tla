---------------------------- MODULE RollFileFlush ----------------------------
(***************************************************************************)
(* The rolling log files of one logger (LogFlush.hpp).  The worker thread  *)
(* hands over one batch at a time; a file is closed for a new one when the *)
(* batch would make it too large or the day has changed, and then old      *)
(* files are removed, by age and by number.  Time passes between any two   *)
(* steps.  What is written is in the file at once (flush_log = 2).         *)
(***************************************************************************)
EXTENDS Naturals, FiniteSets

CONSTANTS
  Lens,       \* sizes of batches
  MaxSize,    \* max_size_
  MaxCount,   \* max_count_, 0 to keep any number
  MaxAge,     \* max_age_days_ in seconds, 0 to keep for any time
  DayLength,  \* seconds in a day
  MaxClock,   \* bound: the last second
  MaxSeq,     \* bound on cnt_
  MaxStarts,  \* bound on the processes, one after the other
  Closed      \* fs_ is NULL

ASSUME RollAssumption ==
  /\ Lens \subseteq Nat \ {0}
  /\ {MaxSize, MaxCount, MaxAge, MaxClock} \subseteq Nat
  /\ {DayLength, MaxSeq, MaxStarts} \subseteq Nat \ {0}
  /\ Closed \notin Nat \X Nat

VARIABLES
  files,    \* the log files: a function on some of Names
  fs,       \* the name of the open file, which may have been removed
  curSize,  \* cur_size_
  curDay,   \* cur_day_
  cnt,      \* cnt_
  flush,    \* the step Flush is at, its batch, and the day it read
  up,       \* the process runs
  process,  \* how many there have been
  clock,    \* seconds
  unswept   \* files opened since old files were last removed

vars == <<files, fs, curSize, curDay, cnt, flush, up, process, clock, unswept>>

\* CreateFilename: the second the file was opened in, and cnt_.
Names == (0 .. MaxClock) \X (1 .. MaxSeq)

Day(t) == t \div DayLength

Resting == [pc |-> "idle", len |-> 0, day |-> 0]

NewFile == [size |-> 0, mtime |-> clock, by |-> process, shared |-> FALSE, batches |-> 0, days |-> {}]

\* The constructor.  The files are there from earlier processes.
Fresh == fs' = Closed /\ curSize' = 0 /\ curDay' = 0 /\ cnt' = 1 /\ flush' = Resting

Init ==
  /\ files = <<>>
  /\ fs = Closed
  /\ curSize = 0
  /\ curDay = 0
  /\ cnt = 1
  /\ flush = Resting
  /\ up = TRUE
  /\ process = 1
  /\ clock = 0
  /\ unswept = 0
-----------------------------------------------------------------------------
At(pc) == up /\ flush.pc = pc

Goto(pc) == flush' = [flush EXCEPT !.pc = pc]

\* Fault: forgets the date.
MustRollBySize(len) == fs = Closed \/ curSize + len > MaxSize
\* Fault: compares the size without the batch.
MustRollLate(len) == fs = Closed \/ curSize > MaxSize \/ Day(clock) # curDay
MustRoll(len) == fs = Closed \/ curSize + len > MaxSize \/ Day(clock) # curDay

\* Fault: the old file is left open.
FlushBeginLeaking(len) ==
  /\ At("idle")
  /\ flush' = [pc |-> IF MustRoll(len) THEN "open" ELSE "write",
               len |-> len, day |-> Day(clock)]
  /\ UNCHANGED <<files, fs, curSize, curDay, cnt, up, process, clock, unswept>>

\* Flush up to the condition of InitLogFile; the old file is closed.
FlushBegin(len) ==
  /\ At("idle")
  /\ flush' = [pc |-> IF MustRoll(len) THEN "open" ELSE "write",
               len |-> len, day |-> Day(clock)]
  /\ fs' = IF MustRoll(len) THEN Closed ELSE fs
  /\ UNCHANGED <<files, curSize, curDay, cnt, up, process, clock, unswept>>

\* fopen appends to a file that is there.
Opened(f) ==
  [g \in DOMAIN files \cup {f} |->
     IF g \notin DOMAIN files THEN NewFile
     ELSE IF g = f /\ files[g].by # process THEN [files[g] EXCEPT !.shared = TRUE]
     ELSE files[g]]

\* A new file; or fopen fails, and InitLogFile returns without one.
Open ==
  /\ At("open")
  /\ cnt < MaxSeq
  /\ cnt' = cnt + 1
  /\ \/ /\ files' = Opened(<<clock, cnt>>)
        /\ fs' = <<clock, cnt>>
        /\ curSize' = 0
        /\ curDay' = flush.day
        /\ Goto("clean")
        /\ unswept' = unswept + 1
     \/ fs' = Closed /\ Goto("write") /\ UNCHANGED <<files, curSize, curDay, unswept>>
  /\ UNCHANGED <<up, process, clock>>
-----------------------------------------------------------------------------
Aged == {f \in DOMAIN files : MaxAge > 0 /\ clock - files[f].mtime > MaxAge}

\* Fault: one file too many is kept.
SurplusButOne ==
  IF MaxCount = 0 \/ Cardinality(DOMAIN files) <= MaxCount + 1 THEN 0
  ELSE Cardinality(DOMAIN files) - (MaxCount + 1)
\* The number of files over max_count_, aged ones among them.
Surplus ==
  IF MaxCount = 0 \/ Cardinality(DOMAIN files) <= MaxCount THEN 0
  ELSE Cardinality(DOMAIN files) - MaxCount

\* Fault: sorts the wrong way.
Newest == {old \in SUBSET DOMAIN files :
  /\ Cardinality(old) = Surplus
  /\ \A f \in old, g \in DOMAIN files \ old : files[f].mtime >= files[g].mtime}
\* What may come first when the files are sorted by modification time: the order
\* of files of one second is any.
Oldest == {old \in SUBSET DOMAIN files :
  /\ Cardinality(old) = Surplus
  /\ \A f \in old, g \in DOMAIN files \ old : files[f].mtime <= files[g].mtime}

\* CleanOldLogFiles, which leaves everything when the directory does not open.
Clean ==
  /\ At("clean")
  /\ \/ \E old \in Oldest :
          /\ files' = [f \in DOMAIN files \ (Aged \cup old) |-> files[f]]
          /\ unswept' = 0
     \/ UNCHANGED <<files, unswept>>
  /\ Goto("write")
  /\ UNCHANGED <<fs, curSize, curDay, cnt, up, process, clock>>

\* The batch at the end of a file.
Written(file) ==
  [file EXCEPT !.size = @ + flush.len, !.mtime = clock, !.batches = @ + 1,
               !.days = @ \cup {flush.day}]

\* fwrite and fsync: a file that was removed while open takes the batch with it.
Write ==
  /\ At("write")
  /\ fs # Closed
  /\ files' = [f \in DOMAIN files |-> IF f = fs THEN Written(files[f]) ELSE files[f]]
  /\ curSize' = curSize + flush.len
  /\ flush' = Resting
  /\ UNCHANGED <<fs, curDay, cnt, up, process, clock, unswept>>

\* fwrite on a FILE that is NULL, after a failed fopen, ends the process.
WriteNull ==
  /\ At("write")
  /\ fs = Closed
  /\ up' = FALSE
  /\ Fresh
  /\ UNCHANGED <<files, process, clock, unswept>>
-----------------------------------------------------------------------------
Tick ==
  /\ clock < MaxClock
  /\ clock' = clock + 1
  /\ UNCHANGED <<files, fs, curSize, curDay, cnt, flush, up, process, unswept>>

Crash == up /\ up' = FALSE /\ Fresh /\ UNCHANGED <<files, process, clock, unswept>>

\* A new process, maybe within the second: its cnt_ starts over.
Restart ==
  /\ ~up
  /\ process < MaxStarts
  /\ up' = TRUE
  /\ process' = process + 1
  /\ UNCHANGED <<files, fs, curSize, curDay, cnt, flush, clock, unswept>>

\* The last process is gone.
Done == ~up /\ process = MaxStarts /\ UNCHANGED vars

Next ==
  \/ \E len \in Lens : FlushBegin(len)
  \/ Open \/ Clean \/ Write \/ WriteNull
  \/ Tick \/ Crash \/ Restart \/ Done

Spec == Init /\ [][Next]_vars
-----------------------------------------------------------------------------
File == [size : Nat, mtime : 0 .. MaxClock, by : 1 .. MaxStarts, shared : BOOLEAN,
         batches : Nat, days : SUBSET (0 .. Day(MaxClock))]

\* Every variable has its type; the old file is closed before another is opened,
\* and old files are removed when there is a new one.  A failed fopen leaves none.
TypeOK ==
  /\ DOMAIN files \subseteq Names
  /\ \A f \in DOMAIN files : files[f] \in File
  /\ fs \in Names \cup {Closed}
  /\ curSize \in Nat
  /\ curDay \in 0 .. Day(MaxClock)
  /\ cnt \in 1 .. MaxSeq
  /\ flush \in [pc : {"idle", "open", "clean", "write"}, len : Lens \cup {0},
                day : 0 .. Day(MaxClock)]
  /\ flush.pc = "open" => fs = Closed
  /\ flush.pc = "clean" => fs # Closed
  /\ up \in BOOLEAN
  /\ process \in 1 .. MaxStarts
  /\ clock \in 0 .. MaxClock
  /\ unswept \in Nat

\* A file is larger than the limit only when it is one batch, or when a second
\* process opened it within the second of the first.
FileSizeBounded ==
  \A f \in DOMAIN files :
    files[f].size > MaxSize => files[f].batches = 1 \/ files[f].shared

\* A process never writes batches of two days to one file, however long a flush
\* takes between reading the day and writing.
OneDayPerFile ==
  \A f \in DOMAIN files : Cardinality(files[f].days) > 1 => files[f].shared

\* There are never more files than the limit and those opened since old files
\* were last removed: what a failed removal or a crash leaves is made up for.
CountBounded == MaxCount > 0 => Cardinality(DOMAIN files) <= MaxCount + unswept

\* A file is removed when it is too old, or when as many files as are to be kept
\* are left that are no older.  So the file that was just opened goes only when
\* that many were written within its second.
RemovesOldOnly ==
  [][\A f \in DOMAIN files \ DOMAIN files' :
       \/ f \in Aged
       \/ /\ MaxCount > 0
          /\ Cardinality({g \in DOMAIN files' : files[g].mtime >= files[f].mtime}) >= MaxCount]_vars
=============================================================================
