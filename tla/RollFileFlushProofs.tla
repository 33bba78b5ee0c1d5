-------------------------- MODULE RollFileFlushProofs --------------------------
(***************************************************************************)
(* Proofs about RollFileFlush for any limits on size, number and age, any  *)
(* batches and any number of processes that follow one another.            *)
(***************************************************************************)
EXTENDS RollFileFlush, FiniteSetTheorems, TLAPS

LEMMA Parameters ==
  /\ \A len \in Lens : len \in Nat /\ len > 0
  /\ MaxSize \in Nat /\ MaxCount \in Nat /\ MaxAge \in Nat /\ MaxClock \in Nat
  /\ DayLength \in Nat /\ DayLength > 0
  /\ MaxSeq \in Nat /\ MaxSeq > 0 /\ MaxStarts \in Nat /\ MaxStarts > 0
  BY RollAssumption

\* A file name is not the closed file.
LEMMA NamesOpen == Closed \notin Names
  BY Parameters, RollAssumption DEF Names

\* The days pass with the seconds.
LEMMA DayMonotonic ==
  ASSUME NEW s \in Nat, NEW t \in Nat, s <= t
  PROVE  Day(s) \in Nat /\ Day(t) \in Nat /\ Day(s) <= Day(t)
<1> DEFINE p == Day(s)
           q == Day(t)
<1>1. /\ p \in Nat /\ q \in Nat
      /\ DayLength * p <= s /\ s < DayLength * p + DayLength
      /\ DayLength * q <= t /\ t < DayLength * q + DayLength
  BY Parameters DEF Day
<1>2. ASSUME p > q PROVE FALSE
  <2>1. p >= q + 1
    BY <1>1, <1>2
  <2> HIDE DEF p, q
  <2>2. DayLength * p >= DayLength * (q + 1)
    BY <1>1, <2>1, Parameters
  <2>3. DayLength * (q + 1) = DayLength * q + DayLength
    BY <1>1, Parameters
  <2> QED BY <1>1, <2>2, <2>3, Parameters
<1> QED BY <1>1, <1>2
-----------------------------------------------------------------------------
\* The second the clock shows is one of a day that TypeOK allows.
LEMMA Today == ASSUME clock \in 0 .. MaxClock PROVE Day(clock) \in 0 .. Day(MaxClock)
  BY Parameters, DayMonotonic

LEMMA NewFileType ==
  ASSUME clock \in 0 .. MaxClock, process \in 1 .. MaxStarts PROVE NewFile \in File
  BY DEF NewFile, File

FlushSteps == [pc : {"idle", "open", "clean", "write"}, len : Lens \cup {0},
               day : 0 .. Day(MaxClock)]

LEMMA RestingType == Resting \in FlushSteps /\ 0 \in 0 .. Day(MaxClock)
  BY Parameters, DayMonotonic DEF Resting, FlushSteps

LEMMA GotoType ==
  ASSUME flush \in FlushSteps, NEW pc \in {"open", "clean", "write"}, Goto(pc)
  PROVE  flush' \in FlushSteps /\ flush'.pc = pc
  BY DEF FlushSteps, Goto

\* TypeOK in parts: the files, the open file, the step of Flush, and the rest.
FilesOK == DOMAIN files \subseteq Names /\ \A f \in DOMAIN files : files[f] \in File

OpenOK ==
  /\ fs \in Names \cup {Closed}
  /\ flush.pc = "open" => fs = Closed
  /\ flush.pc = "clean" => fs # Closed

FlushOK == flush \in FlushSteps

MembersOK ==
  curSize \in Nat /\ curDay \in 0 .. Day(MaxClock) /\ cnt \in 1 .. MaxSeq

ProcessOK ==
  up \in BOOLEAN /\ process \in 1 .. MaxStarts /\ clock \in 0 .. MaxClock /\ unswept \in Nat

LEMMA TypeParts == TypeOK <=> FilesOK /\ OpenOK /\ FlushOK /\ MembersOK /\ ProcessOK
  BY DEF TypeOK, FilesOK, OpenOK, FlushOK, MembersOK, ProcessOK, FlushSteps

\* What fopen leaves are files.
LEMMA OpenedType ==
  ASSUME FilesOK, ProcessOK, NEW f \in Names
  PROVE  /\ DOMAIN Opened(f) = DOMAIN files \cup {f}
         /\ \A g \in DOMAIN Opened(f) : Opened(f)[g] \in File
<1>1. \A g \in DOMAIN files : [files[g] EXCEPT !.shared = TRUE] \in File
  BY DEF FilesOK, File
<1> QED BY <1>1, NewFileType DEF Opened, FilesOK, ProcessOK

\* So is one with another batch.
LEMMA WrittenType ==
  ASSUME FlushOK, ProcessOK, NEW r \in File PROVE Written(r) \in File
<1>1. flush.len \in Nat /\ flush.day \in 0 .. Day(MaxClock) /\ clock \in 0 .. MaxClock
  BY Parameters DEF FlushOK, FlushSteps, ProcessOK
<1>2. r.size + flush.len \in Nat /\ r.batches + 1 \in Nat
  BY <1>1 DEF File
<1>3. r.days \cup {flush.day} \in SUBSET (0 .. Day(MaxClock))
  BY <1>1 DEF File
<1> QED BY <1>1, <1>2, <1>3 DEF Written, File

\* A process that has just begun, or has just ended.
LEMMA FreshType == Fresh => OpenOK' /\ FlushOK' /\ MembersOK'
<1> SUFFICES ASSUME Fresh PROVE OpenOK' /\ FlushOK' /\ MembersOK'
  OBVIOUS
<1>1. flush' \in FlushSteps /\ flush'.pc = "idle"
  BY RestingType DEF Fresh, Resting
<1> QED BY <1>1, RestingType, Parameters DEF Fresh, OpenOK, FlushOK, MembersOK

\* The types are inductive.  The old file is closed when another is opened, and
\* old files are only removed when that worked: after a failed fopen Flush goes on
\* to the write without a file.
THEOREM TypeCorrect == Spec => []TypeOK
<1>1. Init => TypeOK
  <2> SUFFICES ASSUME Init PROVE TypeOK
    OBVIOUS
  <2>1. DOMAIN files = {}
    BY DEF Init
  <2>2. FilesOK
    BY <2>1 DEF FilesOK
  <2>3. OpenOK /\ FlushOK /\ MembersOK
    BY RestingType, Parameters DEF Init, OpenOK, FlushOK, MembersOK, Resting
  <2>4. ProcessOK
    BY Parameters DEF Init, ProcessOK
  <2> QED BY <2>2, <2>3, <2>4, TypeParts
<1>2. TypeOK /\ [Next]_vars => TypeOK'
  <2> SUFFICES ASSUME FilesOK, OpenOK, FlushOK, MembersOK, ProcessOK, [Next]_vars
               PROVE  FilesOK' /\ OpenOK' /\ FlushOK' /\ MembersOK' /\ ProcessOK'
    BY DEF TypeOK, FilesOK, OpenOK, FlushOK, MembersOK, ProcessOK, FlushSteps
  <2>1. ASSUME NEW len \in Lens, FlushBegin(len)
        PROVE  FilesOK' /\ OpenOK' /\ FlushOK' /\ MembersOK' /\ ProcessOK'
    <3>1. FlushOK'
      BY <2>1, Today DEF FlushBegin, FlushOK, FlushSteps, ProcessOK
    <3>2. OpenOK'
      BY <2>1 DEF FlushBegin, OpenOK, MustRoll
    <3> QED BY <2>1, <3>1, <3>2 DEF FlushBegin, FilesOK, MembersOK, ProcessOK
  <2>2. ASSUME Open PROVE FilesOK' /\ OpenOK' /\ FlushOK' /\ MembersOK' /\ ProcessOK'
    <3>1. <<clock, cnt>> \in Names
      BY <2>2 DEF Open, Names, MembersOK, ProcessOK
    <3>2. ASSUME fs' = Closed, Goto("write"), UNCHANGED <<files, curSize, curDay, unswept>>
          PROVE  FilesOK' /\ OpenOK' /\ FlushOK' /\ MembersOK' /\ ProcessOK'
      <4>1. FlushOK' /\ OpenOK'
        BY <3>2, GotoType DEF FlushOK, OpenOK
      <4>2. MembersOK' /\ ProcessOK' /\ FilesOK'
        BY <2>2, <3>2, Parameters DEF Open, MembersOK, ProcessOK, FilesOK
      <4> QED BY <4>1, <4>2
    <3>3. ASSUME files' = Opened(<<clock, cnt>>), fs' = <<clock, cnt>>,
                 curSize' = 0, curDay' = flush.day, Goto("clean"), unswept' = unswept + 1
          PROVE  FilesOK' /\ OpenOK' /\ FlushOK' /\ MembersOK' /\ ProcessOK'
      <4>1. FilesOK'
        BY <3>1, <3>3, OpenedType DEF FilesOK
      <4>2. OpenOK'
        BY <3>1, <3>3, NamesOpen, GotoType DEF OpenOK, FlushOK
      <4>3. FlushOK' /\ flush.day \in 0 .. Day(MaxClock)
        BY <3>3, GotoType DEF FlushOK, FlushSteps
      <4>4. MembersOK' /\ ProcessOK'
        BY <2>2, <3>3, <4>3, Parameters DEF Open, MembersOK, ProcessOK
      <4> QED BY <4>1, <4>2, <4>3, <4>4
    <3> QED BY <2>2, <3>2, <3>3 DEF Open
  <2>3. ASSUME Clean PROVE FilesOK' /\ OpenOK' /\ FlushOK' /\ MembersOK' /\ ProcessOK'
    <3>1. FilesOK'
      BY <2>3 DEF Clean, FilesOK
    <3>2. FlushOK'
      BY <2>3, GotoType DEF Clean, FlushOK
    <3>3. OpenOK'
      <4>1. flush'.pc = "write" /\ fs' = fs
        BY <2>3, GotoType DEF Clean, FlushOK
      <4> QED BY <4>1 DEF OpenOK
    <3>4. MembersOK'
      BY <2>3 DEF Clean, MembersOK
    <3>5. unswept' \in Nat
      <4>1. unswept' = 0 \/ unswept' = unswept
        BY <2>3, Zenon DEF Clean
      <4> QED BY <4>1 DEF ProcessOK
    <3>6. ProcessOK'
      BY <2>3, <3>5, Zenon DEF Clean, ProcessOK
    <3> QED BY <3>1, <3>2, <3>3, <3>4, <3>6
  <2>4. ASSUME Write PROVE FilesOK' /\ OpenOK' /\ FlushOK' /\ MembersOK' /\ ProcessOK'
    <3>1. flush.len \in Nat /\ flush.day \in 0 .. Day(MaxClock)
      BY Parameters DEF FlushOK, FlushSteps
    <3>2. FilesOK'
      BY <2>4, WrittenType DEF Write, FilesOK
    <3>3. OpenOK' /\ FlushOK'
      <4>1. flush'.pc = "idle" /\ fs' = fs
        BY <2>4 DEF Write, Resting
      <4> QED BY <2>4, <4>1, RestingType DEF Write, OpenOK, FlushOK
    <3>4. MembersOK'
      BY <2>4, <3>1 DEF Write, MembersOK
    <3>5. ProcessOK'
      BY <2>4 DEF Write, ProcessOK
    <3> QED BY <3>2, <3>3, <3>4, <3>5
  <2>5. ASSUME Crash \/ WriteNull
        PROVE  FilesOK' /\ OpenOK' /\ FlushOK' /\ MembersOK' /\ ProcessOK'
    BY <2>5, FreshType DEF Crash, WriteNull, FilesOK, ProcessOK
  <2>6. ASSUME Tick \/ Restart \/ UNCHANGED vars
        PROVE  FilesOK' /\ OpenOK' /\ FlushOK' /\ MembersOK' /\ ProcessOK'
    <3>1. FilesOK' /\ OpenOK' /\ FlushOK' /\ MembersOK'
      BY <2>6 DEF Tick, Restart, vars, FilesOK, OpenOK, FlushOK, MembersOK
    <3>2. Tick => ProcessOK'
      BY Parameters DEF Tick, ProcessOK
    <3>3. Restart => ProcessOK'
      BY Parameters DEF Restart, ProcessOK
    <3>4. UNCHANGED vars => ProcessOK'
      BY DEF vars, ProcessOK
    <3> QED BY <2>6, <3>1, <3>2, <3>3, <3>4
  <2> QED BY <2>1, <2>2, <2>3, <2>4, <2>5, <2>6 DEF Next, Done
<1> QED BY <1>1, <1>2, PTL DEF Spec
-----------------------------------------------------------------------------
\* Of the files that only this process wrote to: what it knows of the open one is
\* true, and it has not used up the names it will give.
OwnFile ==
  up /\ fs \in DOMAIN files /\ ~files[fs].shared =>
    files[fs].by = process /\ files[fs].size = curSize /\ files[fs].days \subseteq {curDay}

\* A process names no file twice, and the file of a later process is not there yet.
NamesUnused ==
  \A f \in DOMAIN files :
    /\ files[f].by <= process
    /\ up /\ files[f].by = process => f[2] < cnt

\* What was found out at the start of Flush holds until the batch is written, if
\* there is a file to write it to.
FlushDecided ==
  /\ flush.pc \in {"clean", "write"} /\ fs # Closed =>
       flush.day = curDay /\ (curSize = 0 \/ curSize + flush.len <= MaxSize)
  /\ flush.pc # "idle" => flush.len > 0
  /\ flush.pc = "open" => fs = Closed
  /\ ~up => flush = Resting /\ fs = Closed

\* An empty file has no batch and no day.
EmptyFiles ==
  \A f \in DOMAIN files : files[f].size = 0 => files[f].batches = 0

OneDay == \A f \in DOMAIN files : files[f].shared \/ \E d \in Nat : files[f].days \subseteq {d}

FileInv == OwnFile /\ NamesUnused /\ FlushDecided /\ EmptyFiles /\ OneDay /\ FileSizeBounded

\* What is known of the numbers a step of Flush adds up.
LEMMA Sums ==
  ASSUME TypeOK
  PROVE  /\ curSize \in Nat /\ curDay \in Nat /\ cnt \in Nat /\ process \in Nat
         /\ flush.len \in Nat /\ flush.day \in Nat
         /\ \A f \in DOMAIN files : /\ files[f].size \in Nat /\ files[f].by \in Nat
                                    /\ files[f].batches \in Nat
<1>1. \A d \in 0 .. Day(MaxClock) : d \in Nat
  OBVIOUS
<1>2. flush.len \in Nat /\ flush.day \in Nat /\ curDay \in Nat
  BY <1>1, Parameters, TypeParts DEF FlushOK, FlushSteps, MembersOK
<1>3. \A f \in DOMAIN files : files[f].size \in Nat /\ files[f].by \in Nat
                              /\ files[f].batches \in Nat
  BY Parameters, TypeParts DEF FilesOK, File
<1> QED BY <1>2, <1>3, Parameters, TypeParts DEF MembersOK, ProcessOK

LEMMA WrittenFields ==
  ASSUME NEW r \in File
  PROVE  /\ Written(r).size = r.size + flush.len
         /\ Written(r).batches = r.batches + 1
         /\ Written(r).days = r.days \cup {flush.day}
         /\ Written(r).by = r.by /\ Written(r).shared = r.shared
  BY DEF Written, File

\* A name that fopen is given is that of a new file, or of a file of an earlier
\* process, which is shared from then on; the other files stay as they are.
LEMMA OpenedFields ==
  ASSUME TypeOK, NamesUnused, up, NEW g \in DOMAIN files \cup {<<clock, cnt>>}
  PROVE  LET old == files[g]
             new == Opened(<<clock, cnt>>)[g]
         IN  IF g \notin DOMAIN files THEN new = NewFile
             ELSE IF g = <<clock, cnt>>
             THEN /\ new.shared /\ old.by < process /\ new.by = old.by
                  /\ new.size = old.size /\ new.batches = old.batches
             ELSE new = old
<1>1. CASE g \in DOMAIN files /\ g = <<clock, cnt>>
  <2>1. files[g].by # process /\ files[g].by <= process
    BY <1>1, Sums DEF NamesUnused
  <2>2. files[g] \in File /\ process \in Nat /\ files[g].by \in Nat
    BY <1>1, Sums, TypeParts DEF FilesOK
  <2>3. Opened(<<clock, cnt>>)[g] = [files[g] EXCEPT !.shared = TRUE]
    BY <1>1, <2>1 DEF Opened
  <2> QED BY <1>1, <2>1, <2>2, <2>3 DEF File
<1> QED BY <1>1 DEF Opened

LEMMA NewFileFields ==
  /\ NewFile.size = 0 /\ NewFile.batches = 0 /\ NewFile.days = {}
  /\ NewFile.by = process /\ NewFile.shared = FALSE
  BY DEF NewFile
-----------------------------------------------------------------------------
\* The decision to roll, or not to.
LEMMA BeginKeeps ==
  ASSUME TypeOK, FileInv, NEW len \in Lens, FlushBegin(len) PROVE FileInv'
<1> USE DEF FileInv
<1>1. UNCHANGED <<files, curSize, curDay, cnt, up, process>> /\ up
  BY Zenon DEF FlushBegin, At
<1>2. fs' = Closed \/ fs' = fs
  BY DEF FlushBegin
<1>3. Closed \notin DOMAIN files
  BY NamesOpen, TypeParts DEF FilesOK
<1>4. OwnFile'
  BY <1>1, <1>2, <1>3 DEF OwnFile
<1>5. FlushDecided'
  <2>1. /\ flush'.len = len /\ flush'.day = Day(clock) /\ len \in Nat /\ len > 0
        /\ flush'.pc = IF MustRoll(len) THEN "open" ELSE "write"
        /\ MustRoll(len) => fs' = Closed
    BY Parameters DEF FlushBegin
  <2> QED BY <1>1, <2>1, Sums, Parameters DEF FlushDecided, MustRoll
<1> QED BY <1>1, <1>4, <1>5
    DEF NamesUnused, EmptyFiles, OneDay, FileSizeBounded

\* A process that ends leaves no file in hand.
LEMMA EndKeeps ==
  ASSUME FileInv, up' = FALSE, Fresh, UNCHANGED <<files, process>> PROVE FileInv'
<1>1. FlushDecided'
  BY DEF Fresh, FlushDecided, Resting
<1> QED BY <1>1 DEF FileInv, OwnFile, NamesUnused, EmptyFiles, OneDay, FileSizeBounded

LEMMA OpenKeeps ==
  ASSUME TypeOK, FileInv, Open PROVE FileInv'
<1> USE DEF FileInv
<1> DEFINE name == <<clock, cnt>>
<1>1. CASE fs' = Closed /\ Goto("write") /\ UNCHANGED <<files, curSize, curDay>>
  <2>1. /\ up /\ up' = up /\ process' = process /\ flush.pc = "open" /\ cnt' = cnt + 1
        /\ Closed \notin DOMAIN files
    BY <1>1, NamesOpen, TypeParts DEF Open, At, FilesOK
  <2>2. OwnFile'
    BY <1>1, <2>1 DEF OwnFile
  <2>3. NamesUnused'
    <3>1. \A g \in DOMAIN files : g[2] \in Nat
      BY TypeParts DEF FilesOK, Names
    <3> QED BY <1>1, <2>1, <3>1, Sums DEF NamesUnused
  <2>4. FlushDecided'
    <3>1. flush'.pc = "write" /\ flush'.len = flush.len /\ flush.len > 0
      BY <1>1, <2>1, TypeParts DEF Goto, FlushOK, FlushSteps, FlushDecided
    <3> QED BY <1>1, <2>1, <3>1 DEF FlushDecided
  <2> QED BY <1>1, <2>2, <2>3, <2>4 DEF EmptyFiles, OneDay, FileSizeBounded
<1>2. CASE /\ files' = Opened(name) /\ fs' = name
           /\ curSize' = 0 /\ curDay' = flush.day /\ Goto("clean")
  <2>1. up /\ up' /\ process' = process /\ flush.pc = "open" /\ cnt' = cnt + 1
    BY <1>2, Zenon DEF Open, At
  <2>2. DOMAIN files' = DOMAIN files \cup {name}
    BY <1>2 DEF Opened
  <2>3. \A g \in DOMAIN files' :
          IF g \notin DOMAIN files THEN g = name /\ files'[g] = NewFile
          ELSE IF g = name
          THEN /\ files'[g].shared /\ files[g].by < process /\ files'[g].by = files[g].by
               /\ files'[g].size = files[g].size /\ files'[g].batches = files[g].batches
          ELSE files'[g] = files[g]
    BY <1>2, <2>1, <2>2, OpenedFields
  <2>4. name \in DOMAIN files' /\ name[2] = cnt
    BY <2>2
  <2> HIDE DEF name
  <2>5. OwnFile'
    <3>1. files'[name].shared \/ files'[name] = NewFile
      BY <2>3, <2>4
    <3>2. fs' = name /\ curSize' = 0 /\ process' = process
      BY <1>2, <2>1
    <3> QED BY <3>1, <3>2, NewFileFields DEF OwnFile
  <2>6. NamesUnused'
    <3> SUFFICES ASSUME NEW g \in DOMAIN files'
                 PROVE  /\ files'[g].by <= process
                        /\ files'[g].by = process => g[2] < cnt + 1
      BY <1>2, <2>1 DEF NamesUnused
    <3>1. CASE g \notin DOMAIN files
      BY <2>3, <2>4, <3>1, NewFileFields, Sums
    <3>2. CASE g \in DOMAIN files /\ g = name
      BY <2>3, <3>2, Sums
    <3>3. CASE g \in DOMAIN files /\ g # name
      <4>1. /\ files'[g] = files[g] /\ files[g].by <= process
            /\ files[g].by = process => g[2] < cnt
        BY <2>1, <2>3, <3>3 DEF NamesUnused
      <4>2. g[2] \in Nat /\ cnt \in Nat
        BY <3>3, Sums, TypeParts DEF FilesOK, Names
      <4> QED BY <4>1, <4>2
    <3> QED BY <3>1, <3>2, <3>3
  <2>7. FlushDecided'
    <3>1. /\ flush'.pc = "clean" /\ flush'.day = flush.day /\ flush'.len = flush.len
          /\ flush.len > 0
      BY <1>2, <2>1, TypeParts DEF Goto, FlushOK, FlushSteps, FlushDecided
    <3> QED BY <1>2, <2>1, <3>1 DEF FlushDecided
  <2>8. EmptyFiles' /\ FileSizeBounded'
    BY <2>3, NewFileFields, Parameters DEF EmptyFiles, FileSizeBounded
  <2>9. OneDay'
    BY <2>3, NewFileFields DEF OneDay
  <2> QED BY <2>5, <2>6, <2>7, <2>8, <2>9
<1> QED BY <1>1, <1>2 DEF Open

\* Removing files leaves the others as they are.
LEMMA CleanKeeps ==
  ASSUME TypeOK, FileInv, Clean PROVE FileInv'
<1> USE DEF FileInv
<1>1. UNCHANGED <<fs, curSize, curDay, cnt, up, process>> /\ up /\ flush.pc = "clean"
  BY Zenon DEF Clean, At
<1>2. DOMAIN files' \subseteq DOMAIN files /\ \A f \in DOMAIN files' : files'[f] = files[f]
  BY DEF Clean
<1>3. /\ flush'.pc = "write" /\ flush'.day = flush.day /\ flush'.len = flush.len
  BY TypeParts DEF Clean, Goto, FlushOK, FlushSteps
<1>4. FlushDecided'
  BY <1>1, <1>3 DEF FlushDecided
<1> QED BY <1>1, <1>2, <1>4
    DEF OwnFile, NamesUnused, EmptyFiles, OneDay, FileSizeBounded

\* The batch comes to a file of its own day, which is empty or has room for it.
LEMMA WriteKeeps ==
  ASSUME TypeOK, FileInv, Write PROVE FileInv'
<1> USE DEF FileInv
<1>1. /\ UNCHANGED <<fs, curDay, cnt, up, process>> /\ up /\ flush.pc = "write"
      /\ fs # Closed /\ curSize' = curSize + flush.len /\ flush' = Resting
  BY Zenon DEF Write, At
<1>2. /\ DOMAIN files' = DOMAIN files
      /\ \A f \in DOMAIN files : files'[f] = IF f = fs THEN Written(files[f]) ELSE files[f]
  BY DEF Write
<1>3. \A f \in DOMAIN files :
        /\ files'[f].size = files[f].size + (IF f = fs THEN flush.len ELSE 0)
        /\ files'[f].batches = files[f].batches + (IF f = fs THEN 1 ELSE 0)
        /\ files'[f].days = files[f].days \cup (IF f = fs THEN {flush.day} ELSE {})
        /\ files'[f].by = files[f].by /\ files'[f].shared = files[f].shared
  BY <1>2, WrittenFields, Sums, TypeParts DEF FilesOK
<1>4. /\ flush.day = curDay /\ flush.len > 0
      /\ curSize = 0 \/ curSize + flush.len <= MaxSize
  BY <1>1 DEF FlushDecided
<1>5. OwnFile'
  BY <1>1, <1>2, <1>3, <1>4 DEF OwnFile
<1>6. NamesUnused'
  BY <1>1, <1>2, <1>3 DEF NamesUnused
<1>7. FlushDecided'
  BY <1>1 DEF FlushDecided, Resting
<1>8. EmptyFiles'
  BY <1>2, <1>3, <1>4, Sums DEF EmptyFiles
<1>9. OneDay'
  <2>1. curDay \in Nat
    BY Sums
  <2> QED BY <1>1, <1>2, <1>3, <1>5, <2>1 DEF OneDay, OwnFile
<1>10. FileSizeBounded'
  <2> SUFFICES ASSUME NEW f \in DOMAIN files, files'[f].size > MaxSize
               PROVE  files'[f].batches = 1 \/ files'[f].shared
    BY <1>2 DEF FileSizeBounded
  <2>1. CASE f # fs
    BY <1>3, <2>1, Sums DEF FileSizeBounded
  <2>2. CASE f = fs /\ ~files[f].shared
    <3>1. files[f].size = curSize
      BY <1>1, <2>2 DEF OwnFile
    <3>2. curSize = 0
      BY <1>3, <1>4, <2>2, <3>1, Sums, Parameters
    <3> QED BY <1>3, <2>2, <3>1, <3>2, Sums DEF EmptyFiles
  <2> QED BY <1>3, <2>1, <2>2
<1> QED BY <1>5, <1>6, <1>7, <1>8, <1>9, <1>10

\* A new process has a number of its own, and no file in hand.
LEMMA RestartKeeps ==
  ASSUME TypeOK, FileInv, Restart PROVE FileInv'
<1> USE DEF FileInv
<1>1. UNCHANGED <<files, fs, flush>> /\ process' = process + 1 /\ ~up
  BY Zenon DEF Restart
<1>2. fs = Closed /\ flush = Resting
  BY <1>1 DEF FlushDecided
<1>3. OwnFile'
  BY <1>1, <1>2, NamesOpen, TypeParts DEF OwnFile, FilesOK
<1>4. NamesUnused'
  BY <1>1, Sums DEF NamesUnused
<1>5. FlushDecided'
  BY <1>1, <1>2 DEF FlushDecided, Resting
<1> QED BY <1>1, <1>3, <1>4, <1>5 DEF EmptyFiles, OneDay, FileSizeBounded

LEMMA InitFiles == Init => FileInv
  BY DEF Init, FileInv, OwnFile, NamesUnused, FlushDecided, EmptyFiles, OneDay,
     FileSizeBounded, Resting

\* The inductive invariant: what the process remembers of the open file is true
\* of it, as long as no other process wrote to it.
THEOREM FilesKept == Spec => []FileInv
<1>1. TypeOK /\ FileInv /\ [Next]_vars => FileInv'
  <2> SUFFICES ASSUME TypeOK, FileInv, [Next]_vars PROVE FileInv'
    OBVIOUS
  <2>1. CASE \E len \in Lens : FlushBegin(len)
    BY <2>1, BeginKeeps
  <2>2. CASE Open \/ Clean \/ Write \/ Restart
    BY <2>2, OpenKeeps, CleanKeeps, WriteKeeps, RestartKeeps
  <2>3. CASE Crash \/ WriteNull
    BY <2>3, EndKeeps DEF Crash, WriteNull
  <2>4. CASE Tick \/ UNCHANGED vars
    <3>1. UNCHANGED <<files, fs, curSize, curDay, cnt, flush, up, process>>
      BY <2>4, Zenon DEF Tick, vars
    <3> QED BY <3>1 DEF FileInv, OwnFile, NamesUnused, FlushDecided, EmptyFiles, OneDay,
        FileSizeBounded
  <2> QED BY <2>1, <2>2, <2>3, <2>4 DEF Next, Done
<1> QED BY <1>1, InitFiles, TypeCorrect, PTL DEF Spec

\* A file larger than the limit holds a single batch, or two processes opened it
\* within one second: an oversize batch never goes to a file that has one.
THEOREM SizesBounded == Spec => []FileSizeBounded
<1>1. FileInv => FileSizeBounded
  BY DEF FileInv
<1> QED BY <1>1, FilesKept, PTL

\* A process never writes batches of two days to one file.
THEOREM OneDayEach == Spec => []OneDayPerFile
<1>1. FileInv => OneDayPerFile
  <2> SUFFICES ASSUME FileInv, NEW f \in DOMAIN files, ~files[f].shared
               PROVE  ~(Cardinality(files[f].days) > 1)
    BY DEF OneDayPerFile
  <2>1. PICK d \in Nat : files[f].days \subseteq {d}
    BY DEF FileInv, OneDay
  <2>2. files[f].days = {} \/ files[f].days = {d}
    BY <2>1
  <2>3. Cardinality({}) = 0 /\ Cardinality({d}) = 1
    BY FS_EmptySet, FS_Singleton
  <2> QED BY <2>2, <2>3
<1> QED BY <1>1, FilesKept, PTL
-----------------------------------------------------------------------------
\* There are only so many names.
LEMMA FewFiles ==
  ASSUME TypeOK
  PROVE  IsFiniteSet(DOMAIN files) /\ Cardinality(DOMAIN files) \in Nat
<1>1. IsFiniteSet(0 .. MaxClock) /\ IsFiniteSet(1 .. MaxSeq)
  BY Parameters, FS_Interval
<1>2. IsFiniteSet(Names)
  BY <1>1, FS_Product DEF Names
<1>3. IsFiniteSet(DOMAIN files)
  BY <1>2, FS_Subset, TypeParts DEF FilesOK
<1> QED BY <1>3, FS_CardinalityType

\* The oldest files, as many as there are too many: without them at most
\* MaxCount are left, and exactly that many when any was one of them.
LEMMA OldestLeaves ==
  ASSUME TypeOK, MaxCount > 0, NEW old \in Oldest
  PROVE  /\ IsFiniteSet(DOMAIN files \ old)
         /\ Cardinality(DOMAIN files \ old) <= MaxCount
         /\ old # {} => Cardinality(DOMAIN files \ old) = MaxCount
<1> DEFINE all == Cardinality(DOMAIN files)
<1>1. /\ old \subseteq DOMAIN files
      /\ Cardinality(old) = IF all <= MaxCount THEN 0 ELSE all - MaxCount
  BY Parameters DEF Oldest, Surplus
<1>2. /\ all \in Nat
      /\ IsFiniteSet(DOMAIN files \ old)
      /\ Cardinality(DOMAIN files \ old) = all - Cardinality(DOMAIN files \cap old)
  BY FewFiles, FS_Difference
<1>3. DOMAIN files \cap old = old
  BY <1>1
<1>4. IsFiniteSet(old) /\ Cardinality(old) \in Nat /\ (Cardinality(old) = 0 <=> old = {})
  BY <1>1, FewFiles, FS_Subset, FS_EmptySet, FS_CardinalityType
<1> HIDE DEF all
<1> QED BY <1>1, <1>2, <1>3, <1>4, Parameters

\* There are never more files than the limit and those opened since old files
\* were last removed, whatever fails to be removed and whoever crashes: each
\* removal makes up for all that was missed.
THEOREM FilesCounted == Spec => []CountBounded
<1>1. Init => CountBounded
  <2> SUFFICES ASSUME Init, MaxCount > 0 PROVE Cardinality(DOMAIN files) <= MaxCount + unswept
    BY DEF CountBounded
  <2>1. DOMAIN files = {} /\ unswept = 0
    BY DEF Init
  <2> QED BY <2>1, FS_EmptySet, Parameters
<1>2. TypeOK /\ CountBounded /\ [Next]_vars => CountBounded'
  <2> SUFFICES ASSUME TypeOK, CountBounded, [Next]_vars, MaxCount > 0
               PROVE  Cardinality(DOMAIN files') <= MaxCount + unswept'
    BY DEF CountBounded
  <2>1. /\ Cardinality(DOMAIN files) \in Nat /\ unswept \in Nat
        /\ Cardinality(DOMAIN files) <= MaxCount + unswept
    BY FewFiles, TypeParts DEF ProcessOK, CountBounded
  <2>2. CASE DOMAIN files' = DOMAIN files /\ unswept' = unswept
    BY <2>1, <2>2
  <2>3. ASSUME Open PROVE Cardinality(DOMAIN files') <= MaxCount + unswept'
    <3>1. CASE files' = Opened(<<clock, cnt>>) /\ unswept' = unswept + 1
      <4>1. DOMAIN files' = DOMAIN files \cup {<<clock, cnt>>}
        BY <3>1 DEF Opened
      <4>2. Cardinality(DOMAIN files \cup {<<clock, cnt>>}) =
              IF <<clock, cnt>> \in DOMAIN files
              THEN Cardinality(DOMAIN files) ELSE Cardinality(DOMAIN files) + 1
        BY FewFiles, FS_AddElement, Zenon
      <4>3. Cardinality(DOMAIN files') <= Cardinality(DOMAIN files) + 1
        BY <2>1, <4>1, <4>2
      <4>4. Cardinality(DOMAIN files') \in Nat
        BY <2>1, <4>1, <4>2
      <4> QED BY <2>1, <3>1, <4>3, <4>4, Parameters
    <3> QED BY <2>2, <2>3, <3>1, Zenon DEF Open
  <2>4. ASSUME Clean PROVE Cardinality(DOMAIN files') <= MaxCount + unswept'
    <3>1. ASSUME NEW old \in Oldest, DOMAIN files' = DOMAIN files \ (Aged \cup old), unswept' = 0
          PROVE  Cardinality(DOMAIN files') <= MaxCount + unswept'
      <4>1. /\ IsFiniteSet(DOMAIN files \ old)
            /\ Cardinality(DOMAIN files \ old) <= MaxCount
        BY OldestLeaves
      <4>2. DOMAIN files' \subseteq DOMAIN files \ old
        BY <3>1
      <4>3. /\ Cardinality(DOMAIN files') <= Cardinality(DOMAIN files \ old)
            /\ Cardinality(DOMAIN files') \in Nat
            /\ Cardinality(DOMAIN files \ old) \in Nat
        BY <4>1, <4>2, FS_Subset, FS_CardinalityType
      <4> QED BY <3>1, <4>1, <4>3, Parameters
    <3>2. UNCHANGED <<files, unswept>>
            \/ \E old \in Oldest : DOMAIN files' = DOMAIN files \ (Aged \cup old) /\ unswept' = 0
      BY <2>4 DEF Clean
    <3> QED BY <2>2, <3>1, <3>2
  <2>5. ASSUME \/ \E len \in Lens : FlushBegin(len)
               \/ Write \/ WriteNull \/ Tick \/ Crash \/ Restart \/ UNCHANGED vars
        PROVE  DOMAIN files' = DOMAIN files /\ unswept' = unswept
    BY <2>5 DEF FlushBegin, Write, WriteNull, Tick, Crash, Restart, vars
  <2> QED BY <2>2, <2>3, <2>4, <2>5 DEF Next, Done
<1> QED BY <1>1, <1>2, TypeCorrect, PTL DEF Spec

\* Only CleanOldLogFiles removes files.
LEMMA RemovedByClean ==
  ASSUME [Next]_vars, DOMAIN files \ DOMAIN files' # {}
  PROVE  Clean
<1>1. CASE Open
  BY <1>1 DEF Open, Opened
<1>2. CASE \/ \E len \in Lens : FlushBegin(len)
           \/ Write \/ WriteNull \/ Tick \/ Crash \/ Restart \/ UNCHANGED vars
  BY <1>2 DEF FlushBegin, Write, WriteNull, Tick, Crash, Restart, vars
<1> QED BY <1>1, <1>2 DEF Next, Done

\* A file goes only because it is too old, or because as many as are to be kept
\* are left that are no older.
THEOREM OldestRemovedFirst == Spec => RemovesOldOnly
<1>1. TypeOK /\ [Next]_vars =>
        [\A f \in DOMAIN files \ DOMAIN files' :
           \/ f \in Aged
           \/ /\ MaxCount > 0
              /\ Cardinality({g \in DOMAIN files' : files[g].mtime >= files[f].mtime})
                   >= MaxCount]_vars
  <2> SUFFICES ASSUME TypeOK, [Next]_vars, NEW f \in DOMAIN files \ DOMAIN files', f \notin Aged
               PROVE  /\ MaxCount > 0
                      /\ Cardinality({g \in DOMAIN files' : files[g].mtime >= files[f].mtime})
                           >= MaxCount
    OBVIOUS
  <2>1. PICK old \in Oldest : DOMAIN files' = DOMAIN files \ (Aged \cup old)
    BY RemovedByClean DEF Clean
  <2>2. f \in old /\ old \subseteq DOMAIN files
    BY <2>1 DEF Oldest
  <2>3. MaxCount > 0
    <3>1. CASE MaxCount = 0
      <4>1. Cardinality(old) = 0
        BY <2>1, <3>1 DEF Oldest, Surplus
      <4>2. IsFiniteSet(old)
        BY <2>2, FewFiles, FS_Subset
      <4> QED BY <2>2, <4>1, <4>2, FS_EmptySet
    <3> QED BY <3>1, Parameters
  <2>4. \A g \in DOMAIN files : files[g].mtime \in Nat
    BY Parameters, TypeParts DEF FilesOK, File
  <2>5. \A g \in DOMAIN files \ old : files[g].mtime >= files[f].mtime
    BY <2>1, <2>2, <2>4 DEF Oldest
  <2>6. \A g \in DOMAIN files \ old : g \notin Aged
    BY <2>2, <2>4, <2>5, Parameters, TypeParts DEF Aged, ProcessOK
  <2>7. {g \in DOMAIN files' : files[g].mtime >= files[f].mtime} = DOMAIN files \ old
    BY <2>1, <2>5, <2>6
  <2>8. Cardinality(DOMAIN files \ old) = MaxCount
    BY <2>1, <2>2, <2>3, OldestLeaves
  <2>9. Cardinality({g \in DOMAIN files' : files[g].mtime >= files[f].mtime}) = MaxCount
    BY <2>7, <2>8, Zenon
  <2> HIDE DEF Aged
  <2> DEFINE kept == Cardinality({g \in DOMAIN files' : files[g].mtime >= files[f].mtime})
  <2>10. kept = MaxCount => kept >= MaxCount
    <3> HIDE DEF kept
    <3> QED BY Parameters
  <2> QED BY <2>3, <2>9, <2>10, Zenon
<1> QED BY <1>1, TypeCorrect, PTL DEF Spec, RemovesOldOnly
=============================================================================
