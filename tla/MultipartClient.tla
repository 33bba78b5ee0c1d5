--------------------------- MODULE MultipartClient ---------------------------
(***************************************************************************)
(* The pages that upload files (index.html) and the service together.      *)
(* "Resume" on a page asks for the session it remembers in localStorage,   *)
(* or for a new one, sends the chunks the session lacks, a few at a time   *)
(* and each up to Attempts times, and completes it.  "Upload" sends the    *)
(* file in one request.  A page sees a request fail that the server never  *)
(* gets, gets later, or has done; what it shows then is an error, and the  *)
(* user may click again.  A page acts on a reply in the step that sends    *)
(* it: nothing else depends on when it does.                               *)
(***************************************************************************)
EXTENDS Service, FiniteSets, TLC

CONSTANTS
  Pages,        \* pages open in browsers of their own
  Target,       \* the name all of them upload
  Selections,   \* the contents the users may select on them
  Attempts,     \* of uploadChunkWithRetry
  Concurrency,  \* workers of multipartUpload
  MaxFaults     \* bound: faults of the service and of the network

ASSUME ClientAssumption ==
  /\ Target \in Names
  /\ None \notin UploadIds
  /\ Selections \subseteq [Pages -> Contents]
  /\ Attempts \in Nat \ {0}
  /\ Concurrency \in Nat \ {0}
  /\ MaxFaults \in Nat

VARIABLES
  page,     \* what each page does and remembers
  serving,  \* whose request req is, and whether the page still waits for it
  late,     \* requests no page waits for that the server may yet receive
  faults    \* how many faults there may still be

clientVars == <<vars, page, serving, late, faults>>

Chunks == 1 .. ChunkCount

\* A page without a run: it has its file and, perhaps, a session to resume.
NoRun(file, key) ==
  [pc |-> "idle", file |-> file, key |-> key, session |-> None, uploaded |-> {},
   tries |-> [i \in Chunks |-> 0]]

Msg(p, kind, id, i) == [page |-> p, kind |-> kind, id |-> id, index |-> i]

Nobody == [msg |-> None, waits |-> FALSE, fresh |-> FALSE]

ClientInit ==
  /\ Init
  /\ \E file \in Selections : page = [p \in Pages |-> NoRun(file[p], None)]
  /\ serving = Nobody
  /\ late = {}
  /\ faults = MaxFaults
-----------------------------------------------------------------------------
Missing(s) == Chunks \ s.uploaded

\* The workers take the pending chunks in order, each the next when it is done.
InFlight(s) ==
  {i \in Missing(s) : Cardinality({j \in Missing(s) : j < i}) < Concurrency}

\* The requests page p waits for.
Outstanding(p) ==
  LET s == page[p]
  IN  IF s.pc \in {"idle", "done"} THEN {}
      ELSE IF s.pc = "chunk" THEN {Msg(p, "chunk", s.session, i) : i \in InFlight(s)}
      ELSE {Msg(p, s.pc, s.session, 0)}

\* The user clicks one of the buttons, for the first time or after an error.
Click(p) ==
  /\ page[p].pc = "idle"
  /\ page' = [page EXCEPT ![p].pc = IF page[p].key = None THEN "init" ELSE "status",
                          ![p].session = page[p].key]
     \/ page' = [page EXCEPT ![p].pc = "upload"]
  /\ UNCHANGED <<vars, serving, late, faults>>

\* Send what is missing, or complete when nothing is.
Continue(s, id, got) ==
  [s EXCEPT !.session = id, !.uploaded = got,
            !.pc = IF got = Chunks THEN "complete" ELSE "chunk"]

\* A 200 for m; id and got are the session and the chunks a reply with them lists.
Accept(s, m, id, got) ==
  CASE m.kind = "status" -> Continue(s, id, got)
    [] m.kind = "init" -> Continue([s EXCEPT !.key = id], id, got)
    [] m.kind = "chunk" -> Continue(s, s.session, s.uploaded \cup {m.index})
    [] m.kind = "upload" -> [s EXCEPT !.pc = "done"]
    [] m.kind = "complete" -> [NoRun(s.file, None) EXCEPT !.pc = "done"]

\* Fault: a chunk that failed Attempts times is passed over.
RejectAndGoOn(s, m) ==
  IF m.kind # "chunk" THEN NoRun(s.file, s.key)
  ELSE IF s.tries[m.index] + 1 < Attempts THEN [s EXCEPT !.tries[m.index] = @ + 1]
  ELSE Continue(s, s.session, s.uploaded \cup {m.index})

\* An error: a chunk is tried again, anything else ends the run.
Reject(s, m) ==
  IF m.kind = "chunk" /\ s.tries[m.index] + 1 < Attempts
  THEN [s EXCEPT !.tries[m.index] = @ + 1]
  ELSE NoRun(s.file, s.key)

\* Fault: keeps the session that was not found.
StillRemembered(s) == NoRun(s.file, s.key)

\* A remembered session that is gone is forgotten, and the run begins anew.
Forget(s) == [NoRun(s.file, None) EXCEPT !.pc = "init"]

\* The workers of a run that failed go on without it: what they send is late.
Leftover(m) ==
  IF m.kind = "chunk" /\ Reject(page[m.page], m).pc = "idle"
  THEN {Msg(m.page, "chunk", m.id, i) : i \in Missing(page[m.page]) \ {m.index}}
  ELSE {}

\* The page of m, if it waits for it, is told so and goes on as s.
Tell(m, waits, s) == page' = IF waits THEN [page EXCEPT ![m.page] = s] ELSE page

Refuse(m, waits, rest) ==
  /\ Tell(m, waits, Reject(page[m.page], m))
  /\ late' = rest \cup IF waits THEN Leftover(m) ELSE {}
-----------------------------------------------------------------------------
\* Where a handler's step leads when nothing fails under it.
Onward ==
  [pc \in {"chunk.write"} |-> "session.save"] @@
  [pc \in {"upload.write"} |-> "upload.rename"] @@
  [pc \in {"upload.rename"} |-> "upload.insert"] @@
  [pc \in {"upload.insert"} |-> "upload.reply"] @@
  [pc \in {"complete.stage"} |-> "complete.rename"] @@
  [pc \in {"complete.rename"} |-> "complete.insert"] @@
  [pc \in {"complete.insert"} |-> "complete.remove"]

\* The file system and MySQL did what this step of the service asked of them.
Smooth ==
  CASE req.pc \in DOMAIN Onward -> req'.pc = Onward[req.pc]
    [] req.pc \in {"upload.rollback", "complete.rollback"} -> disk'[req.name] = None
    [] At("session.save") -> sessions'[req.id].st = "ok"
    [] OTHER -> TRUE

\* The same of a first step: it went on, or could not for a row or a torn chunk.
Admitted(m) ==
  \/ req' # Idle
  \/ db[Target] # None
  \/ m.kind = "complete" /\ Merged(m.id) = Torn

\* A fault is a step that is not.
Budget(smooth) ==
  IF smooth THEN UNCHANGED faults ELSE faults > 0 /\ faults' = faults - 1

\* m comes in, from a page that waits for it or late.
Arrives(m, waits) == Ready /\ m \in IF waits THEN Outstanding(m.page) ELSE late

\* The handler goes on with m, or has refused it at once.
Begun(m, waits) ==
  LET rest  == IF waits THEN late ELSE late \ {m}
      fresh == m.kind = "init" /\ sessions[req'.id].st = "absent"
  IN  IF req' = Idle THEN Refuse(m, waits, rest) /\ UNCHANGED serving
      ELSE /\ serving' = [msg |-> m, waits |-> waits, fresh |-> fresh]
           /\ late' = rest
           /\ UNCHANGED page

ReceiveStatus(m) ==
  /\ m.kind = "status" /\ Arrives(m, TRUE)
  /\ Tell(m, TRUE, IF Loadable(m.id)
                   THEN Accept(page[m.page], m, m.id, UploadedChunks(m.id))
                   ELSE Forget(page[m.page]))
  /\ UNCHANGED <<vars, serving, late, faults>>

\* NewUploadId never gives an id twice; which of the others it gives is the same.
Known ==
  {id \in UploadIds : sessions[id].st # "absent"} \cup
  {page[p].key : p \in Pages} \cup {page[p].session : p \in Pages} \cup {m.id : m \in late}

NewUploadId == IF UploadIds \subseteq Known THEN {} ELSE {CHOOSE id \in UploadIds : id \notin Known}

ReceiveInit(m, waits) ==
  /\ m.kind = "init" /\ Arrives(m, waits)
  /\ InitBegin(Target, page[m.page].file)
  /\ \A id \in UploadIds \ NewUploadId :
       sessions[id].st = "absent" => sessions'[id].st = "absent"
  /\ Budget(Admitted(m))
  /\ Begun(m, waits)

\* 404, 400 for the size, or the chunk is taken.
ReceiveChunk(m, waits) ==
  /\ m.kind = "chunk" /\ Arrives(m, waits)
  /\ IF Loadable(m.id) /\ SizeExpected(m.id, m.index, page[m.page].file)
     THEN ChunkBegin(m.id, m.index, page[m.page].file) /\ Budget(Admitted(m))
     ELSE UNCHANGED <<vars, faults>>
  /\ Begun(m, waits)

\* 404, 400 for the chunks, or the completion goes on to the name.
ReceiveComplete(m, waits) ==
  /\ m.kind = "complete" /\ Arrives(m, waits)
  /\ IF Loadable(m.id) /\ UploadedChunks(m.id) = Chunks
     THEN CompleteBegin(m.id) /\ Budget(Admitted(m))
     ELSE UNCHANGED <<vars, faults>>
  /\ Begun(m, waits)

ReceiveUpload(m, waits) ==
  /\ m.kind = "upload" /\ Arrives(m, waits)
  /\ UploadBegin(Target, page[m.page].file)
  /\ Budget(Admitted(m))
  /\ Begun(m, waits)

Receive(m, waits) ==
  \/ ReceiveInit(m, waits) \/ ReceiveChunk(m, waits)
  \/ ReceiveComplete(m, waits) \/ ReceiveUpload(m, waits)

Handling ==
  \/ SessionSave \/ ChunkWrite
  \/ CompleteUnlink \/ CompleteStage \/ CompleteRename \/ CompleteInsert
  \/ CompleteRollback \/ CompleteRemove
  \/ UploadWrite \/ UploadRename \/ UploadInsert \/ UploadRollback
  \/ UploadReply \/ UploadCleanup

\* Which replies are a 200: init fails with its first save alone, chunk ignores
\* whether the save succeeds.
Succeeds ==
  \/ req.pc \in {"complete.remove", "upload.reply"}
  \/ At("chunk.write") /\ req' = Idle /\ sessions' # sessions
  \/ /\ At("session.save")
     /\ serving.msg.kind = "chunk" \/ ~serving.fresh \/ sessions'[req.id].st = "ok"

\* The next step of the handler, and its reply if it sends one.
Handle ==
  /\ Handling
  /\ Budget(Smooth)
  /\ serving' = IF req' = Idle THEN Nobody
                ELSE [serving EXCEPT !.waits = serving.waits /\ ~At("upload.reply")]
  /\ IF Succeeds
     THEN /\ Tell(serving.msg, serving.waits,
                  Accept(page[serving.msg.page], serving.msg, req.id, UploadedChunks(req.id)))
          /\ UNCHANGED late
     ELSE IF req' = Idle THEN Refuse(serving.msg, serving.waits, late)
     ELSE UNCHANGED <<page, late>>

\* A page's request fails: it never arrives, arrives later, or is being served.
\* While the service is down every request fails, and does not arrive.
RequestFails(p) ==
  /\ IF up THEN faults > 0 /\ faults' = faults - 1 ELSE UNCHANGED faults
  /\ \E m \in Outstanding(p) :
       LET served == serving.waits /\ serving.msg = m
           rest   == IF served \/ ~up \/ m.kind = "status" THEN {late}
                     ELSE {late, late \cup {m}}
       IN  /\ \E r \in rest : Refuse(m, TRUE, r)
           /\ serving' = IF served \/ (serving.msg \in Outstanding(p) /\ page'[p].pc = "idle")
                         THEN [serving EXCEPT !.waits = FALSE] ELSE serving
  /\ UNCHANGED vars

CrashWhileServing ==
  /\ Crash
  /\ faults > 0 /\ faults' = faults - 1
  /\ serving' = Nobody
  /\ Refuse(serving.msg, serving.waits, late)

RestartService == Restart /\ UNCHANGED <<page, serving, late, faults>>

\* What goes on by itself, and a user who does not give up.
Progress ==
  \/ \E p \in Pages : Click(p)
  \/ \E p \in Pages : \E m \in Outstanding(p) : ReceiveStatus(m) \/ Receive(m, TRUE)
  \/ Handle

ClientNext ==
  \/ Progress
  \/ \E m \in late : Receive(m, FALSE)
  \/ \E p \in Pages : RequestFails(p)
  \/ CrashWhileServing
  \/ RestartService

\* A service that is down is started again, and while there is something to do
\* it is done.
ClientSpec ==
  /\ ClientInit /\ [][ClientNext]_clientVars
  /\ WF_clientVars(Progress) /\ WF_clientVars(RestartService)
-----------------------------------------------------------------------------
\* A page that reports success is right: the name holds its file, whole, and
\* goes on holding it whatever other pages send.
SuccessMeansStored ==
  \A p \in Pages : page[p].pc = "done" =>
    /\ db[Target] = NewStorageInfo(Target, page[p].file)
    /\ disk[Target] = page[p].file

\* A file is put together from chunks of two only when pages upload two that are
\* told apart by neither size nor chunk size: a file whose size differs is kept out
\* by the sessions, though a chunk of it could pass for one of the other.
MixedOnlyAlike ==
  (\E path \in Paths : disk[path] = Mixed) =>
    \E p, q \in Pages :
      page[p].file # page[q].file /\ ShapeOf[page[p].file] = ShapeOf[page[q].file]

\* The session a page has in hand, or remembers, holds chunks of its file alone:
\* the page remembers it by name, size and date, so that another version of the
\* file is another upload.
OwnChunksOnly ==
  \A p \in Pages : \A id \in {page[p].key, page[p].session} \cap UploadIds :
    Loadable(id) =>
      \A i \in Chunks : sessions[id].chunks[i] \in {page[p].file, Torn, None}

\* When a page goes on to complete, every chunk is there: through errors,
\* crashes and resumed runs it never counts one as sent that is not, unless
\* the session is being removed because the name is taken.
CompleteFindsChunks ==
  \A p \in Pages :
    page[p].pc = "complete" /\ Loadable(page[p].session) =>
      UploadedChunks(page[p].session) = Chunks \/ db[Target] # None

\* A chunk file that was left torn, and is not being written.
TornLeft ==
  ~At("chunk.write") /\ \E id \in UploadIds, i \in Chunks : sessions[id].chunks[i] = Torn

Stored == \E p \in Pages : Held[Target] = page[p].file

\* Users who try again get the name filled, though replies are lost and the
\* service crashes, unless a torn chunk stays.
Converges == <>[]Stored \/ <>[]TornLeft

\* What the resuming upload is for: it gets through.
ResumeSucceeds == <>[]Stored
=============================================================================
