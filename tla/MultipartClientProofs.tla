------------------------ MODULE MultipartClientProofs ------------------------
(***************************************************************************)
(* The pages and the service together, for any pages, contents, sessions   *)
(* and number of faults.  Every step of the two is a step of the service   *)
(* or leaves it alone, so that what holds of the service holds here        *)
(* (ClientsUseService); what the pages believe of it is proved with        *)
(* ClientInv.                                                              *)
(***************************************************************************)
EXTENDS MultipartClient, ServiceProofs, ServiceSessionProofs

PagePCs == {"idle", "init", "status", "chunk", "complete", "upload", "done"}

Page == [pc : PagePCs, file : Contents, key : UploadIds \cup {None},
         session : UploadIds \cup {None}, uploaded : SUBSET Chunks, tries : [Chunks -> Nat]]

\* The requests that a handler may be at work on, or that may arrive late.
Sendable(m) ==
  /\ m.page \in Pages
  /\ m.kind \in {"init", "chunk", "complete", "upload"}
  /\ m.kind \in {"chunk", "complete"} => m.id \in UploadIds
  /\ m.kind = "chunk" => m.index \in Chunks

\* A page has its types, and a session when it needs one.
PagesOK ==
  /\ page \in [Pages -> Page]
  /\ \A p \in Pages : page[p].pc \in {"status", "chunk", "complete"} => page[p].session \in UploadIds

LateOK == \A m \in late : Sendable(m)

\* A request that a page gives up was for the session of its run.
GivenUpBy(m) == Sendable(m) /\ m.id = page[m.page].session

LateMoves == \A m \in late' : m \in late \/ GivenUpBy(m)

\* The steps of the handler of each kind of request.
CompletionPCs == {"complete.unlink", "complete.stage", "complete.rename", "complete.insert",
                  "complete.rollback", "complete.remove"}

UploadPCs == {"upload.write", "upload.rename", "upload.insert", "upload.rollback",
              "upload.reply", "upload.cleanup"}

Serves(pc, kind) ==
  \/ kind = "init" /\ pc = "session.save"
  \/ kind = "chunk" /\ pc \in {"chunk.write", "session.save"}
  \/ kind = "complete" /\ pc \in CompletionPCs
  \/ kind = "upload" /\ pc \in UploadPCs

\* The service works on the request it is said to, and a page that is said to
\* wait for it does.
ServingOK ==
  /\ serving = [msg |-> serving.msg, waits |-> serving.waits, fresh |-> serving.fresh]
  /\ serving.waits \in BOOLEAN
  /\ req.pc = "idle" => req = Idle /\ ~serving.waits
  /\ req.pc # "idle" => Sendable(serving.msg) /\ Serves(req.pc, serving.msg.kind)
  /\ serving.waits => serving.msg.page \in Pages /\ serving.msg \in Outstanding(serving.msg.page)
  /\ req.pc = "upload.cleanup" => ~serving.waits

ClientTypes == TypeInv /\ PagesOK /\ LateOK /\ ServingOK
-----------------------------------------------------------------------------
\* What may become of page p in a step: it waits on, ends its run, begins one,
\* begins anew without its session, sends on, or reports success.
WaitsOn(p) ==
  /\ page'[p].pc = page[p].pc
  /\ page'[p].key = page[p].key
  /\ page'[p].session = page[p].session
  /\ page'[p].uploaded = page[p].uploaded

EndsRun(p) ==
  /\ page'[p].pc = "idle"
  /\ page'[p].key = page[p].key
  /\ page'[p].session = None
  /\ page'[p].uploaded = {}

Begins(p) ==
  /\ page[p].pc = "idle"
  /\ page'[p].pc \in {"init", "status", "upload"}
  /\ page'[p].key = page[p].key
  /\ page'[p].session \in {page[p].key, page[p].session}
  /\ page'[p].pc = "status" => page'[p].session = page[p].key /\ page[p].key # None

BeginsAnew(p) ==
  /\ page'[p].pc = "init"
  /\ page'[p].key = None
  /\ page'[p].session = None

SendsOn(p) ==
  /\ page'[p].pc = IF page'[p].uploaded = Chunks THEN "complete" ELSE "chunk"
  /\ \/ /\ page[p].pc = "status"
        /\ page'[p].key = page[p].key
        /\ page'[p].session = page[p].session
        /\ page'[p].uploaded = UploadedChunks(page[p].session)
        /\ UNCHANGED vars
     \/ /\ serving.waits /\ serving.msg.page = p /\ serving.msg.kind = "init"
        /\ SessionSave
        /\ page'[p].key = req.id
        /\ page'[p].session = req.id
        /\ page'[p].uploaded = UploadedChunks(req.id)
     \/ /\ serving.waits /\ serving.msg.page = p /\ serving.msg.kind = "chunk"
        /\ SessionSave \/ (ChunkWrite /\ sessions' # sessions)
        /\ page[p].pc = "chunk"
        /\ serving.msg.id = page[p].session
        /\ page'[p].key = page[p].key
        /\ page'[p].session = page[p].session
        /\ page'[p].uploaded = page[p].uploaded \cup {serving.msg.index}

Reports(p) ==
  /\ serving.waits /\ serving.msg.page = p
  /\ UploadReply \/ CompleteRemove
  /\ page'[p].pc = "done"
  /\ page'[p].key \in {page[p].key, None}
  /\ page'[p].session \in {page[p].session, None}

\* A page keeps its type and its file.
Kept(p) == page'[p] \in Page /\ page'[p].file = page[p].file

Moves(p) ==
  Kept(p) /\ (WaitsOn(p) \/ EndsRun(p) \/ Begins(p) \/ BeginsAnew(p) \/ SendsOn(p) \/ Reports(p))
-----------------------------------------------------------------------------
\* What a page waits for.
LEMMA OutstandingMsg ==
  ASSUME PagesOK, NEW p \in Pages, NEW m \in Outstanding(p)
  PROVE  /\ m.page = p
         /\ m.kind = page[p].pc
         /\ m.id = page[p].session
         /\ m.kind \in PagePCs \ {"idle", "done"}
         /\ m.kind = "chunk" => m.index \in Chunks
         /\ m.kind # "status" => Sendable(m)
<1>1. page[p].pc \in PagePCs \ {"idle", "done"}
  BY DEF Outstanding, PagesOK, Page
<1>2. CASE page[p].pc = "chunk"
  <2>1. PICK i \in InFlight(page[p]) : m = Msg(p, "chunk", page[p].session, i)
    BY <1>2 DEF Outstanding
  <2>2. i \in Chunks
    BY DEF InFlight, Missing
  <2> QED BY <1>2, <2>1, <2>2 DEF Msg, Sendable, PagesOK, PagePCs
<1>3. CASE page[p].pc # "chunk"
  <2>1. m = Msg(p, page[p].pc, page[p].session, 0)
    BY <1>1, <1>3 DEF Outstanding
  <2> QED BY <1>1, <1>3, <2>1 DEF Msg, Sendable, PagesOK, PagePCs
<1> QED BY <1>2, <1>3

\* It depends on no more than this.
LEMMA OutstandingSame ==
  ASSUME NEW p, WaitsOn(p) PROVE Outstanding(p)' = Outstanding(p)
  BY DEF WaitsOn, Outstanding, InFlight, Missing

\* An error leaves the page waiting for the same, or ends its run.
LEMMA RejectPage ==
  ASSUME NEW s \in Page, NEW m, m.kind = "chunk" => m.index \in Chunks
  PROVE  /\ Reject(s, m) \in Page
         /\ Reject(s, m).file = s.file
         /\ Reject(s, m).key = s.key
         /\ \/ /\ Reject(s, m).pc = s.pc
               /\ Reject(s, m).session = s.session
               /\ Reject(s, m).uploaded = s.uploaded
            \/ /\ Reject(s, m).pc = "idle"
               /\ Reject(s, m).session = None
               /\ Reject(s, m).uploaded = {}
<1>1. NoRun(s.file, s.key) \in Page /\ NoRun(s.file, s.key).file = s.file
      /\ NoRun(s.file, s.key).key = s.key /\ NoRun(s.file, s.key).pc = "idle"
      /\ NoRun(s.file, s.key).session = None /\ NoRun(s.file, s.key).uploaded = {}
  BY DEF NoRun, Page, PagePCs
<1>2. CASE m.kind = "chunk" /\ s.tries[m.index] + 1 < Attempts
  <2> DEFINE t == [s EXCEPT !.tries[m.index] = @ + 1]
  <2>1. t \in Page /\ t.file = s.file /\ t.key = s.key /\ t.pc = s.pc /\ t.session = s.session
        /\ t.uploaded = s.uploaded
    BY <1>2 DEF Page
  <2> QED BY <1>2, <2>1 DEF Reject
<1> QED BY <1>1, <1>2 DEF Reject

\* What Continue makes of a page.
LEMMA ContinuePage ==
  ASSUME NEW s \in Page, NEW id \in UploadIds, NEW got \in SUBSET Chunks
  PROVE  /\ Continue(s, id, got) \in Page
         /\ Continue(s, id, got).file = s.file
         /\ Continue(s, id, got).key = s.key
         /\ Continue(s, id, got).session = id
         /\ Continue(s, id, got).uploaded = got
         /\ Continue(s, id, got).pc = IF got = Chunks THEN "complete" ELSE "chunk"
  BY DEF Continue, Page, PagePCs

\* A refusal reaches the page that waits for it and no other, and the requests
\* it leaves behind are such as may arrive.
LEMMA RefusePages ==
  ASSUME PagesOK, NEW m, NEW waits \in BOOLEAN, NEW rest,
         waits => m.page \in Pages /\ m \in Outstanding(m.page),
         Refuse(m, waits, rest)
  PROVE  /\ page' \in [Pages -> Page]
         /\ \A p \in Pages : Kept(p) /\ (WaitsOn(p) \/ EndsRun(p))
         /\ \A p \in Pages : ~waits \/ p # m.page => page'[p] = page[p]
         /\ \A r \in late' : r \in rest \/ GivenUpBy(r)
<1>1. CASE ~waits
  <2>1. page' = page /\ late' = rest
    BY <1>1 DEF Refuse, Tell
  <2> QED BY <2>1, <1>1 DEF PagesOK, Kept, WaitsOn
<1>2. CASE waits
  <2> DEFINE t == Reject(page[m.page], m)
  <2>1. m.page \in Pages /\ page[m.page] \in Page
    BY <1>2 DEF PagesOK
  <2>2. m.kind = "chunk" => m.index \in Chunks /\ m.id \in UploadIds
    BY <1>2, <2>1, OutstandingMsg DEF Sendable
  <2>3. /\ t \in Page /\ t.file = page[m.page].file /\ t.key = page[m.page].key
        /\ \/ /\ t.pc = page[m.page].pc
              /\ t.session = page[m.page].session
              /\ t.uploaded = page[m.page].uploaded
           \/ t.pc = "idle" /\ t.session = None /\ t.uploaded = {}
    BY <2>1, <2>2, RejectPage
  <2>4. /\ page' \in [Pages -> Page]
        /\ \A p \in Pages : page'[p] = IF p = m.page THEN t ELSE page[p]
    BY <1>2, <2>1, <2>3 DEF Refuse, Tell, PagesOK
  <2> HIDE DEF t
  <2>5. \A p \in Pages : Kept(p) /\ (WaitsOn(p) \/ EndsRun(p))
    BY <2>3, <2>4 DEF PagesOK, Kept, WaitsOn, EndsRun
  <2>6. \A r \in Leftover(m) : GivenUpBy(r)
    <3>1. m.id = page[m.page].session
      BY <1>2, <2>1, OutstandingMsg
    <3> QED BY <2>1, <2>2, <3>1 DEF Leftover, Missing, Msg, Sendable, GivenUpBy
  <2> QED BY <1>2, <2>4, <2>5, <2>6 DEF Refuse
<1> QED BY <1>1, <1>2

\* A success takes the page that waits for it on.
LEMMA AcceptPage ==
  ASSUME NEW s \in Page, NEW m, NEW id \in UploadIds, NEW got \in SUBSET Chunks,
         m.kind \in {"status", "init"}
  PROVE  LET t == Accept(s, m, id, got)
         IN  /\ t \in Page /\ t.file = s.file /\ t.session = id /\ t.uploaded = got
             /\ t.key = IF m.kind = "init" THEN id ELSE s.key
             /\ t.pc = IF got = Chunks THEN "complete" ELSE "chunk"
<1>1. CASE m.kind = "status"
  BY <1>1, ContinuePage DEF Accept
<1>2. CASE m.kind = "init"
  <2> DEFINE k == [s EXCEPT !.key = id]
  <2>1. k \in Page /\ k.file = s.file /\ k.key = id
    BY DEF Page
  <2>2. Accept(s, m, id, got) = Continue(k, id, got)
    BY <1>2 DEF Accept
  <2> HIDE DEF k
  <2> QED BY <1>2, <2>1, <2>2, ContinuePage
<1> QED BY <1>1, <1>2

LEMMA AcceptChunkPage ==
  ASSUME NEW s \in Page, NEW m, NEW id, NEW got, m.kind = "chunk", m.index \in Chunks,
         s.session \in UploadIds
  PROVE  LET t == Accept(s, m, id, got)
         IN  /\ t \in Page /\ t.file = s.file /\ t.key = s.key /\ t.session = s.session
             /\ t.uploaded = s.uploaded \cup {m.index}
             /\ t.pc = IF t.uploaded = Chunks THEN "complete" ELSE "chunk"
<1> DEFINE all == s.uploaded \cup {m.index}
<1>1. all \in SUBSET Chunks
  BY DEF Page
<1>2. Accept(s, m, id, got) = Continue(s, s.session, all)
  BY DEF Accept
<1> HIDE DEF all
<1>3. LET t == Continue(s, s.session, all)
      IN  /\ t \in Page /\ t.file = s.file /\ t.key = s.key /\ t.session = s.session
          /\ t.uploaded = all /\ t.pc = IF all = Chunks THEN "complete" ELSE "chunk"
  BY <1>1, ContinuePage
<1> QED BY <1>2, <1>3 DEF all

LEMMA AcceptLastPage ==
  ASSUME NEW s \in Page, NEW m, NEW id, NEW got, m.kind \in {"upload", "complete"}
  PROVE  LET t == Accept(s, m, id, got)
         IN  /\ t \in Page /\ t.file = s.file /\ t.pc = "done"
             /\ t.key \in {s.key, None} /\ t.session \in {s.session, None}
<1>1. CASE m.kind = "upload"
  BY <1>1 DEF Accept, Page, PagePCs
<1>2. CASE m.kind = "complete"
  <2>1. Accept(s, m, id, got) = [NoRun(s.file, None) EXCEPT !.pc = "done"]
    BY <1>2 DEF Accept
  <2> QED BY <2>1 DEF NoRun, Page, PagePCs
<1> QED BY <1>1, <1>2

\* The steps of the handlers lead to steps of the same handler, or to its end.
LEMMA HandledPCs ==
  ASSUME Equipped(req), NEW kind, Serves(req.pc, kind), Handling
  PROVE  req' = Idle \/ (Serves(req'.pc, kind) /\ req'.pc # "idle")
<1>1. \A pc : Goto(pc) => req'.pc = pc
  BY DEF Goto, Equipped, Requests
<1>2. CASE SessionSave \/ CompleteRemove \/ CompleteRollback \/ UploadRollback
  BY <1>2 DEF SessionSave, CompleteRemove, CompleteRollback, UploadRollback, Finish
<1>3. CASE ChunkWrite
  BY <1>3 DEF ChunkWrite, At, SaveRequest, Request, Finish, Serves, CompletionPCs, UploadPCs
<1>4. CASE CompleteUnlink \/ CompleteStage \/ CompleteRename \/ CompleteInsert
  <2>1. req.pc \in CompletionPCs
    BY <1>4 DEF CompleteUnlink, CompleteStage, CompleteRename, CompleteInsert, At, CompletionPCs
  <2>2. kind = "complete"
    BY <2>1 DEF Serves, CompletionPCs, UploadPCs
  <2>3. \/ Finish \/ Goto("complete.stage") \/ Goto("complete.rename") \/ Goto("complete.insert")
        \/ Goto("complete.remove") \/ Goto("complete.rollback")
    BY <1>4 DEF CompleteUnlink, CompleteStage, CompleteRename, CompleteInsert
  <2> QED BY <1>1, <2>2, <2>3 DEF Finish, Serves, CompletionPCs
<1>5. CASE UploadWrite \/ UploadRename \/ UploadInsert \/ UploadReply
  <2>1. req.pc \in UploadPCs
    BY <1>5 DEF UploadWrite, UploadRename, UploadInsert, UploadReply, At, UploadPCs
  <2>2. kind = "upload"
    BY <2>1 DEF Serves, CompletionPCs, UploadPCs
  <2>3. \/ Finish \/ Goto("upload.rename") \/ Goto("upload.insert")
        \/ Goto("upload.reply") \/ Goto("upload.rollback") \/ Goto("upload.cleanup")
    BY <1>5 DEF UploadWrite, UploadRename, UploadInsert, UploadReply
  <2> QED BY <1>1, <2>2, <2>3 DEF Finish, Serves, UploadPCs
<1>6. CASE UploadCleanup
  BY <1>6 DEF UploadCleanup, At, Finish
<1> QED BY <1>2, <1>3, <1>4, <1>5, <1>6 DEF Handling

\* A request whose run goes on is still waited for.
LEMMA StillWaited ==
  ASSUME NEW p, NEW m \in Outstanding(p), WaitsOn(p) PROVE m \in Outstanding(p)'
  BY OutstandingSame
-----------------------------------------------------------------------------
\* What every step of a page and of the service does to the pages, and to what
\* is said of the request in service.
StepOK ==
  /\ page' \in [Pages -> Page]
  /\ \A p \in Pages : Moves(p)
  /\ LateMoves
  /\ ServingOK'

LEMMA UserSteps ==
  ASSUME ClientTypes, NEW p \in Pages, Click(p) PROVE UNCHANGED vars /\ StepOK
<1> DEFINE pc1 == IF page[p].key = None THEN "init" ELSE "status"
           s == [page[p] EXCEPT !.pc = pc1, !.session = page[p].key]
           u == [page[p] EXCEPT !.pc = "upload"]
<1>1. page \in [Pages -> Page] /\ page[p] \in Page /\ page[p].pc = "idle"
  BY DEF ClientTypes, PagesOK, Click
<1>2. page' = [page EXCEPT ![p] = s] \/ page' = [page EXCEPT ![p] = u]
  BY DEF Click
<1>3. s \in Page /\ s.file = page[p].file /\ s.pc = pc1 /\ s.key = page[p].key
      /\ s.session = page[p].key
  BY <1>1 DEF Page, PagePCs
<1>4. u \in Page /\ u.file = page[p].file /\ u.pc = "upload" /\ u.key = page[p].key
      /\ u.session = page[p].session
  BY <1>1 DEF Page, PagePCs
<1>5. UNCHANGED <<vars, serving, late>>
  BY DEF Click
<1> HIDE DEF s, u
<1>6. page' \in [Pages -> Page] /\ Kept(p) /\ Begins(p)
  BY <1>1, <1>2, <1>3, <1>4 DEF Kept, Begins
<1>7. \A q \in Pages \ {p} : page'[q] = page[q] /\ Kept(q) /\ WaitsOn(q)
  BY <1>1, <1>2 DEF Kept, WaitsOn
<1>8. ServingOK'
  <2>1. serving.waits => serving.msg.page \in Pages \ {p}
    BY <1>1 DEF ClientTypes, ServingOK, Outstanding
  <2>2. serving.waits => serving.msg \in Outstanding(serving.msg.page)'
    BY <1>5, <1>7, <2>1, StillWaited DEF ClientTypes, ServingOK
  <2> QED BY <1>5, <2>2 DEF ClientTypes, ServingOK, vars
<1> QED BY <1>5, <1>6, <1>7, <1>8 DEF StepOK, Moves, LateMoves

LEMMA StatusSteps ==
  ASSUME ClientTypes, NEW p \in Pages, NEW m \in Outstanding(p), ReceiveStatus(m)
  PROVE  UNCHANGED vars /\ StepOK
<1> DEFINE s == Accept(page[p], m, m.id, UploadedChunks(m.id))
           f == Forget(page[p])
<1>1. /\ page \in [Pages -> Page] /\ page[p] \in Page /\ m.page = p /\ m.kind = "status"
      /\ page[p].pc = "status" /\ m.id = page[p].session /\ m.id \in UploadIds
  BY OutstandingMsg DEF ClientTypes, PagesOK, ReceiveStatus
<1>2. page' = [page EXCEPT ![p] = s] \/ page' = [page EXCEPT ![p] = f]
  BY <1>1 DEF ReceiveStatus, Tell
<1>3. UNCHANGED <<vars, serving, late>>
  BY DEF ReceiveStatus
<1>4. UploadedChunks(m.id) \in SUBSET Chunks
  BY DEF UploadedChunks, Chunks
<1>5. /\ s \in Page /\ s.file = page[p].file /\ s.session = m.id /\ s.uploaded = UploadedChunks(m.id)
      /\ s.key = page[p].key
      /\ s.pc = IF s.uploaded = Chunks THEN "complete" ELSE "chunk"
  BY <1>1, <1>4, AcceptPage
<1>6. f \in Page /\ f.file = page[p].file /\ f.pc = "init" /\ f.key = None /\ f.session = None
  BY <1>1 DEF Forget, NoRun, Page, PagePCs
<1> HIDE DEF s, f
<1>7. page' \in [Pages -> Page] /\ Moves(p)
  BY <1>1, <1>2, <1>3, <1>5, <1>6 DEF Kept, Moves, SendsOn, BeginsAnew
<1>8. \A q \in Pages \ {p} : Kept(q) /\ WaitsOn(q)
  BY <1>1, <1>2 DEF Kept, WaitsOn
<1>9. ServingOK'
  BY <1>3 DEF ClientTypes, ServingOK, ReceiveStatus, Arrives, Ready, vars
<1> QED BY <1>3, <1>7, <1>8, <1>9 DEF StepOK, Moves, LateMoves

\* Nothing happens to the pages when none of them is told anything.
LEMMA PagesStay == ASSUME PagesOK, UNCHANGED page
                   PROVE  page' \in [Pages -> Page] /\ \A p \in Pages : Moves(p)
  BY DEF PagesOK, Moves, Kept, WaitsOn

\* A request that comes in is refused, or becomes the one in service.
LEMMA BegunSteps ==
  ASSUME ClientTypes, NEW m, NEW waits \in BOOLEAN, Sendable(m), Arrives(m, waits), Begun(m, waits),
         req' = Idle \/ (Serves(req'.pc, m.kind) /\ req'.pc \notin {"idle", "upload.cleanup"})
  PROVE  StepOK
<1> DEFINE rest == IF waits THEN late ELSE late \ {m}
<1>1. /\ PagesOK /\ LateOK /\ m.page \in Pages /\ ~serving.waits
      /\ waits => m \in Outstanding(m.page)
  BY DEF ClientTypes, ServingOK, Arrives, Ready, Sendable
<1>2. CASE req' = Idle
  <2>1. Refuse(m, waits, rest) /\ UNCHANGED serving
    BY <1>2 DEF Begun
  <2>2. /\ page' \in [Pages -> Page] /\ \A p \in Pages : Kept(p) /\ (WaitsOn(p) \/ EndsRun(p))
        /\ \A r \in late' : r \in rest \/ GivenUpBy(r)
    BY <1>1, <2>1, RefusePages
  <2>3. ServingOK'
    BY <1>1, <1>2, <2>1, IdleEquipped DEF ClientTypes, ServingOK
  <2> QED BY <2>2, <2>3 DEF StepOK, Moves, LateMoves
<1>3. CASE req' # Idle
  <2>1. UNCHANGED page /\ late' = rest
    BY <1>3 DEF Begun
  <2>2. /\ serving'.msg = m /\ serving'.waits = waits
        /\ serving' = [msg |-> serving'.msg, waits |-> serving'.waits, fresh |-> serving'.fresh]
    BY <1>3 DEF Begun
  <2>3. Serves(req'.pc, m.kind) /\ req'.pc # "idle"
    BY <1>3
  <2>4. waits => m \in Outstanding(m.page)'
    BY <1>1, <2>1 DEF Outstanding
  <2>5. req'.pc # "upload.cleanup" \/ ~waits
    BY <1>3
  <2>6. ServingOK'
    BY <1>1, <2>2, <2>3, <2>4, <2>5 DEF ServingOK
  <2> QED BY <1>1, <2>1, <2>6, PagesStay DEF StepOK, LateMoves
<1> QED BY <1>2, <1>3

\* A request that arrives is handled as the service handles any.
LEMMA ReceiveSteps ==
  ASSUME ClientTypes, NEW m, NEW waits \in BOOLEAN, Receive(m, waits),
         IF waits THEN m.page \in Pages ELSE m \in late
  PROVE  (Next \/ UNCHANGED vars) /\ StepOK
<1>1. Arrives(m, waits) /\ Begun(m, waits) /\ m.kind # "status"
  BY DEF Receive, ReceiveInit, ReceiveChunk, ReceiveComplete, ReceiveUpload
<1>2. Sendable(m)
  BY <1>1, OutstandingMsg DEF ClientTypes, LateOK, Arrives
<1>3. /\ req = Idle /\ Target \in Names /\ page[m.page].file \in Contents
      /\ m.kind \in {"chunk", "complete"} => m.id \in UploadIds
      /\ m.kind = "chunk" => m.index \in Chunks
  BY <1>1, <1>2, ClientAssumption DEF ClientTypes, PagesOK, Page, ServingOK, Arrives, Ready, Sendable
<1>4. CASE ReceiveInit(m, waits)
  <2>1. InitBegin(Target, page[m.page].file) /\ m.kind = "init"
    BY <1>4 DEF ReceiveInit
  <2>2. Next
    BY <1>3, <2>1 DEF Next, Multipart
  <2>3. UNCHANGED req \/ req'.pc = "session.save"
    BY <2>1 DEF InitBegin, SaveRequest, Request
  <2> QED BY <1>1, <1>2, <1>3, <2>1, <2>2, <2>3, BegunSteps DEF Serves
<1>5. CASE ReceiveChunk(m, waits)
  <2>1. m.kind = "chunk" /\ (ChunkBegin(m.id, m.index, page[m.page].file) \/ UNCHANGED vars)
    BY <1>5 DEF ReceiveChunk
  <2>2. Next \/ UNCHANGED vars
    BY <1>3, <2>1 DEF Next, Multipart, Chunks
  <2>3. UNCHANGED req \/ req'.pc = "chunk.write"
    BY <2>1 DEF ChunkBegin, ChunkRequest, Request, vars
  <2> QED BY <1>1, <1>2, <1>3, <2>1, <2>2, <2>3, BegunSteps DEF Serves
<1>6. CASE ReceiveComplete(m, waits)
  <2>1. m.kind = "complete" /\ (CompleteBegin(m.id) \/ UNCHANGED vars)
    BY <1>6 DEF ReceiveComplete
  <2>2. Next \/ UNCHANGED vars
    BY <1>3, <2>1 DEF Next, Multipart
  <2>3. UNCHANGED req \/ req'.pc = "complete.unlink"
    BY <2>1 DEF CompleteBegin, CompleteRequest, Request, vars
  <2> QED BY <1>1, <1>2, <1>3, <2>1, <2>2, <2>3, BegunSteps DEF Serves, CompletionPCs
<1>7. CASE ReceiveUpload(m, waits)
  <2>1. UploadBegin(Target, page[m.page].file) /\ m.kind = "upload"
    BY <1>7 DEF ReceiveUpload
  <2>2. Next
    BY <1>3, <2>1 DEF Next, Upload
  <2>3. UNCHANGED req \/ req'.pc = "upload.write"
    BY <2>1 DEF UploadBegin, Request
  <2> QED BY <1>1, <1>2, <1>3, <2>1, <2>2, <2>3, BegunSteps DEF Serves, UploadPCs
<1> QED BY <1>4, <1>5, <1>6, <1>7 DEF Receive

\* A handler that goes on, and what it tells the page when it has done.
LEMMA HandleSteps == ASSUME ClientTypes, Handle PROVE Next /\ StepOK
<1> DEFINE m == serving.msg
           s == Accept(page[m.page], m, req.id, UploadedChunks(req.id))
<1>0. Next
  BY DEF Handle, Handling, Next, Multipart, Upload
<1>1. req.pc # "idle"
  BY Zenon DEF Handle, Handling, At, SessionSave, ChunkWrite, CompleteUnlink, CompleteStage, CompleteRename,
     CompleteInsert, CompleteRollback, CompleteRemove, UploadWrite, UploadRename, UploadInsert,
     UploadRollback, UploadReply, UploadCleanup
<1>2. /\ Sendable(m) /\ Serves(req.pc, m.kind) /\ Equipped(req) /\ PagesOK /\ LateOK
      /\ serving.waits \in BOOLEAN
      /\ serving.waits => m \in Outstanding(m.page)
  BY <1>1 DEF ClientTypes, ServingOK, TypeInv, Typed
<1>3. m.page \in Pages /\ page[m.page] \in Page
  BY <1>2 DEF Sendable, PagesOK
<1>4. req' = Idle \/ (Serves(req'.pc, m.kind) /\ req'.pc # "idle")
  BY <1>2, HandledPCs DEF Handle
<1>5. \A pc : Goto(pc) => req'.pc = pc
  BY <1>2 DEF Goto, Equipped, Requests
<1>6. /\ req' = Idle => serving' = Nobody
      /\ req' # Idle => /\ serving'.msg = m /\ serving'.waits \in BOOLEAN
                        /\ serving' = [msg |-> m, waits |-> serving'.waits, fresh |-> serving'.fresh]
                        /\ serving'.waits => serving.waits /\ ~At("upload.reply")
  BY DEF Handle, ClientTypes, ServingOK
<1>7. req'.pc = "upload.cleanup" => ~serving'.waits
  <2>1. SUFFICES ASSUME req'.pc = "upload.cleanup", serving'.waits PROVE FALSE
    OBVIOUS
  <2>2. req' # Idle
    BY <2>1, IdleEquipped
  <2>3. serving.waits /\ req.pc # "upload.reply"
    BY <1>6, <2>1, <2>2 DEF At
  <2>4. req.pc # "upload.cleanup"
    BY <2>3 DEF ClientTypes, ServingOK
  <2>5. Serves("upload.cleanup", m.kind)
    BY <1>4, <2>1, <2>2
  <2>6. m.kind = "upload" /\ req.pc \in UploadPCs
    BY <1>2, <2>5 DEF Serves, CompletionPCs
  <2>7. UploadWrite \/ UploadRename \/ UploadInsert \/ UploadRollback
    BY <2>3, <2>4, <2>6 DEF Handle, Handling, At, SessionSave, ChunkWrite, CompleteUnlink, CompleteStage,
       CompleteRename, CompleteInsert, CompleteRollback, CompleteRemove, UploadReply, UploadCleanup, UploadPCs
  <2> QED BY <1>5, <2>1, <2>2, <2>7 DEF UploadWrite, UploadRename, UploadInsert, UploadRollback, Finish
<1>8. ASSUME \A p \in Pages : Moves(p), page' \in [Pages -> Page], LateMoves,
             req' # Idle => UNCHANGED page \/ ~serving'.waits
      PROVE  StepOK
  <2>1. CASE req' = Idle
    <3>1. /\ serving' = [msg |-> serving'.msg, waits |-> serving'.waits, fresh |-> serving'.fresh]
          /\ serving'.waits = FALSE
      BY <1>6, <2>1 DEF Nobody
    <3>2. req'.pc = "idle"
      BY <2>1, IdleEquipped
    <3>3. ServingOK'
      BY <2>1, <3>1, <3>2 DEF ServingOK
    <3> QED BY <1>8, <3>3 DEF StepOK
  <2>2. CASE req' # Idle
    <3>1. serving'.waits => m \in Outstanding(m.page)'
      BY <1>2, <1>6, <1>8, <2>2 DEF Outstanding
    <3>2. ServingOK'
      BY <1>2, <1>3, <1>4, <1>6, <1>7, <2>2, <3>1 DEF ServingOK
    <3> QED BY <1>8, <3>2 DEF StepOK
  <2> QED BY <2>1, <2>2
<1>9. CASE ~Succeeds /\ req' # Idle
  <2>1. UNCHANGED <<page, late>>
    BY <1>9 DEF Handle
  <2> QED BY <1>0, <1>2, <1>8, <2>1, PagesStay DEF LateMoves
<1>10. CASE ~Succeeds /\ req' = Idle
  <2>1. Refuse(m, serving.waits, late)
    BY <1>10 DEF Handle
  <2>2. /\ page' \in [Pages -> Page] /\ \A p \in Pages : Kept(p) /\ (WaitsOn(p) \/ EndsRun(p))
        /\ \A r \in late' : r \in late \/ GivenUpBy(r)
    BY <1>2, <1>3, <2>1, RefusePages
  <2> QED BY <1>0, <1>2, <1>8, <1>10, <2>2 DEF Moves, LateMoves
<1>11. CASE Succeeds /\ ~serving.waits
  <2>1. UNCHANGED <<page, late>>
    BY <1>11 DEF Handle, Tell
  <2> QED BY <1>0, <1>2, <1>8, <2>1, PagesStay DEF LateMoves
<1>12. CASE Succeeds /\ serving.waits
  <2>1. page' = [page EXCEPT ![m.page] = s] /\ UNCHANGED late
    BY <1>12 DEF Handle, Tell
  <2>2. \A q \in Pages \ {m.page} : Kept(q) /\ WaitsOn(q)
    BY <1>2, <2>1 DEF PagesOK, Kept, WaitsOn
  <2>3. ASSUME s \in Page, s.file = page[m.page].file, Moves(m.page),
               req' # Idle => ~serving'.waits
        PROVE  StepOK
    BY <1>2, <1>8, <2>1, <2>2, <2>3 DEF PagesOK, Moves, LateMoves
  <2>4. m.kind = page[m.page].pc /\ m.id = page[m.page].session
    BY <1>2, <1>3, <1>12, OutstandingMsg
  <2> HIDE DEF s
  <2>5. page'[m.page] = s
    BY <1>2, <1>3, <2>1 DEF PagesOK
  <2>6. CASE m.kind = "init"
    <3>1. req.pc = "session.save"
      BY <1>2, <2>6 DEF Serves
    <3>2. SessionSave /\ req' = Idle /\ req.id \in UploadIds
      BY <1>2, <3>1 DEF Handle, Handling, At, SessionSave, ChunkWrite, CompleteUnlink, CompleteStage,
         CompleteRename, CompleteInsert, CompleteRollback, CompleteRemove, UploadWrite, UploadRename,
         UploadInsert, UploadRollback, UploadReply, UploadCleanup, Finish, Equipped, SessionPCs
    <3>3. UploadedChunks(req.id) \in SUBSET Chunks
      BY DEF UploadedChunks, Chunks
    <3>4. /\ s \in Page /\ s.file = page[m.page].file /\ s.session = req.id
          /\ s.uploaded = UploadedChunks(req.id) /\ s.key = req.id
          /\ s.pc = IF s.uploaded = Chunks THEN "complete" ELSE "chunk"
      BY <1>3, <2>6, <3>2, <3>3, AcceptPage DEF s
    <3> QED BY <1>0, <1>12, <2>3, <2>5, <2>6, <3>2, <3>4 DEF Moves, Kept, SendsOn
  <2>7. CASE m.kind = "chunk"
    <3>1. req.pc \in {"session.save", "chunk.write"}
      BY <1>2, <2>7 DEF Serves
    <3>2. SessionSave \/ ChunkWrite
      BY <3>1 DEF Handle, Handling, At, SessionSave, ChunkWrite, CompleteUnlink, CompleteStage,
         CompleteRename, CompleteInsert, CompleteRollback, CompleteRemove, UploadWrite, UploadRename,
         UploadInsert, UploadRollback, UploadReply, UploadCleanup
    <3>3. req' = Idle /\ (SessionSave \/ (ChunkWrite /\ sessions' # sessions))
      BY <1>12, <3>1, <3>2 DEF Succeeds, SessionSave, ChunkWrite, At, Finish
    <3>4. /\ s \in Page /\ s.file = page[m.page].file /\ s.key = page[m.page].key
          /\ s.session = page[m.page].session
          /\ s.uploaded = page[m.page].uploaded \cup {m.index}
          /\ s.pc = IF s.uploaded = Chunks THEN "complete" ELSE "chunk"
      BY <1>2, <1>3, <2>4, <2>7, AcceptChunkPage DEF s, Sendable
    <3> QED BY <1>0, <1>12, <2>3, <2>4, <2>5, <2>7, <3>3, <3>4 DEF Moves, Kept, SendsOn
  <2>8. CASE m.kind \in {"upload", "complete"}
    <3>1. req.pc \in UploadPCs \cup CompletionPCs
      BY <1>2, <2>8 DEF Serves
    <3>2. req.pc \in {"upload.reply", "complete.remove"}
      BY <1>12, <3>1 DEF Succeeds, At, UploadPCs, CompletionPCs
    <3>3. UploadReply \/ CompleteRemove
      BY <3>2 DEF Handle, Handling, At, SessionSave, ChunkWrite, CompleteUnlink, CompleteStage,
         CompleteRename, CompleteInsert, CompleteRollback, UploadWrite, UploadRename,
         UploadInsert, UploadRollback, UploadCleanup
    <3>4. req' # Idle => ~serving'.waits
      BY <1>6, <3>3 DEF UploadReply, CompleteRemove, Finish
    <3>5. /\ s \in Page /\ s.file = page[m.page].file /\ s.pc = "done"
          /\ s.key \in {page[m.page].key, None} /\ s.session \in {page[m.page].session, None}
      BY <1>3, <2>8, AcceptLastPage DEF s
    <3> QED BY <1>0, <1>12, <2>3, <2>5, <3>3, <3>4, <3>5 DEF Moves, Kept, Reports
  <2> QED BY <1>2, <2>6, <2>7, <2>8 DEF Sendable
<1> QED BY <1>0, <1>9, <1>10, <1>11, <1>12

\* A page whose request fails stops waiting for it, and for the others if its
\* run ends.
LEMMA FailSteps ==
  ASSUME ClientTypes, NEW p \in Pages, RequestFails(p) PROVE UNCHANGED vars /\ StepOK
<1>1. PICK m \in Outstanding(p) :
        LET served == serving.waits /\ serving.msg = m
            rest   == IF served \/ ~up \/ m.kind = "status" THEN {late}
                      ELSE {late, late \cup {m}}
        IN  /\ \E r \in rest : Refuse(m, TRUE, r)
            /\ serving' = IF served \/ (serving.msg \in Outstanding(p) /\ page'[p].pc = "idle")
                          THEN [serving EXCEPT !.waits = FALSE] ELSE serving
  BY DEF RequestFails
<1>2. PICK r : Refuse(m, TRUE, r) /\ (r = late \/ (m.kind # "status" /\ r = late \cup {m}))
  BY <1>1
<1>3. m.page = p /\ (m.kind # "status" => GivenUpBy(m)) /\ PagesOK
  BY OutstandingMsg DEF ClientTypes, GivenUpBy
<1>4. /\ page' \in [Pages -> Page] /\ \A q \in Pages : Kept(q) /\ (WaitsOn(q) \/ EndsRun(q))
      /\ \A q \in Pages : q # p => page'[q] = page[q]
      /\ \A x \in late' : x \in r \/ GivenUpBy(x)
  BY <1>2, <1>3, RefusePages
<1>5. UNCHANGED vars
  BY DEF RequestFails
<1>6. ServingOK'
  <2>1. CASE serving' = [serving EXCEPT !.waits = FALSE]
    <3>1. /\ serving' = [msg |-> serving'.msg, waits |-> serving'.waits, fresh |-> serving'.fresh]
          /\ serving'.waits = FALSE /\ serving'.msg = serving.msg
      BY <2>1 DEF ClientTypes, ServingOK
    <3> QED BY <1>5, <3>1 DEF ClientTypes, ServingOK, vars
  <2>2. CASE /\ ~(serving.msg \in Outstanding(p) /\ page'[p].pc = "idle")
             /\ serving' = serving
    <3>1. ASSUME NEW q \in Pages, serving.msg.page = q, serving.waits
          PROVE  serving.msg \in Outstanding(q)'
      <4>1. serving.msg \in Outstanding(q)
        BY <3>1 DEF ClientTypes, ServingOK
      <4>2. WaitsOn(q)
        BY <1>4, <2>2, <3>1, <4>1 DEF EndsRun, WaitsOn
      <4> QED BY <4>1, <4>2, OutstandingSame
    <3>2. serving.waits => serving.msg.page \in Pages
      BY DEF ClientTypes, ServingOK
    <3>3. serving'.waits => serving'.msg.page \in Pages /\ serving'.msg \in Outstanding(serving.msg.page)'
      BY <2>2, <3>1, <3>2
    <3> QED BY <1>5, <2>2, <3>3 DEF ClientTypes, ServingOK, vars
  <2> QED BY <1>1, <2>1, <2>2
<1>7. LateMoves
  BY <1>2, <1>3, <1>4 DEF LateMoves
<1> QED BY <1>4, <1>5, <1>6, <1>7 DEF StepOK, Moves

\* After a crash nothing is in service.
LEMMA CrashSteps == ASSUME ClientTypes, CrashWhileServing PROVE Crash /\ StepOK
<1> DEFINE m == serving.msg
<1>1. /\ Refuse(m, serving.waits, late) /\ serving' = Nobody /\ Crash /\ req' = Idle
  BY DEF CrashWhileServing, Crash
<1>2. /\ PagesOK /\ serving.waits \in BOOLEAN
      /\ serving.waits => m.page \in Pages /\ m \in Outstanding(m.page)
  BY DEF ClientTypes, ServingOK
<1>3. /\ page' \in [Pages -> Page] /\ \A p \in Pages : Kept(p) /\ (WaitsOn(p) \/ EndsRun(p))
      /\ \A r \in late' : r \in late \/ GivenUpBy(r)
  BY <1>1, <1>2, RefusePages
<1>4. ServingOK'
  <2>1. /\ serving' = [msg |-> serving'.msg, waits |-> serving'.waits, fresh |-> serving'.fresh]
        /\ serving'.waits = FALSE /\ req'.pc = "idle"
    BY <1>1, IdleEquipped DEF Nobody
  <2> QED BY <1>1, <2>1 DEF ServingOK
<1> QED BY <1>1, <1>2, <1>3, <1>4 DEF StepOK, Moves, LateMoves

LEMMA RestartSteps ==
  ASSUME ClientTypes, (RestartService \/ UNCHANGED clientVars) PROVE (Next \/ UNCHANGED vars) /\ StepOK
<1>1. UNCHANGED <<page, serving, late, req>> /\ (Restart \/ UNCHANGED vars)
  BY DEF RestartService, Restart, clientVars, vars
<1>2. ServingOK'
  BY <1>1 DEF ClientTypes, ServingOK, Outstanding
<1>3. LateMoves
  BY <1>1 DEF LateMoves
<1> QED BY <1>1, <1>2, <1>3, PagesStay DEF ClientTypes, StepOK, Next

\* Every step of the two is a step of the service or leaves it alone.
LEMMA ClientSteps ==
  ASSUME ClientTypes, [ClientNext]_clientVars PROVE [Next]_vars /\ StepOK
<1>1. ASSUME NEW p \in Pages, NEW m \in Outstanding(p), ReceiveStatus(m) \/ Receive(m, TRUE)
      PROVE  [Next]_vars /\ StepOK
  <2>1. m.page = p
    BY OutstandingMsg DEF ClientTypes
  <2> QED BY <1>1, <2>1, StatusSteps, ReceiveSteps
<1>2. ASSUME NEW m \in late, Receive(m, FALSE) PROVE [Next]_vars /\ StepOK
  BY <1>2, ReceiveSteps
<1>3. CASE CrashWhileServing
  BY <1>3, CrashSteps DEF Next
<1>4. CASE Progress
  BY <1>1, <1>4, UserSteps, HandleSteps DEF Progress
<1> QED BY <1>2, <1>3, <1>4, FailSteps, RestartSteps DEF ClientNext

\* Pages keep their types, in any step.
LEMMA PagesTyped ==
  ASSUME ClientTypes, StepOK PROVE PagesOK'
<1>1. ASSUME NEW p \in Pages, page'[p].pc \in {"status", "chunk", "complete"}
      PROVE  page'[p].session \in UploadIds
  <2>1. page[p] \in Page /\ (page[p].pc \in {"status", "chunk", "complete"} => page[p].session \in UploadIds)
    BY DEF ClientTypes, PagesOK
  <2>2. CASE WaitsOn(p)
    BY <1>1, <2>1, <2>2 DEF WaitsOn
  <2>3. CASE Begins(p)
    BY <1>1, <2>1, <2>3 DEF Begins, Page
  <2>4. CASE SendsOn(p)
    <3>1. SessionSave => req.id \in UploadIds
      BY DEF SessionSave, At, ClientTypes, TypeInv, Typed, Equipped, SessionPCs
    <3> QED BY <2>1, <2>4, <3>1 DEF SendsOn
  <2>5. CASE EndsRun(p) \/ BeginsAnew(p) \/ Reports(p)
    BY <1>1, <2>5 DEF EndsRun, BeginsAnew, Reports
  <2> QED BY <2>2, <2>3, <2>4, <2>5 DEF StepOK, Moves
<1> QED BY <1>1 DEF StepOK, PagesOK

LEMMA ClientTypesKept == ASSUME ClientTypes, [ClientNext]_clientVars PROVE ClientTypes'
<1>1. [Next]_vars /\ StepOK
  BY ClientSteps
<1>2. TypeInv'
  BY <1>1, NextTypes, StutterTypes DEF ClientTypes
<1>3. LateOK'
  BY <1>1 DEF ClientTypes, StepOK, LateMoves, LateOK, GivenUpBy, Sendable
<1> QED BY <1>1, <1>2, <1>3, PagesTyped DEF ClientTypes, StepOK

LEMMA ClientInitTypes == ASSUME ClientInit PROVE ClientTypes
<1>1. PICK file \in Selections : page = [p \in Pages |-> NoRun(file[p], None)]
  BY DEF ClientInit
<1>2. \A p \in Pages : NoRun(file[p], None) \in Page /\ NoRun(file[p], None).pc = "idle"
  BY ClientAssumption DEF NoRun, Page, PagePCs
<1>3. PagesOK
  BY <1>1, <1>2 DEF PagesOK
<1>4. ServingOK
  <2>1. req = Idle /\ req.pc = "idle" /\ serving = [msg |-> None, waits |-> FALSE, fresh |-> FALSE]
    BY IdleEquipped DEF ClientInit, Init, Nobody
  <2> QED BY <2>1 DEF ServingOK
<1> QED BY <1>3, <1>4, InitTypes DEF ClientInit, ClientTypes, LateOK

\* The requests that are under way fit what the pages and the service are at.
THEOREM ClientTyped == ClientSpec => []ClientTypes
  BY ClientInitTypes, ClientTypesKept, PTL DEF ClientSpec

\* The pages use the service as it is: whatever holds of it under any requests
\* holds of it here.
THEOREM ClientsUseService == ClientSpec => Spec
<1>1. ClientInit => Init
  BY DEF ClientInit
<1>2. ClientTypes /\ [ClientNext]_clientVars => [Next]_vars
  BY ClientSteps
<1> QED BY <1>1, <1>2, ClientTyped, PTL DEF ClientSpec, Spec

\* Through them too the names are a store.
THEOREM ClientsSeeAStore == ASSUME NamesApart, TrustedFaults PROVE ClientSpec => ImplementsStore
  BY ClientsUseService, ServiceIsStore
-----------------------------------------------------------------------------
\* The invariant about what is stored.

\* All of it is under one name.
TargetOnly ==
  /\ \A id \in UploadIds : sessions[id].st # "absent" => sessions[id].name = Target
  /\ req.pc \in FilePCs => req.name = Target

\* A session that a page has, that a late chunk of it is for, or that is being
\* written to, is of the shape of its file.
ShapesOK ==
  /\ \A p \in Pages : \A id \in {page[p].key, page[p].session} \cap UploadIds :
       sessions[id].st # "absent" => sessions[id].shape = ShapeOf[page[p].file]
  /\ \A m \in late : m.kind = "chunk" /\ sessions[m.id].st # "absent" =>
       sessions[m.id].shape = ShapeOf[page[m.page].file]
  /\ req.pc \in {"session.save", "chunk.write"} =>
       sessions[req.id].shape = ShapeOf[page[serving.msg.page].file]

\* A chunk that is written is one of the page that sent it, and those that are there
\* are of files that pages upload, of the shape of the session.
ChunksFit ==
  /\ req.pc = "chunk.write" => req.info.body = page[serving.msg.page].file
  /\ \A id \in UploadIds, i \in Chunks : sessions[id].chunks[i] \in Contents =>
       \E p \in Pages : /\ page[p].file = sessions[id].chunks[i]
                       /\ ShapeOf[page[p].file] = sessions[id].shape

\* No two pages upload files that size and chunk size do not tell apart.
FilesApart ==
  \A p, q \in Pages : ShapeOf[page[p].file] = ShapeOf[page[q].file] => page[p].file = page[q].file

\* Then nothing is put together from chunks of two.
WholeInv == FilesApart => BodyWhole /\ NothingMixed

\* No two contents at all are of one shape.
ShapesApart == \A c, d \in Contents : ShapeOf[c] = ShapeOf[d] => c = d

\* What is written for a page that waits is its file.
BodyOK == serving.waits /\ req.pc \in FilePCs => req.info.body = page[serving.msg.page].file

\* A success that a page shows is a promise.
Promised == \A p \in Pages : page[p].pc = "done" => acked[Target] = page[p].file

\* The chunks a page counts as sent are there, unless the name is taken.
Counted ==
  /\ \A p \in Pages :
       page[p].pc \in {"chunk", "complete"} /\ db[Target] = None /\ sessions[page[p].session].st # "absent" =>
         \A i \in page[p].uploaded : sessions[page[p].session].chunks[i] # None
  /\ \A p \in Pages : page[p].pc = "complete" => page[p].uploaded = Chunks
  /\ req.pc \in {"session.save", "chunk.write"} /\ serving.msg.kind = "chunk" =>
       /\ req.id = serving.msg.id
       /\ req.pc = "chunk.write" => req.index = serving.msg.index
       /\ sessions[req.id].chunks[serving.msg.index] # None

SessionInv == TargetOnly /\ ShapesOK /\ ChunksFit /\ Counted

ClientInv == SessionInv /\ BodyOK /\ Promised
-----------------------------------------------------------------------------
\* The steps of the two by what the service does in them.
Received(m, waits) ==
  /\ waits \in BOOLEAN
  /\ Sendable(m)
  /\ Receive(m, waits)
  /\ waits => m \in Outstanding(m.page)

LEMMA ClientCases ==
  ASSUME ClientTypes, [ClientNext]_clientVars
  PROVE  \/ UNCHANGED vars /\ serving'.msg = serving.msg /\ (serving'.waits => serving.waits)
         \/ \E m, waits : Received(m, waits)
         \/ Handle
         \/ CrashWhileServing
         \/ RestartService
<1> DEFINE quiet == UNCHANGED vars /\ serving'.msg = serving.msg /\ (serving'.waits => serving.waits)
<1>1. ASSUME NEW p \in Pages, Click(p) PROVE quiet
  BY <1>1 DEF Click
<1>2. ASSUME NEW p \in Pages, NEW m \in Outstanding(p), ReceiveStatus(m) PROVE quiet
  BY <1>2 DEF ReceiveStatus
<1>3. ASSUME NEW p \in Pages, NEW m \in Outstanding(p), Receive(m, TRUE) PROVE Received(m, TRUE)
  <2>1. m.page = p /\ (m.kind # "status" => Sendable(m))
    BY OutstandingMsg DEF ClientTypes
  <2>2. m.kind # "status"
    BY <1>3 DEF Receive, ReceiveInit, ReceiveChunk, ReceiveComplete, ReceiveUpload
  <2> QED BY <1>3, <2>1, <2>2 DEF Received
<1>4. ASSUME NEW m \in late, Receive(m, FALSE) PROVE Received(m, FALSE)
  BY <1>4 DEF Received, ClientTypes, LateOK
<1>5. ASSUME NEW p \in Pages, RequestFails(p) PROVE quiet
  <2>1. UNCHANGED vars /\ (serving' = serving \/ serving' = [serving EXCEPT !.waits = FALSE])
    BY <1>5 DEF RequestFails
  <2>2. serving = [msg |-> serving.msg, waits |-> serving.waits, fresh |-> serving.fresh]
    BY DEF ClientTypes, ServingOK
  <2>3. serving' = [serving EXCEPT !.waits = FALSE] => serving'.msg = serving.msg /\ ~serving'.waits
    BY <2>2
  <2> QED BY <2>1, <2>3
<1>6. CASE UNCHANGED clientVars
  BY <1>6 DEF clientVars
<1> HIDE DEF quiet
<1> QED BY <1>1, <1>2, <1>3, <1>4, <1>5, <1>6 DEF ClientNext, Progress, quiet

\* What a request finds when it arrives.
LEMMA ReceivedFacts ==
  ASSUME ClientTypes, NEW m, NEW waits, Received(m, waits)
  PROVE  /\ m.page \in Pages /\ page[m.page].file \in Contents
         /\ m.kind = "chunk" => m.id \in UploadIds /\ m.index \in Chunks
         /\ m.kind = "complete" => m.id \in UploadIds
         /\ IF waits THEN m.id = page[m.page].session /\ m.kind = page[m.page].pc ELSE m \in late
         /\ req = Idle /\ Begun(m, waits)
<1>1. Arrives(m, waits) /\ Begun(m, waits)
  BY DEF Received, Receive, ReceiveInit, ReceiveChunk, ReceiveComplete, ReceiveUpload
<1>2. req = Idle
  BY <1>1 DEF Arrives, Ready, ClientTypes, ServingOK
<1>3. m.page \in Pages
  BY DEF Received, Sendable
<1>4. IF waits THEN m.id = page[m.page].session /\ m.kind = page[m.page].pc ELSE m \in late
  BY <1>1, <1>3, OutstandingMsg DEF Received, ClientTypes, Arrives
<1> QED BY <1>1, <1>2, <1>3, <1>4 DEF Received, Sendable, ClientTypes, PagesOK, Page

\* A row once there stays: no page deletes.
LEMMA RowsStay ==
  ASSUME ClientTypes, [ClientNext]_clientVars, NEW n \in Names, db[n] # None PROVE db'[n] # None
<1>0. MetaOK /\ Equipped(req)
  BY DEF ClientTypes, TypeInv, Typed
<1>1. CASE UNCHANGED db
  BY <1>1
<1>2. ASSUME NEW out, Insert(req.info, out), req.info \in Info PROVE db'[n] # None
  <2>1. \A u \in Names : [req.info EXCEPT !.url = u] # None
    <3>1. \A u \in Names : [req.info EXCEPT !.url = u] \in Info
      BY <1>2 DEF Info
    <3> QED BY <3>1, MetadataAssumption
  <2>2. req.info # None
    BY <1>2, MetadataAssumption
  <2>3. Rows(req.info.url) \subseteq Names
    BY DEF Rows
  <2> QED BY <1>0, <1>2, <2>1, <2>2, <2>3 DEF Insert, Upserted, MetaOK, Tables
<1>3. CASE Handle
  <2>1. CASE UploadInsert \/ CompleteInsert
    <3>1. req.info \in Info
      BY <1>0, <2>1 DEF UploadInsert, CompleteInsert, At, Equipped, FilePCs, PCs
    <3> QED BY <1>1, <1>2, <2>1, <3>1 DEF UploadInsert, CompleteInsert, metaVars
  <2>2. CASE ~(UploadInsert \/ CompleteInsert)
    <3>1. UNCHANGED metaVars
      BY <1>3, <2>2, Zenon DEF Handle, Handling, SessionSave, ChunkWrite, CompleteUnlink, CompleteStage,
         CompleteRename, CompleteRollback, CompleteRemove, UploadWrite, UploadRename, UploadRollback,
         UploadReply, UploadCleanup
    <3> QED BY <1>1, <3>1 DEF metaVars
  <2> QED BY <2>1, <2>2
<1>4. ASSUME NEW m, NEW waits, Received(m, waits) PROVE UNCHANGED db
  <2>1. \/ \E c : InitBegin(Target, c) \/ UploadBegin(Target, c)
        \/ \E id, i, c : ChunkBegin(id, i, c)
        \/ \E id : CompleteBegin(id)
        \/ UNCHANGED vars
    BY <1>4 DEF Received, Receive, ReceiveInit, ReceiveChunk, ReceiveComplete, ReceiveUpload
  <2> QED BY <2>1 DEF InitBegin, UploadBegin, ChunkBegin, CompleteBegin, GetOneByURL, metaVars, vars
<1>5. CASE CrashWhileServing \/ RestartService
  BY <1>1, <1>5 DEF CrashWhileServing, RestartService, Crash, Restart, Construct
<1> QED BY <1>1, <1>3, <1>4, <1>5, ClientCases DEF vars
-----------------------------------------------------------------------------
\* What may become of a session in a step, if it is there after it: it keeps its
\* name and size, and its chunks unless the name is taken; or it is new, and
\* unknown to every page.
Survives(id) ==
  /\ sessions[id].st # "absent"
  /\ sessions'[id].name = sessions[id].name
  /\ sessions'[id].shape = sessions[id].shape
  /\ \A i \in Chunks :
       sessions[id].chunks[i] # None => sessions'[id].chunks[i] # None \/ db[Target] # None

Created(id) == id \notin Known /\ sessions'[id].name = Target

LEMMA OneSurvives ==
  ASSUME SessionsOK, NEW id \in UploadIds, NEW j \in UploadIds, NEW s,
         sessions' = [sessions EXCEPT ![j] = s], sessions'[id].st # "absent",
         s.st # "absent" =>
           /\ sessions[j].st # "absent" /\ s.name = sessions[j].name /\ s.shape = sessions[j].shape
           /\ \A i \in Chunks : sessions[j].chunks[i] # None => s.chunks[i] # None \/ db[Target] # None
  PROVE  Survives(id)
<1>1. sessions'[id] = IF id = j THEN s ELSE sessions[id]
  BY DEF SessionsOK
<1> QED BY <1>1 DEF Survives

\* A request to begin a session finds one of its name and size, or is given an
\* id that no page knows.
LEMMA InitMoves ==
  ASSUME ClientTypes, NEW m, NEW waits, ReceiveInit(m, waits), NEW id \in UploadIds,
         sessions'[id].st # "absent"
  PROVE  Survives(id) \/ Created(id)
<1> DEFINE c == page[m.page].file
<1>0. SessionsOK /\ sessions \in [UploadIds -> Session]
  BY DEF ClientTypes, TypeInv, Typed, SessionsOK
<1>1. InitBegin(Target, c) /\ (id \notin NewUploadId /\ sessions[id].st = "absent" => sessions'[id].st = "absent")
  BY DEF ReceiveInit
<1>2. CASE UNCHANGED sessions
  BY <1>2 DEF Survives
<1>3. ASSUME NEW j \in ReusableSessions(Target, ShapeOf[c]), OpenMeta(j, sessions[j]) PROVE Survives(id)
  <2> DEFINE s == [sessions[j] EXCEPT !.st = "broken"]
  <2>1. j \in UploadIds /\ sessions[j].st = "ok" /\ sessions[j] \in Session
    BY <1>0 DEF ReusableSessions, SessionsOf, Loadable
  <2>2. s.name = sessions[j].name /\ s.shape = sessions[j].shape /\ s.chunks = sessions[j].chunks
    BY <2>1 DEF Session
  <2>3. sessions' = [sessions EXCEPT ![j] = s]
    BY <1>3 DEF OpenMeta
  <2> HIDE DEF s
  <2> QED BY <1>0, <2>1, <2>2, <2>3, OneSurvives
<1>4. ASSUME NEW j \in UploadIds, sessions[j].st = "absent",
             OpenMeta(j, [NoSession EXCEPT !.name = Target, !.shape = ShapeOf[c]])
      PROVE  Survives(id) \/ Created(id)
  <2>1. CASE id # j
    BY <1>0, <1>4, <2>1 DEF OpenMeta, Survives
  <2>2. CASE id = j
    <3>1. id \in NewUploadId
      BY <1>1, <1>4, <2>2
    <3>2. id \notin Known
      BY <3>1 DEF NewUploadId
    <3>3. sessions'[id].name = Target
      BY <1>0, <1>4, <2>2 DEF OpenMeta, NoSession
    <3> QED BY <3>2, <3>3 DEF Created
  <2> QED BY <2>1, <2>2
<1> QED BY <1>1, <1>2, <1>3, <1>4 DEF InitBegin

LEMMA SessionsMove ==
  ASSUME ClientTypes, TargetOnly, StoredInv, [ClientNext]_clientVars, NEW id \in UploadIds,
         sessions'[id].st # "absent"
  PROVE  Survives(id) \/ Created(id)
<1>0. /\ SessionsOK /\ sessions \in [UploadIds -> Session] /\ Equipped(req) /\ InHand
      /\ NoSession.st = "absent" /\ Torn # None /\ None \notin Contents
  BY StorageAssumption, MetadataAssumption
     DEF ClientTypes, TypeInv, Typed, SessionsOK, NoSession, Bodies
<1>1. CASE UNCHANGED sessions
  BY <1>1 DEF Survives
<1>2. ASSUME NEW j \in UploadIds, NEW i \in Chunks, NEW c \in Contents, ChunkBegin(j, i, c)
      PROVE  Survives(id) \/ Created(id)
  <2>1. CASE sessions' = [sessions EXCEPT ![j].chunks[i] = Torn]
    <3> DEFINE s == [sessions[j] EXCEPT !.chunks[i] = Torn]
    <3>1. /\ sessions' = [sessions EXCEPT ![j] = s] /\ sessions[j].st = "ok"
          /\ s.name = sessions[j].name /\ s.shape = sessions[j].shape
          /\ \A k \in Chunks : s.chunks[k] = IF k = i THEN Torn ELSE sessions[j].chunks[k]
      BY <1>0, <1>2, <2>1 DEF ChunkBegin, Loadable, Session, Chunks
    <3> HIDE DEF s
    <3> QED BY <1>0, <3>1, OneSurvives
  <2>2. sessions' = [sessions EXCEPT ![j].chunks[i] = Torn] \/ UNCHANGED sessions
    BY <1>2, Zenon DEF ChunkBegin
  <2> QED BY <1>1, <2>1, <2>2
<1>3. ASSUME NEW m, NEW waits, Received(m, waits) PROVE Survives(id) \/ Created(id)
  <2>1. CASE ReceiveInit(m, waits)
    BY <2>1, InitMoves
  <2>2. CASE ReceiveChunk(m, waits)
    <3>1. m.page \in Pages /\ page[m.page].file \in Contents /\ m.id \in UploadIds /\ m.index \in Chunks
      BY <1>3, <2>2, ReceivedFacts DEF ReceiveChunk
    <3> QED BY <1>1, <1>2, <2>2, <3>1 DEF ReceiveChunk, vars
  <2>3. CASE ReceiveComplete(m, waits) \/ ReceiveUpload(m, waits)
    <3>1. UNCHANGED sessions
      BY <2>3 DEF ReceiveComplete, ReceiveUpload, CompleteBegin, UploadBegin, vars
    <3> QED BY <1>1, <3>1
  <2> QED BY <1>3, <2>1, <2>2, <2>3 DEF Received, Receive
<1>4. CASE SessionSave
  <2>1. req.id \in UploadIds /\ sessions[req.id].st # "absent"
    BY <1>0, <1>4 DEF SessionSave, At, Equipped, SessionPCs, InHand
  <2>2. CASE sessions' = [sessions EXCEPT ![req.id].st = "ok"]
    <3> DEFINE s == [sessions[req.id] EXCEPT !.st = "ok"]
    <3>1. /\ sessions' = [sessions EXCEPT ![req.id] = s]
          /\ s.name = sessions[req.id].name /\ s.shape = sessions[req.id].shape
          /\ s.chunks = sessions[req.id].chunks
      BY <1>0, <2>1, <2>2 DEF Session
    <3> HIDE DEF s
    <3> QED BY <1>0, <2>1, <3>1, OneSurvives
  <2> QED BY <1>1, <1>4, <2>2 DEF SessionSave
<1>5. CASE ChunkWrite
  <2> DEFINE s == [sessions[req.id] EXCEPT !.chunks[req.index] = req.info.body]
             t == [s EXCEPT !.st = "broken"]
  <2>1. /\ req.id \in UploadIds /\ req.index \in Chunks /\ req.info.body \in Contents
        /\ sessions[req.id].st # "absent"
    BY <1>0, <1>5 DEF ChunkWrite, At, Equipped, SessionPCs, InHand, Chunks
  <2>2. /\ s.name = sessions[req.id].name /\ s.shape = sessions[req.id].shape
        /\ \A i \in Chunks :
             s.chunks[i] = IF i = req.index THEN req.info.body ELSE sessions[req.id].chunks[i]
    BY <1>0, <2>1 DEF Session, Chunks
  <2>3. t.name = s.name /\ t.shape = s.shape /\ t.chunks = s.chunks
    BY <1>0, <2>1 DEF Session
  <2>4. \/ sessions' = [sessions EXCEPT ![req.id] = t]
        \/ sessions' = [sessions EXCEPT ![req.id] = s]
        \/ UNCHANGED sessions
    BY <1>5 DEF ChunkWrite, OpenMeta
  <2> HIDE DEF s, t
  <2>5. \A i \in Chunks : sessions[req.id].chunks[i] # None => s.chunks[i] # None
    BY <1>0, <2>1, <2>2
  <2>6. CASE sessions' = [sessions EXCEPT ![req.id] = t]
    <3>1. t.name = sessions[req.id].name /\ t.shape = sessions[req.id].shape
      BY <2>2, <2>3
    <3>2. \A i \in Chunks : sessions[req.id].chunks[i] # None => t.chunks[i] # None \/ db[Target] # None
      BY <2>3, <2>5
    <3>3. Survives(id)
      BY <1>0, <2>1, <2>6, <3>1, <3>2, OneSurvives
    <3> QED BY <3>3
  <2>7. CASE sessions' = [sessions EXCEPT ![req.id] = s]
    <3>1. \A i \in Chunks : sessions[req.id].chunks[i] # None => s.chunks[i] # None \/ db[Target] # None
      BY <2>5
    <3>2. Survives(id)
      BY <1>0, <2>1, <2>2, <2>7, <3>1, OneSurvives
    <3> QED BY <3>2
  <2> QED BY <1>1, <2>4, <2>6, <2>7
<1>6. CASE UploadCleanup \/ CompleteRemove
  <2>1. \/ UNCHANGED sessions
        \/ \E j \in UploadIds : sessions' = [sessions EXCEPT ![j] = NoSession]
    BY <1>0, <1>6 DEF UploadCleanup, CompleteRemove, SessionsOf, At, Equipped, SessionPCs
  <2> QED BY <1>0, <1>1, <2>1, OneSurvives
<1>7. CASE Crash
  <2>1. ASSUME NEW j \in BeingRemoved, NEW s \in Remains(sessions[j]), sessions' = [sessions EXCEPT ![j] = s]
        PROVE  Survives(id)
    <3>1. j \in UploadIds /\ sessions[j] \in Session
      BY <1>0, RemovalType DEF ClientTypes
    <3>2. req.pc \in {"complete.remove", "upload.cleanup"}
      BY <2>1 DEF BeingRemoved, At, ClientTypes, ServingOK, Serves, CompletionPCs, UploadPCs
    <3>3. sessions[j].st # "absent"
      BY <1>0, <2>1, <3>2 DEF BeingRemoved, At, SessionsOf, Loadable, InHand, SessionPCs
    <3>4. db[Target] # None
      BY <3>2 DEF StoredInv, AfterInsert, TargetOnly, FilePCs, PCs
    <3> QED BY <1>0, <2>1, <3>1, <3>3, <3>4, OneSurvives, RemainsLess
  <2> QED BY <1>1, <1>7, <2>1 DEF Crash
<1>8. CASE Handle
  <2>1. SessionSave \/ ChunkWrite \/ UploadCleanup \/ CompleteRemove \/ UNCHANGED sessions
    BY <1>8, Zenon DEF Handle, Handling, UploadWrite, UploadRename, UploadInsert, UploadRollback, UploadReply,
       CompleteUnlink, CompleteStage, CompleteRename, CompleteInsert, CompleteRollback
  <2> QED BY <1>1, <1>4, <1>5, <1>6, <2>1
<1>9. CASE RestartService
  BY <1>1, <1>9 DEF RestartService, Restart
<1> QED BY <1>1, <1>3, <1>7, <1>8, <1>9, ClientCases DEF CrashWhileServing, vars

\* A session that is there, or that a page knows, is not a new one.
LEMMA KnownSurvives ==
  ASSUME ClientTypes, TargetOnly, StoredInv, [ClientNext]_clientVars, NEW id \in UploadIds,
         sessions'[id].st # "absent",
         \/ sessions[id].st # "absent"
         \/ \E p \in Pages : id \in {page[p].key, page[p].session}
         \/ \E m \in late : id = m.id
  PROVE  Survives(id)
  BY SessionsMove DEF Created, Known

\* How a request comes to write to a session.
LEMMA Writing ==
  ASSUME ClientTypes, [ClientNext]_clientVars, req'.pc \in {"session.save", "chunk.write"}
  PROVE  \/ UNCHANGED <<req, sessions>> /\ serving'.msg = serving.msg
         \/ ChunkWrite /\ req' = SaveRequest(req.id, req.name) /\ serving'.msg = serving.msg
         \/ \E m, waits :
              /\ Received(m, waits) /\ (ReceiveInit(m, waits) \/ ReceiveChunk(m, waits))
              /\ req' # Idle /\ serving'.msg = m
<1>0. /\ Equipped(req) /\ req' # Idle
      /\ serving = [msg |-> serving.msg, waits |-> serving.waits, fresh |-> serving.fresh]
  BY IdleEquipped DEF ClientTypes, TypeInv, Typed, ServingOK
<1>1. ASSUME NEW m, NEW waits, Received(m, waits)
      PROVE  (ReceiveInit(m, waits) \/ ReceiveChunk(m, waits)) /\ serving'.msg = m
  <2>1. req.pc = "idle" /\ serving'.msg = m
    BY <1>0, <1>1, ReceivedFacts, IdleEquipped DEF Begun
  <2>2. ~ReceiveComplete(m, waits)
    BY <2>1 DEF ReceiveComplete, CompleteBegin, CompleteRequest, Request, vars
  <2>3. ~ReceiveUpload(m, waits)
    BY <2>1 DEF ReceiveUpload, UploadBegin, Request
  <2> QED BY <1>1, <2>1, <2>2, <2>3 DEF Received, Receive
<1>2. CASE Handle
  <2>1. \A pc : Goto(pc) => req'.pc = pc
    BY <1>0 DEF Goto, Equipped, Requests
  <2>2. ~Finish
    BY <1>0 DEF Finish
  <2>3. ASSUME UNCHANGED req, UploadCleanup PROVE FALSE
    BY <2>3 DEF UploadCleanup, At
  <2>4. ChunkWrite
    BY <1>2, <2>1, <2>2, <2>3 DEF Handle, Handling, SessionSave, UploadWrite, UploadRename, UploadInsert,
       UploadRollback, UploadReply, UploadCleanup, CompleteUnlink, CompleteStage, CompleteRename,
       CompleteInsert, CompleteRollback, CompleteRemove
  <2>5. serving'.msg = serving.msg
    BY <1>0, <1>2 DEF Handle
  <2> QED BY <2>2, <2>4, <2>5 DEF ChunkWrite
<1>3. ~CrashWhileServing
  BY <1>0 DEF CrashWhileServing, Crash
<1>4. CASE RestartService
  BY <1>4 DEF RestartService, Restart
<1>5. CASE UNCHANGED vars /\ serving'.msg = serving.msg
  BY <1>5 DEF vars
<1> QED BY <1>0, <1>1, <1>2, <1>3, <1>4, <1>5, ClientCases

\* The request in hand goes on with what it has, or is new.
LEMMA FileRequests ==
  ASSUME ClientTypes, [ClientNext]_clientVars, req'.pc \in FilePCs
  PROVE  \/ /\ req.pc \in FilePCs /\ req'.name = req.name /\ req'.info = req.info
            /\ serving'.msg = serving.msg /\ (serving'.waits => serving.waits)
         \/ \E m, waits :
              /\ Received(m, waits)
              /\ ReceiveChunk(m, waits) \/ ReceiveComplete(m, waits) \/ ReceiveUpload(m, waits)
              /\ req' # Idle /\ serving'.msg = m /\ serving'.waits = waits
<1>0. /\ Equipped(req) /\ req' # Idle /\ req'.pc # "idle"
      /\ serving = [msg |-> serving.msg, waits |-> serving.waits, fresh |-> serving.fresh]
  BY IdleEquipped DEF ClientTypes, TypeInv, Typed, ServingOK, FilePCs
<1>1. ASSUME NEW m, NEW waits, Received(m, waits)
      PROVE  /\ ReceiveChunk(m, waits) \/ ReceiveComplete(m, waits) \/ ReceiveUpload(m, waits)
             /\ serving'.msg = m /\ serving'.waits = waits
  <2>1. req.pc = "idle" /\ serving'.msg = m /\ serving'.waits = waits
    BY <1>0, <1>1, ReceivedFacts, IdleEquipped DEF Begun
  <2>2. ~ReceiveInit(m, waits)
    BY <1>0, <2>1 DEF ReceiveInit, InitBegin, SaveRequest, Request, FilePCs
  <2> QED BY <1>1, <2>1, <2>2 DEF Received, Receive
<1>2. CASE Handle
  <2>1. \A pc : Goto(pc) => req'.name = req.name /\ req'.info = req.info
    BY <1>0 DEF Goto, Equipped, Requests
  <2>2. ~Finish
    BY <1>0 DEF Finish
  <2>3. ~SessionSave /\ ~ChunkWrite
    BY <2>2 DEF SessionSave, ChunkWrite, SaveRequest, Request, FilePCs
  <2>4. /\ req.pc \in FilePCs
        /\ UNCHANGED req \/ \E pc : Goto(pc)
    BY <1>2, <2>2, <2>3 DEF Handle, Handling, UploadWrite, UploadRename, UploadInsert, At, FilePCs, PCs,
       UploadRollback, UploadReply, UploadCleanup, CompleteUnlink, CompleteStage, CompleteRename,
       CompleteInsert, CompleteRollback, CompleteRemove
  <2>5. serving'.msg = serving.msg /\ (serving'.waits => serving.waits)
    BY <1>0, <1>2 DEF Handle
  <2> QED BY <2>1, <2>4, <2>5
<1>3. ~CrashWhileServing
  BY <1>0 DEF CrashWhileServing, Crash
<1>4. CASE RestartService
  BY <1>4 DEF RestartService, Restart
<1>5. CASE UNCHANGED vars /\ serving'.msg = serving.msg /\ (serving'.waits => serving.waits)
  BY <1>5 DEF vars
<1> QED BY <1>0, <1>1, <1>2, <1>3, <1>4, <1>5, ClientCases

\* What the handlers write for the pages is under the name they upload.
LEMMA TargetKept ==
  ASSUME ClientTypes, TargetOnly, StoredInv, [ClientNext]_clientVars PROVE TargetOnly'
<1>1. ASSUME NEW id \in UploadIds, sessions'[id].st # "absent" PROVE sessions'[id].name = Target
  BY <1>1, SessionsMove DEF Survives, Created, TargetOnly
<1>2. ASSUME NEW m, NEW waits, Received(m, waits), req' # Idle,
             ReceiveChunk(m, waits) \/ ReceiveComplete(m, waits) \/ ReceiveUpload(m, waits)
      PROVE  req'.name = Target
  <2>1. /\ req = Idle
        /\ m.kind \in {"chunk", "complete"} => m.id \in UploadIds
    BY <1>2, ReceivedFacts
  <2>2. CASE ReceiveUpload(m, waits)
    BY <1>2, <2>1, <2>2 DEF ReceiveUpload, UploadBegin, Request
  <2>3. CASE ReceiveChunk(m, waits)
    <3>1. Loadable(m.id) /\ req' = ChunkRequest(m.id, m.index, page[m.page].file) /\ m.kind = "chunk"
      BY <1>2, <2>1, <2>3 DEF ReceiveChunk, ChunkBegin, vars
    <3>2. req'.name = sessions[m.id].name
      BY <3>1 DEF ChunkRequest, Request
    <3> QED BY <2>1, <3>1, <3>2 DEF TargetOnly, Loadable
  <2>4. CASE ReceiveComplete(m, waits)
    <3>1. Loadable(m.id) /\ req' = CompleteRequest(m.id) /\ m.kind = "complete"
      BY <1>2, <2>1, <2>4 DEF ReceiveComplete, CompleteBegin, vars
    <3>2. req'.name = sessions[m.id].name
      BY <3>1 DEF CompleteRequest, Request
    <3> QED BY <2>1, <3>1, <3>2 DEF TargetOnly, Loadable
  <2> QED BY <1>2, <2>2, <2>3, <2>4
<1>3. ASSUME req'.pc \in FilePCs PROVE req'.name = Target
  BY <1>2, <1>3, FileRequests DEF TargetOnly
<1> QED BY <1>1, <1>3 DEF TargetOnly

\* The session a page has after a step is one it had, or the one that the init
\* it waited for has just saved.
LEMMA SessionOfPage ==
  ASSUME ClientTypes, [ClientNext]_clientVars, NEW p \in Pages,
         NEW id \in {page'[p].key, page'[p].session} \cap UploadIds
  PROVE  \/ id \in {page[p].key, page[p].session}
         \/ SessionSave /\ id = req.id /\ serving.msg.page = p
<1>1. Moves(p)
  BY ClientSteps DEF StepOK
<1>2. None \notin UploadIds
  BY ClientAssumption
<1> QED BY <1>1, <1>2 DEF Moves, WaitsOn, EndsRun, Begins, BeginsAnew, SendsOn, Reports

\* A page keeps its file, and the requests in service are some page's.
LEMMA FilesOfPages ==
  ASSUME ClientTypes, [ClientNext]_clientVars
  PROVE  /\ \A p \in Pages : page'[p].file = page[p].file
         /\ req.pc # "idle" => serving.msg.page \in Pages
  BY ClientSteps DEF StepOK, Moves, Kept, ClientTypes, ServingOK, Sendable

\* A page is given a session of the size of its file, and no session changes
\* its size.
LEMMA ShapesKept ==
  ASSUME ClientTypes, TargetOnly, StoredInv, ShapesOK, [ClientNext]_clientVars PROVE ShapesOK'
<1>0. InHand /\ Equipped(req) /\ SessionsOK
  BY DEF ClientTypes, TypeInv, Typed
<1>1. ASSUME NEW p \in Pages, NEW id \in {page'[p].key, page'[p].session} \cap UploadIds,
             sessions'[id].st # "absent"
      PROVE  sessions'[id].shape = ShapeOf[page'[p].file]
  <2>1. CASE id \in {page[p].key, page[p].session}
    <3>1. Survives(id)
      BY <1>1, <2>1, KnownSurvives
    <3> QED BY <1>1, <2>1, <3>1, FilesOfPages DEF Survives, ShapesOK
  <2>2. CASE SessionSave /\ id = req.id /\ serving.msg.page = p
    <3>1. req.pc = "session.save" /\ sessions[id].st # "absent"
      BY <1>0, <2>2 DEF SessionSave, At, InHand, SessionPCs
    <3>2. Survives(id)
      BY <1>1, <3>1, KnownSurvives
    <3> QED BY <2>2, <3>1, <3>2, FilesOfPages DEF Survives, ShapesOK
  <2> QED BY <1>1, <2>1, <2>2, SessionOfPage
<1>2. ASSUME NEW m \in late', m.kind = "chunk", sessions'[m.id].st # "absent"
      PROVE  sessions'[m.id].shape = ShapeOf[page'[m.page].file]
  <2>1. m.page \in Pages /\ m.id \in UploadIds /\ (m \in late \/ m.id = page[m.page].session)
    BY <1>2, ClientSteps DEF StepOK, LateMoves, GivenUpBy, Sendable, ClientTypes, LateOK
  <2>2. Survives(m.id)
    BY <1>2, <2>1, KnownSurvives
  <2> QED BY <1>2, <2>1, <2>2, FilesOfPages DEF Survives, ShapesOK
<1>3. ASSUME req'.pc \in {"session.save", "chunk.write"}
      PROVE  sessions'[req'.id].shape = ShapeOf[page'[serving'.msg.page].file]
  <2>1. CASE UNCHANGED <<req, sessions>> /\ serving'.msg = serving.msg
    <3>1. serving.msg.page \in Pages
      BY <1>3, <2>1, FilesOfPages
    <3> QED BY <1>3, <2>1, <3>1, FilesOfPages DEF ShapesOK
  <2>2. CASE ChunkWrite /\ req' = SaveRequest(req.id, req.name) /\ serving'.msg = serving.msg
    <3>1. req.pc = "chunk.write" /\ req'.id = req.id /\ req.id \in UploadIds /\ sessions[req.id].st # "absent"
      BY <1>0, <2>2 DEF ChunkWrite, At, SaveRequest, Request, Equipped, InHand, SessionPCs
    <3>2. serving.msg.page \in Pages
      BY <3>1, FilesOfPages
    <3>3. [Next]_vars
      BY ClientSteps
    <3>4. InHand'
      BY <3>3, NextTypes, StutterTypes DEF ClientTypes, TypeInv
    <3>5. sessions'[req.id].st # "absent"
      BY <1>3, <3>1, <3>4 DEF InHand, SessionPCs
    <3>6. Survives(req.id)
      BY <3>1, <3>5, KnownSurvives
    <3> QED BY <2>2, <3>1, <3>2, <3>6, FilesOfPages DEF Survives, ShapesOK
  <2>3. ASSUME NEW m, NEW waits, Received(m, waits), ReceiveInit(m, waits) \/ ReceiveChunk(m, waits),
               req' # Idle, serving'.msg = m
        PROVE  sessions'[req'.id].shape = ShapeOf[page'[m.page].file]
    <3> DEFINE c == page[m.page].file
    <3>1. m.page \in Pages /\ c \in Contents /\ req = Idle /\ (m.kind = "chunk" => m.id \in UploadIds)
      BY <2>3, ReceivedFacts
    <3>2. ASSUME ReceiveInit(m, waits) PROVE sessions'[req'.id].shape = ShapeOf[c]
      <4>1. InitBegin(Target, c) /\ req' # req
        BY <2>3, <3>1, <3>2 DEF ReceiveInit
      <4>2. ASSUME NEW j \in ReusableSessions(Target, ShapeOf[c]), OpenMeta(j, sessions[j]),
                   req' = SaveRequest(j, Target)
            PROVE  sessions'[req'.id].shape = ShapeOf[c]
        <5>1. j \in UploadIds /\ sessions[j].shape = ShapeOf[c] /\ req'.id = j /\ sessions[j] \in Session
          BY <1>0, <4>2 DEF ReusableSessions, SessionsOf, SaveRequest, Request, SessionsOK
        <5> QED BY <1>0, <4>2, <5>1 DEF OpenMeta, SessionsOK, Session
      <4>3. ASSUME NEW j \in UploadIds, OpenMeta(j, [NoSession EXCEPT !.name = Target, !.shape = ShapeOf[c]]),
                   req' = SaveRequest(j, Target)
            PROVE  sessions'[req'.id].shape = ShapeOf[c]
        BY <1>0, <4>3 DEF OpenMeta, SessionsOK, NoSession, SaveRequest, Request
      <4> QED BY <4>1, <4>2, <4>3 DEF InitBegin
    <3>3. ASSUME ReceiveChunk(m, waits) PROVE sessions'[req'.id].shape = ShapeOf[c]
      <4>0. m.kind = "chunk" /\ Loadable(m.id) /\ ChunkBegin(m.id, m.index, c) /\ req' # req
        BY <2>3, <3>1, <3>3 DEF ReceiveChunk, vars
      <4>1. sessions[m.id].shape = ShapeOf[c]
        BY <2>3, <3>1, <4>0, ReceivedFacts DEF ShapesOK, Loadable
      <4>2. sessions' = [sessions EXCEPT ![m.id].chunks[m.index] = Torn] /\ req' = ChunkRequest(m.id, m.index, c)
        BY <4>0 DEF ChunkBegin
      <4>3. req'.id = m.id
        BY <4>2 DEF ChunkRequest, Request
      <4>4. sessions[m.id] \in Session /\ m.id \in UploadIds
        BY <1>0, <3>1, <4>0 DEF SessionsOK
      <4> QED BY <1>0, <4>1, <4>2, <4>3, <4>4 DEF SessionsOK, Session
    <3> QED BY <2>3, <3>1, <3>2, <3>3, FilesOfPages
  <2> QED BY <1>3, <2>1, <2>2, <2>3, Writing
<1> QED BY <1>1, <1>2, <1>3 DEF ShapesOK

\* A chunk comes to a session through a page of its shape.
LEMMA ChunksFitKept ==
  ASSUME ClientTypes, ShapesOK, ChunksFit, [ClientNext]_clientVars PROVE ChunksFit'
<1>0. /\ Equipped(req) /\ TypeInv /\ [Next]_vars /\ Torn \notin Contents /\ None \notin Contents
      /\ \A p \in Pages : page'[p].file = page[p].file
      /\ req.pc # "idle" => serving.msg.page \in Pages
  BY ClientSteps, FilesOfPages, StorageAssumption, MetadataAssumption
     DEF ClientTypes, TypeInv, Typed, Bodies
<1>1. ASSUME NEW id \in UploadIds, NEW i \in Chunks, sessions'[id].chunks[i] \in Contents
      PROVE  \E p \in Pages : /\ page'[p].file = sessions'[id].chunks[i]
                             /\ ShapeOf[page'[p].file] = sessions'[id].shape
  <2>1. ChunkMoves(id, i)
    BY <1>0, ChunksMove DEF Chunks
  <2>2. CASE /\ sessions'[id].chunks[i] = sessions[id].chunks[i]
             /\ sessions'[id].shape = sessions[id].shape
    BY <1>0, <1>1, <2>2 DEF ChunksFit
  <2>3. CASE /\ req.pc = "chunk.write" /\ req.id = id
             /\ sessions'[id].chunks[i] = req.info.body
             /\ sessions'[id].shape = sessions[id].shape
    BY <1>0, <2>3 DEF ChunksFit, ShapesOK
  <2> QED BY <1>0, <1>1, <2>1, <2>2, <2>3 DEF ChunkMoves
<1>2. ASSUME req'.pc = "chunk.write" PROVE req'.info.body = page'[serving'.msg.page].file
  <2>1. CASE UNCHANGED <<req, sessions>> /\ serving'.msg = serving.msg
    BY <1>0, <1>2, <2>1 DEF ChunksFit
  <2>2. req' # SaveRequest(req.id, req.name)
    BY <1>2 DEF SaveRequest, Request
  <2>3. ASSUME NEW m, NEW waits, Received(m, waits), ReceiveInit(m, waits) \/ ReceiveChunk(m, waits),
               req' # Idle, serving'.msg = m
        PROVE  req'.info.body = page'[m.page].file
    <3>1. m.page \in Pages /\ req = Idle
      BY <2>3, ReceivedFacts
    <3>2. ~ReceiveInit(m, waits)
      BY <1>2, <3>1, IdleEquipped DEF ReceiveInit, InitBegin, SaveRequest, Request
    <3>3. req' = ChunkRequest(m.id, m.index, page[m.page].file)
      BY <2>3, <3>1, <3>2 DEF ReceiveChunk, ChunkBegin, vars
    <3>4. req'.info.body = page[m.page].file
      BY <3>3 DEF ChunkRequest, Request, NewStorageInfo
    <3> QED BY <1>0, <3>1, <3>4
  <2> QED BY <1>2, <2>1, <2>2, <2>3, Writing
<1> QED BY <1>1, <1>2 DEF ChunksFit

\* What MergeChunks makes of chunks of one shape is one file of that shape.
LEMMA MergedWhole ==
  ASSUME FilesApart, ClientTypes, ChunksFit, NEW id \in UploadIds,
         UploadedChunks(id) = 1 .. ChunkCount, Merged(id) # Torn
  PROVE  Merged(id) \in Contents /\ ShapeOf[Merged(id)] = sessions[id].shape
<1> DEFINE bodies == {sessions[id].chunks[i] : i \in 1 .. ChunkCount}
           c == sessions[id].chunks[1]
<1>1. 1 \in 1 .. ChunkCount
  BY StorageAssumption
<1>2. Torn \notin bodies
  BY DEF Merged
<1>3. ASSUME NEW i \in 1 .. ChunkCount
      PROVE  /\ sessions[id].chunks[i] \in Contents
             /\ \E p \in Pages : /\ page[p].file = sessions[id].chunks[i]
                               /\ ShapeOf[page[p].file] = sessions[id].shape
  <2>1. sessions[id].chunks[i] \in Contents \cup {Torn, None}
    BY DEF ClientTypes, TypeInv, Typed, SessionsOK, Session
  <2>2. sessions[id].chunks[i] # None
    BY DEF UploadedChunks
  <2> QED BY <1>2, <2>1, <2>2 DEF ChunksFit, Chunks
<1>4. \A i \in 1 .. ChunkCount : sessions[id].chunks[i] = c
  BY <1>1, <1>3 DEF FilesApart
<1>5. c \in Contents /\ bodies = {c} /\ ShapeOf[c] = sessions[id].shape
  BY <1>1, <1>3, <1>4
<1>6. (CHOOSE d \in Contents : bodies = {d}) = c
  BY <1>5
<1> QED BY <1>2, <1>5, <1>6 DEF Merged

LEMMA WholeKept ==
  ASSUME ClientTypes, ChunksFit, WholeInv, [ClientNext]_clientVars PROVE WholeInv'
<1>1. [Next]_vars /\ TypeInv
  BY ClientSteps DEF ClientTypes
<1>2. FilesApart' => FilesApart
  BY FilesOfPages DEF FilesApart
<1>3. ASSUME FilesApart PROVE BodyWhole' /\ NothingMixed'
  <2>1. ASSUME NEW id \in UploadIds, CompleteBegin(id), Merged(id) # Torn PROVE Merged(id) \in Contents
    BY <1>3, <2>1, MergedWhole DEF CompleteBegin
  <2> QED BY <1>1, <1>3, <2>1, BodyKept, NoMixedKept DEF WholeInv
<1> QED BY <1>2, <1>3 DEF WholeInv

\* What is being written for a page that waits for it is its file: chunks of its
\* size are its own, and so is what they are merged into.
LEMMA BodyOKKept ==
  ASSUME ShapesApart, ClientTypes, ChunksFit, ShapesOK, BodyOK, [ClientNext]_clientVars PROVE BodyOK'
<1>0. FilesApart
  BY DEF ShapesApart, FilesApart, ClientTypes, PagesOK, Page
<1>1. ASSUME NEW m, NEW waits, Received(m, waits), req' # Idle, waits,
             ReceiveChunk(m, waits) \/ ReceiveComplete(m, waits) \/ ReceiveUpload(m, waits)
      PROVE  req'.info.body = page[m.page].file
  <2> DEFINE c == page[m.page].file
  <2>1. /\ req = Idle /\ m.page \in Pages /\ c \in Contents /\ m.id = page[m.page].session
        /\ m.kind = "complete" => m.id \in UploadIds
    BY <1>1, ReceivedFacts
  <2>2. CASE ReceiveUpload(m, waits)
    BY <1>1, <2>1, <2>2 DEF ReceiveUpload, UploadBegin, Request, NewStorageInfo
  <2>3. CASE ReceiveChunk(m, waits)
    <3>1. req' = ChunkRequest(m.id, m.index, c)
      BY <1>1, <2>1, <2>3 DEF ReceiveChunk, ChunkBegin, vars
    <3> QED BY <3>1 DEF ChunkRequest, Request, NewStorageInfo
  <2>4. CASE ReceiveComplete(m, waits)
    <3>1. /\ Loadable(m.id) /\ UploadedChunks(m.id) = 1 .. ChunkCount /\ Merged(m.id) # Torn
          /\ req' = CompleteRequest(m.id) /\ m.kind = "complete"
      BY <1>1, <2>1, <2>4 DEF ReceiveComplete, CompleteBegin, vars
    <3>2. Merged(m.id) \in Contents /\ ShapeOf[Merged(m.id)] = sessions[m.id].shape
      BY <1>0, <2>1, <3>1, MergedWhole
    <3>3. sessions[m.id].shape = ShapeOf[c]
      BY <2>1, <3>1 DEF ShapesOK, Loadable
    <3>4. req'.info.body = Merged(m.id)
      BY <3>1 DEF CompleteRequest, Request, NewStorageInfo
    <3> QED BY <2>1, <3>2, <3>3, <3>4 DEF ShapesApart
  <2> QED BY <1>1, <2>2, <2>3, <2>4
<1>2. ASSUME serving'.waits, req'.pc \in FilePCs
      PROVE  req'.info.body = page'[serving'.msg.page].file
  <2>1. CASE /\ req.pc \in FilePCs /\ req'.name = req.name /\ req'.info = req.info
             /\ serving'.msg = serving.msg /\ (serving'.waits => serving.waits)
    <3>1. serving.msg.page \in Pages
      BY <2>1, FilesOfPages DEF FilePCs
    <3> QED BY <1>2, <2>1, <3>1, FilesOfPages DEF BodyOK
  <2>2. ASSUME NEW m, NEW waits, Received(m, waits), req' # Idle, serving'.msg = m, serving'.waits = waits,
               ReceiveChunk(m, waits) \/ ReceiveComplete(m, waits) \/ ReceiveUpload(m, waits)
        PROVE  req'.info.body = page'[m.page].file
    <3>1. m.page \in Pages
      BY <2>2, ReceivedFacts
    <3> QED BY <1>1, <1>2, <2>2, <3>1, FilesOfPages
  <2> QED BY <1>2, <2>1, <2>2, FileRequests
<1> QED BY <1>2 DEF BodyOK

\* A promise is kept: a success that a page shows is one, and a later one for
\* the same name promises what the name holds.
LEMMA PromisedKept ==
  ASSUME ClientTypes, SafeInv, TargetOnly, BodyOK, Promised, [ClientNext]_clientVars PROVE Promised'
<1>0. /\ acked \in [Names -> Bodies \cup {None}] /\ Target \in Names
      /\ \A c \in Contents : c # None
      /\ page \in [Pages -> Page]
  BY ClientAssumption, MetadataAssumption DEF ClientTypes, TypeInv, Typed, AckedOK, PagesOK, Bodies
<1>1. UNCHANGED acked \/ UploadReply \/ CompleteRemove
  <2>1. CASE Handle
    BY <2>1, Zenon DEF Handle, Handling, SessionSave, ChunkWrite, UploadWrite, UploadRename, UploadInsert,
       UploadRollback, UploadCleanup, CompleteUnlink, CompleteStage, CompleteRename, CompleteInsert,
       CompleteRollback
  <2>2. ASSUME NEW m, NEW waits, Received(m, waits) PROVE UNCHANGED acked
    BY <2>2 DEF Received, Receive, ReceiveInit, ReceiveChunk, ReceiveComplete, ReceiveUpload,
       InitBegin, ChunkBegin, CompleteBegin, UploadBegin, vars
  <2>3. CASE CrashWhileServing \/ RestartService
    BY <2>3 DEF CrashWhileServing, RestartService, Crash, Restart
  <2> QED BY <2>1, <2>2, <2>3, ClientCases DEF vars
<1>2. ASSUME UploadReply \/ CompleteRemove
      PROVE  acked'[Target] = req.info.body /\ db[Target] = req.info /\ req.pc \in FilePCs
  <2>1. req.pc \in StoredPCs /\ req.pc \in FilePCs
    BY <1>2 DEF UploadReply, CompleteRemove, At, StoredPCs, FilePCs, PCs
  <2>2. req.name = Target
    BY <2>1 DEF TargetOnly
  <2> QED BY <1>0, <1>2, <2>1, <2>2 DEF UploadReply, CompleteRemove, SafeInv, RequestOK
<1>3. ASSUME NEW p \in Pages, page'[p].pc = "done" PROVE acked'[Target] = page'[p].file
  <2>1. Moves(p) /\ page'[p].file = page[p].file /\ page[p].file \in Contents
    BY <1>0, ClientSteps DEF StepOK, Moves, Kept, Page
  <2>2. CASE WaitsOn(p)
    <3>1. acked[Target] = page[p].file
      BY <1>3, <2>2 DEF WaitsOn, Promised
    <3>2. db[Target].body = page[p].file
      BY <1>0, <2>1, <3>1 DEF SafeInv, PromisesOK
    <3> QED BY <1>1, <1>2, <2>1, <3>1, <3>2
  <2>3. CASE Reports(p)
    BY <1>2, <2>1, <2>3 DEF Reports, BodyOK
  <2> QED BY <1>3, <2>1, <2>2, <2>3 DEF Moves, EndsRun, Begins, BeginsAnew, SendsOn
<1> QED BY <1>3 DEF Promised

\* A chunk is counted when the reply to it comes, and is then there.
LEMMA CountedKept ==
  ASSUME ClientTypes, TargetOnly, StoredInv, Counted, [ClientNext]_clientVars PROVE Counted'
<1>0. /\ InHand /\ Equipped(req) /\ SessionsOK /\ Target \in Names
      /\ Torn # None /\ None \notin Contents
  BY ClientAssumption, StorageAssumption, MetadataAssumption DEF ClientTypes, TypeInv, Typed, Bodies
<1>1. ASSUME NEW p \in Pages, page'[p].pc \in {"chunk", "complete"}, db'[Target] = None,
             sessions'[page'[p].session].st # "absent", NEW i \in page'[p].uploaded
      PROVE  sessions'[page'[p].session].chunks[i] # None
  <2>1. db[Target] = None
    BY <1>0, <1>1, RowsStay
  <2>2. Moves(p) /\ page'[p].session \in UploadIds /\ i \in Chunks
    BY <1>1, ClientSteps, PagesTyped DEF StepOK, Moves, Kept, Page, PagesOK
  <2>3. CASE WaitsOn(p)
    <3>1. Survives(page[p].session)
      BY <1>1, <2>2, <2>3, KnownSurvives DEF WaitsOn
    <3> QED BY <1>1, <2>1, <2>2, <2>3, <3>1 DEF WaitsOn, Survives, Counted
  <2>4. CASE SendsOn(p)
    <3>1. CASE /\ page'[p].session = page[p].session
               /\ page'[p].uploaded = UploadedChunks(page[p].session)
               /\ UNCHANGED vars
      BY <1>1, <3>1 DEF UploadedChunks, vars
    <3>2. CASE SessionSave /\ page'[p].session = req.id /\ page'[p].uploaded = UploadedChunks(req.id)
      <4>1. sessions[req.id].st # "absent"
        BY <1>0, <3>2 DEF SessionSave, At, InHand, SessionPCs
      <4>2. Survives(req.id)
        BY <1>1, <2>2, <3>2, <4>1, KnownSurvives
      <4> QED BY <1>1, <2>1, <2>2, <3>2, <4>2 DEF Survives, UploadedChunks
    <3>3. CASE /\ serving.msg.kind = "chunk"
               /\ SessionSave \/ ChunkWrite
               /\ page[p].pc = "chunk"
               /\ serving.msg.id = page[p].session
               /\ page'[p].session = page[p].session
               /\ page'[p].uploaded = page[p].uploaded \cup {serving.msg.index}
      <4>1. req.pc \in {"session.save", "chunk.write"}
        BY <3>3 DEF SessionSave, ChunkWrite, At
      <4>2. req.id = page[p].session /\ sessions[req.id].chunks[serving.msg.index] # None
        BY <3>3, <4>1 DEF Counted
      <4>3. Survives(page[p].session)
        BY <1>1, <2>2, <3>3, KnownSurvives
      <4>4. sessions[page[p].session].st # "absent"
        BY <4>3 DEF Survives
      <4>5. sessions[page[p].session].chunks[i] # None
        BY <1>1, <2>1, <3>3, <4>2, <4>4 DEF Counted
      <4> QED BY <2>1, <2>2, <3>3, <4>3, <4>5 DEF Survives
    <3> QED BY <2>4, <3>1, <3>2, <3>3 DEF SendsOn
  <2> QED BY <1>1, <2>2, <2>3, <2>4 DEF Moves, EndsRun, Begins, BeginsAnew, Reports
<1>2. ASSUME NEW p \in Pages, page'[p].pc = "complete" PROVE page'[p].uploaded = Chunks
  <2>1. Moves(p)
    BY ClientSteps DEF StepOK
  <2> QED BY <1>2, <2>1 DEF Moves, WaitsOn, EndsRun, Begins, BeginsAnew, SendsOn, Reports, Counted
<1>3. ASSUME req'.pc \in {"session.save", "chunk.write"}, serving'.msg.kind = "chunk"
      PROVE  /\ req'.id = serving'.msg.id
             /\ req'.pc = "chunk.write" => req'.index = serving'.msg.index
             /\ sessions'[req'.id].chunks[serving'.msg.index] # None
  <2>1. CASE UNCHANGED <<req, sessions>> /\ serving'.msg = serving.msg
    BY <1>3, <2>1 DEF Counted
  <2>2. CASE ChunkWrite /\ req' = SaveRequest(req.id, req.name) /\ serving'.msg = serving.msg
    <3> DEFINE s == [sessions[req.id] EXCEPT !.chunks[req.index] = req.info.body]
               t == [s EXCEPT !.st = "broken"]
    <3>1. /\ req.pc = "chunk.write" /\ req.id \in UploadIds /\ req.index \in Chunks
          /\ req.info.body \in Contents /\ sessions[req.id] \in Session
      BY <1>0, <2>2 DEF ChunkWrite, At, Equipped, SessionPCs, Chunks, SessionsOK
    <3>2. /\ req.id = serving.msg.id /\ req.index = serving.msg.index
          /\ sessions[req.id].chunks[req.index] # None
      BY <1>3, <2>2, <3>1 DEF Counted
    <3>3. s.chunks[req.index] = req.info.body /\ t.chunks = s.chunks
      BY <3>1 DEF Session, Chunks
    <3>4. \/ sessions' = [sessions EXCEPT ![req.id] = t]
          \/ sessions' = [sessions EXCEPT ![req.id] = s]
          \/ UNCHANGED sessions
      BY <2>2 DEF ChunkWrite, OpenMeta
    <3> HIDE DEF s, t
    <3>5. sessions'[req.id].chunks[req.index] # None
      BY <1>0, <3>1, <3>2, <3>3, <3>4 DEF SessionsOK
    <3>6. req'.pc = "session.save" /\ req'.id = req.id
      BY <2>2 DEF SaveRequest, Request
    <3> QED BY <2>2, <3>2, <3>5, <3>6
  <2>3. ASSUME NEW m, NEW waits, Received(m, waits), ReceiveInit(m, waits) \/ ReceiveChunk(m, waits),
               req' # Idle, serving'.msg = m
        PROVE  /\ req'.id = m.id
               /\ req'.index = m.index
               /\ sessions'[req'.id].chunks[m.index] # None
    <3> DEFINE c == page[m.page].file
    <3>1. m.kind = "chunk" /\ m.id \in UploadIds /\ m.index \in Chunks /\ req = Idle
      BY <1>3, <2>3, ReceivedFacts
    <3>2. ChunkBegin(m.id, m.index, c) /\ req' # req
      BY <2>3, <3>1 DEF ReceiveInit, ReceiveChunk, vars
    <3>3. sessions' = [sessions EXCEPT ![m.id].chunks[m.index] = Torn] /\ req' = ChunkRequest(m.id, m.index, c)
      BY <3>2 DEF ChunkBegin
    <3>4. req'.id = m.id /\ req'.index = m.index
      BY <3>3 DEF ChunkRequest, Request
    <3>5. sessions[m.id] \in Session
      BY <1>0, <3>1 DEF SessionsOK
    <3>6. sessions'[m.id].chunks[m.index] = Torn
      BY <1>0, <3>1, <3>3, <3>5 DEF SessionsOK, Session, Chunks
    <3> QED BY <1>0, <3>4, <3>6
  <2> QED BY <1>3, <2>1, <2>2, <2>3, Writing
<1> QED BY <1>1, <1>2, <1>3 DEF Counted
-----------------------------------------------------------------------------
\* At the start the pages believe nothing.
LEMMA ClientInitInv == ASSUME ClientInit PROVE ClientInv /\ WholeInv
<1>1. PICK file \in Selections : page = [p \in Pages |-> NoRun(file[p], None)]
  BY DEF ClientInit
<1>2. \A p \in Pages : page[p].pc = "idle"
  BY <1>1 DEF NoRun
<1>3. /\ req.pc = "idle" /\ serving.waits = FALSE /\ late = {}
      /\ \A id \in UploadIds : sessions[id].st = "absent"
      /\ \A id \in UploadIds, i \in Chunks : sessions[id].chunks[i] = None
      /\ \A p \in Paths : disk[p] = None
  BY IdleEquipped DEF ClientInit, Init, Nobody, NoSession, NoChunks, Chunks
<1>4. None \notin Contents /\ None # Mixed
  BY MetadataAssumption DEF Bodies
<1>5. WholeInv
  BY <1>3, <1>4 DEF WholeInv, BodyWhole, NothingMixed, WritingPCs
<1> QED BY <1>2, <1>3, <1>4, <1>5 DEF ClientInv, SessionInv, TargetOnly, ShapesOK, ChunksFit, BodyOK,
        Promised, Counted, FilePCs

\* What the pages and the handlers do with sessions, when MySQL tells all names
\* apart.
LEMMA SessionsFit == ASSUME KeysApart PROVE ClientSpec => []SessionInv
<1>1. ClientInit => SessionInv
  BY ClientInitInv DEF ClientInv
<1>2. ClientTypes /\ StoredInv /\ SessionInv /\ [ClientNext]_clientVars => SessionInv'
  BY TargetKept, ShapesKept, ChunksFitKept, CountedKept DEF SessionInv
<1> QED BY <1>1, <1>2, ClientTyped, ClientsUseService, StoredAlways, PTL DEF ClientSpec

\* The inductive invariant of the two, all of it.
THEOREM ClientsRight ==
  ASSUME NamesApart, TrustedFaults, ShapesApart PROVE ClientSpec => []ClientInv
<1>1. KeysApart
  BY DEF NamesApart, KeysApart
<1>2. ClientInit => BodyOK /\ Promised
  BY ClientInitInv DEF ClientInv
<1>3. /\ ClientTypes /\ SafeInv /\ SessionInv
      /\ (BodyOK /\ Promised) /\ [ClientNext]_clientVars
      => (BodyOK /\ Promised)'
  BY BodyOKKept, PromisedKept DEF SessionInv
<1>4. SessionInv /\ (BodyOK /\ Promised) => ClientInv
  BY DEF ClientInv
<1>5. ClientSpec => []SessionInv
  BY <1>1, SessionsFit
<1> QED BY <1>2, <1>3, <1>4, <1>5, ClientTyped, ClientsUseService, Safety, PTL DEF ClientSpec

\* A page that reports success is right, through lost replies, late requests,
\* resumed runs, failures and crashes: the name holds its file, whole, and goes
\* on holding it whatever other pages send.
THEOREM SuccessIsStored ==
  ASSUME NamesApart, TrustedFaults, ShapesApart PROVE ClientSpec => []SuccessMeansStored
<1>1. ClientTypes /\ ClientInv /\ DurableUploads => SuccessMeansStored
  <2> SUFFICES ASSUME ClientTypes, ClientInv, DurableUploads, NEW p \in Pages, page[p].pc = "done"
               PROVE  /\ db[Target] = NewStorageInfo(Target, page[p].file)
                      /\ disk[Target] = page[p].file
    BY DEF SuccessMeansStored
  <2>1. acked[Target] = page[p].file /\ page[p].file \in Contents
    BY DEF ClientInv, Promised, ClientTypes, PagesOK, Page
  <2>2. acked[Target] # None /\ Target \in Names
    BY <2>1, ClientAssumption, MetadataAssumption DEF Bodies
  <2> QED BY <2>1, <2>2 DEF DurableUploads
<1> QED BY <1>1, ClientTyped, ClientsRight, ClientsUseService, UploadsAreDurable, PTL

\* A file is put together from chunks of two only if pages upload two that size and
\* chunk size do not tell apart.  No assumption is made on the contents: a chunk of
\* another file passes the test of its length, but the page that sends it has a
\* session of the whole shape of its own.
THEOREM MixedIsAlike == ASSUME KeysApart PROVE ClientSpec => []MixedOnlyAlike
<1>1. ClientInit => WholeInv
  BY ClientInitInv
<1>2. ClientTypes /\ SessionInv /\ WholeInv /\ [ClientNext]_clientVars => WholeInv'
  BY WholeKept DEF SessionInv
<1>3. WholeInv => MixedOnlyAlike
  BY DEF WholeInv, FilesApart, NothingMixed, MixedOnlyAlike
<1> QED BY <1>1, <1>2, <1>3, ClientTyped, SessionsFit, PTL DEF ClientSpec

\* A page that goes on to complete has every chunk there: through errors, late
\* requests, crashes and resumed runs it never counts one that is not.
THEOREM CompletionFindsChunks ==
  ASSUME KeysApart PROVE ClientSpec => []CompleteFindsChunks
<1>1. ClientTypes /\ SessionInv => CompleteFindsChunks
  <2> SUFFICES ASSUME ClientTypes, Counted, NEW p \in Pages, page[p].pc = "complete",
                      Loadable(page[p].session), db[Target] = None
               PROVE  UploadedChunks(page[p].session) = Chunks
    BY DEF CompleteFindsChunks, SessionInv
  <2>1. page[p].uploaded = Chunks
    BY DEF Counted
  <2>2. \A i \in Chunks : sessions[page[p].session].chunks[i] # None
    BY <2>1 DEF Counted, Loadable
  <2> QED BY <2>2 DEF UploadedChunks, Chunks
<1> QED BY <1>1, ClientTyped, SessionsFit, PTL
=============================================================================
