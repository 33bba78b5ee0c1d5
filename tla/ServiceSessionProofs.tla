------------------------- MODULE ServiceSessionProofs -------------------------
(***************************************************************************)
(* What the storage service keeps of the sessions of multipart uploads,    *)
(* of the files and of the cache, for any names, contents and sessions,    *)
(* and whatever fails: files, statements, connections, the startup and the *)
(* process itself.  Each theorem names the assumptions it rests on; they   *)
(* are weaker than those of ServiceProofs.                                 *)
(***************************************************************************)
EXTENDS ServiceTypeProofs

\* No two names are one to MySQL.
KeysApart == \A m, n \in Names : KeyOf[m] = KeyOf[n] => m = n

\* No name is the temporary file of another.
TempsApart == \A n \in Names : TmpOf[n] \notin Names

\* A statement that was applied is reported as applied.
RepliesArrive == "lostReply" \notin Faults
-----------------------------------------------------------------------------
\* The session about to be saved has no double that loads; and the session a
\* chunk is written to still loads.
SaveAlone ==
  req.pc = "session.save" =>
    \A j \in UploadIds :
      /\ Loadable(j)
      /\ sessions[j].name = sessions[req.id].name
      /\ sessions[j].shape = sessions[req.id].shape
      => j = req.id

ChunkLoads == req.pc = "chunk.write" => Loadable(req.id)

SessionsInv == OneSessionPerUpload /\ SaveAlone /\ ChunkLoads

\* What a request is about to write is one content, and no file is put together
\* from two.
WritingPCs == {"upload.write", "complete.unlink", "complete.stage"}

BodyWhole == req.pc \in WritingPCs => req.info.body \in Contents

NothingMixed == \A p \in Paths : disk[p] # Mixed

\* The temporary file to be renamed has been written out.
StagedWhole == req.pc \in {"upload.rename", "complete.rename"} => disk[TmpOf[req.name]] # Torn

TornInv == NoTornFile /\ StagedWhole

\* The row a request inserts is that of the name in hand, and the session it
\* completes is of that name; after the insert the row is there.
BeforeInsert == {"upload.write", "upload.rename", "upload.insert",
                 "complete.unlink", "complete.stage", "complete.rename", "complete.insert"}

CompletingPCs == {"complete.unlink", "complete.stage", "complete.rename", "complete.insert",
                  "complete.rollback", "complete.remove"}

AfterInsert == {"upload.reply", "upload.cleanup", "complete.remove"}

StoredInv ==
  /\ req.pc \in BeforeInsert => req.info.url = req.name
  /\ req.pc \in CompletingPCs => sessions[req.id].name = req.name
  /\ req.pc \in AfterInsert => db[req.name] # None

\* A row lies under its own URL.
RowsNamed == \A n \in Names : db[n] # None => db[n].url = n

CacheInv == CacheSound /\ RowsNamed
-----------------------------------------------------------------------------
\* The steps that touch sessions, and those that leave them alone; after the
\* latter no request is at a step that writes to one, unless it was before.
LEMMA SessionsUntouched ==
  ASSUME [Next]_vars
  PROVE  \/ \E n \in Names, c \in Contents : InitBegin(n, c)
         \/ \E id \in UploadIds, i \in 1 .. ChunkCount, c \in Contents : ChunkBegin(id, i, c)
         \/ SessionSave \/ ChunkWrite \/ UploadCleanup \/ CompleteRemove \/ AbortRemove \/ Crash
         \/ /\ UNCHANGED sessions
            /\ UNCHANGED req \/ req'.pc \notin {"session.save", "chunk.write"}
<1> DEFINE quiet == /\ UNCHANGED sessions
                    /\ UNCHANGED req \/ req'.pc \notin {"session.save", "chunk.write"}
<1>1. \A pc : Goto(pc) => req'.pc = pc \/ req' = req
  BY DEF Goto
<1>2. Finish => req'.pc \notin {"session.save", "chunk.write"}
  BY IdleEquipped DEF Finish
<1>3. ASSUME NEW n \in Names, NEW c \in Contents, UploadBegin(n, c) PROVE quiet
  BY <1>3 DEF UploadBegin, Request
<1>4. CASE UploadWrite \/ UploadRename \/ UploadInsert \/ UploadRollback \/ UploadReply
  BY <1>1, <1>2, <1>4 DEF UploadWrite, UploadRename, UploadInsert, UploadRollback, UploadReply
<1>5. ASSUME NEW n \in Names, DeleteBegin(n) PROVE quiet
  BY <1>5 DEF DeleteBegin, Request
<1>6. CASE DeleteRow \/ DeleteFile \/ DeleteRestore
  BY <1>1, <1>2, <1>6 DEF DeleteRow, DeleteFile, DeleteRestore
<1>7. CASE Restart \/ \E n \in Names : Download(n)
  BY <1>7 DEF Restart, Download
<1>8. ASSUME NEW id \in UploadIds \cup {None}, (id \in UploadIds /\ CompleteBegin(id)) \/ AbortBegin(id)
      PROVE  quiet
  BY <1>8 DEF CompleteBegin, AbortBegin, CompleteRequest, Request
<1>9. CASE CompleteUnlink \/ CompleteStage \/ CompleteRename \/ CompleteInsert \/ CompleteRollback
  BY <1>1, <1>2, <1>9 DEF CompleteUnlink, CompleteStage, CompleteRename, CompleteInsert, CompleteRollback
<1>10. CASE UNCHANGED vars
  BY <1>10 DEF vars
<1> HIDE DEF quiet
<1>11. CASE Upload
  BY <1>3, <1>4, <1>11 DEF Upload, quiet
<1>12. CASE DeleteFlow
  BY <1>5, <1>6, <1>12 DEF DeleteFlow, quiet
<1>13. CASE Multipart
  BY <1>8, <1>9, <1>13 DEF Multipart, quiet
<1> QED BY <1>7, <1>10, <1>11, <1>12, <1>13 DEF Next, quiet

\* Sessions that stop loading, or only change their chunks, leave the rest
\* without doubles.
LEMMA FewerSessions ==
  ASSUME OneSessionPerUpload,
         \A j \in UploadIds : Loadable(j)' =>
           /\ Loadable(j)
           /\ sessions'[j].name = sessions[j].name
           /\ sessions'[j].shape = sessions[j].shape
  PROVE  OneSessionPerUpload'
  BY DEF OneSessionPerUpload

\* One directory that changes in no more than its chunks, or stops loading.
LEMMA OneChanges ==
  ASSUME OneSessionPerUpload, SessionsOK, NEW id \in UploadIds, NEW s,
         sessions' = [sessions EXCEPT ![id] = s],
         s.st = "ok" => /\ Loadable(id) /\ s.name = sessions[id].name
                        /\ s.shape = sessions[id].shape
  PROVE  OneSessionPerUpload'
<1>1. \A j \in UploadIds : sessions'[j] = IF j = id THEN s ELSE sessions[j]
  BY DEF SessionsOK
<1> QED BY <1>1, FewerSessions DEF Loadable

\* What an interrupted remove_all leaves is nothing, or the session with fewer
\* chunks, that loads only if it did.
LEMMA RemainsLess ==
  ASSUME NEW s \in Session, NEW r \in Remains(s)
  PROVE  \/ r = NoSession
         \/ /\ r.st \in {s.st, "broken"} /\ r.name = s.name /\ r.shape = s.shape
            /\ \A i \in 1 .. ChunkCount : r.chunks[i] \in {s.chunks[i], None}
<1>1. ASSUME NEW was \in {s.st, "broken"}, NEW kept \in SUBSET (1 .. ChunkCount), r = Partial(s, was, kept)
      PROVE  /\ r.st = was /\ r.name = s.name /\ r.shape = s.shape
             /\ \A i \in 1 .. ChunkCount : r.chunks[i] \in {s.chunks[i], None}
  BY <1>1 DEF Partial, Session
<1> QED BY <1>1 DEF Remains

\* meta.json is not written while another session that loads is of that name
\* and size: init looks for one first, and nothing runs between.
LEMMA SessionsKept == ASSUME TypeInv, SessionsInv, [Next]_vars PROVE SessionsInv'
<1> USE DEF SessionsInv
<1>0. SessionsOK /\ Equipped(req) /\ sessions \in [UploadIds -> Session]
  BY DEF TypeInv, Typed, SessionsOK
<1>1. CASE UNCHANGED sessions /\ (UNCHANGED req \/ req'.pc \notin {"session.save", "chunk.write"})
  BY <1>1 DEF OneSessionPerUpload, SaveAlone, ChunkLoads, Loadable
<1>2. ASSUME NEW n \in Names, NEW c \in Contents, InitBegin(n, c) PROVE SessionsInv'
  <2>1. ASSUME NEW id \in UploadIds, NEW s \in Session, OpenMeta(id, s),
               s.name = n, s.shape = ShapeOf[c],
               \A j \in ReusableSessions(n, ShapeOf[c]) : j = id,
               UNCHANGED req \/ req' = SaveRequest(id, n)
        PROVE  SessionsInv'
    <3> DEFINE t == [s EXCEPT !.st = "broken"]
    <3>1. sessions' = [sessions EXCEPT ![id] = t] /\ t.st = "broken" /\ t.name = n /\ t.shape = ShapeOf[c]
      BY <2>1 DEF OpenMeta, Session
    <3> HIDE DEF t
    <3>2. OneSessionPerUpload'
      BY <1>0, <3>1, OneChanges
    <3>3. \A j \in UploadIds : sessions'[j] = IF j = id THEN t ELSE sessions[j]
      BY <1>0, <3>1
    <3>4. req'.pc # "chunk.write" /\ (req'.pc = "session.save" => req'.id = id)
      BY <1>2, <2>1 DEF InitBegin, Ready, SaveRequest, Request
    <3>5. SaveAlone'
      BY <2>1, <3>1, <3>3, <3>4 DEF SaveAlone, Loadable, ReusableSessions, SessionsOf
    <3> QED BY <3>2, <3>4, <3>5 DEF ChunkLoads
  <2>2. ASSUME NEW id \in ReusableSessions(n, ShapeOf[c]), OpenMeta(id, sessions[id]),
               req' = SaveRequest(id, n)
        PROVE  SessionsInv'
    <3>1. id \in UploadIds /\ sessions[id] \in Session /\ sessions[id].name = n
          /\ sessions[id].shape = ShapeOf[c]
      BY <1>0 DEF ReusableSessions, SessionsOf
    <3>2. \A j \in ReusableSessions(n, ShapeOf[c]) : j = id
      BY DEF ReusableSessions, SessionsOf, OneSessionPerUpload
    <3> QED BY <2>1, <2>2, <3>1, <3>2
  <2>3. ASSUME NEW id \in UploadIds, ReusableSessions(n, ShapeOf[c]) = {},
               OpenMeta(id, [NoSession EXCEPT !.name = n, !.shape = ShapeOf[c]]),
               UNCHANGED req \/ req' = SaveRequest(id, n)
        PROVE  SessionsInv'
    <3> DEFINE s == [NoSession EXCEPT !.name = n, !.shape = ShapeOf[c]]
    <3>1. s \in Session /\ s.name = n /\ s.shape = ShapeOf[c]
      BY DEF NoSession, NoChunks, Session, Shapes
    <3> HIDE DEF s
    <3>2. OpenMeta(id, s)
      BY <2>3 DEF s
    <3> QED BY <2>1, <2>3, <3>1, <3>2
  <2>4. CASE UNCHANGED <<sessions, req>>
    BY <1>1, <2>4
  <2> QED BY <1>2, <2>2, <2>3, <2>4 DEF InitBegin
<1>3. ASSUME NEW id \in UploadIds, NEW i \in 1 .. ChunkCount, NEW c \in Contents, ChunkBegin(id, i, c)
      PROVE  SessionsInv'
  <2>1. CASE sessions' = [sessions EXCEPT ![id].chunks[i] = Torn] /\ req' = ChunkRequest(id, i, c)
    <3> DEFINE s == [sessions[id] EXCEPT !.chunks[i] = Torn]
    <3>1. /\ sessions' = [sessions EXCEPT ![id] = s] /\ Loadable(id)
          /\ s.st = sessions[id].st /\ s.name = sessions[id].name /\ s.shape = sessions[id].shape
      BY <1>0, <1>3, <2>1 DEF ChunkBegin, Session
    <3> HIDE DEF s
    <3>2. OneSessionPerUpload'
      BY <1>0, <3>1, OneChanges
    <3>3. req'.pc = "chunk.write" /\ req'.id = id
      BY <2>1 DEF ChunkRequest, Request
    <3>4. Loadable(id)'
      BY <1>0, <3>1 DEF Loadable
    <3> QED BY <3>2, <3>3, <3>4 DEF SaveAlone, ChunkLoads, Loadable
  <2>2. CASE UNCHANGED <<sessions, req>>
    BY <1>1, <2>2
  <2> QED BY <1>3, <2>1, <2>2 DEF ChunkBegin
<1>4. ASSUME NEW id \in UploadIds, NEW s,
             sessions' = [sessions EXCEPT ![id] = s],
             s.st = "ok" => Loadable(id) /\ s.name = sessions[id].name /\ s.shape = sessions[id].shape,
             req'.pc \notin {"session.save", "chunk.write"}
      PROVE  SessionsInv'
  BY <1>0, <1>4, OneChanges DEF SaveAlone, ChunkLoads
<1>5. Finish => req'.pc \notin {"session.save", "chunk.write"}
  BY IdleEquipped DEF Finish
<1>6. NoSession.st # "ok"
  BY DEF NoSession
<1>7. CASE SessionSave
  <2>1. req.pc = "session.save" /\ req.id \in UploadIds /\ req'.pc \notin {"session.save", "chunk.write"}
    BY <1>0, <1>5, <1>7 DEF SessionSave, At, Equipped, SessionPCs
  <2>2. CASE sessions' = [sessions EXCEPT ![req.id].st = "ok"]
    <3> DEFINE s == [sessions[req.id] EXCEPT !.st = "ok"]
    <3>1. \A j \in UploadIds : sessions'[j] = IF j = req.id THEN s ELSE sessions[j]
      BY <1>0, <2>1, <2>2
    <3>2. s.name = sessions[req.id].name /\ s.shape = sessions[req.id].shape
      BY <1>0, <2>1 DEF Session
    <3> HIDE DEF s
    <3>3. OneSessionPerUpload'
      BY <2>1, <3>1, <3>2 DEF SaveAlone, OneSessionPerUpload, Loadable
    <3> QED BY <2>1, <3>3 DEF SaveAlone, ChunkLoads
  <2> QED BY <1>1, <1>7, <2>1, <2>2 DEF SessionSave
<1>8. CASE ChunkWrite
  <2> DEFINE s == [sessions[req.id] EXCEPT !.chunks[req.index] = req.info.body]
             t == [s EXCEPT !.st = "broken"]
  <2>1. req.pc = "chunk.write" /\ req.id \in UploadIds /\ Loadable(req.id)
    BY <1>0, <1>8 DEF ChunkWrite, At, Equipped, SessionPCs, ChunkLoads
  <2>2. /\ s.st = sessions[req.id].st /\ s.name = sessions[req.id].name
        /\ s.shape = sessions[req.id].shape
    BY <1>0, <2>1 DEF Session
  <2>3. t.st = "broken" /\ t.name = s.name /\ t.shape = s.shape
    BY <1>0, <2>1 DEF Session
  <2>4. \/ sessions' = [sessions EXCEPT ![req.id] = t] /\ req' = SaveRequest(req.id, req.name)
        \/ sessions' = [sessions EXCEPT ![req.id] = s] /\ Finish
        \/ UNCHANGED sessions /\ Finish
    BY <1>8 DEF ChunkWrite, OpenMeta
  <2> HIDE DEF s, t
  <2>5. CASE sessions' = [sessions EXCEPT ![req.id] = t] /\ req' = SaveRequest(req.id, req.name)
    <3>1. OneSessionPerUpload'
      BY <1>0, <2>1, <2>3, <2>5, OneChanges
    <3>2. req'.pc = "session.save" /\ req'.id = req.id
      BY <2>5 DEF SaveRequest, Request
    <3>3. \A j \in UploadIds : sessions'[j] = IF j = req.id THEN t ELSE sessions[j]
      BY <1>0, <2>5
    <3>4. ASSUME NEW j \in UploadIds, Loadable(j)', sessions'[j].name = sessions'[req.id].name,
                 sessions'[j].shape = sessions'[req.id].shape
          PROVE  j = req.id
      BY <2>1, <2>2, <2>3, <3>3, <3>4 DEF OneSessionPerUpload, Loadable
    <3> QED BY <3>1, <3>2, <3>4 DEF SaveAlone, ChunkLoads
  <2>6. CASE sessions' = [sessions EXCEPT ![req.id] = s] /\ Finish
    BY <1>4, <1>5, <2>1, <2>2, <2>6
  <2> QED BY <1>1, <1>5, <2>4, <2>5, <2>6
<1>9. CASE UploadCleanup \/ AbortRemove
  <2>1. req'.pc \notin {"session.save", "chunk.write"}
    BY <1>5, <1>9 DEF UploadCleanup, AbortRemove, At
  <2>2. SessionsOf(req.name) \subseteq UploadIds /\ Aborted(req.id) \subseteq UploadIds
    BY DEF SessionsOf, Aborted
  <2>3. ASSUME NEW id \in UploadIds, sessions' = [sessions EXCEPT ![id] = NoSession]
        PROVE  SessionsInv'
    BY <1>4, <1>6, <2>1, <2>3
  <2> QED BY <1>1, <1>9, <2>1, <2>2, <2>3 DEF UploadCleanup, AbortRemove
<1>10. CASE CompleteRemove
  <2>1. req.id \in UploadIds /\ sessions' = [sessions EXCEPT ![req.id] = NoSession]
    BY <1>0, <1>10 DEF CompleteRemove, At, Equipped, SessionPCs
  <2> QED BY <1>4, <1>5, <1>6, <1>10, <2>1 DEF CompleteRemove
<1>11. CASE Crash
  <2>1. req'.pc \notin {"session.save", "chunk.write"}
    BY <1>11, IdleEquipped DEF Crash
  <2>2. ASSUME NEW id \in BeingRemoved, NEW s \in Remains(sessions[id]),
               sessions' = [sessions EXCEPT ![id] = s]
        PROVE  SessionsInv'
    <3>1. id \in UploadIds /\ sessions[id] \in Session
      BY RemovalType
    <3>2. s.st = "ok" => /\ sessions[id].st = "ok" /\ s.name = sessions[id].name
                         /\ s.shape = sessions[id].shape
      BY <1>6, <3>1, RemainsLess
    <3> QED BY <1>4, <2>1, <2>2, <3>1, <3>2 DEF Loadable
  <2> QED BY <1>1, <1>11, <2>1, <2>2 DEF Crash
<1> QED BY <1>1, <1>2, <1>3, <1>7, <1>8, <1>9, <1>10, <1>11, SessionsUntouched

\* No two sessions that load have one name and size, whatever failed or was
\* interrupted while they were saved.
THEOREM SessionsAreDistinct == Spec => []OneSessionPerUpload
<1>1. Init => SessionsInv
  BY IdleEquipped DEF Init, SessionsInv, OneSessionPerUpload, Loadable, NoSession, SaveAlone, ChunkLoads
<1>2. TypeInv /\ SessionsInv /\ [Next]_vars => SessionsInv'
  BY SessionsKept
<1>3. SessionsInv => OneSessionPerUpload
  BY DEF SessionsInv
<1> QED BY <1>1, <1>2, <1>3, RequestsEquipped, PTL DEF Spec
-----------------------------------------------------------------------------
\* One directory that changes, and no other.
LEMMA OneSessionMoves ==
  ASSUME SessionsOK, NEW j \in UploadIds, NEW s, sessions' = [sessions EXCEPT ![j] = s]
  PROVE  \A id \in UploadIds : sessions'[id] = IF id = j THEN s ELSE sessions[id]
  BY DEF SessionsOK

\* What may become of a chunk of a session: it stays, in a session of that size;
\* its file is opened, and so emptied; it is written; or it is gone with a session
\* that is removed, or was not there.
ChunkMoves(id, i) ==
  \/ /\ sessions'[id].chunks[i] = sessions[id].chunks[i]
     /\ sessions'[id].shape = sessions[id].shape
  \/ sessions'[id].chunks[i] = Torn
  \/ /\ req.pc = "chunk.write" /\ req.id = id
     /\ sessions'[id].chunks[i] = req.info.body
     /\ sessions'[id].shape = sessions[id].shape
  \/ /\ sessions'[id].chunks[i] = None
     /\ id \in BeingRemoved \/ sessions[id].st = "absent"

LEMMA ChunksMove ==
  ASSUME TypeInv, [Next]_vars, NEW id \in UploadIds, NEW i \in 1 .. ChunkCount
  PROVE  ChunkMoves(id, i)
<1>0. /\ SessionsOK /\ Equipped(req) /\ sessions \in [UploadIds -> Session]
      /\ \A k \in 1 .. ChunkCount : NoSession.chunks[k] = None
  BY DEF TypeInv, Typed, SessionsOK, NoSession, NoChunks
<1>1. CASE UNCHANGED sessions
  BY <1>1 DEF ChunkMoves
<1>2. ASSUME NEW j \in UploadIds, NEW s, sessions' = [sessions EXCEPT ![j] = s],
             s.shape = sessions[j].shape /\ s.chunks[i] = sessions[j].chunks[i]
      PROVE  ChunkMoves(id, i)
  BY <1>0, <1>2, OneSessionMoves DEF ChunkMoves
<1>3. ASSUME NEW j \in UploadIds, NEW s, sessions' = [sessions EXCEPT ![j] = s],
             s.chunks[i] = None, j \in BeingRemoved \/ sessions[j].st = "absent"
      PROVE  ChunkMoves(id, i)
  BY <1>0, <1>3, OneSessionMoves DEF ChunkMoves
<1>4. ASSUME NEW n \in Names, NEW c \in Contents, InitBegin(n, c) PROVE ChunkMoves(id, i)
  <2>1. ASSUME NEW j \in ReusableSessions(n, ShapeOf[c]), OpenMeta(j, sessions[j])
        PROVE  ChunkMoves(id, i)
    <3> DEFINE s == [sessions[j] EXCEPT !.st = "broken"]
    <3>1. /\ j \in UploadIds /\ sessions' = [sessions EXCEPT ![j] = s]
          /\ s.shape = sessions[j].shape /\ s.chunks = sessions[j].chunks
      BY <1>0, <2>1 DEF ReusableSessions, SessionsOf, OpenMeta, Session
    <3> HIDE DEF s
    <3> QED BY <1>2, <3>1
  <2>2. ASSUME NEW j \in UploadIds, sessions[j].st = "absent",
               OpenMeta(j, [NoSession EXCEPT !.name = n, !.shape = ShapeOf[c]])
        PROVE  ChunkMoves(id, i)
    <3> DEFINE s == [[NoSession EXCEPT !.name = n, !.shape = ShapeOf[c]] EXCEPT !.st = "broken"]
    <3>1. sessions' = [sessions EXCEPT ![j] = s] /\ s.chunks = NoSession.chunks
      BY <2>2 DEF OpenMeta, NoSession
    <3> HIDE DEF s
    <3> QED BY <1>0, <1>3, <2>2, <3>1
  <2> QED BY <1>1, <1>4, <2>1, <2>2 DEF InitBegin
<1>5. ASSUME NEW j \in UploadIds, NEW k \in 1 .. ChunkCount, NEW c \in Contents, ChunkBegin(j, k, c)
      PROVE  ChunkMoves(id, i)
  <2>1. CASE sessions' = [sessions EXCEPT ![j].chunks[k] = Torn]
    <3> DEFINE s == [sessions[j] EXCEPT !.chunks[k] = Torn]
    <3>1. /\ sessions' = [sessions EXCEPT ![j] = s] /\ s.shape = sessions[j].shape
          /\ s.chunks[i] = IF i = k THEN Torn ELSE sessions[j].chunks[i]
      BY <1>0, <2>1 DEF Session
    <3> HIDE DEF s
    <3> QED BY <1>0, <3>1, OneSessionMoves DEF ChunkMoves
  <2>2. sessions' = [sessions EXCEPT ![j].chunks[k] = Torn] \/ UNCHANGED sessions
    BY <1>5, Zenon DEF ChunkBegin
  <2> QED BY <1>1, <2>1, <2>2
<1>6. CASE SessionSave
  <2>1. req.id \in UploadIds
    BY <1>0, <1>6 DEF SessionSave, At, Equipped, SessionPCs
  <2>2. CASE sessions' = [sessions EXCEPT ![req.id].st = "ok"]
    <3> DEFINE s == [sessions[req.id] EXCEPT !.st = "ok"]
    <3>1. /\ sessions' = [sessions EXCEPT ![req.id] = s]
          /\ s.chunks = sessions[req.id].chunks /\ s.shape = sessions[req.id].shape
      BY <1>0, <2>1, <2>2 DEF Session
    <3> HIDE DEF s
    <3> QED BY <1>2, <2>1, <3>1
  <2> QED BY <1>1, <1>6, <2>2 DEF SessionSave
<1>7. CASE ChunkWrite
  <2> DEFINE s == [sessions[req.id] EXCEPT !.chunks[req.index] = req.info.body]
             t == [s EXCEPT !.st = "broken"]
  <2>1. req.pc = "chunk.write" /\ req.id \in UploadIds /\ req.index \in 1 .. ChunkCount
    BY <1>0, <1>7 DEF ChunkWrite, At, Equipped, SessionPCs
  <2>2. /\ s.shape = sessions[req.id].shape
        /\ s.chunks[i] = IF i = req.index THEN req.info.body ELSE sessions[req.id].chunks[i]
    BY <1>0, <2>1 DEF Session
  <2>3. t.chunks = s.chunks /\ t.shape = s.shape
    BY <1>0, <2>1 DEF Session
  <2>4. \/ sessions' = [sessions EXCEPT ![req.id] = t]
        \/ sessions' = [sessions EXCEPT ![req.id] = s]
        \/ UNCHANGED sessions
    BY <1>7 DEF ChunkWrite, OpenMeta
  <2> HIDE DEF s, t
  <2>5. ASSUME NEW r, sessions' = [sessions EXCEPT ![req.id] = r],
               r.shape = sessions[req.id].shape,
               r.chunks[i] = IF i = req.index THEN req.info.body ELSE sessions[req.id].chunks[i]
        PROVE  ChunkMoves(id, i)
    BY <1>0, <2>1, <2>5, OneSessionMoves DEF ChunkMoves
  <2> QED BY <1>1, <2>2, <2>3, <2>4, <2>5
<1>8. CASE UploadCleanup \/ CompleteRemove \/ AbortRemove
  <2>1. \/ UNCHANGED sessions
        \/ \E j \in BeingRemoved \cap UploadIds : sessions' = [sessions EXCEPT ![j] = NoSession]
    BY <1>0, <1>8 DEF UploadCleanup, CompleteRemove, AbortRemove, BeingRemoved, At, Aborted, SessionsOf,
       Equipped, SessionPCs
  <2> QED BY <1>0, <1>1, <1>3, <2>1
<1>9. CASE Crash
  <2>1. ASSUME NEW j \in BeingRemoved, NEW s \in Remains(sessions[j]),
               sessions' = [sessions EXCEPT ![j] = s]
        PROVE  ChunkMoves(id, i)
    <3>1. j \in UploadIds /\ sessions[j] \in Session
      BY RemovalType
    <3>2. s.chunks[i] = None \/ (s.shape = sessions[j].shape /\ s.chunks[i] = sessions[j].chunks[i])
      BY <1>0, <3>1, RemainsLess
    <3> QED BY <1>2, <1>3, <2>1, <3>1, <3>2
  <2> QED BY <1>1, <1>9, <2>1 DEF Crash
<1> QED BY <1>1, <1>4, <1>5, <1>6, <1>7, <1>8, <1>9, SessionsUntouched

\* What an upload or a completion is about to write is one content, if that is what
\* the chunks are merged into.
LEMMA BodyKept ==
  ASSUME TypeInv, BodyWhole, [Next]_vars,
         \A id \in UploadIds : CompleteBegin(id) /\ Merged(id) # Torn => Merged(id) \in Contents
  PROVE  BodyWhole'
<1>0. Equipped(req)
  BY DEF TypeInv, Typed
<1>1. CASE req'.pc \notin WritingPCs
  BY <1>1 DEF BodyWhole
<1>2. CASE UNCHANGED req
  BY <1>2 DEF BodyWhole
<1>3. \A pc : Goto(pc) => req'.pc = pc /\ req'.info = req.info
  BY <1>0 DEF Goto, Equipped, Requests
<1>4. Finish => req'.pc \notin WritingPCs
  BY IdleEquipped DEF Finish, WritingPCs
<1>5. ASSUME NEW n \in Names, NEW c \in Contents, UploadBegin(n, c) PROVE BodyWhole'
  BY <1>2, <1>5 DEF UploadBegin, Request, NewStorageInfo, BodyWhole
<1>6. ASSUME NEW id \in UploadIds, CompleteBegin(id) PROVE BodyWhole'
  <2>1. CASE Merged(id) # Torn /\ req' = CompleteRequest(id)
    BY <1>6, <2>1 DEF CompleteRequest, Request, NewStorageInfo, BodyWhole
  <2> QED BY <1>2, <1>6, <2>1 DEF CompleteBegin
<1>7. CASE CompleteUnlink
  BY <1>3, <1>7 DEF CompleteUnlink, At, BodyWhole, WritingPCs
<1>8. CASE \/ UploadWrite \/ UploadRename \/ UploadInsert \/ UploadRollback \/ UploadReply \/ UploadCleanup
           \/ CompleteStage \/ CompleteRename \/ CompleteInsert \/ CompleteRollback \/ CompleteRemove
           \/ AbortRemove \/ SessionSave
           \/ DeleteRow \/ DeleteFile \/ DeleteRestore
  BY <1>1, <1>2, <1>3, <1>4, <1>8 DEF UploadWrite, UploadRename, UploadInsert, UploadRollback, UploadReply,
     UploadCleanup, CompleteStage, CompleteRename, CompleteInsert, CompleteRollback, CompleteRemove,
     AbortRemove, SessionSave, DeleteRow, DeleteFile, DeleteRestore, WritingPCs
<1>9. ASSUME NEW n \in Names, DeleteBegin(n) \/ Download(n)
      PROVE  BodyWhole'
  BY <1>1, <1>2, <1>9 DEF DeleteBegin, Download, Request, WritingPCs
<1>12. ASSUME NEW n \in Names, NEW c \in Contents, InitBegin(n, c)
       PROVE  BodyWhole'
  BY <1>1, <1>2, <1>12 DEF InitBegin, SaveRequest, Request, WritingPCs
<1>10. ASSUME NEW id \in UploadIds \cup {None}, AbortBegin(id)
       PROVE  BodyWhole'
  BY <1>1, <1>2, <1>10 DEF AbortBegin, Request, WritingPCs
<1>13. ASSUME NEW id \in UploadIds, NEW i \in 1 .. ChunkCount, NEW c \in Contents, ChunkBegin(id, i, c)
       PROVE  BodyWhole'
  BY <1>1, <1>2, <1>13 DEF ChunkBegin, ChunkRequest, Request, WritingPCs
<1>11. CASE ChunkWrite \/ Crash \/ Restart \/ UNCHANGED vars
  BY <1>1, <1>2, <1>4, <1>11, IdleEquipped DEF ChunkWrite, SaveRequest, Request, Crash, Restart, vars,
     WritingPCs
<1> QED BY <1>5, <1>6, <1>7, <1>8, <1>9, <1>10, <1>11, <1>12, <1>13
        DEF Next, Upload, Multipart, DeleteFlow

\* The steps that touch files, and what they do to them.
LEMMA DiskUntouched ==
  ASSUME [Next]_vars
  PROVE  \/ \E n \in Names, c \in Contents : UploadBegin(n, c)
         \/ UploadWrite \/ UploadRename \/ UploadRollback \/ DeleteFile
         \/ CompleteUnlink \/ CompleteStage \/ CompleteRename \/ CompleteRollback
         \/ UNCHANGED disk
<1>1. CASE UploadInsert \/ UploadReply \/ UploadCleanup \/ DeleteRow \/ DeleteRestore
           \/ CompleteInsert \/ CompleteRemove \/ AbortRemove \/ SessionSave \/ ChunkWrite
           \/ Crash \/ Restart \/ UNCHANGED vars
  BY <1>1, Zenon DEF UploadInsert, UploadReply, UploadCleanup, DeleteRow, DeleteRestore, CompleteInsert,
     CompleteRemove, AbortRemove, SessionSave, ChunkWrite, Crash, Restart, vars
<1>2. ASSUME NEW n \in Names, DeleteBegin(n) \/ Download(n) PROVE UNCHANGED disk
  BY <1>2, Zenon DEF DeleteBegin, Download
<1>3. ASSUME NEW n \in Names, NEW c \in Contents, InitBegin(n, c) PROVE UNCHANGED disk
  BY <1>3, Zenon DEF InitBegin
<1>4. ASSUME NEW id \in UploadIds \cup {None}, AbortBegin(id) \/ CompleteBegin(id) PROVE UNCHANGED disk
  BY <1>4, Zenon DEF AbortBegin, CompleteBegin
<1>5. ASSUME NEW id \in UploadIds, NEW i \in 1 .. ChunkCount, NEW c \in Contents, ChunkBegin(id, i, c)
      PROVE  UNCHANGED disk
  BY <1>5, Zenon DEF ChunkBegin
<1> QED BY <1>1, <1>2, <1>3, <1>4, <1>5, Zenon DEF Next, Upload, Multipart, DeleteFlow

\* A request at work on a file has its name.
LEMMA NameInHand ==
  ASSUME TypeInv, req.pc \in FilePCs
  PROVE  req.name \in Names /\ req.info \in Info /\ TmpOf[req.name] \in Paths /\ req.name \in Paths
  BY PathsFacts DEF TypeInv, Typed, Equipped

\* Then a file put together from two contents never comes to be.
LEMMA NoMixedKept ==
  ASSUME TypeInv, BodyWhole, NothingMixed, [Next]_vars PROVE NothingMixed'
<1>0. disk \in [Paths -> Bodies \cup {Torn, None}] /\ \A p \in Paths : disk[p] # Mixed
  BY DEF TypeInv, Typed, DiskOK, NothingMixed
<1>1. /\ Mixed # Torn /\ Mixed # None
      /\ \A c \in Contents : c # Mixed
  BY StorageAssumption, MetadataAssumption DEF Bodies
<1>2. ASSUME NEW p \in Paths, NEW b, b # Mixed, WriteFile(p, b) PROVE NothingMixed'
  BY <1>0, <1>2 DEF WriteFile, NothingMixed
<1>3. ASSUME NEW p \in Paths, RemoveFile(p) PROVE NothingMixed'
  BY <1>1, <1>2, <1>3 DEF RemoveFile
<1>4. CASE UNCHANGED disk
  BY <1>0, <1>4 DEF NothingMixed
<1>5. ASSUME NEW n \in Names, NEW c \in Contents, UploadBegin(n, c) PROVE NothingMixed'
  <2>1. TmpOf[n] \in Paths
    BY PathsFacts
  <2> QED BY <1>1, <1>2, <1>3, <1>4, <1>5, <2>1 DEF UploadBegin
<1>6. CASE UploadWrite \/ CompleteStage
  <2>1. req.pc \in FilePCs /\ req.pc \in WritingPCs
    BY <1>6 DEF UploadWrite, CompleteStage, At, FilePCs, PCs, WritingPCs
  <2>2. TmpOf[req.name] \in Paths /\ req.info.body # Mixed
    BY <1>1, <2>1, NameInHand DEF BodyWhole
  <2> QED BY <1>2, <1>3, <1>4, <1>6, <2>2 DEF UploadWrite, CompleteStage
<1>7. CASE UploadRename \/ CompleteRename
  <2>1. req.pc \in FilePCs
    BY <1>7 DEF UploadRename, CompleteRename, At, FilePCs, PCs
  <2>2. TmpOf[req.name] \in Paths /\ req.name \in Paths
    BY <2>1, NameInHand
  <2>3. CASE Rename(TmpOf[req.name], req.name)
    BY <1>0, <1>1, <2>2, <2>3 DEF Rename, NothingMixed
  <2> QED BY <1>3, <1>7, <2>2, <2>3 DEF UploadRename, CompleteRename
<1>8. CASE UploadRollback \/ CompleteRollback
  <2>1. req.pc \in FilePCs
    BY <1>8 DEF UploadRollback, CompleteRollback, At, FilePCs, PCs
  <2> QED BY <1>3, <1>4, <1>8, <2>1, NameInHand DEF UploadRollback, CompleteRollback
<1>9. CASE DeleteFile
  <2>1. req.pc \in FilePCs
    BY <1>9 DEF DeleteFile, At, FilePCs, PCs
  <2>2. req.info.path \in Paths
    BY <2>1, NameInHand, PathsFacts DEF Info
  <2> QED BY <1>3, <1>4, <1>9, <2>2 DEF DeleteFile
<1>10. CASE CompleteUnlink
  BY <1>0, <1>1, <1>10 DEF CompleteUnlink, NothingMixed
<1> QED BY <1>4, <1>5, <1>6, <1>7, <1>8, <1>9, <1>10, DiskUntouched
-----------------------------------------------------------------------------
\* Only two steps hand a request over to a rename.
LEMMA RenamesStaged ==
  ASSUME Equipped(req), [Next]_vars
  PROVE  \/ UploadWrite \/ CompleteStage
         \/ UNCHANGED req \/ req'.pc \notin {"upload.rename", "complete.rename"}
<1> DEFINE other == UNCHANGED req \/ req'.pc \notin {"upload.rename", "complete.rename"}
<1>1. \A pc : Goto(pc) => req'.pc = pc
  BY DEF Goto, Equipped, Requests
<1>2. Finish => req'.pc = "idle"
  BY IdleEquipped DEF Finish
<1>3. CASE \/ UploadRename \/ UploadInsert \/ UploadRollback \/ UploadReply \/ UploadCleanup
           \/ CompleteUnlink \/ CompleteRename \/ CompleteInsert \/ CompleteRollback
           \/ CompleteRemove \/ AbortRemove \/ SessionSave \/ DeleteRow \/ DeleteFile \/ DeleteRestore
  BY <1>1, <1>2, <1>3 DEF UploadRename, UploadInsert, UploadRollback, UploadReply, UploadCleanup,
     CompleteUnlink, CompleteRename, CompleteInsert, CompleteRollback, CompleteRemove, AbortRemove,
     SessionSave, DeleteRow, DeleteFile, DeleteRestore
<1>4. ASSUME NEW n \in Names, DeleteBegin(n) \/ Download(n) PROVE other
  BY <1>4 DEF DeleteBegin, Download, Request
<1>5. ASSUME NEW n \in Names, NEW c \in Contents, UploadBegin(n, c) \/ InitBegin(n, c) PROVE other
  <2>1. CASE UploadBegin(n, c)
    BY <2>1 DEF UploadBegin, Request
  <2>2. CASE InitBegin(n, c)
    BY <2>2 DEF InitBegin, SaveRequest, Request
  <2> QED BY <1>5, <2>1, <2>2
<1>6. ASSUME NEW id \in UploadIds \cup {None}, AbortBegin(id) \/ CompleteBegin(id) PROVE other
  BY <1>6 DEF AbortBegin, CompleteBegin, CompleteRequest, Request
<1>7. ASSUME NEW id \in UploadIds, NEW i \in 1 .. ChunkCount, NEW c \in Contents, ChunkBegin(id, i, c)
      PROVE  other
  BY <1>7 DEF ChunkBegin, ChunkRequest, Request
<1>8. CASE ChunkWrite \/ Crash \/ Restart \/ UNCHANGED vars
  BY <1>2, <1>8, IdleEquipped DEF ChunkWrite, SaveRequest, Request, Crash, Restart, vars
<1> QED BY <1>3, <1>4, <1>5, <1>6, <1>7, <1>8 DEF Next, Upload, Multipart, DeleteFlow

\* A name's file is put in place by a rename of a temporary file that has been
\* written out.
LEMMA TornKept ==
  ASSUME TempsApart, TypeInv, TornInv, [Next]_vars PROVE TornInv'
<1>0. /\ disk \in [Paths -> Bodies \cup {Torn, None}] /\ \A n \in Names : disk[n] # Torn
      /\ Names \subseteq Paths /\ Equipped(req)
  BY PathsFacts DEF TypeInv, Typed, DiskOK, TornInv, NoTornFile
<1>1. Torn # None /\ \A b \in Bodies : b # Torn
  BY StorageAssumption DEF Bodies
<1>2. ASSUME NEW n \in Names, NEW b, WriteFile(TmpOf[n], b) PROVE NoTornFile'
  BY <1>0, <1>2 DEF WriteFile, NoTornFile, TempsApart
<1>3. ASSUME NEW p \in Paths, RemoveFile(p) PROVE NoTornFile'
  BY <1>0, <1>1, <1>3 DEF RemoveFile, WriteFile, NoTornFile
<1>4. ASSUME UNCHANGED disk PROVE NoTornFile'
  BY <1>0, <1>4 DEF NoTornFile
<1>5. \A pc : Goto(pc) => req'.pc = pc /\ req'.name = req.name
  BY <1>0 DEF Goto, Equipped, Requests
<1>6. ASSUME NEW n \in Names, NEW c \in Contents, UploadBegin(n, c) PROVE TornInv'
  <2>1. TmpOf[n] \in Paths
    BY PathsFacts
  <2>2. NoTornFile'
    BY <1>2, <1>3, <1>4, <1>6, <2>1 DEF UploadBegin
  <2>3. req'.pc \notin {"upload.rename", "complete.rename"}
    BY <1>6 DEF UploadBegin, Request, Ready
  <2> QED BY <2>2, <2>3 DEF TornInv, StagedWhole
<1>7. CASE UploadWrite \/ CompleteStage
  <2>1. req.pc \in FilePCs
    BY <1>7 DEF UploadWrite, CompleteStage, At, FilePCs, PCs
  <2>2. req.name \in Names /\ req.info.body \in Bodies /\ TmpOf[req.name] \in Paths
    BY <2>1, NameInHand DEF Info
  <2>3. NoTornFile'
    BY <1>2, <1>3, <1>4, <1>7, <2>2 DEF UploadWrite, CompleteStage
  <2>4. CASE WriteFile(TmpOf[req.name], req.info.body) /\ req'.name = req.name
    BY <1>0, <1>1, <2>2, <2>3, <2>4 DEF TornInv, StagedWhole, WriteFile
  <2>5. CASE Finish
    BY <2>3, <2>5, IdleEquipped DEF TornInv, StagedWhole, Finish
  <2> QED BY <1>5, <1>7, <2>4, <2>5 DEF UploadWrite, CompleteStage
<1>8. CASE UploadRename \/ CompleteRename
  <2>1. req.pc \in FilePCs /\ req.pc \in {"upload.rename", "complete.rename"}
    BY <1>8 DEF UploadRename, CompleteRename, At, FilePCs, PCs
  <2>2. req.name \in Names /\ TmpOf[req.name] \in Paths /\ disk[TmpOf[req.name]] # Torn
    BY <2>1, NameInHand DEF TornInv, StagedWhole
  <2>3. ASSUME Rename(TmpOf[req.name], req.name) PROVE NoTornFile'
    BY <1>0, <1>1, <2>2, <2>3 DEF Rename, NoTornFile
  <2>4. NoTornFile'
    BY <1>3, <1>8, <2>2, <2>3 DEF UploadRename, CompleteRename
  <2>5. req'.pc \notin {"upload.rename", "complete.rename"}
    BY <1>5, <1>8, IdleEquipped DEF UploadRename, CompleteRename, Finish
  <2> QED BY <2>4, <2>5 DEF TornInv, StagedWhole
<1>9. CASE UploadRollback \/ CompleteRollback \/ DeleteFile
  <2>1. req.pc \in FilePCs
    BY <1>9 DEF UploadRollback, CompleteRollback, DeleteFile, At, FilePCs, PCs
  <2>2. req.name \in Paths /\ req.info.path \in Paths
    BY <2>1, NameInHand, PathsFacts DEF Info
  <2>3. NoTornFile'
    BY <1>3, <1>4, <1>9, <2>2 DEF UploadRollback, CompleteRollback, DeleteFile
  <2>4. req'.pc \notin {"upload.rename", "complete.rename"}
    BY <1>5, <1>9, IdleEquipped DEF UploadRollback, CompleteRollback, DeleteFile, Finish
  <2> QED BY <2>3, <2>4 DEF TornInv, StagedWhole
<1>10. CASE CompleteUnlink
  <2>1. NoTornFile'
    BY <1>0, <1>1, <1>10 DEF CompleteUnlink, NoTornFile
  <2> QED BY <1>5, <1>10, <2>1 DEF CompleteUnlink, TornInv, StagedWhole
<1>11. CASE UNCHANGED disk
  <2> QED BY <1>0, <1>4, <1>7, <1>11, RenamesStaged DEF TornInv, StagedWhole
<1> QED BY <1>6, <1>7, <1>8, <1>9, <1>10, <1>11, DiskUntouched

\* Whatever fails, a name never leads to a file still being written, as long as
\* none is the temporary file of another.
THEOREM NothingTorn == ASSUME TempsApart PROVE Spec => []NoTornFile
<1>1. Init => TornInv
  <2> SUFFICES ASSUME Init PROVE TornInv
    OBVIOUS
  <2>1. NoTornFile
    BY StorageAssumption, PathsFacts DEF Init, NoTornFile
  <2> QED BY <2>1, IdleEquipped DEF Init, TornInv, StagedWhole
<1>2. TypeInv /\ TornInv /\ [Next]_vars => TornInv'
  BY TornKept
<1>3. TornInv => NoTornFile
  BY DEF TornInv
<1> QED BY <1>1, <1>2, <1>3, RequestsEquipped, PTL DEF Spec
-----------------------------------------------------------------------------
\* The statements, when MySQL tells all names apart.

\* An insert that succeeds leaves its row, and a row already there stays one.
LEMMA RowInserted ==
  ASSUME KeysApart, MetaOK, NEW info \in Info
  PROVE  Upserted(info) = [db EXCEPT ![info.url] = info]
<1>1. info.url \in Names /\ [info EXCEPT !.url = info.url] = info
  BY DEF Info
<1>2. Rows(info.url) \subseteq {info.url}
  BY <1>1 DEF Rows, KeysApart
<1> QED BY <1>1, <1>2 DEF Upserted, MetaOK, Tables

LEMMA RowDeleted ==
  ASSUME KeysApart, MetaOK, NEW n \in Names
  PROVE  Removed(n) = [db EXCEPT ![n] = None]
<1>1. Rows(n) = IF db[n] = None THEN {} ELSE {n}
  BY DEF Rows, KeysApart
<1> QED BY <1>1 DEF Removed, MetaOK, Tables

\* An insert or a delete that failed changed nothing, when replies arrive.
LEMMA FailedAppliesNothing ==
  ASSUME RepliesArrive, NEW out \in Outcomes PROVE Applied(out) <=> out = "ok"
<1>1. out # "lostReply"
  BY DEF RepliesArrive, Outcomes
<1> QED BY <1>1 DEF Applied
-----------------------------------------------------------------------------
\* A request that came to its reply has its row in the table.
LEMMA InsertFollowed ==
  ASSUME KeysApart, TypeInv, StoredInv, UploadInsert \/ CompleteInsert PROVE StoredInv'
<1>1. Equipped(req) /\ MetaOK /\ req.pc \in BeforeInsert
  BY DEF TypeInv, Typed, UploadInsert, CompleteInsert, At, BeforeInsert
<1>2. req.info \in Info /\ req.info.url = req.name /\ req.name \in Names
  BY <1>1 DEF Equipped, StoredInv, BeforeInsert, FilePCs, PCs
<1>3. \A pc : Goto(pc) => req'.pc = pc /\ req'.name = req.name /\ req'.id = req.id
  BY <1>1 DEF Goto, Equipped, Requests
<1>4. ASSUME Insert(req.info, "ok") PROVE db'[req.name] # None
  <2>1. db' = [db EXCEPT ![req.name] = req.info]
    BY <1>1, <1>2, <1>4, RowInserted DEF Insert, Applied
  <2>2. req.info # None
    BY <1>2, MetadataAssumption
  <2> QED BY <1>1, <1>2, <2>1, <2>2 DEF MetaOK, Tables
<1>5. UNCHANGED sessions
  BY DEF UploadInsert, CompleteInsert
<1>6. CASE UploadInsert
  <2>1. \/ req'.pc = "upload.reply" /\ Insert(req.info, "ok") /\ req'.name = req.name
        \/ req'.pc = "upload.rollback"
    BY <1>3, <1>6 DEF UploadInsert
  <2> QED BY <1>4, <2>1 DEF StoredInv, BeforeInsert, CompletingPCs, AfterInsert
<1>7. CASE CompleteInsert
  <2>1. /\ req'.name = req.name /\ req'.id = req.id
        /\ \/ req'.pc = "complete.remove" /\ Insert(req.info, "ok")
           \/ req'.pc = "complete.rollback"
    BY <1>3, <1>7 DEF CompleteInsert
  <2>2. sessions[req.id].name = req.name
    BY <1>7 DEF CompleteInsert, At, StoredInv, CompletingPCs
  <2> QED BY <1>4, <1>5, <2>1, <2>2 DEF StoredInv, BeforeInsert, CompletingPCs, AfterInsert
<1> QED BY <1>6, <1>7

\* Nor does another step take away what a completion or a reply relies on.
LEMMA StoredKept ==
  ASSUME KeysApart, TypeInv, StoredInv, [Next]_vars PROVE StoredInv'
<1> DEFINE Busy == BeforeInsert \cup CompletingPCs \cup AfterInsert
<1>0. Equipped(req)
  BY DEF TypeInv, Typed
<1>1. CASE req'.pc \notin Busy
  BY <1>1 DEF StoredInv
<1>2. CASE UNCHANGED req /\ req.pc \notin Busy
  BY <1>2 DEF StoredInv
<1>3. \A pc : Goto(pc) =>
        req'.pc = pc /\ req'.name = req.name /\ req'.info = req.info /\ req'.id = req.id
  BY <1>0 DEF Goto, Equipped, Requests
<1>4. Finish => req'.pc \notin Busy
  BY IdleEquipped DEF Finish, BeforeInsert, CompletingPCs, AfterInsert
<1>5. Ready => req.pc \notin Busy
  BY DEF Ready, BeforeInsert, CompletingPCs, AfterInsert
<1>6. ASSUME NEW n \in Names, NEW c \in Contents, UploadBegin(n, c) PROVE StoredInv'
  <2>1. CASE req' = Request("upload.write", n, NewStorageInfo(n, c), None)
    BY <2>1 DEF StoredInv, Request, NewStorageInfo, BeforeInsert, CompletingPCs, AfterInsert
  <2> QED BY <1>2, <1>5, <1>6, <2>1 DEF UploadBegin
<1>7. CASE UploadWrite \/ UploadRename
  <2>1. /\ req.pc \in {"upload.write", "upload.rename"} /\ req.info.url = req.name
        /\ \/ Finish
           \/ Goto("upload.rename") \/ Goto("upload.insert")
    BY <1>7 DEF UploadWrite, UploadRename, At, StoredInv, BeforeInsert
  <2> QED BY <1>1, <1>3, <1>4, <2>1 DEF StoredInv, BeforeInsert, CompletingPCs, AfterInsert
<1>8. CASE UploadReply
  <2>1. db[req.name] # None /\ Goto("upload.cleanup") /\ UNCHANGED db
    BY <1>8 DEF UploadReply, At, StoredInv, AfterInsert, metaVars
  <2> QED BY <1>3, <2>1 DEF StoredInv, BeforeInsert, CompletingPCs, AfterInsert
<1>9. CASE UploadCleanup
  <2>1. /\ req.pc = "upload.cleanup" /\ db[req.name] # None /\ UNCHANGED db
        /\ UNCHANGED req \/ Finish
    BY <1>9 DEF UploadCleanup, At, StoredInv, AfterInsert, metaVars
  <2> QED BY <1>1, <1>4, <2>1 DEF StoredInv, BeforeInsert, CompletingPCs, AfterInsert
<1>10. ASSUME NEW id \in UploadIds, CompleteBegin(id) PROVE StoredInv'
  <2>1. CASE req' = CompleteRequest(id)
    <3>1. UNCHANGED sessions
      BY <1>10 DEF CompleteBegin
    <3>2. /\ req'.pc = "complete.unlink" /\ req'.info.url = req'.name
          /\ req'.id = id /\ req'.name = sessions[id].name
      BY <2>1 DEF CompleteRequest, Request, NewStorageInfo
    <3> QED BY <3>1, <3>2 DEF StoredInv, BeforeInsert, CompletingPCs, AfterInsert
  <2> QED BY <1>2, <1>5, <1>10, <2>1 DEF CompleteBegin
<1>11. CASE CompleteUnlink \/ CompleteStage \/ CompleteRename
  <2>1. /\ req.pc \in {"complete.unlink", "complete.stage", "complete.rename"}
        /\ req.info.url = req.name /\ sessions[req.id].name = req.name /\ UNCHANGED sessions
        /\ \/ Finish
           \/ Goto("complete.stage") \/ Goto("complete.rename") \/ Goto("complete.insert")
    BY <1>11 DEF CompleteUnlink, CompleteStage, CompleteRename, At, StoredInv, BeforeInsert, CompletingPCs
  <2> QED BY <1>1, <1>3, <1>4, <2>1 DEF StoredInv, BeforeInsert, CompletingPCs, AfterInsert
<1>12. CASE \/ UploadRollback \/ CompleteRollback \/ CompleteRemove \/ AbortRemove \/ SessionSave
            \/ DeleteRow \/ DeleteFile \/ DeleteRestore
  <2>1. \/ Finish \/ Goto("delete.file") \/ Goto("delete.restore")
        \/ UNCHANGED req /\ req.pc = "abort.remove"
    BY <1>12 DEF UploadRollback, CompleteRollback, CompleteRemove, AbortRemove, At, SessionSave,
       DeleteRow, DeleteFile, DeleteRestore
  <2> QED BY <1>1, <1>3, <1>4, <2>1 DEF BeforeInsert, CompletingPCs, AfterInsert
<1>13. ASSUME NEW n \in Names, DeleteBegin(n) \/ Download(n) PROVE StoredInv'
  <2>1. Ready /\ (UNCHANGED req \/ req'.pc = "delete.row")
    BY <1>13 DEF DeleteBegin, Download, Request
  <2> QED BY <1>1, <1>2, <1>5, <2>1 DEF BeforeInsert, CompletingPCs, AfterInsert
<1>14. ASSUME NEW n \in Names, NEW c \in Contents, InitBegin(n, c) PROVE StoredInv'
  <2>1. Ready /\ (UNCHANGED req \/ req'.pc = "session.save")
    BY <1>14 DEF InitBegin, SaveRequest, Request
  <2> QED BY <1>1, <1>2, <1>5, <2>1 DEF BeforeInsert, CompletingPCs, AfterInsert
<1>15. ASSUME NEW id \in UploadIds \cup {None}, AbortBegin(id) PROVE StoredInv'
  <2>1. req'.pc = "abort.remove"
    BY <1>15 DEF AbortBegin, Request
  <2> QED BY <1>1, <2>1 DEF BeforeInsert, CompletingPCs, AfterInsert
<1>16. ASSUME NEW id \in UploadIds, NEW i \in 1 .. ChunkCount, NEW c \in Contents, ChunkBegin(id, i, c)
       PROVE  StoredInv'
  <2>1. Ready /\ (UNCHANGED req \/ req'.pc = "chunk.write")
    BY <1>16 DEF ChunkBegin, ChunkRequest, Request
  <2> QED BY <1>1, <1>2, <1>5, <2>1 DEF BeforeInsert, CompletingPCs, AfterInsert
<1>17. CASE ChunkWrite
  <2>1. Finish \/ req'.pc = "session.save"
    BY <1>17 DEF ChunkWrite, SaveRequest, Request
  <2> QED BY <1>1, <1>4, <2>1 DEF BeforeInsert, CompletingPCs, AfterInsert
<1>18. CASE Crash
  BY <1>1, <1>4, <1>18 DEF Crash, Finish
<1>19. CASE Restart
  <2>1. UNCHANGED req /\ req.pc = "idle"
    BY <1>19, IdleEquipped DEF Restart, TypeInv, Typed, ProcessOK
  <2> QED BY <1>2, <2>1 DEF BeforeInsert, CompletingPCs, AfterInsert
<1>20. CASE UNCHANGED vars
  BY <1>20 DEF StoredInv, vars
<1> HIDE DEF Busy
<1>21. CASE Upload
  BY <1>6, <1>7, <1>8, <1>9, <1>12, <1>21, InsertFollowed DEF Upload
<1>22. CASE DeleteFlow
  BY <1>12, <1>13, <1>22 DEF DeleteFlow
<1>23. CASE Multipart
  BY <1>10, <1>11, <1>12, <1>14, <1>15, <1>16, <1>17, <1>23, InsertFollowed DEF Multipart
<1> QED BY <1>13, <1>18, <1>19, <1>20, <1>21, <1>22, <1>23 DEF Next

\* A session that loads loses a chunk only when it is removed: by a request whose
\* row is in the table, by an abort, or by a crash in the midst of either.
LEMMA GivenUp ==
  ASSUME TypeInv, StoredInv, [Next]_vars, NEW id \in UploadIds, Loadable(id),
         ~(UploadedChunks(id) \subseteq UploadedChunks(id)')
  PROVE  db[sessions[id].name] # None \/ req.pc = "abort.remove"
<1>1. PICK i \in 1 .. ChunkCount : sessions[id].chunks[i] # None /\ sessions'[id].chunks[i] = None
  BY DEF UploadedChunks
<1>2. req.pc = "chunk.write" => req.info.body # None
  BY MetadataAssumption DEF TypeInv, Typed, Equipped, Bodies
<1>3. id \in BeingRemoved
  BY <1>1, <1>2, ChunksMove, StorageAssumption DEF ChunkMoves, Loadable
<1>4. \/ req.pc = "complete.remove" /\ id = req.id
      \/ req.pc = "upload.cleanup" /\ id \in SessionsOf(req.name)
      \/ req.pc = "abort.remove"
  BY <1>3 DEF BeingRemoved, At
<1> QED BY <1>4 DEF SessionsOf, StoredInv, AfterInsert, CompletingPCs

\* What a completion or a reply relies on is there in every state.
LEMMA StoredAlways == ASSUME KeysApart PROVE Spec => []StoredInv
<1>1. Init => StoredInv
  BY IdleEquipped DEF Init, StoredInv, BeforeInsert, CompletingPCs, AfterInsert
<1>2. TypeInv /\ StoredInv /\ [Next]_vars => StoredInv'
  BY StoredKept
<1> QED BY <1>1, <1>2, RequestsEquipped, PTL DEF Spec

\* The chunks of a session that loads are kept, every one of them, until its file is
\* in the table or a client aborts: no failed completion, lost statement or crash in
\* the midst of a removal throws them away.
THEOREM ChunksAreKept == ASSUME KeysApart PROVE Spec => ChunksKeptUntilStored
<1>1. TypeInv /\ StoredInv /\ [Next]_vars =>
        [\A id \in UploadIds :
           Loadable(id) /\ ~(UploadedChunks(id) \subseteq UploadedChunks(id)') =>
             db[sessions[id].name] # None \/ req.pc = "abort.remove"]_vars
  BY GivenUp
<1> QED BY <1>1, RequestsEquipped, StoredAlways, PTL DEF Spec, ChunksKeptUntilStored
-----------------------------------------------------------------------------
\* An insert changes a row and its cache entry together, or neither.
LEMMA InsertKeepsCache ==
  ASSUME KeysApart, RepliesArrive, MetaOK, CacheInv, NEW info \in Info, NEW out, Insert(info, out)
  PROVE  CacheInv'
<1>1. info.url \in Names /\ info # None
  BY MetadataAssumption DEF Info
<1>2. CASE out = "ok"
  <2>1. db' = [db EXCEPT ![info.url] = info] /\ table' = [table EXCEPT ![info.url] = info]
    BY <1>2, RowInserted DEF Insert, Applied
  <2> QED BY <1>1, <2>1 DEF MetaOK, Tables, CacheInv, CacheSound, RowsNamed
<1>3. CASE out # "ok"
  <2>1. UNCHANGED <<db, table>>
    BY <1>3, FailedAppliesNothing DEF Insert
  <2> QED BY <2>1 DEF CacheInv, CacheSound, RowsNamed
<1> QED BY <1>2, <1>3

\* So does a delete.
LEMMA DeleteKeepsCache ==
  ASSUME KeysApart, RepliesArrive, MetaOK, CacheInv, NEW n \in Names, NEW out, Delete(n, out)
  PROVE  CacheInv'
<1>1. CASE out = "ok"
  <2>1. db' = [db EXCEPT ![n] = None] /\ table' = [table EXCEPT ![n] = None]
    BY <1>1, RowDeleted DEF Delete, Applied
  <2> QED BY <2>1 DEF MetaOK, Tables, CacheInv, CacheSound, RowsNamed
<1>2. CASE out # "ok"
  <2>1. UNCHANGED <<db, table>>
    BY <1>2, FailedAppliesNothing DEF Delete
  <2> QED BY <2>1 DEF CacheInv, CacheSound, RowsNamed
<1> QED BY <1>1, <1>2

\* A lookup caches a row under the name it has in the table.
LEMMA LookupKeepsCache ==
  ASSUME MetaOK, CacheInv, NEW n \in Names, NEW info, GetOneByURL(n, info)
  PROVE  CacheInv'
<1>1. UNCHANGED db
  BY DEF GetOneByURL
<1>2. CASE UNCHANGED table
  BY <1>1, <1>2 DEF CacheInv, CacheSound, RowsNamed
<1>3. CASE info # None /\ table' = [table EXCEPT ![info.url] = info] /\ \E out : info \in Selected(n, out)
  <2>1. PICK m \in Names : info = db[m]
    BY <1>3 DEF Selected, Rows
  <2>2. info.url = m
    BY <1>3, <2>1 DEF CacheInv, RowsNamed
  <2> QED BY <1>1, <1>3, <2>1, <2>2 DEF MetaOK, Tables, CacheInv, CacheSound, RowsNamed
<1> QED BY <1>2, <1>3 DEF GetOneByURL

LEMMA CacheKept ==
  ASSUME KeysApart, RepliesArrive, TypeInv, CacheInv, [Next]_vars PROVE CacheInv'
<1>0. MetaOK /\ SessionsOK /\ Equipped(req)
  BY DEF TypeInv, Typed
<1>1. CASE UNCHANGED metaVars
  BY <1>1 DEF metaVars, CacheInv, CacheSound, RowsNamed
<1>2. CASE UploadInsert \/ CompleteInsert \/ DeleteRestore
  <2>1. req.info \in Info
    BY <1>0, <1>2 DEF UploadInsert, CompleteInsert, DeleteRestore, At, Equipped, FilePCs, PCs
  <2> QED BY <1>0, <1>1, <1>2, <2>1, InsertKeepsCache DEF UploadInsert, CompleteInsert, DeleteRestore
<1>3. CASE DeleteRow
  <2>1. req.name \in Names
    BY <1>0, <1>3 DEF DeleteRow, At, Equipped, FilePCs, PCs
  <2> QED BY <1>0, <1>3, <2>1, DeleteKeepsCache DEF DeleteRow
<1>4. ASSUME NEW n \in Names, NEW c \in Contents, UploadBegin(n, c) \/ InitBegin(n, c) PROVE CacheInv'
  BY <1>0, <1>4, LookupKeepsCache DEF UploadBegin, InitBegin
<1>5. ASSUME NEW n \in Names, DeleteBegin(n) \/ Download(n) PROVE CacheInv'
  BY <1>0, <1>5, LookupKeepsCache DEF DeleteBegin, Download
<1>6. ASSUME NEW id \in UploadIds, CompleteBegin(id) PROVE CacheInv'
  <2>1. sessions[id].name \in Names
    BY <1>0, <1>6 DEF CompleteBegin, Loadable, SessionsOK
  <2> QED BY <1>0, <1>6, <2>1, LookupKeepsCache DEF CompleteBegin
<1>7. CASE Crash
  BY <1>7 DEF Crash, NoRows, CacheInv, CacheSound, RowsNamed
<1>8. CASE Restart
  BY <1>8 DEF Restart, Construct, InitLoad, NoRows, CacheInv, CacheSound, RowsNamed
<1>9. CASE \/ UploadWrite \/ UploadRename \/ UploadRollback \/ UploadReply \/ UploadCleanup \/ DeleteFile
           \/ CompleteUnlink \/ CompleteStage \/ CompleteRename \/ CompleteRollback \/ CompleteRemove
           \/ AbortRemove \/ SessionSave \/ ChunkWrite
  BY <1>1, <1>9, Zenon DEF UploadWrite, UploadRename, UploadRollback, UploadReply, UploadCleanup, DeleteFile,
     CompleteUnlink, CompleteStage, CompleteRename, CompleteRollback, CompleteRemove, AbortRemove,
     SessionSave, ChunkWrite
<1>10. ASSUME NEW id \in UploadIds \cup {None}, AbortBegin(id) PROVE CacheInv'
  BY <1>1, <1>10 DEF AbortBegin
<1>11. ASSUME NEW id \in UploadIds, NEW i \in 1 .. ChunkCount, NEW c \in Contents, ChunkBegin(id, i, c)
       PROVE  CacheInv'
  BY <1>1, <1>11 DEF ChunkBegin
<1>12. CASE UNCHANGED vars
  BY <1>1, <1>12 DEF vars, metaVars
<1>13. CASE Upload
  BY <1>2, <1>4, <1>9, <1>13 DEF Upload
<1>14. CASE DeleteFlow
  BY <1>2, <1>3, <1>5, <1>9, <1>14 DEF DeleteFlow
<1>15. CASE Multipart
  BY <1>2, <1>4, <1>6, <1>9, <1>10, <1>11, <1>15 DEF Multipart
<1> QED BY <1>5, <1>7, <1>8, <1>12, <1>13, <1>14, <1>15 DEF Next

\* The cache never holds what the table does not: not even when the table could
\* not be loaded at startup, and the cache fills one lookup at a time.
THEOREM CacheHoldsRows == ASSUME KeysApart, RepliesArrive PROVE Spec => []CacheSound
<1>1. Init => CacheInv
  BY DEF Init, NoRows, CacheInv, CacheSound, RowsNamed
<1>2. TypeInv /\ CacheInv /\ [Next]_vars => CacheInv'
  BY CacheKept
<1>3. CacheInv => CacheSound
  BY DEF CacheInv
<1> QED BY <1>1, <1>2, <1>3, RequestsEquipped, PTL DEF Spec
-----------------------------------------------------------------------------
\* Rows, cached or not, name their own file, and so does what a request has in
\* hand.
NamesItself(info, n) == info.url = n /\ info.path = n

RowsNameThemselves ==
  /\ \A n \in Names : db[n] # None => NamesItself(db[n], n)
  /\ \A n \in Names : table[n] # None => NamesItself(table[n], n)

NamedInv == RowsNameThemselves /\ (req.pc \in FilePCs => NamesItself(req.info, req.name))

\* A statement keeps that, whatever becomes of it.
LEMMA InsertNames ==
  ASSUME KeysApart, MetaOK, RowsNameThemselves, NEW info \in Info, NamesItself(info, info.url),
         NEW out, Insert(info, out)
  PROVE  RowsNameThemselves'
<1>1. info.url \in Names
  BY DEF Info
<1>2. db' \in {db, [db EXCEPT ![info.url] = info]} /\ table' \in {table, [table EXCEPT ![info.url] = info]}
  BY RowInserted DEF Insert
<1> QED BY <1>1, <1>2 DEF RowsNameThemselves, MetaOK, Tables

LEMMA DeleteNames ==
  ASSUME KeysApart, MetaOK, RowsNameThemselves, NEW n \in Names, NEW out, Delete(n, out)
  PROVE  RowsNameThemselves'
<1>1. db' \in {db, [db EXCEPT ![n] = None]} /\ table' \in {table, [table EXCEPT ![n] = None]}
  BY RowDeleted DEF Delete
<1> QED BY <1>1 DEF RowsNameThemselves, MetaOK, Tables

\* A lookup finds the row of the name it asks for.
LEMMA LookupNames ==
  ASSUME KeysApart, MetaOK, RowsNameThemselves, NEW n \in Names, NEW info, GetOneByURL(n, info)
  PROVE  RowsNameThemselves' /\ (info # None => NamesItself(info, n))
<1>1. UNCHANGED db
  BY DEF GetOneByURL
<1>2. Rows(n) \subseteq {n}
  BY DEF Rows, KeysApart
<1>3. CASE info = table[n] /\ UNCHANGED table
  BY <1>1, <1>3 DEF RowsNameThemselves
<1>4. ASSUME NEW o \in Outcomes, info \in Selected(n, o),
             table' = IF info = None THEN table ELSE [table EXCEPT ![info.url] = info]
      PROVE  RowsNameThemselves' /\ (info # None => NamesItself(info, n))
  <2>1. info # None => info = db[n] /\ NamesItself(info, n)
    BY <1>2, <1>4 DEF Selected, RowsNameThemselves
  <2> QED BY <1>1, <1>4, <2>1 DEF RowsNameThemselves, NamesItself, MetaOK, Tables
<1> QED BY <1>3, <1>4 DEF GetOneByURL

LEMMA NamedKept == ASSUME KeysApart, TypeInv, NamedInv, [Next]_vars PROVE NamedInv'
<1> DEFINE Fits == req'.pc \in FilePCs => NamesItself(req'.info, req'.name)
<1>0. /\ MetaOK /\ SessionsOK /\ Equipped(req) /\ RowsNameThemselves
      /\ req.pc \in FilePCs => NamesItself(req.info, req.name) /\ req.name \in Names /\ req.info \in Info
  BY DEF TypeInv, Typed, NamedInv, Equipped
<1>1. ASSUME RowsNameThemselves', Fits PROVE NamedInv'
  BY <1>1 DEF NamedInv
<1>2. UNCHANGED metaVars => RowsNameThemselves'
  BY <1>0 DEF metaVars, RowsNameThemselves
<1>3. Finish => Fits
  BY IdleEquipped DEF Finish, FilePCs
<1>4. UNCHANGED req => Fits
  BY <1>0
<1>5. \A pc : Goto(pc) /\ req.pc \in FilePCs => Fits
  BY <1>0 DEF Goto, Equipped, Requests
<1>6. \A n, b : NewStorageInfo(n, b).url = n /\ NewStorageInfo(n, b).path = n
  BY DEF NewStorageInfo
<1> HIDE DEF Fits
<1>7. ASSUME NEW n \in Names, NEW c \in Contents, UploadBegin(n, c) PROVE NamedInv'
  <2>1. RowsNameThemselves'
    BY <1>0, <1>7, LookupNames DEF UploadBegin
  <2>2. CASE req' = Request("upload.write", n, NewStorageInfo(n, c), None)
    BY <1>1, <1>6, <2>1, <2>2 DEF Request, NamesItself, Fits
  <2> QED BY <1>1, <1>4, <1>7, <2>1, <2>2 DEF UploadBegin
<1>8. ASSUME NEW n \in Names, NEW c \in Contents, InitBegin(n, c) PROVE NamedInv'
  <2>1. RowsNameThemselves'
    BY <1>0, <1>8, LookupNames DEF InitBegin
  <2>2. UNCHANGED req \/ req'.pc = "session.save"
    BY <1>8 DEF InitBegin, SaveRequest, Request
  <2>3. req'.pc = "session.save" => Fits
    BY DEF FilePCs, Fits
  <2> QED BY <1>1, <1>4, <2>1, <2>2, <2>3
<1>9. ASSUME NEW id \in UploadIds, CompleteBegin(id) PROVE NamedInv'
  <2>1. sessions[id].name \in Names
    BY <1>0, <1>9 DEF CompleteBegin, Loadable, SessionsOK
  <2>2. RowsNameThemselves'
    BY <1>0, <1>9, <2>1, LookupNames DEF CompleteBegin
  <2>3. req' = CompleteRequest(id) => Fits
    BY <1>6 DEF CompleteRequest, Request, NamesItself, Fits
  <2>4. UNCHANGED req \/ req' = CompleteRequest(id)
    BY <1>9 DEF CompleteBegin
  <2> QED BY <1>1, <1>4, <2>2, <2>3, <2>4
<1>10. ASSUME NEW id \in UploadIds, NEW i \in 1 .. ChunkCount, NEW c \in Contents, ChunkBegin(id, i, c)
       PROVE  NamedInv'
  <2>1. req' = ChunkRequest(id, i, c) => Fits
    BY <1>6 DEF ChunkRequest, Request, NamesItself, Fits
  <2> QED BY <1>1, <1>2, <1>4, <1>10, <2>1 DEF ChunkBegin
<1>11. ASSUME NEW n \in Names, DeleteBegin(n) PROVE NamedInv'
  <2>1. PICK info \in Info \cup {None} :
          GetOneByURL(n, info) /\ req' = IF info = None THEN req ELSE Request("delete.row", n, info, None)
    BY <1>11 DEF DeleteBegin
  <2>2. RowsNameThemselves' /\ (info # None => NamesItself(info, n))
    BY <1>0, <2>1, LookupNames
  <2>3. Fits
    BY <1>4, <2>1, <2>2 DEF Request, Fits
  <2> QED BY <1>1, <2>2, <2>3
<1>12. ASSUME NEW n \in Names, Download(n) PROVE NamedInv'
  BY <1>0, <1>1, <1>4, <1>12, LookupNames DEF Download
<1>13. CASE UploadInsert \/ CompleteInsert
  <2>1. req.pc \in FilePCs
    BY <1>13 DEF UploadInsert, CompleteInsert, At, FilePCs, PCs
  <2>2. RowsNameThemselves'
    BY <1>0, <1>2, <1>13, <2>1, InsertNames DEF UploadInsert, CompleteInsert, NamesItself
  <2>3. Fits
    BY <1>5, <1>13, <2>1 DEF UploadInsert, CompleteInsert
  <2> QED BY <1>1, <2>2, <2>3
<1>14. CASE DeleteRestore
  <2>1. req.pc \in FilePCs
    BY <1>14 DEF DeleteRestore, At, FilePCs, PCs
  <2>2. RowsNameThemselves'
    BY <1>0, <1>14, <2>1, InsertNames DEF DeleteRestore, NamesItself
  <2> QED BY <1>1, <1>3, <1>14, <2>2 DEF DeleteRestore
<1>15. CASE DeleteRow
  <2>1. req.pc \in FilePCs
    BY <1>15 DEF DeleteRow, At, FilePCs, PCs
  <2>2. RowsNameThemselves'
    BY <1>0, <1>15, <2>1, DeleteNames DEF DeleteRow
  <2> QED BY <1>1, <1>3, <1>5, <1>15, <2>1, <2>2 DEF DeleteRow
<1>16. CASE \/ UploadWrite \/ UploadRename \/ UploadReply
            \/ CompleteUnlink \/ CompleteStage \/ CompleteRename \/ DeleteFile
  <2>1. req.pc \in FilePCs /\ UNCHANGED metaVars
    BY <1>16 DEF UploadWrite, UploadRename, UploadReply, CompleteUnlink, CompleteStage, CompleteRename,
       DeleteFile, At, FilePCs, PCs
  <2>2. Finish \/ \E pc : Goto(pc)
    BY <1>16 DEF UploadWrite, UploadRename, UploadReply, CompleteUnlink, CompleteStage, CompleteRename,
       DeleteFile
  <2> QED BY <1>1, <1>2, <1>3, <1>5, <2>1, <2>2
<1>17. CASE \/ UploadRollback \/ UploadCleanup \/ CompleteRollback \/ CompleteRemove \/ AbortRemove
            \/ SessionSave \/ UNCHANGED vars
  <2>1. UNCHANGED metaVars /\ (Finish \/ UNCHANGED req)
    BY <1>17 DEF UploadRollback, UploadCleanup, CompleteRollback, CompleteRemove, AbortRemove, SessionSave,
       vars, metaVars
  <2> QED BY <1>1, <1>2, <1>3, <1>4, <2>1
<1>18. CASE ChunkWrite
  <2>1. UNCHANGED metaVars /\ (Finish \/ req'.pc = "session.save")
    BY <1>18 DEF ChunkWrite, SaveRequest, Request
  <2>2. req'.pc = "session.save" => Fits
    BY DEF FilePCs, Fits
  <2> QED BY <1>1, <1>2, <1>3, <2>1, <2>2
<1>19. ASSUME NEW id \in UploadIds \cup {None}, AbortBegin(id) PROVE NamedInv'
  <2>1. UNCHANGED metaVars /\ req'.pc = "abort.remove"
    BY <1>19 DEF AbortBegin, Request
  <2>2. req'.pc = "abort.remove" => Fits
    BY DEF FilePCs, Fits
  <2> QED BY <1>1, <1>2, <2>1, <2>2
<1>20. CASE Crash
  <2>1. Finish /\ UNCHANGED db /\ table' = NoRows
    BY <1>20 DEF Crash, Finish
  <2> QED BY <1>0, <1>1, <1>3, <2>1 DEF NoRows, RowsNameThemselves
<1>21. CASE Restart
  <2>1. UNCHANGED <<db, req>> /\ table' \in {db, NoRows}
    BY <1>21 DEF Restart, Construct, InitLoad
  <2> QED BY <1>0, <1>1, <1>4, <2>1 DEF NoRows, RowsNameThemselves
<1>22. CASE Upload
  BY <1>7, <1>13, <1>16, <1>17, <1>22 DEF Upload
<1>23. CASE DeleteFlow
  BY <1>11, <1>14, <1>15, <1>16, <1>23 DEF DeleteFlow
<1>24. CASE Multipart
  BY <1>8, <1>9, <1>10, <1>13, <1>16, <1>17, <1>18, <1>19, <1>24 DEF Multipart
<1> QED BY <1>12, <1>17, <1>20, <1>21, <1>22, <1>23, <1>24 DEF Next

\* A delete removes the file of the name it is sent and no other, whatever fails
\* and whatever the cache holds, as long as MySQL tells the names apart: that is
\* what it takes, and what the run ServiceFoldedNames is without.
THEOREM DeletesAreExact == ASSUME KeysApart PROVE Spec => DeletesNamedFile
<1>1. Init => NamedInv
  BY IdleEquipped DEF Init, NoRows, NamedInv, RowsNameThemselves, FilePCs
<1>2. TypeInv /\ NamedInv /\ [Next]_vars => NamedInv'
  BY NamedKept
<1>3. TypeInv /\ NamedInv /\ [Next]_vars =>
        [At("delete.file") => \A n \in Names \ {req.name} : disk'[n] = disk[n]]_vars
  <2> SUFFICES ASSUME TypeInv, NamedInv, Next, At("delete.file"), NEW n \in Names \ {req.name}
               PROVE  disk'[n] = disk[n]
    BY DEF vars
  <2>1. req.pc \in FilePCs /\ req.info.path = req.name
    BY DEF At, FilePCs, PCs, NamedInv, NamesItself
  <2>2. n \in Paths /\ disk \in [Paths -> Bodies \cup {Torn, None}]
    BY PathsFacts DEF TypeInv, Typed, DiskOK
  <2>3. CASE DeleteFile
    BY <2>1, <2>2, <2>3 DEF DeleteFile, RemoveFile, WriteFile
  <2>4. ASSUME NEW m \in Names, NEW c \in Contents, UploadBegin(m, c) PROVE FALSE
    BY <2>4 DEF UploadBegin, Ready, At
  <2>5. ~(\/ UploadWrite \/ UploadRename \/ UploadRollback \/ CompleteUnlink \/ CompleteStage
          \/ CompleteRename \/ CompleteRollback)
    BY DEF UploadWrite, UploadRename, UploadRollback, CompleteUnlink, CompleteStage, CompleteRename,
       CompleteRollback, At
  <2> QED BY <2>3, <2>4, <2>5, DiskUntouched
<1> QED BY <1>1, <1>2, <1>3, RequestsEquipped, PTL DEF Spec, DeletesNamedFile
=============================================================================
