------------------------ MODULE MultipartUploadHandler ------------------------
(***************************************************************************)
(* /upload/init, chunk, complete and abort (MultipartUploadHandler.hpp).   *)
(* A session is a directory with meta.json and one file per chunk, written *)
(* in place: opening a file for writing empties it first.  Status reads    *)
(* UploadedChunks and changes nothing.  merged.uploading, inside the       *)
(* directory, is made from the chunks in one request and left out.         *)
(***************************************************************************)
EXTENDS UploadHandler

\* A chunk counts as uploaded when its file exists.
UploadedChunks(id) == {i \in 1 .. ChunkCount : sessions[id].chunks[i] # None}

\* Fault: every init makes a session of its own.
NeverReusable(n, shape) == {}
\* Fault: takes a session for another size of the file.
AnySessionOfName(n, shape) == SessionsOf(n)
\* Any session FindReusableSession may come upon first.
ReusableSessions(n, shape) == {id \in SessionsOf(n) : sessions[id].shape = shape}

\* What MergeChunks writes.
Merged(id) ==
  LET bodies == {sessions[id].chunks[i] : i \in 1 .. ChunkCount}
  IN  IF Torn \in bodies THEN Torn
      ELSE IF \E c \in Contents : bodies = {c} THEN CHOOSE c \in Contents : bodies = {c}
      ELSE Mixed

\* SaveSession opens meta.json; until it is written the session cannot load.
OpenMeta(id, s) == sessions' = [sessions EXCEPT ![id] = [s EXCEPT !.st = "broken"]]

SaveRequest(id, n) == Request("session.save", n, None, id)

\* /upload/init: 409, or a session to save again, or a new one to save.
InitBegin(n, c) ==
  /\ Ready
  /\ \E info \in Info \cup {None} :
       /\ GetOneByURL(n, info)
       /\ \/ info # None /\ UNCHANGED <<sessions, req>>
          \/ /\ info = None
             /\ \/ FileFault /\ UNCHANGED <<sessions, req>>
                \/ \E id \in ReusableSessions(n, ShapeOf[c]) :
                     OpenMeta(id, sessions[id]) /\ req' = SaveRequest(id, n)
                \/ /\ ReusableSessions(n, ShapeOf[c]) = {}
                   /\ \E id \in UploadIds :
                        /\ sessions[id].st = "absent"
                        /\ OpenMeta(id, [NoSession EXCEPT !.name = n, !.shape = ShapeOf[c]])
                        /\ \/ req' = SaveRequest(id, n)
                           \/ FileFault /\ UNCHANGED req
  /\ UNCHANGED <<disk, acked, up>>

\* The second half of SaveSession, at the end of init and of chunk: a failed
\* write leaves a meta.json that does not parse.
SessionSave ==
  /\ At("session.save")
  /\ \/ sessions' = [sessions EXCEPT ![req.id].st = "ok"]
     \/ FileFault /\ UNCHANGED sessions
  /\ Finish
  /\ UNCHANGED <<metaVars, disk, acked, up>>

ChunkRequest(id, i, c) ==
  [Request("chunk.write", sessions[id].name, NewStorageInfo(sessions[id].name, c), id)
   EXCEPT !.index = i]

\* The size of chunk i of a file of this shape.
ChunkSize(shape, i) ==
  IF i = ChunkCount THEN shape.total - shape.chunk * (ChunkCount - 1) ELSE shape.chunk

\* The handler looks at the size of the chunk it gets and at nothing else: a chunk
\* of another file may pass.
SizeExpected(id, i, c) == ChunkSize(ShapeOf[c], i) = ChunkSize(sessions[id].shape, i)

\* /upload/chunk with chunk i of content c, of the size the session expects.
ChunkBegin(id, i, c) ==
  /\ Ready
  /\ Loadable(id)
  /\ SizeExpected(id, i, c)
  /\ \/ /\ sessions' = [sessions EXCEPT ![id].chunks[i] = Torn]
        /\ req' = ChunkRequest(id, i, c)
     \/ FileFault /\ UNCHANGED <<sessions, req>>
  /\ UNCHANGED <<metaVars, disk, acked, up>>

\* The chunk is written, then meta.json opened; a failing chunk is a 500.
ChunkWrite ==
  /\ At("chunk.write")
  /\ LET s == [sessions[req.id] EXCEPT !.chunks[req.index] = req.info.body]
     IN  \/ OpenMeta(req.id, s) /\ req' = SaveRequest(req.id, req.name)
         \/ FileFault /\ sessions' = [sessions EXCEPT ![req.id] = s] /\ Finish
         \/ FileFault /\ UNCHANGED sessions /\ Finish
  /\ UNCHANGED <<metaVars, disk, acked, up>>
-----------------------------------------------------------------------------
CompleteRequest(id) ==
  Request("complete.unlink", sessions[id].name,
          NewStorageInfo(sessions[id].name, Merged(id)), id)

\* Fault: neither looks the name up nor compares sizes.
CompleteBlind(id) ==
  /\ Ready
  /\ Loadable(id)
  /\ UploadedChunks(id) = 1 .. ChunkCount
  /\ req' = CompleteRequest(id)
  /\ UNCHANGED <<metaVars, disk, sessions, acked, up>>

\* /upload/complete: all chunks there, no such file yet, merge.  Every chunk that
\* is written out has the size expected of it, so the size of the merged file is
\* another than total_size exactly when a chunk is torn.
CompleteBegin(id) ==
  /\ Ready
  /\ Loadable(id)
  /\ UploadedChunks(id) = 1 .. ChunkCount
  /\ \E info \in Info \cup {None} :
       /\ GetOneByURL(sessions[id].name, info)
       /\ req' \in IF info # None \/ Merged(id) = Torn THEN {req}
                   ELSE {CompleteRequest(id)} \cup (IF FileFault THEN {req} ELSE {})
  /\ UNCHANGED <<disk, sessions, acked, up>>

\* FinalizeFile removes what lies in the way, then renames twice.
CompleteUnlink ==
  /\ At("complete.unlink")
  /\ disk' = [disk EXCEPT ![req.name] = None, ![TmpOf[req.name]] = None]
  /\ Goto("complete.stage")
  /\ UNCHANGED <<metaVars, sessions, acked, up>>

\* Fault: takes the staged file for the final one.
CompleteStageOnly ==
  /\ At("complete.stage")
  /\ WriteFile(TmpOf[req.name], req.info.body) /\ Goto("complete.insert")
  /\ UNCHANGED <<metaVars, sessions, acked, up>>

CompleteStage ==
  /\ At("complete.stage")
  /\ \/ WriteFile(TmpOf[req.name], req.info.body) /\ Goto("complete.rename")
     \/ FileFault /\ UNCHANGED disk /\ Finish
  /\ UNCHANGED <<metaVars, sessions, acked, up>>

CompleteRename ==
  /\ At("complete.rename")
  /\ \/ Rename(TmpOf[req.name], req.name) /\ Goto("complete.insert")
     \/ FileFault /\ RemoveFile(TmpOf[req.name]) /\ Finish
  /\ UNCHANGED <<metaVars, sessions, acked, up>>

CompleteInsert ==
  /\ At("complete.insert")
  /\ \/ \E out \in Outcomes :
          /\ Insert(req.info, out)
          /\ Goto(IF out = "ok" THEN "complete.remove" ELSE "complete.rollback")
     \/ FileFault /\ Goto("complete.rollback") /\ UNCHANGED metaVars
  /\ UNCHANGED <<disk, sessions, acked, up>>

\* Fault: the rollback throws the session away too.
CompleteRollbackAll ==
  /\ At("complete.rollback")
  /\ RemoveFile(req.name)
  /\ sessions' = [sessions EXCEPT ![req.id] = NoSession]
  /\ Finish
  /\ UNCHANGED <<metaVars, acked, up>>

CompleteRollback ==
  /\ At("complete.rollback")
  /\ RemoveFile(req.name) \/ (FileFault /\ UNCHANGED disk)
  /\ Finish
  /\ UNCHANGED <<metaVars, sessions, acked, up>>

\* remove_all, then the reply.
CompleteRemove ==
  /\ At("complete.remove")
  /\ sessions' = [sessions EXCEPT ![req.id] = NoSession]
  /\ acked' = [acked EXCEPT ![req.name] = req.info.body]
  /\ Finish
  /\ UNCHANGED <<metaVars, disk, up>>

\* /upload/abort hands its header to remove_all as it is, without LoadSession.  An
\* empty one, here None, names the directory of all sessions.  A header that leads
\* out of that directory is left out.
AbortBegin(id) ==
  /\ Ready
  /\ req' = Request("abort.remove", None, None, id)
  /\ UNCHANGED <<metaVars, disk, sessions, acked, up>>

\* The sessions under the directory that is removed, whether they load or not.
Aborted(id) == {i \in UploadIds : sessions[i].st # "absent" /\ id \in {i, None}}

\* remove_all, one session at a time.
AbortRemove ==
  /\ At("abort.remove")
  /\ \/ /\ \E id \in Aborted(req.id) : sessions' = [sessions EXCEPT ![id] = NoSession]
        /\ UNCHANGED req
     \/ Aborted(req.id) = {} /\ Finish /\ UNCHANGED sessions
  /\ UNCHANGED <<metaVars, disk, acked, up>>

Multipart ==
  \/ \E n \in Names, c \in Contents : InitBegin(n, c)
  \/ \E id \in UploadIds, i \in 1 .. ChunkCount, c \in Contents : ChunkBegin(id, i, c)
  \/ \E id \in UploadIds : CompleteBegin(id)
  \/ \E id \in UploadIds \cup {None} : AbortBegin(id)
  \/ SessionSave \/ ChunkWrite
  \/ CompleteUnlink \/ CompleteStage \/ CompleteRename \/ CompleteInsert
  \/ CompleteRollback \/ CompleteRemove \/ AbortRemove
=============================================================================
