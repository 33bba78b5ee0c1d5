---------------------------- MODULE UploadHandler ----------------------------
(***************************************************************************)
(* POST /upload (UploadHandler.hpp): look the name up, write the body to   *)
(* <name>.uploading, rename it to <name>, insert the metadata or remove    *)
(* the file again, reply, and drop the multipart sessions of that name.    *)
(* Requests that fail validation change nothing and are left out.          *)
(***************************************************************************)
EXTENDS StorageState

\* LoadSession succeeds
Loadable(id) == sessions[id].st = "ok"

SessionsOf(n) == {id \in UploadIds : Loadable(id) /\ sessions[id].name = n}

\* Fault: does not look the name up.
UploadBlind(n, c) ==
  /\ Ready
  /\ WriteFile(TmpOf[n], Torn)
  /\ req' = Request("upload.write", n, NewStorageInfo(n, c), None)
  /\ UNCHANGED <<metaVars, sessions, acked, up>>

\* Fault: writes the file in place.
UploadInPlace(n, c) ==
  /\ Ready
  /\ GetOneByURL(n, None)
  /\ WriteFile(n, Torn)
  /\ req' = Request("upload.write", n, NewStorageInfo(n, c), None)
  /\ UNCHANGED <<sessions, acked, up>>

\* The lookup; on a miss WriteFileAtomically removes and opens the temporary.
UploadBegin(n, c) ==
  /\ Ready
  /\ \E info \in Info \cup {None} :
       /\ GetOneByURL(n, info)
       /\ \/ info # None /\ UNCHANGED <<disk, req>>      \* 409
          \/ /\ info = None
             /\ \/ /\ WriteFile(TmpOf[n], Torn)
                   /\ req' = Request("upload.write", n, NewStorageInfo(n, c), None)
                \/ FileFault /\ RemoveFile(TmpOf[n]) /\ UNCHANGED req
  /\ UNCHANGED <<sessions, acked, up>>

UploadWrite ==
  /\ At("upload.write")
  /\ \/ WriteFile(TmpOf[req.name], req.info.body) /\ Goto("upload.rename")
     \/ FileFault /\ RemoveFile(TmpOf[req.name]) /\ Finish
  /\ UNCHANGED <<metaVars, sessions, acked, up>>

UploadRename ==
  /\ At("upload.rename")
  /\ \/ Rename(TmpOf[req.name], req.name) /\ Goto("upload.insert")
     \/ FileFault /\ RemoveFile(TmpOf[req.name]) /\ Finish
  /\ UNCHANGED <<metaVars, sessions, acked, up>>

\* NewStorageInfo looks for the file again; without it nothing is inserted.
UploadInsert ==
  /\ At("upload.insert")
  /\ \/ \E out \in Outcomes :
          /\ Insert(req.info, out)
          /\ Goto(IF out = "ok" THEN "upload.reply" ELSE "upload.rollback")
     \/ FileFault /\ Goto("upload.rollback") /\ UNCHANGED metaVars
  /\ UNCHANGED <<disk, sessions, acked, up>>

UploadRollback ==
  /\ At("upload.rollback")
  /\ RemoveFile(req.name) \/ (FileFault /\ UNCHANGED disk)
  /\ Finish
  /\ UNCHANGED <<metaVars, sessions, acked, up>>

UploadReply ==
  /\ At("upload.reply")
  /\ acked' = [acked EXCEPT ![req.name] = req.info.body]
  /\ Goto("upload.cleanup")
  /\ UNCHANGED <<metaVars, disk, sessions, up>>

\* CleanupSessionsByFilename, one directory at a time.
UploadCleanup ==
  /\ At("upload.cleanup")
  /\ \/ /\ \E id \in SessionsOf(req.name) : sessions' = [sessions EXCEPT ![id] = NoSession]
        /\ UNCHANGED req
     \/ SessionsOf(req.name) = {} /\ Finish /\ UNCHANGED sessions
  /\ UNCHANGED <<metaVars, disk, acked, up>>

Upload ==
  \/ \E n \in Names, c \in Contents : UploadBegin(n, c)
  \/ UploadWrite \/ UploadRename \/ UploadInsert \/ UploadRollback
  \/ UploadReply \/ UploadCleanup
=============================================================================
