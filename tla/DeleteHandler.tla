---------------------------- MODULE DeleteHandler ----------------------------
(***************************************************************************)
(* DELETE /delete/<name> (DeleteHandler.hpp): look the name up, delete the *)
(* row, remove the file the row pointed at, and put the row back when the  *)
(* file cannot be removed.                                                 *)
(***************************************************************************)
EXTENDS StorageState

DeleteBegin(n) ==
  /\ Ready
  /\ \E info \in Info \cup {None} :
       /\ GetOneByURL(n, info)
       /\ req' = IF info = None THEN req ELSE Request("delete.row", n, info, None)
  /\ UNCHANGED <<disk, sessions, acked, up>>

\* Fault: goes on to the file whatever became of the row.
DeleteRowUnchecked ==
  /\ At("delete.row")
  /\ \E out \in Outcomes : Delete(req.name, out)
  /\ acked' = [acked EXCEPT ![req.name] = None]
  /\ Goto("delete.file")
  /\ UNCHANGED <<disk, sessions, up>>

\* From here on the name is no longer promised to hold anything.
DeleteRow ==
  /\ At("delete.row")
  /\ \E out \in Outcomes :
       /\ Delete(req.name, out)
       /\ IF out = "ok"
          THEN acked' = [acked EXCEPT ![req.name] = None] /\ Goto("delete.file")
          ELSE UNCHANGED acked /\ Finish
  /\ UNCHANGED <<disk, sessions, up>>

\* 200 whether the file was there or not; a failing remove restores the row.
DeleteFile ==
  /\ At("delete.file")
  /\ \/ RemoveFile(req.info.path) /\ Finish
     \/ FileFault /\ disk[req.info.path] # None /\ Goto("delete.restore") /\ UNCHANGED disk
  /\ UNCHANGED <<metaVars, sessions, acked, up>>

\* "delete file failed, metadata restored": the file is there after all.
DeleteRestore ==
  /\ At("delete.restore")
  /\ \E out \in Outcomes :
       /\ Insert(req.info, out)
       /\ acked' = IF out = "ok" THEN [acked EXCEPT ![req.info.url] = req.info.body] ELSE acked
  /\ Finish
  /\ UNCHANGED <<disk, sessions, up>>

DeleteFlow ==
  \/ \E n \in Names : DeleteBegin(n)
  \/ DeleteRow \/ DeleteFile \/ DeleteRestore
=============================================================================
