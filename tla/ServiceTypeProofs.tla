-------------------------- MODULE ServiceTypeProofs --------------------------
(***************************************************************************)
(* Type correctness of Service, for any names, contents, sessions and      *)
(* faults.  TypeOK is not inductive: a step uses the name, the StorageInfo *)
(* or the session its request carries, so the proof goes through TypeInv,  *)
(* which says that a request at that step does carry them (Equipped) and   *)
(* that a session directory belongs to a name.                             *)
(***************************************************************************)
EXTENDS Service, TLAPS

\* What a handler makes of a file is a StorageInfo.
LEMMA InfoType ==
  ASSUME NEW n \in Names, NEW b \in Bodies
  PROVE  /\ NewStorageInfo(n, b) \in Info
         /\ NewStorageInfo(n, b).url = n
         /\ NewStorageInfo(n, b).path = n
         /\ NewStorageInfo(n, b).body = b
  BY DEF NewStorageInfo, Info

Tables == [Names -> Info \cup {None}]

\* Insert leaves tables, whatever becomes of the statement.
LEMMA InsertType ==
  ASSUME db \in Tables, table \in Tables, NEW info \in Info, NEW out, Insert(info, out)
  PROVE  db' \in Tables /\ table' \in Tables /\ connected' \in BOOLEAN
<1>1. Upserted(info) \in Tables
  <2>1. info.url \in Names
    BY DEF Info
  <2>2. \A m \in Names : [info EXCEPT !.url = m] \in Info
    BY DEF Info
  <2> QED BY <2>1, <2>2 DEF Upserted, Tables
<1>2. [table EXCEPT ![info.url] = info] \in Tables
  BY DEF Tables
<1>3. connected' \in BOOLEAN
  BY Zenon DEF Insert, Connection
<1> QED BY <1>1, <1>2, <1>3 DEF Insert

\* So does Delete.
LEMMA DeleteType ==
  ASSUME db \in Tables, table \in Tables, NEW n \in Names, NEW out, Delete(n, out)
  PROVE  db' \in Tables /\ table' \in Tables /\ connected' \in BOOLEAN
<1>1. connected' \in BOOLEAN
  BY Zenon DEF Delete, Connection
<1> QED BY <1>1 DEF Delete, Removed, Tables

\* A lookup finds a StorageInfo or None, and changes the cache at most.
LEMMA LookupType ==
  ASSUME db \in Tables, table \in Tables, connected \in BOOLEAN,
         NEW n \in Names, NEW info, GetOneByURL(n, info)
  PROVE  /\ db' = db /\ table' \in Tables /\ connected' \in BOOLEAN
         /\ info \in Info \cup {None}
<1>1. connected' \in BOOLEAN
  BY Zenon DEF GetOneByURL, Connection
<1>2. info \in Info \cup {None}
  BY DEF GetOneByURL, Selected, Rows, Tables
<1> QED BY <1>1, <1>2 DEF GetOneByURL, Tables

\* Starting up loads the table or nothing.
LEMMA ConstructType ==
  ASSUME db \in Tables, Construct
  PROVE  db' \in Tables /\ table' \in Tables /\ connected' \in BOOLEAN
<1>1. connected' \in BOOLEAN
  BY Zenon DEF Construct, Connect
<1> QED BY <1>1 DEF Construct, InitLoad, NoRows, Tables
-----------------------------------------------------------------------------
\* The steps of a request that has a file in hand, and those that have a session.
FilePCs == PCs \ {"idle", "session.save", "abort.remove"}

SessionPCs == {"session.save", "chunk.write", "complete.unlink", "complete.stage",
               "complete.rename", "complete.insert", "complete.rollback",
               "complete.remove"}

Requests == [pc : PCs, name : Names \cup {None}, info : Info \cup {None},
             id : UploadIds \cup {None}, index : 0 .. ChunkCount]

\* A request carries what its step needs.
Equipped(r) ==
  /\ r \in Requests
  /\ r.pc \in FilePCs => r.name \in Names /\ r.info \in Info
  /\ r.pc \in SessionPCs => r.id \in UploadIds
  /\ r.pc = "chunk.write" => r.index \in 1 .. ChunkCount /\ r.info.body \in Contents

MetaOK == db \in Tables /\ table \in Tables /\ connected \in BOOLEAN

DiskOK == disk \in [Paths -> Bodies \cup {Torn, None}]

\* A session directory belongs to a name.
SessionsOK ==
  /\ sessions \in [UploadIds -> Session]
  /\ \A id \in UploadIds : sessions[id].st # "absent" => sessions[id].name \in Names

AckedOK == acked \in [Names -> Bodies \cup {None}]

ProcessOK == up \in BOOLEAN /\ (~up => req = Idle)

Typed == MetaOK /\ DiskOK /\ SessionsOK /\ Equipped(req) /\ AckedOK /\ ProcessOK

\* The session a request works on is there.
InHand == req.pc \in SessionPCs => sessions[req.id].st # "absent"

TypeInv == Typed /\ InHand

\* Nothing is needed between two requests.
LEMMA IdleEquipped == Equipped(Idle) /\ Idle.pc = "idle"
  BY StorageAssumption DEF Equipped, Request, Idle, Requests, PCs, FilePCs, SessionPCs

\* The first step of a handler that works on a file.
LEMMA RequestEquipped ==
  ASSUME NEW n \in Names, NEW info \in Info, NEW id \in UploadIds \cup {None},
         NEW pc \in FilePCs, pc # "chunk.write", pc \in SessionPCs => id \in UploadIds
  PROVE  Equipped(Request(pc, n, info, id))
<1>1. 0 \in 0 .. ChunkCount /\ pc \in PCs
  BY StorageAssumption DEF FilePCs
<1>2. Request(pc, n, info, id) \in Requests
  BY <1>1 DEF Request, Requests
<1> QED BY <1>2 DEF Equipped, Request

\* The first step of a handler that works on sessions.
LEMMA SessionEquipped ==
  ASSUME NEW n \in Names \cup {None}, NEW id \in UploadIds \cup {None},
         NEW pc \in {"session.save", "abort.remove"}, pc = "session.save" => id \in UploadIds
  PROVE  Equipped(Request(pc, n, None, id))
<1>1. 0 \in 0 .. ChunkCount /\ pc \in PCs
  BY StorageAssumption DEF PCs
<1>2. Request(pc, n, None, id) \in Requests
  BY <1>1 DEF Request, Requests
<1>3. pc \notin FilePCs /\ pc # "chunk.write" /\ "abort.remove" \notin SessionPCs
  BY DEF FilePCs, SessionPCs
<1> QED BY <1>2, <1>3 DEF Equipped, Request

\* Going on to another step with the same file, and the same session if any.
LEMMA GotoEquipped ==
  ASSUME Equipped(req), NEW pc \in FilePCs, pc # "chunk.write", Goto(pc),
         req.pc \in FilePCs, pc \in SessionPCs => req.pc \in SessionPCs
  PROVE  Equipped(req')
<1>1. pc \in PCs
  BY DEF FilePCs
<1>2. req' \in Requests /\ req'.pc = pc /\ req'.name = req.name /\ req'.info = req.info
      /\ req'.id = req.id
  BY <1>1 DEF Equipped, Goto, Requests
<1> QED BY <1>2 DEF Equipped

\* What chunks put together make.
LEMMA MergedType ==
  ASSUME NEW id \in UploadIds PROVE Merged(id) \in Bodies \cup {Torn}
<1> DEFINE bodies == {sessions[id].chunks[i] : i \in 1 .. ChunkCount}
<1>1. ASSUME \E c \in Contents : bodies = {c}
      PROVE  (CHOOSE c \in Contents : bodies = {c}) \in Contents
  BY <1>1
<1> QED BY <1>1 DEF Merged, Bodies

\* Every path a handler touches is one of Paths.
LEMMA PathsFacts ==
  /\ Names \subseteq Paths
  /\ \A n \in Names : TmpOf[n] \in Paths
  BY DEF Paths

\* Writing or removing a file leaves a disk.
LEMMA WriteType ==
  ASSUME DiskOK, NEW p \in Paths, NEW b \in Bodies \cup {Torn, None}, WriteFile(p, b)
  PROVE  DiskOK'
  BY DEF DiskOK, WriteFile

LEMMA RemoveType ==
  ASSUME DiskOK, NEW p \in Paths, RemoveFile(p) PROVE DiskOK'
  BY WriteType DEF RemoveFile

\* So does renaming.
LEMMA RenameType ==
  ASSUME DiskOK, NEW p \in Paths, NEW q \in Paths, Rename(p, q) PROVE DiskOK'
  BY DEF DiskOK, Rename

\* A session directory that changes to another well-typed session, or goes.
LEMMA SessionChange ==
  ASSUME SessionsOK, NEW id \in UploadIds, NEW s \in Session,
         s.st # "absent" => s.name \in Names,
         sessions' = [sessions EXCEPT ![id] = s]
  PROVE  SessionsOK'
  BY DEF SessionsOK

LEMMA SessionGone ==
  ASSUME SessionsOK, NEW id \in UploadIds, sessions' = [sessions EXCEPT ![id] = NoSession]
  PROVE  SessionsOK'
<1>1. NoSession \in Session /\ NoSession.st = "absent"
  BY DEF NoSession, Session, NoChunks
<1> QED BY <1>1, SessionChange

\* A lookup leaves the metadata well typed.
LEMMA LookupMeta ==
  ASSUME MetaOK, NEW n \in Names, NEW info, GetOneByURL(n, info)
  PROVE  MetaOK' /\ info \in Info \cup {None}
  BY LookupType DEF MetaOK

LEMMA InsertMeta ==
  ASSUME MetaOK, NEW info \in Info, NEW out, Insert(info, out)
  PROVE  MetaOK'
  BY InsertType DEF MetaOK

\* Only a process that runs handles a request.
LEMMA Running == ASSUME ProcessOK, req.pc # "idle" PROVE up = TRUE
  BY IdleEquipped DEF ProcessOK

\* The parts of TypeInv that a step leaves alone.
LEMMA Unchanged ==
  /\ MetaOK /\ UNCHANGED metaVars => MetaOK'
  /\ DiskOK /\ UNCHANGED disk => DiskOK'
  /\ SessionsOK /\ UNCHANGED sessions => SessionsOK'
  /\ AckedOK /\ UNCHANGED acked => AckedOK'
  /\ Equipped(req) /\ UNCHANGED req => Equipped(req')
  /\ up = TRUE /\ UNCHANGED up => ProcessOK'
<1>1. MetaOK /\ UNCHANGED metaVars => MetaOK'
  BY DEF MetaOK, metaVars
<1>2. DiskOK /\ UNCHANGED disk => DiskOK'
  BY DEF DiskOK
<1>3. SessionsOK /\ UNCHANGED sessions => SessionsOK'
  BY DEF SessionsOK
<1>4. AckedOK /\ UNCHANGED acked => AckedOK'
  BY DEF AckedOK
<1>5. up = TRUE /\ UNCHANGED up => ProcessOK'
  BY DEF ProcessOK
<1> QED BY <1>1, <1>2, <1>3, <1>4, <1>5

\* Every step of an ordinary upload keeps the types.
LEMMA UploadTypes == ASSUME Typed, Upload PROVE Typed'
<1> USE DEF Typed
<1>1. ASSUME NEW n \in Names, NEW c \in Contents, UploadBegin(n, c) PROVE Typed'
  <2>1. PICK info \in Info \cup {None} : GetOneByURL(n, info)
    BY <1>1 DEF UploadBegin
  <2>2. MetaOK'
    BY <2>1, LookupMeta
  <2>3. DiskOK'
    <3>1. CASE UNCHANGED disk
      BY <3>1, Unchanged
    <3>2. CASE WriteFile(TmpOf[n], Torn)
      BY <3>2, WriteType, PathsFacts
    <3>3. CASE RemoveFile(TmpOf[n])
      BY <3>3, RemoveType, PathsFacts
    <3> QED BY <1>1, <3>1, <3>2, <3>3 DEF UploadBegin
  <2>4. Equipped(req')
    <3>1. "upload.write" \in FilePCs /\ "upload.write" \notin SessionPCs
      BY DEF FilePCs, PCs, SessionPCs
    <3>2. Equipped(Request("upload.write", n, NewStorageInfo(n, c), None))
      BY <3>1, RequestEquipped, InfoType DEF Bodies
    <3> QED BY <1>1, <3>2 DEF UploadBegin
  <2> QED BY <1>1, <2>2, <2>3, <2>4, Unchanged DEF UploadBegin, Ready
<1>2. ASSUME UploadWrite PROVE Typed'
  <2> USE <1>2 DEF UploadWrite, At
  <2>1. req.name \in Names /\ req.info.body \in Bodies /\ req.pc \in FilePCs
    BY DEF Equipped, FilePCs, PCs, Info
  <2>2. DiskOK'
    BY <2>1, WriteType, RemoveType, PathsFacts
  <2>3. Equipped(req')
    <3>1. "upload.rename" \in FilePCs /\ "upload.rename" \notin SessionPCs
      BY DEF FilePCs, PCs, SessionPCs
    <3> QED BY <2>1, <3>1, GotoEquipped, IdleEquipped DEF Finish
  <2> QED BY <2>2, <2>3, Unchanged, Running
<1>3. ASSUME UploadRename PROVE Typed'
  <2> USE <1>3 DEF UploadRename, At
  <2>1. req.name \in Names /\ req.pc \in FilePCs
    BY DEF Equipped, FilePCs, PCs
  <2>2. DiskOK'
    BY <2>1, RenameType, RemoveType, PathsFacts
  <2>3. Equipped(req')
    <3>1. "upload.insert" \in FilePCs /\ "upload.insert" \notin SessionPCs
      BY DEF FilePCs, PCs, SessionPCs
    <3> QED BY <2>1, <3>1, GotoEquipped, IdleEquipped DEF Finish
  <2> QED BY <2>2, <2>3, Unchanged, Running
<1>4. ASSUME UploadInsert PROVE Typed'
  <2> USE <1>4 DEF UploadInsert, At
  <2>1. req.info \in Info /\ req.pc \in FilePCs
    BY DEF Equipped, FilePCs, PCs
  <2>2. MetaOK'
    BY <2>1, InsertMeta, Unchanged
  <2>3. Equipped(req')
    <3>1. \A pc \in {"upload.reply", "upload.rollback"} :
            pc \in FilePCs /\ pc \notin SessionPCs /\ pc # "chunk.write"
      BY DEF FilePCs, PCs, SessionPCs
    <3> QED BY <2>1, <3>1, GotoEquipped
  <2> QED BY <2>2, <2>3, Unchanged, Running
<1>5. ASSUME UploadRollback PROVE Typed'
  <2> USE <1>5 DEF UploadRollback, At
  <2>1. req.name \in Names
    BY DEF Equipped, FilePCs, PCs
  <2>2. DiskOK'
    BY <2>1, RemoveType, PathsFacts, Unchanged
  <2> QED BY <2>2, Unchanged, Running, IdleEquipped DEF Finish
<1>6. ASSUME UploadReply PROVE Typed'
  <2> USE <1>6 DEF UploadReply, At
  <2>1. req.info.body \in Bodies /\ req.pc \in FilePCs
    BY DEF Equipped, FilePCs, PCs, Info
  <2>2. AckedOK'
    BY <2>1 DEF AckedOK
  <2>3. Equipped(req')
    <3>1. "upload.cleanup" \in FilePCs /\ "upload.cleanup" \notin SessionPCs
      BY DEF FilePCs, PCs, SessionPCs
    <3> QED BY <2>1, <3>1, GotoEquipped
  <2> QED BY <2>2, <2>3, Unchanged, Running
<1>7. ASSUME UploadCleanup PROVE Typed'
  <2> USE <1>7 DEF UploadCleanup, At
  <2>1. SessionsOK'
    BY SessionGone, Unchanged DEF SessionsOf
  <2> QED BY <2>1, Unchanged, Running, IdleEquipped DEF Finish
<1> QED BY <1>1, <1>2, <1>3, <1>4, <1>5, <1>6, <1>7 DEF Upload

\* Every step of a delete keeps the types.
LEMMA DeleteTypes == ASSUME Typed, DeleteFlow PROVE Typed'
<1> USE DEF Typed
<1>1. ASSUME NEW n \in Names, DeleteBegin(n) PROVE Typed'
  <2>1. PICK info \in Info \cup {None} :
          /\ GetOneByURL(n, info)
          /\ req' = IF info = None THEN req ELSE Request("delete.row", n, info, None)
    BY <1>1 DEF DeleteBegin
  <2>2. MetaOK'
    BY <2>1, LookupMeta
  <2>3. Equipped(req')
    <3>1. "delete.row" \in FilePCs /\ "delete.row" \notin SessionPCs
      BY DEF FilePCs, PCs, SessionPCs
    <3> QED BY <2>1, <3>1, RequestEquipped
  <2> QED BY <1>1, <2>2, <2>3, Unchanged DEF DeleteBegin, Ready
<1>2. ASSUME DeleteRow PROVE Typed'
  <2> USE <1>2 DEF DeleteRow, At
  <2>1. req.name \in Names /\ req.pc \in FilePCs
    BY DEF Equipped, FilePCs, PCs
  <2>2. MetaOK'
    BY <2>1, DeleteType DEF MetaOK
  <2>3. AckedOK'
    BY <2>1 DEF AckedOK
  <2>4. Equipped(req')
    <3>1. "delete.file" \in FilePCs /\ "delete.file" \notin SessionPCs
      BY DEF FilePCs, PCs, SessionPCs
    <3> QED BY <2>1, <3>1, GotoEquipped, IdleEquipped DEF Finish
  <2> QED BY <2>2, <2>3, <2>4, Unchanged, Running
<1>3. ASSUME DeleteFile PROVE Typed'
  <2> USE <1>3 DEF DeleteFile, At
  <2>1. req.info.path \in Names /\ req.pc \in FilePCs
    BY DEF Equipped, FilePCs, PCs, Info
  <2>2. DiskOK'
    BY <2>1, RemoveType, PathsFacts, Unchanged
  <2>3. Equipped(req')
    <3>1. "delete.restore" \in FilePCs /\ "delete.restore" \notin SessionPCs
      BY DEF FilePCs, PCs, SessionPCs
    <3> QED BY <2>1, <3>1, GotoEquipped, IdleEquipped DEF Finish
  <2> QED BY <2>2, <2>3, Unchanged, Running
<1>4. ASSUME DeleteRestore PROVE Typed'
  <2> USE <1>4 DEF DeleteRestore, At
  <2>1. req.info \in Info /\ req.info.url \in Names /\ req.info.body \in Bodies
    BY DEF Equipped, FilePCs, PCs, Info
  <2>2. MetaOK'
    BY <2>1, InsertMeta
  <2>3. AckedOK'
    BY <2>1 DEF AckedOK
  <2> QED BY <2>2, <2>3, Unchanged, Running, IdleEquipped DEF Finish
<1> QED BY <1>1, <1>2, <1>3, <1>4 DEF DeleteFlow

\* A chunk file that changes.
LEMMA ChunkType ==
  ASSUME SessionsOK, NEW id \in UploadIds, NEW i \in 1 .. ChunkCount,
         NEW b \in Contents \cup {Torn}, sessions[id].st # "absent",
         sessions' = [sessions EXCEPT ![id].chunks[i] = b]
  PROVE  SessionsOK'
<1> DEFINE s == [sessions[id] EXCEPT !.chunks[i] = b]
<1>1. s \in Session /\ s.name = sessions[id].name
  BY DEF Session, SessionsOK
<1>2. sessions' = [sessions EXCEPT ![id] = s]
  OBVIOUS
<1> QED BY <1>1, <1>2, SessionChange DEF SessionsOK

\* The request of a chunk carries the content to write.
LEMMA ChunkEquipped ==
  ASSUME NEW id \in UploadIds, NEW i \in 1 .. ChunkCount, NEW c \in Contents,
         sessions[id].name \in Names
  PROVE  Equipped(ChunkRequest(id, i, c))
<1> DEFINE n == sessions[id].name
           r == ChunkRequest(id, i, c)
<1>1. NewStorageInfo(n, c) \in Info /\ NewStorageInfo(n, c).body = c
  BY InfoType DEF Bodies
<1>2. i \in 0 .. ChunkCount
  OBVIOUS
<1>3. r = [pc |-> "chunk.write", name |-> n, info |-> NewStorageInfo(n, c), id |-> id, index |-> i]
  BY DEF ChunkRequest, Request
<1> HIDE DEF n, r
<1>4. r \in Requests
  BY <1>1, <1>2, <1>3 DEF Requests, PCs, n
<1> QED BY <1>1, <1>3, <1>4 DEF Equipped, r, n

\* Starting to save meta.json keeps the sessions well typed.
LEMMA OpenMetaType ==
  ASSUME SessionsOK, NEW id \in UploadIds, NEW s \in Session, s.name \in Names,
         OpenMeta(id, s)
  PROVE  SessionsOK'
<1>1. [s EXCEPT !.st = "broken"] \in Session /\ [s EXCEPT !.st = "broken"].name = s.name
  BY DEF Session
<1> QED BY <1>1, SessionChange DEF OpenMeta

\* The steps of a completion that go on to one another.
LEMMA CompletePCs ==
  \A pc \in {"complete.unlink", "complete.stage", "complete.rename", "complete.insert",
             "complete.rollback", "complete.remove"} :
    pc \in FilePCs /\ pc \in SessionPCs /\ pc # "chunk.write"
  BY DEF FilePCs, PCs, SessionPCs

\* Every step of a multipart upload keeps the types.
LEMMA MultipartTypes == ASSUME Typed, InHand, Multipart PROVE Typed'
<1> USE DEF Typed
<1>1. ASSUME NEW n \in Names, NEW c \in Contents, InitBegin(n, c) PROVE Typed'
  <2>1. PICK info \in Info \cup {None} : GetOneByURL(n, info)
    BY <1>1 DEF InitBegin
  <2>2. MetaOK'
    BY <2>1, LookupMeta
  <2>3. SessionsOK'
    <3>1. ASSUME NEW id \in ReusableSessions(n, ShapeOf[c]), OpenMeta(id, sessions[id])
          PROVE  SessionsOK'
      <4>1. id \in UploadIds /\ sessions[id] \in Session /\ sessions[id].name \in Names
        BY DEF ReusableSessions, SessionsOf, Loadable, SessionsOK
      <4> QED BY <3>1, <4>1, OpenMetaType
    <3>2. ASSUME NEW id \in UploadIds,
                 OpenMeta(id, [NoSession EXCEPT !.name = n, !.shape = ShapeOf[c]])
          PROVE  SessionsOK'
      <4>1. ShapeOf[c] \in Shapes
        BY DEF Shapes
      <4>2. /\ [NoSession EXCEPT !.name = n, !.shape = ShapeOf[c]] \in Session
            /\ [NoSession EXCEPT !.name = n, !.shape = ShapeOf[c]].name = n
        BY <4>1 DEF NoSession, NoChunks, Session
      <4> QED BY <3>2, <4>2, OpenMetaType
    <3> QED BY <1>1, <3>1, <3>2, Unchanged DEF InitBegin
  <2>4. Equipped(req')
    <3>1. \A id \in UploadIds : Equipped(SaveRequest(id, n))
      BY SessionEquipped DEF SaveRequest
    <3>2. ReusableSessions(n, ShapeOf[c]) \subseteq UploadIds
      BY DEF ReusableSessions, SessionsOf
    <3> QED BY <1>1, <3>1, <3>2 DEF InitBegin
  <2> QED BY <1>1, <2>2, <2>3, <2>4, Unchanged DEF InitBegin, Ready
<1>2. ASSUME NEW id \in UploadIds, NEW i \in 1 .. ChunkCount, NEW c \in Contents,
             ChunkBegin(id, i, c)
      PROVE  Typed'
  <2>1. sessions[id] \in Session /\ sessions[id].name \in Names
    BY <1>2 DEF ChunkBegin, Loadable, SessionsOK
  <2>2. SessionsOK'
    <3>1. CASE UNCHANGED sessions
      BY <3>1, Unchanged
    <3>2. CASE sessions' = [sessions EXCEPT ![id].chunks[i] = Torn]
      <4>1. sessions[id].st # "absent" /\ Torn \in Contents \cup {Torn}
        BY <1>2 DEF ChunkBegin, Loadable
      <4> QED BY <3>2, <4>1, ChunkType
    <3> QED BY <1>2, <3>1, <3>2 DEF ChunkBegin
  <2>3. Equipped(ChunkRequest(id, i, c))
    BY <2>1, ChunkEquipped
  <2> QED BY <1>2, <2>2, <2>3, Unchanged DEF ChunkBegin, Ready
<1>3. ASSUME NEW id \in UploadIds, CompleteBegin(id) PROVE Typed'
  <2>1. sessions[id].name \in Names
    BY <1>3 DEF CompleteBegin, Loadable, SessionsOK
  <2>2. MetaOK'
    BY <1>3, <2>1, LookupMeta DEF CompleteBegin
  <2>3. Equipped(req')
    <3>1. CASE Merged(id) = Torn
      BY <1>3, <3>1 DEF CompleteBegin
    <3>2. CASE Merged(id) # Torn
      <4>1. Merged(id) \in Bodies
        BY <3>2, MergedType
      <4>2. "complete.unlink" \in FilePCs
        BY DEF FilePCs, PCs
      <4>3. Equipped(CompleteRequest(id))
        BY <2>1, <4>1, <4>2, InfoType, RequestEquipped DEF CompleteRequest
      <4> QED BY <1>3, <4>3 DEF CompleteBegin
    <3> QED BY <3>1, <3>2
  <2> QED BY <1>3, <2>2, <2>3, Unchanged DEF CompleteBegin, Ready
<1>4. ASSUME NEW id \in UploadIds \cup {None}, AbortBegin(id) PROVE Typed'
  BY <1>4, SessionEquipped, Unchanged DEF AbortBegin, Ready
<1>5. ASSUME SessionSave PROVE Typed'
  <2> USE <1>5 DEF SessionSave, At
  <2>1. req.id \in UploadIds
    BY DEF Equipped, SessionPCs
  <2> DEFINE s == [sessions[req.id] EXCEPT !.st = "ok"]
  <2>2. s \in Session /\ s.name \in Names
    BY <2>1 DEF SessionsOK, Session, InHand, SessionPCs
  <2> HIDE DEF s
  <2>3. ASSUME sessions' = [sessions EXCEPT ![req.id] = s] PROVE SessionsOK'
    BY <2>1, <2>2, <2>3, SessionChange
  <2>4. SessionsOK'
    BY <2>3, Unchanged DEF s
  <2> QED BY <2>4, Unchanged, Running, IdleEquipped DEF Finish
<1>6. ASSUME ChunkWrite PROVE Typed'
  <2> USE <1>6 DEF ChunkWrite, At
  <2> DEFINE s == [sessions[req.id] EXCEPT !.chunks[req.index] = req.info.body]
  <2>1. /\ req.id \in UploadIds /\ req.name \in Names
        /\ req.index \in 1 .. ChunkCount /\ req.info.body \in Contents
    BY DEF Equipped, SessionPCs, FilePCs, PCs
  <2>2. s \in Session /\ s.name \in Names
    BY <2>1 DEF SessionsOK, Session, InHand, SessionPCs
  <2> HIDE DEF s
  <2>3. Equipped(SaveRequest(req.id, req.name))
    BY <2>1, SessionEquipped DEF SaveRequest
  <2>4. Equipped(req')
    BY <2>3, IdleEquipped DEF Finish, s
  <2>5. SessionsOK'
    <3>1. CASE OpenMeta(req.id, s)
      BY <2>1, <2>2, <3>1, OpenMetaType
    <3>2. CASE sessions' = [sessions EXCEPT ![req.id] = s]
      BY <2>1, <2>2, <3>2, SessionChange
    <3> QED BY <3>1, <3>2, Unchanged DEF s
  <2> QED BY <2>4, <2>5, Unchanged, Running
<1>7. ASSUME CompleteUnlink PROVE Typed'
  <2> USE <1>7 DEF CompleteUnlink, At
  <2>1. DiskOK'
    BY DEF DiskOK
  <2>2. Equipped(req')
    BY CompletePCs, GotoEquipped
  <2> QED BY <2>1, <2>2, Unchanged, Running
<1>8. ASSUME CompleteStage PROVE Typed'
  <2> USE <1>8 DEF CompleteStage, At
  <2>1. req.name \in Names /\ req.info.body \in Bodies
    BY DEF Equipped, FilePCs, PCs, Info
  <2>2. DiskOK'
    BY <2>1, WriteType, PathsFacts, Unchanged
  <2>3. Equipped(req')
    BY CompletePCs, GotoEquipped, IdleEquipped DEF Finish
  <2> QED BY <2>2, <2>3, Unchanged, Running
<1>9. ASSUME CompleteRename PROVE Typed'
  <2> USE <1>9 DEF CompleteRename, At
  <2>1. req.name \in Names
    BY DEF Equipped, FilePCs, PCs
  <2>2. DiskOK'
    BY <2>1, RenameType, RemoveType, PathsFacts
  <2>3. Equipped(req')
    BY CompletePCs, GotoEquipped, IdleEquipped DEF Finish
  <2> QED BY <2>2, <2>3, Unchanged, Running
<1>10. ASSUME CompleteInsert PROVE Typed'
  <2> USE <1>10 DEF CompleteInsert, At
  <2>1. req.info \in Info
    BY DEF Equipped, FilePCs, PCs
  <2>2. MetaOK'
    BY <2>1, InsertMeta, Unchanged
  <2>3. Equipped(req')
    BY CompletePCs, GotoEquipped
  <2> QED BY <2>2, <2>3, Unchanged, Running
<1>11. ASSUME CompleteRollback PROVE Typed'
  <2> USE <1>11 DEF CompleteRollback, At
  <2>1. req.name \in Names
    BY DEF Equipped, FilePCs, PCs
  <2>2. DiskOK'
    BY <2>1, RemoveType, PathsFacts, Unchanged
  <2> QED BY <2>2, Unchanged, Running, IdleEquipped DEF Finish
<1>12. ASSUME CompleteRemove PROVE Typed'
  <2> USE <1>12 DEF CompleteRemove, At
  <2>1. req.id \in UploadIds /\ req.info.body \in Bodies
    BY DEF Equipped, SessionPCs, FilePCs, PCs, Info
  <2>2. AckedOK'
    BY <2>1 DEF AckedOK
  <2>3. SessionsOK'
    BY <2>1, SessionGone
  <2> QED BY <2>2, <2>3, Unchanged, Running, IdleEquipped DEF Finish
<1>13. ASSUME AbortRemove PROVE Typed'
  <2> USE <1>13 DEF AbortRemove, At
  <2>1. Aborted(req.id) \subseteq UploadIds
    BY DEF Aborted
  <2>2. SessionsOK'
    BY <2>1, SessionGone, Unchanged
  <2> QED BY <2>2, Unchanged, Running, IdleEquipped DEF Finish
<1> QED
  BY <1>1, <1>2, <1>3, <1>4, <1>5, <1>6, <1>7, <1>8, <1>9, <1>10, <1>11, <1>12, <1>13
  DEF Multipart
-----------------------------------------------------------------------------
\* A request that takes a session up has found or made its directory, and the
\* directory stays until the request lets go of it.
LEMMA InHandStep == ASSUME TypeInv, Next PROVE InHand'
<1> USE DEF TypeInv, Typed
<1>1. CASE req'.pc \notin SessionPCs
  BY <1>1 DEF InHand
<1>2. CASE req.pc \in SessionPCs /\ req'.id = req.id /\ UNCHANGED sessions
  BY <1>2 DEF InHand
<1>3. Ready => req.pc \notin SessionPCs
  BY DEF Ready, SessionPCs
<1>4. \A pc : Goto(pc) => req'.pc = pc /\ req'.id = req.id
  BY DEF Goto, Equipped, Requests
<1>5. Finish => req'.pc \notin SessionPCs
  BY IdleEquipped DEF Finish, SessionPCs
<1>6. ASSUME Upload PROVE req'.pc \notin SessionPCs
  BY <1>3, <1>4, <1>5, <1>6 DEF Upload, UploadBegin, UploadWrite, UploadRename, UploadInsert,
     UploadRollback, UploadReply, UploadCleanup, At, Request, SessionPCs
<1>7. ASSUME DeleteFlow PROVE req'.pc \notin SessionPCs
  BY <1>3, <1>4, <1>5, <1>7 DEF DeleteFlow, DeleteBegin, DeleteRow, DeleteFile, DeleteRestore,
     At, Request, SessionPCs
<1>8. ASSUME Crash \/ Restart \/ \E n \in Names : Download(n) PROVE req'.pc \notin SessionPCs
  BY <1>3, <1>8, IdleEquipped DEF Crash, Restart, Download, ProcessOK, SessionPCs
<1>9. ASSUME NEW n \in Names, NEW c \in Contents, InitBegin(n, c) PROVE InHand'
  <2>1. ASSUME NEW id \in UploadIds, NEW s, OpenMeta(id, s), s \in Session,
               req' = SaveRequest(id, n)
        PROVE  InHand'
    <3>1. req'.id = id
      BY <2>1 DEF SaveRequest, Request
    <3>2. sessions'[id].st = "broken"
      BY <2>1 DEF OpenMeta, SessionsOK, Session
    <3> QED BY <3>1, <3>2 DEF InHand
  <2>2. ReusableSessions(n, ShapeOf[c]) \subseteq UploadIds
    BY DEF ReusableSessions, SessionsOf
  <2>3. [NoSession EXCEPT !.name = n, !.shape = ShapeOf[c]] \in Session
    BY DEF NoSession, NoChunks, Session, Shapes
  <2>4. CASE UNCHANGED req
    BY <1>1, <1>3, <1>9, <2>4 DEF InitBegin
  <2> QED BY <1>9, <2>1, <2>2, <2>3, <2>4 DEF InitBegin, SessionsOK
<1>10. ASSUME NEW id \in UploadIds, NEW i \in 1 .. ChunkCount, NEW c \in Contents,
              ChunkBegin(id, i, c)
       PROVE  InHand'
  <2>1. CASE UNCHANGED req
    BY <1>1, <1>3, <1>10, <2>1 DEF ChunkBegin
  <2>2. CASE req' = ChunkRequest(id, i, c) /\ sessions' = [sessions EXCEPT ![id].chunks[i] = Torn]
    <3>1. req'.id = id
      BY <2>2 DEF ChunkRequest, Request
    <3>2. sessions'[id].st = "ok"
      BY <1>10, <2>2 DEF ChunkBegin, Loadable, SessionsOK, Session
    <3> QED BY <3>1, <3>2 DEF InHand
  <2> QED BY <1>10, <2>1, <2>2 DEF ChunkBegin
<1>11. ASSUME NEW id \in UploadIds, CompleteBegin(id) PROVE InHand'
  <2>1. CASE UNCHANGED req
    BY <1>1, <1>3, <1>11, <2>1 DEF CompleteBegin
  <2>2. CASE req'.id = id /\ UNCHANGED sessions /\ sessions[id].st # "absent"
    BY <2>2 DEF InHand
  <2> QED BY <1>11, <2>1, <2>2 DEF CompleteBegin, CompleteRequest, Request, Loadable
<1>12. ASSUME ChunkWrite PROVE InHand'
  <2> DEFINE s == [sessions[req.id] EXCEPT !.chunks[req.index] = req.info.body]
  <2>1. CASE OpenMeta(req.id, s) /\ req' = SaveRequest(req.id, req.name)
    <3>1. req'.id = req.id
      BY <2>1 DEF SaveRequest, Request
    <3>2. req.id \in UploadIds /\ sessions[req.id] \in Session
      BY <1>12 DEF ChunkWrite, At, Equipped, SessionPCs, SessionsOK
    <3>3. sessions'[req.id].st = "broken"
      BY <2>1, <3>2 DEF OpenMeta, SessionsOK, Session
    <3> QED BY <3>1, <3>3 DEF InHand
  <2> QED BY <1>1, <1>5, <1>12, <2>1 DEF ChunkWrite
<1>13. ASSUME \/ SessionSave \/ CompleteRollback \/ CompleteRemove \/ AbortRemove
              \/ \E id \in UploadIds \cup {None} : AbortBegin(id)
       PROVE  InHand'
  <2>1. CASE SessionSave \/ CompleteRollback \/ CompleteRemove
    BY <1>1, <1>5, <2>1 DEF SessionSave, CompleteRollback, CompleteRemove
  <2>2. CASE AbortRemove \/ \E id \in UploadIds \cup {None} : AbortBegin(id)
    <3>1. req'.pc \in {"abort.remove", Idle.pc}
      BY <2>2 DEF AbortRemove, AbortBegin, At, Finish, Request
    <3> QED BY <1>1, <3>1, IdleEquipped DEF SessionPCs
  <2> QED BY <1>13, <2>1, <2>2
<1>14. ASSUME \/ CompleteUnlink \/ CompleteStage \/ CompleteRename \/ CompleteInsert
       PROVE  InHand'
  BY <1>1, <1>2, <1>4, <1>5, <1>14 DEF CompleteUnlink, CompleteStage, CompleteRename,
     CompleteInsert, At, SessionPCs
<1>15. ASSUME Multipart PROVE InHand'
  BY <1>9, <1>10, <1>11, <1>12, <1>13, <1>14, <1>15 DEF Multipart
<1> QED BY <1>1, <1>6, <1>7, <1>8, <1>15 DEF Next
-----------------------------------------------------------------------------
\* What an interrupted remove_all leaves is the session with less in it, or
\* nothing.
LEMMA RemainsType ==
  ASSUME NEW s \in Session, NEW r \in Remains(s)
  PROVE  r \in Session /\ (r.st # "absent" => r.name = s.name)
<1>1. NoSession \in Session /\ NoSession.st = "absent"
  BY DEF NoSession, Session, NoChunks
<1>2. ASSUME NEW was \in {s.st, "broken"}, NEW kept \in SUBSET (1 .. ChunkCount)
      PROVE  Partial(s, was, kept) \in Session /\ Partial(s, was, kept).name = s.name
  BY DEF Partial, Session
<1> QED BY <1>1, <1>2 DEF Remains

\* The sessions of which remove_all may leave something have a name.
LEMMA RemovalType ==
  ASSUME TypeInv, NEW id \in BeingRemoved
  PROVE  id \in UploadIds /\ sessions[id] \in Session /\ sessions[id].name \in Names
<1>1. id \in UploadIds /\ sessions[id].st # "absent"
  <2>1. \/ At("complete.remove") /\ id = req.id
        \/ At("abort.remove") /\ id \in Aborted(req.id)
        \/ At("upload.cleanup") /\ id \in SessionsOf(req.name)
    BY DEF BeingRemoved, At
  <2> QED BY <2>1 DEF At, TypeInv, InHand, Typed, Equipped, SessionPCs, Aborted, SessionsOf,
      Loadable
<1> QED BY <1>1 DEF TypeInv, Typed, SessionsOK

\* A crash keeps the types: what is on the disk stays what it is.
LEMMA CrashTypes == ASSUME TypeInv, Crash PROVE Typed'
<1> USE DEF TypeInv, Typed, Crash
<1>1. MetaOK'
  BY DEF MetaOK, Tables, NoRows
<1>2. SessionsOK'
  <2>1. ASSUME NEW id \in BeingRemoved, NEW s \in Remains(sessions[id]),
               sessions' = [sessions EXCEPT ![id] = s]
        PROVE  SessionsOK'
    <3>1. id \in UploadIds /\ sessions[id] \in Session /\ sessions[id].name \in Names
      BY RemovalType
    <3>2. s \in Session /\ (s.st # "absent" => s.name \in Names)
      BY <3>1, RemainsType
    <3> QED BY <2>1, <3>1, <3>2, SessionChange
  <2> QED BY <2>1, Unchanged
<1> QED BY <1>1, <1>2, Unchanged, IdleEquipped DEF ProcessOK

\* Downloads change the cache at most; a restart reads the table.
LEMMA OtherTypes ==
  ASSUME Typed, Restart \/ \E n \in Names : Download(n) PROVE Typed'
<1> USE DEF Typed
<1>1. ASSUME Restart PROVE Typed'
  <2>1. MetaOK'
    BY <1>1, ConstructType DEF Restart, MetaOK
  <2> QED BY <1>1, <2>1, Unchanged DEF Restart, ProcessOK
<1>2. ASSUME NEW n \in Names, Download(n) PROVE Typed'
  <2>1. MetaOK'
    BY <1>2, LookupMeta DEF Download
  <2> QED BY <1>2, <2>1, Unchanged DEF Download, Ready
<1> QED BY <1>1, <1>2
-----------------------------------------------------------------------------
\* Nothing but Next changes any variable.
LEMMA StutterTypes == ASSUME TypeInv, UNCHANGED vars PROVE TypeInv'
<1>1. up \in BOOLEAN /\ UNCHANGED <<up, req>> /\ ProcessOK => ProcessOK'
  BY DEF ProcessOK
<1> QED
  BY <1>1, Unchanged DEF TypeInv, Typed, InHand, ProcessOK, vars, metaVars

LEMMA InitTypes == Init => TypeInv
<1> SUFFICES ASSUME Init PROVE TypeInv
  OBVIOUS
<1>1. SessionsOK
  BY DEF Init, SessionsOK, Session, NoSession, NoChunks
<1>2. Equipped(req) /\ InHand
  BY IdleEquipped DEF Init, InHand, SessionPCs
<1>3. MetaOK /\ DiskOK /\ AckedOK /\ ProcessOK
  BY DEF Init, MetaOK, Tables, DiskOK, AckedOK, ProcessOK, NoRows
<1> QED BY <1>1, <1>2, <1>3 DEF TypeInv, Typed

LEMMA NextTypes == ASSUME TypeInv, Next PROVE TypeInv'
<1>1. Typed /\ InHand
  BY DEF TypeInv
<1>2. Typed'
  BY <1>1, UploadTypes, DeleteTypes, MultipartTypes, CrashTypes, OtherTypes DEF Next
<1> QED BY <1>2, InHandStep DEF TypeInv

\* Every request has in hand what its step uses: the invariant that the type
\* correctness of the handlers rests on.
THEOREM RequestsEquipped == Spec => []TypeInv
<1>1. TypeInv /\ [Next]_vars => TypeInv'
  BY NextTypes, StutterTypes
<1> QED BY InitTypes, <1>1, PTL DEF Spec

\* Every variable of the service keeps its type, and a process that is down
\* handles nothing, for any names, contents, sessions and faults.
THEOREM TypeCorrect == Spec => []TypeOK
<1>1. TypeInv => TypeOK
  BY DEF TypeInv, Typed, MetaOK, Tables, DiskOK, SessionsOK, Equipped, Requests, AckedOK,
     ProcessOK, TypeOK
<1> QED BY <1>1, RequestsEquipped, PTL
=============================================================================
