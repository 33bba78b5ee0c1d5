---------------------------- MODULE ServiceProofs ----------------------------
(***************************************************************************)
(* What the storage service keeps, for any names, contents and sessions,   *)
(* whatever files fail to open, statements are refused or connections are  *)
(* lost before a statement is applied, and wherever the process dies:      *)
(* promised files stay, rows match files, the cache matches the table, and *)
(* the names are a FileStore.  It is assumed that no two names are one to  *)
(* MySQL and none is another's temporary file (NamesApart), that a         *)
(* statement that was applied is reported as applied, and that the table   *)
(* can be loaded at startup (TrustedFaults).  The runs ServiceFoldedNames, *)
(* ServiceLostReply and ServiceStartupFault show what goes wrong without   *)
(* them; an upload of f removes a file stored as f.uploading.              *)
(***************************************************************************)
EXTENDS ServiceTypeProofs

NamesApart ==
  /\ \A m, n \in Names : KeyOf[m] = KeyOf[n] => m = n
  /\ \A n \in Names : TmpOf[n] \notin Names

TrustedFaults == Faults \cap {"startup", "lostReply"} = {}
-----------------------------------------------------------------------------
\* The database as the handlers see it under these assumptions.

\* A lookup answers what the table holds and changes nothing.
LEMMA LookupAnswers ==
  ASSUME NamesApart, MetaOK, table = db, NEW n \in Names, NEW info, GetOneByURL(n, info)
  PROVE  db' = db /\ table' = table /\ info = db[n]
<1>1. table[n] = None => Rows(n) = {}
  BY DEF NamesApart, Rows
<1>2. CASE table[n] = None
  BY <1>1, <1>2 DEF GetOneByURL, Selected
<1>3. CASE table[n] # None
  BY <1>3 DEF GetOneByURL
<1> QED BY <1>2, <1>3

\* A statement is applied when it is reported to be.
LEMMA AppliedWhenOk ==
  ASSUME TrustedFaults, NEW out \in Outcomes PROVE Applied(out) <=> out = "ok"
<1>1. out # "lostReply"
  BY DEF TrustedFaults, Outcomes
<1> QED BY <1>1 DEF Applied

\* An insert stores its row or nothing, in the table and in the cache alike.
LEMMA InsertStores ==
  ASSUME NamesApart, TrustedFaults, MetaOK, table = db, NEW info \in Info, NEW out,
         Insert(info, out)
  PROVE  /\ table' = db'
         /\ db' = IF out = "ok" THEN [db EXCEPT ![info.url] = info] ELSE db
<1>1. info.url \in Names /\ [info EXCEPT !.url = info.url] = info
  BY DEF Info
<1>2. Rows(info.url) \subseteq {info.url}
  BY <1>1 DEF Rows, NamesApart
<1>3. Upserted(info) = [db EXCEPT ![info.url] = info]
  BY <1>1, <1>2 DEF Upserted, MetaOK, Tables
<1> QED BY <1>3, AppliedWhenOk DEF Insert

\* A delete removes its row or nothing, from both.
LEMMA DeleteRemoves ==
  ASSUME NamesApart, TrustedFaults, MetaOK, table = db, NEW n \in Names, NEW out,
         Delete(n, out)
  PROVE  /\ table' = db'
         /\ db' = IF out = "ok" THEN [db EXCEPT ![n] = None] ELSE db
<1>1. Rows(n) = IF db[n] = None THEN {} ELSE {n}
  BY DEF Rows, NamesApart
<1>2. Removed(n) = [db EXCEPT ![n] = None]
  BY <1>1 DEF Removed, MetaOK, Tables
<1> QED BY <1>2, AppliedWhenOk DEF Delete
-----------------------------------------------------------------------------
\* The invariant.  A request that has looked a name up keeps what it found out:
\* the name stays without a row until the request inserts it, the body it has
\* written stays where it wrote it, and so on to its last step.

RowsOK ==
  \A n \in Names : db[n] # None =>
    db[n].url = n /\ db[n].path = n /\ disk[n] = db[n].body

PromisesOK == \A n \in Names : acked[n] # None => db[n] # None /\ db[n].body = acked[n]

UnstoredPCs == {"upload.write", "upload.rename", "upload.insert", "upload.rollback",
                "complete.unlink", "complete.stage", "complete.rename", "complete.insert",
                "complete.rollback", "delete.file", "delete.restore"}

StagedPCs == {"upload.rename", "complete.rename"}

PlacedPCs == {"upload.insert", "complete.insert", "delete.file", "delete.restore"}

StoredPCs == {"upload.reply", "complete.remove", "delete.row"}

RequestOK ==
  /\ req.pc \in UnstoredPCs =>
       db[req.name] = None /\ req.info.url = req.name /\ req.info.path = req.name
  /\ req.pc \in StagedPCs => disk[TmpOf[req.name]] = req.info.body
  /\ req.pc \in PlacedPCs => disk[req.name] = req.info.body
  /\ req.pc \in StoredPCs => db[req.name] = req.info

SafeInv == RowsOK /\ PromisesOK /\ CacheCoherent /\ NoTornFile /\ RequestOK

\* A step that leaves the rows alone may touch the files that have none.
LEMMA FilesStep ==
  ASSUME RowsOK, PromisesOK, NoTornFile, UNCHANGED <<db, acked>>,
         \A n \in Names : disk'[n] = disk[n] \/ (db[n] = None /\ disk'[n] # Torn)
  PROVE  RowsOK' /\ PromisesOK' /\ NoTornFile'
  BY DEF RowsOK, PromisesOK, NoTornFile

\* A row that comes in finds its file, and promises nothing yet.
LEMMA RowStored ==
  ASSUME TypeInv, RowsOK, PromisesOK, NEW info \in Info, db[info.url] = None,
         info.path = info.url, disk[info.url] = info.body,
         db' = [db EXCEPT ![info.url] = info], UNCHANGED disk,
         \/ UNCHANGED acked
         \/ acked' = [acked EXCEPT ![info.url] = info.body]
  PROVE  RowsOK' /\ PromisesOK'
<1>1. info.url \in Names /\ info # None
  BY MetadataAssumption DEF Info
<1>2. \A n \in Names : db'[n] = IF n = info.url THEN info ELSE db[n]
  BY DEF TypeInv, Typed, MetaOK, Tables
<1>3. RowsOK'
  BY <1>1, <1>2 DEF RowsOK
<1>4. acked \in [Names -> Bodies \cup {None}]
  BY DEF TypeInv, Typed, AckedOK
<1>5. PromisesOK'
  BY <1>1, <1>2, <1>4 DEF PromisesOK
<1> QED BY <1>3, <1>5

\* A body is not a file that was left unwritten, and no temporary file is one
\* that a client may name.
LEMMA BodyFacts == \A b \in Bodies : b # Torn /\ b # None
  BY MetadataAssumption, StorageAssumption DEF Bodies

\* Between requests, and at the steps that only concern sessions, nothing is held.
FreePCs == {"idle", "session.save", "chunk.write", "abort.remove", "upload.cleanup"}

LEMMA FreeRequest == req'.pc \in FreePCs => RequestOK'
  BY DEF FreePCs, RequestOK, UnstoredPCs, StagedPCs, PlacedPCs, StoredPCs
-----------------------------------------------------------------------------
\* The next step of the same request.
LEMMA GotoKeeps ==
  ASSUME TypeInv, NEW pc, Goto(pc)
  PROVE  req'.pc = pc /\ req'.name = req.name /\ req'.info = req.info
  BY DEF TypeInv, Typed, Equipped, Requests, Goto

LEMMA FinishFrees == Finish => req'.pc \in FreePCs
  BY IdleEquipped DEF Finish, FreePCs

\* What a request that has a file in hand knows of it, and that it runs.
LEMMA FileInHand ==
  ASSUME TypeInv, CacheCoherent, req.pc \in FilePCs
  PROVE  /\ req.name \in Names /\ req.info \in Info /\ req.info.body \in Bodies
         /\ req.info.body # Torn /\ req.info.body # None /\ req.info # None
         /\ TmpOf[req.name] \in Paths /\ req.name \in Paths
         /\ up = TRUE \/ req.pc = "idle"
         /\ req.pc # "idle"
<1>1. req.pc # "idle"
  BY DEF FilePCs
<1>2. req.name \in Names /\ req.info \in Info /\ req.info.body \in Bodies
  BY DEF TypeInv, Typed, Equipped, Info
<1> QED BY <1>1, <1>2, BodyFacts, PathsFacts, Running, MetadataAssumption DEF TypeInv, Typed

\* The temporary file may be anything: clients cannot name it.
LEMMA TmpStep ==
  ASSUME NamesApart, TypeInv, NEW n \in Names, NEW b, WriteFile(TmpOf[n], b)
  PROVE  disk'[TmpOf[n]] = b /\ \A m \in Names : disk'[m] = disk[m]
  BY PathsFacts DEF NamesApart, TypeInv, Typed, DiskOK, WriteFile

\* Renaming moves the body to the name, which had no row.
LEMMA RenameStep ==
  ASSUME NamesApart, TypeInv, NEW n \in Names, Rename(TmpOf[n], n)
  PROVE  disk'[n] = disk[TmpOf[n]] /\ \A m \in Names \ {n} : disk'[m] = disk[m]
  BY PathsFacts DEF NamesApart, TypeInv, Typed, DiskOK, Rename

LEMMA RemoveStep ==
  ASSUME TypeInv, NEW n \in Names, RemoveFile(n)
  PROVE  disk'[n] = None /\ \A m \in Names \ {n} : disk'[m] = disk[m]
  BY PathsFacts DEF TypeInv, Typed, DiskOK, RemoveFile, WriteFile

\* Steps that leave the database alone keep the cache as it was.
LEMMA CacheStep == CacheCoherent /\ UNCHANGED metaVars /\ UNCHANGED up => CacheCoherent'
  BY DEF CacheCoherent, metaVars

\* Steps that leave the database and the promises alone, and touch no file that
\* has a row.
LEMMA QuietStep ==
  ASSUME SafeInv, UNCHANGED <<db, table, connected, acked, up>>,
         \A n \in Names : disk'[n] = disk[n] \/ (db[n] = None /\ disk'[n] # Torn),
         RequestOK'
  PROVE  SafeInv'
<1>1. CacheCoherent'
  BY DEF SafeInv, CacheCoherent
<1> QED BY <1>1, FilesStep DEF SafeInv

\* A request that gives up removes the file it has put in place, or leaves it.
LEMMA RollbackStep ==
  ASSUME TypeInv, SafeInv, req.pc \in {"upload.rollback", "complete.rollback"},
         RemoveFile(req.name) \/ UNCHANGED disk, Finish,
         UNCHANGED <<db, table, connected, acked, up>>
  PROVE  SafeInv'
<1>1. req.pc \in FilePCs /\ req.pc \in UnstoredPCs
  BY DEF FilePCs, PCs, UnstoredPCs
<1>2. req.name \in Names /\ db[req.name] = None
  BY <1>1, FileInHand DEF SafeInv, RequestOK
<1>3. RequestOK'
  BY FinishFrees, FreeRequest
<1> QED BY <1>2, <1>3, RemoveStep, QuietStep, StorageAssumption

\* A file staged under its temporary name, or given up.
LEMMA StageStep ==
  ASSUME NamesApart, TypeInv, SafeInv,
         NEW b, NEW from \in UnstoredPCs \cap FilePCs, NEW to \in StagedPCs,
         req.pc = from,
         \/ WriteFile(TmpOf[req.name], req.info.body) /\ Goto(to)
         \/ WriteFile(TmpOf[req.name], b) /\ Finish
         \/ UNCHANGED disk /\ Finish,
         UNCHANGED <<db, table, connected, acked, up>>
  PROVE  SafeInv'
<1>1. /\ req.name \in Names /\ db[req.name] = None
      /\ req.info.url = req.name /\ req.info.path = req.name
  BY FileInHand DEF SafeInv, RequestOK
<1>2. CASE Finish
  <2>1. RequestOK'
    BY <1>2, FinishFrees, FreeRequest
  <2> QED BY <1>1, <2>1, <1>2, TmpStep, QuietStep, GotoKeeps
<1>3. CASE WriteFile(TmpOf[req.name], req.info.body) /\ Goto(to)
  <2>1. /\ \A n \in Names : disk'[n] = disk[n]
        /\ disk'[TmpOf[req.name]] = req.info.body
    BY <1>1, <1>3, TmpStep
  <2>2. req'.pc = to /\ req'.name = req.name /\ req'.info = req.info
    BY <1>3, GotoKeeps
  <2>3. to \in UnstoredPCs /\ to \notin PlacedPCs /\ to \notin StoredPCs
    BY DEF StagedPCs, UnstoredPCs, PlacedPCs, StoredPCs
  <2>4. RequestOK'
    BY <1>1, <2>1, <2>2, <2>3 DEF RequestOK
  <2> QED BY <2>1, <2>4, QuietStep
<1> QED BY <1>2, <1>3

\* The file moves to its name, or is given up.
LEMMA PlaceStep ==
  ASSUME NamesApart, TypeInv, SafeInv,
         req.pc \in StagedPCs, NEW to \in {"upload.insert", "complete.insert"},
         \/ Rename(TmpOf[req.name], req.name) /\ Goto(to)
         \/ RemoveFile(TmpOf[req.name]) /\ Finish,
         UNCHANGED <<db, table, connected, acked, up>>
  PROVE  SafeInv'
<1>1. req.pc \in FilePCs /\ req.pc \in UnstoredPCs
  BY DEF StagedPCs, FilePCs, PCs, UnstoredPCs
<1>2. /\ req.name \in Names /\ db[req.name] = None /\ req.info.body # Torn
      /\ req.info.url = req.name /\ req.info.path = req.name
      /\ disk[TmpOf[req.name]] = req.info.body
  BY <1>1, FileInHand DEF SafeInv, RequestOK
<1>3. CASE RemoveFile(TmpOf[req.name]) /\ Finish
  <2>1. RequestOK'
    BY <1>3, FinishFrees, FreeRequest
  <2>2. \A n \in Names : disk'[n] = disk[n]
    BY <1>2, <1>3, TmpStep DEF RemoveFile
  <2> QED BY <2>1, <2>2, QuietStep
<1>4. CASE Rename(TmpOf[req.name], req.name) /\ Goto(to)
  <2>1. /\ disk'[req.name] = req.info.body
        /\ \A n \in Names \ {req.name} : disk'[n] = disk[n]
    BY <1>2, <1>4, RenameStep
  <2>2. req'.pc = to /\ req'.name = req.name /\ req'.info = req.info
    BY <1>4, GotoKeeps
  <2>3. to \notin StagedPCs /\ to \notin StoredPCs
    BY DEF StagedPCs, StoredPCs
  <2>4. RequestOK'
    BY <1>2, <2>1, <2>2, <2>3 DEF RequestOK
  <2> QED BY <1>2, <2>1, <2>4, QuietStep
<1> QED BY <1>3, <1>4

\* The client is told that the body is stored, which it is.
LEMMA PromiseStep ==
  ASSUME TypeInv, SafeInv, req.pc \in {"upload.reply", "complete.remove"},
         acked' = [acked EXCEPT ![req.name] = req.info.body],
         UNCHANGED <<db, table, connected, disk, up>>, req'.pc \in FreePCs
  PROVE  SafeInv'
<1>1. req.pc \in FilePCs /\ req.pc \in StoredPCs
  BY DEF FilePCs, PCs, StoredPCs
<1>2. req.name \in Names /\ db[req.name] = req.info /\ req.info # None
  BY <1>1, FileInHand DEF SafeInv, RequestOK
<1>3. \A n \in Names : acked'[n] = IF n = req.name THEN req.info.body ELSE acked[n]
  BY <1>2 DEF TypeInv, Typed, AckedOK
<1>4. PromisesOK'
  BY <1>2, <1>3 DEF SafeInv, PromisesOK
<1>5. RowsOK' /\ NoTornFile' /\ CacheCoherent'
  BY DEF SafeInv, RowsOK, NoTornFile, CacheCoherent
<1> QED BY <1>4, <1>5, FreeRequest DEF SafeInv

\* An upload or a completion stores its row once the file is in place.
LEMMA InsertStep ==
  ASSUME NamesApart, TrustedFaults, TypeInv, SafeInv,
         req.pc \in {"upload.insert", "complete.insert"},
         NEW out, Insert(req.info, out), UNCHANGED <<disk, acked, up>>,
         NEW stored \in StoredPCs, NEW failed \in {"upload.rollback", "complete.rollback"},
         Goto(IF out = "ok" THEN stored ELSE failed)
  PROVE  SafeInv'
<1> USE DEF SafeInv
<1>1. req.pc \in FilePCs /\ req.pc \in UnstoredPCs /\ req.pc \in PlacedPCs
  BY DEF FilePCs, PCs, UnstoredPCs, PlacedPCs
<1>2. /\ req.name \in Names /\ req.info \in Info /\ req.info # None /\ up = TRUE
      /\ db[req.name] = None /\ req.info.url = req.name /\ req.info.path = req.name
      /\ disk[req.name] = req.info.body
  BY <1>1, FileInHand DEF RequestOK
<1>3. /\ table' = db'
      /\ db' = IF out = "ok" THEN [db EXCEPT ![req.info.url] = req.info] ELSE db
  BY <1>2, InsertStores DEF TypeInv, Typed, CacheCoherent
<1>4. CacheCoherent' /\ NoTornFile'
  BY <1>3 DEF CacheCoherent, NoTornFile
<1>5. req'.name = req.name /\ req'.info = req.info
      /\ req'.pc = IF out = "ok" THEN stored ELSE failed
  BY GotoKeeps
<1>6. CASE out = "ok"
  <2>1. RowsOK' /\ PromisesOK'
    BY <1>2, <1>3, <1>6, RowStored
  <2>2. db'[req.name] = req.info
    BY <1>2, <1>3, <1>6 DEF TypeInv, Typed, MetaOK, Tables
  <2>3. RequestOK'
    BY <1>5, <1>6, <2>2 DEF RequestOK, UnstoredPCs, StagedPCs, PlacedPCs, StoredPCs
  <2> QED BY <1>4, <2>1, <2>3
<1>7. CASE out # "ok"
  <2>1. RowsOK' /\ PromisesOK'
    BY <1>3, <1>7, FilesStep
  <2>2. RequestOK'
    BY <1>2, <1>3, <1>5, <1>7 DEF RequestOK, StagedPCs, PlacedPCs, StoredPCs
  <2> QED BY <1>4, <2>1, <2>2
<1> QED BY <1>6, <1>7

\* Every step of an ordinary upload keeps the invariant.
LEMMA UploadSafe ==
  ASSUME NamesApart, TrustedFaults, TypeInv, SafeInv, Upload PROVE SafeInv'
<1> USE DEF SafeInv
<1>1. ASSUME NEW n \in Names, NEW c \in Contents, UploadBegin(n, c) PROVE SafeInv'
  <2>1. PICK info \in Info \cup {None} :
          /\ GetOneByURL(n, info)
          /\ \/ UNCHANGED <<disk, req>>
             \/ info = None /\ UNCHANGED req /\ WriteFile(TmpOf[n], None)
             \/ /\ info = None /\ WriteFile(TmpOf[n], Torn)
                /\ req' = Request("upload.write", n, NewStorageInfo(n, c), None)
    BY <1>1 DEF UploadBegin, RemoveFile
  <2>2. db' = db /\ table' = table /\ info = db[n]
    BY <1>1, <2>1, LookupAnswers DEF UploadBegin, Ready, CacheCoherent, TypeInv, Typed
  <2>3. CacheCoherent'
    BY <1>1, <2>2 DEF UploadBegin, CacheCoherent
  <2>4. RowsOK' /\ PromisesOK' /\ NoTornFile'
    BY <1>1, <2>1, <2>2, TmpStep, FilesStep DEF UploadBegin
  <2>5. CASE UNCHANGED req
    BY <1>1, <2>3, <2>4, <2>5, FreeRequest DEF UploadBegin, Ready, FreePCs
  <2>6. CASE info = None /\ req' = Request("upload.write", n, NewStorageInfo(n, c), None)
    <3>1. RequestOK'
      BY <2>2, <2>6, InfoType DEF Request, RequestOK, Bodies, StagedPCs, PlacedPCs, StoredPCs
    <3> QED BY <2>3, <2>4, <3>1
  <2> QED BY <2>1, <2>5, <2>6
<1>2. ASSUME UploadWrite PROVE SafeInv'
  <2>1. "upload.write" \in UnstoredPCs \cap FilePCs /\ "upload.rename" \in StagedPCs
    BY DEF UnstoredPCs, FilePCs, PCs, StagedPCs
  <2> QED BY <1>2, <2>1, StageStep DEF UploadWrite, At, RemoveFile, metaVars
<1>3. ASSUME UploadRename PROVE SafeInv'
  BY <1>3, PlaceStep DEF UploadRename, At, StagedPCs, metaVars
<1>4. ASSUME UploadInsert PROVE SafeInv'
  <2>1. ASSUME NEW out, Insert(req.info, out),
               Goto(IF out = "ok" THEN "upload.reply" ELSE "upload.rollback")
        PROVE  SafeInv'
    <3>1. "upload.reply" \in StoredPCs
      BY DEF StoredPCs
    <3> QED BY <1>4, <2>1, <3>1, InsertStep DEF UploadInsert, At
  <2>2. ASSUME Goto("upload.rollback"), UNCHANGED metaVars PROVE SafeInv'
    <3>1. RequestOK'
      BY <1>4, <2>2, GotoKeeps DEF UploadInsert, At, metaVars, RequestOK, UnstoredPCs,
         StagedPCs, PlacedPCs, StoredPCs
    <3> QED BY <1>4, <2>2, <3>1, QuietStep DEF UploadInsert, metaVars
  <2> QED BY <1>4, <2>1, <2>2 DEF UploadInsert
<1>5. ASSUME UploadRollback PROVE SafeInv'
  BY <1>5, RollbackStep DEF UploadRollback, At, metaVars
<1>6. ASSUME UploadReply PROVE SafeInv'
  BY <1>6, PromiseStep, GotoKeeps DEF UploadReply, At, metaVars, FreePCs
<1>7. ASSUME UploadCleanup PROVE SafeInv'
  <2>1. RequestOK'
    BY <1>7, FinishFrees, FreeRequest DEF UploadCleanup, At, FreePCs
  <2> QED BY <1>7, <2>1, QuietStep DEF UploadCleanup, metaVars
<1> QED BY <1>1, <1>2, <1>3, <1>4, <1>5, <1>6, <1>7 DEF Upload

\* Every step of a delete keeps the invariant.
LEMMA DeleteSafe ==
  ASSUME NamesApart, TrustedFaults, TypeInv, SafeInv, DeleteFlow PROVE SafeInv'
<1> USE DEF SafeInv
<1>1. ASSUME NEW n \in Names, DeleteBegin(n) PROVE SafeInv'
  <2>1. PICK info \in Info \cup {None} :
          /\ GetOneByURL(n, info)
          /\ req' = IF info = None THEN req ELSE Request("delete.row", n, info, None)
    BY <1>1 DEF DeleteBegin
  <2>2. db' = db /\ table' = table /\ info = db[n]
    BY <1>1, <2>1, LookupAnswers DEF DeleteBegin, Ready, CacheCoherent, TypeInv, Typed
  <2>3. CacheCoherent' /\ RowsOK' /\ PromisesOK' /\ NoTornFile'
    BY <1>1, <2>2 DEF DeleteBegin, CacheCoherent, RowsOK, PromisesOK, NoTornFile
  <2>4. CASE info = None
    BY <1>1, <2>1, <2>3, <2>4, FreeRequest DEF DeleteBegin, Ready, FreePCs
  <2>5. CASE info # None
    <3>1. RequestOK'
      BY <2>1, <2>2, <2>5 DEF Request, RequestOK, UnstoredPCs, StagedPCs, PlacedPCs
    <3> QED BY <2>3, <3>1
  <2> QED BY <2>4, <2>5
<1>2. ASSUME DeleteRow PROVE SafeInv'
  <2>1. req.pc = "delete.row" /\ req.pc \in FilePCs /\ req.pc \in StoredPCs
    BY <1>2 DEF DeleteRow, At, FilePCs, PCs, StoredPCs
  <2>2. PICK out \in Outcomes :
          /\ Delete(req.name, out)
          /\ IF out = "ok"
             THEN acked' = [acked EXCEPT ![req.name] = None] /\ Goto("delete.file")
             ELSE UNCHANGED acked /\ Finish
    BY <1>2 DEF DeleteRow
  <2>3. req.name \in Names /\ db[req.name] = req.info /\ req.info # None /\ up = TRUE
    BY <2>1, FileInHand DEF RequestOK
  <2>4. /\ table' = db'
        /\ db' = IF out = "ok" THEN [db EXCEPT ![req.name] = None] ELSE db
    BY <2>2, <2>3, DeleteRemoves DEF TypeInv, Typed, CacheCoherent
  <2>5. CacheCoherent' /\ NoTornFile'
    BY <1>2, <2>4 DEF CacheCoherent, NoTornFile, DeleteRow
  <2>6. CASE out = "ok"
    <3>1. \A n \in Names : /\ db'[n] = IF n = req.name THEN None ELSE db[n]
                           /\ acked'[n] = IF n = req.name THEN None ELSE acked[n]
      BY <2>2, <2>3, <2>4, <2>6 DEF TypeInv, Typed, MetaOK, Tables, AckedOK
    <3>2. RowsOK' /\ PromisesOK'
      BY <1>2, <3>1 DEF RowsOK, PromisesOK, DeleteRow
    <3>3. req'.pc = "delete.file" /\ req'.name = req.name /\ req'.info = req.info
      BY <2>2, <2>6, GotoKeeps
    <3>4. /\ req.info.url = req.name /\ req.info.path = req.name
          /\ disk'[req.name] = req.info.body
      BY <1>2, <2>3 DEF RowsOK, DeleteRow
    <3>5. RequestOK'
      BY <2>3, <3>1, <3>3, <3>4 DEF RequestOK, StagedPCs, StoredPCs
    <3> QED BY <2>5, <3>2, <3>5
  <2>7. CASE out # "ok"
    <3>1. RowsOK' /\ PromisesOK'
      BY <1>2, <2>2, <2>4, <2>7, FilesStep DEF DeleteRow
    <3>2. RequestOK'
      BY <2>2, <2>7, FinishFrees, FreeRequest
    <3> QED BY <2>5, <3>1, <3>2
  <2> QED BY <2>6, <2>7
<1>3. ASSUME DeleteFile PROVE SafeInv'
  <2>1. /\ req.pc = "delete.file" /\ req.pc \in FilePCs /\ req.pc \in UnstoredPCs
        /\ req.pc \in PlacedPCs
    BY <1>3 DEF DeleteFile, At, FilePCs, PCs, UnstoredPCs, PlacedPCs
  <2>2. /\ req.name \in Names /\ db[req.name] = None /\ req.info.url = req.name
        /\ req.info.path = req.name /\ disk[req.name] = req.info.body
    BY <2>1, FileInHand DEF RequestOK
  <2>3. CASE RemoveFile(req.info.path) /\ Finish
    <3>1. RequestOK'
      BY <2>3, FinishFrees, FreeRequest
    <3> QED BY <1>3, <2>2, <2>3, <3>1, RemoveStep, QuietStep, StorageAssumption
        DEF DeleteFile, metaVars
  <2>4. CASE Goto("delete.restore") /\ UNCHANGED disk
    <3>1. RequestOK'
      BY <1>3, <2>2, <2>4, GotoKeeps DEF RequestOK, StagedPCs, StoredPCs, DeleteFile, metaVars
    <3> QED BY <1>3, <2>4, <3>1, QuietStep DEF DeleteFile, metaVars
  <2> QED BY <1>3, <2>3, <2>4 DEF DeleteFile
<1>4. ASSUME DeleteRestore PROVE SafeInv'
  <2>1. /\ req.pc \in FilePCs /\ req.pc \in UnstoredPCs /\ req.pc \in PlacedPCs
    BY <1>4 DEF DeleteRestore, At, FilePCs, PCs, UnstoredPCs, PlacedPCs
  <2>2. /\ req.name \in Names /\ req.info \in Info /\ up = TRUE /\ db[req.name] = None
        /\ req.info.url = req.name /\ req.info.path = req.name
        /\ disk[req.name] = req.info.body
    BY <2>1, FileInHand DEF RequestOK
  <2>3. PICK out \in Outcomes :
          /\ Insert(req.info, out)
          /\ acked' = IF out = "ok" THEN [acked EXCEPT ![req.info.url] = req.info.body]
                      ELSE acked
    BY <1>4 DEF DeleteRestore
  <2>4. /\ table' = db'
        /\ db' = IF out = "ok" THEN [db EXCEPT ![req.info.url] = req.info] ELSE db
    BY <2>2, <2>3, InsertStores DEF TypeInv, Typed, CacheCoherent
  <2>5. CacheCoherent' /\ NoTornFile'
    BY <1>4, <2>4 DEF CacheCoherent, NoTornFile, DeleteRestore
  <2>6. RowsOK' /\ PromisesOK'
    <3>1. CASE out = "ok"
      BY <1>4, <2>2, <2>3, <2>4, <3>1, RowStored DEF DeleteRestore
    <3>2. CASE out # "ok"
      BY <1>4, <2>3, <2>4, <3>2, FilesStep DEF DeleteRestore
    <3> QED BY <3>1, <3>2
  <2>7. RequestOK'
    BY <1>4, FinishFrees, FreeRequest DEF DeleteRestore
  <2> QED BY <2>5, <2>6, <2>7
<1> QED BY <1>1, <1>2, <1>3, <1>4 DEF DeleteFlow

\* Every step of a multipart upload keeps the invariant.
LEMMA MultipartSafe ==
  ASSUME NamesApart, TrustedFaults, TypeInv, SafeInv, Multipart PROVE SafeInv'
<1> USE DEF SafeInv
<1>1. ASSUME NEW n \in Names, NEW c \in Contents, InitBegin(n, c) PROVE SafeInv'
  <2>1. PICK info \in Info \cup {None} : GetOneByURL(n, info)
    BY <1>1 DEF InitBegin
  <2>2. db' = db /\ table' = table
    BY <1>1, <2>1, LookupAnswers DEF InitBegin, Ready, CacheCoherent, TypeInv, Typed
  <2>3. CacheCoherent' /\ RowsOK' /\ PromisesOK' /\ NoTornFile'
    BY <1>1, <2>2 DEF InitBegin, CacheCoherent, RowsOK, PromisesOK, NoTornFile
  <2>4. req'.pc \in FreePCs
    BY <1>1 DEF InitBegin, Ready, SaveRequest, Request, FreePCs
  <2> QED BY <2>3, <2>4, FreeRequest
<1>2. ASSUME NEW id \in UploadIds, NEW i \in 1 .. ChunkCount, NEW c \in Contents,
             ChunkBegin(id, i, c)
      PROVE  SafeInv'
  <2>1. req'.pc \in FreePCs
    BY <1>2 DEF ChunkBegin, Ready, ChunkRequest, Request, FreePCs
  <2> QED BY <1>2, <2>1, FreeRequest, QuietStep DEF ChunkBegin, metaVars
<1>3. ASSUME NEW id \in UploadIds, CompleteBegin(id) PROVE SafeInv'
  <2> DEFINE n == sessions[id].name
  <2>1. n \in Names
    BY <1>3 DEF CompleteBegin, Loadable, TypeInv, Typed, SessionsOK
  <2>2. PICK info \in Info \cup {None} :
          /\ GetOneByURL(n, info)
          /\ UNCHANGED req \/ (info = None /\ req' = CompleteRequest(id))
    BY <1>3 DEF CompleteBegin
  <2> HIDE DEF n
  <2>3. db' = db /\ table' = table /\ info = db[n]
    BY <1>3, <2>1, <2>2, LookupAnswers
    DEF CompleteBegin, Ready, CacheCoherent, TypeInv, Typed
  <2>4. CacheCoherent' /\ RowsOK' /\ PromisesOK' /\ NoTornFile'
    BY <1>3, <2>3 DEF CompleteBegin, CacheCoherent, RowsOK, PromisesOK, NoTornFile
  <2>5. CASE UNCHANGED req
    BY <1>3, <2>4, <2>5, FreeRequest DEF CompleteBegin, Ready, FreePCs
  <2>6. CASE info = None /\ req' = CompleteRequest(id)
    <3>1. req' = Request("complete.unlink", n, NewStorageInfo(n, Merged(id)), id)
      BY <2>6 DEF CompleteRequest, n
    <3>2. /\ req'.pc = "complete.unlink" /\ req'.name = n
          /\ req'.info.url = n /\ req'.info.path = n
      BY <3>1 DEF Request, NewStorageInfo
    <3>3. RequestOK'
      BY <2>3, <2>6, <3>2 DEF RequestOK, StagedPCs, PlacedPCs, StoredPCs
    <3> QED BY <2>4, <3>3
  <2> QED BY <2>2, <2>5, <2>6
<1>4. ASSUME NEW id \in UploadIds \cup {None}, AbortBegin(id) PROVE SafeInv'
  <2>1. req'.pc \in FreePCs
    BY <1>4 DEF AbortBegin, Request, FreePCs
  <2> QED BY <1>4, <2>1, FreeRequest, QuietStep DEF AbortBegin, metaVars
<1>5. ASSUME SessionSave \/ ChunkWrite \/ AbortRemove PROVE SafeInv'
  <2>1. req'.pc \in FreePCs
    BY <1>5, FinishFrees
    DEF SessionSave, ChunkWrite, AbortRemove, At, SaveRequest, Request, FreePCs
  <2> QED BY <1>5, <2>1, FreeRequest, QuietStep
      DEF SessionSave, ChunkWrite, AbortRemove, metaVars
<1>6. ASSUME CompleteUnlink PROVE SafeInv'
  <2>1. req.pc \in FilePCs /\ req.pc \in UnstoredPCs
    BY <1>6 DEF CompleteUnlink, At, FilePCs, PCs, UnstoredPCs
  <2>2. /\ req.name \in Names /\ db[req.name] = None
        /\ req.info.url = req.name /\ req.info.path = req.name
    BY <2>1, FileInHand DEF RequestOK
  <2>3. \A n \in Names : disk'[n] = IF n = req.name THEN None ELSE disk[n]
    BY <1>6, <2>2, PathsFacts DEF CompleteUnlink, NamesApart, TypeInv, Typed, DiskOK
  <2>4. RequestOK'
    BY <1>6, <2>2, GotoKeeps
    DEF CompleteUnlink, metaVars, RequestOK, StagedPCs, PlacedPCs, StoredPCs
  <2> QED BY <1>6, <2>2, <2>3, <2>4, QuietStep, StorageAssumption DEF CompleteUnlink, metaVars
<1>7. ASSUME CompleteStage PROVE SafeInv'
  <2>1. "complete.stage" \in UnstoredPCs \cap FilePCs /\ "complete.rename" \in StagedPCs
    BY DEF UnstoredPCs, FilePCs, PCs, StagedPCs
  <2> QED BY <1>7, <2>1, StageStep DEF CompleteStage, At, metaVars
<1>8. ASSUME CompleteRename PROVE SafeInv'
  BY <1>8, PlaceStep DEF CompleteRename, At, StagedPCs, metaVars
<1>9. ASSUME CompleteInsert PROVE SafeInv'
  <2>1. ASSUME NEW out, Insert(req.info, out),
               Goto(IF out = "ok" THEN "complete.remove" ELSE "complete.rollback")
        PROVE  SafeInv'
    <3>1. "complete.remove" \in StoredPCs
      BY DEF StoredPCs
    <3> QED BY <1>9, <2>1, <3>1, InsertStep DEF CompleteInsert, At
  <2>2. ASSUME Goto("complete.rollback"), UNCHANGED metaVars PROVE SafeInv'
    <3>1. RequestOK'
      BY <1>9, <2>2, GotoKeeps DEF CompleteInsert, At, metaVars, RequestOK, UnstoredPCs,
         StagedPCs, PlacedPCs, StoredPCs
    <3> QED BY <1>9, <2>2, <3>1, QuietStep DEF CompleteInsert, metaVars
  <2> QED BY <1>9, <2>1, <2>2 DEF CompleteInsert
<1>10. ASSUME CompleteRollback PROVE SafeInv'
  BY <1>10, RollbackStep DEF CompleteRollback, At, metaVars
<1>11. ASSUME CompleteRemove PROVE SafeInv'
  BY <1>11, PromiseStep, FinishFrees DEF CompleteRemove, At, metaVars
<1> QED
  BY <1>1, <1>2, <1>3, <1>4, <1>5, <1>6, <1>7, <1>8, <1>9, <1>10, <1>11 DEF Multipart

\* So does the rest: a crash leaves the files and the rows, and a restart loads
\* the rows into the cache.
LEMMA OtherSafe ==
  ASSUME NamesApart, TrustedFaults, TypeInv, SafeInv,
         Crash \/ Restart \/ \E n \in Names : Download(n)
  PROVE  SafeInv'
<1> USE DEF SafeInv
<1>1. req'.pc \in FreePCs
  BY IdleEquipped DEF Crash, Restart, Download, Ready, TypeInv, Typed, ProcessOK, FreePCs
<1>2. CacheCoherent'
  <2>1. CASE Crash
    BY <2>1 DEF Crash, CacheCoherent
  <2>2. CASE Restart
    BY <2>2 DEF Restart, Construct, InitLoad, TrustedFaults, CacheCoherent
  <2>3. ASSUME NEW n \in Names, Download(n) PROVE CacheCoherent'
    BY <2>3, LookupAnswers DEF Download, Ready, CacheCoherent, TypeInv, Typed
  <2> QED BY <2>1, <2>2, <2>3
<1>3. UNCHANGED <<db, disk, acked>>
  BY DEF Crash, Restart, Construct, Download, GetOneByURL
<1> QED BY <1>1, <1>2, <1>3, FilesStep, FreeRequest

LEMMA StutterSafe == ASSUME SafeInv, UNCHANGED vars PROVE SafeInv'
  BY DEF vars, SafeInv, RowsOK, PromisesOK, CacheCoherent, NoTornFile, RequestOK

LEMMA InitSafe == Init => SafeInv
<1> SUFFICES ASSUME Init PROVE SafeInv
  OBVIOUS
<1>1. RequestOK
  BY IdleEquipped DEF Init, RequestOK, UnstoredPCs, StagedPCs, PlacedPCs, StoredPCs
<1>2. RowsOK /\ PromisesOK /\ CacheCoherent
  BY DEF Init, NoRows, RowsOK, PromisesOK, CacheCoherent
<1>3. NoTornFile
  BY StorageAssumption, PathsFacts DEF Init, NoTornFile
<1> QED BY <1>1, <1>2, <1>3 DEF SafeInv

LEMMA NextSafe ==
  ASSUME NamesApart, TrustedFaults, TypeInv, SafeInv, Next PROVE SafeInv'
  BY UploadSafe, DeleteSafe, MultipartSafe, OtherSafe DEF Next

\* The inductive invariant: what a request has found out or done holds until its
\* last step.
THEOREM Safety == ASSUME NamesApart, TrustedFaults PROVE Spec => []SafeInv
<1>1. TypeInv /\ SafeInv /\ [Next]_vars => SafeInv'
  BY NextSafe, StutterSafe
<1> QED BY InitSafe, <1>1, RequestsEquipped, PTL DEF Spec
-----------------------------------------------------------------------------
\* What a client was told is stored is stored, row and file, until a delete of
\* it succeeds: through every failure the handlers answer for and every crash.
THEOREM UploadsAreDurable ==
  ASSUME NamesApart, TrustedFaults PROVE Spec => []DurableUploads
<1>1. TypeInv /\ SafeInv => DurableUploads
  <2> SUFFICES ASSUME TypeInv, SafeInv, NEW n \in Names, acked[n] # None
               PROVE  db[n] = NewStorageInfo(n, acked[n]) /\ disk[n] = acked[n]
    BY DEF DurableUploads
  <2>1. /\ db[n] # None /\ db[n].url = n /\ db[n].path = n /\ db[n].body = acked[n]
        /\ disk[n] = acked[n]
    BY DEF SafeInv, RowsOK, PromisesOK
  <2>2. db[n] \in Info
    BY <2>1 DEF TypeInv, Typed, MetaOK, Tables
  <2> QED BY <2>1, <2>2 DEF Info, NewStorageInfo
<1> QED BY <1>1, Safety, RequestsEquipped, PTL

\* A row describes the file it points at: what is listed is there, whole, and is
\* the version the metadata says.
THEOREM RowsMatchFiles ==
  ASSUME NamesApart, TrustedFaults PROVE Spec => []RowMatchesFile
<1>1. SafeInv => RowMatchesFile
  BY DEF SafeInv, RowsOK, RowMatchesFile
<1> QED BY <1>1, Safety, PTL

\* The cache of a running process is the table: a lookup may stop at it.
THEOREM CacheIsTable ==
  ASSUME NamesApart, TrustedFaults PROVE Spec => []CacheCoherent
<1>1. SafeInv => CacheCoherent
  BY DEF SafeInv
<1> QED BY <1>1, Safety, PTL

\* A client's file name never leads to a file still being written.
THEOREM FilesAreWhole ==
  ASSUME NamesApart, TrustedFaults PROVE Spec => []NoTornFile
<1>1. SafeInv => NoTornFile
  BY DEF SafeInv
<1> QED BY <1>1, Safety, PTL
-----------------------------------------------------------------------------
\* What may become of the table in one step: a name without a row gets one, or a
\* row goes while its file stays.
LEMMA TableStep ==
  ASSUME NamesApart, TrustedFaults, TypeInv, SafeInv, Next
  PROVE  \/ UNCHANGED db
         \/ \E n \in Names, info \in Info : db[n] = None /\ db' = [db EXCEPT ![n] = info]
         \/ \E n \in Names :
              db[n] # None /\ db' = [db EXCEPT ![n] = None] /\ UNCHANGED disk
<1> USE DEF SafeInv
<1>1. ASSUME NEW pc \in {"upload.insert", "complete.insert", "delete.restore"},
             req.pc = pc, NEW out, Insert(req.info, out)
      PROVE  \/ UNCHANGED db
             \/ \E n \in Names, info \in Info :
                  db[n] = None /\ db' = [db EXCEPT ![n] = info]
  <2>1. req.pc \in FilePCs /\ req.pc \in UnstoredPCs
    BY <1>1 DEF FilePCs, PCs, UnstoredPCs
  <2>2. /\ req.name \in Names /\ req.info \in Info /\ up = TRUE
        /\ db[req.name] = None /\ req.info.url = req.name
    BY <2>1, FileInHand DEF RequestOK
  <2>3. db' = IF out = "ok" THEN [db EXCEPT ![req.info.url] = req.info] ELSE db
    BY <1>1, <2>2, InsertStores DEF TypeInv, Typed, CacheCoherent
  <2> QED BY <2>2, <2>3
<1>2. ASSUME DeleteRow
      PROVE  \/ UNCHANGED db
             \/ \E n \in Names :
                  db[n] # None /\ db' = [db EXCEPT ![n] = None] /\ UNCHANGED disk
  <2>1. req.pc \in FilePCs /\ req.pc \in StoredPCs
    BY <1>2 DEF DeleteRow, At, FilePCs, PCs, StoredPCs
  <2>2. req.name \in Names /\ db[req.name] # None /\ up = TRUE
    BY <2>1, FileInHand DEF RequestOK
  <2>3. PICK out : Delete(req.name, out)
    BY <1>2 DEF DeleteRow
  <2>4. db' = IF out = "ok" THEN [db EXCEPT ![req.name] = None] ELSE db
    BY <2>2, <2>3, DeleteRemoves DEF TypeInv, Typed, CacheCoherent
  <2> QED BY <1>2, <2>2, <2>4 DEF DeleteRow
<1>3. CASE Upload
  BY <1>1, <1>3 DEF Upload, UploadBegin, UploadWrite, UploadRename, UploadInsert,
     UploadRollback, UploadReply, UploadCleanup, GetOneByURL, At, metaVars
<1>4. CASE DeleteFlow
  BY <1>1, <1>2, <1>4 DEF DeleteFlow, DeleteBegin, DeleteFile, DeleteRestore, GetOneByURL,
     At, metaVars
<1>5. CASE Multipart
  <2>1. ASSUME NEW n \in Names, NEW c \in Contents, InitBegin(n, c) PROVE UNCHANGED db
    BY <2>1 DEF InitBegin, GetOneByURL
  <2>2. ASSUME NEW id \in UploadIds, NEW i \in 1 .. ChunkCount, NEW c \in Contents,
               ChunkBegin(id, i, c)
        PROVE  UNCHANGED db
    BY <2>2 DEF ChunkBegin, metaVars
  <2>3. CASE \/ \E id \in UploadIds : CompleteBegin(id)
             \/ \E id \in UploadIds \cup {None} : AbortBegin(id)
    BY <2>3 DEF CompleteBegin, AbortBegin, GetOneByURL, metaVars
  <2>4. CASE CompleteInsert
    BY <1>1, <2>4 DEF CompleteInsert, At, metaVars
  <2>5. CASE \/ SessionSave \/ ChunkWrite \/ CompleteUnlink \/ CompleteStage
             \/ CompleteRename \/ CompleteRollback \/ CompleteRemove \/ AbortRemove
    BY <2>5 DEF SessionSave, ChunkWrite, CompleteUnlink, CompleteStage, CompleteRename,
       CompleteRollback, CompleteRemove, AbortRemove, metaVars
  <2> QED BY <1>5, <2>1, <2>2, <2>3, <2>4, <2>5 DEF Multipart
<1>6. CASE Crash \/ Restart \/ \E n \in Names : Download(n)
  BY <1>6 DEF Crash, Restart, Construct, Download, GetOneByURL
<1> QED BY <1>3, <1>4, <1>5, <1>6 DEF Next

\* The file of a name with a row stays as it is.
LEMMA RowsKeepFiles ==
  ASSUME NamesApart, TrustedFaults, TypeInv, SafeInv, SafeInv', [Next]_vars,
         NEW n \in Names, db[n] # None
  PROVE  disk'[n] = disk[n]
<1>1. CASE UNCHANGED vars
  BY <1>1 DEF vars
<1>2. CASE Next
  <2>1. UNCHANGED disk \/ db'[n] = db[n]
    BY <1>2, TableStep DEF TypeInv, Typed, MetaOK, Tables
  <2>2. CASE db'[n] = db[n]
    BY <2>2 DEF SafeInv, RowsOK
  <2> QED BY <2>1, <2>2
<1> QED BY <1>1, <1>2

\* An upload never overwrites a file whose upload was confirmed.
THEOREM NothingOverwritten == ASSUME NamesApart, TrustedFaults PROVE Spec => NoOverwrite
<1>1. TypeInv /\ SafeInv /\ SafeInv' /\ [Next]_vars
      => [\A n \in Names : acked[n] # None => disk'[n] = disk[n]]_vars
  <2> SUFFICES ASSUME TypeInv, SafeInv, SafeInv', [Next]_vars,
                      NEW n \in Names, acked[n] # None
               PROVE  disk'[n] = disk[n]
    OBVIOUS
  <2>1. db[n] # None
    BY DEF SafeInv, PromisesOK
  <2> QED BY <2>1, RowsKeepFiles
<1> QED BY <1>1, Safety, RequestsEquipped, PTL DEF Spec, NoOverwrite
-----------------------------------------------------------------------------
\* What the rows say a name holds is what it holds.
LEMMA HeldBodies ==
  RowsOK => Held = [n \in Names |-> IF db[n] = None THEN None ELSE db[n].body]
  BY DEF RowsOK, Held

\* A row that comes in publishes its file, a row that goes removes it, and no
\* other step shows.
LEMMA StoreStep ==
  ASSUME TypeInv, RowsOK, RowsOK',
         \/ UNCHANGED db
         \/ \E n \in Names, info \in Info : db[n] = None /\ db' = [db EXCEPT ![n] = info]
         \/ \E n \in Names : db[n] # None /\ db' = [db EXCEPT ![n] = None]
  PROVE  UNCHANGED Held \/ \E n \in Names : Store!Publish(n) \/ Store!Remove(n)
<1> DEFINE B(t) == [n \in Names |-> IF t[n] = None THEN None ELSE t[n].body]
<1>1. Held = B(db) /\ Held' = B(db')
  <2>1. Held = B(db)
    BY HeldBodies
  <2>2. Held' = B(db')
    BY DEF RowsOK, Held
  <2> QED BY <2>1, <2>2
<1>2. db \in Tables
  BY DEF TypeInv, Typed, MetaOK
<1>3. CASE UNCHANGED db
  BY <1>1, <1>3
<1>4. ASSUME NEW n \in Names, NEW info \in Info, db[n] = None,
             db' = [db EXCEPT ![n] = info]
      PROVE  Store!Publish(n)
  <2>1. info.body \in Bodies /\ info # None
    BY MetadataAssumption DEF Info
  <2>2. B(db') = [B(db) EXCEPT ![n] = info.body] /\ B(db)[n] = None
    BY <1>2, <1>4, <2>1 DEF Tables
  <2> QED BY <1>1, <2>1, <2>2 DEF Store!Publish
<1>5. ASSUME NEW n \in Names, db[n] # None, db' = [db EXCEPT ![n] = None]
      PROVE  Store!Remove(n)
  <2>1. db[n].body \in Bodies /\ db[n].body # None
    BY <1>2, <1>5, BodyFacts DEF Tables, Info
  <2>2. B(db') = [B(db) EXCEPT ![n] = None] /\ B(db)[n] # None
    BY <1>2, <1>5, <2>1 DEF Tables
  <2> QED BY <1>1, <2>2 DEF Store!Remove
<1> QED BY <1>3, <1>4, <1>5 DEF Held

\* The service is a FileStore: whatever its handlers, its failures and its
\* crashes do in between, each name holds nothing or one whole body, which
\* never turns into another and goes only when it is removed.
THEOREM ServiceIsStore == ASSUME NamesApart, TrustedFaults PROVE Spec => ImplementsStore
<1>1. Init => Store!StoreInit
  BY DEF Init, NoRows, Held, Store!StoreInit
<1>2. TypeInv /\ SafeInv /\ SafeInv' /\ [Next]_vars
      => [\E n \in Names : Store!Publish(n) \/ Store!Remove(n)]_Held
  <2> SUFFICES ASSUME TypeInv, SafeInv, SafeInv', [Next]_vars
               PROVE  UNCHANGED Held \/ \E n \in Names : Store!Publish(n) \/ Store!Remove(n)
    BY Zenon
  <2>1. CASE UNCHANGED vars
    BY <2>1 DEF vars, Held
  <2>2. CASE Next
    BY <2>2, TableStep, StoreStep DEF SafeInv
  <2> QED BY <2>1, <2>2
<1> QED BY <1>1, <1>2, Safety, RequestsEquipped, PTL DEF Spec, ImplementsStore, Store!StoreSpec
=============================================================================
