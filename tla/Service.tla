------------------------------- MODULE Service -------------------------------
(***************************************************************************)
(* The storage service (Service.hpp, Test.cpp): its handlers one request   *)
(* at a time, downloads included, and the death and restart of the process.*)
(***************************************************************************)
EXTENDS MultipartUploadHandler, DeleteHandler

\* GET /download/<name>: the file the row points at is served; all that
\* changes is the cache.
Download(n) ==
  /\ Ready
  /\ \E info \in Info \cup {None} : GetOneByURL(n, info)
  /\ UNCHANGED <<disk, sessions, req, acked, up>>

\* The directories remove_all is at work on.
BeingRemoved ==
  CASE At("complete.remove") -> {req.id}
    [] At("abort.remove") -> Aborted(req.id)
    [] At("upload.cleanup") -> SessionsOf(req.name)
    [] OTHER -> {}

\* The session that has only some of its files left.
Partial(s, was, kept) ==
  [s EXCEPT !.st = was,
            !.chunks = [i \in 1 .. ChunkCount |-> IF i \in kept THEN s.chunks[i] ELSE None]]

\* What an interrupted remove_all may leave of a session.
Remains(s) ==
  {NoSession} \cup
  {Partial(s, was, kept) : was \in {s.st, "broken"}, kept \in SUBSET (1 .. ChunkCount)}

Crash ==
  /\ "crash" \in Faults
  /\ up
  /\ up' = FALSE
  /\ table' = NoRows
  /\ connected' = FALSE
  /\ req' = Idle
  /\ \/ UNCHANGED sessions
     \/ \E id \in BeingRemoved : \E s \in Remains(sessions[id]) :
          sessions' = [sessions EXCEPT ![id] = s]
  /\ UNCHANGED <<db, disk, acked>>

Restart ==
  /\ ~up
  /\ up' = TRUE
  /\ Construct
  /\ UNCHANGED <<disk, sessions, req, acked>>

Next ==
  \/ Upload
  \/ Multipart
  \/ DeleteFlow
  \/ \E n \in Names : Download(n)
  \/ Crash
  \/ Restart

Spec == Init /\ [][Next]_vars
-----------------------------------------------------------------------------
PCs == {"idle", "upload.write", "upload.rename", "upload.insert", "upload.rollback",
        "upload.reply", "upload.cleanup", "delete.row", "delete.file",
        "delete.restore", "session.save", "chunk.write", "complete.unlink",
        "complete.stage", "complete.rename", "complete.insert",
        "complete.rollback", "complete.remove", "abort.remove"}

\* Every variable has its type; a process that is down handles nothing.
TypeOK ==
  /\ db \in [Names -> Info \cup {None}]
  /\ table \in [Names -> Info \cup {None}]
  /\ connected \in BOOLEAN
  /\ disk \in [Paths -> Bodies \cup {Torn, None}]
  /\ sessions \in [UploadIds -> Session]
  /\ req \in [pc : PCs, name : Names \cup {None}, info : Info \cup {None},
              id : UploadIds \cup {None}, index : 0 .. ChunkCount]
  /\ acked \in [Names -> Bodies \cup {None}]
  /\ up \in BOOLEAN
  /\ ~up => req = Idle

\* What a client was told is stored is stored: its row and its file are there,
\* through every later request, failure and crash, until a delete succeeds.
DurableUploads ==
  \A n \in Names : acked[n] # None =>
    /\ db[n] = NewStorageInfo(n, acked[n])
    /\ disk[n] = acked[n]

\* A row points at the file it describes: nothing is listed or served that is
\* missing, torn or another version than its metadata says.
RowMatchesFile ==
  \A n \in Names : db[n] # None => db[n].path = n /\ disk[n] = db[n].body

\* While the process runs the cache and the table agree, so that a lookup that
\* stops at the cache answers as MySQL would.
CacheCoherent == up => table = db

\* The cache may miss rows, when the table could not be loaded, but never holds
\* a row that the table does not.
CacheSound == \A n \in Names : table[n] # None => table[n] = db[n]

\* A client's file name never leads to a file still being written.
NoTornFile == \A n \in Names : disk[n] # Torn

\* No two sessions that load are of one name and shape: the chunks of an upload
\* that was interrupted are never split between them.
OneSessionPerUpload ==
  \A i, j \in UploadIds :
    /\ Loadable(i) /\ Loadable(j)
    /\ sessions[i].name = sessions[j].name
    /\ sessions[i].shape = sessions[j].shape
    => i = j

\* A session that loads loses none of its chunks, not to a completion that fails
\* and not to a crash while sessions are removed, before its file is in the table
\* or a client aborts.
ChunksKeptUntilStored ==
  [][\A id \in UploadIds :
       Loadable(id) /\ ~(UploadedChunks(id) \subseteq UploadedChunks(id)') =>
         db[sessions[id].name] # None \/ req.pc = "abort.remove"]_vars

\* An upload never overwrites a file whose upload was confirmed: such a file
\* is touched by a delete alone, after the promise is withdrawn.
NoOverwrite == [][\A n \in Names : acked[n] # None => disk'[n] = disk[n]]_vars

\* /delete/<filename> removes the file of that name and no other.
DeletesNamedFile ==
  [][At("delete.file") => \A n \in Names \ {req.name} : disk'[n] = disk[n]]_vars

\* What the names hold for whoever goes through the metadata.
Held == [n \in Names |-> IF db[n] = None THEN None ELSE disk[db[n].path]]

\* Each name holds nothing or one whole body, which replaces nothing and stays
\* until it is removed.
Store == INSTANCE FileStore WITH store <- Held

ImplementsStore == Store!StoreSpec
=============================================================================
