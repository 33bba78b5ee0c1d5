----------------------------- MODULE StorageState -----------------------------
(***************************************************************************)
(* The state the HTTP handlers share.  libevent runs the handlers one at a *)
(* time on one thread, so at most one request is being handled; but a      *)
(* handler changes the disk and the database in separate steps, any of     *)
(* which may fail, and the process may die between two of them.  What is   *)
(* in memory is then gone, what the steps wrote stays.                     *)
(***************************************************************************)
EXTENDS DataManager

CONSTANTS
  TmpOf,       \* the name with ".uploading" appended
  UploadIds,   \* ids of multipart sessions; one may serve again when free
  ChunkCount,  \* total_chunks of every session
  ShapeOf,     \* the total_size and the chunk_size a content is uploaded with
  Torn         \* a file that was opened for writing and not written out

ASSUME StorageAssumption ==
  /\ DOMAIN TmpOf = Names
  /\ ChunkCount \in Nat \ {0}
  /\ ShapeOf \in [Contents -> [total : Nat \ {0}, chunk : Nat \ {0}]]
  /\ \A c \in Contents :
       ChunkCount = (ShapeOf[c].total + ShapeOf[c].chunk - 1) \div ShapeOf[c].chunk
  /\ Torn \notin Contents \cup {Mixed, None}

VARIABLES
  disk,      \* the files of the storage directory
  sessions,  \* the directories under .multipart_uploads
  req,       \* the request being handled
  acked,     \* what the clients were promised is stored under each name
  up         \* the process runs

vars == <<db, table, connected, disk, sessions, req, acked, up>>

Paths == Names \cup {TmpOf[n] : n \in Names}

Shapes == {ShapeOf[c] : c \in Contents}

\* "broken": the directory exists but meta.json does not, or does not parse, so
\* that LoadSession fails.  The chunk files are there all the same.
Session == [st : {"absent", "broken", "ok"},
            name : Names \cup {None}, shape : Shapes \cup {None},
            chunks : [1 .. ChunkCount -> Contents \cup {Torn, None}]]

NoChunks == [i \in 1 .. ChunkCount |-> None]

NoSession == [st |-> "absent", name |-> None, shape |-> None, chunks |-> NoChunks]

\* A request at step pc: the name, the StorageInfo and the session it has in
\* hand, None where it has none, and the index of a chunk.
Request(pc, n, info, id) ==
  [pc |-> pc, name |-> n, info |-> info, id |-> id, index |-> 0]

Idle == Request("idle", None, None, None)

Init ==
  /\ db = NoRows
  /\ table = NoRows
  /\ connected = TRUE
  /\ disk = [p \in Paths |-> None]
  /\ sessions = [id \in UploadIds |-> NoSession]
  /\ req = Idle
  /\ acked = NoRows
  /\ up = TRUE
-----------------------------------------------------------------------------
\* The service thread takes a request only when it handles no other.
Ready == up /\ req.pc = "idle"

At(pc) == req.pc = pc

Goto(pc) == req' = [req EXCEPT !.pc = pc]

Finish == req' = Idle

FileFault == "file" \in Faults

WriteFile(p, b) == disk' = [disk EXCEPT ![p] = b]

RemoveFile(p) == WriteFile(p, None)

Rename(from, to) == disk' = [disk EXCEPT ![from] = None, ![to] = disk[from]]
=============================================================================
