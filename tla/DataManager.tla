----------------------------- MODULE DataManager -----------------------------
(***************************************************************************)
(* The metadata of the stored files: the MySQL table file_metadata (db),   *)
(* reached over one connection that is opened at startup and never opened  *)
(* again, and the cache table_ in front of it (DataManager.hpp,            *)
(* MysqlMetadataStore.hpp).  A download URL is the prefix and the file     *)
(* name, so both are keyed by the name.  What a row says of the file (size,*)
(* times, type) is abstracted to the body it was made from.                *)
(***************************************************************************)
EXTENDS Naturals

CONSTANTS
  Names,     \* file names
  Contents,  \* what clients upload
  KeyOf,     \* the collation key of a name: MySQL compares URLs by it
  None,      \* no row, no file, no promise
  Mixed,     \* a body put together from chunks of different contents
  Faults     \* the kinds of failure the environment may cause, see below

FaultKinds ==
  { "refused",    \* MySQL reports an error and applies nothing
    "lost",       \* the connection breaks before the statement is applied
    "lostReply",  \* the statement is applied, then the connection breaks
    "startup",    \* connecting or loading the table fails at startup
    "file",       \* open, write, rename or remove fails
    "crash" }     \* the process dies between two steps

Bodies == Contents \cup {Mixed}

\* StorageInfo
Info == [url : Names, path : Names, body : Bodies]

ASSUME MetadataAssumption ==
  /\ KeyOf \in [Names -> Names]
  /\ Faults \subseteq FaultKinds
  /\ None \notin Bodies \cup Info \cup Names
  /\ Mixed \notin Contents

VARIABLES
  db,         \* the rows of file_metadata
  table,      \* table_
  connected   \* conn_ answers: never again once it broke

metaVars == <<db, table, connected>>

\* Fault: the storage path is never filled in.
InfoWithoutPath(n, b) == [url |-> n, path |-> None, body |-> b]
NewStorageInfo(n, b) == [url |-> n, path |-> n, body |-> b]

NoRows == [n \in Names |-> None]
-----------------------------------------------------------------------------
\* How a statement may end.  Without a connection it ends in an error.
Outcomes ==
  IF connected THEN {"ok"} \cup (Faults \cap {"refused", "lost", "lostReply"})
               ELSE {"refused"}

Applied(out) == out \in {"ok", "lostReply"}

Connection(out) == connected' = (connected /\ out \notin {"lost", "lostReply"})

\* The rows MySQL takes for the URL of n: the primary key compares under the
\* collation of utf8mb4, which ignores case.
Rows(n) == {m \in Names : db[m] # None /\ KeyOf[m] = KeyOf[n]}

\* DataManager::Insert: the upsert, then the cache.  A duplicate key keeps the
\* url of the row it finds.
Upserted(info) ==
  IF Rows(info.url) = {}
  THEN [db EXCEPT ![info.url] = info]
  ELSE [m \in Names |-> IF m \in Rows(info.url) THEN [info EXCEPT !.url = m] ELSE db[m]]

\* Fault: caches the row before the statement succeeded.
InsertCacheFirst(info, out) ==
  /\ out \in Outcomes
  /\ db' = IF Applied(out) THEN Upserted(info) ELSE db
  /\ table' = [table EXCEPT ![info.url] = info]
  /\ Connection(out)
Insert(info, out) ==
  /\ out \in Outcomes
  /\ db' = IF Applied(out) THEN Upserted(info) ELSE db
  /\ table' = IF out = "ok" THEN [table EXCEPT ![info.url] = info] ELSE table
  /\ Connection(out)

\* The table after DELETE for the URL of n.
Removed(n) == [m \in Names |-> IF m \in Rows(n) THEN None ELSE db[m]]

\* DataManager::Delete: the row by MySQL's key, the cache entry by the name.
Delete(n, out) ==
  /\ out \in Outcomes
  /\ db' = IF Applied(out) THEN Removed(n) ELSE db
  /\ table' = IF out = "ok" THEN [table EXCEPT ![n] = None] ELSE table
  /\ Connection(out)

\* What SELECT ... LIMIT 1 may answer: a row MySQL could not be asked for is
\* reported like one that is not there.
Selected(n, out) ==
  IF out = "ok" /\ Rows(n) # {} THEN {db[m] : m \in Rows(n)} ELSE {None}

\* DataManager::GetOneByURL finds info, or None: in the cache, else in MySQL, and
\* caches what it found there under the URL of the row.
GetOneByURL(n, info) ==
  /\ UNCHANGED db
  /\ \/ /\ table[n] # None
        /\ info = table[n]
        /\ UNCHANGED <<table, connected>>
     \/ /\ table[n] = None
        /\ \E out \in Outcomes :
             /\ info \in Selected(n, out)
             /\ table' = IF info = None THEN table ELSE [table EXCEPT ![info.url] = info]
             /\ Connection(out)

\* Connect and EnsureTable
Connect == connected' \in IF "startup" \in Faults THEN BOOLEAN ELSE {TRUE}

\* GetAll fails without a connection, and may fail with one.
InitLoad ==
  table' \in (IF connected' THEN {db} ELSE {}) \cup
             (IF "startup" \in Faults THEN {NoRows} ELSE {})

\* The constructors.
Construct == UNCHANGED db /\ Connect /\ InitLoad
=============================================================================
