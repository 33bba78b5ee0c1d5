# Verification of the asynchronous log system and the storage service

TLA+ models of the two halves of this repository, an asynchronous logger
(`src/log_system`) and an HTTP file storage service (`src/src/server`), the TLC
configurations that check them on small instances, and theorems that TLAPS
proves about them for every value of the constants.

## 1. The system

| Component | State it keeps | Operations | Hard part |
|---|---|---|---|
| `Buffer` (AsyncBuffer.hpp) | bytes, write position | Push, Swap, Reset | sizes at the edge: exact fit, one growth only, `int` truncation, bad_alloc |
| `AsyncWorker` | two buffers, mutex, two condition variables, `stop_` | Push (any thread), ThreadEntry (one), Stop | lost wake-ups, one notification for many waiters, draining at shutdown |
| `AsyncLogger`, `LogMessage` | name, sinks | five levels, serialize, RealFlush | none of their own: they feed the worker |
| `RollFileFlush` (LogFlush.hpp) | open file, its size and day | Flush, roll, retention | batch larger than a file, failing fopen, equal mtimes |
| `ThreadPool`, `LoggerManager` | task queue; map of loggers | enqueue, AddLogger, GetLogger, Shutdown | fewer threads than loggers, check-then-insert, logging during shutdown |
| `DataManager` | the cache `table_` | load, Insert, Delete, GetOneByURL, QueryList | cache against table, errors read as absence |
| `MysqlMetadataStore` | one connection, the table | upsert, delete, select | a statement applied but not acknowledged, no reconnect, collation |
| `UploadHandler` | file on disk, row | POST /upload | file and row in separate steps, rollback |
| `MultipartUploadHandler` | session directories | init, chunk, status, complete, abort | torn files, session reuse, merge, retry |
| `DeleteHandler` | | DELETE /delete/ | row then file, restoring the row |
| `DownloadHandler` | | GET /download/ | read only, but a lookup fills the cache |
| `ListHandler`, `PageRender` | | GET / | rows that move between pages, the query through form and links, names through four encodings |
| `Service`, `Test.cpp` | event loop | dispatch, startup | crash between two steps, restart |
| `index.html` | what the page remembers of an upload (localStorage) | upload, resume, retry, delete | parallel workers, late requests, lost replies, sessions that are gone |

The properties that make each part correct are in section 3.

The two halves meet in one place: every handler logs, so the thread that serves
requests is one of the worker's producers. Handlers share the disk, the session
directories, the table and the cache, and nothing else. libevent runs the
handlers one after the other on one thread; what interleaves is failures, the
death of the process, and the log threads.

One thing was met on the way that no run is about: src/README.md:209-211 lists the
multipart routes as `/multipart/...`, Service.hpp:105-123 serves `/upload/...`.

## 2. Modules

Log side:

* `AsyncBuffer`: the buffer as a record of capacity, write position and the
  messages written; the operators are Buffer's methods. `ToInt` is the
  conversion to `int`, with `IntSpan` in place of 2^32.
* `AsyncWorker` extends it: one variable per member, program counters for the
  producers (`ppc`), the worker (`wpc`) and the thread that destroys the worker
  (`spc`). A critical section is one action. `wait` is two: going to sleep
  (`PushWait`, `WorkerWait`), and being sent back to the mutex by a notification
  (`Woken`, `WakeWorker`) or by nothing (`SpuriousWakeup`); after it the
  predicate is tested again. `WorkerFlush` runs without the lock. `PushThrow` is
  the exception of `resize`.
* `LogChannel`: the abstract specification. A message accepted stays accepted,
  messages are delivered in order and once, the channel closes when nothing is
  left.
* `RollFileFlush`: the log files of one logger. `Flush` is four actions, in the order
  of its effects: deciding to roll, opening, removing old files, writing; the clock
  may tick between any two. Sorting by modification time leaves the order of files of
  one second open, so `Oldest` is every set that may come first. Each file remembers
  its batches and their days, and whether a second process appended to it (`shared`):
  only the properties read these. `unswept` counts the files opened since old ones
  were last removed. When fopen fails InitLogFile returns and Flush goes on to its
  fwrite with `fs_` NULL (LogFlush.hpp:135-140 and :107): `Open` goes to the write without
  a file, and `WriteNull` is that write, which ends the process.
* `ThreadPool`: the task queue, `stop`, and how many threads are on their way to the
  mutex (`locking`), asleep in `wait` (`sleeping`), at work (`running` holds their
  tasks) or gone (`exited`). The threads run one loop, and nothing but the task tells
  one from another, so counting them loses nothing. `Enqueue` is the critical section;
  the notification after it (`NotifyOne`) is a step of its own.
* `LoggerManager` extends it: the registry, the program counter of each thread (`pc`) and
  the one temporary `shared_ptr` it has in hand (`hold`). A logger is a pair of its name
  and the thread that builds it, so that two threads may build one name. `Drop` is the
  end of a temporary: the last owner, which may be a thread that lost the race in
  AddLogger or main inside `loggers_.clear()`, runs Stop and joins the worker. Here a
  worker is what AsyncWorker is shown to be, a channel with a buffer: `Room` messages,
  swapped and written as a batch; its two buffers and condition variables are
  AsyncWorker's matter. `usePool` is chosen in the initial state, so each run covers
  pool workers and threads of their own.
* `LogSystem`: main from first to last (Test.cpp), and the threads it starts. The program
  has one such thread, which only logs; the model lets several also build and register
  loggers, as the library allows.
* `AsyncWorkerProofs`, `RollFileFlushProofs`, `LogSystemProofs`: the theorems of section 5.
  `MCAsyncWorker`, `MCRollFileFlush`, `MCLogSystem`: constants for TLC.

In AsyncWorker Stop has one caller, the destructor, which runs when the last `shared_ptr` to
the logger goes; a thread inside Push holds one. So `StopBegin` waits until no
push is under way and none begins after it.

Storage side:

* `DataManager`: `db` is the table file_metadata, `table` the cache, `connected`
  whether the one connection still answers. A statement ends in one of
  `Outcomes`: ok, refused, lost before it was applied, lost after. `KeyOf` is the
  collation. `Construct` is startup.
* `StorageState`: the disk, the session directories, the request being handled
  (`req`, with its step and what it holds), what clients were promised (`acked`,
  written when a handler replies that a file is stored), whether the process is
  `up`. Opening a file for writing leaves it `Torn`; writing it out is another
  step, so that a crash may come between. A content is uploaded with a total size and a
  chunk size (`ShapeOf`), from which the number of chunks follows.
* `UploadHandler`, `MultipartUploadHandler`, `DeleteHandler`: one action for each
  step of a handler after which the disk, the table or a session has changed.
  A failure of that step is a disjunct of its action (`FileFault`, `Outcomes`).
  A session is found again by name and shape (`ReusableSessions`), but a chunk is admitted
  by its own length alone (`SizeExpected`), so that a chunk of a file of another size may
  pass. `AbortBegin` takes any session id, of a session or not, or none: the handler hands
  its header to remove_all unread, and an empty one names the directory of all sessions,
  which `AbortRemove` removes one at a time.
* `Service` composes them, adds downloads, `Crash` and `Restart`, and states the
  properties. `Remains` is what an interrupted `remove_all` may leave.
* `FileStore`: the abstract specification: a name holds nothing or one whole
  body, a body replaces nothing and stays until it is removed.
* `ServiceTypeProofs`, `ServiceProofs`, `ServiceSessionProofs`: the theorems of section 5.
  `MCService`: constants for TLC.

Client side:

* `MultipartClient` extends Service: the pages of index.html and the requests between
  them and the service. `page` is where the script of each page is, the file selected, the
  session it uses and the one localStorage remembers (`key`), the chunks it counts as
  uploaded, and the failed attempts of each. `Outstanding` are the requests the page waits
  for: one, or those of the parallel workers (`InFlight`). `Receive...` are the first steps
  of the handlers, with the refusals that only a client can provoke; `Handle` is every later
  one, with its reply. `late` holds requests nobody waits for: the page saw an error but
  the server gets the request all the same, or a worker of a failed run goes on
  (`Leftover`); each arrives once or never. A page acts on a reply in the step that
  sends it, since until then nothing but its own error can come in between, which is
  `RequestFails`. Each page is in a browser of its own. Its delete button is in FileList.
* `HttpCodec`: percent encoding, query strings, base64 and HTML escaping over sequences of
  bytes. A decoder that may refuse yields a set of at most one result.
* `FileList` extends it: the list page and its visitor. `rows` is the table, `shown` the page
  on the screen with the query behind it, `wanted` what the visitor has asked for (no code:
  it says what the properties compare), `walk` what was seen turning pages. `Handle` is
  ListHandler and the two statements of QueryList; the form and the links of the page
  are built, sent and decoded again for every action.
* `MultipartClientProofs`, `FileListProofs`: the theorems of section 5.
  `MCMultipartClient`, `MCFileList`: constants for TLC; the latter also assumes, and TLC
  evaluates, that the codecs invert each other, and what the theorems take from them.

What a file contains is one value of `Contents`; `Mixed` is a file put together
from chunks of different contents. Names are model values, the URL of a file is its name; `TmpOf` is the
name with `.uploading` appended, which may be somebody's file name.

Definitions under a comment that begins "Fault:" are the same code with a
plausible mistake. No specification uses them; each property is known to fail
with one of them in place.

Composition, from the bottom up:

    AsyncBuffer <- AsyncWorker <- AsyncWorkerProofs, MCAsyncWorker
                   AsyncWorker implements LogChannel
    RollFileFlush <- RollFileFlushProofs, MCRollFileFlush
    ThreadPool <- LoggerManager <- LogSystem <- LogSystemProofs, MCLogSystem
                   each logger of LogSystem implements LogChannel
    DataManager <- StorageState <- UploadHandler <- MultipartUploadHandler
                   StorageState <- DeleteHandler
    MultipartUploadHandler, DeleteHandler <- Service <- ServiceTypeProofs <- ServiceProofs
                                                        ServiceTypeProofs <- ServiceSessionProofs
                   Service <- MCService
                   Service implements FileStore
    Service <- MultipartClient <- MultipartClientProofs, MCMultipartClient
                   MultipartClient implements Service and FileStore
    HttpCodec <- FileList <- FileListProofs, MCFileList

## 3. Properties

Worker:
* `NoOverrun`: no push copies past the end of the vector.
* `NoSleepOnWork`: the worker never sleeps on a message or through a Stop.
* `NoStrandedProducer`: one notification per swap is enough.
* `StopFlushesAll`, `StopReturns`, `EveryPushReturns`: shutdown drains and ends,
  every push comes back.
* `ImplementsChannel`: nothing lost, repeated or reordered, all delivered.

Log system:
* `NoStrandedTask`: while a pool thread sleeps each queued task has somebody coming for it.
* `FirstLoggerStays`: of two loggers of one name the registry keeps the first.
* `NeverNull`: nobody gets a null logger while threads run.
* `CallsReturn`: building, registering, logging to and dropping a logger comes to an end,
  also when that joins a worker.
* `EndsCleanly`: main gets through Shutdown and the pool's destructor, and every message
  any logger accepted is written by then.
* `ImplementsChannels`: no logger takes a message after its worker has left, or loses one.

Log files:
* `FileSizeBounded`, `OneDayPerFile`: rolling by size and by day, up to a batch longer
  than the limit and a restart within the second, which appends to the same file.
* `CountBounded`: retention makes up for sweeps that failed or that a crash cut off.
* `RemovesOldOnly`: a file goes only when aged, or when enough files no older remain.

Service:
* `DurableUploads`: a confirmed upload has its row and its file through every
  later request, failure, crash and restart, until a delete succeeds.
* `RowMatchesFile`: no row without its whole file.
* `CacheCoherent`: the cache answers as the table would. `CacheSound`, proved only, is what
  is left of it when a startup could not load the table: the cache knows less, never more.
* `NoTornFile`: no client's name leads to a file still being written.
* `ChunksKeptUntilStored`: a session that loads loses no chunk, neither to a completion
  that fails nor to a crash while sessions are removed, until its name has a row or a
  client aborts.
* `NoOverwrite`, `DeletesNamedFile`: what a step may never do to a file.
* `ImplementsStore`: the whole service, seen through the metadata, is the store.

Pages and service:
* `SuccessMeansStored`: a page that reports success is right, and stays right.
* `MixedOnlyAlike`: a file is put together from two versions only when these have one size
  and chunk size; the sessions keep versions of different sizes apart although a chunk of
  one may pass for a chunk of the other.
* `OneSessionPerUpload`: no two sessions that load are of one name and shape, so that the
  chunks of an upload are never split between them. A session whose meta.json is torn does
  not count: a second one appears beside it.
* `OwnChunksOnly`: the session a page uses, or remembers, holds no chunk of another version
  of the file. The code does not keep this one (MultipartSameSize).
* `CompleteFindsChunks`: no chunk is counted as sent that is not there.
* `Converges`: users who try again get the name filled, unless a torn chunk stays.
* `ImplementsStore`: also with pages that retry and requests that come late.

List page:
* `WalkMissesNothing`: turning the pages shows every file that stays.
* `QueryKept`: keyword, sort and size survive the form, the search box and the links.
* `LinksLeadBack`: the links of a row lead to the file of that row.

## 4. Runs

| Run | Question | Bounds |
|---|---|---|
| AsyncWorkerSafe | ASYNC_SAFE, all safety and liveness | 3 producers, one message each, of 1 to 3 bytes, buffer of 3 |
| AsyncWorkerUnsafe | ASYNC_UNSAFE, all growth | 2 producers, 2 messages each, growth tripling below 9 and by 3 above |
| LogSystem | from main's start to its end | 2 threads that log and register one name, 3 names, 4 pool threads, 2 messages, room for 1 |
| RollFileFlush | rolling and retention of one logger's files | 3 seconds, days of 2, batches of 1 and 3 bytes with a limit of 2, 2 files kept, 2 processes of 3 files each |
| ServiceFiles | both kinds of upload, aborts, deletes, downloads | 2 names, 2 contents of two sizes, 1 session of 2 chunks, every failure but startup and lost replies |
| MultipartClient | pages that upload and resume | 2 pages with the same file or two versions of two sizes, 3 sessions of 2 chunks, 2 attempts, 2 workers, 1 fault |
| FileList | a visitor of the list page | 4 names (one unsafe), 4 keywords, 6 sorts, pages of 1 to 3, uploads in 2 seconds |

AsyncWorkerSafe takes a capacity of 4 bytes at most and growth by one, so that
within one run a message that fills the buffer exactly may grow it, may throw out
of Push, and may make others wait. Three producers is the least number with a
producer that is notified, one that keeps waiting and one that takes the room.
Two buffers' worth of traffic is enough for the two buffers to change places and
for the flush of one to overlap the filling of the other.

In ServiceFiles two names give the cross talk there is: through the temporary names, the
table and the cache; a session of one name is completed, aborted or cleaned up while the
other is uploaded or deleted. Two chunks are the least in which an upload is incomplete, a
chunk is replaced, and the first chunks of two versions look alike. Sessions that compete
for one name are MultipartClient's matter: its three sessions leave room for one that no
longer loads and one that was given up. A session id is used again once its directory is
gone; ids are random in the code and no step depends on their being fresh.

In LogSystem two threads and one name are enough for the race in AddLogger, and the four
loggers that are built then (the default one, main's, and two of the contested name) need
the four pool threads; with one thread less `CallsReturn` and `EndsCleanly` fail, since
nothing in the code relates `thread_count` to the loggers. Room for one message makes
a thread wait for the worker.

In MultipartClient a fault is a failing file operation or statement, a crash, or a
request whose page sees an error while the service is up. One is enough to leave a run,
a session or a late request behind for the next run to meet; the retry of a chunk, the
second run and the second page then multiply what may happen. Two attempts and two workers
stand for three and four: what matters is that there is a retry, and that another chunk is
under way meanwhile. The two versions have different sizes, and first chunks of one
length; two versions of one size do mix their chunks, which is the finding
MultipartSameSize. A broken connection to MySQL is left out of this run: it is never
opened again, so that no upload succeeds until a restart, which the code does not bring about.

In FileList the names are chosen so that an encoding left out shows (`%41`, a leading
blank), two files have one size, and one name is not safe; a keyword holds a quote, an
ampersand and a plus and is longer than is read; sizes are below, at and above what
the form offers. Names and keywords hold no dollar sign (`ListAssumption`): regex_replace,
which inserts the list into the page, reads it as a format.

In RollFileFlush three files in a process are one more than are kept, so that the open
file may be among those removed, within one second (all equal), or by age (a second
process finds files more than `MaxAge` old).

CHECK_DEADLOCK stays on everywhere: the worker's and the log system's only end is
`Finished`, that of the log files is `Done`, the others have none.

Five more runs end in a violation, each of something the repository says:

| Run | What the repository says | What the code does |
|---|---|---|
| ServiceStartupFault | the lookup prevents overwriting (UploadHandler.hpp:93) | an error is read as a free name, a stored file is replaced |
| ServiceFoldedNames | DELETE removes the named file (README.md:213) | the collation ignores case, another name's file goes |
| ServiceLostReply | a failed upsert is rolled back (UploadHandler.hpp:111) | applied but unacknowledged, its row stays without a file |
| MultipartSameSize | the page keeps versions apart by their date (index.html:455), uploads are resumable (README.md:26) | the session is found by name and size (MultipartUploadHandler.hpp:228), two versions of one size mix in it |
| MultipartTornChunk | uploads are resumable (README.md:26) | a crash leaves a chunk torn, it is listed as uploaded and never sent again |

The passing runs leave these causes out (`Distinct`, `OwnShape`, no "lostReply", no
"startup", and `TornLeft` in `Converges`), which is how they show that nothing else breaks
the properties. What remains true with failing startups and lost replies is in section 5.

`DurableUploads` is about promises, and a promise is withdrawn with its row. When a delete
cannot remove the file and MySQL refuses to take the row back, the client is told so and
the file stays on disk, out of reach: the property does not speak of it.

The worker's runs and theorems assume messages no longer than an empty buffer. A longer one
waits for ever in ASYNC_SAFE, although README.md:33 says that logging does not block; in
ASYNC_UNSAFE it may be copied past the end, because the buffer grows once (AsyncBuffer.hpp:66,
under the comment that makes it sufficient). Two more edges: in ASYNC_SAFE a message that
fits exactly grows the buffer, which a comment calls fixed (AsyncWorker.hpp:50), and above
2^31 bytes the size wraps in an `int` (AsyncBuffer.hpp:65). The first is harmless to every
property, the second breaks `NoOverrun` and is excluded by an assumption of the theorem.

The service's runs and theorems assume that no name is another's temporary file (`Apart`):
uploading `f` while a file `f.uploading` is stored removes it.

The list page pages by offset: when a file is deleted while a visitor turns pages, later
rows move to a page already seen and are missed. `WalkMissesNothing` therefore ends the walk
at a delete; uploads it survives.

And of the log files: `config.conf` lets a batch be ten times as long as a file; when
more than `max_count_` files are rolled in a second, the open one may be removed and
what is written to it is lost; when a file cannot be opened the batch is written
through NULL, which the model takes for the end of the process (`WriteNull`). No property
holds against that; the run goes through it, so the others hold in spite of it. A delete that crashes
between the row and the file leaves the file, which the next upload of that name
replaces.

### Fairness

A thread that can run is scheduled: weak fairness of each producer's `Push`, of
`Worker`, and of `StopNotify` and `StopJoin`. Taking the mutex is part of these
actions; weak fairness is enough since it is free between any two steps. Nobody is
obliged to log, to stop, or to wake a thread without reason, so `PushCall`,
`StopBegin` and `SpuriousWakeup` have none. Traffic is finite (`MaxMsgs`): under
endless traffic a producer may lose the race for room for ever, and the code does
not claim otherwise. In `LogSystem` one weak fairness condition, on `Progress`,
says that the machine does not stop while some thread inside a call, a worker, a pool thread
with a task, or main can go on; which one goes is left open, and a thread is not obliged to
make calls or to end. `Service` and `FileList` state no fairness: a client may stop at any
point and their properties are all safety. `MultipartClient` does for `Converges`: while the
service or a page can go on one of them does, users click again after an error (the
assumption the property is about), and a service that died is started again. Faults are
finite, late requests need never arrive.

## 5. Proofs

`AsyncWorkerProofs`, for any producers, messages and configuration:

* `TypeCorrect`: `TypeOK` is inductive.
* `NoOverrunCorrect`, under `WithinCapacity` (messages fit an empty buffer,
  growth below half the span of an int): with `BuffersOK`, a buffer is at least as
  large as configured and as what it holds.
* `NoSleepOnWorkCorrect`, no assumption: inductive with the fact that an exited
  worker has left an empty buffer behind.
* `StopFlushesAllCorrect`, no assumption: `Drained`, which relates the worker's
  step to what the two buffers hold.
* `NoStrandedProducerCorrect`, for messages shorter than the buffer: when a
  message may fill an empty buffer exactly and growing it throws, a producer that
  was notified leaves without writing and strands the others.
* `ChannelSafety`: the safety half of `ImplementsChannel`, each step of the worker
  is a step of the channel or a stutter.

`ServiceTypeProofs`, for any names, contents, sessions and faults:

* `TypeCorrect`: `TypeOK`. It is not inductive, because a step uses what its request
  carries. `TypeInv` adds that a request has in hand what its step needs (`Equipped`:
  a name and a StorageInfo, a session, a chunk), that a session directory belongs to
  a name, and that the session a request works on is still there (`InHand`).

`ServiceProofs`, for any names, contents and sessions, under two assumptions.
`NamesApart`: MySQL's collation tells the names apart and none is another's
temporary file. `TrustedFaults`: a statement that was applied is reported as applied,
and a restarted process can load the table. Files may fail, statements may be refused
or lost, the process may die anywhere. ServiceFoldedNames, ServiceLostReply
and ServiceStartupFault each drop one of these and find a violation.

* The inductive invariant is `SafeInv`. Beside the rows (`RowsOK`), the promises
  (`PromisesOK`), the cache and the whole files it has `RequestOK`, which says what
  a request may rely on at each step: from its lookup to its insert the name has no
  row (`UnstoredPCs`), the body it wrote is under the temporary name (`StagedPCs`),
  then under its own (`PlacedPCs`), and a request that replies or deletes has the row
  it found or wrote (`StoredPCs`). Without it a rollback might remove a file that has
  a row, and a restore might put back a row for another file.
* `UploadsAreDurable`, `RowsMatchFiles`, `CacheIsTable`, `FilesAreWhole` follow from it.
* `NothingOverwritten`: by `TableStep` a step changes the row of a name only by
  removing it, and then touches no file; a row that stays has the same file before
  and after, by `RowsOK` on both sides.
* `ServiceIsStore`: by `RowsOK` what a name holds is what its row says, so that each
  case of `TableStep` is a step of `FileStore`.

`ServiceSessionProofs`, for any names, contents, sessions and every fault there is. Each
theorem names the one thing it needs of the constants, and no more:

* `SessionsAreDistinct`, no assumption: `SessionsInv` adds that a session about to be
  saved has no double that loads, since a lookup for one came first.
* `NothingTorn`, when no name is another's temporary file (`TempsApart`): a file is
  renamed only after it was written out (`StagedWhole`).
* `ChunksAreKept`, when the collation tells the names apart (`KeysApart`): by `ChunksMove` a
  chunk stays, is emptied to be written, is written, or goes with its session, and by
  `StoredInv` a completion or an upload has inserted its row by the time it removes sessions.
* `CacheHoldsRows` (of `CacheSound`, which no run checks), `KeysApart` and `RepliesArrive` (a statement that was applied is reported
  so): startup may fail and statements may be refused or lost, and the cache still
  answers nothing the table would not.
* `DeletesAreExact`, `KeysApart`: the property the run ServiceFoldedNames finds violated
  holds as soon as the collation is as fine as the file system. Every row names its own
  file (`RowsNameThemselves`), through rollbacks and restores too.

`MultipartClientProofs`, for any number of pages, chunks, attempts, workers and late requests:

* `ClientsUseService`: every step of pages and service is a step of `Service`, or none. So
  every theorem above holds for what pages do, and `ClientsSeeAStore` follows from
  `ServiceIsStore` under its assumptions.
* `ClientsRight`: the inductive `ClientInv` says that all is under one name (`TargetOnly`), a
  session that a page has, or that a late request is for, is of the shape of its file
  (`ShapesOK`), what is written for a
  page that waits is its file (`BodyOK`), a success shown is a promise (`Promised`), and
  the chunks a page counts as sent are there unless the name is taken (`Counted`).
* `SuccessIsStored` (`NamesApart`, `TrustedFaults`, and `ShapesApart`: versions of a file differ
  in size or chunk size, without which MultipartSameSize shows them mix): what is promised is kept, by
  `UploadsAreDurable`.
* `MixedIsAlike` (`KeysApart` only): pages send chunks to sessions of their own shape, late
  requests included, so that what a session holds is of files of its shape (`ChunksFit`). As
  long as no two pages upload different files of one shape (`FilesApart`), the body put
  together from a session is then a whole one (`WholeInv`). Of the service alone this does not
  hold, since it admits a chunk by its length.
* `CompletionFindsChunks` (`KeysApart` only).

`LogSystemProofs`, for any finite set of threads, any names and number of pool threads:

* `TypeCorrect`, and `LogsSafely`: the inductive `IInv`. Its parts say what phase main is in and
  that the threads live inside it (`Phases`, `Prepared`), what a caller has in hand
  (`Holding`), that a built name is registered or about to be (`Taken`), that a
  logger told to stop is out of everybody's reach (`Gone`), and that each queued task is
  there once (`Queue`).
* `FirstStays`, `NullNeverSeen` follow from `IInv`. `NothingStranded` is inductive with it:
  each task that a thread queues brings a notification, each thread that takes one looks
  at the queue again before it sleeps.
* `LoggersAreChannels`: by `Gone` nobody logs to a logger whose worker may have left, so that
  each step is one of that logger's channel.

It does not need as many pool threads as loggers; only the liveness properties do.

`RollFileFlushProofs`, for any clock, limits, batches and number of processes (limits and
times natural numbers, a day and a batch not empty):

* `TypeCorrect`: the types; that the old file is closed before another is opened; that old
  files are removed only after an fopen that succeeded.
* `FilesKept`: `FileInv` relates the members to the open file (`OwnFile`), says
  that no process has yet used the sequence number its next file will take (`NamesUnused`), and that a flush which writes has rolled first if it must (`FlushDecided`).
* `SizesBounded` and `OneDayEach` follow from it.
* `FilesCounted`: by `TypeOK` alone; opening adds one file and one to `unswept`, a sweep leaves
  `MaxCount`.
* `OldestRemovedFirst`, the action property, from the definition of a sweep.

`FileListProofs`, for any finite set of names, clock, keywords, page sizes and typed urls. The
theorems assume, for a set `texts` that holds the keywords, `QueriesReadBack(texts)` and
`NamesReadBack`: the urls the page builds, and the names in them, are decoded to what was
encoded. These say nothing of the table, the order or the visitor, and TLC evaluates them for the
instance (`CodecsReadBack` in MCFileList).

* `WalksAreComplete`: the inductive invariant is `OnThePage`. While pages are turned, each file
  yet to be seen has at least page times size rows before it. A page shown holds the rows
  with fewer before them (`PageHolds`); an upload only adds rows before (`RowsArrive`); no row has
  pages times size before it. It rests on the order being total (`BeforeTotal`), so that the
  place of a row is the number of rows before it (`OrderIndexes`), and on the rounding of the
  page count (`PagesHoldAll`, `PagesGrow`).
* `QueriesAreKept`, `RowLinksLead`: what the form holds is what is shown (`PresetFits`), and
  only names that a header can carry get into the table. Such a name has no slash, so that it is
  what follows the last slash of its path (`SafeNameKept`), of which the page makes the links.

### What stays with TLC

* Liveness: `EveryPushReturns`, `StopReturns`, `CallsReturn`, `EndsCleanly`, `Converges`, and
  delivery in `ImplementsChannel`, of which `ChannelSafety` proves the rest. The prover
  has no rule for the fairness of these actions.
* The codecs of `HttpCodec`: what a decoder makes of every encoded string is induction over
  the string. TLC checks it for all strings of up to three bytes of every class.
* Every other property that a passing run checks is a theorem.

## 6. Plan

What could be proved next:

1. `RowsMatchFiles` when the connection breaks after a statement was applied, in the form
   that survives: a row without a file is of a name whose request failed.
2. `EndsCleanly` as far as it is safety: what the pool's destructor leaves in the queue.
3. `NoOverrunCorrect` with more than one growth, should the code be changed to loop.

## 7. Not modelled

* Config.hpp, JSON and the configuration files: read once at startup; their values are
  constants here.
* The text of a log message, headers, ETags, content types, the access log line, HTML layout:
  wording that no property is about. Downloads send a whole file in one step of
  libevent.
* Other flushers (StdoutFlush, FileFlush): no state of their own.
* An abort whose header leads out of the directory of sessions (`..` names the storage
  directory): ids in the model are names of sessions, or none.
* SQL escaping, and the character set of MySQL: its own functions.
* `$` in a generated page, and a keyword cut inside a multi-byte character: what the
  standard library and the browser make of them is not modelled.
* Build and start scripts. MySQL, the file system, the browser and the C++ library are
  modelled only as the code uses them.
