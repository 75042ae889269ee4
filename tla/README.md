# A TLA+ model of tusd

tusd is a server for resumable uploads (the tus protocol and the IETF draft
"Resumable Uploads for HTTP"). This directory models what it does with an
upload: the HTTP handlers that create, extend, query, download, concatenate and
terminate uploads, the lockers that keep their requests apart, the stores that
keep the data, and the hooks that are told about it. TLC checks the models on
small instances; TLAPS proves the theorems of the `*Proofs` modules for all of
them.

## The system

| Part | State it keeps | Operations | What makes it correct |
| --- | --- | --- | --- |
| Lock interface (`pkg/handler/datastore.go`) | who holds the lock of an upload | Lock, Unlock, the requestUnlock callback | one holder at a time; the callback only for a reason |
| Memory locker (`pkg/memorylocker`) | a map of lock entries, a channel and a callback each | Lock, Unlock | exclusive, no lost wake-up, no panic |
| File locker (`pkg/filelocker`) | `<id>.lock` and `<id>.stop` files, shared by processes | Lock and its polling goroutine, Unlock | exclusive across processes and crashes; waiters get through |
| Upload handler (`pkg/handler/unrouted_handler.go`) | local variables of each request | POST, PATCH, HEAD, DELETE, GET, concatenation | stored bytes are the client's, in order; offsets are true; finished once |
| Request context, body reader (`context.go`, `body_reader.go`) | cancellation cause, the body and its error | cancel, closeWithError, Read | an interrupted request stops reading and says why |
| File store (`pkg/filestore`) | the binary file and `<id>.info` | NewUpload, GetUpload, WriteChunk, DeclareLength, Terminate, ConcatUploads | survives failures between its system calls |
| S3 store (`pkg/s3store`) | a multipart upload, `<id>.part`, `<id>.info`, the object; a semaphore | the same interface; parts are uploaded concurrently | the object is the client's file; no slot is lost |
| GCS store (`pkg/gcsstore`) | one object per chunk, temporary objects, the composed object | the same interface | composing and deleting lose nothing |
| Azure store (`pkg/azurestore`) | staged and committed blocks, a sentinel block | the same interface | the committed blob is the client's file |
| Hooks (`pkg/hooks`) | event channels, running invocations | pre-hooks called by handlers, post-hooks by a dispatcher | each event once, in the documented order, nothing without consent |
| Server (`cmd/tusd/cli/serve.go`) | | graceful shutdown | running requests end |
| Metrics, flags, composer | counters, flags | | no influence on uploads |

Every HTTP request runs in a goroutine. Requests meet in three places: the
locker, the store, and the callbacks by which one request interrupts another.
A request that wants a lock makes the locker call the holder's `releaseLock`,
which cancels the holder's context; a goroutine started by `newContext` then
closes the holder's body, so that `WriteChunk` ends, the handler responds, and
its deferred `Unlock` runs. Hooks run in goroutines of their own; a post-hook's
event is handed over on an unbuffered channel while the lock is held.

What is hard about it: requests to one upload in any order, retries included;
connections that break in the middle of a chunk; interruption, StopUpload and
shutdown racing each other and the end of the body; store calls that fail one
by one, before or after they had their effect; parts uploaded concurrently; a
process that dies holding lock files, rewriting `.info` or composing objects;
final uploads put together from uploads that nobody has locked; and state read
before the lock is held. `PROJECT.json` lists these hazards with their lines
and the properties that watch over them.

## The modules

    UploadLock  <--refines-- MemoryLocker, FileLocker  --extend--> LockRequests
        ^ extends
    UploadHandler --uses--> FileStore
        |
        +--refines--> UploadResource

    UploadStore <--refines-- GCSStore, AzureStore
    S3Store        (stands alone: it does not keep the promise, see the runs)
    Concatenation  (PostFile of final uploads, with the file and the S3 store)
    Hooks          (callbacks, channels, backends, shutdown)

UploadHandler is composed with the lock interface and the file store, where the
interleavings of requests are. The stores are modelled under what the lock
gives them: one request at a time for an upload, which the handler's property
`OneWorker` establishes. Concatenation is the exception, since it takes no
locks, and so is a module with several uploads.

**UploadLock** is what a `Locker` promises. A caller is one HTTP request; it
locks one upload at most once (`lockUpload` is called once per handler), so it
passes once through idle, waiting, held and released, or ends as failed or
crashed. `Acquire` hands out free locks only. `Ask`, the invocation of the
callback, needs another caller that waits for the same upload.

**LockRequests** declares what the two lockers see of their callers: which upload
each addresses, whose context is done, whose callback was called.

**MemoryLocker** has one action per piece of `Lock` and `Unlock` between two
mutex sections. The entry of the map is identified with the caller that created
it, which is sound because a caller locks once.

**FileLocker** has one action per file operation, in `Lock`, in its goroutine
and in `Unlock`, for several processes that may die at any time. The lockfile
library is external: `TryLock` takes a file that is absent or whose owner is
dead, atomically; the answer `ErrNotExist` may come at any time. `Impatient`
are the callers whose context may expire while they wait.

**FileStore** has one operator per system call on the two files. The data is the
client's file, whose i-th byte is called i, so that a byte that is lost,
repeated or out of place shows. `Truncated` is an `.info` that `createFile` has
emptied and not yet written.

**UploadHandler** extends UploadLock and instantiates FileStore. A request's
headers are a record of `Inputs`; its handler is a sequence of actions, one for
each store call, lock call, hook, and byte of the body:

| Code | Actions |
| --- | --- |
| `PostFile`, `PostFileV2` | `PostRefused`, `PostFile`, `PostCreated`, `PostFails`, `PostNotify` |
| `lockUpload`, `Unlock` | `Begin`, `LockAcquired`, `LockFailed`, `Unlock` |
| `HeadFile`, `DelFile` | `FetchFails`, `HeadFile`, `DelFile` |
| `GetFile`, `ServeContent` | `GetFile`, `ServeContent` |
| `PatchFile` | `PatchFile`, `DeclareLength`, `LengthDeclared`, `DeclareFails` |
| `writeChunk`, `WriteChunk`, `bodyReader.Read` | `writeChunk`, `CopyByte`, `ReadFails`, `CopyEnds`, `WriteFails`, `ChunkWritten` |
| `terminateUpload` | `TerminateBin`, `TerminateInfo`, `TerminateFails` |
| `finishUploadIfComplete`, `emitFinishEvents` | `finishUploadIfComplete` |
| `sendError`, `sendResp` | `Respond` |
| `releaseLock`, `stopUpload`, `newContext`, `closeWithError` | `releaseLock`, `stopUpload`, `RequestCancelled`, `WatchContext` |
| (the process dies) | `ProcessCrash` |

A POST may be rejected by the pre-create hook, a DELETE by the pre-terminate
hook, and the pre-finish hook may fail. `Faults` says what else may go wrong in
a run: a hook stops the upload, a store call fails, a request is cancelled, the
process dies. A broken connection (`ReadFails`) is always possible. A new
upload's ID is fresh, as `uid.Uid` makes it; the URL is known to clients, so
that other requests may use it (`published`), after the response, after the
104 response of the draft, or after the creation notification if the run says
so (`NotifyCreated`). `abandoned` remembers the uploads that a request has
completed (by an Upload-Length equal to the offset, or by one of 0) and left
without finishing them. When the handler returns, its variables are reset
(`Forget`), which merges states that no property tells apart.

**UploadResource** is what a client may rely on: an upload grows by the next
byte of the client's file and by nothing else, not beyond its length, which is
declared once; its completion is announced once, when everything is stored; a
terminated upload stays gone.

**UploadStore** is the same for a store: its data is a prefix of the client's
file that only grows, finishing changes none of it, only a termination takes it
away.

**S3Store.** The bucket is `mpu` (the state of the multipart upload), `parts`,
`tail` (`<id>.part`), `info` and `object`; the request that holds the lock has
the cached `s3Upload` in `upload`. `WriteChunk` takes `.part` out of the bucket
and puts it in front of the data; `Acquire`, `ReceivePart` and `ReceiveEnd` are
the loop of `uploadParts`; every goroutine of the errgroup is a member of
`inflight` and ends by `PartUploaded` or `PartFails`, in any order. The part
producer is a cut of the stream (`nextPart`), and may stop early
(`ProducerStops`). What S3 accepts (`Accepted`, `Valid`) is external: ascending
numbers, ETags of stored parts, no small part but the last. Requests for other
uploads appear as the slots they take. `Requests` names the special requests of
a run and `Faults` what goes wrong.

**GCSStore.** The bucket is a function from object names. `FilterObjects` keeps
what makes it delicate: the composed object hides the chunks, a missing index
leaves an empty name (`Hole`), temporary objects are listed after the chunks.
Composition goes group by group (`ComposeGroup`, `ComposeLast`), deletion object
by object. The unsynchronised read of `firstError` in `GetInfo` is the choice
`raced`: one failed size request may go unnoticed; `MaxRaces` bounds how often.

**AzureStore.** `staged` blocks by index, the `committed` list of blocks in the
order in which it was committed, and the `sentinel`; the key may hold a committed blob from the start. `GetUpload` counts one list or the other;
`Upload` puts the index into the list before it stages the block.

**Concatenation.** The POST of a final upload goes through `sizeOfUploads`,
which reads the listed uploads one by one and each of them in separate, unlocked
requests (`ReadInfo`, then `ListParts` for the file store's `os.Stat`; in S3
these and `HeadIncompletePart` in any order); then through `NewUpload` and the
`ConcatUploads` of the store in use: `OpenFile`, `appendTo`, `FileClosed`;
`DownloadNext`, `PutObject` and the background `AbortMultipartUpload`; or
`UploadPartCopy` in any order and `FinishMultipart`. At the same time requests
that hold the lock of one upload go through theirs step by step: a PATCH declares the
length (`PatchFile`), writes, in S3 some of it to `.part` (`WriteChunk`), and
finishes (`FinishUpload`), or fails in between (`RequestFails`); a DELETE removes
the files, or aborts the multipart upload and deletes the objects, each of which
may fail (`DelFile`, `Terminate`). `meant` is the content an upload should have, by
what its client sends or its list says; `deleted` are the finals for which a
DELETE has begun. One thing is left out: a PATCH that has declared the length and
whose write of the rest in `.part` then fails finishes the upload without it
(the S3 store's `"declareOffset"`).

**Hooks.** The requests for one upload, at the grain of hooks: `Callback` and
`CallbackReturns` for the pre-hooks, `Notify` for an event handed to the
dispatcher, `InvokeHook` for whatever the backend answers, `ProgressTick` and
`ProgressEnds` for the goroutine of `sendProgressMessages`, `DelayedCancel` for
the delayed context, `Shutdown` and `ShutdownComplete` for the signal handler.
A backend differs by whether it can veto a termination (gRPC cannot) and
whether it heeds the context of the request (HTTP does). Which bytes are stored
is left to UploadHandler.

Operators whose comment begins with "Mutant" are the code with a plausible bug
(a dropped test, a missing step); each property is violated by one of them.
They are not used by any specification. Each module states its `TypeOK`; the runs
of the lockers, the stores, Concatenation and Hooks leave it out, as it is proved.

## The runs

Each configuration `<Module>.cfg` or `<Module>_<name>.cfg` is for the module of
that name, but those of UploadHandler are for `MCUploadHandler`, which adds the
inputs, that of FileLocker for `MCFileLocker`, which says which process serves
whom, and that of Concatenation for `MCConcatenation`, which adds the symmetry and
a constraint:
`tlc -config S3Store.cfg S3Store`, `tlc -config UploadHandler.cfg MCUploadHandler`.

Runs that pass:

| Run | Shows |
| --- | --- |
| `MemoryLocker` | exclusive, no lost wake-up, no panic, `MemLockReturns`, and the refinement of UploadLock |
| `FileLocker` | exclusive across 2 processes that may die, a holder keeps polling and is asked only after contention, the refinement of UploadLock, and `LockReturns`, although a process may die with its lock file on disk and the first holder's `Unlock` may remove the `.stop` that a waiter created for the second holder, so that the waiter must create it again |
| `UploadHandler` | `TypeOK`, `OneWorker` (one request at a time is in the store with an upload and nobody takes the lock from it, also not a request that gave up waiting), `StoredPrefix`, `TruthfulOffset`, `DownloadIsStable`, `FinishedOnce` and the refinement of UploadResource for tus v1 requests, with broken connections, store failures and crashes; the refinement says that an upload never exceeds its length, that the length is declared once, and that pre-finish only sees what is stored |
| `UploadHandler_live` | `GoneForGood`, `RequestsEnd` and `AnnouncedUnlessAbandoned` (a complete upload is finished, also if the last chunk came with an error, unless it is `abandoned`) when the URL is known before the POST has the lock |
| `S3Store` | the object is the client's file unless the upload was resumed behind a hole (`ObjectIsFileUnlessHole`), responses are true (`TruthfulOffset`), acknowledged bytes stay but for a short tail (`AckedBytesStay`), S3 accepts the list of parts (`FinishAccepted`), the semaphore balances, `calcOptimalPartSize` fits every file, every request ends |
| `GCSStore` | `ObjectIsFile`, however the chunks were grouped and whatever failed before, and the refinement of UploadStore |
| `AzureStore` | `BlobIsFile`, `TruthfulOffset` (also on a key that holds an older blob) and the refinement of UploadStore |
| `Concatenation` | a final upload of two partial ones never shows other bytes than it is meant to have (`ContentIsMeant`), is announced only when whole (`AnnouncedIsWhole`), and has the right size (`SizeIsSum`), also while a length is being declared |
| `Hooks` | the documented order, `NothingWithoutConsent`, `AnnouncedOnce`, `FinishReachesHook`; neither requests nor progress goroutines hang |

Runs in which the code disagrees with its documentation (the details are in
`PROJECT.json`, "findings"):

| Run | Disagreement |
| --- | --- |
| `UploadHandler_draft` | `PostFileV2` uses an offset read before the lock; with a PATCH in between, bytes are stored twice |
| `S3Store_tail` | a draft upload of unknown length whose last bytes are too few for a part is finished without them |
| `S3Store_gap` | a part fails, a later one is stored: the offset counts what lies behind the hole and the object is not the client's file |

### Disagreements without a run of their own

Each was seen while modelling, most of them with TLC (a constant or a property
away from the runs above). The first group is about the handler and the lockers:

- `Unlock` of the memory locker without a lock closes a nil channel and panics
  (`memorylocker.go:107`; line 96 says no error is returned). Handlers never do it.
- A waiter of the file locker may create its `.stop` after the holder is gone
  (`filelocker.go:127`); it then interrupts the next holder, even the waiter itself,
  though nobody waits (`datastore.go:183`: "when another caller attempts to create
  a lock"). What holds is `AskedAfterContention`.
- A request that is asked to release before `writeChunk` has set the body copies
  it to the end (`context.go:65`, `locks.md:33`). A GET has no body and does not
  react at all: a slow download keeps the lock until its write deadline.
- StopUpload may leave the upload in place if another cancellation came first
  or the body ended (`unrouted_handler.go:928`, `datastore.go:42-46`). One that
  comes with the last byte terminates the upload and then announces it as finished.
- A Content-Length overrides MaxSize for an upload of deferred length
  (`unrouted_handler.go:896`; `config.go:18`: "how many bytes may be stored in one
  single upload").
- A PATCH that declares the offset reached as the length, and has a body, completes
  the upload, but `writeChunk` refuses the body (`unrouted_handler.go:825`, 879), and
  no later request finishes the upload (line 803), so pre-finish is not
  called (`hooks.md:430`). The POST of an empty draft upload that does not
  get the lock (line 588) leaves such an upload, too. `AnnouncedUnlessAbandoned`
  exempts these two, which are among the requests of `UploadHandler_live`, and no others.
- The stale info of `PostFileV2` also makes it call pre-finish a second time.
- A POST that fails after it created the upload answers without the Location
  that the comment at `unrouted_handler.go:407` promises. The parser of the
  draft's Upload-Length accepts a negative number (`unrouted_handler.go:1552`).

About the stores:

- S3: small PATCHes may need more than MaxMultipartParts parts; a hole in the
  part numbers never heals; a Terminate whose abort works and whose deletion of
  `.info` fails leaves an upload that is reported as complete
  (`s3store.go:709`); a PATCH of tus v1 whose Upload-Length is the offset
  reached loses the tail as in `S3Store_tail` if its write fails (`"declareOffset"` in `Requests`);
  an error of `calcOptimalPartSize` comes after `.part` was deleted.
- GCS: with two lost errors of `GetInfo` (`MaxRaces = 2`: a HEAD and the PATCH
  that believes it) `ObjectIsFile` fails. Temporary objects left by a failed
  composition count for the offset, which then exceeds the size. After a failed
  Terminate the missing chunks make every request fail. An empty upload cannot
  be finished.
- Azure: an empty block is rejected, so an empty last PATCH fails; with an
  Upload-Length of 0 on a key with an older blob it may commit that blob's block
  (`"declareOffset"`). Deleting a blob that was never committed may fail after
  the info is gone.
- Concatenation: a final upload of empty ones is announced twice (`hooks.md:443`),
  and on S3 the second FinishUpload races with the background abort. After the
  download path HEAD reports offset 0 until the abort has succeeded. A POST that
  dies leaves a final upload that can never be completed. The listed uploads
  need not be partial ones. A DELETE of the final during the file store's
  ConcatUploads leads to an announcement of an upload that is gone.

About hooks:

- gRPC hooks cannot reject a termination (`hooks.md:165`). File, gRPC and plugin
  hooks have no timeout: a hook that hangs keeps the lock.
- post-finish is triggered before the response is sent, not after it as the
  table of `hooks.md` says. The last post-receive event over HTTP is sent with a
  context that is already done, so the hook is not called. HTTP post-hooks are
  cancelled once the client is gone for GracefulRequestCompletionTimeout.
- StopUpload terminates without pre-terminate, and post-finish may follow
  post-terminate. Shutdown does not wait for asynchronous hooks.

### Bounds

Memory locker: three callers, enough for a holder, the next holder and a third
that waits across both; two uploads, since the map is shared. File locker: three
callers, since a `.stop` can only be removed under a waiter if somebody else
is the next holder; two processes, of which one serves a caller whose context may
expire, the other one the two others, which have to get through by asking; file
locks of different uploads share nothing but the processes, so one upload is
enough. What the lockers' runs
check of safety is also proved for every number.

Handler: one upload (two uploads share no state but the process), three requests
where a run needs a POST and two requests that race, two otherwise; uploads of
up to two bytes, so that a chunk can be broken off, completed and exceeded. The
inputs of a run (`MCUploadHandler`) contain right and wrong offsets, deferred,
declared and empty uploads, chunked and sized bodies, and bodies shorter than
their Content-Length.

S3: parts of two or three bytes, a minimum of two, two parts, files of up to
five bytes: so there are short tails, exact and uneven parts, two parts and a
tail in flight at once, and sizes for which the preferred part size does not do.
The number of requests is not bounded. GCS: composition two at a time of up to
five chunks, which takes three levels, with a full and an incomplete last
group; one lost error. Azure: files of six bytes in up to five blocks of at
most three. Concatenation: two partial uploads of up to two bytes and one final
with a list of up to two entries, each possibly repeated; MinPartSize two, so
that there are `.part` objects and both ways of the S3 store are taken. A
behaviour is followed from the POST's first step to its response, with the uploads on
its list only (`UnderWay`): parseConcat reads nothing but its request, and uploads that
are not on the list do not meet the POST. What comes after the response is left
to the theorems. Two finals, or finals of finals, are too
many states. Hooks: three requests, an upload of one byte, the HTTP
backend, every hook enabled (the file backend passes too, in five minutes; the
other two answer like one of these or have fewer vetoes).

No state constraint but `UnderWay` is used. Deadlock is not checked because a run ends when all
requests are done, or the upload is gone. Symmetry (of the requests) is used
only where no liveness property is checked.

### Fairness

`MemoryLocker!MemFairSpec` and `FileLocker!FairSpec`: goroutines that can run do
run, and a holder that has been asked begins `Unlock` in the end. A holder that
has not been asked owes nothing, and no context has to expire, nor can that of a
caller outside `Impatient`: waiters get through by asking. For the file locker
the two definite answers of `TryLock` get strong fairness, since `ErrNotExist` is transient.

`UploadHandler!FairSpec`: a request that has begun goes on (Go's scheduler, and
`AcquireLockTimeout` for `Lock`), and reading from a silent connection fails in
the end (`NetworkTimeout`, set in `Middleware` and in `writeChunk`); a download
ends by the write deadline that `Middleware` sets. Clients owe nothing: no byte
has to arrive, and no request has to be made. That a holder which was asked
releases is thus not an assumption here but follows from `RequestsEnd`.

`S3Store!FairSpec`: calls of S3 return (the SDK's timeouts), the errgroup's
goroutines run, other requests give their slots back, and a slot that is free
again and again is got (strong fairness: waiting senders of a Go channel are
served in order). `Hooks!FairSpec`: handlers, timers and goroutines run, and a hook ends, for HTTP
by its timeout, for the other backends by itself, which is an assumption about
the operator's hooks. No fault has to happen in any of them. GCSStore,
AzureStore and Concatenation have no loop that waits for anybody, and state
safety only.

## The theorems

All proofs are checked by `tlapm <Module>.tla`, for the modules `*Proofs` and
`SequenceFacts`. The only assumptions are the ASSUMEs of the models; TLC evaluates
them in every run:

- `NoCaller` is no caller; `NoFile`, `NoObject` and `None` are none of the values
  (sequences, records, numbers) that stand beside them; an emptied `.info` is no record;
- the parameters have their types: the handler's inputs, the bounds of the S3, GCS
  and Azure store and of Concatenation, the settings of the hooks; a composition takes at least two objects
  (`MAX_OBJECT_COMPOSITION`), and `MinPartSize <= PreferredPartSize <= MaxPartSize`;
- no upload is both partial and final.

Conditions that are no assumptions about the code but say of which requests or
faults a theorem speaks (`TusV1`, `PlainRequests`, `OneRace`) are hypotheses of the
theorems.

**LockerProofs** extends both lockers, each with its own specification over the
same callers (`LockRequests`); to that end the definitions of MemoryLocker that
would clash with FileLocker's, and the theorems about it, begin with `Mem`.

The memory locker: `MemTypeCorrect`, `MemMutexCorrect`, `MemWakeupCorrect` and
`MemPanicFree` follow from one inductive invariant, `MemIInv`: the map holds exactly
the callers past `Lock` (`OwnersHold`); an entry captured by a waiter belongs to
a request for the same upload that holds it, is about to close its channel, or
has closed it (`EntriesLive`); `Unlock` closes its own channel, once
(`ChannelsClosedOnce`); whoever waits has asked (`WaitersAsked`). Type
correctness alone is not inductive: that `RequestRelease` asks an existing
entry needs `EntriesLive`. `MemRefinement` shows that every step is a step of
UploadLock or a stutter.

The file locker: `TypeCorrect`, `MutexCorrect`, `PollingCorrect` and
`Refinement`, for any number of processes and crashes. The invariant ties the
lock file to the holder in both directions: a holder's lock file names it and
its process is alive (`HoldersOwnFile`), and a lock file of a live process names
a holder (`LiveFilesHeld`); so the file of a dead process is never one that a
live request relies on. In the refinement the owner of an upload is the caller
in its lock file if that caller's process is alive; `asked` is hidden, since the
callback may come for a reason that has gone. What remains true of it is
`AskedCorrect`: somebody found the lock taken before. It rests on
`StopFilesContended`, which follows every trace of a stop file back to a caller
that was told the lock is busy.

**UploadHandlerProofs.** `InterfaceExclusive`: the lock interface implies
exclusion, since each holder is the recorded owner (`HoldersRecorded`). That is
what a locker promises and says nothing of the handler yet. `UsesLockInterface`:
every step of the handler is a step of the interface.
`OneWorkerCorrect`: only one request at a time is in the store with an upload.
Whoever has gone through `lockUpload` holds the lock (`WorkersHoldLock`), and
a POST, which creates the files without it, is alone with them until then
(`CreatesAlone`, in `PlaceInv`, which says for each program counter whether the upload
has been created yet).
`TypeCorrect` holds for all inputs, limits and faults, and needs the locks: that
bytes are appended to a file that exists (`OpenFilesStay`) rests on nobody
removing it, which rests on whoever terminates an upload holding its lock
(`WorkersHoldLock`, `HoldersRecorded`).

The rest of the module is about the data. Two theorems hold for every input,
configuration and fault. `DownloadIsStableCorrect`: nobody writes to or removes what is being
downloaded, because `GetFile` holds the lock; `GoneForGoodCorrect`: data that is
gone stays gone, because `POST` takes fresh IDs and `WriteChunk` only appends to
a file that `OpenFilesStay` says is there. `StoredPrefixCorrect`,
`TruthfulOffsetCorrect` and `FinishedOnceCorrect` are for `TusV1`, the requests of
protocol version 1 (no `PostFileV2`, no offset in a POST, a URL that is not known
before the POST has the lock); the run `UploadHandler_draft` shows that the first
of them fails without it. They rest on `DataInv`: a request owns its upload while
it creates it, works on it under the lock, or is about to answer (`Owns`); an owner
is alone (`SoleOwner`), because a POST has told nobody the URL yet and any other
request holds the lock (`Place`, `CreatorsApart`, `HoldersRecorded`); so what an owner
has in its local variables is what the files say (`Knows`: the offset is the
length of the file, the length is that of `.info`), and an upload that it may
finish has not been announced (`Unfinished`). Each
action needs a proof only of what it changes of its own request (`Keeps`);
`Apart` says once that it leaves the other requests alone. `ResourceRefinement`
shows that every step is a step of UploadResource or a stutter. It also excludes
the fault "stop": after StopUpload an upload may be announced that was
terminated, which UploadResource forbids.

**HooksProofs.** `TypeCorrect`, `HookOrderCorrect`, `ConsentCorrect` and
`AnnouncedOnceCorrect`, for any number of requests, every backend and every set
of enabled hooks. The invariant `HooksInv` says, besides types, that nothing of an
upload happens before pre-create agreed (`ConsentFirst`), that no other request
runs while it is being created (`CreatorAlone`), that whoever works on it has the
lock and knows how much is stored (`LockInHand`), that at most one request is past the
completion or the termination and no other can follow (`FinishedByOne`,
`TerminatedByOne`), and what the records of hooks say of the request they belong
to (`StopsRecorded`, `ProgressOnce`). The attempt to prove it found a flaw of the
model: two guards of a CASE in `Fetched` overlapped, so that its value was
not determined; they are disjoint now.

**SequenceFacts.** The prover cannot instantiate the library's induction rules,
whose parameter is an operator. Here induction over the naturals is stated for a
set of numbers (`SetInduction`), and the existence of recursive functions for a
step that is a function (`RecursionExists`), both from the least element of a
set; `FlattenRuns` and `FlattenAppend` then say what `FlattenSeq` makes of
consecutive runs and of a sequence with one more element. `FlattenConcat`,
`FlattenStart` and `FlattenPiece` follow by induction: the data of two lists of
pieces, of the first pieces of a list, and of one of them.

**S3StoreProofs.** For all requests and faults: `TypeCorrect`,
`SlotsBalancedCorrect` (with `SlotInv`, which gives each slot its owner) and
`PartSizeFitsCorrect`, arithmetic about quotients that TLC can try for a few
sizes only. Under `PlainRequests`: `ObjectIsFileCorrect`, `TruthfulOffsetCorrect`,
`AckedBytesStayCorrect` and `FinishAcceptedCorrect`. The condition leaves out the
requests that complete an upload although a rest that is too short for a part is
left: `"draftTail"`, which the run `S3Store_tail` is about, and `"declareOffset"`.
Faults are not restricted; what the run `S3Store_gap` shows is the exception
`behindHole` in the properties. The invariant speaks of a layout: places
`b[1] < ... < b[K]` at which the file is cut, so that part `n` is the slice between
two of them (`Slice`). Whatever order the part uploads end in, and whichever of
them fail, every stored part and every part in flight is the slice of its
number, all slices but the last are large enough for S3, a request extends
the layout by what it still has to send, and `.part` is what follows the last
part. A new request takes the layout up after the last part stored (`NoHole`),
if it does not begin behind a hole; once one does, nothing more is claimed. An
empty file, for which S3 wants one empty part, is a case of its own (`Sealed`).
The offset, the content of the finished object and the list given to
CompleteMultipartUpload are then read off the layout.

**AzureStoreProofs.** `TypeCorrect`, `BlobIsFileCorrect`, `TruthfulOffsetCorrect`
and `StoreRefinement`, the refinement of UploadStore, for every file, number of
blocks and chunk size, with and without failures, on a fresh key and on one that
holds a blob. They leave out `"declareOffset"` (`PlainRequests`), with which they
are false. The invariant `AzInv`: the blocks `0..n-1` are staged and no others, and
their data is a start of the client's file (`StagedOK`), also after a failed
`WriteChunk` whose block was staged; from the publication of the upload until the
commit the sentinel is there (`Phases`), so that `GetOffset` counts what is staged;
the request that holds the lock has the right indexes and offset unless it has
failed, and then it does not complete the upload (`Knows`); what it sends follows
the offset (`Sends`). That the list it commits is the list of staged blocks is
`CommitStaged`. `Sorted` gives every index the place behind the smaller ones, so
nothing about it needs induction.

**GCSStoreProofs.** `TypeCorrect`, `ObjectIsFileCorrect` and `StoreRefinement`, the
refinement of UploadStore, for files, chunks and groups of every size and
whatever fails, if `GetInfo` loses at most one error (`OneRace`): with
`MaxRaces = 2` TLC finds `ObjectIsFile` violated. The invariant `GCSInv` has two kinds of
buckets. In a sound one (`Sound`) the chunks `0..n-1` are there and no others, they
are a start of the client's file, and temporary objects exist only of a whole
file. In a broken one (`Broken`) the first chunk is gone, because a termination or the
deletion after composing stopped half-way; as the name of a missing chunk is a
hole in the listing, nothing is composed of it any more. While composing
(`Composing`), the sources of a level, put one after another, are the file,
whatever an earlier composition that failed has left; the temporary objects of
the next level hold what their groups hold (`FlattenConcat`), and each level has at
most half as many. That the chunks can be deleted one by one without any loss is
`FirstGoesFirst`. A PATCH needs two answers of `GetInfo` that agree, the one its
client was told and its own (`Told`, `Knows`); a single lost error makes them differ.

**ConcatenationProofs.** `TypeCorrect`, `SizeIsSumCorrect`, `ContentIsMeantCorrect`
and `AnnouncedIsWholeCorrect`, for any number of partial and final uploads of any
size, lists of any length with repetitions and finals in them, both stores, and
whatever fails or is deleted meanwhile. That the POST holds no lock is harmless
for one reason: an upload that `sizeOfUploads` saw complete stays complete or
disappears (`Ready`). What the POST has read of the upload it is looking at, in
separate requests, may be out of date (`Sees`), but a size that is not deferred
stays the size, and in the file store, where the offset is read last, an offset equal
to it is that of a complete upload (`Right`). In S3 the offset may be wrong, but
what is copied is the object, and there is none before the upload is complete. The invariant `ConcatInv` says this of every upload on the
list that was checked (`Checks`, `Runs`); that a file never holds anything but a
start of what its client means, a multipart upload of a partial one neither
(`UploadOK`); and that a POST which has copied the first `k` uploads has exactly what
these are meant to be: in the new file unless a DELETE removed it (`Appends`), in
the downloaded file (`Downloads`), or in the parts of their numbers, in whatever order
they were copied (`Copies`). `meant` of a final upload is fixed when it is created,
and its size is the length of that, because the size of an upload of deferred
length is not counted before it is declared. `OneUpload` says once that a step for
one upload leaves all others and their POSTs alone (`UploadFrame`, `PostFrame`),
so each action needs a proof for the upload it works on only.

Only model-checked: liveness under fairness (`LockReturns`, `MemLockReturns`, `RequestsEnd`,
`AnnouncedUnlessAbandoned`, `FinishReachesHook`), which is out of the
prover's reach. Every safety invariant, action property and refinement that a
passing run checks is also a theorem, with the hypotheses named above.

## What is not modelled

Not modelled: metrics and logging, flag parsing, start-up and TLS, generated
code; they do not influence uploads. CORS, header formatting, header parsing and
metadata are left out of the handler as data no property tells apart. Changes
of ID and storage by a pre-create hook: IDs are fresh, so an ID that the hook
chose twice is not seen (`filestore.go:110`). Readers of the remote stores
(`GetReader`, `ServeContent` of S3 and Azure), which change nothing. Staged
blocks that Azure drops after a week, and multipart uploads that a lifecycle
rule of the bucket removes. Data races: the unsynchronised read of `ctx.body` in
`newContext` is modelled as an atomic read; that of `firstError` in the GCS
store is modelled by its outcomes.
