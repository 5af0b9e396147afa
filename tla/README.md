# Verification of the lot service

TLA+ models of the auction lot service (`src/`): a Go gRPC server with three
RPCs (CreateLot, GeneratePresignedUrl, CompleteMultiPartUpload) over PostgreSQL
and S3. TLC checks the models on small instances, TLAPS proves the most
important properties for every value of the constants. `PROJECT.json` lists the
components, the runs, the hazards, the theorems and, for every definition, the
source lines it stands for.

## 1. Inventory

| Part | Source | State | Operations | Correct when |
|---|---|---|---|---|
| RPC handlers | `cmd/api/main.go`, `internal/server`, `internal/imagestore` | none of their own; position of each request in its handler, its transaction (`dbTx`) | CreateLot: one insert. GeneratePresignedUrl: begin, link stored images, create uploads, insert single and multipart attempts, list parts, commit; a deferred rollback. CompleteMultiPartUpload: read, list, check, complete | an acknowledged request is durable, a failed one leaves nothing, every request is answered |
| The database connection | `internal/database/database.go`, pgx under `vendor/` | lock and life of the connection, the result reader, the transaction state of the session | lock, send, receive, unlock; begin, commit, rollback; close | it is usable for as long as the process lives, and never left inside a transaction |
| Multipart uploads | `internal/imagestore/image_upload.go`, `filestore/file_insert.sql.go` | rows of `image_blob_upload_attempts`, uploads and objects in S3 | presign, resume, complete, expiry of an attempt | one pending attempt for an image of a lot, its part size stable while valid, an object made of all the parts of one part size |
| Statements and schema | `db_queries`, `migrations` | lots, image_blobs, lot_images, attempts | inserts, upserts, one read | the upsert's cases, the partial unique index, `part_count` |
| Batch preparation | `image_upload.go` (intentBatchUpload, separate..., extractFileData), `image_store.go` | none of its own; the rows and their locks in the database | deduplicate, link stored files, split by size, upsert each class, make urls, convert the response | every file of the request is accounted for once, with urls that fit its row; batches that share images agree and do not wait for ever |
| Errors | `internal/apperror`, `internal/valid`, `database.go` | none | build, accumulate, translate to gRPC | the client gets what the errors meant for it say, and nothing else |
| Change stream and consumer | `docker-compose.yml`, `connector-config*.json`, `debezium/` | external | commits attempts, fills image_blobs | outside this repository |
| Generated code, tooling | `rpc/gen`, `Makefile`, `sqlc.yaml` | none | none | not modelled |

How they interact. `createRpc` opens ONE `pgx.Conn` and gives it to LotServer
and to ImageStore; grpc-go runs every request in a goroutine. So handlers share
the lock of pgconn (which refuses instead of waiting), the result reader inside
it, and the one transaction a session can have. With S3 a handler talks
directly; clients put parts into S3 without the service; the consumer of the
change stream is the only one that marks an attempt committed.

What is hard. Interleavings of handlers on that connection; a client that
cancels at any call (the driver then closes the only connection); a COMMIT whose
answer nobody reads; an error that is dropped; reads of the attempt, of the
parts and the completion as three separate steps; expiry of an attempt across a
deployment with another `partSize`; row locks taken in random order and held over
S3 calls; files matched to rows by the text of their digest; sizes cut to 32
bits. The complete
list, each at its line, is under "hazards" in `PROJECT.json`.

## 2. Modules

| Module | What it is |
|---|---|
| `SharedConn` | the handlers of all three RPCs over the shared connection |
| `AtomicRequests` | what they promise: every request is one atomic effect |
| `MultipartUpload` | one large image of one lot: attempts, uploads, objects |
| `AtomicUploads` | what its requests come to: an attempt is found, renewed or begun in one step |
| `PartPlan` | size classes, 32-bit sizes, part counts, missing parts |
| `PresignBatch` | all the files of a presign request, and its response; extends `PartPlan` |
| `BatchLocks` | the row locks of batches that share images |
| `AtomicBatches` | what they come to: a batch takes place at one instant, or not at all |
| `ErrorTranslation` | from the errors of a request to its status |
| `SharedConnProofs`, `AtomicityProofs`, `MultipartUploadProofs`, `WholeObjectProofs`, `PresignBatchProofs`, `PresignServedProofs`, `BatchLocksProofs`, `ErrorTranslationProofs` | theorems |
| `MCSharedConn`, `MCMultipartUpload`, `MCPresignBatch`, `MCBatchLocks` | values of the constants for TLC |

The service is seen four times, each time with what one question needs.
`SharedConn` has requests that meet on a connection and no data;
`MultipartUpload` one image and its parts in S3; `PresignBatch` many files and one
request at a time; `BatchLocks` many images and several transactions. An
operation of the code therefore appears in more than one of them.

### SharedConn

`pc[r]` is the call that the handler of `r` makes next or waits for. A call on
the connection has two steps: `Send` takes the lock and sends the command, and
one action per kind of command (`BeginReply`, `WriteReply`, `ReadReply`,
`CommitReply`, `RollbackReply`) reads the answer and releases the lock. Between
the two any other handler may be refused (`Refused`), the client may go away
(`Cancel`, then `Interrupted`), the connection may be lost (`LoseConn`) or the
process restarted (`Restart`).

| Variable | Code |
|---|---|
| `conn`, `wire` | `PgConn.status`, and whose command is awaited; busy without a command on the wire is a lock that is never released |
| `clobbered` | `PgConn.resultReader` was reset by `execExtendedPrefix`, which does so before it takes the lock |
| `session` | the server's transaction status (I, T, E) and uncommitted writes |
| `need` | the statements that the files of the request call for; `Remaining` chooses them when the answer to the first statement shows which files are stored |
| `overlapped`, `faults` | history, for properties and bounds |

Data are abstracted: a write is the pair of a request and the kind of statement,
the content of lots and files does not appear, and a constraint violation is a
statement that is declined (`Decline`). Three data races of the driver can only
arise while requests overlap. Two are on its parameter builder and its statement
cache; what parameters are sent is not modelled. The third is on the lock itself:
`pgconn.lock` (`pgconn.go:771`) reads `status` and then writes it, with nothing to
make that one step. `Send` takes it as one, so two handlers that both find the
connection idle at the same instant, and both write to it, are not modelled: what
is shown of overlapping requests is shown of those that `lock` tells apart. Go's
context of a request also ends when its handler returns; nothing uses it after that.

A completion is one S3 step here, because all its S3 calls leave the connection
alone; `MultipartUpload` has them one by one.

### MultipartUpload

Replicas with a connection each serve the clients, so the database isolates
their transactions: `staged[c]` is the row that the transaction of `c` has
written and locked, invisible until `Commit`. This is the service as it behaves
when requests do not meet on a connection; `SharedConn` is about when they do.
A plan is a deployed value of `partSize`; it cuts the image into `Count[plan]`
parts, and the etag of a part is its content, the pair of its number and its
plan. S3 keeps, per upload, the last part put under each number. `Upserted` is
the CASE of the upsert; `Resumed` what `listNotUploadedParts` returns;
`CheckParts` and `Finish` the second half of `completeMultiPartUpload`. Clients,
S3, the expiry of `valid_until`, a deployment and the consumer are actions of
the environment.

A handler between two calls may end at any of them (`Abort`): an error of S3 or
of the database, or the process stopping. An upload that it created stays in S3.

`AtomicUploads` is what an observer of the table, of S3's objects and of the
responses sees: no handlers, transactions, locks or parts. A presign is `Resume`,
`Renew` or `Begin`, one step; `Assemble`, `Verify` and `Enter` are the rest of an
attempt's life. The mapping (`UploadsAreAtomic`) keeps `rows` and `blob`, takes
from a held response its attempt, upload and plan (`Given`), and from `objects`
the uploads that have one.

### PartPlan and PresignBatch

`PartPlan` is arithmetic: `UploadType` (the strict comparison with
`multipartThreshold`), `Int32` (the conversion of the file size), `PartCount` (the
generated column, with the truncating division of PostgreSQL), `Parts`
(`generate_series`) and `Missing`. `CutsExactly` is the reference: each piece of
the image is in one part, and no part is empty. Sizes are counted in a unit; with
2 MiB the constants of the service are `PartSize` 5, `Threshold` 75, `Word` 1024
(2^31 bytes), and the limit of the protobuf rule is 3072.

`PresignBatch` follows one GeneratePresignedUrl at a time through its statements:
`ParseLotId`, `LinkIdentical`, `InsertSingle`, `InsertMulti`, `Commit`, `Convert`.

| Variable | Code |
|---|---|
| `files`, `lot` | the request; a file is its place in it (`client_file_id` is made of it) |
| `todo` | the map of files still to be uploaded |
| `linked` | the rows of `lot_images` inserted by the request |
| `staged` | the attempts its transaction has inserted or locked |
| `reply` | the lists of the response: duplicates, stored, urls |
| `rows`, `stored` | `image_blob_upload_attempts`, `image_blobs` |
| `panicked` | history: the images whose missing upload id was dereferenced |

A digest is an image and how its digits are spelled, `lower` or not: SQL
returns lower case, the maps of the handler are keyed by what the client sent.
So a file with an upper case digest misses its entry in a map, as in the code:
a single upload gets the url of the nil UUID, a multipart one the zero
`uploadFile`, whose empty id makes `Convert` fail after the commit. An upsert
whose argument has the same image twice is refused as PostgreSQL refuses it
(`Repeats`); a row for a lot that does not exist meets a foreign key
(`LotRefused`). A row that is pending keeps its type and size; when it is a
single upload and the request takes it for a multipart one, the missing
upload id is dereferenced and the process ends (`NilUploadIds`).

### BatchLocks

The transactions of several replicas, and what each has locked. `Walks` are the
orders in which Go may walk the map of files; cut into the two upserts it leaves
the small images in any order, then the large ones in any order. `LockRow` takes
the next row once no other transaction has it.
Locks are held over `ListParts` until `Commit` or `Rollback`. `Victim` is the
deadlock detector of PostgreSQL, which refuses the statement of a transaction
that waits for itself; `Crash` the end of a connection or process. Clients send
a batch again, also when they have not seen the answer to the first.

A batch that took place is not always answered so. `Commit` is the step in which
COMMIT takes effect, and what the handler still does after it: `tx.Commit` returns
an error when the connection is lost before the database has answered; the response
that cannot be converted makes GeneratePresignedUrl return an error after the commit
(`Convertible`; the calls in `Upper` spell the digest of a large image in upper
case, as in `PresignBatch`); the response may be lost. The conversion reads and
writes nothing that another handler sees, so it is part of the step. A COMMIT that
is lost before it takes effect is a `Crash`: the handler that lost only its
connection answers an error, the process that ends answers nothing. Digests of small
images in upper case are left to `PresignBatch`: the upsert of single uploads answers
them with a url, of the wrong key.

`AtomicBatches` has neither locks nor orders: `Serve` gives every image of the
batch that has no attempt one of a new transaction, and answers with the table as
it is then, or with an error all the same, or not at all. So "ok" is answered only
for a batch that took place, while an error says nothing of whether it did; a client
that repeats the batch gets the attempts that the first call left, which is part of
`BatchesAgree`. The mapping (`BatchesAreAtomic`) has `rows`, `committed`, `held` and
`answer` as they are, and takes for `asked` the batches whose handler is not idle.

### ErrorTranslation

An error is a record, and refers to those it wraps by their place among the
errors built so far; its message is abstracted to that place, so that a client
message shows whose text it holds, how often and in which order. The actions
build errors as the handlers do, in any order and nesting, `Mark` changes
the marks of the last one, `Respond` is the interceptor. Computed by recursion
over what an error wraps (`generateClientFields`, a recursive function, with the
accumulator as its value), the answer has two references beside it. `Expected` is
by paths through the tree, with the order and number of messages. `Shown` is by
closure: the errors for the client among the least set that has the returned
error and, with an error that does not hide them, those it wraps.

## 3. Runs

| Run | Question | Result |
|---|---|---|
| `overlap` | a CreateLot and two presigns at once, one that may be cancelled, one fault, under fairness | `TypeOK`, `NoLeakedTx`, `SoloAckDurable`, `SoloAllOrNothing`, `ConnOutlivesErrors`, `EveryRequestAnswered` hold |
| `serial` | four requests one after another, cancellations, one fault | the handlers implement `AtomicRequests` (`KeepsPromise`) |
| `lot_kept` | does an acknowledged lot stay? | `AckedLotKept` violated |
| `attempts` | two clients, an expiry, a deployment, early completions, a failing S3 | `TypeOK`, `RowsHaveUploads`, `OnePendingRow`, `ResponsesAreWhole`, `AttemptsAreStable` hold, and the handlers implement `AtomicUploads` (`UploadsAreAtomic`) |
| `object` | is a completed upload a whole object, when S3 does not fail, attempts do not expire and clients wait for their etags, through a deployment? | `AckMeansObject`, `ObjectsAreWhole` hold |
| `batch` | two requests of up to three files, of a small image, a large one and one that is now below and now at the threshold, either spelling, any lot | `TypeOK`, `EveryFileOnce`, `ImagesAreServed`, `PartsCutImage`, `OkMeansLotExists`, `PanicNeedsTwoClasses` hold |
| `locks` | three batches that can wait for each other in rings of two and of three, sent twice, one whose first response cannot be converted, one fault, under fairness | `TypeOK`, `BatchesAgree`, `RowsAreCommitted`, `EveryBatchEnds` hold, and the handlers implement `AtomicBatches` (`BatchesAreAtomic`) |
| `errors` | every tree of up to four errors | `AnswersWhatIsVisible`, `ShownIsTold`, `PrivateStaysPrivate` hold |
| `sizes` | are images cut exactly up to the size that the protobuf rule allows? | `PartsCutImage` violated |
| `swallowed` | `object` with one failing S3 call | `AckMeansObject` violated |
| `early` | `object` with a client that completes before it has all etags | `ObjectsAreWhole` violated |
| `redeployed` | `object` with an attempt that expires across a deployment | `ObjectsAreWhole` violated |

What the violations show:

1. `lot_kept`. GeneratePresignedUrl begins; CreateLot inserts its lot, in that
   transaction, and answers "Lot Created"; the presign request fails and rolls
   the lot back. (A Begin or a deferred Rollback that finds the connection busy
   even makes the driver close it, and the process has no other.)
2. `sizes`. An image of 2^31 bytes or more has another size in its row; at the
   limit itself the size is negative and no part has a url.
3. `swallowed`. `image_upload.go:620` builds the error and drops it.
4. `early`. The number of parts in S3 is checked, the list of the request is
   assembled.
5. `redeployed`. The renewed attempt keeps its upload and the old parts in it
   under the new part size; a second presign takes them for its own.

`object` differs from the last three by one assumption each, which is what its
result depends on: S3 does not fail the completion, clients wait for all their
etags, no attempt expires. With them the attempt's part size is stable, and that
carries the property through a deployment.

**Bounds.** `SharedConn`: `MaxInFlight` handlers at a time (3: one that holds a
transaction, one whose command is on the wire, and one that is refused or
disturbs both; 1 for serial traffic), `MaxFaults` connection losses or restarts
(1: the effect of a fault does not depend on earlier ones, the new connection is
like the first). Every request may fail at every call. `MultipartUpload`: two
clients with two or three calls (enough to presign, presign again and complete),
uploads and attempts to serve them, one expiry, one deployment, two or three
parts. `PresignBatch`: three files make a duplicate, its original and another
image, or one image in both spellings beside another; two requests make rows of
the first meet the second, in the same size class or the other; the three images
have sizes 14, 14 or 15, and 26 with a threshold of 15 and parts of 5. Only the
last meets the premise of `PartsCutImage`, a multipart image whose size all requests
agree on: an image of exactly the threshold, or of a whole number of parts, and
sizes cut to 32 bits are left to the theorems `PartsCut` and `SmallImagesAreCut`,
which are for all sizes, and to run `sizes`.
`BatchLocks`: three batches over three large images make the rings of two and of
three, and the small one the order of the two statements; one call in `Upper`, whose
repetition is not, makes a batch that took place, was answered an error and is sent
again. `ErrorTranslation`:
four errors make a wrapped join, two visible errors below one that merges, and a
marked error under an unmarked one. All behaviours of these models end (sent
requests are bounded), so deadlock in the sense of TLC is not checked; that
handlers do not wait for ever is `EveryRequestAnswered` and `EveryBatchEnds`.

**Fairness.** `SharedConn`: weak fairness of every handler. The Go runtime
schedules every goroutine, the lock of pgconn never blocks, and a call that is
sent is answered or ends in an error. `BatchLocks`: weak fairness of every
handler, which is enabled only when it need not wait, and of `Victim`, because
PostgreSQL looks for a deadlock whenever a transaction has waited for
`deadlock_timeout`. Nothing is assumed of clients, time, deployments, faults or
the consumer. The other modules state safety only and assume none.

## 4. Theorems

**`SharedConnProofs`**, for any set of requests, kinds, cancellations and bounds:

- `TypeCorrect`: `TypeOK` is inductive as it stands.
- `NeverLeaksTx`: `NoLeakedTx` is inductive with `TypeOK`. A step either leaves
  the session without a transaction, or leaves every handler that is inside one
  inside (`StayInTx`). The one delicate case is a refused COMMIT, which leaves
  its transaction without a holder: the driver then closes the connection unless
  the status it last read is idle.
- `SoloAckIsDurable` and `SoloIsAtomic`, from the inductive invariant `SoloInv`.
  Its parts: `KindInv` (the calls and statements of each RPC), `SessionInv` (no
  uncommitted writes outside a transaction), `AloneInv` (a running request that
  has met no other is the only one running), `OverInv` (uncommitted writes are
  of requests that run or have overlapped), `FreshInv` (until a request that is
  alone ends, nothing of it is committed) and `ProgressInv` (the transaction of
  a request that is alone holds every statement it has made so far). They are
  needed because the two properties speak of committed writes only, while the
  effect of COMMIT depends on what the session holds at that moment.
- `ConnOutlives`, from `CalmInv`: without fault, cancellation or overlap the
  lock is held only while a command is on the wire and its reader is intact.

**`AtomicityProofs`**: `SerialRefinement`, the refinement `KeepsPromise` for any
requests, kinds, cancellations and faults, when `MaxInFlight = 1`. The invariant
`AtomicInv` is `SoloInv` of requests of which none has met another (`SerialInv`;
`ArrivesAlone` counts those that run), with `AnswerInv`: who is not over has no
answer. Its consequence `EffectsWhole` makes the mapping work: the effect of a
request is none or all, and all when it has been answered with success. Then a
step of a handler moves one request from open, and its effect stays or takes
place (`OpenMoves`); so does the loss of the connection, and a restart is `Stop`
with the effects that landed.

**`MultipartUploadProofs`**, for any clients, uploads, attempts, part sizes and
bounds: `TypeCorrect`, `UploadsOfRows`, `OneRow`, `WholeResponses` and
`StableAttempts`, the five properties of run `attempts`. None but the types is
inductive, because what a commit does to the rows was decided steps before, in
the upsert. The invariant `IInv` adds what holds in between:

- `AtHand`: a handler has what its next call uses, and a staged row exactly
  between its upsert and its end;
- `OneHolder`: one transaction has staged at a time, as the upsert waits;
- `OnePending`: two pending rows are the same row;
- `StagedFits`: the staged row is new, or renews the one pending row, expired,
  under the same upload (`WriteFits`); the reply is about that row
  (`ReplyFits`) and misses no part (`Covers`);
- `FreshFits`: an upload created for a request that has not reached its upsert
  is in no row, in no staged row, and no other request's.

Two facts about steps carry the proof. Rows change by a commit, or else they
settle: an upload or part size never changes and nothing becomes pending or
valid (`RowsSettled`). And uploads never become absent (`UploadsStayed`). So
only `Upsert` establishes `StagedFits`, and only `Commit` uses it.

**`WholeObjectProofs`**: `ObjectWhole` and `AckIsTrue`, the two properties of run
`object`, under the assumptions of that run and for any clients, uploads, part
sizes and deployments. `Lasting` (no attempt expires) and `Patient` (clients wait
for all their etags) give that an object is all the parts of one part size: rows
are then written once, so nobody has put a part into an upload before its row is
committed and its parts are of the part size of the row (`PartsInv`); the etags of
a response are listed by S3 and of the same part size (`PlanInv`); and a client
that completes keeps all its etags, for the upload that was read, while it waits
(`CompleteInv`). With `Reliable` (S3 fails no call) the dropped error is harmless:
a completion that S3 refuses names parts that S3 has (`FinishWhole`), hence of an
upload that is not open, hence completed, and its object is there (`ObjectInv`).
Each assumption is needed: `early`, `redeployed` and `swallowed` drop one each.

The module also has `UploadRefinement`, the refinement `UploadsAreAtomic`, under
none of these assumptions. What makes a presign one step is what its transaction
knows of the row it has locked (`LockInv`): the row is pending or not inserted
yet, and the reply has the plan that it has or will have, however long ago the
upsert was. That stays true until the commit because others only let the row's
term end (`LockedRowStays`, from `RowsSettled`). So `CommitMaps` finds `Resume`,
`Renew` or `Begin` by what is staged, and the response is the row of that instant
(`CommitTells`). `ReadInv` (what is completed is the upload of the attempt held)
and `DoneInv` (an upload with an object is not open, and is a row's) make an
assembly happen once, for an upload of a row, and keep `Begin` from taking one
that has an object. All other steps of handlers and clients are unseen.

**`PresignBatchProofs`**: `LotExists`, no success for a lot that is not there. The
invariant says what a request for such a lot can still have: nothing linked, no
file of a class whose upsert it has passed, and some file; when both
upserts are passed this is impossible. `PanicTwoClasses`: a missing upload id is
dereferenced only for an image with sizes of both classes, because every row,
staged or not, is of the class of some size given for its image. `FilesOnce`:
every file is in one list. `OnceInv` says that at each statement the places of
the request are spread over the two lists and `todo`, and that once both upserts
are passed the urls cover `todo`, each place once, unless one is of no place (the
zero `uploadFile`), which `Convert` refuses. That a multipart class has a url
for each of its places rests on counting: an upsert that is not refused has as
many images as places, so no two places share an image (`OwnImages`). `TypeCorrect`:
the types.

**`PresignServedProofs`**: `ImagesServed`, for any files. `ServeInv` follows a text
through the statements: before the stored files are known each text of the request
is to be uploaded (`FirstOfText`: the first file with it is no duplicate, by
the well-foundedness of the natural numbers); then those of linked images are not,
and all others are; the row of each is held from its upsert to the commit, and is
pending or stored from then on.

Also there, about the arithmetic of `PartPlan`: `SmallImagesAreCut`, an image below
2^31 bytes is cut exactly by the parts of its row, for every part size and
threshold; and `OnePageOfParts`, images up to a thousand parts fit one answer of
ListParts, which with the constants of the service is every image the protobuf
rule allows. `PartsCut` carries the first through the requests: `PartsCutImage`,
where every size given for an image is below 2^31 bytes, which is what run `sizes`
shows to be needed. `CutInv`: a row, staged or committed, has the `int32` of a size that
some request gave for its image (`Sized`); a url of parts splits the parts of such a
size into those to upload and those S3 lists, which are disjoint (`SplitsRow`, by
`MultiSplits` for the upsert's urls); an answer of success has a file for each url.

**`BatchLocksProofs`**, for any batches, images and orders of locks: `TypeCorrect`,
`CommittedRows`, `Agreement` and `BatchRefinement`. A transaction holds attempts
that are committed or its own, and an idle batch holds none (`OwnOrCommitted`). For
`BatchesAgree` the invariant adds that a row is locked by one batch at a time
(`Exclusive`), that what a batch holds and still queues is every image it wants and
no other (`Covering`), and that what it holds of an image is still what its upsert
would return now (`Current`): nobody else can commit that row. The refinement
`BatchesAreAtomic` needs no more of the locks, since by `Current` the rows that a
commit writes are those that `Serve` writes at that instant (`ReplyIsTable`),
whether it is then answered with them, with an error or not at all (`CommitMaps`); it
adds that a transaction commits once, under an identity not used before (`Fresh`),
and that who is served has no answer yet (`Waiting`).

**`ErrorTranslationProofs`**, for any number of errors in any shape: `ShownErrors`,
`PrivateErrors` and `OrderedErrors`. The invariant says that errors refer to at
most two earlier ones and speak for themselves (`WellBuilt`), and that an answer is
the translation of the last error. The recursion is over the place of an error
among those built: that `generateClientFields` is the function its equation
describes, and that it finds the messages of exactly the errors in view (`ViewHas`,
`FoundShown`), is shown by a least counterexample (`NatLessThanWellFounded`), which
needs no induction rule with an operator as its parameter.

`OrderedErrors` is about order and number. A result *lists* a set of paths
(`Lists`) when there is a sequence that has them all, each before the next
(`Before`), and the messages and fields of the result are those of the errors at
their ends, laid end to end, and its first error is the first of these. The paths
from an error are the empty one and those of its wrapped errors after one more
choice (`PathsSplit`), and so are the visible ones unless the error hides the
others (`VisibleSplit`). Everything the code does keeps a listing: an error for
the client adds itself in front (`SaidLists`), one more branch of a joined error
comes after those to the left of it (`ListsBranch`, `BranchesList`), for which
`FlattenSeq` must turn concatenation into concatenation (`FlattenConcat`). So what
is found from any error lists what is visible from it (`FoundLists`); and as
`Before` is strict, the `n`th path of a listing is the one with `n - 1` before it,
which is how the reference chooses it (`ListingCounts`).

Assumptions are those of the constants, named in the modules: the kinds are the
three RPCs, cancellable requests are requests, deployed part sizes are positive
and cut the image into at least one part, sizes and bounds are natural numbers, `None` is no
request, upload, row, transaction or response, the images of a batch are finitely
many. `NewUpload` and `Target` choose some value that
S3 or PostgreSQL is free to choose; no proof uses which.

Model-checked only: liveness (`EveryRequestAnswered`, `EveryBatchEnds`), which is
out of the prover's reach. Every other property of a passing run is a theorem.

## 5. Not modelled

- Expired attempts inside a batch (`PresignBatch`, `BatchLocks`): expiry is in
  `MultipartUpload`, image by image, which is how the upsert treats it. Images
  that become stored while batches wait for each other.
- Digests with a mix of cases count as upper case: both miss every map entry.
  Digests that are not hexadecimal: the protobuf rule checks only that there are
  64 characters. PostgreSQL refuses to decode them in the statements that have them
  as arguments (and `hexToBase64`, for single uploads, would), so the request fails
  before its commit, like one whose call fails (`CallFails`).
- gRPC statuses that are wrapped by other errors: the handlers return them bare.
- The version trigger of the attempts, columns nobody reads, and how often an
  image is linked to a lot: `lot_images` has no rule for it.
- The consumer of the change stream, beyond that it commits attempts whose
  object exists and records the image: it is not in this repository.
- Data races inside the driver, which are possible only while requests overlap: on
  its parameter builder and statement cache (which parameters are sent is
  abstracted), and on the status that `pgconn.lock` reads and then writes (`Send` is
  one step).
- Start-up failures and the listener: the process then serves nothing. Generated
  code, build and migration tools have no state of the service.

## 6. What is left

A `MultipartUpload` whose clients' requests meet on one connection: the
composition with `SharedConn`, without data, for the rollback of an attempt
another request has been answered.
