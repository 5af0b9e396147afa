----------------------------- MODULE PresignBatch -----------------------------
(***************************************************************************)
(* What GeneratePresignedUrl does with the files of a request: duplicates, *)
(* images that are stored already, size classes, rows of the two upserts,  *)
(* urls, and the lists of the response.                                    *)
(*                                                                         *)
(* One lot, one request at a time (SharedConn and BatchLocks have several),*)
(* but the rows outlive it.  A file of a request is its place in it.  A    *)
(* digest is an image and how its hexadecimal digits are spelled: SQL      *)
(* returns lower case, the maps of the handler are keyed by the text.  The *)
(* storage key of a pending row is its image: there is one for each.       *)
(***************************************************************************)
EXTENDS PartPlan, Sequences, FiniteSets

CONSTANTS Images,    \* the images that clients have
          Claims,    \* Claims[d]: the sizes that requests give for image d
          MaxFiles,  \* bound: files of a request
          MaxCalls,  \* bound: requests
          None       \* no row; the nil UUID

ASSUME ClaimsAssumption == Claims \in [Images -> SUBSET Nat]
ASSUME LimitsAssumption == MaxFiles \in Nat /\ MaxCalls \in Nat

VARIABLES pc,       \* the call the handler makes next
          calls,    \* requests so far
          files,    \* the files of the request
          lot,      \* its lot id
          todo,     \* the places still to be uploaded
          linked,   \* the images linked to the lot by the request
          staged,   \* the rows its transaction has written or locked
          reply,    \* the lists of the response
          answer,   \* the code of the response
          rows,     \* rows[d]: the pending attempt of image d, or None
          stored,   \* the images in image_blobs
          panicked  \* the images whose missing upload id was dereferenced

requestVars == <<calls, files, lot>>
vars == <<pc, requestVars, todo, linked, staged, reply, answer, rows, stored, panicked>>

-----------------------------------------------------------------------------
File == UNION {[image : {d}, lower : BOOLEAN, size : Claims[d]] : d \in Images}

AttemptRows == [type : {"singleUpload", "multiUpload"}, size : Int]

ASSUME NoneAssumption == None \notin AttemptRows

Text(i) == <<files[i].image, files[i].lower>>

ImagesOf(places) == {files[i].image : i \in places}

\* intentBatchUpload: the places whose digest an earlier place has.
Duplicates(fs) == {i \in DOMAIN fs : \E j \in 1..(i - 1) :
                     fs[j].image = fs[i].image /\ fs[j].lower = fs[i].lower}

NoReply == [duplicate |-> {}, stored |-> {}, urls |-> {}]

Init == /\ pc = "idle" /\ calls = 0 /\ files = <<>> /\ lot = "known"
        /\ todo = {} /\ linked = {} /\ staged = <<>>
        /\ reply = NoReply /\ answer = "none"
        /\ rows = [d \in Images |-> None] /\ stored = {}
        /\ panicked = {}

\* The handler returns; a transaction that is open is rolled back.
Return(code) == /\ pc' = "idle" /\ answer' = code
                /\ staged' = <<>>
                /\ UNCHANGED <<requestVars, todo, linked, reply, rows, stored, panicked>>

Request(fs, id) ==
  /\ pc = "idle" /\ calls < MaxCalls
  /\ pc' = "parse"
  /\ calls' = calls + 1 /\ files' = fs /\ lot' = id
  /\ todo' = DOMAIN fs \ Duplicates(fs)
  /\ reply' = [NoReply EXCEPT !.duplicate = Duplicates(fs)]
  /\ linked' = {} /\ answer' = "none"
  /\ UNCHANGED <<staged, rows, stored, panicked>>

\* uuid.Parse, then Begin.
ParseLotId ==
  /\ pc = "parse"
  /\ IF lot = "malformed" THEN Return("InvalidArgument")
     ELSE /\ pc' = "link"
          /\ UNCHANGED <<requestVars, todo, linked, staged, reply, answer, rows,
                         stored, panicked>>

-----------------------------------------------------------------------------
(* InsertIdenticalImageBlobsToLotImages and what it leaves to upload *)

\* Mutant: the foreign keys are not checked.
LotRefusedNever(inserted) == FALSE

\* The foreign key on the lot: a row for a lot that does not exist.
LotRefused(inserted) == inserted # {} /\ lot = "unknown"

\* Mutant: the rows that SQL returns are not looked up.
StoredFilesNone(found) == {}

\* separateUploadedAndNeedToBeUploadedFiles: the files whose text is a digest
\* that SQL returned.
StoredFiles(found) == {i \in todo : \E d \in found : Text(i) = <<d, TRUE>>}

LinkIdentical ==
  LET found == ImagesOf(todo) \cap stored IN
  /\ pc = "link"
  /\ IF LotRefused(found) THEN Return("FailedPrecondition")
     ELSE /\ pc' = "single"
          /\ linked' = found
          /\ reply' = [reply EXCEPT !.stored = StoredFiles(found)]
          /\ todo' = todo \ StoredFiles(found)
          /\ UNCHANGED <<requestVars, staged, answer, rows, stored, panicked>>

-----------------------------------------------------------------------------
(* The two upserts of generateS3UploadUrl *)

InClass(type) == {i \in todo : UploadType(files[i].size) = type}

\* Two rows of one statement for the same image: PostgreSQL refuses to update a
\* row a second time.
Repeats(places) == Cardinality(ImagesOf(places)) < Cardinality(places)

Row(d) == IF d \in DOMAIN staged THEN staged[d] ELSE rows[d]

\* Mutant: both upserts are given the type of a single upload.
NewRowSingle(i, type) == [type |-> "singleUpload", size |-> Int32(files[i].size)]

NewRow(i, type) == [type |-> type, size |-> Int32(files[i].size)]

\* Mutant: only rows that were there before are returned.
UpsertedRead(places, d, type) == Row(d)

\* A row that is pending stays what it is.
Upserted(places, d, type) ==
  IF Row(d) # None THEN Row(d)
  ELSE NewRow(CHOOSE i \in places : files[i].image = d, type)

Staging(places, type) ==
  [d \in DOMAIN staged \cup ImagesOf(places) |->
     IF d \in ImagesOf(places) THEN Upserted(places, d, type) ELSE staged[d]]

\* The key is looked up under the text of the file; a text that SQL did not
\* return finds the nil UUID.
SingleUrl(i) == [file |-> i, multi |-> FALSE, parts |-> {}, listed |-> {},
                 key |-> IF files[i].lower THEN files[i].image ELSE None]

\* createSinglePresignedFileUrl
InsertSingle ==
  LET places == InClass("singleUpload") IN
  /\ pc = "single"
  /\ CASE places # {} /\ Repeats(places) -> Return("Internal")
       [] places # {} /\ ~Repeats(places) /\ LotRefused(ImagesOf(places))
            -> Return("FailedPrecondition")
       [] OTHER ->
            /\ pc' = "multi"
            /\ staged' = Staging(places, "singleUpload")
            /\ reply' = [reply EXCEPT !.urls = {SingleUrl(i) : i \in places}]
            /\ UNCHANGED <<requestVars, todo, linked, answer, rows, stored, panicked>>

\* The file is looked up under the digest that SQL returned; for a file that has
\* it in upper case this is the zero uploadFile.
FileOf(places, d) == IF \E i \in places : Text(i) = <<d, TRUE>>
                     THEN CHOOSE i \in places : Text(i) = <<d, TRUE>> ELSE 0

MultiUrl(places, d, listed) ==
  LET parts == Parts(Staging(places, "multiUpload")[d].size) IN
  [file |-> FileOf(places, d), multi |-> TRUE, key |-> d,
   parts |-> Missing(parts, listed), listed |-> parts \cap listed]

\* The parts S3 may list for a row: none for a new one.
Listings(d) == IF Row(d) = None THEN {{}} ELSE {{}, {1}}

\* The rows of single uploads have no upload id; it is dereferenced all the same.
NilUploadIds(places) ==
  {d \in ImagesOf(places) : Staging(places, "multiUpload")[d].type = "singleUpload"}

\* createMultipartPresignedFileUrl
InsertMulti ==
  LET places == InClass("multiUpload") IN
  /\ pc = "multi"
  /\ CASE places # {} /\ Repeats(places) -> Return("Internal")
       [] places # {} /\ ~Repeats(places) /\ LotRefused(ImagesOf(places))
            -> Return("FailedPrecondition")
       [] ~Repeats(places) /\ ~LotRefused(ImagesOf(places))
            /\ NilUploadIds(places) # {} ->
            /\ pc' = "idle" /\ staged' = <<>>
            /\ panicked' = panicked \cup NilUploadIds(places)
            /\ UNCHANGED <<requestVars, todo, linked, reply, answer, rows, stored>>
       [] OTHER ->
            /\ pc' = "commit"
            /\ staged' = Staging(places, "multiUpload")
            /\ \E listed \in [ImagesOf(places) -> SUBSET {1}] :
                 /\ \A d \in ImagesOf(places) : listed[d] \in Listings(d)
                 /\ reply' = [reply EXCEPT !.urls = @ \cup
                      {MultiUrl(places, d, listed[d]) : d \in ImagesOf(places)}]
            /\ UNCHANGED <<requestVars, todo, linked, answer, rows, stored, panicked>>

Commit ==
  /\ pc = "commit"
  /\ pc' = "convert"
  /\ rows' = [d \in Images |-> Row(d)]
  /\ staged' = <<>>
  /\ UNCHANGED <<requestVars, todo, linked, reply, answer, stored, panicked>>

\* Mutant: a file id that is no number becomes 0.
ConvertibleAlways(url) == TRUE

\* convertToImageFile: Atoi fails on the empty id of the zero uploadFile.
Convertible(url) == url.file # 0

\* The response is converted after the commit, and may fail then.
Convert ==
  /\ pc = "convert"
  /\ Return(IF \A url \in reply.urls : Convertible(url) THEN "ok" ELSE "Internal")

\* Any call on the database or S3 may fail before the commit.
CallFails == pc \in {"link", "single", "multi", "commit"} /\ Return("Internal")

-----------------------------------------------------------------------------
\* The consumer of the attempts: the image of a pending row is stored.
Store(d) ==
  /\ rows[d] # None /\ d \notin DOMAIN staged
  /\ rows' = [rows EXCEPT ![d] = None]
  /\ stored' = stored \cup {d}
  /\ UNCHANGED <<pc, requestVars, todo, linked, staged, reply, answer, panicked>>

Batches == UNION {[1..n -> File] : n \in 0..MaxFiles}

Next == \/ \E fs \in Batches, id \in {"known", "unknown", "malformed"} : Request(fs, id)
        \/ ParseLotId \/ LinkIdentical \/ InsertSingle \/ InsertMulti
        \/ Commit \/ Convert \/ CallFails
        \/ \E d \in Images : Store(d)

Spec == Init /\ [][Next]_vars

-----------------------------------------------------------------------------
(* Properties *)

Urls == [file : 0..MaxFiles, multi : BOOLEAN, key : Images \cup {None},
         parts : SUBSET Nat, listed : SUBSET {1}]

\* Every variable has its type.
TypeOK ==
  /\ pc \in {"idle", "parse", "link", "single", "multi", "commit", "convert"}
  /\ calls \in 0..MaxCalls
  /\ files \in Batches
  /\ lot \in {"known", "unknown", "malformed"}
  /\ todo \subseteq DOMAIN files
  /\ linked \subseteq Images
  /\ DOMAIN staged \subseteq Images
  /\ \A d \in DOMAIN staged : staged[d] \in AttemptRows
  /\ reply.duplicate \cup reply.stored \subseteq DOMAIN files
  /\ \A url \in reply.urls : url \in Urls
  /\ answer \in {"none", "ok", "Internal", "InvalidArgument", "FailedPrecondition"}
  /\ rows \in [Images -> AttemptRows \cup {None}]
  /\ stored \subseteq Images
  /\ panicked \subseteq Images

\* A response accounts for every file of its request in exactly one of its three
\* lists, with one url at most, through both maps keyed by digest texts, their
\* random order, and digests spelled in either case.
EveryFileOnce ==
  answer = "ok" =>
    /\ DOMAIN files = reply.duplicate \cup reply.stored \cup {url.file : url \in reply.urls}
    /\ reply.duplicate \cap reply.stored = {}
    /\ \A url \in reply.urls :
         /\ url.file \notin reply.duplicate \cup reply.stored
         /\ \A other \in reply.urls : other.file = url.file => other = url

\* An image whose digest the client spells as SQL does is either linked to the
\* lot or has a url, never both; the url is for the key of its pending row until
\* the image is stored (skipUploadForIdenticalImageBlobs, the maps of the rows
\* that the upserts return).
ImagesAreServed ==
  answer = "ok" =>
    \A i \in DOMAIN files : files[i].lower =>
      LET d == files[i].image
          mine == {url \in reply.urls : url.file # 0 /\ Text(url.file) = Text(i)}
      IN IF d \in linked THEN mine = {}
         ELSE /\ \E url \in mine : url.key = d
              /\ rows[d] # None \/ d \in stored

\* The parts that a client is told, to upload or uploaded, cut an image exactly
\* whose size all requests agree on (part_count, int32(file.FileSize)).
PartsCutImage ==
  answer = "ok" =>
    \A url \in reply.urls :
      url.multi /\ (\A m, n \in Claims[url.key] : m = n) =>
        /\ url.parts \cap url.listed = {}
        /\ CutsExactly(url.parts \cup url.listed, files[url.file].size)

\* No request is acknowledged for a lot that does not exist: whatever its files
\* need, some row of it meets a foreign key.
OkMeansLotExists == answer = "ok" /\ files # <<>> => lot = "known"

\* A handler dereferences a missing upload id only for an image that requests
\* put into different size classes: a pending row keeps its class.
PanicNeedsTwoClasses ==
  \A d \in panicked : \E m, n \in Claims[d] : UploadType(m) # UploadType(n)
=============================================================================
