--------------------------- MODULE MultipartUpload ---------------------------
(***************************************************************************)
(* Uploading one large image to one lot: GeneratePresignedUrl creates a    *)
(* multipart upload in S3, inserts or takes over the pending row of        *)
(* image_blob_upload_attempts and hands out urls; clients put parts into   *)
(* S3 directly; CompleteMultiPartUpload checks and assembles them.         *)
(*                                                                         *)
(* Requests are served by replicas with a connection each, so that the     *)
(* database isolates their transactions (SharedConn is about requests that *)
(* share one): what a transaction has staged is invisible until it         *)
(* commits, and the unique index on pending rows makes the second insert   *)
(* of the same image wait for the first.                                   *)
(*                                                                         *)
(* A plan is a value of the constant partSize, which a deployment may      *)
(* change: it cuts the image into Count[plan] parts.  The etag of a part   *)
(* is its content, the pair <<number, plan>>.  An upload stands for its    *)
(* storage key as well, each has one of its own.                           *)
(***************************************************************************)
EXTENDS Naturals, FiniteSets

CONSTANTS Clients,      \* the clients that upload the image
          Eager,        \* clients that may ask to complete before they have all
          Uploads,      \* bound: multipart uploads S3 creates
          Attempts,     \* bound: rows of image_blob_upload_attempts
          Count,        \* Count[plan]: parts of the image, per deployed partSize
          MaxCalls,     \* bound: requests of each client
          MaxExpiries,  \* bound: times that valid_until passes
          MaxS3Faults,  \* bound: CompleteMultipartUpload calls that S3 fails
          None          \* no row, no upload, no response

Plans == DOMAIN Count
Numbers(plan) == 1..Count[plan]
AllNumbers == UNION {Numbers(plan) : plan \in Plans}

Rows == [state : {"pending", "committed"}, upload : Uploads, plan : Plans,
         valid : BOOLEAN]
Etags == AllNumbers \X Plans
Responses == [attempt : Attempts, upload : Uploads, plan : Plans,
              urls : SUBSET AllNumbers, etags : SUBSET Etags]
Writes == [attempt : Attempts, row : Rows \cup {None}]
Items == [upload : Uploads, count : Nat]

ASSUME EagerAssumption == Eager \subseteq Clients
ASSUME CountAssumption == /\ 1 \in Plans /\ Plans \subseteq Nat \ {0}
                          /\ Count \in [Plans -> Nat \ {0}]
ASSUME NoneAssumption == None \notin Uploads \cup Rows \cup Responses \cup Writes \cup Items
ASSUME LimitsAssumption == MaxCalls \in Nat /\ MaxExpiries \in Nat /\ MaxS3Faults \in Nat

VARIABLES pc,        \* pc[c]: the call the handler of c's request makes next
          calls,     \* calls[c]: requests made by c
          fresh,     \* fresh[c]: the upload created for c's request
          staged,    \* staged[c]: the row c's transaction has written and locked
          reply,     \* reply[c]: the response being built
          item,      \* item[c]: the row CompleteMultiPartUpload has read
          held,      \* held[c]: the response c works from, with its etags
          answer,    \* answer[c]: what the last completion of c was answered
          rows,      \* rows[a]: an attempt, or None
          uploads,   \* uploads[u]: [state, parts] of a multipart upload
          objects,   \* objects[u]: the parts of the assembled object, or {}
          blob,      \* image_blobs has the image as completed
          plan,      \* the deployed partSize
          expiries, faults

handlerVars == <<pc, calls, fresh, staged, reply, item, held, answer>>
s3Vars == <<uploads, objects>>
boundVars == <<plan, expiries, faults>>
vars == <<handlerVars, rows, s3Vars, blob, boundVars>>

-----------------------------------------------------------------------------
Parts(u) == {n \in AllNumbers : uploads[u].parts[n] # 0}

\* The etags ListParts returns.
Listed(u) == {<<n, uploads[u].parts[n]>> : n \in Parts(u)}

\* The pending row of the image and lot; the unique index allows one.
PendingRows == {a \in Attempts : rows[a] # None /\ rows[a].state = "pending"}

\* The client has an etag for every part of its plan.
HasAll(c) == {etag[1] : etag \in held[c].etags} = Numbers(held[c].plan)

Goto(c, call) == pc' = [pc EXCEPT ![c] = call]

Init ==
  /\ pc = [c \in Clients |-> "idle"]
  /\ calls = [c \in Clients |-> 0]
  /\ fresh = [c \in Clients |-> None]
  /\ staged = [c \in Clients |-> None]
  /\ reply = [c \in Clients |-> None]
  /\ item = [c \in Clients |-> None]
  /\ held = [c \in Clients |-> None]
  /\ answer = [c \in Clients |-> "none"]
  /\ rows = [a \in Attempts |-> None]
  /\ uploads = [u \in Uploads |-> [state |-> "absent", parts |-> [n \in AllNumbers |-> 0]]]
  /\ objects = [u \in Uploads |-> {}]
  /\ blob = FALSE
  /\ plan = 1 /\ expiries = 0 /\ faults = 0

\* A client sends a request once its last one is answered.
Call(c, call) ==
  /\ pc[c] = "idle" /\ calls[c] < MaxCalls
  /\ calls' = [calls EXCEPT ![c] = @ + 1]
  /\ Goto(c, call)
  /\ UNCHANGED <<fresh, staged, reply, item, held, rows, s3Vars, blob, boundVars>>

Presign(c) == Call(c, "link") /\ UNCHANGED answer

Complete(c) == /\ held[c] # None
               /\ c \in Eager \/ HasAll(c)
               /\ Call(c, "read")
               /\ answer' = [answer EXCEPT ![c] = "none"]

-----------------------------------------------------------------------------
(* GeneratePresignedUrl *)

\* InsertIdenticalImageBlobsToLotImages: an image that is stored is linked to
\* the lot and needs no upload.
LinkIdentical(c) ==
  /\ pc[c] = "link"
  /\ Goto(c, IF blob THEN "idle" ELSE "create")
  /\ UNCHANGED <<calls, fresh, staged, reply, item, held, answer, rows, s3Vars,
                 blob, boundVars>>

\* Uploads that S3 has not created yet; which name it gives is immaterial.
AbsentUploads == {u \in Uploads : uploads[u].state = "absent"}
NewUpload == CHOOSE u \in AbsentUploads : TRUE

\* Identities no row has and no transaction has drawn; which of them the next
\* row gets is immaterial.
AbsentRows ==
  {a \in Attempts : /\ rows[a] = None
                    /\ \A c \in Clients : staged[c] # None => staged[c].attempt # a}

\* The row the upsert finds, or the one it inserts.
Target == IF PendingRows # {} THEN CHOOSE a \in PendingRows : TRUE
          ELSE CHOOSE a \in AbsentRows : TRUE

\* Mutant: the id that S3 returns is not kept.
CreateUploadUnnamed(c) ==
  /\ pc[c] = "create"
  /\ AbsentUploads # {}
  /\ uploads' = [uploads EXCEPT ![NewUpload].state = "open"]
  /\ Goto(c, "upsert")
  /\ UNCHANGED <<calls, fresh, staged, reply, item, held, answer, rows, objects,
                 blob, boundVars>>

\* Mutant: the upload of an earlier request of the client is taken again.
CreateUploadCached(c) ==
  /\ pc[c] = "create"
  /\ AbsentUploads # {}
  /\ LET u == IF fresh[c] # None THEN fresh[c] ELSE NewUpload IN
       /\ uploads' = [uploads EXCEPT ![u].state = "open"]
       /\ fresh' = [fresh EXCEPT ![c] = u]
  /\ Goto(c, "upsert")
  /\ UNCHANGED <<calls, staged, reply, item, held, answer, rows, objects, blob,
                 boundVars>>

\* extractFileData: a multipart upload of its own for every request, before it
\* is known whether the row has one already.
CreateUpload(c) ==
  /\ pc[c] = "create"
  /\ AbsentUploads # {}
  /\ uploads' = [uploads EXCEPT ![NewUpload].state = "open"]
  /\ fresh' = [fresh EXCEPT ![c] = NewUpload]
  /\ Goto(c, "upsert")
  /\ UNCHANGED <<calls, staged, reply, item, held, answer, rows, objects, blob,
                 boundVars>>

\* Mutant: the upsert renews the part size of a row that is still valid.
UpsertedAlways(c, a) ==
  IF rows[a] = None
  THEN [state |-> "pending", upload |-> fresh[c], plan |-> plan, valid |-> TRUE]
  ELSE [rows[a] EXCEPT !.plan = plan, !.valid = TRUE]

\* The row the upsert leaves: the new upload for a new row; the row as it is
\* while it is valid; with the deployed part size and a new term once expired.
Upserted(c, a) ==
  IF rows[a] = None
  THEN [state |-> "pending", upload |-> fresh[c], plan |-> plan, valid |-> TRUE]
  ELSE IF rows[a].valid THEN rows[a]
  ELSE [rows[a] EXCEPT !.plan = plan, !.valid = TRUE]

\* Mutant: the parts are those of the deployed part size, not of the row's.
AllPartsDeployed(a, row) == [attempt |-> a, upload |-> row.upload, plan |-> plan,
                             urls |-> Numbers(plan), etags |-> {}]

\* The urls of a row that is new or has expired are those of every part.
AllParts(a, row) == [attempt |-> a, upload |-> row.upload, plan |-> row.plan,
                     urls |-> Numbers(row.plan), etags |-> {}]

\* Mutant: the pending row of another transaction is not waited for.
RowIsFreeAlways(c) == TRUE

\* No other transaction has the pending row locked.
RowIsFree(c) == \A d \in Clients \ {c} : staged[d] = None

\* InsertAndValidateMultiPartUpload and segregateMultiUploadFiles: the lock of
\* the row is waited for, and held until the transaction ends. A valid row is
\* written back as it is.
Upsert(c) ==
  /\ pc[c] = "upsert"
  /\ RowIsFree(c)
  /\ PendingRows \cup AbsentRows # {}
  /\ LET a == Target
         row == Upserted(c, a)
         resumed == rows[a] # None /\ rows[a].valid
     IN
       /\ staged' = [staged EXCEPT ![c] =
            [attempt |-> a, row |-> IF row = rows[a] THEN None ELSE row]]
       /\ reply' = [reply EXCEPT ![c] = AllParts(a, row)]
       /\ Goto(c, IF resumed THEN "list" ELSE "commit")
  /\ UNCHANGED <<calls, fresh, item, held, answer, rows, s3Vars, blob, boundVars>>

\* The handler of c gives up: its transaction is rolled back, an upload it
\* created in S3 stays.
Rollback(c) ==
  /\ staged' = [staged EXCEPT ![c] = None]
  /\ Goto(c, "idle")
  /\ UNCHANGED <<calls, fresh, reply, item, held, rows, s3Vars, blob, boundVars>>

\* Mutant: the parts that S3 has are left out of the urls and of the etags.
ResumedNoEtags(c) ==
  LET u == reply[c].upload IN
  [reply[c] EXCEPT !.urls = @ \ Parts(u)]

\* listNotUploadedParts: urls for the parts that S3 does not list, and the etags
\* of those it does.
Resumed(c) ==
  LET u == reply[c].upload IN
  [reply[c] EXCEPT !.urls = @ \ Parts(u), !.etags = Listed(u)]

\* ListParts of an upload that is not open any more fails the request.
ListMissing(c) ==
  /\ pc[c] = "list"
  /\ IF uploads[reply[c].upload].state = "open"
     THEN /\ reply' = [reply EXCEPT ![c] = Resumed(c)]
          /\ Goto(c, "commit")
          /\ UNCHANGED <<calls, fresh, staged, item, held, rows, s3Vars, blob,
                         boundVars>>
     ELSE Rollback(c)
  /\ UNCHANGED answer

\* The transaction commits; the response may be lost on its way.
Commit(c) ==
  /\ pc[c] = "commit"
  /\ rows' = IF staged[c].row = None THEN rows
             ELSE [rows EXCEPT ![staged[c].attempt] = staged[c].row]
  /\ staged' = [staged EXCEPT ![c] = None]
  /\ held' \in {held, [held EXCEPT ![c] = reply[c]]}
  /\ Goto(c, "idle")
  /\ UNCHANGED <<calls, fresh, reply, item, answer, s3Vars, blob, boundVars>>

-----------------------------------------------------------------------------
(* CompleteMultiPartUpload *)

\* GetMultiPartUploadItem, outside any transaction.
ReadItem(c) ==
  /\ pc[c] = "read"
  /\ item' = [item EXCEPT ![c] = [upload |-> rows[held[c].attempt].upload,
                                  count  |-> Count[rows[held[c].attempt].plan]]]
  /\ Goto(c, "check")
  /\ UNCHANGED <<calls, fresh, staged, reply, held, answer, rows, s3Vars, blob,
                 boundVars>>

\* The parts S3 lists are counted. Another number is refused, an upload that is
\* not open any more is an error.
CheckParts(c) ==
  LET complete == /\ uploads[item[c].upload].state = "open"
                  /\ Cardinality(Parts(item[c].upload)) = item[c].count
  IN
  /\ pc[c] = "check"
  /\ Goto(c, IF complete THEN "finish" ELSE "idle")
  /\ answer' = IF complete THEN answer ELSE [answer EXCEPT ![c] = "error"]
  /\ UNCHANGED <<calls, fresh, staged, reply, item, held, rows, s3Vars, blob,
                 boundVars>>

\* S3 assembles the parts that the request names, if it has them as named.
Assemblable(c) == /\ uploads[item[c].upload].state = "open"
                  /\ held[c].etags # {}
                  /\ held[c].etags \subseteq Listed(item[c].upload)

Assemble(c) == /\ uploads' = [uploads EXCEPT ![item[c].upload].state = "done"]
               /\ objects' = [objects EXCEPT ![item[c].upload] = held[c].etags]

\* Whatever S3 answers to CompleteMultipartUpload, the client is told success:
\* the error is built and dropped.
Finish(c) ==
  /\ pc[c] = "finish"
  /\ \/ Assemblable(c) /\ Assemble(c) /\ UNCHANGED faults
     \/ ~Assemblable(c) /\ UNCHANGED <<uploads, objects, faults>>
     \/ faults < MaxS3Faults /\ faults' = faults + 1 /\ UNCHANGED <<uploads, objects>>
  /\ answer' = [answer EXCEPT ![c] = "ok"]
  /\ Goto(c, "idle")
  /\ UNCHANGED <<calls, fresh, staged, reply, item, held, rows, blob, plan, expiries>>

\* Before its last call a handler may fail or its process stop.
Abort(c) ==
  /\ pc[c] \notin {"idle", "finish"}
  /\ Rollback(c)
  /\ answer' = IF pc[c] \in {"read", "check"} THEN [answer EXCEPT ![c] = "error"]
               ELSE answer

-----------------------------------------------------------------------------
(* Clients, time, deployments, and the consumer of the attempts table. *)

\* A client puts a part, cut as its response says, into S3.
PutPart(c, n) ==
  /\ held[c] # None /\ n \in held[c].urls
  /\ uploads[held[c].upload].state = "open"
  /\ uploads' = [uploads EXCEPT ![held[c].upload].parts[n] = held[c].plan]
  /\ held' = [held EXCEPT ![c].urls  = @ \ {n},
                          ![c].etags = @ \cup {<<n, held[c].plan>>}]
  /\ UNCHANGED <<pc, calls, fresh, staged, reply, item, answer, rows, objects,
                 blob, boundVars>>

\* valid_until passes.
Expire(a) ==
  /\ a \in PendingRows /\ rows[a].valid /\ expiries < MaxExpiries
  /\ rows' = [rows EXCEPT ![a].valid = FALSE]
  /\ expiries' = expiries + 1
  /\ UNCHANGED <<handlerVars, s3Vars, blob, plan, faults>>

\* A deployment with another partSize.
Deploy ==
  /\ plan + 1 \in Plans
  /\ plan' = plan + 1
  /\ UNCHANGED <<handlerVars, rows, s3Vars, blob, expiries, faults>>

\* The consumer of the attempts table commits an attempt whose object is there,
\* waiting for the row like everybody else,
Verify(a) ==
  /\ a \in PendingRows /\ objects[rows[a].upload] # {}
  /\ \A c \in Clients : staged[c] = None
  /\ rows' = [rows EXCEPT ![a].state = "committed"]
  /\ UNCHANGED <<handlerVars, s3Vars, blob, boundVars>>

\* and enters the image into image_blobs.
StoreBlob ==
  /\ ~blob /\ \E a \in Attempts : rows[a] # None /\ objects[rows[a].upload] # {}
  /\ blob' = TRUE
  /\ UNCHANGED <<handlerVars, rows, s3Vars, boundVars>>

Handle(c) == \/ LinkIdentical(c) \/ CreateUpload(c) \/ Upsert(c) \/ ListMissing(c)
             \/ Commit(c) \/ ReadItem(c) \/ CheckParts(c) \/ Finish(c)

Next == \/ \E c \in Clients : \/ Presign(c) \/ Complete(c) \/ Handle(c) \/ Abort(c)
                              \/ \E n \in AllNumbers : PutPart(c, n)
        \/ \E a \in Attempts : Expire(a) \/ Verify(a)
        \/ Deploy \/ StoreBlob

Spec == Init /\ [][Next]_vars

-----------------------------------------------------------------------------
(* Properties *)

\* Every variable has its type.
TypeOK ==
  /\ pc \in [Clients -> {"idle", "link", "create", "upsert", "list", "commit",
                         "read", "check", "finish"}]
  /\ calls \in [Clients -> 0..MaxCalls]
  /\ fresh \in [Clients -> Uploads \cup {None}]
  /\ staged \in [Clients -> Writes \cup {None}]
  /\ reply \in [Clients -> Responses \cup {None}]
  /\ item \in [Clients -> Items \cup {None}]
  /\ held \in [Clients -> Responses \cup {None}]
  /\ answer \in [Clients -> {"none", "ok", "error"}]
  /\ rows \in [Attempts -> Rows \cup {None}]
  /\ uploads \in [Uploads -> [state : {"absent", "open", "done"},
                              parts : [AllNumbers -> Plans \cup {0}]]]
  /\ objects \in [Uploads -> SUBSET Etags]
  /\ blob \in BOOLEAN
  /\ plan \in Plans
  /\ expiries \in 0..MaxExpiries
  /\ faults \in 0..MaxS3Faults

\* Every row refers to a multipart upload that exists in S3, and no two rows to
\* the same one, through rollbacks, retries and processes that stop between
\* CreateMultipartUpload and the commit (extractFileData before the insert).
RowsHaveUploads ==
  \A a \in Attempts : rows[a] # None =>
    /\ uploads[rows[a].upload].state # "absent"
    /\ \A b \in Attempts \ {a} : rows[b] # None => rows[a].upload # rows[b].upload

\* However many clients ask at the same time, the image has one pending row, so
\* that all of them put their parts into the same upload (the partial unique
\* index and the ON CONFLICT of the upsert).
OnePendingRow == Cardinality(PendingRows) <= 1

\* What a client holds is about the upload of its attempt, never about the one
\* its own request created and the upsert did not take; with the parts it got
\* urls for and the etags it was given, no part of its plan is missing.
ResponsesAreWhole ==
  \A c \in Clients : held[c] # None =>
    /\ rows[held[c].attempt] # None
    /\ rows[held[c].attempt].upload = held[c].upload
    /\ Numbers(held[c].plan) \subseteq
         held[c].urls \cup {etag[1] : etag \in held[c].etags}

\* While an attempt is valid its part size does not change, whatever is deployed
\* meanwhile, and its upload never does: parts that were put stay usable
\* (the CASE in the upsert's DO UPDATE).
AttemptsAreStable ==
  [][\A a \in Attempts : rows[a] # None =>
       /\ rows'[a].upload = rows[a].upload
       /\ rows[a].valid /\ rows'[a].valid => rows'[a].plan = rows[a].plan]_vars

\* The attempt, upload and plan of a response; its urls and etags are the client's.
Given(response) == IF response = None THEN None
                   ELSE [attempt |-> response.attempt, upload |-> response.upload,
                         plan |-> response.plan]

Atomic == INSTANCE AtomicUploads WITH
            given  <- [c \in Clients |-> Given(held[c])],
            stored <- {u \in Uploads : objects[u] # {}}

\* Whatever handlers run at the same time, wait for the row, fail or stop, each
\* presign comes to one atomic step at its commit: it finds, renews or inserts
\* the pending row, and its response is that row as it is then; the upload of a
\* row is assembled once, and only a row whose object is there is committed.
UploadsAreAtomic == Atomic!Spec

\* "Upload Completed" (image_store.go) is answered only when the object exists.
AckMeansObject ==
  \A c \in Clients : answer[c] = "ok" => objects[item[c].upload] # {}

\* An object is assembled from all the parts of one plan: what the check of the
\* listed parts against part_count is there to ensure.
ObjectsAreWhole ==
  \A u \in Uploads : objects[u] # {} =>
    \E p \in Plans : objects[u] = {<<n, p>> : n \in Numbers(p)}
=============================================================================
