-------------------------- MODULE WholeObjectProofs --------------------------
(***************************************************************************)
(* What CompleteMultiPartUpload promises, and under which assumptions: an  *)
(* attempt does not expire while it is used, clients complete an upload    *)
(* when they have all its etags, and S3 does not fail to assemble it.      *)
(* And, under none of them, that presigns are atomic (AtomicUploads).      *)
(***************************************************************************)
EXTENDS MultipartUploadProofs

\* Attempts do not expire.
Lasting == MaxExpiries = 0

\* Clients wait for all their etags.
Patient == Eager = {}

\* S3 assembles what it can.
Reliable == MaxS3Faults = 0

AllValid ==
  /\ \A a \in Attempts : rows[a] # None => rows[a].valid
  /\ \A c \in Clients : staged[c] # None /\ staged[c].row # None => staged[c].row.valid

Empty(u) == \A n \in AllNumbers : uploads[u].parts[n] = 0

\* The parts of an upload that are there are cut by plan p.
CutBy(u, p) == \A n \in AllNumbers : uploads[u].parts[n] \in {0, p}

\* Nobody has put parts into an upload before its row is committed; after it they
\* are cut by the plan of the row.
PartsInv ==
  /\ \A u \in Uploads : uploads[u].state = "absent" => Empty(u)
  /\ \A c \in Clients : pc[c] = "upsert" => Empty(fresh[c])
  /\ \A c \in Clients : staged[c] # None /\ staged[c].row # None
                          => Empty(staged[c].row.upload)
  /\ \A a \in Attempts : rows[a] # None => CutBy(rows[a].upload, rows[a].plan)

\* The etags of a response are those of parts in S3.
Fits(response) == /\ response.urls \subseteq Numbers(response.plan)
                  /\ response.etags \subseteq Listed(response.upload)

\* Responses have the plan of their row.
PlanInv ==
  /\ \A c \in Clients : staged[c] # None =>
       /\ Fits(reply[c])
       /\ reply[c].plan = IF staged[c].row = None THEN rows[staged[c].attempt].plan
                          ELSE staged[c].row.plan
  /\ \A c \in Clients : held[c] # None =>
       /\ Fits(held[c])
       /\ held[c].plan = rows[held[c].attempt].plan

\* With valid rows a row that is about to be written is a new one.
LEMMA StagedIsNew ==
  ASSUME IInv, AllValid, NEW c \in Clients, staged[c] # None, staged[c].row # None
  PROVE  /\ staged[c].attempt \in Attempts /\ staged[c].row \in Rows
         /\ rows[staged[c].attempt] = None
         /\ \A b \in Attempts : rows[b] # None => rows[b].upload # staged[c].row.upload
  <1>1. staged[c].attempt \in Attempts /\ staged[c].row \in Rows
    BY DEF IInv, TypeOK, Writes
  <1>2. WriteFits(c)
    BY DEF IInv, StagedFits
  <1>3. rows[staged[c].attempt] = None
    BY <1>1, <1>2 DEF WriteFits, AllValid
  <1>4. QED
    BY <1>1, <1>2, <1>3 DEF WriteFits, HasUpload

-----------------------------------------------------------------------------
(* What steps do *)

\* A transaction that is open after a step was open before it, or has just
\* made its upsert; its reply changes when the parts are listed.
LEMMA StagedSteps ==
  ASSUME IInv, [Next]_vars, NEW c \in Clients, staged'[c] # None
  PROVE  \/ Upsert(c)
         \/ ListMissing(c) /\ staged'[c] = staged[c] /\ reply'[c] = Resumed(c)
         \/ staged'[c] = staged[c] /\ reply'[c] = reply[c]
  <1> USE DEF handlerVars, s3Vars, boundVars
  <1>0. TypeOK
    BY DEF IInv
  <1>1. ASSUME NEW d \in Clients, Upsert(d) \/ ListMissing(d) \/ Commit(d) \/ Abort(d)
        PROVE  \/ Upsert(c)
               \/ ListMissing(c) /\ staged'[c] = staged[c] /\ reply'[c] = Resumed(c)
               \/ staged'[c] = staged[c] /\ reply'[c] = reply[c]
    BY <1>0, <1>1 DEF TypeOK, Upsert, ListMissing, Commit, Abort, Rollback
  <1>2. ASSUME NEW d \in Clients,
               \/ Presign(d) \/ Complete(d) \/ LinkIdentical(d) \/ CreateUpload(d)
               \/ ReadItem(d) \/ CheckParts(d) \/ Finish(d)
               \/ \E n \in AllNumbers : PutPart(d, n)
        PROVE staged' = staged /\ reply' = reply
    BY <1>2 DEF Presign, Complete, Call, LinkIdentical, CreateUpload, ReadItem,
                CheckParts, Finish, PutPart
  <1>3. ASSUME (\E a \in Attempts : Expire(a) \/ Verify(a)) \/ Deploy \/ StoreBlob
               \/ UNCHANGED vars
        PROVE staged' = staged /\ reply' = reply
    BY <1>3 DEF Expire, Verify, Deploy, StoreBlob, vars
  <1>4. QED
    BY <1>1, <1>2, <1>3 DEF Next, Handle

\* A client gets a response from its commit, and works on it by putting parts.
LEMMA HeldSteps ==
  ASSUME IInv, [Next]_vars, NEW c \in Clients
  PROVE  \/ held'[c] = held[c]
         \/ Commit(c) /\ held'[c] = reply[c]
         \/ \E n \in AllNumbers : PutPart(c, n)
  <1> USE DEF handlerVars, s3Vars, boundVars
  <1>0. TypeOK
    BY DEF IInv
  <1>1. ASSUME NEW d \in Clients, Commit(d) \/ \E n \in AllNumbers : PutPart(d, n)
        PROVE  \/ held'[c] = held[c]
               \/ Commit(c) /\ held'[c] = reply[c]
               \/ \E n \in AllNumbers : PutPart(c, n)
    <2>1. CASE c # d
      <3>1. CASE Commit(d)
        BY <1>0, <2>1, <3>1 DEF TypeOK, Commit
      <3>2. ASSUME NEW n \in AllNumbers, PutPart(d, n) PROVE held'[c] = held[c]
        <4>1. held' = [held EXCEPT ![d] = [held[d] EXCEPT !.urls = @ \ {n},
                                      !.etags = @ \cup {<<n, held[d].plan>>}]]
          BY <3>2 DEF PutPart
        <4>2. QED
          BY <1>0, <2>1, <4>1 DEF TypeOK
      <3>3. QED
        BY <1>1, <3>1, <3>2
    <2>2. CASE c = d
      BY <1>0, <1>1, <2>2 DEF TypeOK, Commit
    <2>3. QED
      BY <2>1, <2>2
  <1>2. ASSUME NEW d \in Clients,
               \/ Presign(d) \/ Complete(d) \/ LinkIdentical(d) \/ CreateUpload(d)
               \/ Upsert(d) \/ ListMissing(d) \/ ReadItem(d) \/ CheckParts(d)
               \/ Finish(d) \/ Abort(d)
        PROVE held' = held
    BY <1>2 DEF Presign, Complete, Call, LinkIdentical, CreateUpload, Upsert, ListMissing,
                Rollback, ReadItem, CheckParts, Finish, Abort
  <1>3. ASSUME (\E a \in Attempts : Expire(a) \/ Verify(a)) \/ Deploy \/ StoreBlob
               \/ UNCHANGED vars
        PROVE held' = held
    BY <1>3 DEF Expire, Verify, Deploy, StoreBlob, vars
  <1>4. QED
    BY <1>1, <1>2, <1>3 DEF Next, Handle

\* Parts change when a client puts one.
LEMMA PartsSteps ==
  ASSUME IInv, [Next]_vars
  PROVE  \/ \A u \in Uploads : uploads'[u].parts = uploads[u].parts
         \/ \E c \in Clients, n \in AllNumbers : PutPart(c, n)
  <1> USE DEF handlerVars, s3Vars, boundVars
  <1>0. TypeOK
    BY DEF IInv
  <1>1. ASSUME NEW u \in Uploads, NEW state, uploads' = [uploads EXCEPT ![u].state = state]
        PROVE  \A v \in Uploads : uploads'[v].parts = uploads[v].parts
    BY <1>0, <1>1 DEF TypeOK
  <1>2. ASSUME NEW c \in Clients, CreateUpload(c)
        PROVE  \A v \in Uploads : uploads'[v].parts = uploads[v].parts
    BY <1>1, <1>2, NewUploadType DEF CreateUpload
  <1>3. ASSUME NEW c \in Clients, Finish(c)
        PROVE  \A v \in Uploads : uploads'[v].parts = uploads[v].parts
    <2>1. item[c].upload \in Uploads
      BY <1>3, NoneAssumption DEF IInv, Finish, AtHand, TypeOK, Items
    <2>2. QED
      BY <1>1, <1>3, <2>1 DEF Finish, Assemble
  <1>4. ASSUME NEW c \in Clients,
               \/ Presign(c) \/ Complete(c) \/ LinkIdentical(c) \/ Upsert(c)
               \/ ListMissing(c) \/ Commit(c) \/ ReadItem(c) \/ CheckParts(c) \/ Abort(c)
        PROVE uploads' = uploads
    BY <1>4 DEF Presign, Complete, Call, LinkIdentical, Upsert, ListMissing, Rollback,
                Commit, ReadItem, CheckParts, Abort
  <1>5. ASSUME (\E a \in Attempts : Expire(a) \/ Verify(a)) \/ Deploy \/ StoreBlob
               \/ UNCHANGED vars
        PROVE uploads' = uploads
    BY <1>5 DEF Expire, Verify, Deploy, StoreBlob, vars
  <1>6. QED
    BY <1>2, <1>3, <1>4, <1>5 DEF Next, Handle

\* What putting a part does.
LEMMA PutEffect ==
  ASSUME TypeOK, NEW c \in Clients, NEW n \in AllNumbers, PutPart(c, n)
  PROVE  LET u == held[c].upload
         IN /\ u \in Uploads /\ held[c] \in Responses
            /\ \A v \in Uploads \ {u} : uploads'[v] = uploads[v]
            /\ uploads[u].state = "open" /\ uploads'[u].state = "open"
            /\ uploads'[u].parts[n] = held[c].plan
            /\ \A m \in AllNumbers \ {n} : uploads'[u].parts[m] = uploads[u].parts[m]
            /\ held'[c].plan = held[c].plan /\ held'[c].upload = u
            /\ held'[c].attempt = held[c].attempt
            /\ held'[c].urls = held[c].urls \ {n} /\ n \in held[c].urls
            /\ held'[c].etags = held[c].etags \cup {<<n, held[c].plan>>}
            /\ UNCHANGED <<pc, fresh, staged, reply, rows>>
  <1>1. PICK u \in Uploads : u = held[c].upload
    BY DEF TypeOK, PutPart, Responses
  <1>2. held[c] \in Responses
    BY DEF TypeOK, PutPart
  <1>3. PICK part : part = <<n, held[c].plan>>
    OBVIOUS
  <1>4. held'[c] = [held[c] EXCEPT !.urls = @ \ {n}, !.etags = @ \cup {part}]
    BY <1>3 DEF TypeOK, PutPart
  <1>5. /\ held'[c].plan = held[c].plan /\ held'[c].upload = u
        /\ held'[c].attempt = held[c].attempt
        /\ held'[c].urls = held[c].urls \ {n}
        /\ held'[c].etags = held[c].etags \cup {part}
    BY <1>1, <1>2, <1>4 DEF Responses
  <1>6. uploads[u] \in [state : {"absent", "open", "done"},
                        parts : [AllNumbers -> Plans \cup {0}]]
    BY DEF TypeOK
  <1>7. uploads' = [uploads EXCEPT ![u].parts[n] = held[c].plan]
    BY <1>1 DEF PutPart
  <1>8. /\ \A v \in Uploads \ {u} : uploads'[v] = uploads[v]
        /\ uploads'[u] = [uploads[u] EXCEPT !.parts[n] = held[c].plan]
    BY <1>7 DEF TypeOK
  <1>9. /\ uploads'[u].state = uploads[u].state
        /\ uploads'[u].parts[n] = held[c].plan
        /\ \A m \in AllNumbers \ {n} : uploads'[u].parts[m] = uploads[u].parts[m]
    BY <1>6, <1>8
  <1>10. QED
    BY <1>1, <1>2, <1>3, <1>5, <1>8, <1>9 DEF PutPart

-----------------------------------------------------------------------------
(* Rows stay valid *)

LEMMA ValidStep ==
  ASSUME IInv, AllValid, Lasting, [Next]_vars
  PROVE  AllValid'
  <1> USE DEF handlerVars, s3Vars, boundVars
  <1>0. TypeOK
    BY DEF IInv
  <1>1. ASSUME NEW a \in Attempts, rows'[a] # None PROVE rows'[a].valid
    <2>1. ASSUME NEW c \in Clients, Commit(c) PROVE rows'[a].valid
      BY <1>1, <2>1, Committing DEF AllValid
    <2>2. ASSUME NEW b \in Attempts, Expire(b) PROVE FALSE
      BY <1>0, <2>2 DEF Expire, Lasting, TypeOK
    <2>3. ASSUME NEW b \in Attempts, Verify(b) PROVE rows'[a].valid
      <3>1. rows[b] \in Rows /\ rows[b].valid
        BY <1>0, <2>3 DEF Verify, PendingRows, TypeOK, AllValid
      <3>2. rows' = [rows EXCEPT ![b] = [rows[b] EXCEPT !.state = "committed"]]
        BY <2>3 DEF Verify
      <3>3. [rows[b] EXCEPT !.state = "committed"].valid
        BY <3>1 DEF Rows
      <3>4. QED
        BY <1>0, <1>1, <3>2, <3>3 DEF AllValid, TypeOK
    <2>4. CASE rows' = rows
      BY <1>1, <2>4 DEF AllValid
    <2>5. ASSUME NEW c \in Clients,
               \/ Presign(c) \/ Complete(c) \/ LinkIdentical(c) \/ CreateUpload(c)
               \/ Upsert(c) \/ ListMissing(c) \/ ReadItem(c) \/ CheckParts(c)
               \/ Finish(c) \/ Abort(c) \/ \E n \in AllNumbers : PutPart(c, n)
          PROVE rows' = rows
      BY <2>5 DEF Presign, Complete, Call, LinkIdentical, CreateUpload, Upsert, ListMissing,
                  Rollback, ReadItem, CheckParts, Finish, Abort, PutPart
    <2>6. ASSUME Deploy \/ StoreBlob \/ UNCHANGED vars PROVE rows' = rows
      BY <2>6 DEF Deploy, StoreBlob, vars
    <2>7. QED
      BY <2>1, <2>2, <2>3, <2>4, <2>5, <2>6 DEF Next, Handle
  <1>2. ASSUME NEW c \in Clients, staged'[c] # None, staged'[c].row # None
        PROVE  staged'[c].row.valid
    <2>1. CASE staged'[c] = staged[c]
      BY <1>2, <2>1 DEF AllValid
    <2>2. CASE Upsert(c)
      <3>1. PICK row : row = Upserted(c, Target)
        OBVIOUS
      <3>2. Target \in Attempts
        BY <2>2, TargetType DEF Upsert
      <3>3. staged'[c].row = row
        BY <1>0, <1>2, <2>2, <3>1 DEF Upsert, TypeOK
      <3>4. rows[Target] # None => row = rows[Target]
        BY <3>1, <3>2 DEF Upserted, AllValid
      <3>5. rows[Target] = None => row.valid
        BY <3>1 DEF Upserted
      <3>6. QED
        BY <3>2, <3>3, <3>4, <3>5 DEF AllValid
    <2>3. QED
      BY <1>2, <2>1, <2>2, StagedSteps
  <1>3. QED
    BY <1>1, <1>2 DEF AllValid

-----------------------------------------------------------------------------
(* Parts of one plan *)

\* A part that is put belongs to the plan of the row of its upload, so that what
\* is in S3 stays there, and other uploads are left alone.
LEMMA PutKeeps ==
  ASSUME IInv, PartsInv, PlanInv, NEW c \in Clients, NEW n \in AllNumbers, PutPart(c, n)
  PROVE  \E u \in Uploads :
            /\ u = held[c].upload
            /\ rows[held[c].attempt] # None /\ held[c].attempt \in Attempts
            /\ rows[held[c].attempt].upload = u
            /\ held[c].plan = rows[held[c].attempt].plan /\ held[c].plan \in Plans
            /\ \A v \in Uploads : Listed(v) \subseteq Listed(v)'
            /\ <<n, held[c].plan>> \in Listed(u)'
            /\ \A m \in AllNumbers : uploads'[u].parts[m] \in {0, held[c].plan}
  <1>0. TypeOK
    BY DEF IInv
  <1>1. held[c] # None /\ held[c] \in Responses
    BY <1>0 DEF PutPart, TypeOK
  <1>2. PICK u \in Uploads : u = held[c].upload
    BY <1>1 DEF Responses
  <1>3. /\ rows[held[c].attempt] # None /\ held[c].attempt \in Attempts
        /\ rows[held[c].attempt].upload = u
        /\ held[c].plan = rows[held[c].attempt].plan /\ held[c].plan \in Plans
    BY <1>1, <1>2 DEF IInv, ResponsesAreWhole, PlanInv, Responses
  <1>4. held[c].plan # 0
    BY <1>3, CountAssumption
  <1>5. CutBy(u, held[c].plan)
    BY <1>3 DEF PartsInv
  <1>6. /\ \A v \in Uploads \ {u} : uploads'[v] = uploads[v]
        /\ uploads'[u].parts[n] = held[c].plan
        /\ \A m \in AllNumbers \ {n} : uploads'[u].parts[m] = uploads[u].parts[m]
        /\ held'[c].plan = held[c].plan
    BY <1>0, <1>2, PutEffect
  <1>7. \A m \in AllNumbers : uploads'[u].parts[m] \in {0, held[c].plan}
    BY <1>5, <1>6 DEF CutBy
  <1>8. <<n, held[c].plan>> \in Listed(u)'
    <2>1. n \in Parts(u)'
      BY <1>4, <1>6 DEF Parts
    <2>2. QED
      BY <1>6, <2>1 DEF Listed
  <1>9. ASSUME NEW v \in Uploads PROVE Listed(v) \subseteq Listed(v)'
    <2>1. CASE v # u
      BY <1>6, <2>1 DEF Listed, Parts
    <2>2. CASE v = u
      <3>1. SUFFICES ASSUME NEW m \in Parts(u)
                     PROVE  <<m, uploads[u].parts[m]>> \in Listed(u)'
        BY <2>2 DEF Listed
      <3>2. m \in AllNumbers /\ uploads[u].parts[m] = held[c].plan
        BY <1>5 DEF CutBy, Parts
      <3>3. uploads'[u].parts[m] = held[c].plan
        BY <1>6, <3>2
      <3>4. m \in Parts(u)'
        BY <1>4, <3>2, <3>3 DEF Parts
      <3>5. QED
        BY <3>2, <3>3, <3>4 DEF Listed
    <2>3. QED
      BY <2>1, <2>2
  <1>10. QED
    BY <1>2, <1>3, <1>7, <1>8, <1>9

LEMMA ListedGrows ==
  ASSUME IInv, PartsInv, PlanInv, [Next]_vars, NEW u \in Uploads
  PROVE  Listed(u) \subseteq Listed(u)'
  <1>1. CASE \A v \in Uploads : uploads'[v].parts = uploads[v].parts
    BY <1>1 DEF Listed, Parts
  <1>2. ASSUME NEW c \in Clients, NEW n \in AllNumbers, PutPart(c, n)
        PROVE  Listed(u) \subseteq Listed(u)'
    BY <1>2, PutKeeps
  <1>3. QED
    BY <1>1, <1>2, PartsSteps

\* A request reaches its upsert with the upload just created for it.
LEMMA FreshSteps ==
  ASSUME IInv, [Next]_vars, NEW c \in Clients, pc'[c] = "upsert"
  PROVE  CreateUpload(c) \/ (pc[c] = "upsert" /\ fresh'[c] = fresh[c])
  <1> USE DEF handlerVars, s3Vars, boundVars, Goto
  <1>0. TypeOK
    BY DEF IInv
  <1>1. ASSUME NEW d \in Clients,
               \/ Presign(d) \/ Complete(d) \/ LinkIdentical(d) \/ Upsert(d)
               \/ ListMissing(d) \/ Commit(d) \/ ReadItem(d) \/ CheckParts(d)
               \/ Finish(d) \/ Abort(d) \/ \E n \in AllNumbers : PutPart(d, n)
        PROVE  pc[c] = "upsert" /\ fresh'[c] = fresh[c]
    <2>1. fresh' = fresh
      BY <1>1 DEF Presign, Complete, Call, LinkIdentical, Upsert, ListMissing, Rollback,
                  Commit, ReadItem, CheckParts, Finish, Abort, PutPart
    <2>2. \/ \E call \in {"link", "idle", "create", "list", "commit", "read",
                          "check", "finish"} : pc' = [pc EXCEPT ![d] = call]
          \/ pc' = pc
      BY <1>1 DEF Presign, Complete, Call, LinkIdentical, Upsert, ListMissing, Rollback,
                  Commit, ReadItem, CheckParts, Finish, Abort, PutPart
    <2>3. QED
      BY <1>0, <2>1, <2>2 DEF TypeOK
  <1>2. ASSUME NEW d \in Clients, d # c, CreateUpload(d)
        PROVE  pc[c] = "upsert" /\ fresh'[c] = fresh[c]
    BY <1>0, <1>2 DEF CreateUpload, TypeOK
  <1>3. ASSUME (\E a \in Attempts : Expire(a) \/ Verify(a)) \/ Deploy \/ StoreBlob
               \/ UNCHANGED vars
        PROVE pc' = pc /\ fresh' = fresh
    BY <1>3 DEF Expire, Verify, Deploy, StoreBlob, vars
  <1>4. QED
    BY <1>1, <1>2, <1>3 DEF Next, Handle

\* With valid rows an upsert writes a new row with the upload of its request, or
\* nothing.
LEMMA UpsertIsNew ==
  ASSUME IInv, AllValid, NEW c \in Clients, Upsert(c)
  PROVE  \E a \in Attempts, row \in Rows :
           /\ staged'[c] = [attempt |-> a, row |-> IF row = rows[a] THEN None ELSE row]
           /\ reply'[c] = AllParts(a, row)
           /\ IF rows[a] = None THEN row.upload = fresh[c] ELSE row = rows[a]
  <1>0. TypeOK /\ AtHand
    BY DEF IInv
  <1>1. PICK a \in Attempts : a = Target
    BY TargetType DEF Upsert
  <1>2. PICK row \in Rows : row = Upserted(c, a)
    BY <1>0, <1>1, UpsertTypes
  <1>3. PICK write : write = [attempt |-> a, row |-> IF row = rows[a] THEN None ELSE row]
    OBVIOUS
  <1>4. PICK all : all = AllParts(a, row)
    OBVIOUS
  <1>5. staged'[c] = write /\ reply'[c] = all
    BY <1>0, <1>1, <1>2, <1>3, <1>4 DEF TypeOK, Upsert
  <1>6. rows[a] = None => row.upload = fresh[c]
    BY <1>2 DEF Upserted
  <1>7. rows[a] # None => row = rows[a]
    BY <1>2 DEF Upserted, AllValid
  <1>8. QED
    BY <1>3, <1>4, <1>5, <1>6, <1>7

LEMMA PartsStep ==
  ASSUME IInv, AllValid, AllValid', PartsInv, PlanInv, [Next]_vars
  PROVE  PartsInv'
  <1> USE DEF handlerVars, s3Vars, boundVars
  <1>0. TypeOK
    BY DEF IInv
  <1>1. ASSUME NEW c \in Clients, NEW n \in AllNumbers, PutPart(c, n) PROVE PartsInv'
    <2>1. PICK u \in Uploads :
            /\ u = held[c].upload /\ held[c].attempt \in Attempts
            /\ rows[held[c].attempt] # None /\ rows[held[c].attempt].upload = u
            /\ held[c].plan = rows[held[c].attempt].plan
            /\ \A m \in AllNumbers : uploads'[u].parts[m] \in {0, held[c].plan}
      BY <1>1, PutKeeps
    <2>2. /\ \A v \in Uploads \ {u} : uploads'[v] = uploads[v]
          /\ uploads'[u].state = "open"
          /\ UNCHANGED <<pc, fresh, staged, reply, rows>>
      BY <1>0, <1>1, <2>1, PutEffect
    <2>3. \A v \in Uploads \ {u} : Empty(v) => Empty(v)'
      BY <2>2 DEF Empty
    <2>4. ASSUME NEW v \in Uploads, uploads'[v].state = "absent" PROVE Empty(v)'
      BY <2>2, <2>3, <2>4 DEF PartsInv
    <2>5. ASSUME NEW d \in Clients, pc[d] = "upsert" PROVE Empty(fresh[d])'
      <3>1. PICK v \in Uploads : v = fresh[d]
        BY <1>0, <2>5 DEF IInv, AtHand, TypeOK
      <3>2. v # u
        BY <2>1, <2>5, <3>1 DEF IInv, FreshFits
      <3>3. Empty(v)'
        BY <2>3, <2>5, <3>1, <3>2 DEF PartsInv
      <3>4. QED
        BY <2>2, <3>1, <3>3 DEF Empty
    <2>6. ASSUME NEW d \in Clients, staged[d] # None, staged[d].row # None
          PROVE  Empty(staged[d].row.upload)'
      <3>1. PICK v \in Uploads : v = staged[d].row.upload
        BY <2>6, StagedIsNew DEF Rows
      <3>2. v # u
        BY <2>1, <2>6, <3>1, StagedIsNew
      <3>3. Empty(v)'
        BY <2>3, <2>6, <3>1, <3>2 DEF PartsInv
      <3>4. QED
        BY <2>2, <3>1, <3>3 DEF Empty
    <2>7. ASSUME NEW a \in Attempts, rows[a] # None
          PROVE  CutBy(rows[a].upload, rows[a].plan)'
      <3>1. PICK v \in Uploads : v = rows[a].upload
        BY <1>0, <2>7 DEF TypeOK, Rows
      <3>2. CASE v = u
        <4>1. a = held[c].attempt
          BY <2>1, <2>7, <3>1, <3>2 DEF IInv, RowsHaveUploads
        <4>2. QED
          BY <2>1, <2>2, <3>1, <3>2, <4>1 DEF CutBy
      <3>3. CASE v # u
        <4>1. uploads'[v] = uploads[v]
          BY <2>2, <3>3
        <4>2. QED
          BY <2>2, <2>7, <3>1, <4>1 DEF PartsInv, CutBy
      <3>4. QED
        BY <3>2, <3>3
    <2>8. QED
      BY <2>2, <2>4, <2>5, <2>6, <2>7 DEF PartsInv
  <1>2. ASSUME \A u \in Uploads : uploads'[u].parts = uploads[u].parts PROVE PartsInv'
    <2>1. \A u \in Uploads : uploads'[u].state = "absent" => Empty(u)
      BY UploadsStayed DEF UploadsStay, PartsInv
    <2>2. ASSUME NEW c \in Clients, pc'[c] = "upsert"
          PROVE  fresh'[c] \in Uploads /\ Empty(fresh'[c])
      <3>1. CASE CreateUpload(c)
        <4>1. fresh'[c] = NewUpload
          BY <1>0, <3>1 DEF CreateUpload, TypeOK
        <4>2. QED
          BY <3>1, <4>1, NewUploadType DEF CreateUpload, PartsInv
      <3>2. CASE pc[c] = "upsert" /\ fresh'[c] = fresh[c]
        BY <1>0, <3>2 DEF PartsInv, IInv, AtHand, TypeOK
      <3>3. QED
        BY <2>2, <3>1, <3>2, FreshSteps
    <2>3. ASSUME NEW c \in Clients, staged'[c] # None, staged'[c].row # None
          PROVE  staged'[c].row.upload \in Uploads /\ Empty(staged'[c].row.upload)
      <3>1. CASE staged'[c] = staged[c]
        BY <2>3, <3>1, StagedIsNew DEF PartsInv, Rows
      <3>2. CASE Upsert(c)
        <4>1. PICK a \in Attempts, row \in Rows :
                /\ staged'[c] = [attempt |-> a, row |-> IF row = rows[a] THEN None ELSE row]
                /\ IF rows[a] = None THEN row.upload = fresh[c] ELSE row = rows[a]
          BY <3>2, UpsertIsNew
        <4>2. staged'[c].row = row /\ row.upload = fresh[c]
          BY <2>3, <4>1
        <4>3. QED
          BY <3>2, <4>2 DEF Upsert, PartsInv, Rows
      <3>3. QED
        BY <2>3, <3>1, <3>2, StagedSteps
    <2>4. ASSUME NEW a \in Attempts, rows'[a] # None
          PROVE  rows'[a].upload \in Uploads /\ CutBy(rows'[a].upload, rows'[a].plan)
      <3>1. CASE rows[a] # None
        <4>1. rows'[a].upload = rows[a].upload /\ rows'[a].plan = rows[a].plan
          BY <2>4, <3>1, RowsKeep DEF AllValid
        <4>2. QED
          BY <1>0, <3>1, <4>1 DEF PartsInv, TypeOK, Rows
      <3>2. ASSUME NEW c \in Clients, Commit(c), rows[a] = None
            PROVE  rows'[a].upload \in Uploads /\ CutBy(rows'[a].upload, rows'[a].plan)
        <4>1. /\ staged[c] # None /\ staged[c].row # None /\ staged[c].row \in Rows
              /\ rows'[a] = staged[c].row
          BY <2>4, <3>2, Committing
        <4>2. Empty(staged[c].row.upload)
          BY <4>1 DEF PartsInv
        <4>3. QED
          BY <4>1, <4>2 DEF Empty, CutBy, Rows
      <3>3. QED
        BY <2>4, <3>1, <3>2, RowsSettled DEF RowsSettle
    <2>5. /\ \A u \in Uploads : Empty(u) => \A n \in AllNumbers : uploads'[u].parts[n] = 0
          /\ \A u \in Uploads : \A p : CutBy(u, p) =>
               \A n \in AllNumbers : uploads'[u].parts[n] \in {0, p}
      BY <1>2 DEF Empty, CutBy
    <2>6. \A u \in Uploads : uploads'[u].state = "absent" => Empty(u)'
      BY <2>1, <2>5 DEF Empty
    <2>7. \A c \in Clients : pc'[c] = "upsert" => Empty(fresh[c])'
      BY <2>2, <2>5 DEF Empty
    <2>8. \A c \in Clients : staged'[c] # None /\ staged'[c].row # None
                               => Empty(staged[c].row.upload)'
      BY <2>3, <2>5 DEF Empty
    <2>9. \A a \in Attempts : rows'[a] # None => CutBy(rows[a].upload, rows[a].plan)'
      BY <2>4, <2>5 DEF CutBy
    <2>10. QED
      BY <2>6, <2>7, <2>8, <2>9 DEF PartsInv
  <1>3. QED
    BY <1>1, <1>2, PartsSteps

-----------------------------------------------------------------------------
(* Responses of one plan *)

LEMMA PlanStep ==
  ASSUME IInv, AllValid, AllValid', PartsInv, PlanInv, [Next]_vars
  PROVE  PlanInv'
  <1> USE DEF handlerVars, s3Vars, boundVars
  <1>0. TypeOK
    BY DEF IInv
  <1>1. ASSUME NEW a \in Attempts, rows[a] # None
        PROVE  rows'[a] # None /\ rows'[a].plan = rows[a].plan
    BY <1>1, RowsKeep DEF AllValid
  <1>2. ASSUME NEW response \in Responses, Fits(response)
        PROVE  /\ response.urls \subseteq Numbers(response.plan)
               /\ response.etags \subseteq Listed(response.upload)'
    <2>1. PICK u \in Uploads : u = response.upload
      BY DEF Responses
    <2>2. Listed(u) \subseteq Listed(u)'
      BY ListedGrows
    <2>3. response.etags \subseteq Listed(u)
      BY <1>2, <2>1 DEF Fits
    <2>4. QED
      BY <1>2, <2>1, <2>2, <2>3 DEF Fits
  <1>3. ASSUME NEW c \in Clients, staged'[c] # None
        PROVE  /\ Fits(reply[c])'
               /\ reply'[c].plan = IF staged'[c].row = None THEN rows'[staged'[c].attempt].plan
                                   ELSE staged'[c].row.plan
    <2>1. CASE Upsert(c)
      <3>1. PICK a \in Attempts, row \in Rows :
              /\ staged'[c] = [attempt |-> a, row |-> IF row = rows[a] THEN None ELSE row]
              /\ reply'[c] = AllParts(a, row)
        BY <2>1, UpsertIsNew
      <3>2. /\ reply'[c].urls = Numbers(row.plan) /\ reply'[c].plan = row.plan
            /\ reply'[c].etags = {}
        BY <3>1 DEF AllParts
      <3>3. Fits(reply[c])'
        BY <3>2 DEF Fits
      <3>4. rows' = rows /\ row # None
        BY <2>1, NoneAssumption DEF Upsert
      <3>5. /\ staged'[c].attempt = a
            /\ staged'[c].row = IF row = rows[a] THEN None ELSE row
        BY <3>1
      <3>6. QED
        BY <3>2, <3>3, <3>4, <3>5
    <2>2. ASSUME staged'[c] = staged[c]
          PROVE  /\ staged[c].row = None =>
                      rows'[staged[c].attempt].plan = rows[staged[c].attempt].plan
                 /\ reply[c] \in Responses /\ Fits(reply[c])
                 /\ reply[c].plan = IF staged[c].row = None THEN rows[staged[c].attempt].plan
                                    ELSE staged[c].row.plan
      <3>1. staged[c] # None /\ staged[c] \in Writes
        BY <1>0, <1>3, <2>2 DEF TypeOK
      <3>2. staged[c].attempt \in Attempts
        BY <3>1 DEF Writes
      <3>3. ReplyFits(c) /\ reply[c] \in Responses
        BY <1>0, <3>1 DEF IInv, StagedFits, AtHand, TypeOK
      <3>4. QED
        BY <1>1, <3>1, <3>2, <3>3 DEF ReplyFits, PlanInv
    <2>3. CASE staged'[c] = staged[c] /\ reply'[c] = reply[c]
      <3>1. Fits(reply[c])'
        BY <1>2, <2>2, <2>3 DEF Fits
      <3>2. QED
        BY <2>2, <2>3, <3>1
    <2>4. CASE ListMissing(c) /\ staged'[c] = staged[c] /\ reply'[c] = Resumed(c)
      <3>1. PICK u \in Uploads : u = reply[c].upload
        BY <2>2, <2>4 DEF Responses
      <3>2. PICK etags : etags = Listed(u)
        OBVIOUS
      <3>3. Resumed(c) = [reply[c] EXCEPT !.urls = @ \ Parts(u), !.etags = etags]
        BY <3>1, <3>2 DEF Resumed
      <3>4. /\ reply'[c].urls = reply[c].urls \ Parts(u) /\ reply'[c].etags = etags
            /\ reply'[c].plan = reply[c].plan /\ reply'[c].upload = u
        BY <2>2, <2>4, <3>1, <3>3 DEF Responses
      <3>5. Listed(u) \subseteq Listed(u)'
        BY ListedGrows
      <3>6. Fits(reply[c])'
        BY <2>2, <2>4, <3>2, <3>4, <3>5 DEF Fits
      <3>7. QED
        BY <2>2, <2>4, <3>4, <3>6
    <2>5. QED
      BY <1>3, <2>1, <2>3, <2>4, StagedSteps
  <1>4. ASSUME NEW c \in Clients, held'[c] # None
        PROVE  Fits(held[c])' /\ held'[c].plan = rows'[held'[c].attempt].plan
    <2>1. CASE held'[c] = held[c]
      <3>1. held[c] # None /\ held[c] \in Responses
        BY <1>0, <1>4, <2>1 DEF TypeOK
      <3>2. held[c].attempt \in Attempts /\ rows[held[c].attempt] # None
        BY <3>1 DEF IInv, ResponsesAreWhole, Responses
      <3>3. Fits(held[c])'
        BY <1>2, <2>1, <3>1 DEF Fits, PlanInv
      <3>4. QED
        BY <1>1, <2>1, <3>1, <3>2, <3>3 DEF PlanInv
    <2>2. CASE Commit(c) /\ held'[c] = reply[c]
      <3>1. /\ staged[c] # None /\ ReplyFits(c)
            /\ staged[c].row = None => rows' = rows
            /\ staged[c].row # None => rows'[staged[c].attempt] = staged[c].row
        BY <2>2, Committing
      <3>2. reply[c] \in Responses
        BY <1>0, <3>1 DEF IInv, AtHand, TypeOK
      <3>3. Fits(held[c])'
        BY <1>2, <2>2, <3>1, <3>2 DEF Fits, PlanInv
      <3>4. held'[c].plan = rows'[held'[c].attempt].plan
        BY <2>2, <3>1 DEF PlanInv, ReplyFits
      <3>5. QED
        BY <3>3, <3>4
    <2>3. ASSUME NEW n \in AllNumbers, PutPart(c, n)
          PROVE  Fits(held[c])' /\ held'[c].plan = rows'[held'[c].attempt].plan
      <3>1. PICK u \in Uploads :
              /\ u = held[c].upload
              /\ held[c].plan = rows[held[c].attempt].plan
              /\ Listed(u) \subseteq Listed(u)'
              /\ <<n, held[c].plan>> \in Listed(u)'
        BY <2>3, PutKeeps
      <3>2. /\ held'[c].plan = held[c].plan /\ held'[c].upload = u
            /\ held'[c].attempt = held[c].attempt
            /\ held'[c].urls = held[c].urls \ {n}
            /\ held'[c].etags = held[c].etags \cup {<<n, held[c].plan>>}
            /\ rows' = rows
        BY <1>0, <2>3, <3>1, PutEffect
      <3>3. Fits(held[c])
        BY <2>3 DEF PutPart, PlanInv
      <3>4. Fits(held[c])'
        BY <3>1, <3>2, <3>3 DEF Fits
      <3>5. QED
        BY <3>1, <3>2, <3>4
    <2>4. QED
      BY <1>4, <2>1, <2>2, <2>3, HeldSteps
  <1>5. QED
    BY <1>3, <1>4 DEF PlanInv

-----------------------------------------------------------------------------
(* Completing *)

\* All the parts of one plan.
Whole(p) == {<<n, p>> : n \in Numbers(p)}

\* A client that completes has every etag of its response, which are of one
\* plan; and the attempt that was read is the one it holds.
CompleteInv ==
  \A c \in Clients :
    /\ pc[c] \in {"read", "check", "finish"} => HasAll(c) /\ answer[c] # "ok"
    /\ pc[c] \in {"check", "finish"} => item[c].upload = held[c].upload

\* What a client holds when it has all etags.
LEMMA HoldsWhole ==
  ASSUME IInv, PartsInv, PlanInv, NEW c \in Clients, held[c] # None, HasAll(c)
  PROVE  /\ held[c].etags = Whole(held[c].plan) /\ held[c].plan \in Plans
         /\ held[c].etags # {}
         /\ held[c].upload \in Uploads /\ held[c].etags \subseteq Listed(held[c].upload)
         /\ uploads[held[c].upload].state # "absent"
  <1>1. held[c] \in Responses
    BY DEF IInv, TypeOK
  <1>2. PICK u \in Uploads, p \in Plans : u = held[c].upload /\ p = held[c].plan
    BY <1>1 DEF Responses
  <1>3. /\ rows[held[c].attempt] # None /\ held[c].attempt \in Attempts
        /\ rows[held[c].attempt].upload = u /\ rows[held[c].attempt].plan = p
    BY <1>1, <1>2 DEF IInv, ResponsesAreWhole, PlanInv, Responses
  <1>4. CutBy(u, p)
    BY <1>3 DEF PartsInv
  <1>5. held[c].etags \subseteq Listed(u)
    BY <1>2 DEF PlanInv, Fits
  <1>6. \A etag \in Listed(u) : etag = <<etag[1], p>>
    BY <1>4 DEF Listed, Parts, CutBy
  <1>7. {etag[1] : etag \in held[c].etags} = Numbers(p)
    BY <1>2 DEF HasAll
  <1>8. held[c].etags = Whole(p)
    <2>1. ASSUME NEW etag \in held[c].etags PROVE etag \in Whole(p)
      <3>1. etag[1] \in Numbers(p)
        BY <1>7
      <3>2. etag = <<etag[1], p>>
        BY <1>5, <1>6
      <3>3. QED
        BY <3>1, <3>2 DEF Whole
    <2>2. ASSUME NEW n \in Numbers(p) PROVE <<n, p>> \in held[c].etags
      <3>1. PICK etag \in held[c].etags : etag[1] = n
        BY <1>7
      <3>2. etag = <<n, p>>
        BY <1>5, <1>6, <3>1
      <3>3. QED
        BY <3>2
    <2>3. QED
      BY <2>1, <2>2 DEF Whole
  <1>9. held[c].etags # {}
    <2>1. 1 \in Numbers(p)
      BY CountAssumption DEF Numbers
    <2>2. QED
      BY <1>8, <2>1 DEF Whole
  <1>10. uploads[u].state # "absent"
    BY <1>3 DEF IInv, RowsHaveUploads
  <1>11. QED
    BY <1>2, <1>5, <1>8, <1>9, <1>10

\* Whoever completes after a step has just asked to, or did before it with the
\* same item and answer, or has just read the item.
LEMMA CompletingSteps ==
  ASSUME IInv, [Next]_vars, NEW c \in Clients, pc'[c] \in {"read", "check", "finish"}
  PROVE  \/ Complete(c)
         \/ ReadItem(c)
         \/ /\ pc[c] \in {"read", "check", "finish"}
            /\ pc'[c] \in {"check", "finish"} => pc[c] \in {"check", "finish"}
            /\ item'[c] = item[c] /\ answer'[c] = answer[c]
  <1> USE DEF handlerVars, s3Vars, boundVars
  <1>0. TypeOK
    BY DEF IInv
  <1>1. ASSUME NEW d \in Clients, d # c,
               \/ Presign(d) \/ Complete(d) \/ Handle(d) \/ Abort(d)
        PROVE  pc'[c] = pc[c] /\ item'[c] = item[c] /\ answer'[c] = answer[c]
    <2>1. CASE Presign(d) \/ Complete(d) \/ LinkIdentical(d) \/ CreateUpload(d) \/ Upsert(d)
      BY <1>0, <1>1, <2>1 DEF TypeOK, Presign, Complete, Call, LinkIdentical,
                              CreateUpload, Upsert, Goto
    <2>2. CASE ListMissing(d) \/ Commit(d) \/ ReadItem(d)
      BY <1>0, <1>1, <2>2 DEF TypeOK, ListMissing, Rollback, Commit, ReadItem, Goto
    <2>3. CASE CheckParts(d) \/ Finish(d) \/ Abort(d)
      BY <1>0, <1>1, <2>3 DEF TypeOK, CheckParts, Finish, Abort, Rollback, Goto
    <2>4. QED
      BY <1>1, <2>1, <2>2, <2>3 DEF Handle
  <1>2. ASSUME \/ Presign(c) \/ LinkIdentical(c) \/ CreateUpload(c) \/ Upsert(c)
               \/ ListMissing(c) \/ Commit(c) \/ Finish(c) \/ Abort(c)
        PROVE  FALSE
    BY <1>0, <1>2 DEF TypeOK, Presign, Call, LinkIdentical, CreateUpload, Upsert,
                      ListMissing, Rollback, Commit, Finish, Abort, Goto
  <1>3. ASSUME CheckParts(c)
        PROVE  pc[c] = "check" /\ item'[c] = item[c] /\ answer'[c] = answer[c]
    BY <1>0, <1>3 DEF TypeOK, CheckParts, Goto
  <1>4. ASSUME NEW d \in Clients, NEW n \in AllNumbers, PutPart(d, n)
        PROVE  pc' = pc /\ item' = item /\ answer' = answer
    BY <1>4 DEF PutPart
  <1>5. ASSUME (\E a \in Attempts : Expire(a) \/ Verify(a)) \/ Deploy \/ StoreBlob
               \/ UNCHANGED vars
        PROVE  pc' = pc /\ item' = item /\ answer' = answer
    BY <1>5 DEF Expire, Verify, Deploy, StoreBlob, vars
  <1>6. QED
    BY <1>1, <1>2, <1>3, <1>4, <1>5 DEF Next, Handle

LEMMA CompleteStep ==
  ASSUME IInv, PlanInv, Patient, CompleteInv, [Next]_vars
  PROVE  CompleteInv'
  <1> USE DEF handlerVars, s3Vars, boundVars
  <1>0. TypeOK
    BY DEF IInv
  <1> SUFFICES ASSUME NEW c \in Clients, pc'[c] \in {"read", "check", "finish"}
               PROVE  /\ HasAll(c)' /\ answer'[c] # "ok"
                      /\ pc'[c] \in {"check", "finish"} => item'[c].upload = held'[c].upload
    BY DEF CompleteInv
  <1>1. CASE Complete(c)
    <2>1. held' = held /\ HasAll(c) /\ answer'[c] = "none" /\ pc'[c] = "read"
      BY <1>0, <1>1 DEF Complete, Call, Goto, Patient, TypeOK
    <2>2. QED
      BY <2>1 DEF HasAll
  <1>2. CASE ReadItem(c)
    <2>1. held[c] # None /\ held[c] \in Responses /\ pc[c] = "read"
      BY <1>0, <1>2 DEF ReadItem, IInv, AtHand, TypeOK
    <2>2. rows[held[c].attempt].upload = held[c].upload
      BY <2>1 DEF IInv, ResponsesAreWhole
    <2>3. PICK new : new = [upload |-> rows[held[c].attempt].upload,
                            count  |-> Count[rows[held[c].attempt].plan]]
      OBVIOUS
    <2>4. item'[c] = new /\ held' = held /\ answer' = answer
      BY <1>0, <1>2, <2>3 DEF ReadItem, TypeOK
    <2>5. HasAll(c) /\ answer[c] # "ok"
      BY <2>1 DEF CompleteInv
    <2>6. QED
      BY <2>2, <2>3, <2>4, <2>5 DEF HasAll
  <1>3. CASE /\ pc[c] \in {"read", "check", "finish"}
             /\ pc'[c] \in {"check", "finish"} => pc[c] \in {"check", "finish"}
             /\ item'[c] = item[c] /\ answer'[c] = answer[c]
    <2>1. /\ HasAll(c) /\ answer[c] # "ok"
          /\ pc'[c] \in {"check", "finish"} => item[c].upload = held[c].upload
      BY <1>3 DEF CompleteInv
    <2>2. CASE held'[c] = held[c]
      BY <1>3, <2>1, <2>2 DEF HasAll
    <2>3. ASSUME NEW n \in AllNumbers, PutPart(c, n)
          PROVE  HasAll(c)' /\ held'[c].upload = held[c].upload
      <3>1. PICK p \in Plans : p = held[c].plan
        BY <1>0, <2>3 DEF PutPart, TypeOK, Responses
      <3>2. /\ held'[c].plan = p /\ held'[c].upload = held[c].upload
            /\ held'[c].etags = held[c].etags \cup {<<n, p>>}
            /\ n \in held[c].urls
        BY <1>0, <2>3, <3>1, PutEffect
      <3>3. n \in Numbers(p)
        BY <2>3, <3>1, <3>2 DEF PutPart, PlanInv, Fits
      <3>4. {etag[1] : etag \in held[c].etags} = Numbers(p)
        BY <2>1, <3>1 DEF HasAll
      <3>5. {etag[1] : etag \in held'[c].etags}
              = {etag[1] : etag \in held[c].etags} \cup {n}
        <4>1. <<n, p>>[1] = n
          OBVIOUS
        <4>2. \A part : {etag[1] : etag \in held[c].etags \cup {part}}
                          = {etag[1] : etag \in held[c].etags} \cup {part[1]}
          OBVIOUS
        <4>3. QED
          BY <3>2, <4>1, <4>2
      <3>6. QED
        BY <3>2, <3>3, <3>4, <3>5 DEF HasAll
    <2>4. ~Commit(c)
      BY <1>0 DEF Commit, Goto, TypeOK
    <2>5. QED
      BY <1>3, <2>1, <2>2, <2>3, <2>4, HeldSteps
  <1>4. QED
    BY <1>1, <1>2, <1>3, CompletingSteps

-----------------------------------------------------------------------------
(* Objects *)

\* An upload is done when its object is there, whole.
ObjectInv ==
  \A u \in Uploads :
    /\ objects[u] # {} => \E p \in Plans : objects[u] = Whole(p)
    /\ uploads[u].state = "done" => objects[u] # {}

\* Success is answered for an object.
AckInv ==
  \A c \in Clients : answer[c] = "ok" => item[c] # None /\ objects[item[c].upload] # {}

\* Only the completion of an upload makes an object, or ends the upload.
LEMMA ObjectSteps ==
  ASSUME IInv, [Next]_vars
  PROVE  \/ /\ objects' = objects
            /\ \A u \in Uploads : uploads'[u].state = "done" => uploads[u].state = "done"
         \/ \E c \in Clients : Finish(c) /\ Assemblable(c) /\ Assemble(c)
  <1> USE DEF handlerVars, s3Vars, boundVars
  <1>0. TypeOK
    BY DEF IInv
  <1>1. ASSUME NEW c \in Clients, CreateUpload(c)
        PROVE  /\ objects' = objects
               /\ \A u \in Uploads : uploads'[u].state = "done" => uploads[u].state = "done"
    BY <1>0, <1>1 DEF CreateUpload, TypeOK
  <1>2. ASSUME NEW c \in Clients, NEW n \in AllNumbers, PutPart(c, n)
        PROVE  /\ objects' = objects
               /\ \A u \in Uploads : uploads'[u].state = "done" => uploads[u].state = "done"
    <2>1. PICK u \in Uploads : /\ u = held[c].upload
                               /\ uploads'[u].state = "open"
                               /\ \A v \in Uploads \ {u} : uploads'[v] = uploads[v]
      BY <1>0, <1>2, PutEffect
    <2>2. objects' = objects
      BY <1>2 DEF PutPart
    <2>3. QED
      BY <2>1, <2>2
  <1>3. ASSUME NEW c \in Clients, Finish(c)
        PROVE  \/ objects' = objects /\ uploads' = uploads
               \/ Assemblable(c) /\ Assemble(c)
    BY <1>3 DEF Finish
  <1>4. ASSUME NEW c \in Clients,
               \/ Presign(c) \/ Complete(c) \/ LinkIdentical(c) \/ Upsert(c)
               \/ ListMissing(c) \/ Commit(c) \/ ReadItem(c) \/ CheckParts(c) \/ Abort(c)
        PROVE objects' = objects /\ uploads' = uploads
    BY <1>4 DEF Presign, Complete, Call, LinkIdentical, Upsert, ListMissing, Rollback,
                Commit, ReadItem, CheckParts, Abort
  <1>5. ASSUME (\E a \in Attempts : Expire(a) \/ Verify(a)) \/ Deploy \/ StoreBlob
               \/ UNCHANGED vars
        PROVE objects' = objects /\ uploads' = uploads
    BY <1>5 DEF Expire, Verify, Deploy, StoreBlob, vars
  <1>6. QED
    BY <1>1, <1>2, <1>3, <1>4, <1>5 DEF Next, Handle

\* What a client completes.
LEMMA FinishWhole ==
  ASSUME IInv, PartsInv, PlanInv, CompleteInv, NEW c \in Clients, pc[c] = "finish"
  PROVE  \E u \in Uploads : /\ item[c].upload = u /\ uploads[u].state # "absent"
                            /\ held[c].etags # {} /\ held[c].etags \subseteq Listed(u)
                            /\ \E p \in Plans : held[c].etags = Whole(p)
  <1>1. held[c] # None /\ HasAll(c) /\ item[c].upload = held[c].upload
    BY DEF IInv, AtHand, CompleteInv
  <1>2. QED
    BY <1>1, HoldsWhole

LEMMA ObjectStep ==
  ASSUME IInv, PartsInv, PlanInv, CompleteInv, ObjectInv, [Next]_vars
  PROVE  /\ ObjectInv'
         /\ \A u \in Uploads : objects[u] # {} => objects'[u] # {}
  <1>0. TypeOK
    BY DEF IInv
  <1>1. ASSUME NEW c \in Clients, Finish(c), Assemblable(c), Assemble(c)
        PROVE  /\ ObjectInv'
               /\ \A u \in Uploads : objects[u] # {} => objects'[u] # {}
    <2>1. PICK u \in Uploads, p \in Plans :
            /\ item[c].upload = u /\ held[c].etags # {} /\ held[c].etags = Whole(p)
      BY <1>1, FinishWhole DEF Finish
    <2>2. objects'[u] = held[c].etags
      BY <1>0, <1>1, <2>1 DEF Assemble, TypeOK
    <2>3. \A v \in Uploads \ {u} : objects'[v] = objects[v] /\ uploads'[v] = uploads[v]
      BY <1>0, <1>1, <2>1 DEF Assemble, TypeOK
    <2>4. objects'[u] = Whole(p) /\ objects'[u] # {}
      BY <2>1, <2>2
    <2>5. QED
      BY <2>3, <2>4 DEF ObjectInv, Whole
  <1>2. CASE /\ objects' = objects
             /\ \A u \in Uploads : uploads'[u].state = "done" => uploads[u].state = "done"
    BY <1>2 DEF ObjectInv, Whole
  <1>3. QED
    BY <1>1, <1>2, ObjectSteps

LEMMA AckStep ==
  ASSUME IInv, PartsInv, PlanInv, CompleteInv, ObjectInv, Reliable, AckInv, [Next]_vars
  PROVE  AckInv'
  <1> USE DEF handlerVars, s3Vars, boundVars
  <1>0. TypeOK
    BY DEF IInv
  <1> SUFFICES ASSUME NEW c \in Clients, answer'[c] = "ok"
               PROVE  item'[c] # None /\ objects'[item'[c].upload] # {}
    BY DEF AckInv
  <1>1. CASE Finish(c)
    <2>1. item' = item /\ pc[c] = "finish" /\ item[c] # None
      BY <1>1 DEF Finish, IInv, AtHand
    <2>2. PICK u \in Uploads :
            /\ item[c].upload = u /\ uploads[u].state # "absent"
            /\ held[c].etags # {} /\ held[c].etags \subseteq Listed(u)
      BY <2>1, FinishWhole
    <2>3. CASE Assemblable(c) /\ Assemble(c)
      BY <1>0, <2>1, <2>2, <2>3 DEF Assemble, TypeOK
    <2>4. CASE ~Assemblable(c) /\ objects' = objects
      <3>1. uploads[u].state \in {"absent", "open", "done"}
        BY <1>0 DEF TypeOK
      <3>2. uploads[u].state = "done"
        BY <2>2, <2>4, <3>1 DEF Assemblable
      <3>3. QED
        BY <2>1, <2>2, <2>4, <3>2 DEF ObjectInv
    <2>5. ~(faults < MaxS3Faults)
      BY <1>0 DEF Reliable, TypeOK
    <2>6. QED
      BY <1>1, <2>3, <2>4, <2>5 DEF Finish
  <1>2. CASE answer[c] = "ok" /\ item'[c] = item[c]
    <2>1. item[c] # None /\ objects[item[c].upload] # {}
      BY <1>2 DEF AckInv
    <2>2. item[c].upload \in Uploads
      BY <1>0, <2>1 DEF TypeOK, Items
    <2>3. QED
      BY <1>2, <2>1, <2>2, ObjectStep
  <1>3. ASSUME NEW d \in Clients, \/ Presign(d) \/ Complete(d) \/ Handle(d) \/ Abort(d)
        PROVE  Finish(c) \/ (answer[c] = "ok" /\ item'[c] = item[c])
    <2>1. CASE ReadItem(d)
      <3>1. pc[d] = "read" /\ answer' = answer /\ answer[d] # "ok"
        BY <2>1 DEF ReadItem, CompleteInv
      <3>2. QED
        BY <1>0, <2>1, <3>1 DEF ReadItem, TypeOK
    <2>2. CASE Finish(d) \/ CheckParts(d) \/ Abort(d) \/ Complete(d)
      BY <1>0, <2>2 DEF TypeOK, Finish, CheckParts, Abort, Rollback, Complete, Call
    <2>3. CASE \/ Presign(d) \/ LinkIdentical(d) \/ CreateUpload(d) \/ Upsert(d)
               \/ ListMissing(d) \/ Commit(d)
      <3>1. item' = item /\ answer' = answer
        BY <2>3 DEF Presign, Call, LinkIdentical, CreateUpload, Upsert,
                    ListMissing, Rollback, Commit
      <3>2. QED
        BY <3>1
    <2>4. QED
      BY <1>3, <2>1, <2>2, <2>3 DEF Handle
  <1>4. ASSUME NEW d \in Clients, NEW n \in AllNumbers, PutPart(d, n)
        PROVE  answer[c] = "ok" /\ item'[c] = item[c]
    BY <1>4 DEF PutPart
  <1>5. ASSUME (\E a \in Attempts : Expire(a) \/ Verify(a)) \/ Deploy \/ StoreBlob
               \/ UNCHANGED vars
        PROVE  answer[c] = "ok" /\ item'[c] = item[c]
    BY <1>5 DEF Expire, Verify, Deploy, StoreBlob, vars
  <1>6. QED
    BY <1>1, <1>2, <1>3, <1>4, <1>5 DEF Next

-----------------------------------------------------------------------------
(* The theorems *)

CutInv == AllValid /\ PartsInv /\ PlanInv

LEMMA CutAlways ==
  ASSUME Lasting
  PROVE  Spec => [](IInv /\ CutInv)
  <1>1. Init => CutInv
    BY DEF Init, CutInv, AllValid, PartsInv, PlanInv, Empty
  <1>2. IInv /\ CutInv /\ [Next]_vars => CutInv'
    <2> SUFFICES ASSUME IInv, CutInv, [Next]_vars PROVE CutInv'
      OBVIOUS
    <2>1. AllValid /\ PartsInv /\ PlanInv
      BY DEF CutInv
    <2>2. AllValid'
      BY <2>1, ValidStep
    <2>3. PartsInv'
      BY <2>1, <2>2, PartsStep
    <2>4. PlanInv'
      BY <2>1, <2>2, PlanStep
    <2>5. QED
      BY <2>2, <2>3, <2>4 DEF CutInv
  <1>3. QED
    BY <1>1, <1>2, Invariance, PTL DEF Spec

LEMMA WholeAlways ==
  ASSUME Lasting, Patient
  PROVE  Spec => [](IInv /\ CutInv /\ CompleteInv /\ ObjectInv)
  <1>1. Init => CompleteInv /\ ObjectInv
    BY DEF Init, CompleteInv, ObjectInv
  <1>2. IInv /\ CutInv /\ CompleteInv /\ ObjectInv /\ [Next]_vars
          => CompleteInv' /\ ObjectInv'
    BY CompleteStep, ObjectStep DEF CutInv
  <1>3. QED
    BY <1>1, <1>2, CutAlways, PTL DEF Spec

\* CompleteMultipartUpload assembles an object from all the parts of one part
\* size, for any number of clients that put parts of the same upload, answers
\* lost and processes stopped, as long as the attempt has not expired and each
\* client sends the etags of its whole plan.
THEOREM ObjectWhole ==
  ASSUME Lasting, Patient
  PROVE  Spec => []ObjectsAreWhole
  <1>1. ObjectInv => ObjectsAreWhole
    BY DEF ObjectInv, ObjectsAreWhole, Whole
  <1>2. QED
    BY <1>1, WholeAlways, PTL

\* "Upload Completed" is then the truth if S3 fails no call: the error that
\* CompleteMultiPartUpload drops is that of an upload another request has
\* completed in between.
THEOREM AckIsTrue ==
  ASSUME Lasting, Patient, Reliable
  PROVE  Spec => []AckMeansObject
  <1>1. Init => AckInv
    BY DEF Init, AckInv
  <1>2. IInv /\ CutInv /\ CompleteInv /\ ObjectInv /\ AckInv /\ [Next]_vars => AckInv'
    BY AckStep DEF CutInv
  <1>3. AckInv => AckMeansObject
    BY DEF AckInv, AckMeansObject
  <1>4. QED
    BY <1>1, <1>2, <1>3, WholeAlways, PTL DEF Spec

-----------------------------------------------------------------------------
(* What a transaction knows of the row it has locked *)

\* A row that is locked is pending, or not inserted yet; the reply has the plan
\* it has, or will have, and a row that is written begins a term.
LockInv ==
  \A c \in Clients : staged[c] # None =>
    LET a == staged[c].attempt
        row == staged[c].row
    IN /\ rows[a] # None => rows[a].state = "pending"
       /\ reply[c].plan = IF row = None THEN rows[a].plan ELSE row.plan
       /\ row # None => row.valid

\* The upload that is completed is the one of the attempt that the client holds.
ReadInv ==
  \A c \in Clients : pc[c] \in {"check", "finish"} => item[c].upload = held[c].upload

\* An upload that has become an object is not open any more, and a row's.
DoneInv ==
  \A u \in Uploads : objects[u] # {} =>
    /\ uploads[u].state = "done"
    /\ \E a \in Attempts : rows[a] # None /\ rows[a].upload = u

AtomicInv == LockInv /\ ReadInv /\ DoneInv

\* The row that the transaction of c has locked stays, but for its term.
LEMMA LockedRowStays ==
  ASSUME IInv, [Next]_vars, NEW c \in Clients, staged[c] # None, staged'[c] # None,
         NEW a \in Attempts
  PROVE  /\ rows'[a] = None <=> rows[a] = None
         /\ rows[a] # None => rows'[a].plan = rows[a].plan /\ rows'[a].state = rows[a].state
  <1>1. ASSUME NEW d \in Clients, Commit(d) PROVE FALSE
    BY <1>1, Committing
  <1>2. RowsSettle
    BY <1>1, RowsSettled
  <1>3. QED
    BY <1>2 DEF RowsSettle

\* The row an upsert writes or locks, and its plan.
LEMMA UpsertPlan ==
  ASSUME IInv, NEW c \in Clients, Upsert(c)
  PROVE  LET a == staged'[c].attempt
             row == staged'[c].row
         IN /\ a \in Attempts /\ rows' = rows
            /\ rows[a] # None => rows[a].state = "pending"
            /\ reply'[c].plan = IF row = None THEN rows[a].plan ELSE row.plan
            /\ row # None => row.valid
  <1>0. TypeOK /\ AtHand
    BY DEF IInv
  <1>1. PICK a \in Attempts : a = Target
    BY TargetType DEF Upsert
  <1>2. PICK row \in Rows : row = Upserted(c, a)
    BY <1>0, <1>1, UpsertTypes
  <1>3. PICK write : write = [attempt |-> a, row |-> IF row = rows[a] THEN None ELSE row]
    OBVIOUS
  <1>4. PICK all : all = AllParts(a, row)
    OBVIOUS
  <1>5. staged'[c] = write /\ reply'[c] = all
    BY <1>0, <1>1, <1>2, <1>3, <1>4 DEF TypeOK, Upsert
  <1>6. rows[a] # None => rows[a].state = "pending"
    BY <1>1, TargetType DEF Upsert, PendingRows
  <1>7. row # None
    BY NoneAssumption
  <1>8. all.plan = row.plan
    BY <1>4 DEF AllParts
  <1>9. row = rows[a] \/ row.valid
    <2>1. CASE rows[a] = None
      BY <1>2, <2>1 DEF Upserted
    <2>2. CASE rows[a] # None
      <3>1. rows[a] \in Rows
        BY <1>0, <2>2 DEF TypeOK
      <3>2. row = rows[a] \/ row = [rows[a] EXCEPT !.plan = plan, !.valid = TRUE]
        BY <1>2, <2>2 DEF Upserted
      <3>3. QED
        BY <3>1, <3>2 DEF Rows
    <2>3. QED
      BY <2>1, <2>2
  <1>10. rows' = rows
    BY DEF Upsert
  <1>11. QED
    BY <1>3, <1>5, <1>6, <1>7, <1>8, <1>9, <1>10

LEMMA LockStep ==
  ASSUME IInv, LockInv, [Next]_vars
  PROVE  LockInv'
  <1>0. TypeOK
    BY DEF IInv
  <1> SUFFICES ASSUME NEW c \in Clients, staged'[c] # None
               PROVE  /\ rows'[staged'[c].attempt] # None
                           => rows'[staged'[c].attempt].state = "pending"
                      /\ reply'[c].plan = IF staged'[c].row = None
                                          THEN rows'[staged'[c].attempt].plan
                                          ELSE staged'[c].row.plan
                      /\ staged'[c].row # None => staged'[c].row.valid
    BY DEF LockInv
  <1>1. CASE Upsert(c)
    BY <1>1, UpsertPlan
  <1>2. CASE staged'[c] = staged[c] /\ reply'[c].plan = reply[c].plan
    <2>1. PICK a \in Attempts : a = staged[c].attempt
      BY <1>0, <1>2 DEF TypeOK, Writes
    <2>2. /\ rows'[a] = None <=> rows[a] = None
          /\ rows[a] # None => /\ rows'[a].plan = rows[a].plan
                               /\ rows'[a].state = rows[a].state
      BY <1>2, LockedRowStays
    <2>3. staged[c].row = None => rows[a] # None
      BY <1>2, <2>1 DEF IInv, StagedFits, ReplyFits
    <2>4. QED
      BY <1>2, <2>1, <2>2, <2>3 DEF LockInv
  <1>3. CASE ListMissing(c) /\ staged'[c] = staged[c] /\ reply'[c] = Resumed(c)
    <2>1. reply[c] \in Responses
      BY <1>0, <1>3 DEF TypeOK, IInv, AtHand, ListMissing
    <2>2. PICK listed : listed = Listed(reply[c].upload)
      OBVIOUS
    <2>3. PICK urls : urls = reply[c].urls \ Parts(reply[c].upload)
      OBVIOUS
    <2>4. Resumed(c) = [reply[c] EXCEPT !.urls = urls, !.etags = listed]
      BY <2>2, <2>3 DEF Resumed
    <2>5. Resumed(c).plan = reply[c].plan
      BY <2>1, <2>4 DEF Responses
    <2>6. QED
      BY <1>2, <1>3, <2>5
  <1>4. QED
    BY <1>1, <1>2, <1>3, StagedSteps

LEMMA ReadStep ==
  ASSUME IInv, ReadInv, [Next]_vars
  PROVE  ReadInv'
  <1>0. TypeOK
    BY DEF IInv
  <1> SUFFICES ASSUME NEW c \in Clients, pc'[c] \in {"check", "finish"}
               PROVE  item'[c].upload = held'[c].upload
    BY DEF ReadInv
  <1>1. CASE Complete(c)
    BY <1>0, <1>1 DEF Complete, Call, Goto, TypeOK
  <1>2. CASE ReadItem(c)
    <2>1. held[c] # None /\ held[c] \in Responses
      BY <1>0, <1>2 DEF ReadItem, IInv, AtHand, TypeOK
    <2>2. rows[held[c].attempt].upload = held[c].upload
      BY <2>1 DEF IInv, ResponsesAreWhole
    <2>3. PICK new : new = [upload |-> rows[held[c].attempt].upload,
                            count  |-> Count[rows[held[c].attempt].plan]]
      OBVIOUS
    <2>4. item'[c] = new /\ held' = held
      BY <1>0, <1>2, <2>3 DEF ReadItem, TypeOK
    <2>5. QED
      BY <2>2, <2>3, <2>4
  <1>3. CASE pc[c] \in {"check", "finish"} /\ item'[c] = item[c]
    <2>1. item[c].upload = held[c].upload
      BY <1>3 DEF ReadInv
    <2>2. ASSUME NEW n \in AllNumbers, PutPart(c, n) PROVE held'[c].upload = held[c].upload
      BY <1>0, <2>2, PutEffect
    <2>3. ~Commit(c)
      BY <1>3 DEF Commit
    <2>4. QED
      BY <1>3, <2>1, <2>2, <2>3, HeldSteps
  <1>4. QED
    BY <1>1, <1>2, <1>3, CompletingSteps

\* What is done stays so.
LEMMA DoneStays ==
  ASSUME IInv, [Next]_vars, NEW u \in Uploads, uploads[u].state = "done"
  PROVE  uploads'[u].state = "done"
  <1> USE DEF handlerVars, s3Vars, boundVars
  <1>0. TypeOK
    BY DEF IInv
  <1>1. ASSUME NEW c \in Clients, CreateUpload(c) PROVE uploads'[u].state = "done"
    <2>1. NewUpload # u
      BY <1>1, NewUploadType DEF CreateUpload
    <2>2. QED
      BY <1>0, <1>1, <2>1 DEF CreateUpload, TypeOK
  <1>2. ASSUME NEW c \in Clients, NEW n \in AllNumbers, PutPart(c, n)
        PROVE  uploads'[u].state = "done"
    <2>1. PICK v \in Uploads : /\ uploads[v].state = "open"
                               /\ \A w \in Uploads \ {v} : uploads'[w] = uploads[w]
      BY <1>0, <1>2, PutEffect
    <2>2. QED
      BY <2>1
  <1>3. ASSUME NEW c \in Clients, Finish(c) PROVE uploads'[u].state = "done"
    <2>1. PICK v \in Uploads : v = item[c].upload
      BY <1>3, NoneAssumption DEF IInv, Finish, AtHand, TypeOK, Items
    <2>2. uploads' = uploads \/ uploads' = [uploads EXCEPT ![v].state = "done"]
      BY <1>3, <2>1 DEF Finish, Assemble
    <2>3. QED
      BY <1>0, <2>2 DEF TypeOK
  <1>4. ASSUME NEW c \in Clients,
               \/ Presign(c) \/ Complete(c) \/ LinkIdentical(c) \/ Upsert(c)
               \/ ListMissing(c) \/ Commit(c) \/ ReadItem(c) \/ CheckParts(c) \/ Abort(c)
        PROVE uploads' = uploads
    BY <1>4 DEF Presign, Complete, Call, LinkIdentical, Upsert, ListMissing, Rollback,
                Commit, ReadItem, CheckParts, Abort
  <1>5. ASSUME (\E a \in Attempts : Expire(a) \/ Verify(a)) \/ Deploy \/ StoreBlob
               \/ UNCHANGED vars
        PROVE uploads' = uploads
    BY <1>5 DEF Expire, Verify, Deploy, StoreBlob, vars
  <1>6. QED
    BY <1>1, <1>2, <1>3, <1>4, <1>5 DEF Next, Handle

\* The upload of a row is assembled by whoever finds it open.
LEMMA Assembling ==
  ASSUME IInv, ReadInv, NEW c \in Clients, Finish(c), Assemblable(c), Assemble(c)
  PROVE  \E a \in Attempts : \E u \in Uploads :
           /\ rows[a] # None /\ rows[a].upload = u
           /\ uploads[u].state = "open" /\ uploads'[u].state = "done"
           /\ objects'[u] # {} /\ \A v \in Uploads \ {u} : objects'[v] = objects[v]
  <1>0. TypeOK
    BY DEF IInv
  <1>1. PICK u \in Uploads : u = item[c].upload
    BY NoneAssumption DEF IInv, Finish, AtHand, TypeOK, Items
  <1>2. uploads[u].state = "open" /\ held[c].etags # {}
    BY <1>1 DEF Assemblable
  <1>3. /\ uploads'[u].state = "done" /\ objects'[u] = held[c].etags
        /\ \A v \in Uploads \ {u} : objects'[v] = objects[v]
    BY <1>0, <1>1 DEF Assemble, TypeOK
  <1>4. pc[c] = "finish" /\ held[c] # None /\ held[c] \in Responses
    BY <1>0 DEF IInv, AtHand, Finish, TypeOK
  <1>5. PICK a \in Attempts : a = held[c].attempt
    BY <1>4 DEF Responses
  <1>6. rows[a] # None /\ rows[a].upload = u
    BY <1>1, <1>4, <1>5 DEF IInv, ResponsesAreWhole, ReadInv
  <1>7. QED
    BY <1>2, <1>3, <1>6

LEMMA DoneStep ==
  ASSUME IInv, ReadInv, DoneInv, [Next]_vars
  PROVE  DoneInv'
  <1> SUFFICES ASSUME NEW u \in Uploads, objects'[u] # {}
               PROVE  /\ uploads'[u].state = "done"
                      /\ \E a \in Attempts : rows'[a] # None /\ rows'[a].upload = u
    BY DEF DoneInv
  <1>1. CASE objects[u] # {}
    BY <1>1, DoneStays, RowsKeep DEF DoneInv
  <1>2. CASE objects[u] = {}
    <2>1. PICK c \in Clients : Finish(c) /\ Assemblable(c) /\ Assemble(c)
      BY <1>2, ObjectSteps
    <2>2. PICK a \in Attempts : rows[a] # None /\ rows[a].upload = u
                               /\ uploads'[u].state = "done"
      BY <1>2, <2>1, Assembling
    <2>3. QED
      BY <2>2, RowsKeep
  <1>3. QED
    BY <1>1, <1>2

LEMMA AtomicAlways == Spec => [](IInv /\ AtomicInv)
  <1>1. Init => AtomicInv
    BY DEF Init, AtomicInv, LockInv, ReadInv, DoneInv
  <1>2. IInv /\ AtomicInv /\ [Next]_vars => AtomicInv'
    BY LockStep, ReadStep, DoneStep DEF AtomicInv
  <1>3. QED
    BY <1>1, <1>2, Invariance, PTL DEF Spec

-----------------------------------------------------------------------------
(* Presigns are atomic *)

Told == [c \in Clients |-> Given(held[c])]
Stored == {u \in Uploads : objects[u] # {}}

LEMMA PendingSame == Atomic!Pending = PendingRows /\ \A a \in Attempts :
                       a \in Atomic!Present <=> rows[a] # None
  BY DEF Atomic!Pending, Atomic!Present, PendingRows

\* A handler that commits tells its client of the row as it is then.
LEMMA CommitTells ==
  ASSUME IInv, LockInv, NEW c \in Clients, Commit(c), NEW a \in Attempts,
         a = staged[c].attempt
  PROVE  /\ \/ Told' = [Told EXCEPT ![c] = [attempt |-> a, upload |-> rows'[a].upload,
                                            plan |-> rows'[a].plan]]
            \/ Told' = Told
         /\ UNCHANGED <<Stored, blob>>
  <1>0. TypeOK
    BY DEF IInv
  <1>1. staged[c] # None /\ reply[c] # None
    BY DEF IInv, AtHand, Commit
  <1>2. ReplyFits(c)
    BY Committing
  <1>3. /\ reply[c].attempt = a /\ rows'[a].upload = reply[c].upload
        /\ rows'[a].plan = reply[c].plan
    BY <1>1, <1>2, Committing DEF ReplyFits, LockInv
  <1>4. PICK told : told = [attempt |-> a, upload |-> rows'[a].upload,
                            plan |-> rows'[a].plan]
    OBVIOUS
  <1>5. Given(reply[c]) = told
    BY <1>1, <1>3, <1>4 DEF Given
  <1>6. held' = held \/ held' = [held EXCEPT ![c] = reply[c]]
    BY DEF Commit
  <1>7. Told' = Told \/ Told' = [Told EXCEPT ![c] = told]
    <2>1. CASE held' = held
      BY <2>1 DEF Told
    <2>2. CASE held' = [held EXCEPT ![c] = reply[c]]
      <3>1. \A d \in Clients : held'[d] = IF d = c THEN reply[c] ELSE held[d]
        BY <1>0, <2>2 DEF TypeOK
      <3>2. \A d \in Clients : Given(held'[d]) = IF d = c THEN told ELSE Given(held[d])
        BY <1>5, <3>1
      <3>3. QED
        BY <3>2 DEF Told
    <2>3. QED
      BY <1>6, <2>1, <2>2
  <1>8. UNCHANGED <<Stored, blob>>
    BY DEF Commit, s3Vars, Stored
  <1>9. QED
    BY <1>4, <1>7, <1>8

LEMMA TellMaps ==
  ASSUME IInv, LockInv, NEW c \in Clients, Commit(c), NEW a \in Attempts,
         a = staged[c].attempt
  PROVE  Atomic!Tell(c, a)
  BY CommitTells DEF Told, Stored, Atomic!Tell

\* A commit resumes the pending row, renews it or inserts it.
LEMMA CommitMaps ==
  ASSUME IInv, AtomicInv, NEW c \in Clients, Commit(c)
  PROVE  Atomic!Next
  <1>0. TypeOK /\ LockInv
    BY DEF IInv, AtomicInv
  <1>1. PICK a \in Attempts : a = staged[c].attempt
    BY Committing
  <1>2. Atomic!Tell(c, a)
    BY <1>0, <1>1, TellMaps
  <1>3. staged[c] # None /\ ReplyFits(c)
    BY Committing
  <1>4. rows[a] # None => a \in Atomic!Pending
    BY <1>0, <1>1, <1>3, PendingSame DEF LockInv, PendingRows
  <1>5. CASE staged[c].row = None
    <2>1. rows' = rows /\ rows[a] # None
      BY <1>1, <1>3, <1>5, Committing DEF ReplyFits
    <2>2. Atomic!Resume(c, a)
      BY <1>2, <1>4, <2>1 DEF Atomic!Resume
    <2>3. QED
      BY <2>2 DEF Atomic!Next
  <1>6. CASE staged[c].row # None
    <2>1. PICK row \in Rows : row = staged[c].row
      BY <1>6, Committing
    <2>2. /\ rows' = [rows EXCEPT ![a] = row] /\ row.valid
          /\ row.state = "pending" /\ PendingRows \subseteq {a} /\ HasUpload(a, row.upload)
          /\ rows[a] # None => rows[a].upload = row.upload /\ ~rows[a].valid
      BY <1>0, <1>1, <1>3, <1>6, <2>1, Committing DEF WriteFits, LockInv, Commit
    <2>3. PICK u \in Uploads, p \in Plans :
            row = [state |-> "pending", upload |-> u, plan |-> p, valid |-> TRUE]
      BY <2>1, <2>2 DEF Rows
    <2>4. CASE rows[a] # None
      <3>1. rows[a] \in Rows /\ rows[a].state = "pending"
        BY <1>0, <1>1, <1>3, <2>4 DEF TypeOK, LockInv
      <3>2. PICK old : old = rows[a]
        OBVIOUS
      <3>3. /\ [old EXCEPT !.plan = p, !.valid = TRUE] \in Rows
            /\ [old EXCEPT !.plan = p, !.valid = TRUE].state = row.state
            /\ [old EXCEPT !.plan = p, !.valid = TRUE].upload = row.upload
            /\ [old EXCEPT !.plan = p, !.valid = TRUE].plan = row.plan
            /\ [old EXCEPT !.plan = p, !.valid = TRUE].valid = row.valid
        BY <2>2, <2>3, <2>4, <3>1, <3>2 DEF Rows
      <3>4. PICK new \in Rows : new = [old EXCEPT !.plan = p, !.valid = TRUE]
        BY <3>3
      <3>5. new = row
        BY <2>1, <3>3, <3>4 DEF Rows
      <3>6. rows' = [rows EXCEPT ![a].plan = p, ![a].valid = TRUE]
        BY <2>2, <3>2, <3>4, <3>5
      <3>7. Atomic!Renew(c, a, p)
        BY <1>2, <1>4, <2>2, <2>4, <3>6 DEF Atomic!Renew
      <3>8. QED
        BY <3>7 DEF Atomic!Next
    <2>5. CASE rows[a] = None
      <3>1. Atomic!Pending = {} /\ a \notin Atomic!Present
        BY <2>2, <2>5, PendingSame DEF PendingRows
      <3>2. \A b \in Atomic!Present : rows[b].upload # u
        BY <2>2, <2>3, <2>5 DEF HasUpload, Atomic!Present
      <3>3. u \notin Stored
        BY <2>2, <2>3, <2>5 DEF AtomicInv, DoneInv, HasUpload, Stored
      <3>4. Atomic!Begin(c, a, u, p)
        BY <1>2, <2>2, <2>3, <3>1, <3>2, <3>3 DEF Atomic!Begin, Stored
      <3>5. QED
        BY <3>4 DEF Atomic!Next
    <2>6. QED
      BY <2>4, <2>5
  <1>7. QED
    BY <1>5, <1>6

\* The completion of an upload is seen when it becomes an object.
LEMMA FinishMaps ==
  ASSUME IInv, AtomicInv, NEW c \in Clients, Finish(c)
  PROVE  [Atomic!Next]_(Atomic!vars)
  <1>1. held' = held /\ rows' = rows /\ blob' = blob
    BY DEF Finish
  <1>2. Told' = Told
    BY <1>1 DEF Told
  <1>3. CASE Assemblable(c) /\ Assemble(c)
    <2>1. PICK a \in Attempts, u \in Uploads :
            /\ rows[a] # None /\ rows[a].upload = u
            /\ uploads[u].state = "open" /\ objects'[u] # {}
            /\ \A v \in Uploads \ {u} : objects'[v] = objects[v]
      BY <1>3, Assembling DEF AtomicInv
    <2>2. u \notin Stored
      BY <2>1 DEF Stored, AtomicInv, DoneInv
    <2>3. Stored' = Stored \cup {u}
      BY <2>1 DEF Stored
    <2>4. Atomic!Assemble(a)
      BY <1>1, <1>2, <2>1, <2>2, <2>3, PendingSame DEF Atomic!Assemble, Told, Stored
    <2>5. QED
      BY <2>4 DEF Atomic!Next
  <1>4. CASE objects' = objects
    <2>1. Stored' = Stored
      BY <1>4 DEF Stored
    <2>2. QED
      BY <1>1, <1>2, <2>1 DEF Atomic!vars, Told, Stored
  <1>5. QED
    BY <1>3, <1>4 DEF Finish

\* Time passes, and the consumer of the attempts table commits one.
LEMMA WorldMaps ==
  ASSUME IInv, NEW a \in Attempts, Expire(a) \/ Verify(a)
  PROVE  Atomic!Next
  <1> USE DEF handlerVars, s3Vars, boundVars
  <1>1. held' = held /\ objects' = objects /\ blob' = blob
    BY DEF Expire, Verify
  <1>2. Told' = Told /\ Stored' = Stored
    BY <1>1 DEF Told, Stored
  <1>3. a \in Atomic!Pending
    BY PendingSame DEF Expire, Verify
  <1>4. CASE Expire(a)
    <2>1. Atomic!Expire(a)
      BY <1>1, <1>2, <1>3, <1>4 DEF Expire, Atomic!Expire, Told, Stored
    <2>2. QED
      BY <2>1 DEF Atomic!Next
  <1>5. CASE Verify(a)
    <2>1. rows[a].upload \in Stored
      BY <1>5 DEF Verify, Stored, PendingRows, IInv, TypeOK, Rows
    <2>2. Atomic!Verify(a)
      BY <1>1, <1>2, <1>3, <1>5, <2>1 DEF Verify, Atomic!Verify, Told, Stored
    <2>3. QED
      BY <2>2 DEF Atomic!Next
  <1>6. QED
    BY <1>4, <1>5

LEMMA StoreMaps ==
  ASSUME IInv, StoreBlob
  PROVE  Atomic!Next
  <1> USE DEF handlerVars, s3Vars, boundVars
  <1>1. held' = held /\ objects' = objects /\ rows' = rows /\ ~blob /\ blob' = TRUE
    BY DEF StoreBlob
  <1>2. Told' = Told /\ Stored' = Stored
    BY <1>1 DEF Told, Stored
  <1>3. Stored # {}
    BY DEF StoreBlob, Stored, IInv, TypeOK, Rows
  <1>4. Atomic!Enter
    BY <1>1, <1>2, <1>3 DEF Atomic!Enter, Told, Stored
  <1>5. QED
    BY <1>4 DEF Atomic!Next

\* What clients and handlers do that nobody else sees.
LEMMA UnseenMaps ==
  ASSUME IInv, NEW c \in Clients,
         \/ Presign(c) \/ Complete(c) \/ LinkIdentical(c) \/ CreateUpload(c)
         \/ Upsert(c) \/ ListMissing(c) \/ ReadItem(c) \/ CheckParts(c) \/ Abort(c)
         \/ \E n \in AllNumbers : PutPart(c, n)
  PROVE  UNCHANGED Atomic!vars
  <1> USE DEF handlerVars, s3Vars, boundVars
  <1>0. TypeOK
    BY DEF IInv
  <1>1. objects' = objects /\ rows' = rows /\ blob' = blob
    BY DEF Presign, Complete, Call, LinkIdentical, CreateUpload, Upsert, ListMissing,
           Rollback, ReadItem, CheckParts, Abort, PutPart
  <1>2. Told' = Told
    <2>1. CASE held' = held
      BY <2>1 DEF Told
    <2>2. ASSUME NEW n \in AllNumbers, PutPart(c, n) PROVE Told' = Told
      <3>1. PICK new : new = [held[c] EXCEPT !.urls = @ \ {n},
                                             !.etags = @ \cup {<<n, held[c].plan>>}]
        OBVIOUS
      <3>2. held' = [held EXCEPT ![c] = new] /\ held[c] # None
        <4>1. held' = [held EXCEPT ![c] = [held[c] EXCEPT !.urls = @ \ {n},
                                      !.etags = @ \cup {<<n, held[c].plan>>}]]
          BY <2>2 DEF PutPart
        <4>2. held[c] # None
          BY <2>2 DEF PutPart
        <4>3. QED
          BY <3>1, <4>1, <4>2
      <3>3. new \in Responses
        BY <1>0, <2>2, <3>1, PutType
      <3>4. new # None /\ held'[c] = new
        BY <1>0, <3>2, <3>3, NoneAssumption DEF TypeOK
      <3>5. /\ held'[c].plan = held[c].plan /\ held'[c].upload = held[c].upload
            /\ held'[c].attempt = held[c].attempt
        BY <1>0, <2>2, PutEffect
      <3>6. Given(held'[c]) = Given(held[c])
        BY <3>2, <3>4, <3>5 DEF Given
      <3>7. \A d \in Clients : Given(held'[d]) = Given(held[d])
        BY <1>0, <3>2, <3>6 DEF TypeOK
      <3>8. QED
        BY <3>7 DEF Told
    <2>3. CASE ~\E n \in AllNumbers : PutPart(c, n)
      <3>1. held' = held
        BY <2>3 DEF Presign, Complete, Call, LinkIdentical, CreateUpload, Upsert,
                    ListMissing, Rollback, ReadItem, CheckParts, Abort
      <3>2. QED
        BY <2>1, <3>1
    <2>4. QED
      BY <2>2, <2>3
  <1>3. Stored' = Stored
    BY <1>1 DEF Stored
  <1>4. QED
    BY <1>1, <1>2, <1>3 DEF Atomic!vars, Told, Stored

\* The handlers implement AtomicUploads: for any clients, part sizes, expiries,
\* deployments, S3 faults and stopped processes, a presign finds, renews or
\* inserts the pending row in one step, its commit, and tells its client of the
\* row as it is then; an upload is assembled once, and only a row whose object
\* is there is committed (GeneratePresignedUrl, CompleteMultiPartUpload).
THEOREM UploadRefinement == Spec => UploadsAreAtomic
  <1>1. Init => Atomic!Init
    <2> SUFFICES ASSUME Init PROVE Atomic!Init
      OBVIOUS
    <2>1. Stored = {}
      BY DEF Init, Stored
    <2>2. Told = [c \in Clients |-> None]
      BY DEF Init, Told, Given
    <2>3. QED
      BY <2>1, <2>2 DEF Init, Told, Stored, Atomic!Init
  <1>2. IInv /\ AtomicInv /\ [Next]_vars => [Atomic!Next]_(Atomic!vars)
    <2> SUFFICES ASSUME IInv, AtomicInv, [Next]_vars PROVE [Atomic!Next]_(Atomic!vars)
      OBVIOUS
    <2>1. ASSUME NEW c \in Clients, Commit(c) PROVE Atomic!Next
      BY <2>1, CommitMaps
    <2>2. ASSUME NEW c \in Clients, Finish(c) PROVE [Atomic!Next]_(Atomic!vars)
      BY <2>2, FinishMaps
    <2>3. ASSUME NEW c \in Clients,
                 \/ Presign(c) \/ Complete(c) \/ LinkIdentical(c) \/ CreateUpload(c)
                 \/ Upsert(c) \/ ListMissing(c) \/ ReadItem(c) \/ CheckParts(c) \/ Abort(c)
                 \/ \E n \in AllNumbers : PutPart(c, n)
          PROVE  UNCHANGED Atomic!vars
      BY <2>3, UnseenMaps
    <2>4. ASSUME NEW a \in Attempts, Expire(a) \/ Verify(a) PROVE Atomic!Next
      BY <2>4, WorldMaps
    <2>5. CASE StoreBlob
      BY <2>5, StoreMaps
    <2>6. CASE Deploy \/ UNCHANGED vars
      <3>1. UNCHANGED <<held, objects, rows, blob>>
        BY <2>6 DEF Deploy, vars, handlerVars, s3Vars
      <3>2. Told' = Told /\ Stored' = Stored
        BY <3>1 DEF Told, Stored
      <3>3. QED
        BY <3>1, <3>2 DEF Atomic!vars, Told, Stored
    <2>7. QED
      BY <2>1, <2>2, <2>3, <2>4, <2>5, <2>6 DEF Next, Handle
  <1>3. QED
    BY <1>1, <1>2, AtomicAlways, PTL DEF Spec, UploadsAreAtomic, Atomic!Spec
=============================================================================
