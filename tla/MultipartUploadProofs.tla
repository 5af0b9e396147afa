------------------------ MODULE MultipartUploadProofs ------------------------
(* Theorems about MultipartUpload, for any clients, uploads, attempts, part    *)
(* sizes and bounds.                                                           *)
EXTENDS MultipartUpload, FiniteSetTheorems, TLAPS

-----------------------------------------------------------------------------
(* The inductive invariant *)

\* What a handler has at hand when it makes a call.
AtHand ==
  \A c \in Clients :
    /\ pc[c] \in {"list", "commit"} <=> staged[c] # None
    /\ pc[c] \in {"list", "commit"} => reply[c] # None
    /\ pc[c] = "upsert" => fresh[c] # None
    /\ pc[c] \in {"read", "check", "finish"} => held[c] # None
    /\ pc[c] \in {"check", "finish"} => item[c] # None

\* One transaction at a time has the pending row.
OneHolder == \A c, d \in Clients : staged[c] # None /\ staged[d] # None => c = d

OnePending == \A a, b \in PendingRows : a = b

\* The upload of an attempt is there and no other attempt's.
HasUpload(a, u) == /\ uploads[u].state # "absent"
                   /\ \A b \in Attempts \ {a} : rows[b] # None => rows[b].upload # u

\* The row that c is about to write fits what is there: it is new, or renews
\* the pending row, expired, under the same upload.
WriteFits(c) ==
  LET a == staged[c].attempt
      row == staged[c].row
  IN /\ row.state = "pending"
     /\ PendingRows \subseteq {a}
     /\ HasUpload(a, row.upload)
     /\ rows[a] # None => rows[a].upload = row.upload /\ ~rows[a].valid

\* The reply under construction is about the row that c has written or locked.
ReplyFits(c) ==
  LET a == staged[c].attempt
      row == staged[c].row
  IN /\ reply[c].attempt = a
     /\ row = None => rows[a] # None /\ rows[a].upload = reply[c].upload
     /\ row # None => row.upload = reply[c].upload

\* No part of the plan of a response is missing in it.
Covers(response) ==
  Numbers(response.plan) \subseteq response.urls \cup {etag[1] : etag \in response.etags}

StagedFits ==
  \A c \in Clients : staged[c] # None =>
    /\ staged[c].row # None => WriteFits(c)
    /\ ReplyFits(c)
    /\ Covers(reply[c])
    /\ pc[c] = "list" => reply[c].etags = {}

\* An upload created for a request that has not reached its upsert is nobody
\* else's.
FreshFits ==
  \A c \in Clients : pc[c] = "upsert" =>
    /\ uploads[fresh[c]].state # "absent"
    /\ \A a \in Attempts : rows[a] # None => rows[a].upload # fresh[c]
    /\ \A d \in Clients : staged[d] # None /\ staged[d].row # None
                            => staged[d].row.upload # fresh[c]
    /\ \A d \in Clients \ {c} : pc[d] = "upsert" => fresh[d] # fresh[c]

IInv == /\ TypeOK /\ AtHand /\ OneHolder /\ OnePending /\ StagedFits /\ FreshFits
        /\ RowsHaveUploads /\ ResponsesAreWhole

-----------------------------------------------------------------------------
(* Types *)

LEMMA NumbersType ==
  ASSUME NEW p \in Plans
  PROVE  Numbers(p) \in SUBSET AllNumbers
  BY DEF AllNumbers

LEMMA ListedType ==
  ASSUME TypeOK, NEW u \in Uploads
  PROVE  /\ Parts(u) \subseteq AllNumbers
         /\ Listed(u) \subseteq Etags
         /\ Parts(u) = {etag[1] : etag \in Listed(u)}
  <1>1. \A n \in Parts(u) : n \in AllNumbers /\ uploads[u].parts[n] \in Plans
    BY DEF TypeOK, Parts
  <1>2. Listed(u) \subseteq Etags
    BY <1>1 DEF Listed, Etags
  <1>3. ASSUME NEW n \in Parts(u) PROVE n \in {etag[1] : etag \in Listed(u)}
    <2>1. <<n, uploads[u].parts[n]>> \in Listed(u)
      BY DEF Listed
    <2>2. n = <<n, uploads[u].parts[n]>>[1]
      OBVIOUS
    <2>3. QED
      BY <2>1, <2>2
  <1>4. ASSUME NEW n \in {etag[1] : etag \in Listed(u)} PROVE n \in Parts(u)
    BY <1>4 DEF Listed
  <1>5. QED
    BY <1>1, <1>2, <1>3, <1>4

LEMMA NewUploadType ==
  ASSUME AbsentUploads # {}
  PROVE  NewUpload \in Uploads /\ uploads[NewUpload].state = "absent"
  BY DEF NewUpload, AbsentUploads

LEMMA TargetType ==
  ASSUME PendingRows \cup AbsentRows # {}
  PROVE  /\ Target \in Attempts
         /\ Target \in PendingRows \/ (PendingRows = {} /\ rows[Target] = None)
  <1>0. PendingRows \subseteq Attempts
    BY DEF PendingRows
  <1>1. CASE PendingRows # {}
    <2>1. Target \in PendingRows
      BY <1>1 DEF Target
    <2>2. QED
      BY <1>0, <2>1
  <1>2. CASE PendingRows = {}
    <2>1. Target \in AbsentRows
      BY <1>2 DEF Target
    <2>2. QED
      BY <1>2, <2>1 DEF AbsentRows
  <1>3. QED
    BY <1>1, <1>2

\* The row that an upsert leaves.
LEMMA UpsertedType ==
  ASSUME TypeOK, NEW c \in Clients, fresh[c] \in Uploads, NEW a \in Attempts
  PROVE  Upserted(c, a) \in Rows
  <1>1. rows[a] \in Rows \cup {None}
    BY DEF TypeOK
  <1>2. CASE rows[a] = None
    BY <1>2 DEF TypeOK, Upserted, Rows
  <1>3. CASE rows[a] \in Rows
    BY <1>3 DEF TypeOK, Upserted, Rows
  <1>4. QED
    BY <1>1, <1>2, <1>3

\* A row of which one field changes.
LEMMA RowType ==
  ASSUME TypeOK, NEW a \in PendingRows, NEW row,
         \/ row = [rows[a] EXCEPT !.valid = FALSE]
         \/ row = [rows[a] EXCEPT !.state = "committed"]
  PROVE  row \in Rows /\ [rows EXCEPT ![a] = row] \in [Attempts -> Rows \cup {None}]
  <1>1. rows[a] \in Rows /\ a \in Attempts
    BY DEF PendingRows, TypeOK
  <1>2. row \in Rows
    BY <1>1 DEF Rows
  <1>3. QED
    BY <1>1, <1>2 DEF TypeOK

\* A resumed response.
LEMMA ResumedType ==
  ASSUME TypeOK, NEW c \in Clients, reply[c] \in Responses
  PROVE  Resumed(c) \in Responses
  <1>1. reply[c].upload \in Uploads
    BY DEF Responses
  <1>2. Listed(reply[c].upload) \subseteq Etags
    BY <1>1, ListedType
  <1>3. QED
    BY <1>2 DEF Resumed, Responses

\* What CompleteMultiPartUpload reads.
LEMMA ItemType ==
  ASSUME IInv, NEW c \in Clients, ReadItem(c)
  PROVE  [upload |-> rows[held[c].attempt].upload,
          count  |-> Count[rows[held[c].attempt].plan]] \in Items
  <1>1. held[c] \in Responses /\ held[c] # None
    BY DEF IInv, TypeOK, ReadItem, AtHand
  <1>2. rows[held[c].attempt] \in Rows
    BY <1>1 DEF IInv, ResponsesAreWhole, TypeOK, Responses
  <1>3. QED
    BY <1>2, CountAssumption DEF Rows, Plans, Items

\* A response after one more part.
LEMMA PutType ==
  ASSUME TypeOK, NEW c \in Clients, NEW n \in AllNumbers, PutPart(c, n)
  PROVE  [held[c] EXCEPT !.urls = @ \ {n}, !.etags = @ \cup {<<n, held[c].plan>>}]
           \in Responses
  <1> DEFINE e == held[c].etags \cup {<<n, held[c].plan>>}
  <1> DEFINE w == held[c].urls \ {n}
  <1>1. held[c] \in Responses
    BY DEF TypeOK, PutPart
  <1>2. e \in SUBSET Etags
    BY <1>1 DEF Responses, Etags
  <1>3. w \in SUBSET AllNumbers
    BY <1>1 DEF Responses
  <1> HIDE DEF e, w
  <1>4. [held[c] EXCEPT !.urls = w, !.etags = e] \in Responses
    BY <1>1, <1>2, <1>3 DEF Responses
  <1>5. QED
    BY <1>4 DEF e, w

LEMMA TypeInit == Init => TypeOK
  <1> SUFFICES ASSUME Init PROVE TypeOK
    OBVIOUS
  <1>1. uploads \in [Uploads -> [state : {"absent", "open", "done"},
                                parts : [AllNumbers -> Plans \cup {0}]]]
    BY DEF Init
  <1>2. plan \in Plans /\ expiries \in 0..MaxExpiries /\ faults \in 0..MaxS3Faults
    BY CountAssumption, LimitsAssumption DEF Init
  <1>3. calls \in [Clients -> 0..MaxCalls]
    BY LimitsAssumption DEF Init
  <1>4. QED
    BY <1>1, <1>2, <1>3 DEF Init, TypeOK

\* What an upsert finds, writes and begins to reply.
LEMMA UpsertTypes ==
  ASSUME TypeOK, AtHand, NEW c \in Clients, Upsert(c)
  PROVE  LET a == Target
             row == Upserted(c, a)
         IN /\ a \in Attempts
            /\ row \in Rows
            /\ AllParts(a, row) \in Responses
            /\ [attempt |-> a, row |-> IF row = rows[a] THEN None ELSE row] \in Writes
  <1> DEFINE a == Target
  <1> DEFINE row == Upserted(c, a)
  <1>1. a \in Attempts
    BY TargetType DEF Upsert
  <1>2. fresh[c] \in Uploads
    BY DEF Upsert, AtHand, TypeOK
  <1>3. row \in Rows
    BY <1>1, <1>2, UpsertedType
  <1>4. AllParts(a, row) \in Responses
    <2>1. row.upload \in Uploads /\ row.plan \in Plans
      BY <1>3 DEF Rows
    <2>2. Numbers(row.plan) \in SUBSET AllNumbers
      BY <2>1, NumbersType
    <2>3. QED
      BY <1>1, <2>1, <2>2 DEF AllParts, Responses
  <1>5. [attempt |-> a, row |-> IF row = rows[a] THEN None ELSE row] \in Writes
    BY <1>1, <1>3 DEF Writes
  <1>6. QED
    BY <1>1, <1>3, <1>4, <1>5

LEMMA TypeStep == IInv /\ [Next]_vars => TypeOK'
  <1> SUFFICES ASSUME IInv, [Next]_vars PROVE TypeOK'
    OBVIOUS
  <1> USE DEF handlerVars, s3Vars, boundVars
  <1>0. TypeOK /\ AtHand
    BY DEF IInv
  <1>1. ASSUME NEW c \in Clients, Presign(c) PROVE TypeOK'
    BY <1>0, <1>1, LimitsAssumption DEF TypeOK, Presign, Call, Goto
  <1>2. ASSUME NEW c \in Clients, Complete(c) PROVE TypeOK'
    BY <1>0, <1>2, LimitsAssumption DEF TypeOK, Complete, Call, Goto
  <1>3. ASSUME NEW c \in Clients, LinkIdentical(c) PROVE TypeOK'
    BY <1>0, <1>3 DEF TypeOK, LinkIdentical, Goto
  <1>4. ASSUME NEW c \in Clients, CreateUpload(c) PROVE TypeOK'
    <2>1. NewUpload \in Uploads
      BY <1>4, NewUploadType DEF CreateUpload
    <2>2. QED
      BY <1>0, <1>4, <2>1 DEF TypeOK, CreateUpload, Goto
  <1>5. ASSUME NEW c \in Clients, Upsert(c) PROVE TypeOK'
    <2> DEFINE a == Target
    <2> DEFINE row == Upserted(c, a)
    <2>4. AllParts(a, row) \in Responses
      BY <1>5, UpsertTypes DEF IInv
    <2>5. [attempt |-> a, row |-> IF row = rows[a] THEN None ELSE row] \in Writes
      BY <1>5, UpsertTypes DEF IInv
    <2>6. staged' = [staged EXCEPT ![c] =
                       [attempt |-> a, row |-> IF row = rows[a] THEN None ELSE row]]
      BY <1>5 DEF Upsert
    <2>7. reply' = [reply EXCEPT ![c] = AllParts(a, row)]
      BY <1>5 DEF Upsert
    <2> HIDE DEF a, row
    <2>8. pc' \in [Clients -> {"idle", "link", "create", "upsert", "list", "commit",
                               "read", "check", "finish"}]
      BY <1>0, <1>5 DEF TypeOK, Upsert, Goto
    <2>9. staged' \in [Clients -> Writes \cup {None}]
      BY <1>0, <2>5, <2>6 DEF TypeOK
    <2>10. reply' \in [Clients -> Responses \cup {None}]
      BY <1>0, <2>4, <2>7 DEF TypeOK
    <2>11. UNCHANGED <<calls, fresh, item, held, answer, rows, s3Vars, blob, boundVars>>
      BY <1>5 DEF Upsert
    <2>12. QED
      BY <1>0, <2>8, <2>9, <2>10, <2>11 DEF TypeOK
  <1>6. ASSUME NEW c \in Clients, ListMissing(c) PROVE TypeOK'
    <2>1. reply[c] \in Responses
      BY <1>0, <1>6 DEF TypeOK, ListMissing, AtHand
    <2>2. Resumed(c) \in Responses
      BY <1>0, <2>1, ResumedType
    <2>3. CASE uploads[reply[c].upload].state = "open"
      <3>1. reply' = [reply EXCEPT ![c] = Resumed(c)]
        BY <1>6, <2>3 DEF ListMissing
      <3>2. reply' \in [Clients -> Responses \cup {None}]
        BY <1>0, <2>2, <3>1 DEF TypeOK
      <3>3. QED
        BY <1>0, <1>6, <2>3, <3>2 DEF TypeOK, ListMissing, Goto
    <2>4. CASE uploads[reply[c].upload].state # "open"
      BY <1>0, <1>6, <2>4 DEF TypeOK, ListMissing, Rollback, Goto
    <2>5. QED
      BY <2>3, <2>4
  <1>7. ASSUME NEW c \in Clients, Commit(c) PROVE TypeOK'
    <2>1. reply[c] \in Responses /\ staged[c] \in Writes
      BY <1>0, <1>7 DEF TypeOK, Commit, AtHand
    <2>2. rows' \in [Attempts -> Rows \cup {None}]
      BY <1>0, <1>7, <2>1 DEF TypeOK, Commit, Writes
    <2>3. held' \in [Clients -> Responses \cup {None}]
      BY <1>0, <1>7, <2>1 DEF TypeOK, Commit
    <2>4. QED
      BY <1>0, <1>7, <2>2, <2>3 DEF TypeOK, Commit, Goto
  <1>8. ASSUME NEW c \in Clients, ReadItem(c) PROVE TypeOK'
    <2>1. [upload |-> rows[held[c].attempt].upload,
           count  |-> Count[rows[held[c].attempt].plan]] \in Items
      BY <1>8, ItemType
    <2>2. QED
      BY <1>0, <1>8, <2>1 DEF TypeOK, ReadItem, Goto
  <1>9. ASSUME NEW c \in Clients, CheckParts(c) PROVE TypeOK'
    BY <1>0, <1>9 DEF TypeOK, CheckParts, Goto
  <1>10. ASSUME NEW c \in Clients, Finish(c) PROVE TypeOK'
    <2>1. item[c] \in Items /\ held[c] \in Responses /\ item[c].upload \in Uploads
      BY <1>0, <1>10 DEF TypeOK, Finish, AtHand, Items
    <2>2. held[c].etags \subseteq Etags
      BY <2>1 DEF Responses
    <2>3. faults' \in 0..MaxS3Faults
      BY <1>0, <1>10, LimitsAssumption DEF TypeOK, Finish
    <2>4. uploads' \in [Uploads -> [state : {"absent", "open", "done"},
                                    parts : [AllNumbers -> Plans \cup {0}]]]
      <3>1. CASE uploads' = uploads
        BY <1>0, <3>1 DEF TypeOK
      <3>2. CASE uploads' = [uploads EXCEPT ![item[c].upload].state = "done"]
        <4> DEFINE u == item[c].upload
        <4>1. [uploads[u] EXCEPT !.state = "done"] \in
                [state : {"absent", "open", "done"}, parts : [AllNumbers -> Plans \cup {0}]]
          BY <1>0, <2>1 DEF TypeOK
        <4>2. QED
          BY <1>0, <3>2, <4>1 DEF TypeOK
      <3>3. QED
        BY <1>10, <3>1, <3>2 DEF Finish, Assemble
    <2>5. objects' \in [Uploads -> SUBSET Etags]
      BY <1>0, <1>10, <2>1, <2>2 DEF TypeOK, Finish, Assemble
    <2>6. QED
      BY <1>0, <1>10, <2>3, <2>4, <2>5 DEF TypeOK, Finish, Goto
  <1>11. ASSUME NEW c \in Clients, Abort(c) PROVE TypeOK'
    BY <1>0, <1>11 DEF TypeOK, Abort, Rollback, Goto
  <1>12. ASSUME NEW c \in Clients, NEW n \in AllNumbers, PutPart(c, n) PROVE TypeOK'
    <2>1. held[c] \in Responses
      BY <1>0, <1>12 DEF TypeOK, PutPart
    <2>2. held[c].upload \in Uploads /\ held[c].plan \in Plans
      BY <2>1 DEF Responses
    <2>3. uploads' \in [Uploads -> [state : {"absent", "open", "done"},
                                    parts : [AllNumbers -> Plans \cup {0}]]]
      BY <1>0, <1>12, <2>2 DEF TypeOK, PutPart
    <2>4. [held[c] EXCEPT !.urls = @ \ {n}, !.etags = @ \cup {<<n, held[c].plan>>}]
            \in Responses
      BY <1>0, <1>12, PutType
    <2>5. held' \in [Clients -> Responses \cup {None}]
      BY <1>0, <1>12, <2>4 DEF TypeOK, PutPart
    <2>6. QED
      BY <1>0, <1>12, <2>3, <2>5 DEF TypeOK, PutPart
  <1>13. ASSUME NEW a \in Attempts, Expire(a) PROVE TypeOK'
    <2>1. rows' \in [Attempts -> Rows \cup {None}]
      BY <1>0, <1>13, RowType DEF Expire
    <2>2. QED
      BY <1>0, <1>13, <2>1, LimitsAssumption DEF TypeOK, Expire
  <1>14. ASSUME NEW a \in Attempts, Verify(a) PROVE TypeOK'
    <2>1. rows' \in [Attempts -> Rows \cup {None}]
      BY <1>0, <1>14, RowType DEF Verify
    <2>2. QED
      BY <1>0, <1>14, <2>1 DEF TypeOK, Verify
  <1>15. ASSUME Deploy PROVE TypeOK'
    BY <1>0, <1>15 DEF TypeOK, Deploy
  <1>16. ASSUME StoreBlob PROVE TypeOK'
    BY <1>0, <1>16 DEF TypeOK, StoreBlob
  <1>17. ASSUME UNCHANGED vars PROVE TypeOK'
    BY <1>0, <1>17 DEF TypeOK, vars
  <1>18. QED
    BY <1>1, <1>2, <1>3, <1>4, <1>5, <1>6, <1>7, <1>8, <1>9, <1>10, <1>11, <1>12,
       <1>13, <1>14, <1>15, <1>16, <1>17 DEF Next, Handle

-----------------------------------------------------------------------------
(* What a handler has at hand, and who holds the row *)

LEMMA AtHandStep == IInv /\ [Next]_vars => AtHand'
  <1> SUFFICES ASSUME IInv, [Next]_vars PROVE AtHand'
    OBVIOUS
  <1> USE DEF handlerVars, s3Vars, boundVars
  <1>0. TypeOK /\ AtHand
    BY DEF IInv
  <1>1. ASSUME NEW c \in Clients, Presign(c) \/ Complete(c) \/ LinkIdentical(c)
        PROVE AtHand'
    BY <1>0, <1>1 DEF TypeOK, AtHand, Presign, Complete, LinkIdentical, Call, Goto
  <1>2. ASSUME NEW c \in Clients, CreateUpload(c) PROVE AtHand'
    <2>1. NewUpload # None
      BY <1>2, NewUploadType, NoneAssumption DEF CreateUpload
    <2>2. QED
      BY <1>0, <1>2, <2>1 DEF TypeOK, AtHand, CreateUpload, Goto
  <1>3. ASSUME NEW c \in Clients, Upsert(c) PROVE AtHand'
    <2>1. staged'[c] # None /\ reply'[c] # None
      <3>1. staged'[c] \in Writes
        BY <1>0, <1>3, UpsertTypes DEF TypeOK, Upsert
      <3>2. reply'[c] \in Responses
        BY <1>0, <1>3, UpsertTypes DEF TypeOK, Upsert
      <3>3. QED
        BY <3>1, <3>2, NoneAssumption
    <2>2. pc'[c] \in {"list", "commit"}
      BY <1>0, <1>3 DEF TypeOK, Upsert, Goto
    <2>3. \A d \in Clients \ {c} : /\ pc'[d] = pc[d] /\ staged'[d] = staged[d]
                                   /\ reply'[d] = reply[d]
      BY <1>0, <1>3 DEF TypeOK, Upsert, Goto
    <2>4. UNCHANGED <<fresh, item, held>>
      BY <1>3 DEF Upsert
    <2>5. QED
      BY <1>0, <2>1, <2>2, <2>3, <2>4 DEF AtHand
  <1>4. ASSUME NEW c \in Clients, ListMissing(c) PROVE AtHand'
    <2>1. reply[c] \in Responses
      BY <1>0, <1>4 DEF TypeOK, ListMissing, AtHand
    <2>2. Resumed(c) # None
      BY <1>0, <2>1, ResumedType, NoneAssumption
    <2>3. QED
      BY <1>0, <1>4, <2>2 DEF TypeOK, AtHand, ListMissing, Rollback, Goto
  <1>5. ASSUME NEW c \in Clients, Commit(c) PROVE AtHand'
    BY <1>0, <1>5 DEF TypeOK, AtHand, Commit, Goto
  <1>6. ASSUME NEW c \in Clients, ReadItem(c) PROVE AtHand'
    <2>1. item'[c] \in Items
      BY <1>0, <1>6, ItemType DEF IInv, TypeOK, ReadItem
    <2>2. QED
      BY <1>0, <1>6, <2>1, NoneAssumption DEF TypeOK, AtHand, ReadItem, Goto
  <1>7. ASSUME NEW c \in Clients, CheckParts(c) \/ Finish(c) \/ Abort(c) PROVE AtHand'
    BY <1>0, <1>7 DEF TypeOK, AtHand, CheckParts, Finish, Abort, Rollback, Goto
  <1>8. ASSUME NEW c \in Clients, NEW n \in AllNumbers, PutPart(c, n) PROVE AtHand'
    <2>1. held'[c] \in Responses
      BY <1>0, <1>8, PutType DEF TypeOK, PutPart
    <2>2. QED
      BY <1>0, <1>8, <2>1, NoneAssumption DEF TypeOK, AtHand, PutPart
  <1>9. ASSUME (\E a \in Attempts : Expire(a) \/ Verify(a)) \/ Deploy \/ StoreBlob
               \/ UNCHANGED vars
        PROVE AtHand'
    BY <1>0, <1>9 DEF AtHand, Expire, Verify, Deploy, StoreBlob, vars
  <1>10. QED
    BY <1>1, <1>2, <1>3, <1>4, <1>5, <1>6, <1>7, <1>8, <1>9 DEF Next, Handle

LEMMA OneHolderStep == IInv /\ [Next]_vars => OneHolder'
  <1> SUFFICES ASSUME IInv, [Next]_vars PROVE OneHolder'
    OBVIOUS
  <1> USE DEF handlerVars, s3Vars, boundVars
  <1>0. TypeOK /\ OneHolder
    BY DEF IInv
  <1>1. ASSUME NEW c \in Clients, Upsert(c) PROVE OneHolder'
    <2>1. \A d \in Clients \ {c} : staged'[d] = None
      BY <1>0, <1>1 DEF TypeOK, Upsert, RowIsFree
    <2>2. QED
      BY <2>1 DEF OneHolder
  <1>2. ASSUME \A d \in Clients : staged'[d] \in {staged[d], None} PROVE OneHolder'
    BY <1>0, <1>2 DEF OneHolder
  <1>3. ASSUME NEW c \in Clients, ListMissing(c) \/ Commit(c) \/ Abort(c)
        PROVE \A d \in Clients : staged'[d] \in {staged[d], None}
    BY <1>0, <1>3 DEF TypeOK, ListMissing, Commit, Abort, Rollback
  <1>4. ASSUME NEW c \in Clients,
               \/ Presign(c) \/ Complete(c) \/ LinkIdentical(c) \/ CreateUpload(c)
               \/ ReadItem(c) \/ CheckParts(c) \/ Finish(c)
               \/ \E n \in AllNumbers : PutPart(c, n)
        PROVE staged' = staged
    BY <1>4 DEF Presign, Complete, Call, LinkIdentical, CreateUpload, ReadItem,
                CheckParts, Finish, PutPart
  <1>5. ASSUME (\E a \in Attempts : Expire(a) \/ Verify(a)) \/ Deploy \/ StoreBlob
               \/ UNCHANGED vars
        PROVE staged' = staged
    BY <1>5 DEF Expire, Verify, Deploy, StoreBlob, vars
  <1>6. QED
    BY <1>1, <1>2, <1>3, <1>4, <1>5 DEF Next, Handle

-----------------------------------------------------------------------------
(* Rows and uploads *)

\* What every step but a commit may do to the rows: a row stays with its upload
\* and its plan, it may expire, and the consumer may commit it if no transaction
\* has it.
RowsSettle ==
  \A a \in Attempts :
    /\ rows'[a] = None <=> rows[a] = None
    /\ rows[a] # None => /\ rows'[a].upload = rows[a].upload
                         /\ rows'[a].valid => rows[a].valid
                         /\ rows'[a].plan = rows[a].plan
                         /\ rows'[a].state = "pending" => rows[a].state = "pending"
                         /\ \/ rows'[a].state = rows[a].state
                            \/ \A c \in Clients : staged[c] = None

UploadsStay ==
  \A u \in Uploads : uploads[u].state # "absent" => uploads'[u].state # "absent"

LEMMA RowsSettled ==
  ASSUME IInv, [Next]_vars
  PROVE  RowsSettle \/ \E c \in Clients : Commit(c)
  <1> USE DEF handlerVars, s3Vars, boundVars
  <1>0. TypeOK
    BY DEF IInv
  <1>1. ASSUME rows' = rows PROVE RowsSettle
    BY <1>1 DEF RowsSettle
  <1>2. ASSUME NEW a \in Attempts, Expire(a) \/ Verify(a) PROVE RowsSettle
    <2>1. a \in PendingRows /\ rows[a] \in Rows /\ rows[a] # None
      BY <1>0, <1>2 DEF Expire, Verify, PendingRows, TypeOK
    <2>2. PICK row : /\ rows' = [rows EXCEPT ![a] = row]
                     /\ \/ row = [rows[a] EXCEPT !.valid = FALSE]
                        \/ row = [rows[a] EXCEPT !.state = "committed"]
      BY <1>2 DEF Expire, Verify
    <2>3. row \in Rows
      BY <1>0, <2>1, <2>2, RowType
    <2>4. row # None
      BY <2>3, NoneAssumption
    <2>5. /\ row.upload = rows[a].upload /\ row.plan = rows[a].plan
          /\ row.valid => rows[a].valid
          /\ row.state = "pending" => rows[a].state = "pending"
      BY <2>1, <2>2 DEF Rows
    <2>6. row.state = rows[a].state \/ \A c \in Clients : staged[c] = None
      <3>1. CASE Expire(a)
        <4>1. rows' = [rows EXCEPT ![a] = [rows[a] EXCEPT !.valid = FALSE]]
          BY <3>1 DEF Expire
        <4>2. row = [rows[a] EXCEPT !.valid = FALSE]
          BY <1>0, <2>2, <4>1 DEF TypeOK
        <4>3. QED
          BY <2>1, <4>2 DEF Rows
      <3>2. CASE Verify(a)
        BY <3>2 DEF Verify
      <3>3. QED
        BY <1>2, <3>1, <3>2
    <2>7. rows'[a] = row /\ \A b \in Attempts \ {a} : rows'[b] = rows[b]
      BY <1>0, <2>2 DEF TypeOK
    <2>8. QED
      BY <2>1, <2>4, <2>5, <2>6, <2>7 DEF RowsSettle
  <1>3. ASSUME NEW c \in Clients,
               \/ Presign(c) \/ Complete(c) \/ LinkIdentical(c) \/ CreateUpload(c)
               \/ Upsert(c) \/ ListMissing(c) \/ ReadItem(c) \/ CheckParts(c)
               \/ Finish(c) \/ Abort(c) \/ \E n \in AllNumbers : PutPart(c, n)
        PROVE rows' = rows
    BY <1>3 DEF Presign, Complete, Call, LinkIdentical, CreateUpload, Upsert, ListMissing,
                Rollback, ReadItem, CheckParts, Finish, Abort, PutPart
  <1>4. ASSUME Deploy \/ StoreBlob \/ UNCHANGED vars PROVE rows' = rows
    BY <1>4 DEF Deploy, StoreBlob, vars
  <1>5. QED
    BY <1>1, <1>2, <1>3, <1>4 DEF Next, Handle

LEMMA UploadsStayed ==
  ASSUME IInv, [Next]_vars
  PROVE  UploadsStay
  <1> USE DEF handlerVars, s3Vars, boundVars
  <1>0. TypeOK
    BY DEF IInv
  <1>1. ASSUME uploads' = uploads PROVE UploadsStay
    BY <1>1 DEF UploadsStay
  <1>2. ASSUME NEW u \in Uploads, NEW new,
               uploads' = [uploads EXCEPT ![u] = new], new.state # "absent" \/
                 new.state = uploads[u].state
        PROVE UploadsStay
    BY <1>0, <1>2 DEF TypeOK, UploadsStay
  <1>3. ASSUME NEW c \in Clients, CreateUpload(c) PROVE UploadsStay
    <2>1. uploads[NewUpload] \in [state : {"absent", "open", "done"},
                                  parts : [AllNumbers -> Plans \cup {0}]]
      BY <1>0, <1>3, NewUploadType DEF CreateUpload, TypeOK
    <2>2. [uploads[NewUpload] EXCEPT !.state = "open"].state = "open"
      BY <2>1
    <2>3. QED
      BY <1>2, <1>3, <2>2, NewUploadType DEF CreateUpload
  <1>4. ASSUME NEW c \in Clients, Finish(c) PROVE UploadsStay
    <2>1. item[c].upload \in Uploads
      BY <1>4, NoneAssumption DEF IInv, Finish, AtHand, TypeOK, Items
    <2>2. uploads[item[c].upload] \in [state : {"absent", "open", "done"},
                                       parts : [AllNumbers -> Plans \cup {0}]]
      BY <1>0, <2>1 DEF TypeOK
    <2>3. [uploads[item[c].upload] EXCEPT !.state = "done"].state = "done"
      BY <2>2
    <2>4. QED
      BY <1>1, <1>2, <1>4, <2>1, <2>3 DEF Finish, Assemble
  <1>5. ASSUME NEW c \in Clients, NEW n \in AllNumbers, PutPart(c, n) PROVE UploadsStay
    <2> DEFINE u == held[c].upload
    <2> DEFINE new == [uploads[u] EXCEPT !.parts[n] = held[c].plan]
    <2>1. u \in Uploads
      BY <1>0, <1>5 DEF TypeOK, PutPart, Responses
    <2>2. new.state = uploads[u].state
      BY <1>0, <2>1 DEF TypeOK
    <2>3. uploads' = [uploads EXCEPT ![u] = new]
      BY <1>5 DEF PutPart
    <2> HIDE DEF new, u
    <2>4. QED
      BY <1>2, <2>1, <2>2, <2>3
  <1>6. ASSUME NEW c \in Clients,
               \/ Presign(c) \/ Complete(c) \/ LinkIdentical(c) \/ Upsert(c)
               \/ ListMissing(c) \/ Commit(c) \/ ReadItem(c) \/ CheckParts(c) \/ Abort(c)
        PROVE uploads' = uploads
    BY <1>6 DEF Presign, Complete, Call, LinkIdentical, Upsert, ListMissing, Rollback,
                Commit, ReadItem, CheckParts, Abort
  <1>7. ASSUME (\E a \in Attempts : Expire(a) \/ Verify(a)) \/ Deploy \/ StoreBlob
               \/ UNCHANGED vars
        PROVE uploads' = uploads
    BY <1>7 DEF Expire, Verify, Deploy, StoreBlob, vars
  <1>8. QED
    BY <1>1, <1>3, <1>4, <1>5, <1>6, <1>7 DEF Next, Handle

\* What the commit of c does to the rows, and what fits them before.
LEMMA Committing ==
  ASSUME IInv, NEW c \in Clients, Commit(c)
  PROVE  LET a == staged[c].attempt
             row == staged[c].row
         IN /\ a \in Attempts /\ staged[c] # None
            /\ \A b \in Attempts \ {a} : rows'[b] = rows[b]
            /\ ReplyFits(c) /\ Covers(reply[c])
            /\ row = None => rows' = rows
            /\ row # None => rows'[a] = row /\ row \in Rows /\ WriteFits(c)
            /\ \A d \in Clients : staged'[d] = None
  <1> DEFINE a == staged[c].attempt
  <1> DEFINE row == staged[c].row
  <1>0. TypeOK /\ StagedFits /\ OneHolder
    BY DEF IInv
  <1>1. staged[c] # None /\ staged[c] \in Writes
    BY <1>0 DEF IInv, AtHand, Commit, TypeOK
  <1>2. a \in Attempts /\ row \in Rows \cup {None}
    BY <1>1 DEF Writes
  <1>3. ReplyFits(c) /\ Covers(reply[c]) /\ (row # None => WriteFits(c))
    BY <1>0, <1>1 DEF StagedFits
  <1>4. row = None => rows' = rows
    BY DEF Commit
  <1>5. row # None => rows' = [rows EXCEPT ![a] = row]
    BY DEF Commit
  <1>6. \A d \in Clients : staged'[d] = None
    BY <1>0, <1>1 DEF TypeOK, OneHolder, Commit
  <1> HIDE DEF a, row
  <1>7. /\ \A b \in Attempts \ {a} : rows'[b] = rows[b]
        /\ row # None => rows'[a] = row
    BY <1>0, <1>2, <1>4, <1>5 DEF TypeOK
  <1>8. QED
    BY <1>1, <1>2, <1>3, <1>4, <1>6, <1>7 DEF a, row

LEMMA OnePendingStep == IInv /\ [Next]_vars => OnePending'
  <1> SUFFICES ASSUME IInv, [Next]_vars PROVE OnePending'
    OBVIOUS
  <1>0. OnePending
    BY DEF IInv
  <1>1. CASE RowsSettle
    <2>1. PendingRows' \subseteq PendingRows
      BY <1>1 DEF PendingRows, RowsSettle
    <2>2. QED
      BY <1>0, <2>1 DEF OnePending
  <1>2. ASSUME NEW c \in Clients, Commit(c) PROVE OnePending'
    <2>1. CASE staged[c].row = None
      <3>1. rows' = rows
        BY <1>2, <2>1, Committing
      <3>2. PendingRows' = PendingRows
        BY <3>1 DEF PendingRows
      <3>3. QED
        BY <1>0, <3>2 DEF OnePending
    <2>2. CASE staged[c].row # None
      <3> DEFINE a == staged[c].attempt
      <3>1. PendingRows \subseteq {a} /\ \A b \in Attempts \ {a} : rows'[b] = rows[b]
        BY <1>2, <2>2, Committing DEF WriteFits
      <3>2. PendingRows' \subseteq {a}
        BY <3>1 DEF PendingRows
      <3>3. QED
        BY <3>2 DEF OnePending
    <2>3. QED
      BY <2>1, <2>2
  <1>3. QED
    BY <1>1, <1>2, RowsSettled

LEMMA RowsHaveUploadsStep == IInv /\ [Next]_vars => RowsHaveUploads'
  <1> SUFFICES ASSUME IInv, [Next]_vars PROVE RowsHaveUploads'
    OBVIOUS
  <1>0. TypeOK /\ RowsHaveUploads /\ UploadsStay
    BY UploadsStayed DEF IInv
  <1>1. \A a \in Attempts : rows[a] # None => rows[a].upload \in Uploads
    BY <1>0 DEF TypeOK, Rows
  <1>2. CASE RowsSettle
    BY <1>0, <1>1, <1>2 DEF RowsSettle, UploadsStay, RowsHaveUploads
  <1>3. ASSUME NEW c \in Clients, Commit(c) PROVE RowsHaveUploads'
    <2>1. CASE staged[c].row = None
      <3>1. rows' = rows
        BY <1>3, <2>1, Committing
      <3>2. QED
        BY <1>0, <1>1, <3>1 DEF UploadsStay, RowsHaveUploads
    <2>2. CASE staged[c].row # None
      <3> DEFINE a == staged[c].attempt
      <3> DEFINE row == staged[c].row
      <3>1. /\ a \in Attempts /\ rows'[a] = row /\ row \in Rows
            /\ \A b \in Attempts \ {a} : rows'[b] = rows[b]
            /\ HasUpload(a, row.upload)
        BY <1>3, <2>2, Committing DEF WriteFits
      <3>2. row.upload \in Uploads
        BY <3>1 DEF Rows
      <3> HIDE DEF a, row
      <3>3. QED
        BY <1>0, <1>1, <3>1, <3>2 DEF UploadsStay, RowsHaveUploads, HasUpload
    <2>3. QED
      BY <2>1, <2>2
  <1>4. QED
    BY <1>2, <1>3, RowsSettled

-----------------------------------------------------------------------------
(* Transactions and responses under construction *)

\* While c's write and reply stay, they go on to fit the rows that settle.
LEMMA FitsStay ==
  ASSUME IInv, RowsSettle, UploadsStay, NEW c \in Clients, staged[c] # None,
         staged'[c] = staged[c], reply'[c] = reply[c]
  PROVE  /\ staged[c].row # None => WriteFits(c)'
         /\ ReplyFits(c)' /\ Covers(reply[c])
  <1> DEFINE a == staged[c].attempt
  <1> DEFINE row == staged[c].row
  <1>1. a \in Attempts /\ row \in Rows \cup {None}
    BY DEF IInv, TypeOK, Writes
  <1>2. ReplyFits(c) /\ Covers(reply[c]) /\ (row # None => WriteFits(c))
    BY DEF IInv, StagedFits
  <1>3. ReplyFits(c)'
    BY <1>1, <1>2 DEF ReplyFits, RowsSettle
  <1>4. ASSUME row # None PROVE WriteFits(c)'
    <2>1. row.upload \in Uploads
      BY <1>1, <1>4 DEF Rows
    <2>2. PendingRows' \subseteq PendingRows
      BY DEF PendingRows, RowsSettle
    <2>3. HasUpload(a, row.upload)'
      BY <1>2, <1>4, <2>1 DEF WriteFits, HasUpload, RowsSettle, UploadsStay
    <2>4. rows'[a] # None => rows'[a].upload = row.upload /\ ~rows'[a].valid
      BY <1>1, <1>2, <1>4 DEF WriteFits, RowsSettle
    <2>5. QED
      BY <1>2, <1>4, <2>2, <2>3, <2>4 DEF WriteFits
  <1>5. QED
    BY <1>2, <1>3, <1>4

\* What an upsert finds, and that its write and reply fit it.
LEMMA UpsertFits ==
  ASSUME IInv, NEW c \in Clients, Upsert(c)
  PROVE  /\ staged'[c].row # None => WriteFits(c)'
         /\ ReplyFits(c)' /\ Covers(reply'[c]) /\ reply'[c].etags = {}
         /\ staged'[c].row # None =>
              \/ staged'[c].row.upload = fresh[c]
              \/ \E a \in Attempts : rows[a] # None /\ staged'[c].row.upload = rows[a].upload
  <1>0. TypeOK /\ AtHand
    BY DEF IInv
  <1>a. PICK a \in Attempts : a = Target
    BY TargetType DEF Upsert
  <1>b. PICK row \in Rows : row = Upserted(c, a)
    BY <1>0, <1>a, UpsertTypes
  <1>c. PICK write : write = [attempt |-> a, row |-> IF row = rows[a] THEN None ELSE row]
    OBVIOUS
  <1>d. PICK all : all = AllParts(a, row)
    OBVIOUS
  <1>1. a \in Attempts /\ row \in Rows
    OBVIOUS
  <1>2. staged'[c] = write /\ reply'[c] = all
    BY <1>0, <1>a, <1>b, <1>c, <1>d DEF TypeOK, Upsert
  <1>3. a \in PendingRows \/ (PendingRows = {} /\ rows[a] = None)
    BY <1>a, TargetType DEF Upsert
  <1>4. rows' = rows /\ uploads' = uploads
    BY DEF Upsert, s3Vars
  <1>5. PendingRows' = PendingRows
    BY <1>4 DEF PendingRows
  <1>6. /\ row.state = "pending"
        /\ rows[a] = None => row.upload = fresh[c]
        /\ rows[a] # None => row.upload = rows[a].upload
        /\ rows[a] # None /\ rows[a].valid => row = rows[a]
    <2>1. CASE rows[a] = None
      BY <1>b, <2>1 DEF Upserted
    <2>2. CASE rows[a] # None
      <3>1. rows[a] \in Rows /\ rows[a].state = "pending"
        BY <1>0, <1>1, <1>3, <2>2 DEF TypeOK, PendingRows
      <3>2. QED
        BY <1>b, <2>2, <3>1 DEF Upserted, Rows
    <2>3. QED
      BY <2>1, <2>2
  <1>7. row # None
    BY <1>1, NoneAssumption
  <1>8. write.attempt = a /\ write.row = IF row = rows[a] THEN None ELSE row
    BY <1>c
  <1>9. all.attempt = a /\ all.upload = row.upload /\ all.etags = {} /\ Covers(all)
    BY <1>d DEF AllParts, Covers
  <1>10. HasUpload(a, row.upload)
    <2>1. CASE rows[a] = None
      <3>1. /\ uploads[fresh[c]].state # "absent"
            /\ \A b \in Attempts : rows[b] # None => rows[b].upload # fresh[c]
        BY DEF IInv, FreshFits, Upsert
      <3>2. QED
        BY <1>6, <2>1, <3>1 DEF HasUpload
    <2>2. CASE rows[a] # None
      BY <1>1, <1>6, <2>2 DEF IInv, RowsHaveUploads, HasUpload
    <2>3. QED
      BY <2>1, <2>2
  <1>11. PendingRows \subseteq {a}
    BY <1>3 DEF IInv, OnePending
  <1>12. ReplyFits(c)' /\ Covers(reply'[c])
    BY <1>2, <1>4, <1>6, <1>7, <1>8, <1>9 DEF ReplyFits
  <1>13. ASSUME write.row # None PROVE WriteFits(c)'
    <2>1. write.row = row /\ row # rows[a]
      BY <1>8, <1>13
    <2>2. HasUpload(a, row.upload)'
      BY <1>4, <1>10 DEF HasUpload
    <2>3. QED
      BY <1>2, <1>4, <1>5, <1>6, <1>8, <1>11, <2>1, <2>2 DEF WriteFits
  <1>14. QED
    BY <1>1, <1>2, <1>6, <1>7, <1>8, <1>9, <1>12, <1>13

\* A resumed response covers what the whole one covers.
LEMMA ResumedFits ==
  ASSUME IInv, NEW c \in Clients, reply[c] \in Responses,
         Covers(reply[c]), reply[c].etags = {}
  PROVE  Covers(Resumed(c))
  <1>1. reply[c].upload \in Uploads
    BY DEF Responses
  <1>2. Parts(reply[c].upload) = {etag[1] : etag \in Listed(reply[c].upload)}
    BY <1>1, ListedType DEF IInv
  <1>3. Numbers(reply[c].plan) \subseteq reply[c].urls
    BY DEF Covers
  <1>4. /\ Resumed(c).plan = reply[c].plan
        /\ Resumed(c).urls = reply[c].urls \ Parts(reply[c].upload)
        /\ Resumed(c).etags = Listed(reply[c].upload)
    BY DEF Resumed, Responses
  <1>5. QED
    BY <1>2, <1>3, <1>4 DEF Covers

\* Steps that leave every transaction and its reply alone.
LEMMA StagedStays ==
  ASSUME IInv, [Next]_vars, RowsSettle, staged' = staged,
         \A c \in Clients : staged[c] # None =>
           reply'[c] = reply[c] /\ (pc'[c] = "list" => pc[c] = "list")
  PROVE  StagedFits'
  <1> SUFFICES ASSUME NEW c \in Clients, staged'[c] # None
               PROVE  /\ staged'[c].row # None => WriteFits(c)'
                      /\ ReplyFits(c)' /\ Covers(reply'[c])
                      /\ pc'[c] = "list" => reply'[c].etags = {}
    BY DEF StagedFits
  <1>1. staged[c] # None /\ staged'[c] = staged[c] /\ reply'[c] = reply[c]
    OBVIOUS
  <1>2. /\ staged[c].row # None => WriteFits(c)'
        /\ ReplyFits(c)' /\ Covers(reply[c])
    BY <1>1, FitsStay, UploadsStayed
  <1>3. pc[c] = "list" => reply[c].etags = {}
    BY <1>1 DEF IInv, StagedFits
  <1>4. QED
    BY <1>1, <1>2, <1>3

LEMMA StagedFitsStep == IInv /\ [Next]_vars => StagedFits'
  <1> SUFFICES ASSUME IInv, [Next]_vars PROVE StagedFits'
    OBVIOUS
  <1> USE DEF handlerVars, s3Vars, boundVars
  <1>0. TypeOK /\ OneHolder /\ AtHand
    BY DEF IInv
  <1>1. ASSUME \A c \in Clients : staged'[c] = None PROVE StagedFits'
    BY <1>1 DEF StagedFits
  <1>2. ASSUME NEW c \in Clients, Upsert(c) PROVE StagedFits'
    <2>1. \A d \in Clients \ {c} : staged'[d] = None
      BY <1>0, <1>2 DEF TypeOK, Upsert, RowIsFree
    <2>2. /\ staged'[c].row # None => WriteFits(c)'
          /\ ReplyFits(c)' /\ Covers(reply'[c]) /\ reply'[c].etags = {}
      BY <1>2, UpsertFits
    <2>3. QED
      BY <2>1, <2>2 DEF StagedFits
  <1>3. ASSUME NEW c \in Clients, Rollback(c), staged[c] # None PROVE StagedFits'
    <2>1. \A d \in Clients : staged'[d] = None
      BY <1>0, <1>3 DEF TypeOK, OneHolder, Rollback
    <2>2. QED
      BY <1>1, <2>1
  <1>4. ASSUME NEW c \in Clients, Rollback(c), staged[c] = None, RowsSettle
        PROVE StagedFits'
    <2>1. staged' = staged
      BY <1>0, <1>4 DEF TypeOK, Rollback
    <2>2. \A d \in Clients : reply'[d] = reply[d] /\ (pc'[d] = "list" => pc[d] = "list")
      BY <1>0, <1>4 DEF TypeOK, Rollback, Goto
    <2>3. QED
      BY <1>4, <2>1, <2>2, StagedStays
  <1>5. ASSUME NEW c \in Clients, Commit(c) PROVE StagedFits'
    <2>1. \A d \in Clients : staged'[d] = None
      BY <1>5, Committing
    <2>2. QED
      BY <1>1, <2>1
  <1>6. ASSUME NEW c \in Clients, ListMissing(c) PROVE StagedFits'
    <2>1. staged[c] # None /\ reply[c] \in Responses
      BY <1>0, <1>6 DEF TypeOK, AtHand, ListMissing
    <2>2. CASE uploads[reply[c].upload].state = "open"
      <3>1. /\ staged' = staged /\ rows' = rows /\ uploads' = uploads
            /\ reply'[c] = Resumed(c) /\ pc'[c] = "commit"
        BY <1>0, <1>6, <2>2 DEF TypeOK, ListMissing, Goto
      <3>2. /\ staged[c].row # None => WriteFits(c)
            /\ ReplyFits(c) /\ Covers(reply[c]) /\ reply[c].etags = {}
        BY <1>6, <2>1 DEF IInv, StagedFits, ListMissing
      <3>3. Covers(Resumed(c))
        BY <2>1, <3>2, ResumedFits
      <3>4. Resumed(c).attempt = reply[c].attempt /\ Resumed(c).upload = reply[c].upload
        BY <2>1 DEF Resumed, Responses
      <3>5. ReplyFits(c)'
        BY <3>1, <3>2, <3>4 DEF ReplyFits
      <3>6. staged[c].row # None => WriteFits(c)'
        BY <3>1, <3>2 DEF WriteFits, HasUpload, PendingRows
      <3>7. \A d \in Clients : staged'[d] # None => d = c
        BY <1>0, <2>1, <3>1 DEF OneHolder
      <3>8. QED
        BY <3>1, <3>3, <3>5, <3>6, <3>7 DEF StagedFits
    <2>3. CASE uploads[reply[c].upload].state # "open"
      <3>1. Rollback(c)
        BY <1>6, <2>3 DEF ListMissing
      <3>2. QED
        BY <1>3, <2>1, <3>1
    <2>4. QED
      BY <2>2, <2>3
  <1>7. ASSUME NEW c \in Clients, Abort(c) PROVE StagedFits'
    <2>1. Rollback(c)
      BY <1>7 DEF Abort
    <2>2. RowsSettle
      BY <2>1 DEF Rollback, RowsSettle
    <2>3. QED
      BY <1>3, <1>4, <2>1, <2>2
  <1>8. ASSUME NEW c \in Clients,
               \/ Presign(c) \/ Complete(c) \/ LinkIdentical(c) \/ CreateUpload(c)
               \/ ReadItem(c) \/ CheckParts(c) \/ Finish(c)
        PROVE StagedFits'
    <2>1. staged' = staged /\ reply' = reply /\ rows' = rows
      BY <1>8 DEF Presign, Complete, Call, LinkIdentical, CreateUpload, ReadItem,
                  CheckParts, Finish
    <2>2. \A d \in Clients : pc'[d] = "list" => pc[d] = "list"
      BY <1>0, <1>8 DEF TypeOK, Presign, Complete, Call, LinkIdentical, CreateUpload,
                        ReadItem, CheckParts, Finish, Goto
    <2>3. RowsSettle
      BY <2>1 DEF RowsSettle
    <2>4. QED
      BY <2>1, <2>2, <2>3, StagedStays
  <1>9. ASSUME \/ \E c \in Clients, n \in AllNumbers : PutPart(c, n)
               \/ (\E a \in Attempts : Expire(a) \/ Verify(a)) \/ Deploy \/ StoreBlob
               \/ UNCHANGED vars
        PROVE StagedFits'
    <2>1. staged' = staged /\ reply' = reply /\ pc' = pc
      BY <1>9 DEF PutPart, Expire, Verify, Deploy, StoreBlob, vars
    <2>2. CASE RowsSettle
      BY <2>1, <2>2, StagedStays
    <2>3. CASE \E c \in Clients : Commit(c)
      BY <1>5, <2>3
    <2>4. QED
      BY <2>2, <2>3, RowsSettled
  <1>10. QED
    BY <1>2, <1>5, <1>6, <1>7, <1>8, <1>9 DEF Next, Handle

LEMMA FreshFitsStep == IInv /\ [Next]_vars => FreshFits'
  <1> SUFFICES ASSUME IInv, [Next]_vars PROVE FreshFits'
    OBVIOUS
  <1> USE DEF handlerVars, s3Vars, boundVars
  <1>0. TypeOK /\ AtHand /\ FreshFits /\ UploadsStay
    BY UploadsStayed DEF IInv
  <1>1. \A c \in Clients : pc[c] = "upsert" => fresh[c] \in Uploads
    BY <1>0 DEF TypeOK, AtHand
  <1>2. ASSUME NEW c \in Clients, CreateUpload(c) PROVE FreshFits'
    <2>1. NewUpload \in Uploads /\ uploads[NewUpload].state = "absent"
      BY <1>2, NewUploadType DEF CreateUpload
    <2>2. /\ fresh'[c] = NewUpload /\ rows' = rows /\ staged' = staged
          /\ \A d \in Clients \ {c} : fresh'[d] = fresh[d] /\ pc'[d] = pc[d]
      BY <1>0, <1>2 DEF TypeOK, CreateUpload, Goto
    <2>3. uploads'[NewUpload].state # "absent"
      BY <1>0, <1>2, <2>1 DEF TypeOK, CreateUpload
    <2>4. \A a \in Attempts : rows[a] # None => rows[a].upload # NewUpload
      BY <2>1 DEF IInv, RowsHaveUploads
    <2>5. \A d \in Clients : staged[d] # None /\ staged[d].row # None
                               => staged[d].row.upload # NewUpload
      BY <2>1 DEF IInv, StagedFits, WriteFits, HasUpload
    <2>6. \A d \in Clients : pc[d] = "upsert" => fresh[d] # NewUpload
      BY <1>0, <2>1 DEF FreshFits
    <2>7. QED
      BY <1>0, <1>1, <2>2, <2>3, <2>4, <2>5, <2>6 DEF FreshFits, UploadsStay
  <1>3. ASSUME NEW c \in Clients, Upsert(c) PROVE FreshFits'
    <2>1. /\ pc[c] = "upsert" /\ pc'[c] # "upsert" /\ fresh' = fresh /\ rows' = rows
          /\ \A d \in Clients \ {c} : pc'[d] = pc[d] /\ staged'[d] = staged[d]
      BY <1>0, <1>3 DEF TypeOK, Upsert, Goto
    <2>2. staged'[c].row # None =>
            \/ staged'[c].row.upload = fresh[c]
            \/ \E a \in Attempts : rows[a] # None /\ staged'[c].row.upload = rows[a].upload
      BY <1>3, UpsertFits
    <2>3. ASSUME NEW d \in Clients, pc'[d] = "upsert" PROVE d # c /\ pc[d] = "upsert"
      BY <2>1, <2>3
    <2>4. ASSUME NEW d \in Clients, pc'[d] = "upsert", staged'[c].row # None
          PROVE  staged'[c].row.upload # fresh[d]
      <3>1. /\ fresh[d] # fresh[c]
            /\ \A a \in Attempts : rows[a] # None => rows[a].upload # fresh[d]
        BY <1>0, <2>1, <2>3, <2>4 DEF FreshFits
      <3>2. QED
        BY <2>2, <2>4, <3>1
    <2>5. QED
      BY <1>0, <1>1, <2>1, <2>3, <2>4 DEF FreshFits, UploadsStay
  <1>4. ASSUME NEW c \in Clients, Commit(c) PROVE FreshFits'
    <2>1. /\ fresh' = fresh
          /\ \A d \in Clients : pc'[d] = "upsert" => pc[d] = "upsert"
      BY <1>0, <1>4 DEF TypeOK, Commit, Goto
    <2>2. \A d \in Clients : staged'[d] = None
      BY <1>4, Committing
    <2>3. ASSUME NEW d \in Clients, pc[d] = "upsert", NEW a \in Attempts, rows'[a] # None
          PROVE  rows'[a].upload # fresh[d]
      <3>1. CASE rows'[a] = rows[a]
        BY <1>0, <2>3, <3>1 DEF FreshFits
      <3>2. CASE rows'[a] # rows[a]
        <4>1. rows'[a] = staged[c].row /\ staged[c] # None /\ staged[c].row # None
          BY <1>4, <3>2, Committing
        <4>2. QED
          BY <1>0, <2>3, <4>1 DEF FreshFits
      <3>3. QED
        BY <3>1, <3>2
    <2>4. QED
      BY <1>0, <1>1, <2>1, <2>2, <2>3 DEF FreshFits, UploadsStay
  <1>5. ASSUME RowsSettle, fresh' = fresh,
               \A d \in Clients : pc'[d] = "upsert" => pc[d] = "upsert",
               \A d \in Clients : staged'[d] \in {staged[d], None}
        PROVE FreshFits'
    <2>1. \A d \in Clients : pc'[d] = "upsert" => uploads'[fresh[d]].state # "absent"
      BY <1>0, <1>1, <1>5 DEF FreshFits, UploadsStay
    <2>2. \A d \in Clients, a \in Attempts :
            pc'[d] = "upsert" /\ rows'[a] # None => rows'[a].upload # fresh[d]
      BY <1>0, <1>5 DEF FreshFits, RowsSettle
    <2>3. \A d, e \in Clients :
            pc'[d] = "upsert" /\ staged'[e] # None /\ staged'[e].row # None
              => staged'[e].row.upload # fresh[d]
      BY <1>0, <1>5 DEF FreshFits
    <2>4. \A d, e \in Clients :
            pc'[d] = "upsert" /\ pc'[e] = "upsert" /\ e # d => fresh[e] # fresh[d]
      BY <1>0, <1>5 DEF FreshFits
    <2>5. QED
      BY <1>5, <2>1, <2>2, <2>3, <2>4 DEF FreshFits
  <1>6. ASSUME NEW c \in Clients,
               \/ Presign(c) \/ Complete(c) \/ LinkIdentical(c) \/ ListMissing(c)
               \/ ReadItem(c) \/ CheckParts(c) \/ Finish(c) \/ Abort(c)
               \/ \E n \in AllNumbers : PutPart(c, n)
        PROVE FreshFits'
    <2>1. fresh' = fresh /\ rows' = rows
      BY <1>6 DEF Presign, Complete, Call, LinkIdentical, ListMissing, Rollback, ReadItem,
                  CheckParts, Finish, Abort, PutPart
    <2>2. \A d \in Clients : pc'[d] = "upsert" => pc[d] = "upsert"
      BY <1>0, <1>6 DEF TypeOK, Presign, Complete, Call, LinkIdentical, ListMissing,
                        Rollback, ReadItem, CheckParts, Finish, Abort, PutPart, Goto
    <2>3. \A d \in Clients : staged'[d] \in {staged[d], None}
      BY <1>0, <1>6 DEF TypeOK, Presign, Complete, Call, LinkIdentical, ListMissing,
                        Rollback, ReadItem, CheckParts, Finish, Abort, PutPart
    <2>4. RowsSettle
      BY <2>1 DEF RowsSettle
    <2>5. QED
      BY <1>5, <2>1, <2>2, <2>3, <2>4
  <1>7. ASSUME (\E a \in Attempts : Expire(a) \/ Verify(a)) \/ Deploy \/ StoreBlob
               \/ UNCHANGED vars
        PROVE FreshFits'
    <2>1. fresh' = fresh /\ pc' = pc /\ staged' = staged
      BY <1>7 DEF Expire, Verify, Deploy, StoreBlob, vars
    <2>2. QED
      BY <1>4, <1>5, <2>1, RowsSettled
  <1>8. QED
    BY <1>2, <1>3, <1>4, <1>6, <1>7 DEF Next, Handle

-----------------------------------------------------------------------------
(* What clients hold *)

\* A row keeps its upload, and its part size while it is valid.
LEMMA RowsKeep ==
  ASSUME IInv, [Next]_vars, NEW a \in Attempts, rows[a] # None
  PROVE  /\ rows'[a] # None /\ rows'[a].upload = rows[a].upload
         /\ rows[a].valid /\ rows'[a].valid => rows'[a].plan = rows[a].plan
  <1>1. CASE RowsSettle
    BY <1>1 DEF RowsSettle
  <1>2. ASSUME NEW c \in Clients, Commit(c)
        PROVE  /\ rows'[a] # None /\ rows'[a].upload = rows[a].upload
               /\ rows[a].valid /\ rows'[a].valid => rows'[a].plan = rows[a].plan
    <2>1. CASE rows'[a] = rows[a]
      BY <2>1
    <2>2. CASE rows'[a] # rows[a]
      <3>1. /\ a = staged[c].attempt /\ staged[c].row # None
            /\ rows'[a] = staged[c].row /\ WriteFits(c)
        BY <1>2, <2>2, Committing
      <3>2. rows[a].upload = staged[c].row.upload /\ ~rows[a].valid
        BY <3>1 DEF WriteFits
      <3>3. QED
        BY <3>1, <3>2
    <2>3. QED
      BY <2>1, <2>2
  <1>3. QED
    BY <1>1, <1>2, RowsSettled

\* A response is about the upload of its attempt and misses no part.
IsWhole(response) == /\ rows[response.attempt] # None
                     /\ rows[response.attempt].upload = response.upload
                     /\ Covers(response)

\* The response of a client that puts a part goes on to cover its plan.
LEMMA PutFits ==
  ASSUME TypeOK, NEW c \in Clients, NEW n \in AllNumbers, PutPart(c, n), Covers(held[c])
  PROVE  /\ held'[c].attempt = held[c].attempt /\ held'[c].upload = held[c].upload
         /\ Covers(held'[c])
  <1>1. held[c] \in Responses
    BY DEF TypeOK, PutPart
  <1>2. PICK part : part = <<n, held[c].plan>>
    OBVIOUS
  <1>3. held'[c] = [held[c] EXCEPT !.urls = @ \ {n}, !.etags = @ \cup {part}]
    BY <1>2 DEF TypeOK, PutPart
  <1>4. /\ held'[c].attempt = held[c].attempt /\ held'[c].upload = held[c].upload
        /\ held'[c].plan = held[c].plan
        /\ held'[c].urls = held[c].urls \ {n}
        /\ held'[c].etags = held[c].etags \cup {part}
    BY <1>1, <1>3 DEF Responses
  <1>5. part[1] = n
    BY <1>2
  <1>6. n \in {etag[1] : etag \in held'[c].etags}
    BY <1>4, <1>5
  <1>7. {etag[1] : etag \in held[c].etags} \subseteq {etag[1] : etag \in held'[c].etags}
    BY <1>4
  <1>8. QED
    BY <1>4, <1>6, <1>7 DEF Covers

LEMMA ResponsesStep == IInv /\ [Next]_vars => ResponsesAreWhole'
  <1> SUFFICES ASSUME IInv, [Next]_vars PROVE ResponsesAreWhole'
    OBVIOUS
  <1> USE DEF handlerVars, s3Vars, boundVars
  <1>0. TypeOK
    BY DEF IInv
  <1>1. SUFFICES ASSUME NEW c \in Clients, held'[c] # None
                 PROVE  /\ rows'[held'[c].attempt] # None
                        /\ rows'[held'[c].attempt].upload = held'[c].upload
                        /\ Covers(held'[c])
    BY DEF ResponsesAreWhole, Covers
  <1>2. held[c] # None => held[c].attempt \in Attempts /\ IsWhole(held[c])
    BY <1>0 DEF IInv, ResponsesAreWhole, IsWhole, Covers, TypeOK, Responses
  <1>3. CASE held'[c] = held[c]
    BY <1>1, <1>2, <1>3, RowsKeep DEF IsWhole
  <1>4. ASSUME NEW d \in Clients, Commit(d), held'[c] # held[c]
        PROVE  /\ rows'[held'[c].attempt] # None
               /\ rows'[held'[c].attempt].upload = held'[c].upload
               /\ Covers(held'[c])
    <2>1. d = c /\ held'[c] = reply[c]
      BY <1>0, <1>4 DEF TypeOK, Commit
    <2>2. ReplyFits(c) /\ Covers(reply[c])
      BY <1>4, <2>1, Committing
    <2>3. CASE staged[c].row = None
      <3>1. rows' = rows
        BY <1>4, <2>1, <2>3, Committing
      <3>2. QED
        BY <2>1, <2>2, <2>3, <3>1 DEF ReplyFits
    <2>4. CASE staged[c].row # None
      <3>1. rows'[staged[c].attempt] = staged[c].row
        BY <1>4, <2>1, <2>4, Committing
      <3>2. QED
        BY <2>1, <2>2, <2>4, <3>1 DEF ReplyFits
    <2>5. QED
      BY <2>3, <2>4
  <1>5. ASSUME NEW d \in Clients, NEW n \in AllNumbers, PutPart(d, n), held'[c] # held[c]
        PROVE  /\ rows'[held'[c].attempt] # None
               /\ rows'[held'[c].attempt].upload = held'[c].upload
               /\ Covers(held'[c])
    <2>1. d = c /\ held[c] # None /\ rows' = rows
      BY <1>0, <1>5 DEF TypeOK, PutPart
    <2>2. /\ held'[c].attempt = held[c].attempt /\ held'[c].upload = held[c].upload
          /\ Covers(held'[c])
      BY <1>0, <1>2, <1>5, <2>1, PutFits DEF IsWhole
    <2>3. QED
      BY <1>2, <2>1, <2>2 DEF IsWhole
  <1>6. ASSUME NEW d \in Clients,
               \/ Presign(d) \/ Complete(d) \/ LinkIdentical(d) \/ CreateUpload(d)
               \/ Upsert(d) \/ ListMissing(d) \/ ReadItem(d) \/ CheckParts(d)
               \/ Finish(d) \/ Abort(d)
        PROVE held' = held
    BY <1>6 DEF Presign, Complete, Call, LinkIdentical, CreateUpload, Upsert, ListMissing,
                Rollback, ReadItem, CheckParts, Finish, Abort
  <1>7. ASSUME (\E a \in Attempts : Expire(a) \/ Verify(a)) \/ Deploy \/ StoreBlob
               \/ UNCHANGED vars
        PROVE held' = held
    BY <1>7 DEF Expire, Verify, Deploy, StoreBlob, vars
  <1>8. QED
    BY <1>3, <1>4, <1>5, <1>6, <1>7 DEF Next, Handle

-----------------------------------------------------------------------------
(* The theorems *)

LEMMA InvInit == Init => IInv
  <1> SUFFICES ASSUME Init PROVE IInv
    OBVIOUS
  <1>1. \A c \in Clients : pc[c] = "idle" /\ staged[c] = None /\ held[c] = None
    BY DEF Init
  <1>2. \A a \in Attempts : rows[a] = None
    BY DEF Init
  <1>3. PendingRows = {}
    BY <1>2 DEF PendingRows
  <1>4. AtHand /\ OneHolder /\ StagedFits /\ FreshFits /\ ResponsesAreWhole
    BY <1>1 DEF AtHand, OneHolder, StagedFits, FreshFits, ResponsesAreWhole
  <1>5. OnePending /\ RowsHaveUploads
    BY <1>2, <1>3 DEF OnePending, RowsHaveUploads
  <1>6. QED
    BY <1>4, <1>5, TypeInit DEF IInv

LEMMA InvStep == IInv /\ [Next]_vars => IInv'
  BY TypeStep, AtHandStep, OneHolderStep, OnePendingStep, StagedFitsStep, FreshFitsStep,
     RowsHaveUploadsStep, ResponsesStep DEF IInv

LEMMA Invariance == Spec => []IInv
  BY InvInit, InvStep, PTL DEF Spec

\* The handlers of image_upload.go, the parts the clients put and the consumer
\* of the attempts table keep every variable in its type.
THEOREM TypeCorrect == Spec => []TypeOK
  <1>1. IInv => TypeOK
    BY DEF IInv
  <1>2. QED
    BY <1>1, Invariance, PTL

\* A row of image_blob_upload_attempts never names an upload that S3 has not
\* created, nor one that another row names: rollbacks and retries between
\* CreateMultipartUpload and the commit lose uploads, never rows.
THEOREM UploadsOfRows == Spec => []RowsHaveUploads
  <1>1. IInv => RowsHaveUploads
    BY DEF IInv
  <1>2. QED
    BY <1>1, Invariance, PTL

\* The upsert over the partial unique index leaves one pending row, for any
\* number of clients that presign the same image.
THEOREM OneRow == Spec => []OnePendingRow
  <1>1. ASSUME OnePending PROVE OnePendingRow
    <2>1. CASE PendingRows = {}
      BY <2>1, FS_EmptySet DEF OnePendingRow
    <2>2. CASE PendingRows # {}
      <3>1. PICK a : a \in PendingRows
        BY <2>2
      <3>2. PendingRows = {a}
        BY <1>1, <3>1 DEF OnePending
      <3>3. Cardinality(PendingRows) = 1
        BY <3>2, FS_Singleton
      <3>4. QED
        BY <3>3 DEF OnePendingRow
    <2>3. QED
      BY <2>1, <2>2
  <1>2. IInv => OnePendingRow
    BY <1>1 DEF IInv
  <1>3. QED
    BY <1>2, Invariance, PTL

\* What GeneratePresignedUrl answers is about the upload of the attempt and,
\* with the parts put since, misses no part of its plan.
THEOREM WholeResponses == Spec => []ResponsesAreWhole
  <1>1. IInv => ResponsesAreWhole
    BY DEF IInv
  <1>2. QED
    BY <1>1, Invariance, PTL

\* No request, expiry or deployment moves an attempt to another upload, or
\* changes its part size while it is valid.
THEOREM StableAttempts == Spec => AttemptsAreStable
  <1>1. IInv /\ [Next]_vars =>
          [\A a \in Attempts : rows[a] # None =>
             /\ rows'[a].upload = rows[a].upload
             /\ rows[a].valid /\ rows'[a].valid => rows'[a].plan = rows[a].plan]_vars
    BY RowsKeep
  <1>2. QED
    BY <1>1, Invariance, PTL DEF Spec, AttemptsAreStable
=============================================================================
