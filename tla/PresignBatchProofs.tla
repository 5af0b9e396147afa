-------------------------- MODULE PresignBatchProofs --------------------------
(* Theorems about PresignBatch, for any images, sizes, part sizes and bounds.  *)
EXTENDS PresignBatch, FiniteSetTheorems, TLAPS

-----------------------------------------------------------------------------
(* The lot *)

\* What a handler has not yet refused of a request for a lot that is not there:
\* nothing of it is stored, no file of a class whose upsert it has passed.
LotInv ==
  /\ lot \in {"known", "unknown", "malformed"}
  /\ pc \notin {"idle", "parse"} => lot # "malformed"
  /\ pc # "idle" /\ lot = "unknown" /\ files # <<>> => todo # {}
  /\ pc \in {"multi", "commit", "convert"} /\ lot = "unknown" => InClass("singleUpload") = {}
  /\ pc \in {"commit", "convert"} /\ lot = "unknown" => InClass("multiUpload") = {}
  /\ OkMeansLotExists

LEMMA Classes == \A size : UploadType(size) \in {"singleUpload", "multiUpload"}
  BY DEF UploadType

\* The first file of a request is no duplicate.
LEMMA SomeToUpload ==
  ASSUME NEW fs \in Batches, fs # <<>>
  PROVE  DOMAIN fs \ Duplicates(fs) # {}
  <1>1. PICK n \in 0..MaxFiles : fs \in [1..n -> File]
    BY DEF Batches
  <1>2. n # 0
    BY <1>1
  <1>3. 1 \in DOMAIN fs
    BY <1>1, <1>2, LimitsAssumption
  <1>4. 1 \notin Duplicates(fs)
    BY DEF Duplicates
  <1>5. QED
    BY <1>3, <1>4

LEMMA LotInit == Init => LotInv
  BY DEF Init, LotInv, OkMeansLotExists

LEMMA LotStep == LotInv /\ [Next]_vars => LotInv'
  <1> SUFFICES ASSUME LotInv, [Next]_vars PROVE LotInv'
    OBVIOUS
  <1> USE DEF requestVars
  <1>1. ASSUME NEW fs \in Batches, NEW id \in {"known", "unknown", "malformed"},
               Request(fs, id)
        PROVE LotInv'
    <2>1. fs # <<>> => todo' # {}
      BY <1>1, SomeToUpload DEF Request
    <2>2. QED
      BY <1>1, <2>1 DEF Request, LotInv, OkMeansLotExists
  <1>2. ASSUME NEW code \in {"Internal", "InvalidArgument", "FailedPrecondition"},
               Return(code)
        PROVE LotInv'
    BY <1>2 DEF Return, LotInv, OkMeansLotExists
  <1>3. CASE ParseLotId
    <2>1. CASE lot = "malformed"
      BY <1>2, <1>3, <2>1 DEF ParseLotId
    <2>2. CASE lot # "malformed"
      BY <1>3, <2>2 DEF ParseLotId, LotInv, OkMeansLotExists
    <2>3. QED
      BY <2>1, <2>2
  <1>4. CASE LinkIdentical
    <2>1. PICK found : found = ImagesOf(todo) \cap stored
      OBVIOUS
    <2>2. CASE LotRefused(found)
      BY <1>2, <1>4, <2>1, <2>2 DEF LinkIdentical
    <2>3. CASE ~LotRefused(found)
      <3>1. /\ pc = "link" /\ pc' = "single" /\ todo' = todo \ StoredFiles(found)
            /\ UNCHANGED <<files, lot, answer>>
        BY <1>4, <2>1, <2>3 DEF LinkIdentical
      <3>2. lot = "unknown" => StoredFiles(found) = {}
        BY <2>3 DEF LotRefused, StoredFiles
      <3>3. QED
        BY <3>1, <3>2 DEF LotInv, OkMeansLotExists
    <2>4. QED
      BY <2>2, <2>3
  <1>5. ASSUME NEW places, places # {}, ~LotRefused(ImagesOf(places))
        PROVE  lot # "unknown"
    BY <1>5 DEF LotRefused, ImagesOf
  <1>6. CASE InsertSingle
    <2>1. PICK places : places = InClass("singleUpload")
      OBVIOUS
    <2>2. CASE /\ places # {}
               /\ Repeats(places) \/ LotRefused(ImagesOf(places))
      BY <1>2, <1>6, <2>1, <2>2 DEF InsertSingle
    <2>3. CASE ~(/\ places # {}
                 /\ Repeats(places) \/ LotRefused(ImagesOf(places)))
      <3>1. /\ pc = "single" /\ pc' = "multi"
            /\ UNCHANGED <<files, lot, todo, answer>>
        BY <1>6, <2>1, <2>3 DEF InsertSingle
      <3>2. lot = "unknown" => InClass("singleUpload") = {}
        BY <1>5, <2>1, <2>3
      <3>3. InClass("singleUpload")' = InClass("singleUpload")
        BY <3>1 DEF InClass
      <3>4. QED
        BY <3>1, <3>2, <3>3 DEF LotInv, OkMeansLotExists
    <2>4. QED
      BY <2>2, <2>3
  <1>7. CASE InsertMulti
    <2>1. PICK places : places = InClass("multiUpload")
      OBVIOUS
    <2>2. CASE /\ places # {}
               /\ Repeats(places) \/ LotRefused(ImagesOf(places))
      BY <1>2, <1>7, <2>1, <2>2 DEF InsertMulti
    <2>3. CASE ~(/\ places # {}
                 /\ Repeats(places) \/ LotRefused(ImagesOf(places)))
      <3>1. /\ pc = "multi" /\ pc' \in {"idle", "commit"}
            /\ UNCHANGED <<files, lot, todo, answer>>
        BY <1>7, <2>1, <2>3 DEF InsertMulti
      <3>2. lot = "unknown" => InClass("multiUpload") = {}
        BY <1>5, <2>1, <2>3
      <3>3. \A type : InClass(type)' = InClass(type)
        BY <3>1 DEF InClass
      <3>4. QED
        BY <3>1, <3>2, <3>3 DEF LotInv, OkMeansLotExists
    <2>4. QED
      BY <2>2, <2>3
  <1>8. CASE Commit
    <2>1. pc = "commit" /\ pc' = "convert" /\ UNCHANGED <<files, lot, todo, answer>>
      BY <1>8 DEF Commit
    <2>2. \A type : InClass(type)' = InClass(type)
      BY <2>1 DEF InClass
    <2>3. QED
      BY <2>1, <2>2 DEF LotInv, OkMeansLotExists
  <1>9. CASE Convert
    <2>1. todo = InClass("singleUpload") \cup InClass("multiUpload")
      BY Classes DEF InClass
    <2>2. files # <<>> => lot = "known"
      BY <1>9, <2>1 DEF Convert, LotInv
    <2>3. pc' = "idle" /\ UNCHANGED <<files, lot>>
      BY <1>9 DEF Convert, Return
    <2>4. QED
      BY <2>2, <2>3 DEF LotInv, OkMeansLotExists
  <1>10. CASE CallFails
    BY <1>2, <1>10 DEF CallFails
  <1>11. CASE (\E d \in Images : Store(d)) \/ UNCHANGED vars
    <2>1. UNCHANGED <<pc, files, lot, todo, answer>>
      BY <1>11 DEF Store, vars
    <2>2. \A type : InClass(type)' = InClass(type)
      BY <2>1 DEF InClass
    <2>3. QED
      BY <2>1, <2>2 DEF LotInv, OkMeansLotExists
  <1>12. QED
    BY <1>1, <1>3, <1>4, <1>6, <1>7, <1>8, <1>9, <1>10, <1>11 DEF Next

\* GeneratePresignedUrl never answers with urls or links for a lot that is not
\* in the database, although nothing asks for the lot itself: of whatever files
\* the request is made, one of its three statements meets a foreign key.
THEOREM LotExists == Spec => []OkMeansLotExists
  <1>1. LotInv => OkMeansLotExists
    BY DEF LotInv
  <1>2. QED
    BY <1>1, LotInit, LotStep, PTL DEF Spec

-----------------------------------------------------------------------------
(* The size classes *)

\* A row of image d is of the class of one of the sizes given for it.
Classed(d, row) == \E n \in Claims[d] : row.type = UploadType(n)

ClassInv ==
  /\ files \in Batches /\ todo \subseteq DOMAIN files
  /\ \A d \in Images : d \in DOMAIN staged => Classed(d, staged[d])
  /\ \A d \in Images : rows[d] = None \/ Classed(d, rows[d])
  /\ PanicNeedsTwoClasses

\* An image of a class in the request has a size of that class.
LEMMA OfClass ==
  ASSUME ClassInv, NEW type, NEW i \in InClass(type)
  PROVE  files[i].image \in Images /\ files[i].size \in Claims[files[i].image]
         /\ UploadType(files[i].size) = type
  <1>1. i \in DOMAIN files /\ UploadType(files[i].size) = type
    BY DEF ClassInv, InClass
  <1>2. PICK n \in 0..MaxFiles : files \in [1..n -> File]
    BY DEF ClassInv, Batches
  <1>3. files[i] \in File
    BY <1>1, <1>2
  <1>4. PICK d \in Images : files[i] \in [image : {d}, lower : BOOLEAN, size : Claims[d]]
    BY <1>3 DEF File
  <1>5. QED
    BY <1>1, <1>4

\* The rows that the upsert of a class leaves to the transaction.
LEMMA StagingClassed ==
  ASSUME ClassInv, NEW type, NEW d \in Images, NEW places, places = InClass(type),
         d \in DOMAIN Staging(places, type)
  PROVE  Classed(d, Staging(places, type)[d])
  <1>1. CASE d \notin ImagesOf(places)
    BY <1>1 DEF Staging, ClassInv
  <1>2. CASE d \in ImagesOf(places)
    <2>1. Staging(places, type)[d] = Upserted(places, d, type)
      BY <1>2 DEF Staging
    <2>2. CASE Row(d) # None
      BY <2>1, <2>2 DEF Upserted, Row, ClassInv
    <2>3. CASE Row(d) = None
      <3>1. PICK i \in places : /\ files[i].image = d
                                /\ Upserted(places, d, type) = NewRow(i, type)
        BY <1>2, <2>3 DEF Upserted, ImagesOf
      <3>2. UploadType(files[i].size) = type /\ files[i].size \in Claims[d]
        BY <3>1, OfClass
      <3>3. NewRow(i, type).type = type
        BY DEF NewRow
      <3>4. QED
        BY <2>1, <3>1, <3>2, <3>3 DEF Classed
    <2>4. QED
      BY <2>2, <2>3
  <1>3. QED
    BY <1>1, <1>2

LEMMA ClassInit == Init => ClassInv
  <1> SUFFICES ASSUME Init PROVE ClassInv
    OBVIOUS
  <1>1. files = <<>> /\ todo = {} /\ staged = <<>> /\ panicked = {}
    BY DEF Init
  <1>2. files \in [1..0 -> File]
    BY <1>1
  <1>3. files \in Batches
    BY <1>2, LimitsAssumption DEF Batches
  <1>4. QED
    BY <1>1, <1>3 DEF Init, ClassInv, PanicNeedsTwoClasses

\* An image whose upload id is missing has sizes of both classes.
LEMMA NilMeansTwo ==
  ASSUME ClassInv, NEW places, places = InClass("multiUpload"),
         NEW d \in NilUploadIds(places)
  PROVE  \E m, n \in Claims[d] : UploadType(m) # UploadType(n)
  <1>1. PICK i \in places : files[i].image = d
    BY DEF NilUploadIds, ImagesOf
  <1>2. d \in Images /\ files[i].size \in Claims[d]
        /\ UploadType(files[i].size) = "multiUpload"
    BY <1>1, OfClass
  <1>3. /\ d \in DOMAIN Staging(places, "multiUpload")
        /\ Staging(places, "multiUpload")[d].type = "singleUpload"
    BY DEF NilUploadIds, Staging
  <1>4. PICK n \in Claims[d] : UploadType(n) = "singleUpload"
    BY <1>2, <1>3, StagingClassed DEF Classed
  <1>5. QED
    BY <1>2, <1>4

LEMMA ClassStep == ClassInv /\ [Next]_vars => ClassInv'
  <1> SUFFICES ASSUME ClassInv, [Next]_vars PROVE ClassInv'
    OBVIOUS
  <1> USE DEF requestVars
  <1>1. ASSUME UNCHANGED <<files, panicked>>, todo' \subseteq todo,
               staged' = staged \/ staged' = <<>>,
               \A d \in Images : rows'[d] = None \/ rows'[d] = rows[d]
        PROVE ClassInv'
    <2>1. \A d \in DOMAIN <<>> : FALSE
      OBVIOUS
    <2>2. \A d \in Images : d \in DOMAIN staged' => Classed(d, staged'[d])
      BY <1>1, <2>1 DEF ClassInv
    <2>3. \A d \in Images : rows'[d] = None \/ Classed(d, rows'[d])
      BY <1>1 DEF ClassInv
    <2>4. QED
      BY <1>1, <2>2, <2>3 DEF ClassInv, Classed, PanicNeedsTwoClasses
  <1>2. ASSUME NEW code, Return(code) PROVE ClassInv'
    BY <1>1, <1>2 DEF Return
  <1>3. ASSUME NEW fs \in Batches, NEW id, Request(fs, id) PROVE ClassInv'
    BY <1>3 DEF Request, ClassInv, Classed, PanicNeedsTwoClasses
  <1>4. CASE ParseLotId \/ LinkIdentical \/ Convert \/ CallFails
    <2>1. \/ \E code : Return(code)
          \/ UNCHANGED <<files, panicked, staged, rows>> /\ todo' \subseteq todo
      BY <1>4 DEF ParseLotId, LinkIdentical, Convert, CallFails
    <2>2. QED
      BY <1>1, <1>2, <2>1
  <1>5. ASSUME NEW type, staged' = Staging(InClass(type), type),
               UNCHANGED <<files, todo, rows, panicked>>
        PROVE ClassInv'
    <2>1. \A d \in Images : d \in DOMAIN staged' => Classed(d, staged'[d])
      BY <1>5, StagingClassed
    <2>2. QED
      BY <1>5, <2>1 DEF ClassInv, Classed, PanicNeedsTwoClasses
  <1>6. CASE InsertSingle
    <2>1. \/ \E code : Return(code)
          \/ /\ staged' = Staging(InClass("singleUpload"), "singleUpload")
             /\ UNCHANGED <<files, todo, rows, panicked>>
      BY <1>6 DEF InsertSingle
    <2>2. QED
      BY <1>2, <1>5, <2>1
  <1>7. CASE InsertMulti
    <2>1. PICK places : places = InClass("multiUpload")
      OBVIOUS
    <2>2. \/ \E code : Return(code)
          \/ /\ staged' = <<>> /\ panicked' = panicked \cup NilUploadIds(places)
             /\ UNCHANGED <<files, todo, rows>>
          \/ /\ staged' = Staging(places, "multiUpload")
             /\ UNCHANGED <<files, todo, rows, panicked>>
      BY <1>7, <2>1 DEF InsertMulti
    <2>3. CASE /\ staged' = <<>> /\ panicked' = panicked \cup NilUploadIds(places)
               /\ UNCHANGED <<files, todo, rows>>
      <3>1. \A d \in panicked' : \E m, n \in Claims[d] : UploadType(m) # UploadType(n)
        BY <2>1, <2>3, NilMeansTwo DEF ClassInv, PanicNeedsTwoClasses
      <3>2. \A d \in DOMAIN <<>> : FALSE
        OBVIOUS
      <3>3. QED
        BY <2>3, <3>1, <3>2 DEF ClassInv, Classed, PanicNeedsTwoClasses
    <2>4. QED
      BY <1>2, <1>5, <2>1, <2>2, <2>3
  <1>8. CASE Commit
    <2>1. \A d \in Images : rows'[d] = Row(d)
      BY <1>8 DEF Commit
    <2>2. \A d \in Images : rows'[d] = None \/ Classed(d, rows'[d])
      BY <2>1 DEF ClassInv, Row
    <2>3. staged' = <<>> /\ UNCHANGED <<files, todo, panicked>>
      BY <1>8 DEF Commit
    <2>4. \A d \in DOMAIN <<>> : FALSE
      OBVIOUS
    <2>5. QED
      BY <2>2, <2>3, <2>4 DEF ClassInv, Classed, PanicNeedsTwoClasses
  <1>9. ASSUME NEW d \in Images, Store(d) PROVE ClassInv'
    <2>1. \A e \in Images : rows'[e] = None \/ rows'[e] = rows[e]
      BY <1>9 DEF Store
    <2>2. UNCHANGED <<files, todo, staged, panicked>>
      BY <1>9 DEF Store
    <2>3. QED
      BY <1>1, <2>1, <2>2
  <1>10. CASE UNCHANGED vars
    BY <1>1, <1>10 DEF vars
  <1>11. QED
    BY <1>3, <1>4, <1>6, <1>7, <1>8, <1>9, <1>10 DEF Next

\* segregateMultiUploadFiles dereferences a missing upload id only for an image
\* that requests put on both sides of multipartThreshold.
THEOREM PanicTwoClasses == Spec => []PanicNeedsTwoClasses
  <1>1. ClassInv => PanicNeedsTwoClasses
    BY DEF ClassInv
  <1>2. QED
    BY <1>1, ClassInit, ClassStep, PTL DEF Spec

-----------------------------------------------------------------------------
(* The lists of the response *)

Uploaded == {url.file : url \in reply.urls}

\* The files of a request are spread over the lists and what is to be uploaded;
\* every file of these has one url, once both upserts have been made, unless
\* there is a url of no file.
OnceInv ==
  /\ files \in Batches
  /\ reply = [duplicate |-> reply.duplicate, stored |-> reply.stored, urls |-> reply.urls]
  /\ pc # "idle" => /\ answer # "ok"
                    /\ DOMAIN files = reply.duplicate \cup reply.stored \cup todo
                    /\ reply.duplicate \cap reply.stored = {}
                    /\ todo \cap (reply.duplicate \cup reply.stored) = {}
  /\ pc \in {"parse", "link"} => reply.stored = {}
  /\ pc = "multi" => reply.urls = {SingleUrl(i) : i \in InClass("singleUpload")}
  /\ pc \in {"commit", "convert"} =>
       /\ Uploaded \subseteq todo \cup {0}
       /\ 0 \in Uploaded \/ todo \subseteq Uploaded
       /\ \A url, other \in reply.urls : url.file = other.file /\ url.file # 0 => url = other
  /\ EveryFileOnce

\* When no image repeats in the places, each place has an image of its own.
LEMMA OwnImages ==
  ASSUME NEW places, IsFiniteSet(places), ~Repeats(places),
         NEW i \in places, NEW j \in places, files[i].image = files[j].image
  PROVE  i = j
  <1> DEFINE f == [k \in places |-> files[k].image]
  <1> DEFINE T == ImagesOf(places)
  <1>1. f \in Surjection(places, T)
    BY DEF Surjection, ImagesOf
  <1> HIDE DEF f
  <1>2. /\ IsFiniteSet(T) /\ Cardinality(T) <= Cardinality(places)
        /\ Cardinality(T) = Cardinality(places) <=> f \in Injection(places, T)
    BY <1>1, FS_Surjection
  <1>3. Cardinality(T) \in Nat /\ Cardinality(places) \in Nat
    BY <1>2, FS_CardinalityType
  <1>4. Cardinality(T) = Cardinality(places)
    BY <1>2, <1>3 DEF Repeats
  <1>5. f \in Injection(places, T)
    BY <1>2, <1>4
  <1>6. f[i] = f[j]
    BY DEF f
  <1>7. QED
    BY <1>5, <1>6 DEF Injection, IsInjective

\* Places are a finite set of numbers, none of them 0.
LEMMA PlacesType ==
  ASSUME OnceInv
  PROVE  IsFiniteSet(DOMAIN files) /\ 0 \notin DOMAIN files
  <1>1. PICK n \in 0..MaxFiles : files \in [1..n -> File]
    BY DEF OnceInv, Batches
  <1>2. n \in Nat
    BY LimitsAssumption
  <1>3. IsFiniteSet(1..n)
    BY <1>2, FS_Interval
  <1>4. QED
    BY <1>1, <1>2, <1>3

LEMMA OnceInit == Init => OnceInv
  <1> SUFFICES ASSUME Init PROVE OnceInv
    OBVIOUS
  <1>1. files \in [1..0 -> File]
    BY DEF Init
  <1>2. files \in Batches
    BY <1>1, LimitsAssumption DEF Batches
  <1>3. QED
    BY <1>2 DEF Init, OnceInv, EveryFileOnce, NoReply

\* The urls after the second upsert.
LEMMA MultiFits ==
  ASSUME OnceInv, pc = "multi", NEW places, places = InClass("multiUpload"),
         places # {} => ~Repeats(places),
         NEW listed,
         reply' = [reply EXCEPT !.urls = @ \cup
                    {MultiUrl(places, d, listed[d]) : d \in ImagesOf(places)}]
  PROVE  /\ Uploaded' \subseteq todo \cup {0}
         /\ 0 \in Uploaded' \/ todo \subseteq Uploaded'
         /\ \A url, other \in reply'.urls :
              url.file = other.file /\ url.file # 0 => url = other
  <1> DEFINE single == {SingleUrl(i) : i \in InClass("singleUpload")}
  <1> DEFINE multi == {MultiUrl(places, d, listed[d]) : d \in ImagesOf(places)}
  <1>1. reply'.urls = single \cup multi
    BY DEF OnceInv
  <1>2. places \subseteq todo /\ InClass("singleUpload") \subseteq todo
        /\ places \cap InClass("singleUpload") = {}
        /\ todo = places \cup InClass("singleUpload")
    BY Classes DEF InClass
  <1>3. todo \subseteq DOMAIN files
    BY DEF OnceInv
  <1>4. IsFiniteSet(places) /\ 0 \notin todo
    BY <1>2, <1>3, PlacesType, FS_Subset
  <1>5. \A i : SingleUrl(i).file = i
    BY DEF SingleUrl
  <1>6. \A d : MultiUrl(places, d, listed[d]).file = FileOf(places, d)
    BY DEF MultiUrl
  <1>7. ASSUME NEW d, FileOf(places, d) # 0
        PROVE  FileOf(places, d) \in places /\ files[FileOf(places, d)].image = d
    <2>1. \E i \in places : Text(i) = <<d, TRUE>>
      BY <1>7 DEF FileOf
    <2>2. FileOf(places, d) \in places /\ Text(FileOf(places, d)) = <<d, TRUE>>
      BY <2>1 DEF FileOf
    <2>3. QED
      BY <2>2 DEF Text
  <1> HIDE DEF single, multi
  <1>8. \A url \in single : \E i \in InClass("singleUpload") : url = SingleUrl(i) /\ url.file = i
    BY <1>5 DEF single
  <1>9. \A url \in multi : \E d \in ImagesOf(places) :
          url = MultiUrl(places, d, listed[d]) /\ url.file = FileOf(places, d)
    BY <1>6 DEF multi
  <1>10. \A url \in multi : url.file # 0 => url.file \in places
    BY <1>7, <1>9
  <1>11. Uploaded' \subseteq todo \cup {0}
    BY <1>1, <1>2, <1>8, <1>10 DEF Uploaded
  <1>12. ASSUME 0 \notin Uploaded', NEW i \in todo PROVE i \in Uploaded'
    <2>1. CASE i \in InClass("singleUpload")
      <3>1. SingleUrl(i) \in single
        BY <2>1 DEF single
      <3>2. QED
        BY <1>1, <1>5, <3>1 DEF Uploaded
    <2>2. CASE i \in places
      <3>1. PICK d \in ImagesOf(places) : d = files[i].image
        BY <2>2 DEF ImagesOf
      <3>2. MultiUrl(places, d, listed[d]) \in multi
        BY DEF multi
      <3>3. FileOf(places, d) \in Uploaded'
        BY <1>1, <1>6, <3>2 DEF Uploaded
      <3>4. FileOf(places, d) \in places /\ files[FileOf(places, d)].image = d
        BY <1>7, <1>12, <3>3
      <3>5. FileOf(places, d) = i
        BY <1>4, <2>2, <3>1, <3>4, OwnImages
      <3>6. QED
        BY <3>3, <3>5
    <2>3. QED
      BY <1>2, <2>1, <2>2
  <1>13. ASSUME NEW url \in single \cup multi, NEW other \in single \cup multi,
                url.file = other.file, url.file # 0
         PROVE  url = other
    <2>1. CASE url \in single /\ other \in single
      BY <1>8, <1>13, <2>1
    <2>2. CASE url \in multi /\ other \in multi
      BY <1>7, <1>9, <1>13, <2>2
    <2>3. CASE (url \in single /\ other \in multi) \/ (url \in multi /\ other \in single)
      BY <1>2, <1>8, <1>10, <1>13, <2>3
    <2>4. QED
      BY <2>1, <2>2, <2>3
  <1>14. QED
    BY <1>1, <1>11, <1>12, <1>13

LEMMA OnceStep == OnceInv /\ [Next]_vars => OnceInv'
  <1> SUFFICES ASSUME OnceInv, [Next]_vars PROVE OnceInv'
    OBVIOUS
  <1> USE DEF requestVars
  <1>1. ASSUME NEW code, code # "ok", Return(code), pc # "idle" PROVE OnceInv'
    BY <1>1 DEF Return, OnceInv, EveryFileOnce
  <1>2. ASSUME NEW fs \in Batches, NEW id, Request(fs, id) PROVE OnceInv'
    <2>1. Duplicates(fs) \subseteq DOMAIN fs
      BY DEF Duplicates
    <2>2. reply' = [duplicate |-> Duplicates(fs), stored |-> {}, urls |-> {}]
      BY <1>2 DEF Request, NoReply
    <2>3. /\ pc' = "parse" /\ answer' = "none" /\ files' = fs
          /\ todo' = DOMAIN fs \ Duplicates(fs)
      BY <1>2 DEF Request
    <2>4. QED
      BY <2>1, <2>2, <2>3 DEF OnceInv, EveryFileOnce
  <1>3. CASE ParseLotId
    <2>1. pc = "parse" /\ (Return("InvalidArgument") \/
            (pc' = "link" /\ UNCHANGED <<files, todo, reply, answer>>))
      BY <1>3 DEF ParseLotId
    <2>2. QED
      BY <1>1, <2>1 DEF OnceInv, EveryFileOnce
  <1>4. CASE LinkIdentical
    <2>1. PICK found : found = ImagesOf(todo) \cap stored
      OBVIOUS
    <2>2. PICK there : there = StoredFiles(found)
      OBVIOUS
    <2>3. there \subseteq todo
      BY <2>2 DEF StoredFiles
    <2>4. pc = "link" /\ (Return("FailedPrecondition") \/
            (/\ pc' = "single" /\ UNCHANGED <<files, answer>>
             /\ reply' = [reply EXCEPT !.stored = there] /\ todo' = todo \ there))
      BY <1>4, <2>1, <2>2 DEF LinkIdentical
    <2>5. CASE /\ pc' = "single" /\ UNCHANGED <<files, answer>>
               /\ reply' = [reply EXCEPT !.stored = there] /\ todo' = todo \ there
      <3>1. reply' = [duplicate |-> reply.duplicate, stored |-> there, urls |-> reply.urls]
        BY <2>5 DEF OnceInv
      <3>2. reply.stored = {}
        BY <2>4 DEF OnceInv
      <3>3. /\ answer # "ok" /\ DOMAIN files = reply.duplicate \cup todo
            /\ todo \cap reply.duplicate = {}
        BY <2>4, <3>2 DEF OnceInv
      <3>4. QED
        BY <2>3, <2>5, <3>1, <3>3 DEF OnceInv, EveryFileOnce
    <2>6. QED
      BY <1>1, <2>4, <2>5
  <1>5. CASE InsertSingle
    <2>1. PICK singles : singles = {SingleUrl(i) : i \in InClass("singleUpload")}
      OBVIOUS
    <2>2. pc = "single" /\ (\/ Return("Internal") \/ Return("FailedPrecondition")
                            \/ /\ pc' = "multi" /\ UNCHANGED <<files, todo, answer>>
                               /\ reply' = [reply EXCEPT !.urls = singles])
      BY <1>5, <2>1 DEF InsertSingle
    <2>3. CASE /\ pc' = "multi" /\ UNCHANGED <<files, todo, answer>>
               /\ reply' = [reply EXCEPT !.urls = singles]
      <3>1. reply' = [duplicate |-> reply.duplicate, stored |-> reply.stored, urls |-> singles]
        BY <2>3 DEF OnceInv
      <3>2. {SingleUrl(i) : i \in InClass("singleUpload")}' = singles
        BY <2>1, <2>3 DEF InClass, SingleUrl
      <3>3. QED
        BY <2>2, <2>3, <3>1, <3>2 DEF OnceInv, EveryFileOnce
    <2>4. QED
      BY <1>1, <2>2, <2>3
  <1>6. CASE InsertMulti
    <2>1. PICK places : places = InClass("multiUpload")
      OBVIOUS
    <2>2. pc = "multi"
      BY <1>6 DEF InsertMulti
    <2>3. CASE places # {} /\ (Repeats(places) \/ LotRefused(ImagesOf(places)))
      <3>1. Return("Internal") \/ Return("FailedPrecondition")
        BY <1>6, <2>1, <2>3 DEF InsertMulti
      <3>2. QED
        BY <1>1, <2>2, <3>1
    <2>4. CASE ~(places # {} /\ (Repeats(places) \/ LotRefused(ImagesOf(places))))
      <3>1. \/ pc' = "idle" /\ UNCHANGED <<files, todo, reply, answer>>
            \/ /\ pc' = "commit" /\ UNCHANGED <<files, todo, answer>>
               /\ \E listed : reply' = [reply EXCEPT !.urls = @ \cup
                    {MultiUrl(places, d, listed[d]) : d \in ImagesOf(places)}]
        BY <1>6, <2>1, <2>4 DEF InsertMulti
      <3>2. CASE pc' = "idle" /\ UNCHANGED <<files, todo, reply, answer>>
        BY <2>2, <3>2 DEF OnceInv, EveryFileOnce
      <3>3. ASSUME pc' = "commit", UNCHANGED <<files, todo, answer>>, NEW listed,
                   reply' = [reply EXCEPT !.urls = @ \cup
                     {MultiUrl(places, d, listed[d]) : d \in ImagesOf(places)}]
            PROVE  OnceInv'
        <4>1. /\ Uploaded' \subseteq todo \cup {0}
              /\ 0 \in Uploaded' \/ todo \subseteq Uploaded'
              /\ \A url, other \in reply'.urls :
                   url.file = other.file /\ url.file # 0 => url = other
          BY <2>1, <2>2, <2>4, <3>3, MultiFits
        <4>2. PICK urls : urls = reply'.urls
          OBVIOUS
        <4>3. reply' = [duplicate |-> reply.duplicate, stored |-> reply.stored, urls |-> urls]
          BY <3>3, <4>2 DEF OnceInv
        <4>4. answer' # "ok" /\ files' \in Batches /\ todo' = todo /\ pc' = "commit"
          BY <2>2, <3>3 DEF OnceInv
        <4>5. /\ DOMAIN files' = reply'.duplicate \cup reply'.stored \cup todo'
              /\ reply'.duplicate \cap reply'.stored = {}
              /\ todo' \cap (reply'.duplicate \cup reply'.stored) = {}
          BY <2>2, <3>3, <4>3 DEF OnceInv
        <4>6. reply' = [duplicate |-> reply'.duplicate, stored |-> reply'.stored,
                        urls |-> reply'.urls]
          BY <4>3
        <4>7. EveryFileOnce'
          BY <4>4 DEF EveryFileOnce
        <4>8. QED
          BY <4>1, <4>4, <4>5, <4>6, <4>7 DEF OnceInv
      <3>4. QED
        BY <3>1, <3>2, <3>3
    <2>5. QED
      BY <2>3, <2>4
  <1>7. CASE Commit
    <2>1. pc = "commit" /\ pc' = "convert" /\ UNCHANGED <<files, todo, reply, answer>>
      BY <1>7 DEF Commit
    <2>2. QED
      BY <2>1 DEF OnceInv, EveryFileOnce, Uploaded
  <1>8. CASE Convert
    <2>1. pc = "convert" /\ pc' = "idle" /\ UNCHANGED <<files, reply>>
      BY <1>8 DEF Convert, Return
    <2>2. CASE \A url \in reply.urls : Convertible(url)
      <3>1. 0 \notin Uploaded
        BY <2>2 DEF Uploaded, Convertible
      <3>2. Uploaded = todo
        BY <2>1, <3>1 DEF OnceInv
      <3>3. DOMAIN files = reply.duplicate \cup reply.stored \cup Uploaded
        BY <2>1, <3>2 DEF OnceInv
      <3>4. \A url \in reply.urls : url.file \in todo
        BY <3>2 DEF Uploaded
      <3>5. \A url \in reply.urls :
              /\ url.file \notin reply.duplicate \cup reply.stored
              /\ \A other \in reply.urls : other.file = url.file => other = url
        BY <2>1, <2>2, <3>4 DEF OnceInv, Convertible
      <3>6. reply.duplicate \cap reply.stored = {}
        BY <2>1 DEF OnceInv
      <3>7. EveryFileOnce'
        BY <2>1, <3>3, <3>5, <3>6 DEF EveryFileOnce, Uploaded
      <3>8. QED
        BY <2>1, <3>7 DEF OnceInv
    <2>3. CASE ~\A url \in reply.urls : Convertible(url)
      BY <1>1, <1>8, <2>1, <2>3 DEF Convert
    <2>4. QED
      BY <2>2, <2>3
  <1>9. CASE CallFails
    BY <1>1, <1>9 DEF CallFails
  <1>10. CASE (\E d \in Images : Store(d)) \/ UNCHANGED vars
    <2>1. UNCHANGED <<pc, files, todo, reply, answer>>
      BY <1>10 DEF Store, vars
    <2>2. \A type : InClass(type)' = InClass(type)
      BY <2>1 DEF InClass
    <2>3. {SingleUrl(i) : i \in InClass("singleUpload")}' =
            {SingleUrl(i) : i \in InClass("singleUpload")}
      BY <2>1, <2>2 DEF SingleUrl
    <2>4. QED
      BY <2>1, <2>3 DEF OnceInv, EveryFileOnce, Uploaded
  <1>11. QED
    BY <1>2, <1>3, <1>4, <1>5, <1>6, <1>7, <1>8, <1>9, <1>10 DEF Next

\* A response that is answered with success has every file of the request in
\* exactly one of its three lists and one url at most, for any files, in any
\* spelling of their digests and any size: the files that a map keyed by digest
\* text misses are those that convertToImageFile refuses.
THEOREM FilesOnce == Spec => []EveryFileOnce
  <1>1. OnceInv => EveryFileOnce
    BY DEF OnceInv
  <1>2. QED
    BY <1>1, OnceInit, OnceStep, PTL DEF Spec

-----------------------------------------------------------------------------
(* Types *)

TypeInv ==
  /\ TypeOK
  /\ reply = [duplicate |-> reply.duplicate, stored |-> reply.stored, urls |-> reply.urls]

\* The files of a request, and the places of a class among them.
LEMMA FileType ==
  ASSUME TypeInv, NEW type, NEW i \in InClass(type)
  PROVE  /\ i \in 0..MaxFiles /\ i \in DOMAIN files
         /\ files[i].image \in Images /\ files[i].size \in Nat
  <1>1. i \in DOMAIN files
    BY DEF TypeInv, TypeOK, InClass
  <1>2. PICK n \in 0..MaxFiles : files \in [1..n -> File]
    BY DEF TypeInv, TypeOK, Batches
  <1>3. i \in 0..MaxFiles /\ files[i] \in File
    BY <1>1, <1>2, LimitsAssumption
  <1>4. PICK d \in Images : files[i] \in [image : {d}, lower : BOOLEAN, size : Claims[d]]
    BY <1>3 DEF File
  <1>5. files[i].size \in Nat
    BY <1>4, ClaimsAssumption
  <1>6. QED
    BY <1>1, <1>3, <1>4, <1>5

LEMMA NewRowType ==
  ASSUME NEW i, files[i].size \in Nat, NEW type \in {"singleUpload", "multiUpload"}
  PROVE  NewRow(i, type) \in AttemptRows
  <1>1. Int32(files[i].size) \in Int
    BY WordAssumption DEF Int32
  <1>2. QED
    BY <1>1 DEF NewRow, AttemptRows

\* The rows that an upsert leaves to the transaction.
LEMMA StagingType ==
  ASSUME TypeInv, NEW type \in {"singleUpload", "multiUpload"},
         NEW places, places = InClass(type)
  PROVE  /\ ImagesOf(places) \subseteq Images
         /\ DOMAIN Staging(places, type) = DOMAIN staged \cup ImagesOf(places)
         /\ \A d \in DOMAIN Staging(places, type) : Staging(places, type)[d] \in AttemptRows
  <1>1. ImagesOf(places) \subseteq Images
    BY FileType DEF ImagesOf
  <1>2. DOMAIN Staging(places, type) = DOMAIN staged \cup ImagesOf(places)
    BY DEF Staging
  <1>3. ASSUME NEW d \in ImagesOf(places)
        PROVE  Staging(places, type)[d] \in AttemptRows
    <2>1. Staging(places, type)[d] = Upserted(places, d, type)
      BY <1>3 DEF Staging
    <2>2. CASE Row(d) # None
      BY <1>1, <2>1, <2>2 DEF Upserted, Row, TypeInv, TypeOK
    <2>3. CASE Row(d) = None
      <3>1. PICK i \in places : Upserted(places, d, type) = NewRow(i, type)
        BY <1>3, <2>3 DEF Upserted, ImagesOf
      <3>2. QED
        BY <2>1, <3>1, FileType, NewRowType
    <2>4. QED
      BY <2>2, <2>3
  <1>4. ASSUME NEW d \in DOMAIN staged, d \notin ImagesOf(places)
        PROVE  Staging(places, type)[d] \in AttemptRows
    BY <1>4 DEF Staging, TypeInv, TypeOK
  <1>5. QED
    BY <1>1, <1>2, <1>3, <1>4

LEMMA SingleUrlType ==
  ASSUME TypeInv, NEW i \in InClass("singleUpload")
  PROVE  SingleUrl(i) \in Urls
  BY FileType DEF SingleUrl, Urls

LEMMA MultiUrlType ==
  ASSUME TypeInv, NEW places, places = InClass("multiUpload"), NEW d \in ImagesOf(places),
         NEW listed \in SUBSET {1}
  PROVE  MultiUrl(places, d, listed) \in Urls
  <1>1. FileOf(places, d) \in 0..MaxFiles
    <2>1. CASE \E i \in places : Text(i) = <<d, TRUE>>
      <3>1. FileOf(places, d) \in places
        BY <2>1 DEF FileOf
      <3>2. QED
        BY <3>1, FileType
    <2>2. CASE ~\E i \in places : Text(i) = <<d, TRUE>>
      BY <2>2, LimitsAssumption DEF FileOf
    <2>3. QED
      BY <2>1, <2>2
  <1>2. d \in Images
    BY StagingType
  <1>3. \A size : Parts(size) \subseteq Nat
    BY DEF Parts
  <1>4. QED
    BY <1>1, <1>2, <1>3 DEF MultiUrl, Urls, Missing

LEMMA TypeInit == Init => TypeInv
  <1> SUFFICES ASSUME Init PROVE TypeInv
    OBVIOUS
  <1>1. files \in [1..0 -> File]
    BY DEF Init
  <1>2. files \in Batches /\ calls \in 0..MaxCalls
    BY <1>1, LimitsAssumption DEF Batches, Init
  <1>3. QED
    BY <1>2 DEF Init, TypeInv, TypeOK, NoReply

LEMMA TypeStep == TypeInv /\ [Next]_vars => TypeInv'
  <1> SUFFICES ASSUME TypeInv, [Next]_vars PROVE TypeInv'
    OBVIOUS
  <1> USE DEF requestVars
  <1>1. ASSUME NEW code \in {"ok", "Internal", "InvalidArgument", "FailedPrecondition"},
               Return(code)
        PROVE  TypeInv'
    BY <1>1 DEF Return, TypeInv, TypeOK
  <1>2. ASSUME NEW fs \in Batches, NEW id \in {"known", "unknown", "malformed"},
               Request(fs, id)
        PROVE  TypeInv'
    <2>1. Duplicates(fs) \subseteq DOMAIN fs
      BY DEF Duplicates
    <2>2. reply' = [duplicate |-> Duplicates(fs), stored |-> {}, urls |-> {}]
      BY <1>2 DEF Request, NoReply
    <2>3. calls' \in 0..MaxCalls
      BY <1>2, LimitsAssumption DEF Request, TypeInv, TypeOK
    <2>4. /\ files' = fs /\ todo' \subseteq DOMAIN fs /\ linked' = {} /\ lot' = id
          /\ pc' = "parse" /\ answer' = "none" /\ UNCHANGED <<staged, rows, stored, panicked>>
      BY <1>2 DEF Request
    <2>5. /\ reply'.duplicate \cup reply'.stored \subseteq DOMAIN files'
          /\ \A url \in reply'.urls : url \in Urls
          /\ reply' = [duplicate |-> reply'.duplicate, stored |-> reply'.stored,
                       urls |-> reply'.urls]
      BY <2>1, <2>2, <2>4
    <2>6. QED
      BY <2>3, <2>4, <2>5 DEF TypeInv, TypeOK
  <1>3. CASE ParseLotId
    <2>1. CASE lot = "malformed"
      BY <1>1, <1>3, <2>1 DEF ParseLotId
    <2>2. CASE lot # "malformed"
      BY <1>3, <2>2 DEF ParseLotId, TypeInv, TypeOK
    <2>3. QED
      BY <2>1, <2>2
  <1>4. CASE LinkIdentical
    <2>1. PICK found : found = ImagesOf(todo) \cap stored
      OBVIOUS
    <2>2. PICK there : there = StoredFiles(found)
      OBVIOUS
    <2>3. there \subseteq todo /\ found \subseteq Images
      BY <2>1, <2>2 DEF StoredFiles, TypeInv, TypeOK
    <2>4. \/ Return("FailedPrecondition")
          \/ /\ pc' = "single" /\ linked' = found
             /\ reply' = [reply EXCEPT !.stored = there] /\ todo' = todo \ there
             /\ UNCHANGED <<calls, files, lot, staged, answer, rows, stored, panicked>>
      BY <1>4, <2>1, <2>2 DEF LinkIdentical
    <2>5. ASSUME reply' = [reply EXCEPT !.stored = there]
          PROVE  reply' = [duplicate |-> reply.duplicate, stored |-> there,
                           urls |-> reply.urls]
      BY <2>5 DEF TypeInv
    <2>6. QED
      BY <1>1, <2>3, <2>4, <2>5 DEF TypeInv, TypeOK
  <1>5. CASE InsertSingle
    <2>1. PICK places : places = InClass("singleUpload")
      OBVIOUS
    <2>2. PICK urls : urls = {SingleUrl(i) : i \in places}
      OBVIOUS
    <2>3. \A url \in urls : url \in Urls
      BY <2>1, <2>2, SingleUrlType
    <2>4. PICK new : new = Staging(places, "singleUpload")
      OBVIOUS
    <2>5. DOMAIN new \subseteq Images /\ \A d \in DOMAIN new : new[d] \in AttemptRows
      BY <2>1, <2>4, StagingType DEF TypeInv, TypeOK
    <2>6. \/ Return("Internal") \/ Return("FailedPrecondition")
          \/ /\ pc' = "multi" /\ staged' = new /\ reply' = [reply EXCEPT !.urls = urls]
             /\ UNCHANGED <<calls, files, lot, todo, linked, answer, rows, stored, panicked>>
      BY <1>5, <2>1, <2>2, <2>4 DEF InsertSingle
    <2>7. ASSUME reply' = [reply EXCEPT !.urls = urls]
          PROVE  reply' = [duplicate |-> reply.duplicate, stored |-> reply.stored,
                           urls |-> urls]
      BY <2>7 DEF TypeInv
    <2>8. QED
      BY <1>1, <2>3, <2>5, <2>6, <2>7 DEF TypeInv, TypeOK
  <1>6. CASE InsertMulti
    <2>1. PICK places : places = InClass("multiUpload")
      OBVIOUS
    <2>2. PICK new : new = Staging(places, "multiUpload")
      OBVIOUS
    <2>3. /\ ImagesOf(places) \subseteq Images
          /\ DOMAIN new \subseteq Images /\ \A d \in DOMAIN new : new[d] \in AttemptRows
      BY <2>1, <2>2, StagingType DEF TypeInv, TypeOK
    <2>4. \/ Return("Internal") \/ Return("FailedPrecondition")
          \/ /\ pc' = "idle" /\ staged' = <<>>
             /\ panicked' = panicked \cup NilUploadIds(places)
             /\ UNCHANGED <<calls, files, lot, todo, linked, reply, answer, rows, stored>>
          \/ /\ pc' = "commit" /\ staged' = new
             /\ \E listed \in [ImagesOf(places) -> SUBSET {1}] :
                  reply' = [reply EXCEPT !.urls = @ \cup
                    {MultiUrl(places, d, listed[d]) : d \in ImagesOf(places)}]
             /\ UNCHANGED <<calls, files, lot, todo, linked, answer, rows, stored, panicked>>
      BY <1>6, <2>1, <2>2 DEF InsertMulti
    <2>5. CASE /\ pc' = "idle" /\ staged' = <<>>
               /\ panicked' = panicked \cup NilUploadIds(places)
               /\ UNCHANGED <<calls, files, lot, todo, linked, reply, answer, rows, stored>>
      BY <2>3, <2>5 DEF NilUploadIds, TypeInv, TypeOK
    <2>6. ASSUME pc' = "commit", staged' = new,
                 NEW listed \in [ImagesOf(places) -> SUBSET {1}],
                 reply' = [reply EXCEPT !.urls = @ \cup
                   {MultiUrl(places, d, listed[d]) : d \in ImagesOf(places)}],
                 UNCHANGED <<calls, files, lot, todo, linked, answer, rows, stored, panicked>>
          PROVE  TypeInv'
      <3>1. PICK urls : urls = {MultiUrl(places, d, listed[d]) : d \in ImagesOf(places)}
        OBVIOUS
      <3>2. \A url \in urls : url \in Urls
        BY <2>1, <3>1, MultiUrlType
      <3>3. reply' = [duplicate |-> reply.duplicate, stored |-> reply.stored,
                      urls |-> reply.urls \cup urls]
        BY <2>6, <3>1 DEF TypeInv
      <3>4. /\ reply'.duplicate = reply.duplicate /\ reply'.stored = reply.stored
            /\ reply'.urls = reply.urls \cup urls
        BY <3>3
      <3>5. /\ pc' = "commit" /\ staged' = new
            /\ UNCHANGED <<calls, files, lot, todo, linked, answer, rows, stored, panicked>>
        BY <2>6
      <3>6. /\ reply'.duplicate \cup reply'.stored \subseteq DOMAIN files'
            /\ \A url \in reply'.urls : url \in Urls
            /\ reply' = [duplicate |-> reply'.duplicate, stored |-> reply'.stored,
                         urls |-> reply'.urls]
        BY <3>2, <3>3, <3>4, <3>5 DEF TypeInv, TypeOK
      <3>7. QED
        BY <2>3, <3>5, <3>6 DEF TypeInv, TypeOK
    <2>7. QED
      BY <1>1, <2>4, <2>5, <2>6
  <1>7. CASE Commit
    <2>1. \A d \in Images : Row(d) \in AttemptRows \cup {None}
      BY DEF Row, TypeInv, TypeOK
    <2>2. rows' \in [Images -> AttemptRows \cup {None}]
      BY <1>7, <2>1 DEF Commit
    <2>3. QED
      BY <1>7, <2>2 DEF Commit, TypeInv, TypeOK
  <1>8. CASE Convert \/ CallFails
    BY <1>1, <1>8 DEF Convert, CallFails
  <1>9. ASSUME NEW d \in Images, Store(d) PROVE TypeInv'
    BY <1>9 DEF Store, TypeInv, TypeOK
  <1>10. CASE UNCHANGED vars
    BY <1>10 DEF vars, TypeInv, TypeOK
  <1>11. QED
    BY <1>2, <1>3, <1>4, <1>5, <1>6, <1>7, <1>8, <1>9, <1>10 DEF Next

\* Through every statement of a presign request, every early return and the end
\* of the process, every variable has its type: the places of files and the
\* images of rows stay in range.
THEOREM TypeCorrect == Spec => []TypeOK
  <1>1. TypeInv => TypeOK
    BY DEF TypeInv
  <1>2. QED
    BY <1>1, TypeInit, TypeStep, PTL DEF Spec
=============================================================================
