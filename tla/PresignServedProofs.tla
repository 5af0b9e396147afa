------------------------- MODULE PresignServedProofs -------------------------
(***************************************************************************)
(* What the urls of a response are for: every image of a request is linked *)
(* or has the url of its pending row, whatever else the request has, and   *)
(* the parts of its urls cut the image.                                    *)
(***************************************************************************)
EXTENDS PresignBatchProofs, WellFoundedInduction

\* The row of the file is in the hands of the transaction.
Held(i) == files[i].image \in DOMAIN staged /\ staged[files[i].image] # None

\* The file has a url for its own key.
Served(i) == \E url \in reply.urls :
  url.file # 0 /\ Text(url.file) = Text(i) /\ url.key = files[i].image

Done == pc = "convert" \/ answer = "ok"

\* Until the stored files are known, every text of the request is to be uploaded;
\* then those of linked images are not, and all others are.  Rows are held from
\* the upsert of their class to the commit, and pending or stored after it.
ServeInv ==
  /\ pc \in {"parse", "link"} =>
       \A i \in DOMAIN files : \E j \in todo : Text(j) = Text(i)
  /\ pc \in {"single", "multi", "commit"} \/ Done =>
       /\ \A i \in todo : files[i].lower => files[i].image \notin linked
       /\ \A i \in DOMAIN files : files[i].lower /\ files[i].image \notin linked =>
            \E j \in todo : Text(j) = Text(i)
  /\ pc \in {"multi", "commit"} => \A i \in InClass("singleUpload") : Held(i)
  /\ pc = "commit" => \A i \in InClass("multiUpload") : Held(i)
  /\ pc = "commit" \/ Done =>
       /\ Uploaded \subseteq todo \cup {0}
       /\ \A i \in todo : files[i].lower => Served(i)
  /\ Done => \A i \in todo : rows[files[i].image] # None \/ files[i].image \in stored

\* Each text of a request has a file that is no duplicate: the first with it.
LEMMA FirstOfText ==
  ASSUME NEW fs \in Batches, NEW i \in DOMAIN fs
  PROVE  \E j \in DOMAIN fs \ Duplicates(fs) :
           fs[j].image = fs[i].image /\ fs[j].lower = fs[i].lower
  <1> DEFINE same == {j \in DOMAIN fs : fs[j].image = fs[i].image /\ fs[j].lower = fs[i].lower}
  <1>1. PICK n \in 0..MaxFiles : fs \in [1..n -> File]
    BY DEF Batches
  <1>2. same \subseteq Nat /\ same # {}
    BY <1>1, LimitsAssumption
  <1>3. PICK j \in same : \A k \in same : ~(<<k, j>> \in OpToRel(<, Nat))
    BY <1>2, NatLessThanWellFounded, WFMin
  <1>4. \A k \in same : ~(k < j)
    BY <1>2, <1>3 DEF OpToRel
  <1>5. j \notin Duplicates(fs)
    <2>1. SUFFICES ASSUME NEW k \in 1..(j - 1), fs[k].image = fs[j].image,
                          fs[k].lower = fs[j].lower
                   PROVE  FALSE
      BY DEF Duplicates
    <2>2. k \in same /\ k < j
      BY <1>1, <2>1, LimitsAssumption
    <2>3. QED
      BY <1>4, <2>2
  <1>6. QED
    BY <1>5

LEMMA ServeInit == Init => ServeInv
  BY DEF Init, ServeInv, Done

\* The images of files are images.
LEMMA ImageType ==
  ASSUME TypeInv, NEW i \in DOMAIN files
  PROVE  files[i].image \in Images
  <1>1. PICK n \in 0..MaxFiles : files \in [1..n -> File]
    BY DEF TypeInv, TypeOK, Batches
  <1>2. files[i] \in File
    BY <1>1
  <1>3. QED
    BY <1>2 DEF File

\* An upsert holds the rows of its class, and keeps those that were held.
LEMMA HoldsRows ==
  ASSUME TypeInv, NEW type \in {"singleUpload", "multiUpload"},
         NEW places, places = InClass(type), UNCHANGED files,
         staged' = Staging(places, type)
  PROVE  /\ \A i \in places : Held(i)'
         /\ \A i \in DOMAIN files : Held(i) => Held(i)'
  <1>1. /\ DOMAIN staged' = DOMAIN staged \cup ImagesOf(places)
        /\ \A d \in DOMAIN staged' : staged'[d] \in AttemptRows
    BY StagingType
  <1>2. \A i \in places : files[i].image \in ImagesOf(places)
    BY DEF ImagesOf
  <1>3. QED
    BY <1>1, <1>2, NoneAssumption DEF Held

\* The urls after the second upsert.
LEMMA MultiServes ==
  ASSUME TypeInv, OnceInv, pc = "multi", NEW places, places = InClass("multiUpload"),
         UNCHANGED files, NEW listed,
         reply' = [reply EXCEPT !.urls = @ \cup
                    {MultiUrl(places, d, listed[d]) : d \in ImagesOf(places)}],
         NEW i \in todo, files[i].lower
  PROVE  Served(i)'
  <1> DEFINE single == {SingleUrl(j) : j \in InClass("singleUpload")}
  <1> DEFINE multi == {MultiUrl(places, d, listed[d]) : d \in ImagesOf(places)}
  <1>1. reply'.urls = single \cup multi
    BY DEF OnceInv
  <1>2. 0 \notin DOMAIN files /\ i \in DOMAIN files
    BY PlacesType DEF TypeInv, TypeOK
  <1>3. \A j \in DOMAIN files : Text(j)' = Text(j)
    BY DEF Text
  <1>4. files[i].lower = TRUE
    <2>1. PICK n \in 0..MaxFiles : files \in [1..n -> File]
      BY DEF TypeInv, TypeOK, Batches
    <2>2. files[i] \in File
      BY <1>2, <2>1
    <2>3. QED
      BY <2>2 DEF File
  <1>5. CASE i \in InClass("singleUpload")
    <2>1. /\ SingleUrl(i) \in reply'.urls /\ SingleUrl(i).file = i
          /\ SingleUrl(i).key = files[i].image
      BY <1>1, <1>4, <1>5 DEF SingleUrl
    <2>2. QED
      BY <1>2, <1>3, <2>1 DEF Served
  <1>6. CASE i \in places
    <2>1. PICK d \in ImagesOf(places) : d = files[i].image
      BY <1>6 DEF ImagesOf
    <2>2. Text(i) = <<d, TRUE>>
      BY <1>4, <2>1 DEF Text
    <2>3. FileOf(places, d) \in places /\ Text(FileOf(places, d)) = Text(i)
      BY <1>6, <2>2 DEF FileOf
    <2>4. FileOf(places, d) \in DOMAIN files
      BY <2>3 DEF InClass, TypeInv, TypeOK
    <2>5. PICK url \in reply'.urls : url.file = FileOf(places, d) /\ url.key = d
      <3>1. MultiUrl(places, d, listed[d]) \in reply'.urls
        BY <1>1
      <3>2. QED
        BY <3>1 DEF MultiUrl
    <2>6. QED
      BY <1>2, <1>3, <2>1, <2>3, <2>4, <2>5 DEF Served
  <1>7. QED
    BY <1>5, <1>6, Classes DEF InClass

LEMMA ServeStep == TypeInv /\ OnceInv /\ ServeInv /\ [Next]_vars => ServeInv'
  <1> SUFFICES ASSUME TypeInv, OnceInv, ServeInv, [Next]_vars PROVE ServeInv'
    OBVIOUS
  <1> USE DEF requestVars, Done
  <1>0. pc # "idle" => answer # "ok"
    BY DEF OnceInv
  <1>1. ASSUME NEW code, code # "ok", Return(code) PROVE ServeInv'
    BY <1>1 DEF Return, ServeInv
  <1>2. ASSUME NEW fs \in Batches, NEW id, Request(fs, id) PROVE ServeInv'
    <2>1. /\ pc' = "parse" /\ answer' = "none" /\ files' = fs
          /\ todo' = DOMAIN fs \ Duplicates(fs)
      BY <1>2 DEF Request
    <2>2. ASSUME NEW i \in DOMAIN fs PROVE \E j \in todo' : Text(j)' = Text(i)'
      <3>1. PICK j \in todo' : fs[j].image = fs[i].image /\ fs[j].lower = fs[i].lower
        BY <2>1, FirstOfText
      <3>2. QED
        BY <2>1, <3>1 DEF Text
    <2>3. QED
      BY <2>1, <2>2 DEF ServeInv
  <1>3. CASE ParseLotId
    <2>1. pc = "parse" /\ (Return("InvalidArgument") \/
            (pc' = "link" /\ UNCHANGED <<files, todo, answer>>))
      BY <1>3 DEF ParseLotId
    <2>2. CASE pc' = "link" /\ UNCHANGED <<files, todo, answer>>
      BY <1>0, <2>1, <2>2 DEF ServeInv, Text
    <2>3. QED
      BY <1>1, <2>1, <2>2
  <1>4. CASE LinkIdentical
    <2>1. PICK found : found = ImagesOf(todo) \cap stored
      OBVIOUS
    <2>2. PICK there : there = StoredFiles(found)
      OBVIOUS
    <2>3. pc = "link" /\ (Return("FailedPrecondition") \/
            (/\ pc' = "single" /\ linked' = found /\ UNCHANGED <<files, answer>>
             /\ todo' = todo \ there))
      BY <1>4, <2>1, <2>2 DEF LinkIdentical
    <2>4. CASE /\ pc' = "single" /\ linked' = found /\ UNCHANGED <<files, answer>>
               /\ todo' = todo \ there
      <3>1. ASSUME NEW i \in there PROVE Text(i)[1] \in found
        <4>1. PICK d \in found : Text(i) = <<d, TRUE>>
          BY <2>2 DEF StoredFiles
        <4>2. QED
          BY <4>1
      <3>2. \A i : Text(i)[1] = files[i].image
        BY DEF Text
      <3>3. \A i \in DOMAIN files : files[i].lower \in BOOLEAN
        <4>1. PICK n \in 0..MaxFiles : files \in [1..n -> File]
          BY DEF TypeInv, TypeOK, Batches
        <4>2. \A i \in DOMAIN files : files[i] \in File
          BY <4>1
        <4>3. QED
          BY <4>2 DEF File
      <3>4. todo \subseteq DOMAIN files
        BY DEF TypeInv, TypeOK
      <3>5. ASSUME NEW i \in todo', files[i].lower PROVE files[i].image \notin found
        <4>1. files[i].lower = TRUE /\ i \in todo
          BY <2>4, <3>3, <3>4, <3>5
        <4>2. QED
          BY <2>2, <2>4, <4>1 DEF StoredFiles, Text
      <3>6. ASSUME NEW i \in DOMAIN files, files[i].image \notin found
            PROVE  \E j \in todo' : Text(j) = Text(i)
        <4>1. PICK j \in todo : Text(j) = Text(i)
          BY <2>3 DEF ServeInv
        <4>2. j \notin there
          BY <3>1, <3>2, <3>6, <4>1
        <4>3. QED
          BY <2>4, <4>1, <4>2
      <3>7. \A i : Text(i)' = Text(i)
        BY <2>4 DEF Text
      <3>8. QED
        BY <1>0, <2>3, <2>4, <3>5, <3>6, <3>7 DEF ServeInv
    <2>5. QED
      BY <1>1, <2>3, <2>4
  <1>5. CASE InsertSingle
    <2>1. PICK places : places = InClass("singleUpload")
      OBVIOUS
    <2>2. pc = "single" /\ (\/ Return("Internal") \/ Return("FailedPrecondition")
                            \/ /\ pc' = "multi" /\ UNCHANGED <<files, todo, linked, answer>>
                               /\ staged' = Staging(places, "singleUpload"))
      BY <1>5, <2>1 DEF InsertSingle
    <2>3. CASE /\ pc' = "multi" /\ UNCHANGED <<files, todo, linked, answer>>
               /\ staged' = Staging(places, "singleUpload")
      <3>1. \A i \in places : Held(i)'
        BY <2>1, <2>3, HoldsRows
      <3>2. InClass("singleUpload")' = places
        BY <2>1, <2>3 DEF InClass
      <3>3. \A i : Text(i)' = Text(i)
        BY <2>3 DEF Text
      <3>4. QED
        BY <1>0, <2>2, <2>3, <3>1, <3>2, <3>3 DEF ServeInv
    <2>4. QED
      BY <1>1, <2>2, <2>3
  <1>6. CASE InsertMulti
    <2>1. PICK places : places = InClass("multiUpload")
      OBVIOUS
    <2>2. pc = "multi"
      BY <1>6 DEF InsertMulti
    <2>3. CASE places # {} /\ (Repeats(places) \/ LotRefused(ImagesOf(places)))
      <3>1. Return("Internal") \/ Return("FailedPrecondition")
        BY <1>6, <2>1, <2>3 DEF InsertMulti
      <3>2. QED
        BY <1>1, <3>1
    <2>4. CASE ~(places # {} /\ (Repeats(places) \/ LotRefused(ImagesOf(places))))
      <3>1. \/ pc' = "idle" /\ UNCHANGED answer
            \/ /\ pc' = "commit" /\ UNCHANGED <<files, todo, linked, answer>>
               /\ staged' = Staging(places, "multiUpload")
               /\ \E listed : reply' = [reply EXCEPT !.urls = @ \cup
                    {MultiUrl(places, d, listed[d]) : d \in ImagesOf(places)}]
        BY <1>6, <2>1, <2>4 DEF InsertMulti
      <3>2. CASE pc' = "idle" /\ UNCHANGED answer
        BY <1>0, <2>2, <3>2 DEF ServeInv
      <3>3. ASSUME pc' = "commit", UNCHANGED <<files, todo, linked, answer>>,
                   staged' = Staging(places, "multiUpload"), NEW listed,
                   reply' = [reply EXCEPT !.urls = @ \cup
                     {MultiUrl(places, d, listed[d]) : d \in ImagesOf(places)}]
            PROVE  ServeInv'
        <4>1. Uploaded' \subseteq todo' \cup {0}
          BY <2>1, <2>2, <2>4, <3>3, MultiFits
        <4>2. \A i \in todo : files[i].lower => Served(i)'
          BY <2>1, <2>2, <3>3, MultiServes
        <4>3. /\ \A i \in places : Held(i)'
              /\ \A i \in DOMAIN files : Held(i) => Held(i)'
          BY <2>1, <3>3, HoldsRows
        <4>4. /\ InClass("multiUpload")' = places
              /\ InClass("singleUpload")' = InClass("singleUpload")
              /\ InClass("singleUpload") \subseteq DOMAIN files
          BY <2>1, <3>3 DEF InClass, TypeInv, TypeOK
        <4>5. \A i \in InClass("singleUpload") : Held(i)
          BY <2>2 DEF ServeInv
        <4>6. \A i : Text(i)' = Text(i)
          BY <3>3 DEF Text
        <4>7. /\ \A i \in todo' : files'[i].lower => files'[i].image \notin linked'
              /\ \A i \in DOMAIN files' :
                   files'[i].lower /\ files'[i].image \notin linked' =>
                     \E j \in todo' : Text(j)' = Text(i)'
          BY <2>2, <3>3, <4>6 DEF ServeInv
        <4>8. answer' # "ok"
          BY <1>0, <2>2, <3>3
        <4>9. QED
          BY <3>3, <4>1, <4>2, <4>3, <4>4, <4>5, <4>7, <4>8 DEF ServeInv
      <3>4. QED
        BY <3>1, <3>2, <3>3
    <2>5. QED
      BY <2>3, <2>4
  <1>7. CASE Commit
    <2>1. /\ pc = "commit" /\ pc' = "convert" /\ rows' = [d \in Images |-> Row(d)]
          /\ UNCHANGED <<files, todo, linked, reply, answer, stored>>
      BY <1>7 DEF Commit
    <2>2. ASSUME NEW i \in todo PROVE rows'[files[i].image] # None
      <3>1. Held(i)
        BY <2>1, Classes DEF ServeInv, InClass
      <3>2. files[i].image \in Images
        BY ImageType DEF TypeInv, TypeOK
      <3>3. QED
        BY <2>1, <3>1, <3>2 DEF Held, Row
    <2>3. /\ \A i : Text(i)' = Text(i)
          /\ Uploaded' = Uploaded
      BY <2>1 DEF Text, Uploaded
    <2>4. \A i \in todo : Served(i) => Served(i)'
      BY <2>1, <2>3 DEF Served
    <2>5. QED
      BY <2>1, <2>2, <2>3, <2>4 DEF ServeInv
  <1>8. CASE Convert
    <2>1. /\ pc = "convert" /\ pc' = "idle"
          /\ UNCHANGED <<files, todo, linked, reply, rows, stored>>
      BY <1>8 DEF Convert, Return
    <2>2. /\ \A i : Text(i)' = Text(i)
          /\ Uploaded' = Uploaded
      BY <2>1 DEF Text, Uploaded
    <2>3. \A i \in todo : Served(i) => Served(i)'
      BY <2>1, <2>2 DEF Served
    <2>4. QED
      BY <2>1, <2>2, <2>3 DEF ServeInv
  <1>9. CASE CallFails
    BY <1>1, <1>9 DEF CallFails
  <1>10. ASSUME UNCHANGED <<pc, files, todo, linked, staged, reply, answer>>,
                \A d \in Images : rows[d] # None \/ d \in stored
                                => rows'[d] # None \/ d \in stored'
         PROVE  ServeInv'
    <2>1. /\ \A i : Text(i)' = Text(i)
          /\ \A i : Held(i)' = Held(i)
          /\ \A type : InClass(type)' = InClass(type)
          /\ Uploaded' = Uploaded
      BY <1>10 DEF Text, Held, InClass, Uploaded
    <2>2. \A i \in todo : Served(i) => Served(i)'
      BY <1>10, <2>1 DEF Served
    <2>3. \A i \in todo : files[i].image \in Images
      BY ImageType DEF TypeInv, TypeOK
    <2>4. QED
      BY <1>10, <2>1, <2>2, <2>3 DEF ServeInv
  <1>11. ASSUME NEW d \in Images, Store(d) PROVE ServeInv'
    <2>1. /\ UNCHANGED <<pc, files, todo, linked, staged, reply, answer>>
          /\ \A e \in Images : rows[e] # None \/ e \in stored
                              => rows'[e] # None \/ e \in stored'
      BY <1>11 DEF Store, TypeInv, TypeOK
    <2>2. QED
      BY <1>10, <2>1
  <1>12. CASE UNCHANGED vars
    BY <1>10, <1>12 DEF vars
  <1>13. QED
    BY <1>2, <1>3, <1>4, <1>5, <1>6, <1>7, <1>8, <1>9, <1>11, <1>12 DEF Next

\* A request that is answered with success serves each image whose digest is
\* spelled as SQL spells it: linked to the lot and without a url, or with the
\* url of its row, which is pending until the image is stored.
THEOREM ImagesServed == Spec => []ImagesAreServed
  <1>1. OnceInv /\ ServeInv => ImagesAreServed
    <2> SUFFICES ASSUME OnceInv, ServeInv, answer = "ok",
                        NEW i \in DOMAIN files, files[i].lower
                 PROVE
                   LET d == files[i].image
                       mine == {url \in reply.urls : url.file # 0 /\ Text(url.file) = Text(i)}
                   IN IF d \in linked THEN mine = {}
                      ELSE /\ \E url \in mine : url.key = d
                           /\ rows[d] # None \/ d \in stored
      BY DEF ImagesAreServed
    <2>1. \A url \in reply.urls : url.file # 0 => url.file \in todo
      BY DEF ServeInv, Done, Uploaded
    <2>2. \A j \in todo : Text(j) = Text(i) =>
            files[j].lower /\ files[j].image = files[i].image
      BY DEF Text
    <2>3. CASE files[i].image \in linked
      BY <2>1, <2>2, <2>3 DEF ServeInv, Done
    <2>4. CASE files[i].image \notin linked
      <3>1. PICK j \in todo : Text(j) = Text(i)
        BY <2>4 DEF ServeInv, Done
      <3>2. files[j].lower /\ files[j].image = files[i].image
        BY <2>2, <3>1
      <3>3. Served(j) /\ (rows[files[j].image] # None \/ files[j].image \in stored)
        BY <3>2 DEF ServeInv, Done
      <3>4. QED
        BY <2>4, <3>1, <3>2, <3>3 DEF Served
    <2>5. QED
      BY <2>3, <2>4
  <1>2. QED
    BY <1>1, TypeInit, TypeStep, OnceInit, OnceStep, ServeInit, ServeStep, PTL DEF Spec

-----------------------------------------------------------------------------
(* The parts of an image *)

\* A size that fits an int32 is stored as it is.
LEMMA SmallSizesKept ==
  ASSUME NEW size \in 0..(Word - 1)
  PROVE  Int32(size) = size
  <1>1. size + Word \in 0..(2 * Word - 1)
    BY WordAssumption
  <1>2. (size + Word) % (2 * Word) = size + Word
    BY <1>1, WordAssumption
  <1>3. QED
    BY <1>2, WordAssumption DEF Int32

\* part_count is the size divided by the part size, rounded up.
LEMMA RoundsUp ==
  ASSUME NEW size \in Nat
  PROVE  /\ PartCount(size) \in Nat
         /\ (PartCount(size) - 1) * PartSize < size
         /\ size <= PartCount(size) * PartSize
  <1> DEFINE q == (size + PartSize - 1) \div PartSize
  <1> DEFINE m == (size + PartSize - 1) % PartSize
  <1>1. size + PartSize - 1 \in Nat
    BY PartSizeAssumption
  <1>2. q \in Nat /\ m \in 0..(PartSize - 1) /\ size + PartSize - 1 = q * PartSize + m
    BY <1>1, PartSizeAssumption
  <1>3. PartCount(size) = q
    BY <1>1 DEF PartCount
  <1>4. (q - 1) * PartSize = q * PartSize - PartSize
    BY <1>2, PartSizeAssumption
  <1>5. q * PartSize \in Nat
    BY <1>2, PartSizeAssumption
  <1> HIDE DEF q, m
  <1>6. QED
    BY <1>2, <1>3, <1>4, <1>5, PartSizeAssumption

\* A part number greater by one starts a whole part later.
LEMMA PartsAscend ==
  ASSUME NEW m \in Int, NEW n \in Int, m < n
  PROVE  m * PartSize <= (n - 1) * PartSize
  BY PartSizeAssumption

\* An image of less than 2^31 bytes is cut exactly: the parts that GeneratePresignedUrl
\* hands out cover it, do not overlap and none is empty, at every boundary of
\* the part size (part_count, int32(file.FileSize)).
THEOREM SmallImagesAreCut ==
  \A size \in 0..(Word - 1) : CutsExactly(Parts(Int32(size)), size)
  <1> SUFFICES ASSUME NEW size \in 0..(Word - 1)
               PROVE  CutsExactly(Parts(Int32(size)), size)
    OBVIOUS
  <1> DEFINE count == PartCount(size)
  <1>1. size \in Nat /\ Int32(size) = size
    BY SmallSizesKept, WordAssumption
  <1>2. count \in Nat /\ (count - 1) * PartSize < size /\ size <= count * PartSize
    BY <1>1, RoundsUp
  <1>3. Parts(Int32(size)) = 1..count
    BY <1>1 DEF Parts
  <1> HIDE DEF count
  <1>4. \A unit \in 1..size : \E n \in 1..count : InPart(unit, n)
    <2> SUFFICES ASSUME NEW unit \in 1..size
                 PROVE  \E n \in 1..count : InPart(unit, n)
      OBVIOUS
    <2>1. unit \in Nat /\ unit >= 1 /\ unit <= size
      BY <1>1
    <2>2. /\ PartCount(unit) \in Nat
          /\ (PartCount(unit) - 1) * PartSize < unit
          /\ unit <= PartCount(unit) * PartSize
      BY <2>1, RoundsUp
    <2>3. PartCount(unit) >= 1
      BY <2>1, <2>2, PartSizeAssumption
    <2>4. PartCount(unit) <= count
      <3>1. SUFFICES ASSUME count < PartCount(unit) PROVE FALSE
        BY <1>2, <2>2
      <3>2. count * PartSize <= (PartCount(unit) - 1) * PartSize
        BY <1>2, <2>2, <3>1, PartsAscend
      <3>3. count * PartSize \in Int /\ (PartCount(unit) - 1) * PartSize \in Int
        BY <1>2, <2>2, PartSizeAssumption
      <3>4. QED
        BY <1>1, <1>2, <2>1, <2>2, <3>2, <3>3
    <2>5. QED
      BY <1>2, <2>2, <2>3, <2>4 DEF InPart
  <1>5. ASSUME NEW unit \in 1..size, NEW m \in 1..count, NEW n \in 1..count,
               InPart(unit, m), InPart(unit, n), m < n
        PROVE  FALSE
    <2>1. m * PartSize <= (n - 1) * PartSize
      BY <1>2, <1>5, PartsAscend
    <2>2. m * PartSize \in Int /\ (n - 1) * PartSize \in Int /\ unit \in Int
      BY <1>1, <1>2, PartSizeAssumption
    <2>3. QED
      BY <1>5, <2>1, <2>2 DEF InPart
  <1>6. \A unit \in 1..size : \A m, n \in 1..count :
          InPart(unit, m) /\ InPart(unit, n) => m = n
    BY <1>2, <1>5
  <1>7. \A n \in 1..count : \E unit \in 1..size : InPart(unit, n)
    <2> SUFFICES ASSUME NEW n \in 1..count
                 PROVE  \E unit \in 1..size : InPart(unit, n)
      OBVIOUS
    <2> DEFINE first == (n - 1) * PartSize + 1
    <2>1. n \in Nat /\ n >= 1 /\ n <= count
      BY <1>2
    <2>2. (n - 1) * PartSize \in Nat /\ (count - 1) * PartSize \in Int
      BY <1>2, <2>1, PartSizeAssumption
    <2>3. (n - 1) * PartSize <= (count - 1) * PartSize
      BY <1>2, <2>1, PartSizeAssumption
    <2>4. first \in 1..size
      BY <1>1, <1>2, <2>2, <2>3
    <2>5. n * PartSize = (n - 1) * PartSize + PartSize
      BY <2>1, PartSizeAssumption
    <2>6. InPart(first, n)
      BY <2>2, <2>5, PartSizeAssumption DEF InPart
    <2> HIDE DEF first
    <2>7. QED
      BY <2>4, <2>6
  <1>8. QED
    BY <1>3, <1>4, <1>6, <1>7 DEF CutsExactly

\* One answer of ListParts holds all parts of an image of at most PageSize parts:
\* listNotUploadedParts and the check of completeMultiPartUpload never ask for
\* a second page, and the size limit of the protobuf rule keeps that right.
THEOREM OnePageOfParts ==
  \A size \in 0..(PageSize * PartSize) : PartCount(size) <= PageSize
  <1> SUFFICES ASSUME NEW size \in 0..(PageSize * PartSize)
               PROVE  PartCount(size) <= PageSize
    OBVIOUS
  <1>1. size \in Nat /\ size <= PageSize * PartSize
    BY PartSizeAssumption DEF PageSize
  <1>2. PartCount(size) \in Nat /\ (PartCount(size) - 1) * PartSize < size
    BY <1>1, RoundsUp
  <1>3. SUFFICES ASSUME PageSize < PartCount(size) PROVE FALSE
    BY <1>2 DEF PageSize
  <1>4. PageSize * PartSize <= (PartCount(size) - 1) * PartSize
    BY <1>2, <1>3, PartsAscend DEF PageSize
  <1>5. PageSize * PartSize \in Int /\ (PartCount(size) - 1) * PartSize \in Int
    BY <1>2, PartSizeAssumption DEF PageSize
  <1>6. QED
    BY <1>1, <1>2, <1>4, <1>5

-----------------------------------------------------------------------------
(* The parts of the images of a request *)

\* A row of image d has one of the sizes given for it, as an int32.
Sized(d, row) == \E n \in Claims[d] : row.size = Int32(n)

\* A url for parts is for those of the row of its image, split into those to
\* upload and those uploaded.
SplitsRow(url) ==
  /\ url.file \in DOMAIN files /\ files[url.file].image = url.key
  /\ url.key \in Images /\ files[url.file].size \in Claims[url.key]
  /\ url.parts \cap url.listed = {}
  /\ \E n \in Claims[url.key] : url.parts \cup url.listed = Parts(Int32(n))

CutInv ==
  /\ \A d \in Images : d \in DOMAIN staged => Sized(d, staged[d])
  /\ \A d \in Images : rows[d] = None \/ Sized(d, rows[d])
  /\ \A url \in reply.urls : url.multi /\ url.file # 0 => SplitsRow(url)
  /\ answer = "ok" => \A url \in reply.urls : url.file # 0

LEMMA CutInit == Init => CutInv
  <1> SUFFICES ASSUME Init PROVE CutInv
    OBVIOUS
  <1>1. staged = <<>> /\ rows = [d \in Images |-> None] /\ reply.urls = {}
    BY DEF Init, NoReply
  <1>2. QED
    BY <1>1 DEF CutInv

\* The rows that the upsert of a class leaves to the transaction.
LEMMA StagingSized ==
  ASSUME ClassInv, CutInv, NEW type, NEW d \in Images, NEW places, places = InClass(type),
         d \in DOMAIN Staging(places, type)
  PROVE  Sized(d, Staging(places, type)[d])
  <1>1. CASE d \notin ImagesOf(places)
    BY <1>1 DEF Staging, CutInv
  <1>2. CASE d \in ImagesOf(places)
    <2>1. Staging(places, type)[d] = Upserted(places, d, type)
      BY <1>2 DEF Staging
    <2>2. CASE Row(d) # None
      BY <2>1, <2>2 DEF Upserted, Row, CutInv
    <2>3. CASE Row(d) = None
      <3>1. PICK i \in places : /\ files[i].image = d
                                /\ Upserted(places, d, type) = NewRow(i, type)
        BY <1>2, <2>3 DEF Upserted, ImagesOf
      <3>2. files[i].size \in Claims[d]
        BY <3>1, OfClass
      <3>3. NewRow(i, type).size = Int32(files[i].size)
        BY DEF NewRow
      <3>4. QED
        BY <2>1, <3>1, <3>2, <3>3 DEF Sized
    <2>4. QED
      BY <2>2, <2>3
  <1>3. QED
    BY <1>1, <1>2

\* A url for parts that is for a file.
LEMMA MultiSplits ==
  ASSUME ClassInv, CutInv, NEW places, places = InClass("multiUpload"),
         NEW d \in ImagesOf(places), NEW listed, FileOf(places, d) # 0
  PROVE  SplitsRow(MultiUrl(places, d, listed))
  <1> DEFINE url == MultiUrl(places, d, listed)
  <1> DEFINE parts == Parts(Staging(places, "multiUpload")[d].size)
  <1>1. PICK i \in places : i = FileOf(places, d) /\ Text(i) = <<d, TRUE>>
    BY DEF FileOf
  <1>2. files[i].image = d
    BY <1>1 DEF Text
  <1>3. d \in Images /\ files[i].size \in Claims[d] /\ i \in DOMAIN files
    BY <1>1, <1>2, OfClass DEF InClass, ClassInv
  <1>4. d \in DOMAIN Staging(places, "multiUpload")
    BY DEF Staging
  <1>5. PICK n \in Claims[d] : parts = Parts(Int32(n))
    BY <1>3, <1>4, StagingSized DEF Sized
  <1>6. /\ url.file = i /\ url.key = d
        /\ url.parts = Missing(parts, listed) /\ url.listed = parts \cap listed
    BY <1>1 DEF MultiUrl
  <1>7. url.parts \cap url.listed = {} /\ url.parts \cup url.listed = parts
    BY <1>6 DEF Missing
  <1> HIDE DEF url, parts
  <1>8. SplitsRow(url)
    BY <1>2, <1>3, <1>5, <1>6, <1>7 DEF SplitsRow
  <1>9. QED
    BY <1>8 DEF url

LEMMA CutStep == ClassInv /\ OnceInv /\ CutInv /\ [Next]_vars => CutInv'
  <1> SUFFICES ASSUME ClassInv, OnceInv, CutInv, [Next]_vars PROVE CutInv'
    OBVIOUS
  <1> USE DEF requestVars
  <1>0. /\ pc # "idle" => answer # "ok"
        /\ \A d \in DOMAIN <<>> : FALSE
    BY DEF OnceInv
  <1>1. ASSUME NEW code, Return(code),
               code = "ok" => \A url \in reply.urls : url.file # 0
        PROVE  CutInv'
    <2>1. answer' = code /\ staged' = <<>> /\ UNCHANGED <<files, reply, rows>>
      BY <1>1 DEF Return
    <2>2. QED
      BY <1>0, <1>1, <2>1 DEF CutInv, Sized, SplitsRow
  <1>2. ASSUME NEW fs \in Batches, NEW id, Request(fs, id) PROVE CutInv'
    <2>1. answer' = "none" /\ UNCHANGED <<staged, rows>> /\ reply'.urls = {}
      BY <1>2 DEF Request, NoReply
    <2>2. QED
      BY <2>1 DEF CutInv, Sized
  <1>3. ASSUME pc # "idle", UNCHANGED <<files, staged, rows, answer>>,
               reply'.urls = reply.urls
        PROVE  CutInv'
    BY <1>0, <1>3 DEF CutInv, Sized, SplitsRow
  <1>4. CASE ParseLotId \/ LinkIdentical
    <2>1. \/ Return("InvalidArgument") \/ Return("FailedPrecondition")
          \/ /\ pc # "idle" /\ UNCHANGED <<files, staged, rows, answer>>
             /\ reply'.urls = reply.urls
      BY <1>4 DEF ParseLotId, LinkIdentical, OnceInv
    <2>2. QED
      BY <1>1, <1>3, <2>1
  <1>5. ASSUME NEW type, staged' = Staging(InClass(type), type), pc # "idle",
               UNCHANGED <<files, rows, answer>>,
               \A url \in reply'.urls : \/ url \in reply.urls \/ ~url.multi \/ url.file = 0
                                        \/ SplitsRow(url)
        PROVE  CutInv'
    <2>1. \A d \in Images : d \in DOMAIN staged' => Sized(d, staged'[d])
      BY <1>5, StagingSized
    <2>2. \A url \in reply'.urls : url.multi /\ url.file # 0 => SplitsRow(url)
      BY <1>5 DEF CutInv
    <2>3. \A url \in reply'.urls : url.multi /\ url.file # 0 => SplitsRow(url)'
      BY <1>5, <2>2 DEF SplitsRow
    <2>4. QED
      BY <1>0, <1>5, <2>1, <2>3 DEF CutInv, Sized
  <1>6. CASE InsertSingle
    <2>1. \/ Return("Internal") \/ Return("FailedPrecondition")
          \/ /\ staged' = Staging(InClass("singleUpload"), "singleUpload") /\ pc # "idle"
             /\ UNCHANGED <<files, rows, answer>>
             /\ reply'.urls = {SingleUrl(i) : i \in InClass("singleUpload")}
      BY <1>6 DEF InsertSingle, OnceInv
    <2>2. \A i : SingleUrl(i).multi = FALSE
      BY DEF SingleUrl
    <2>3. QED
      BY <1>1, <1>5, <2>1, <2>2
  <1>7. CASE InsertMulti
    <2>1. PICK places : places = InClass("multiUpload")
      OBVIOUS
    <2>2. pc = "multi" /\
          (\/ Return("Internal") \/ Return("FailedPrecondition")
           \/ staged' = <<>> /\ UNCHANGED <<files, rows, answer, reply>>
           \/ /\ staged' = Staging(places, "multiUpload")
              /\ UNCHANGED <<files, rows, answer>>
              /\ \E listed : reply' = [reply EXCEPT !.urls = @ \cup
                   {MultiUrl(places, d, listed[d]) : d \in ImagesOf(places)}])
      BY <1>7, <2>1 DEF InsertMulti
    <2>3. CASE staged' = <<>> /\ UNCHANGED <<files, rows, answer, reply>>
      BY <1>0, <2>3 DEF CutInv, Sized, SplitsRow
    <2>4. ASSUME NEW listed, staged' = Staging(places, "multiUpload"),
                 UNCHANGED <<files, rows, answer>>,
                 reply' = [reply EXCEPT !.urls = @ \cup
                   {MultiUrl(places, d, listed[d]) : d \in ImagesOf(places)}]
          PROVE  CutInv'
      <3>1. reply'.urls = reply.urls \cup
              {MultiUrl(places, d, listed[d]) : d \in ImagesOf(places)}
        BY <2>4 DEF OnceInv
      <3>2. \A d \in ImagesOf(places) : \A S : MultiUrl(places, d, S).file = FileOf(places, d)
        BY DEF MultiUrl
      <3>3. \A d \in ImagesOf(places) : \/ MultiUrl(places, d, listed[d]).file = 0
                                        \/ SplitsRow(MultiUrl(places, d, listed[d]))
        BY <2>1, <3>2, MultiSplits
      <3>4. QED
        BY <1>5, <2>1, <2>2, <2>4, <3>1, <3>3
    <2>5. QED
      BY <1>1, <2>2, <2>3, <2>4
  <1>8. CASE Commit
    <2>1. /\ pc = "commit" /\ staged' = <<>> /\ \A d \in Images : rows'[d] = Row(d)
          /\ UNCHANGED <<files, reply, answer>>
      BY <1>8 DEF Commit
    <2>2. \A d \in Images : rows'[d] = None \/ Sized(d, rows'[d])
      BY <2>1 DEF CutInv, Row
    <2>3. QED
      BY <1>0, <2>1, <2>2 DEF CutInv, Sized, SplitsRow
  <1>9. CASE Convert
    BY <1>1, <1>9 DEF Convert, Convertible
  <1>10. CASE CallFails
    BY <1>1, <1>10 DEF CallFails
  <1>11. ASSUME NEW d \in Images, Store(d) PROVE CutInv'
    <2>1. \A e \in Images : rows'[e] = None \/ rows'[e] = rows[e]
      BY <1>11 DEF Store
    <2>2. UNCHANGED <<files, staged, reply, answer>>
      BY <1>11 DEF Store
    <2>3. QED
      BY <2>1, <2>2 DEF CutInv, Sized, SplitsRow
  <1>12. CASE UNCHANGED vars
    BY <1>12 DEF vars, CutInv, Sized, SplitsRow
  <1>13. QED
    BY <1>2, <1>4, <1>6, <1>7, <1>8, <1>9, <1>10, <1>11, <1>12 DEF Next

\* The parts of a whole response cut each image whose size all requests agree on,
\* for any part size and threshold and through the pending rows of any earlier
\* requests, as long as no size reaches 2^31 bytes (int32(file.FileSize)).
THEOREM PartsCut ==
  ASSUME \A d \in Images : \A n \in Claims[d] : n < Word
  PROVE  Spec => []PartsCutImage
  <1>1. CutInv => PartsCutImage
    <2> SUFFICES ASSUME CutInv, answer = "ok", NEW url \in reply.urls, url.multi,
                        \A m, n \in Claims[url.key] : m = n
                 PROVE  /\ url.parts \cap url.listed = {}
                        /\ CutsExactly(url.parts \cup url.listed, files[url.file].size)
      BY DEF PartsCutImage
    <2>1. SplitsRow(url)
      BY DEF CutInv
    <2>2. PICK n \in Claims[url.key] : url.parts \cup url.listed = Parts(Int32(n))
      BY <2>1 DEF SplitsRow
    <2>3. n \in 0..(Word - 1) /\ files[url.file].size = n
      BY <2>1, <2>2, ClaimsAssumption, WordAssumption DEF SplitsRow
    <2>4. CutsExactly(Parts(Int32(n)), n)
      BY <2>3, SmallImagesAreCut
    <2>5. url.parts \cap url.listed = {}
      BY <2>1 DEF SplitsRow
    <2>6. QED
      BY <2>2, <2>3, <2>4, <2>5
  <1>2. QED
    BY <1>1, ClassInit, ClassStep, OnceInit, OnceStep, CutInit, CutStep, PTL DEF Spec
=============================================================================
