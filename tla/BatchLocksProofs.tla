--------------------------- MODULE BatchLocksProofs ---------------------------
(* Theorems about BatchLocks, for any batches, images, size classes and bounds. *)
EXTENDS BatchLocks, FiniteSetTheorems, TLAPS

-----------------------------------------------------------------------------
(* The inductive invariant *)

\* A handler serves a call, and who is idle has no row.
Serving == \A b \in Batches : IF pc[b] = "idle" THEN Locked(b) = {}
                              ELSE calls[b] # 0

\* The images of a sequence.
Of(seq) == {seq[i] : i \in DOMAIN seq}

\* No image of a batch is forgotten, it has the row or comes to it, and no other
\* image is locked.
Covering ==
  \A b \in Batches :
    /\ Locked(b) \cup Of(queue[b]) \subseteq Wanted[b]
    /\ pc[b] = "upsert" => Wanted[b] \subseteq Locked(b) \cup Of(queue[b])
    /\ pc[b] \in {"list", "commit"} => Wanted[b] \subseteq Locked(b)

\* A row is locked by one transaction.
Exclusive == \A b, c \in Batches : b # c => Locked(b) \cap Locked(c) = {}

\* A transaction has attempts that are committed and attempts of its own.
OwnOrCommitted ==
  \A b \in Batches : \A d \in Locked(b) : reply[b][d] \in committed \cup {Tx(b)}

\* What a transaction has of a row is still what it would get now: nobody else
\* has inserted the row since.
Current ==
  \A b \in Batches : \A d \in Locked(b) : reply[b][d] = Attempt(b, d)

\* A transaction commits once, and none is committed before it is begun.
Fresh ==
  \A b \in Batches : \A n \in 1..MaxCalls : <<b, n>> \in committed =>
    IF pc[b] = "idle" THEN n <= calls[b] ELSE n < calls[b]

\* Who is served has no answer.
Waiting == \A b \in Batches : pc[b] # "idle" => answer[b] = "none"

IInv == /\ TypeOK /\ Serving /\ Covering /\ Exclusive /\ OwnOrCommitted /\ Current
        /\ Fresh /\ Waiting
        /\ RowsAreCommitted /\ BatchesAgree

-----------------------------------------------------------------------------
(* Sequences and responses *)

LEMMA WalkIsSeq ==
  ASSUME NEW S \in SUBSET Images, IsFiniteSet(S), NEW walk \in Walks(S)
  PROVE  walk \in Seq(Images) /\ Of(walk) = S
  <1>1. Cardinality(S) \in Nat
    BY FS_CardinalityType
  <1>2. walk \in [1..Cardinality(S) -> S] /\ \A d \in S : \E i \in DOMAIN walk : walk[i] = d
    BY DEF Walks
  <1>3. walk \in Seq(Images)
    BY <1>1, <1>2
  <1>4. Of(walk) = S
    BY <1>2 DEF Of
  <1>5. QED
    BY <1>3, <1>4

\* Whatever the walk, the two statements have all the images.
LEMMA StatementsHaveAll ==
  ASSUME NEW S \in SUBSET Images, IsFiniteSet(S),
         NEW small \in Walks(S \ Large), NEW large \in Walks(S \cap Large),
         NEW order, order = small \o large
  PROVE  order \in Seq(Images) /\ Of(order) = S
  <1>1. IsFiniteSet(S \ Large) /\ IsFiniteSet(S \cap Large)
    BY FS_Subset
  <1>3. /\ small \in Seq(Images) /\ Of(small) = S \ Large
        /\ large \in Seq(Images) /\ Of(large) = S \cap Large
    BY <1>1, WalkIsSeq
  <1>4. order \in Seq(Images)
    BY <1>3
  <1>5. ASSUME NEW d \in S PROVE d \in Of(order)
    <2>1. CASE d \notin Large
      <3>1. PICK i \in DOMAIN small : small[i] = d
        BY <1>3, <2>1 DEF Of
      <3>2. i \in DOMAIN order /\ order[i] = d
        BY <1>3, <3>1
      <3>3. QED
        BY <3>2 DEF Of
    <2>2. CASE d \in Large
      <3>1. PICK i \in DOMAIN large : large[i] = d
        BY <1>3, <2>2 DEF Of
      <3>2. Len(small) + i \in DOMAIN order /\ order[Len(small) + i] = d
        BY <1>3, <3>1
      <3>3. QED
        BY <3>2 DEF Of
    <2>3. QED
      BY <2>1, <2>2
  <1>6. ASSUME NEW i \in DOMAIN order PROVE order[i] \in S
    <2>1. CASE i \in DOMAIN small
      BY <1>3, <2>1 DEF Of
    <2>2. CASE i \notin DOMAIN small
      <3>1. i - Len(small) \in DOMAIN large /\ order[i] = large[i - Len(small)]
        BY <1>3, <1>6, <2>2
      <3>2. QED
        BY <1>3, <3>1 DEF Of
    <2>3. QED
      BY <2>1, <2>2
  <1>7. QED
    BY <1>4, <1>5, <1>6 DEF Of

\* The head of a queue is one of its images, the others stay in the tail.
LEMMA HeadAndTail ==
  ASSUME NEW seq \in Seq(Images), seq # <<>>
  PROVE  /\ Head(seq) \in Images /\ Tail(seq) \in Seq(Images)
         /\ Of(seq) = {Head(seq)} \cup Of(Tail(seq))
  <1>1. Head(seq) \in Images /\ Tail(seq) \in Seq(Images)
    OBVIOUS
  <1>2. ASSUME NEW i \in DOMAIN seq, i # 1 PROVE seq[i] \in Of(Tail(seq))
    <2>1. i - 1 \in DOMAIN Tail(seq) /\ Tail(seq)[i - 1] = seq[i]
      BY <1>2
    <2>2. QED
      BY <2>1 DEF Of
  <1>3. ASSUME NEW i \in DOMAIN Tail(seq) PROVE Tail(seq)[i] \in Of(seq)
    <2>1. i + 1 \in DOMAIN seq /\ Tail(seq)[i] = seq[i + 1]
      BY <1>3
    <2>2. QED
      BY <2>1 DEF Of
  <1>4. Head(seq) \in Of(seq)
    BY DEF Of
  <1>5. QED
    BY <1>1, <1>2, <1>3, <1>4 DEF Of

LEMMA ResponseType ==
  ASSUME NEW S \in SUBSET Images, NEW r \in [S -> Txs]
  PROVE  r \in Responses
  BY DEF Responses

LEMMA ResponseShape ==
  ASSUME NEW r \in Responses
  PROVE  DOMAIN r \subseteq Images /\ \A d \in DOMAIN r : r[d] \in Txs
  BY DEF Responses

LEMMA NothingLocked == NoRows \in Responses /\ DOMAIN NoRows = {}
  <1>1. NoRows \in [{} -> Txs]
    BY DEF NoRows
  <1>2. QED
    BY <1>1, ResponseType

\* The rows of a batch in its upsert, with the next one.
LEMMA NextRow ==
  ASSUME IInv, NEW b \in Batches, pc[b] = "upsert", NEW d \in Images
  PROVE  /\ WithRow(b, d) \in Responses
         /\ DOMAIN WithRow(b, d) = Locked(b) \cup {d}
         /\ \A e \in Locked(b) \ {d} : WithRow(b, d)[e] = reply[b][e]
         /\ WithRow(b, d)[d] = Attempt(b, d)
         /\ Attempt(b, d) \in committed \cup {Tx(b)}
  <1>0. TypeOK
    BY DEF IInv
  <1>1. Tx(b) \in Txs
    BY <1>0, LimitsAssumption DEF IInv, TypeOK, Serving, Tx, Txs
  <1>2. Attempt(b, d) \in Txs
    BY <1>0, <1>1 DEF TypeOK, Attempt
  <1>3. Locked(b) \subseteq Images /\ \A e \in Locked(b) : reply[b][e] \in Txs
    BY <1>0, ResponseShape DEF TypeOK, Locked
  <1>4. WithRow(b, d) \in [Locked(b) \cup {d} -> Txs]
    BY <1>2, <1>3 DEF WithRow
  <1>5. WithRow(b, d) \in Responses
    BY <1>3, <1>4, ResponseType
  <1>6. Attempt(b, d) \in committed \cup {Tx(b)}
    BY DEF IInv, RowsAreCommitted, Attempt
  <1>7. QED
    BY <1>4, <1>5, <1>6 DEF WithRow

-----------------------------------------------------------------------------
(* What the steps do *)

Step(b) == Request(b) \/ Handle(b) \/ Victim(b) \/ Crash(b)

\* A step is one batch's.
LEMMA OthersStay ==
  ASSUME TypeOK, NEW b \in Batches, Step(b), NEW c \in Batches \ {b}
  PROVE  /\ pc'[c] = pc[c] /\ calls'[c] = calls[c] /\ queue'[c] = queue[c]
         /\ reply'[c] = reply[c] /\ held'[c] = held[c] /\ answer'[c] = answer[c]
  <1> USE DEF TypeOK
  <1>1. CASE Request(b)
    BY <1>1 DEF Request
  <1>2. CASE LockRow(b)
    BY <1>2 DEF LockRow
  <1>3. CASE Upserted(b) \/ ListParts(b)
    BY <1>3 DEF Upserted, ListParts
  <1>4. CASE Rollback(b) \/ Victim(b) \/ Crash(b)
    BY <1>4 DEF Rollback, Victim, Crash, Release
  <1>5. CASE Commit(b)
    BY <1>5 DEF Commit, Release
  <1>6. QED
    BY <1>1, <1>2, <1>3, <1>4, <1>5 DEF Step, Handle

\* The next image of a batch in its upsert.
LEMMA Locking ==
  ASSUME IInv, NEW b \in Batches, LockRow(b)
  PROVE  /\ Head(queue[b]) \in Images /\ Tail(queue[b]) \in Seq(Images)
         /\ Of(queue[b]) = {Head(queue[b])} \cup Of(Tail(queue[b]))
         /\ reply' = [reply EXCEPT ![b] = WithRow(b, Head(queue[b]))]
         /\ queue' = [queue EXCEPT ![b] = Tail(queue[b])]
         /\ \A c \in Batches \ {b} : Head(queue[b]) \notin Locked(c)
  <1>1. queue[b] \in Seq(Images) /\ queue[b] # <<>>
    BY DEF IInv, TypeOK, LockRow
  <1>2. \A c \in Batches \ {b} : Head(queue[b]) \notin Locked(c)
    BY <1>1 DEF LockRow, Blocks
  <1>3. reply' = [reply EXCEPT ![b] = WithRow(b, Head(queue[b]))]
    BY DEF LockRow
  <1>4. queue' = [queue EXCEPT ![b] = Tail(queue[b])]
    BY DEF LockRow
  <1>5. QED
    BY <1>1, <1>2, <1>3, <1>4, HeadAndTail

\* What a batch has locked after a step it had before, or has locked in it.
LEMMA LockedStep ==
  ASSUME IInv, [Next]_vars, NEW b \in Batches, NEW d \in Locked(b)'
  PROVE  /\ pc'[b] # "idle" /\ Tx(b)' = Tx(b)
         /\ \/ d \in Locked(b) /\ reply'[b][d] = reply[b][d]
            \/ LockRow(b) /\ d = Head(queue[b]) /\ reply'[b][d] = Attempt(b, d)
  <1>0. TypeOK /\ Serving
    BY DEF IInv
  <1>1. CASE reply'[b] = reply[b] /\ pc'[b] = pc[b] /\ calls'[b] = calls[b]
    BY <1>0, <1>1 DEF Locked, Tx, Serving
  <1>2. CASE LockRow(b)
    <2>1. PICK e \in Images : e = Head(queue[b])
      BY <1>2, Locking
    <2>2. reply'[b] = WithRow(b, e)
      BY <1>0, <1>2, <2>1, Locking DEF TypeOK
    <2>3. pc[b] = "upsert" /\ pc'[b] # "idle" /\ Tx(b)' = Tx(b)
      BY <1>2 DEF LockRow, Tx
    <2>4. /\ DOMAIN WithRow(b, e) = Locked(b) \cup {e}
          /\ \A x \in Locked(b) \ {e} : WithRow(b, e)[x] = reply[b][x]
          /\ WithRow(b, e)[e] = Attempt(b, e)
      BY <2>3, NextRow
    <2>5. d = e \/ d \in Locked(b) \ {e}
      BY <2>2, <2>4 DEF Locked
    <2>6. QED
      BY <1>2, <2>1, <2>2, <2>3, <2>4, <2>5
  <1>3. CASE Upserted(b) \/ ListParts(b)
    BY <1>0, <1>3 DEF TypeOK, Upserted, ListParts, Locked, Tx
  <1>4. CASE Request(b)
    <2>1. reply' = reply /\ pc[b] = "idle"
      BY <1>4 DEF Request
    <2>2. QED
      BY <1>0, <2>1 DEF Serving, Locked
  <1>5. CASE Rollback(b) \/ Commit(b) \/ Victim(b) \/ Crash(b)
    <2>1. reply'[b] = NoRows
      BY <1>0, <1>5 DEF TypeOK, Rollback, Commit, Victim, Crash, Release
    <2>2. QED
      BY <2>1, NothingLocked DEF Locked
  <1>6. CASE Step(b)
    BY <1>2, <1>3, <1>4, <1>5, <1>6 DEF Step, Handle
  <1>7. ASSUME NEW c \in Batches \ {b}, Step(c)
        PROVE  reply'[b] = reply[b] /\ pc'[b] = pc[b] /\ calls'[b] = calls[b]
    BY <1>0, <1>7, OthersStay
  <1>8. CASE UNCHANGED vars
    BY <1>1, <1>8 DEF vars
  <1>9. QED
    BY <1>1, <1>6, <1>7, <1>8 DEF Next, Step

\* Rows change by commits, to what the transaction has.
LEMMA RowsStep ==
  ASSUME IInv, [Next]_vars, NEW d \in Images
  PROVE  \/ rows'[d] = rows[d]
         \/ \E b \in Batches : /\ Commit(b) /\ d \in Locked(b) /\ rows'[d] = reply[b][d]
                               /\ rows[d] = None \/ rows[d] = reply[b][d]
  <1>1. ASSUME NEW b \in Batches, Commit(b), rows'[d] # rows[d]
        PROVE  /\ d \in Locked(b) /\ rows'[d] = reply[b][d]
               /\ rows[d] = None \/ rows[d] = reply[b][d]
    BY <1>1 DEF Commit, IInv, Current, Attempt
  <1>2. ASSUME NEW b \in Batches, Step(b), ~Commit(b) PROVE rows' = rows
    BY <1>2 DEF Step, Handle, Request, LockRow, Upserted, ListParts, Rollback, Victim, Crash
  <1>3. CASE UNCHANGED vars
    BY <1>3 DEF vars
  <1>4. QED
    BY <1>1, <1>2, <1>3 DEF Next, Step

\* An attempt stays in the table.
LEMMA RowsStay ==
  ASSUME IInv, [Next]_vars, NEW d \in Images, rows[d] # None
  PROVE  rows'[d] = rows[d]
  BY RowsStep

LEMMA CommittedGrows ==
  ASSUME [Next]_vars
  PROVE  committed \subseteq committed'
  BY DEF Next, Request, Handle, LockRow, Upserted, ListParts, Rollback, Commit, Victim,
         Crash, vars

\* A batch is answered in its commit, with what it has.
LEMMA AnswerStep ==
  ASSUME IInv, [Next]_vars, NEW b \in Batches, answer'[b] = "ok"
  PROVE  \/ answer[b] = "ok" /\ held'[b] = held[b]
         \/ Commit(b) /\ held'[b] = reply[b]
  <1>0. TypeOK
    BY DEF IInv
  <1>1. CASE Commit(b)
    BY <1>0, <1>1 DEF TypeOK, Commit
  <1>2. CASE Request(b) \/ Rollback(b)
    BY <1>0, <1>2 DEF TypeOK, Request, Rollback
  <1>3. CASE LockRow(b) \/ Upserted(b) \/ ListParts(b) \/ Victim(b) \/ Crash(b)
    BY <1>0, <1>3 DEF TypeOK, LockRow, Upserted, ListParts, Victim, Crash
  <1>4. ASSUME NEW c \in Batches \ {b}, Step(c)
        PROVE  held'[b] = held[b] /\ answer'[b] = answer[b]
    BY <1>0, <1>4, OthersStay
  <1>5. CASE UNCHANGED vars
    BY <1>5 DEF vars
  <1>6. QED
    BY <1>1, <1>2, <1>3, <1>4, <1>5 DEF Next, Step, Handle

-----------------------------------------------------------------------------
(* The invariant *)

LEMMA InvInit == Init => IInv
  <1> SUFFICES ASSUME Init PROVE IInv
    OBVIOUS
  <1>1. \A b \in Batches : pc[b] = "idle" /\ Locked(b) = {} /\ answer[b] = "none"
    BY NothingLocked DEF Init, Locked
  <1>2. TypeOK
    <2>1. calls \in [Batches -> 0..MaxCalls] /\ faults \in 0..MaxFaults
      BY LimitsAssumption DEF Init
    <2>2. reply \in [Batches -> Responses] /\ held \in [Batches -> Responses]
      BY NothingLocked DEF Init
    <2>3. queue \in [Batches -> Seq(Images)]
      BY DEF Init
    <2>4. QED
      BY <2>1, <2>2, <2>3 DEF Init, TypeOK
  <1>3. Serving /\ Exclusive /\ OwnOrCommitted /\ Current /\ BatchesAgree /\ Waiting
    BY <1>1 DEF Serving, Exclusive, OwnOrCommitted, Current, BatchesAgree, Waiting
  <1>4. Covering
    <2>1. \A b \in Batches : Of(queue[b]) = {}
      BY DEF Init, Of
    <2>2. QED
      BY <1>1, <2>1 DEF Covering
  <1>5. RowsAreCommitted /\ Fresh
    BY DEF Init, RowsAreCommitted, Fresh
  <1>6. QED
    BY <1>2, <1>3, <1>4, <1>5 DEF IInv

LEMMA TypeStep == IInv /\ [Next]_vars => TypeOK'
  <1> SUFFICES ASSUME IInv, [Next]_vars PROVE TypeOK'
    OBVIOUS
  <1>0. TypeOK
    BY DEF IInv
  <1>1. ASSUME NEW b \in Batches, Request(b) PROVE TypeOK'
    <2>1. Wanted[b] \in SUBSET Images /\ IsFiniteSet(Wanted[b])
      BY WantedAssumption
    <2>2. PICK small \in Walks(Wanted[b] \ Large), large \in Walks(Wanted[b] \cap Large) :
            queue' = [queue EXCEPT ![b] = small \o large]
      BY <1>1 DEF Request
    <2>3. small \o large \in Seq(Images)
      BY <2>1, StatementsHaveAll
    <2>4. queue' \in [Batches -> Seq(Images)]
      BY <1>0, <2>2, <2>3 DEF TypeOK
    <2>5. calls' \in [Batches -> 0..MaxCalls]
      BY <1>0, <1>1, LimitsAssumption DEF TypeOK, Request
    <2>6. QED
      BY <1>0, <1>1, <2>4, <2>5 DEF TypeOK, Request
  <1>2. ASSUME NEW b \in Batches, LockRow(b) PROVE TypeOK'
    <2>1. PICK d \in Images : d = Head(queue[b])
      BY <1>2, Locking
    <2>2. WithRow(b, d) \in Responses
      BY <1>2, NextRow DEF LockRow
    <2>3. reply' = [reply EXCEPT ![b] = WithRow(b, d)]
      BY <1>2, <2>1, Locking
    <2>4. reply' \in [Batches -> Responses]
      BY <1>0, <2>2, <2>3 DEF TypeOK
    <2>5. queue' \in [Batches -> Seq(Images)]
      BY <1>0, <1>2, Locking DEF TypeOK
    <2>6. QED
      BY <1>0, <1>2, <2>4, <2>5 DEF TypeOK, LockRow
  <1>3. ASSUME NEW b \in Batches, Upserted(b) \/ ListParts(b) PROVE TypeOK'
    <2>1. faults' = faults \/ (faults < MaxFaults /\ faults' = faults + 1)
      BY <1>3 DEF Upserted, ListParts
    <2>2. faults' \in 0..MaxFaults
      BY <1>0, <2>1, LimitsAssumption DEF TypeOK
    <2>3. pc' \in [Batches -> {"idle", "upsert", "list", "commit", "rollback"}]
      BY <1>0, <1>3 DEF TypeOK, Upserted, ListParts
    <2>4. UNCHANGED <<calls, queue, reply, held, answer, rows, committed>>
      BY <1>3 DEF Upserted, ListParts
    <2>5. QED
      BY <1>0, <2>2, <2>3, <2>4 DEF TypeOK
  <1>4. ASSUME NEW b \in Batches, Release(b)
        PROVE  reply' \in [Batches -> Responses] /\ queue' \in [Batches -> Seq(Images)]
    BY <1>0, <1>4, NothingLocked DEF TypeOK, Release
  <1>5. ASSUME NEW b \in Batches, Rollback(b) \/ Victim(b) \/ Crash(b) PROVE TypeOK'
    <2>1. reply' \in [Batches -> Responses] /\ queue' \in [Batches -> Seq(Images)]
      BY <1>4, <1>5 DEF Rollback, Victim, Crash
    <2>2. faults' = faults \/ (faults < MaxFaults /\ faults' = faults + 1)
      BY <1>5 DEF Rollback, Victim, Crash
    <2>3. faults' \in 0..MaxFaults
      BY <1>0, <2>2, LimitsAssumption DEF TypeOK
    <2>4. /\ pc' \in [Batches -> {"idle", "upsert", "list", "commit", "rollback"}]
          /\ answer' \in [Batches -> {"none", "ok", "error"}]
      BY <1>0, <1>5 DEF TypeOK, Rollback, Victim, Crash
    <2>5. UNCHANGED <<calls, held, rows, committed>>
      BY <1>5 DEF Rollback, Victim, Crash
    <2>6. QED
      BY <1>0, <2>1, <2>3, <2>4, <2>5 DEF TypeOK
  <1>6. ASSUME NEW b \in Batches, Commit(b) PROVE TypeOK'
    <2>1. reply' \in [Batches -> Responses] /\ queue' \in [Batches -> Seq(Images)]
      BY <1>4, <1>6 DEF Commit
    <2>2. reply[b] \in Responses /\ Locked(b) \subseteq Images
          /\ \A d \in Locked(b) : reply[b][d] \in Txs
      BY <1>0, ResponseShape DEF TypeOK, Locked
    <2>3. rows' \in [Images -> Txs \cup {None}]
      BY <1>0, <1>6, <2>2 DEF TypeOK, Commit
    <2>4. Tx(b) \in Txs
      BY <1>0, <1>6, LimitsAssumption DEF IInv, TypeOK, Serving, Commit, Tx, Txs
    <2>5. held' \in [Batches -> Responses] /\ answer' \in [Batches -> {"none", "ok", "error"}]
      BY <1>0, <1>6, <2>2 DEF TypeOK, Commit
    <2>6. faults' = faults \/ (faults < MaxFaults /\ faults' = faults + 1)
      BY <1>6 DEF Commit
    <2>7. faults' \in 0..MaxFaults
      BY <1>0, <2>6, LimitsAssumption DEF TypeOK
    <2>8. /\ pc' \in [Batches -> {"idle", "upsert", "list", "commit", "rollback"}]
          /\ committed' \subseteq Txs /\ UNCHANGED calls
      BY <1>0, <1>6, <2>4 DEF TypeOK, Commit
    <2>9. QED
      BY <1>0, <2>1, <2>3, <2>5, <2>7, <2>8 DEF TypeOK
  <1>7. CASE UNCHANGED vars
    BY <1>0, <1>7 DEF TypeOK, vars
  <1>8. QED
    BY <1>1, <1>2, <1>3, <1>5, <1>6, <1>7 DEF Next, Handle

LEMMA ServingStep == IInv /\ [Next]_vars => Serving'
  <1> SUFFICES ASSUME IInv, [Next]_vars, NEW b \in Batches
               PROVE  IF pc'[b] = "idle" THEN Locked(b)' = {} ELSE calls'[b] # 0
    BY DEF Serving
  <1>0. TypeOK /\ Serving
    BY DEF IInv
  <1>1. pc'[b] = "idle" => Locked(b)' = {}
    BY LockedStep
  <1>2. ASSUME Step(b), pc'[b] # "idle" PROVE calls'[b] # 0
    <2>1. CASE Request(b)
      BY <1>0, <2>1, LimitsAssumption DEF TypeOK, Request
    <2>2. CASE ~Request(b)
      BY <1>0, <1>2, <2>2 DEF Serving, Step, Handle, LockRow, Upserted, ListParts, Rollback,
                              Commit, Victim, Crash
    <2>3. QED
      BY <2>1, <2>2
  <1>3. ASSUME NEW c \in Batches \ {b}, Step(c) PROVE pc'[b] = pc[b] /\ calls'[b] = calls[b]
    BY <1>0, <1>3, OthersStay
  <1>4. CASE UNCHANGED vars
    BY <1>0, <1>1, <1>4 DEF vars, Serving
  <1>5. QED
    BY <1>0, <1>1, <1>2, <1>3, <1>4 DEF Serving, Next, Step

LEMMA CoveringStep == IInv /\ [Next]_vars => Covering'
  <1> SUFFICES ASSUME IInv, [Next]_vars, NEW b \in Batches
               PROVE  /\ Locked(b)' \cup Of(queue'[b]) \subseteq Wanted[b]
                      /\ pc'[b] = "upsert" =>
                           Wanted[b] \subseteq Locked(b)' \cup Of(queue'[b])
                      /\ pc'[b] \in {"list", "commit"} => Wanted[b] \subseteq Locked(b)'
    BY DEF Covering
  <1>0. TypeOK /\ Covering
    BY DEF IInv
  <1>1. CASE pc'[b] = pc[b] /\ queue'[b] = queue[b] /\ reply'[b] = reply[b]
    BY <1>0, <1>1 DEF Covering, Locked
  <1>2. CASE Request(b)
    <2>1. Wanted[b] \in SUBSET Images /\ IsFiniteSet(Wanted[b])
      BY WantedAssumption
    <2>2. PICK small \in Walks(Wanted[b] \ Large), large \in Walks(Wanted[b] \cap Large) :
            queue' = [queue EXCEPT ![b] = small \o large]
      BY <1>2 DEF Request
    <2>3. Of(small \o large) = Wanted[b]
      BY <2>1, StatementsHaveAll
    <2>4. queue'[b] = small \o large /\ pc'[b] = "upsert" /\ reply' = reply
      BY <1>0, <1>2, <2>2 DEF TypeOK, Request
    <2>5. QED
      BY <1>0, <2>3, <2>4 DEF Covering, Locked
  <1>3. CASE LockRow(b)
    <2>1. PICK d \in Images : d = Head(queue[b])
      BY <1>3, Locking
    <2>2. /\ reply'[b] = WithRow(b, d) /\ queue'[b] = Tail(queue[b])
          /\ Of(queue[b]) = {d} \cup Of(Tail(queue[b]))
      BY <1>0, <1>3, <2>1, Locking DEF TypeOK
    <2>3. pc[b] = "upsert" /\ pc'[b] = "upsert"
      BY <1>3 DEF LockRow
    <2>4. DOMAIN WithRow(b, d) = Locked(b) \cup {d}
      BY <2>3, NextRow
    <2>5. Locked(b)' = Locked(b) \cup {d}
      BY <2>2, <2>4 DEF Locked
    <2>6. QED
      BY <1>0, <2>2, <2>3, <2>5 DEF Covering
  <1>4. CASE Upserted(b)
    <2>1. pc[b] = "upsert" /\ queue[b] = <<>> /\ reply' = reply /\ queue' = queue
          /\ pc'[b] \in {"list", "commit"}
      BY <1>0, <1>4 DEF TypeOK, Upserted
    <2>2. Of(<<>>) = {}
      BY DEF Of
    <2>3. QED
      BY <1>0, <2>1, <2>2 DEF Covering, Locked
  <1>5. CASE ListParts(b)
    <2>1. pc[b] = "list" /\ UNCHANGED <<reply, queue>> /\ pc'[b] \in {"commit", "rollback"}
      BY <1>0, <1>5 DEF TypeOK, ListParts
    <2>2. QED
      BY <1>0, <2>1 DEF Covering, Locked
  <1>6. CASE Rollback(b) \/ Commit(b) \/ Victim(b) \/ Crash(b)
    <2>1. reply'[b] = NoRows /\ queue'[b] = <<>> /\ pc'[b] \in {"idle", "rollback"}
      BY <1>0, <1>6 DEF TypeOK, Rollback, Commit, Victim, Crash, Release
    <2>2. Of(<<>>) = {}
      BY DEF Of
    <2>3. QED
      BY <2>1, <2>2, NothingLocked DEF Locked
  <1>7. ASSUME NEW c \in Batches \ {b}, Step(c)
        PROVE  pc'[b] = pc[b] /\ queue'[b] = queue[b] /\ reply'[b] = reply[b]
    BY <1>0, <1>7, OthersStay
  <1>8. CASE UNCHANGED vars
    BY <1>1, <1>8 DEF vars
  <1>9. QED
    BY <1>1, <1>2, <1>3, <1>4, <1>5, <1>6, <1>7, <1>8 DEF Next, Step, Handle

LEMMA LocksStep == IInv /\ [Next]_vars => Exclusive' /\ OwnOrCommitted' /\ Current'
  <1> SUFFICES ASSUME IInv, [Next]_vars
               PROVE  Exclusive' /\ OwnOrCommitted' /\ Current'
    OBVIOUS
  <1>0. TypeOK /\ Exclusive /\ OwnOrCommitted /\ Current
    BY DEF IInv
  <1>1. ASSUME NEW b \in Batches, NEW c \in Batches, b # c, LockRow(b)
        PROVE  reply'[c] = reply[c] /\ Head(queue[b]) \notin Locked(c)
    BY <1>0, <1>1, OthersStay, Locking DEF Step, Handle
  <1>2. Exclusive'
    <2>1. ASSUME NEW b \in Batches, NEW c \in Batches, b # c,
                 NEW d \in Locked(b)', d \in Locked(c)'
          PROVE  FALSE
      <3>1. d \in Locked(b) \/ (LockRow(b) /\ d = Head(queue[b]))
        BY LockedStep
      <3>2. d \in Locked(c) \/ (LockRow(c) /\ d = Head(queue[c]))
        BY <2>1, LockedStep
      <3>3. CASE LockRow(b) /\ d = Head(queue[b])
        BY <1>1, <2>1, <3>3 DEF Locked
      <3>4. CASE LockRow(c) /\ d = Head(queue[c])
        BY <1>1, <2>1, <3>4 DEF Locked
      <3>5. CASE d \in Locked(b) /\ d \in Locked(c)
        BY <1>0, <2>1, <3>5 DEF Exclusive
      <3>6. QED
        BY <3>1, <3>2, <3>3, <3>4, <3>5
    <2>2. QED
      BY <2>1 DEF Exclusive
  <1>3. ASSUME NEW b \in Batches, NEW d \in Locked(b)', LockRow(b), d = Head(queue[b]),
               reply'[b][d] = Attempt(b, d)
        PROVE  /\ reply'[b][d] \in committed \cup {Tx(b)}
               /\ reply'[b][d] = Attempt(b, d)'
    <2>1. d \in Images /\ pc[b] = "upsert" /\ rows' = rows
      BY <1>3, Locking DEF LockRow
    <2>2. Attempt(b, d) \in committed \cup {Tx(b)}
      BY <2>1, NextRow
    <2>3. Tx(b)' = Tx(b)
      BY LockedStep
    <2>4. QED
      BY <1>3, <2>1, <2>2, <2>3 DEF Attempt
  <1>4. OwnOrCommitted'
    <2>1. ASSUME NEW b \in Batches, NEW d \in Locked(b)'
          PROVE  reply'[b][d] \in committed \cup {Tx(b)} /\ Tx(b)' = Tx(b)
      BY <1>0, <1>3, LockedStep DEF OwnOrCommitted
    <2>2. QED
      BY <2>1, CommittedGrows DEF OwnOrCommitted
  <1>5. Current'
    <2>1. ASSUME NEW b \in Batches, NEW d \in Locked(b)'
          PROVE  reply'[b][d] = Attempt(b, d)'
      <3>1. CASE LockRow(b) /\ d = Head(queue[b]) /\ reply'[b][d] = Attempt(b, d)
        BY <1>3, <3>1
      <3>2. CASE d \in Locked(b) /\ reply'[b][d] = reply[b][d]
        <4>1. d \in Images /\ Tx(b)' = Tx(b) /\ reply[b][d] = Attempt(b, d)
          BY <1>0, <3>2, LockedStep, ResponseShape DEF TypeOK, Locked, Current
        <4>2. CASE rows'[d] = rows[d]
          BY <3>2, <4>1, <4>2 DEF Attempt
        <4>3. ASSUME NEW c \in Batches, Commit(c), d \in Locked(c) PROVE FALSE
          <5>1. c = b
            BY <1>0, <3>2, <4>3 DEF Exclusive
          <5>2. pc'[b] = "idle"
            BY <1>0, <4>3, <5>1 DEF Commit, TypeOK
          <5>3. QED
            BY <5>2, LockedStep
        <4>4. QED
          BY <4>1, <4>2, <4>3, RowsStep
      <3>3. QED
        BY <3>1, <3>2, LockedStep
    <2>2. QED
      BY <2>1 DEF Current
  <1>6. QED
    BY <1>2, <1>4, <1>5

LEMMA RowsCommittedStep == IInv /\ [Next]_vars => RowsAreCommitted'
  <1> SUFFICES ASSUME IInv, [Next]_vars, NEW d \in Images
               PROVE  rows'[d] = None \/ rows'[d] \in committed'
    BY DEF RowsAreCommitted
  <1>1. CASE rows'[d] = rows[d]
    BY <1>1, CommittedGrows DEF IInv, RowsAreCommitted
  <1>2. ASSUME NEW b \in Batches, Commit(b), d \in Locked(b), rows'[d] = reply[b][d]
        PROVE  rows'[d] \in committed'
    BY <1>2 DEF IInv, OwnOrCommitted, Commit
  <1>3. QED
    BY <1>1, <1>2, RowsStep

LEMMA AgreeStep == IInv /\ [Next]_vars => BatchesAgree'
  <1> SUFFICES ASSUME IInv, [Next]_vars, NEW b \in Batches, answer'[b] = "ok",
                      NEW d \in Wanted[b]
               PROVE  d \in DOMAIN held'[b] /\ held'[b][d] = rows'[d]
    BY DEF BatchesAgree
  <1>0. TypeOK /\ d \in Images
    BY WantedAssumption DEF IInv
  <1>1. CASE answer[b] = "ok" /\ held'[b] = held[b]
    <2>1. d \in DOMAIN held[b] /\ held[b][d] = rows[d]
      BY <1>1 DEF IInv, BatchesAgree
    <2>2. held[b][d] \in Txs
      BY <1>0, <2>1, ResponseShape DEF TypeOK
    <2>3. rows[d] # None
      BY <2>1, <2>2, NoneAssumption
    <2>4. QED
      BY <1>0, <1>1, <2>1, <2>3, RowsStay
  <1>2. CASE Commit(b) /\ held'[b] = reply[b]
    <2>1. d \in Locked(b)
      BY <1>2 DEF IInv, Covering, Commit
    <2>2. rows'[d] = reply[b][d]
      BY <1>0, <1>2, <2>1 DEF Commit
    <2>3. QED
      BY <1>2, <2>1, <2>2 DEF Locked
  <1>3. QED
    BY <1>1, <1>2, AnswerStep

LEMMA FreshStep == IInv /\ [Next]_vars => Fresh'
  <1> SUFFICES ASSUME IInv, [Next]_vars, NEW b \in Batches, NEW n \in 1..MaxCalls,
                      <<b, n>> \in committed'
               PROVE  IF pc'[b] = "idle" THEN n <= calls'[b] ELSE n < calls'[b]
    BY DEF Fresh
  <1>0. TypeOK /\ Fresh
    BY DEF IInv
  <1>1. n \in Nat /\ calls[b] \in Nat
    BY <1>0, LimitsAssumption DEF TypeOK
  <1>2. <<b, n>> \in committed \/ (Commit(b) /\ n = calls[b])
    <2>1. ASSUME NEW c \in Batches, Commit(c), <<b, n>> \notin committed
          PROVE  c = b /\ n = calls[b]
      BY <2>1 DEF Commit, Tx
    <2>2. ASSUME NEW c \in Batches, Step(c), ~Commit(c) PROVE committed' = committed
      BY <2>2 DEF Step, Handle, Request, LockRow, Upserted, ListParts, Rollback, Victim, Crash
    <2>3. CASE UNCHANGED vars
      BY <2>3 DEF vars
    <2>4. QED
      BY <2>1, <2>2, <2>3 DEF Next, Step
  <1>3. CASE Commit(b)
    <2>1. pc[b] # "idle" /\ pc'[b] = "idle" /\ calls' = calls
      BY <1>0, <1>3 DEF TypeOK, Commit
    <2>2. QED
      BY <1>0, <1>1, <1>2, <2>1 DEF Fresh
  <1>4. CASE Request(b)
    <2>1. pc[b] = "idle" /\ calls'[b] = calls[b] + 1 /\ ~Commit(b)
      BY <1>0, <1>4 DEF TypeOK, Request, Commit
    <2>2. QED
      BY <1>0, <1>1, <1>2, <2>1 DEF Fresh
  <1>5. CASE \/ LockRow(b) \/ Upserted(b) \/ ListParts(b) \/ Rollback(b)
             \/ Victim(b) \/ Crash(b)
    <2>1. pc[b] # "idle" /\ calls' = calls /\ committed' = committed
      BY <1>5 DEF LockRow, Upserted, ListParts, Rollback, Victim, Crash
    <2>2. QED
      BY <1>0, <1>1, <2>1 DEF Fresh
  <1>6. CASE pc'[b] = pc[b] /\ calls'[b] = calls[b] /\ ~Commit(b)
    BY <1>0, <1>1, <1>2, <1>6 DEF Fresh
  <1>7. ASSUME NEW c \in Batches \ {b}, Step(c)
        PROVE  pc'[b] = pc[b] /\ calls'[b] = calls[b]
    BY <1>0, <1>7, OthersStay
  <1>8. CASE UNCHANGED vars
    BY <1>3, <1>6, <1>8 DEF vars
  <1>9. QED
    BY <1>3, <1>4, <1>5, <1>6, <1>7, <1>8 DEF Next, Step, Handle

LEMMA WaitingStep == IInv /\ [Next]_vars => Waiting'
  <1> SUFFICES ASSUME IInv, [Next]_vars, NEW b \in Batches, pc'[b] # "idle"
               PROVE  answer'[b] = "none"
    BY DEF Waiting
  <1>0. TypeOK /\ Waiting
    BY DEF IInv
  <1>1. CASE Request(b)
    BY <1>0, <1>1 DEF TypeOK, Request
  <1>2. CASE LockRow(b) \/ Upserted(b) \/ ListParts(b) \/ Victim(b)
    BY <1>0, <1>2 DEF Waiting, LockRow, Upserted, ListParts, Victim
  <1>3. CASE Rollback(b) \/ Commit(b) \/ Crash(b)
    BY <1>0, <1>3 DEF TypeOK, Rollback, Commit, Crash
  <1>4. ASSUME NEW c \in Batches \ {b}, Step(c)
        PROVE  pc'[b] = pc[b] /\ answer'[b] = answer[b]
    BY <1>0, <1>4, OthersStay
  <1>5. CASE UNCHANGED vars
    BY <1>0, <1>5 DEF Waiting, vars
  <1>6. QED
    BY <1>0, <1>1, <1>2, <1>3, <1>4, <1>5 DEF Waiting, Next, Step, Handle

LEMMA InvStep == IInv /\ [Next]_vars => IInv'
  BY TypeStep, ServingStep, CoveringStep, LocksStep, FreshStep, WaitingStep,
     RowsCommittedStep, AgreeStep DEF IInv

LEMMA Invariance == Spec => []IInv
  BY InvInit, InvStep, PTL DEF Spec

-----------------------------------------------------------------------------
(* The theorems *)

\* The handlers, the deadlock detector and the ends of connections keep every
\* variable in its type: what is queued or answered is about images.
THEOREM TypeCorrect == Spec => []TypeOK
  <1>1. IInv => TypeOK
    BY DEF IInv
  <1>2. QED
    BY <1>1, Invariance, PTL

\* A batch that loses a deadlock, S3 or its connection after it has inserted
\* some of its rows leaves none of them, for any batches in any orders of their
\* images (Begin to Commit in initiateUpload).
THEOREM CommittedRows == Spec => []RowsAreCommitted
  <1>1. IInv => RowsAreCommitted
    BY DEF IInv
  <1>2. QED
    BY <1>1, Invariance, PTL

\* Whatever batches overlap, and in whatever order each walks its map, the
\* responses name the attempts that are in the database, one for each image of
\* the batch, so the same for an image of two batches (the ON CONFLICT of the
\* upserts).
THEOREM Agreement == Spec => []BatchesAgree
  <1>1. IInv => BatchesAgree
    BY DEF IInv
  <1>2. QED
    BY <1>1, Invariance, PTL

-----------------------------------------------------------------------------
(* Batches are atomic *)

Served == {b \in Batches : pc[b] # "idle"}

LEMMA InitMaps == Init => Atomic!Init
  <1> SUFFICES ASSUME Init PROVE Atomic!Init
    OBVIOUS
  <1>1. Served = {}
    BY DEF Init, Served
  <1>2. QED
    BY <1>1 DEF Init, NoRows, Served, Atomic!Init

\* What a batch that commits has is what the table then has of its images.
LEMMA ReplyIsTable ==
  ASSUME IInv, NEW b \in Batches, Commit(b)
  PROVE  /\ rows' = [d \in Images |-> IF d \in Wanted[b] /\ rows[d] = None
                                     THEN Tx(b) ELSE rows[d]]
         /\ reply[b] = [d \in Wanted[b] |-> rows'[d]]
  <1>0. TypeOK
    BY DEF IInv
  <1>1. Locked(b) = Wanted[b] /\ Wanted[b] \subseteq Images
    BY WantedAssumption DEF IInv, Covering, Commit
  <1>2. \A d \in Wanted[b] : reply[b][d] = Attempt(b, d)
    BY <1>1 DEF IInv, Current
  <1>3. rows' = [d \in Images |-> IF d \in Wanted[b] THEN reply[b][d] ELSE rows[d]]
    BY <1>1 DEF Commit
  <1>4. rows' = [d \in Images |-> IF d \in Wanted[b] /\ rows[d] = None
                                 THEN Tx(b) ELSE rows[d]]
    BY <1>2, <1>3 DEF Attempt
  <1>5. PICK S \in SUBSET Images : reply[b] \in [S -> Txs]
    BY <1>0 DEF TypeOK, Responses
  <1>6. S = Wanted[b]
    BY <1>1, <1>5 DEF Locked
  <1>7. reply[b] = [d \in Wanted[b] |-> rows'[d]]
    BY <1>1, <1>3, <1>5, <1>6
  <1>8. QED
    BY <1>4, <1>7

LEMMA CommitMaps ==
  ASSUME IInv, NEW b \in Batches, Commit(b)
  PROVE  \E tx \in Txs : Atomic!Serve(b, tx)
  <1>0. TypeOK /\ pc[b] = "commit"
    BY DEF IInv, Commit
  <1>1. calls[b] \in 1..MaxCalls
    BY <1>0, LimitsAssumption DEF IInv, TypeOK, Serving
  <1>2. PICK tx \in Txs : tx = Tx(b) /\ tx \notin committed
    <2>1. Tx(b) \in Txs /\ Tx(b) \notin committed
      BY <1>0, <1>1 DEF IInv, Fresh, Tx, Txs
    <2>2. QED
      BY <2>1
  <1>3. b \in Served /\ Served' = Served \ {b}
    BY <1>0 DEF Served, TypeOK, Commit
  <1>4. committed' = committed \cup {tx}
    BY <1>2 DEF Commit
  <1>5. \/ /\ held' = [held EXCEPT ![b] = [d \in Wanted[b] |-> rows'[d]]]
           /\ answer' = [answer EXCEPT ![b] = "ok"]
        \/ answer' = [answer EXCEPT ![b] = "error"] /\ UNCHANGED held
        \/ UNCHANGED <<held, answer>>
    BY ReplyIsTable DEF Commit
  <1>6. rows' = [d \in Images |-> IF d \in Wanted[b] /\ rows[d] = None
                                 THEN tx ELSE rows[d]]
    BY <1>2, ReplyIsTable
  <1>7. Atomic!Serve(b, tx)
    BY <1>2, <1>3, <1>4, <1>5, <1>6 DEF Served, Atomic!Serve
  <1>8. QED
    BY <1>7

\* The other steps: a batch begins, goes on, or ends without an effect.
LEMMA OthersMap ==
  ASSUME IInv, NEW b \in Batches, Step(b), ~Commit(b)
  PROVE  Atomic!Ask(b) \/ Atomic!Fail(b) \/ UNCHANGED Atomic!vars
  <1>0. TypeOK
    BY DEF IInv
  <1>1. CASE Request(b)
    <2>1. b \notin Served /\ Served' = Served \cup {b}
      BY <1>0, <1>1 DEF TypeOK, Request, Served
    <2>2. QED
      BY <1>1, <2>1 DEF Request, Served, Atomic!Ask
  <1>2. CASE LockRow(b) \/ Upserted(b) \/ ListParts(b) \/ Victim(b)
    <2>1. Served' = Served
      BY <1>0, <1>2 DEF TypeOK, LockRow, Upserted, ListParts, Victim, Served
    <2>2. UNCHANGED <<rows, committed, held, answer>>
      BY <1>2 DEF LockRow, Upserted, ListParts, Victim
    <2>3. QED
      BY <2>1, <2>2 DEF Served, Atomic!vars
  <1>3. CASE Rollback(b) \/ Crash(b)
    <2>1. b \in Served /\ Served' = Served \ {b}
      BY <1>0, <1>3 DEF TypeOK, Rollback, Crash, Served
    <2>2. /\ UNCHANGED <<rows, committed, held>>
          /\ answer' = [answer EXCEPT ![b] = "error"] \/ UNCHANGED answer
      BY <1>3 DEF Rollback, Crash
    <2>3. QED
      BY <2>1, <2>2 DEF Served, Atomic!Fail
  <1>4. QED
    BY <1>1, <1>2, <1>3 DEF Step, Handle

\* The locks make batches atomic: for any batches that overlap, wait for each
\* other, are broken out of a deadlock, crash, fail or are repeated, each takes
\* place at one instant, its commit, or not at all.  "ok" is answered only for a
\* batch that took place, with what the table then has of its images; an error may
\* be answered for either, since the connection may be lost under COMMIT and the
\* response may fail to convert after it (initiateUpload, its upserts and
\* GeneratePresignedUrl implement AtomicBatches).
THEOREM BatchRefinement == Spec => BatchesAreAtomic
  <1>1. IInv /\ [Next]_vars => [Atomic!Next]_(Atomic!vars)
    <2> SUFFICES ASSUME IInv, [Next]_vars PROVE [Atomic!Next]_(Atomic!vars)
      OBVIOUS
    <2>1. ASSUME NEW b \in Batches, Commit(b) PROVE Atomic!Next
      <3>1. PICK tx \in Txs : Atomic!Serve(b, tx)
        BY <2>1, CommitMaps
      <3>2. QED
        BY <3>1 DEF Atomic!Next
    <2>2. ASSUME NEW b \in Batches, Step(b), ~Commit(b)
          PROVE  [Atomic!Next]_(Atomic!vars)
      BY <2>2, OthersMap DEF Atomic!Next
    <2>3. CASE UNCHANGED vars
      BY <2>3 DEF vars, Atomic!vars
    <2>4. QED
      BY <2>1, <2>2, <2>3 DEF Next, Step
  <1>2. QED
    BY <1>1, InitMaps, Invariance, PTL DEF Spec, BatchesAreAtomic, Atomic!Spec
=============================================================================
