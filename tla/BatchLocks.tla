------------------------------ MODULE BatchLocks ------------------------------
(***************************************************************************)
(* Batches of images presigned at the same time for one lot, through       *)
(* replicas with a connection each.  The upserts of GeneratePresignedUrl   *)
(* lock the pending row of one image after the other, in the random order  *)
(* in which Go walks the map of the files, and the locks are held over the *)
(* calls to S3 until the transaction ends.  Batches wait for each other,   *)
(* PostgreSQL ends one that waits for itself, clients repeat batches.      *)
(*                                                                         *)
(* No image is stored meanwhile and no attempt expires: PresignBatch and   *)
(* MultipartUpload are about those.                                        *)
(***************************************************************************)
EXTENDS Naturals, Sequences, FiniteSets

CONSTANTS Batches,    \* the batches, of a client each
          Images,     \* the images they are about
          Wanted,     \* Wanted[b]: the images of b, without duplicates
          Large,      \* images that are uploaded in parts
          Upper,      \* calls that spell the digest of a large image in upper case
          MaxCalls,   \* bound: times that a batch is sent
          MaxFaults,  \* bound: failing S3 calls, ended connections, lost responses
          None        \* no row

Txs == Batches \X (1..MaxCalls)

ASSUME WantedAssumption == /\ Wanted \in [Batches -> SUBSET Images]
                           /\ \A b \in Batches : IsFiniteSet(Wanted[b])
ASSUME UpperAssumption == /\ Upper \subseteq Txs
                          /\ \A tx \in Upper : Wanted[tx[1]] \cap Large # {}
ASSUME LimitsAssumption == MaxCalls \in Nat /\ MaxFaults \in Nat
ASSUME NoneAssumption == None \notin Txs

VARIABLES pc,         \* pc[b]: the call the handler of b makes next
          calls,      \* calls[b]: the times b has been sent
          queue,      \* queue[b]: the images whose rows b has yet to lock
          reply,      \* reply[b]: the attempt of each image whose row b has locked
          held,       \* held[b]: the response the client of b has
          answer,     \* answer[b]: what the last call of b was answered
          rows,       \* rows[d]: the pending attempt of image d, or None
          committed,  \* the transactions that have committed
          faults

vars == <<pc, calls, queue, reply, held, answer, rows, committed, faults>>

-----------------------------------------------------------------------------
\* A transaction, and the attempts that it inserts.
Tx(b) == <<b, calls[b]>>

\* The images whose rows the transaction of b has locked.
Locked(b) == DOMAIN reply[b]

NoRows == [d \in {} |-> None]

\* The orders of a set of images that Go may walk its map in.
Walks(S) == {walk \in [1..Cardinality(S) -> S] : \A d \in S : \E i \in DOMAIN walk : walk[i] = d}

\* Mutant: the pending row of another transaction is not waited for.
BlocksNever(b, c) == FALSE

\* b has the row that c needs next, inserted or updated, and has not ended.
Blocks(b, c) == b # c /\ queue[c] # <<>> /\ Head(queue[c]) \in Locked(b)

\* c waits for itself, through others: each waits for one that waits for it.
Deadlocked(c) ==
  \E cycle \in SUBSET Batches :
    /\ c \in cycle
    /\ \A b \in cycle : /\ \E next \in cycle : Blocks(next, b)
                        /\ \E previous \in cycle : Blocks(b, previous)

Init == /\ pc = [b \in Batches |-> "idle"]
        /\ calls = [b \in Batches |-> 0]
        /\ queue = [b \in Batches |-> <<>>]
        /\ reply = [b \in Batches |-> NoRows]
        /\ held = [b \in Batches |-> NoRows]
        /\ answer = [b \in Batches |-> "none"]
        /\ rows = [d \in Images |-> None]
        /\ committed = {}
        /\ faults = 0

\* The client sends the batch, for the first time or again. One walk over the map
\* of its files, cut into the arguments of the two upserts, leaves the small images
\* and the large ones in any order.
Request(b) ==
  /\ pc[b] = "idle" /\ calls[b] < MaxCalls
  /\ pc' = [pc EXCEPT ![b] = "upsert"]
  /\ calls' = [calls EXCEPT ![b] = @ + 1]
  /\ answer' = [answer EXCEPT ![b] = "none"]
  /\ \E small \in Walks(Wanted[b] \ Large), large \in Walks(Wanted[b] \cap Large) :
       queue' = [queue EXCEPT ![b] = small \o large]
  /\ UNCHANGED <<reply, held, rows, committed, faults>>

\* The locks of the transaction of b are released.
Release(b) == /\ queue' = [queue EXCEPT ![b] = <<>>]
              /\ reply' = [reply EXCEPT ![b] = NoRows]

-----------------------------------------------------------------------------
(* The handler *)

\* Mutant: only rows that were there before are returned.
AttemptRead(b, d) == rows[d]

\* The attempt of image d that b's upsert returns: the one that is pending, or
\* the one that it inserts.
Attempt(b, d) == IF rows[d] # None THEN rows[d] ELSE Tx(b)

\* The rows of b, with the one that its upsert returns next.
WithRow(b, d) == [e \in Locked(b) \cup {d} |-> IF e = d THEN Attempt(b, d) ELSE reply[b][e]]

\* Mutant: the statements are not those of the transaction, and are durable at
\* once.
LockRowOutsideTx(b) ==
  /\ pc[b] = "upsert" /\ queue[b] # <<>>
  /\ \A c \in Batches : ~Blocks(c, b)
  /\ LET d == Head(queue[b]) IN
       /\ reply' = [reply EXCEPT ![b] = WithRow(b, d)]
       /\ rows' = [rows EXCEPT ![d] = Attempt(b, d)]
  /\ queue' = [queue EXCEPT ![b] = Tail(@)]
  /\ UNCHANGED <<pc, calls, held, answer, committed, faults>>

\* InsertSinglePartUpload and InsertAndValidateMultiPartUpload come to the next
\* of their rows, once no other transaction has it.
LockRow(b) ==
  /\ pc[b] = "upsert" /\ queue[b] # <<>>
  /\ \A c \in Batches : ~Blocks(c, b)
  /\ LET d == Head(queue[b]) IN
       reply' = [reply EXCEPT ![b] = WithRow(b, d)]
  /\ queue' = [queue EXCEPT ![b] = Tail(@)]
  /\ UNCHANGED <<pc, calls, held, answer, rows, committed, faults>>

\* Attempts that b did not insert are resumed if they have parts.
Resumes(b) == \E d \in Locked(b) \cap Large : reply[b][d] # Tx(b)

\* The upserts are done; what S3 has of the resumed attempts is listed.
Upserted(b) ==
  /\ pc[b] = "upsert" /\ queue[b] = <<>>
  /\ pc' = [pc EXCEPT ![b] = IF Resumes(b) THEN "list" ELSE "commit"]
  /\ UNCHANGED <<calls, queue, reply, held, answer, rows, committed, faults>>

\* ListParts answers, or fails the request.
ListParts(b) ==
  /\ pc[b] = "list"
  /\ \/ pc' = [pc EXCEPT ![b] = "commit"] /\ UNCHANGED faults
     \/ /\ faults < MaxFaults /\ faults' = faults + 1
        /\ pc' = [pc EXCEPT ![b] = "rollback"]
  /\ UNCHANGED <<calls, queue, reply, held, answer, rows, committed>>

\* Mutant: the handler returns without the deferred Rollback.
RollbackForgotten(b) ==
  /\ pc[b] = "rollback"
  /\ pc' = [pc EXCEPT ![b] = "idle"]
  /\ answer' = [answer EXCEPT ![b] = "error"]
  /\ UNCHANGED <<calls, queue, reply, held, rows, committed, faults>>

\* The deferred Rollback of initiateUpload.
Rollback(b) ==
  /\ pc[b] = "rollback"
  /\ pc' = [pc EXCEPT ![b] = "idle"]
  /\ answer' = [answer EXCEPT ![b] = "error"]
  /\ Release(b)
  /\ UNCHANGED <<calls, held, rows, committed, faults>>

\* The response of b can be converted: the file of a large image is found under
\* the digest that SQL returns, in lower case.
Convertible(b) == Tx(b) \notin Upper

\* Mutant: the error of Commit is dropped.
CommitUnchecked(b) ==
  /\ pc[b] = "commit"
  /\ pc' = [pc EXCEPT ![b] = "idle"]
  /\ Release(b)
  /\ \/ /\ rows' = [d \in Images |-> IF d \in Locked(b) THEN reply[b][d] ELSE rows[d]]
        /\ committed' = committed \cup {Tx(b)}
        /\ UNCHANGED faults
     \/ /\ faults < MaxFaults /\ faults' = faults + 1
        /\ UNCHANGED <<rows, committed>>
  /\ IF Convertible(b)
     THEN held' = [held EXCEPT ![b] = reply[b]] /\ answer' = [answer EXCEPT ![b] = "ok"]
     ELSE UNCHANGED held /\ answer' = [answer EXCEPT ![b] = "error"]
  /\ UNCHANGED calls

\* COMMIT takes place: what b has inserted is there.  Then the response is
\* converted, which reads nothing but what the handler has, and b is answered;
\* with an error when the conversion fails, or when the connection was lost before
\* the database answered COMMIT; with nothing when the response is lost, or the
\* process ends.  (A COMMIT that does not take place is a Crash.)
Commit(b) ==
  /\ pc[b] = "commit"
  /\ pc' = [pc EXCEPT ![b] = "idle"]
  /\ rows' = [d \in Images |-> IF d \in Locked(b) THEN reply[b][d] ELSE rows[d]]
  /\ committed' = committed \cup {Tx(b)}
  /\ Release(b)
  /\ \/ /\ Convertible(b)
        /\ held' = [held EXCEPT ![b] = reply[b]]
        /\ answer' = [answer EXCEPT ![b] = "ok"]
        /\ UNCHANGED faults
     \/ /\ ~Convertible(b)
        /\ answer' = [answer EXCEPT ![b] = "error"]
        /\ UNCHANGED <<held, faults>>
     \/ /\ faults < MaxFaults /\ faults' = faults + 1
        /\ answer' = [answer EXCEPT ![b] = "error"] \/ UNCHANGED answer
        /\ UNCHANGED held
  /\ UNCHANGED calls

-----------------------------------------------------------------------------
(* PostgreSQL *)

\* The statement of a batch that waits for itself is refused; the locks of its
\* failed transaction are released at once.
Victim(b) ==
  /\ pc[b] = "upsert" /\ Deadlocked(b)
  /\ pc' = [pc EXCEPT ![b] = "rollback"]
  /\ Release(b)
  /\ UNCHANGED <<calls, held, answer, rows, committed, faults>>

\* The connection or the process of b ends, and with it the transaction; a handler
\* that has lost no more than its connection answers an error.
Crash(b) ==
  /\ pc[b] # "idle" /\ faults < MaxFaults
  /\ faults' = faults + 1
  /\ pc' = [pc EXCEPT ![b] = "idle"]
  /\ answer' = [answer EXCEPT ![b] = "error"] \/ UNCHANGED answer
  /\ Release(b)
  /\ UNCHANGED <<calls, held, rows, committed>>

Handle(b) == LockRow(b) \/ Upserted(b) \/ ListParts(b) \/ Rollback(b) \/ Commit(b)

Next == \E b \in Batches : Request(b) \/ Handle(b) \/ Victim(b) \/ Crash(b)

Spec == Init /\ [][Next]_vars

\* A handler goes on while it can: S3 and the database answer.  The deadlock
\* detector looks at every transaction that waits for deadlock_timeout.
Fairness == \A b \in Batches : WF_vars(Handle(b)) /\ WF_vars(Victim(b))

FairSpec == Spec /\ Fairness

-----------------------------------------------------------------------------
(* Properties *)

Responses == UNION {[S -> Txs] : S \in SUBSET Images}

\* Every variable has its type.
TypeOK ==
  /\ pc \in [Batches -> {"idle", "upsert", "list", "commit", "rollback"}]
  /\ calls \in [Batches -> 0..MaxCalls]
  /\ queue \in [Batches -> Seq(Images)]
  /\ reply \in [Batches -> Responses]
  /\ held \in [Batches -> Responses]
  /\ answer \in [Batches -> {"none", "ok", "error"}]
  /\ rows \in [Images -> Txs \cup {None}]
  /\ committed \subseteq Txs
  /\ faults \in 0..MaxFaults

\* Clients that presign overlapping batches at the same time, in any order of
\* their images, get the same attempt for an image, the one that is pending in
\* the database, for every image of theirs (the ON CONFLICT of the upserts).
BatchesAgree ==
  \A b \in Batches : answer[b] = "ok" =>
    \A d \in Wanted[b] : d \in DOMAIN held[b] /\ held[b][d] = rows[d]

\* A batch that was chosen to break a deadlock, failed at S3 or lost its
\* connection leaves none of its rows, not even those of the images it was done
\* with (Begin to Commit in initiateUpload).
RowsAreCommitted == \A d \in Images : rows[d] = None \/ rows[d] \in committed

Atomic == INSTANCE AtomicBatches WITH asked <- {b \in Batches : pc[b] # "idle"}

\* Whatever the order in which batches lock their rows, wait, fail and are
\* repeated, each comes to one atomic step at its commit, or to nothing: no
\* attempt appears before it, none of its images is left out, and a response is
\* the table at that instant.  A batch is answered "ok" only if it took place,
\* while one that took place may be answered an error, or not at all
\* (initiateUpload, the two upserts, the conversion in GeneratePresignedUrl).
BatchesAreAtomic == Atomic!Spec

\* Every batch is answered or dies: nobody waits for ever, neither in a cycle
\* nor for the rows of a batch that has failed (the deferred Rollback).
EveryBatchEnds == \A b \in Batches : pc[b] # "idle" ~> pc[b] = "idle"
=============================================================================
