---------------------------- MODULE AtomicBatches ----------------------------
(***************************************************************************)
(* What batches presigned at the same time for one lot come to: each takes *)
(* place at one instant while it is asked for, or not at all.  At that     *)
(* instant every image of it that has no attempt gets one of a new         *)
(* transaction, and the response is what the table then has of its images, *)
(* no more and no less.  Only a batch that took place is answered "ok"; an *)
(* error, or no answer, says nothing of whether it did.  There are no      *)
(* locks and no orders here.                                               *)
(***************************************************************************)
CONSTANTS Batches, Images, Wanted, Txs, None

VARIABLES asked,      \* the batches that are being served
          rows,       \* rows[d]: the pending attempt of image d, or None
          committed,  \* the transactions whose effect has taken place
          held,       \* held[b]: the response the client of b has
          answer      \* answer[b]: what the last call of b was answered

vars == <<asked, rows, committed, held, answer>>

Init == /\ asked = {}
        /\ rows = [d \in Images |-> None]
        /\ committed = {}
        /\ held = [b \in Batches |-> [d \in {} |-> None]]
        /\ answer = [b \in Batches |-> "none"]

\* A client sends its batch, for the first time or again.
Ask(b) == /\ b \notin asked
          /\ asked' = asked \cup {b}
          /\ answer' = [answer EXCEPT ![b] = "none"]
          /\ UNCHANGED <<rows, committed, held>>

\* The batch takes place, whole; its response may be lost, and an error may be
\* answered all the same.
Serve(b, tx) ==
  /\ b \in asked /\ tx \notin committed
  /\ asked' = asked \ {b}
  /\ committed' = committed \cup {tx}
  /\ rows' = [d \in Images |-> IF d \in Wanted[b] /\ rows[d] = None THEN tx ELSE rows[d]]
  /\ \/ /\ held' = [held EXCEPT ![b] = [d \in Wanted[b] |-> rows'[d]]]
        /\ answer' = [answer EXCEPT ![b] = "ok"]
     \/ /\ answer' = [answer EXCEPT ![b] = "error"]
        /\ UNCHANGED held
     \/ UNCHANGED <<held, answer>>

\* The batch is refused, or its handler dies: nothing of it has taken place.
Fail(b) == /\ b \in asked
           /\ asked' = asked \ {b}
           /\ \/ answer' = [answer EXCEPT ![b] = "error"]
              \/ UNCHANGED answer
           /\ UNCHANGED <<rows, committed, held>>

Next == \E b \in Batches : Ask(b) \/ Fail(b) \/ \E tx \in Txs : Serve(b, tx)

Spec == Init /\ [][Next]_vars
=============================================================================
