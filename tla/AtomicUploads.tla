---------------------------- MODULE AtomicUploads ----------------------------
(***************************************************************************)
(* What the requests about one large image come to, with no transactions,  *)
(* locks, handlers or parts: a table of attempts, the uploads that S3 has  *)
(* assembled, and what each client was told.  A presign is one step: at    *)
(* one instant the pending attempt is found, renewed or, where there is    *)
(* none, inserted, and the client is told of it as it is then.             *)
(***************************************************************************)
CONSTANTS Clients, Uploads, Attempts, Plans, None

VARIABLES rows,     \* rows[a]: an attempt, or None
          given,    \* given[c]: the attempt, upload and plan c was last told of
          stored,   \* the uploads whose object is there
          blob      \* the image is entered as stored

vars == <<rows, given, stored, blob>>

Present == {a \in Attempts : rows[a] # None}
Pending == {a \in Present : rows[a].state = "pending"}

Init == /\ rows = [a \in Attempts |-> None]
        /\ given = [c \in Clients |-> None]
        /\ stored = {}
        /\ blob = FALSE

\* A presign of c is about attempt a, and c is told unless the response is lost.
Tell(c, a) ==
  /\ \/ given' = [given EXCEPT ![c] = [attempt |-> a, upload |-> rows'[a].upload,
                                       plan |-> rows'[a].plan]]
     \/ UNCHANGED given
  /\ UNCHANGED <<stored, blob>>

\* The pending attempt is resumed as it is,
Resume(c, a) == a \in Pending /\ UNCHANGED rows /\ Tell(c, a)

\* gets another plan and another term when its term is over,
Renew(c, a, plan) ==
  /\ a \in Pending /\ ~rows[a].valid
  /\ rows' = [rows EXCEPT ![a].plan = plan, ![a].valid = TRUE]
  /\ Tell(c, a)

\* or is begun, with an upload no attempt ever had.
Begin(c, a, upload, plan) ==
  /\ Pending = {} /\ a \notin Present
  /\ upload \notin stored /\ \A b \in Present : rows[b].upload # upload
  /\ rows' = [rows EXCEPT ![a] = [state |-> "pending", upload |-> upload,
                                  plan |-> plan, valid |-> TRUE]]
  /\ Tell(c, a)

\* The term of an attempt ends.
Expire(a) == /\ a \in Pending /\ rows[a].valid
             /\ rows' = [rows EXCEPT ![a].valid = FALSE]
             /\ UNCHANGED <<given, stored, blob>>

\* The upload of an attempt is assembled, once.
Assemble(a) == /\ a \in Present /\ rows[a].upload \notin stored
               /\ stored' = stored \cup {rows[a].upload}
               /\ UNCHANGED <<rows, given, blob>>

\* A pending attempt whose object is there is committed, for good.
Verify(a) == /\ a \in Pending /\ rows[a].upload \in stored
             /\ rows' = [rows EXCEPT ![a].state = "committed"]
             /\ UNCHANGED <<given, stored, blob>>

\* The image is entered once one of its objects is there.
Enter == /\ ~blob /\ stored # {}
         /\ blob' = TRUE
         /\ UNCHANGED <<rows, given, stored>>

Next == \/ \E a \in Attempts :
             \/ Expire(a) \/ Assemble(a) \/ Verify(a)
             \/ \E c \in Clients :
                  \/ Resume(c, a)
                  \/ \E plan \in Plans :
                       \/ Renew(c, a, plan)
                       \/ \E upload \in Uploads : Begin(c, a, upload, plan)
        \/ Enter

Spec == Init /\ [][Next]_vars
=============================================================================
