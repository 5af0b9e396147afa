----------------------------- MODULE SharedConn -----------------------------
(***************************************************************************)
(* The RPC handlers of the lot service over the ONE PostgreSQL connection  *)
(* that createRpc (cmd/api/main.go) opens and hands to both LotServer and  *)
(* ImageStore.  gRPC runs every request in a goroutine of its own, so the  *)
(* handlers interleave on that connection; a transaction opened by one of  *)
(* them is the transaction of all of them.                                 *)
(*                                                                         *)
(* A call on the connection has two steps: the driver takes the lock of    *)
(* pgconn and sends the command (Send), and the answer of the server is    *)
(* read and the lock released (one action per kind of command).  Between   *)
(* the two, other handlers find the connection busy, the client may go     *)
(* away, the connection may be closed under the call.  What the server     *)
(* does with a command is the PostgreSQL part of these actions.            *)
(*                                                                         *)
(* A write is a pair <<request, statement>>; what it writes is abstracted. *)
(***************************************************************************)
EXTENDS Naturals, FiniteSets

CONSTANTS Requests,      \* the requests that arrive during a behaviour
          Kind,          \* Kind[r]: the RPC that r calls
          Cancellable,   \* the requests whose client may cancel or time out
          MaxInFlight,   \* bound: handlers running at a time (1: serial traffic)
          MaxFaults,     \* bound: connection losses and process restarts
          None           \* no request

ASSUME KindAssumption == Kind \in [Requests -> {"lot", "presign", "complete"}]
ASSUME CancellableAssumption == Cancellable \subseteq Requests
ASSUME BoundsAssumption == MaxInFlight \in Nat /\ MaxFaults \in Nat
ASSUME NoneAssumption == None \notin Requests

VARIABLES pc,          \* pc[r]: the call the handler of r makes next or waits for
          result,      \* result[r]: what the client of r was answered
          need,        \* need[r]: the statements r has to make durable
          cancelled,   \* cancelled[r]: the context of r is done
          overlapped,  \* history: r has run at the same time as another request
          conn,        \* the lock and life of the connection (pgconn status)
          wire,        \* the request whose command is on the wire
          clobbered,   \* the result reader of that command was overwritten
          session,     \* the transaction state of the server session
          durable,     \* the committed writes
          faults       \* connection losses and restarts so far

vars == <<pc, result, need, cancelled, overlapped, conn, wire, clobbered,
          session, durable, faults>>

-----------------------------------------------------------------------------
(* The calls a handler makes. *)

\* conn.Exec without arguments uses the simple protocol.
Simple == {"begin", "commit", "rollback"}

\* The statements that write.
Writing == {"insert_lot", "identical", "insert_single", "insert_multi"}

\* Query and QueryRow use the extended protocol.
Extended == Writing \cup {"read_item"}

OnConn == Simple \cup Extended

\* Calls to S3, made while the connection is free for others.
OnS3 == {"create_uploads", "list_parts", "complete_s3"}

\* The calls a handler makes while it holds a dbTx that is not closed.
InTx == {"identical", "create_uploads", "insert_single", "insert_multi",
         "list_parts", "commit", "rollback"}

\* Mutant: initiateUpload runs its queries without a transaction of its own.
FirstCallNoBegin(r) == CASE Kind[r] = "lot"      -> "insert_lot"
                         [] Kind[r] = "presign"  -> "identical"
                         [] Kind[r] = "complete" -> "read_item"

\* The first blocking call of the handler of r.
FirstCall(r) == CASE Kind[r] = "lot"      -> "insert_lot"
                  [] Kind[r] = "presign"  -> "begin"
                  [] Kind[r] = "complete" -> "read_item"

\* The statements the handler of r makes whatever its files are.
FirstNeed(r) == CASE Kind[r] = "lot"      -> {"insert_lot"}
                  [] Kind[r] = "presign"  -> {"identical"}
                  [] Kind[r] = "complete" -> {}

Active(r) == pc[r] \notin {"new", "done"}

\* The writes an acknowledged r has to have made durable.
Owed(r) == {<<r, s>> : s \in need[r]}

\* Mutant: no deferred Rollback.
AfterFailureNoRollback(call) == "done"

\* Where a handler goes when its call fails: the deferred Rollback while the
\* dbTx is open (a failed Commit or Rollback has closed it), else its return.
AfterFailure(call) == IF call \in InTx \ {"commit", "rollback"}
                      THEN "rollback" ELSE "done"

\* The calls that follow a successful one, by what the files of r still need.
After(call, needed) ==
  CASE call = "begin" -> "identical"
    [] call = "identical" /\ "insert_multi" \in needed -> "create_uploads"
    [] call = "insert_single" /\ "insert_multi" \in needed -> "insert_multi"
    [] call \in {"identical", "create_uploads"} /\ "insert_single" \in needed
         -> "insert_single"
    [] call = "create_uploads" /\ "insert_single" \notin needed
         -> "insert_multi"
    [] OTHER -> "commit"

Continue(r, call) == /\ pc' = [pc EXCEPT ![r] = call]
                     /\ UNCHANGED result

Answer(r, res) == /\ pc' = [pc EXCEPT ![r] = "done"]
                  /\ result' = [result EXCEPT ![r] = res]

Fail(r) == IF AfterFailure(pc[r]) = "done" THEN Answer(r, "error")
           ELSE Continue(r, AfterFailure(pc[r]))

-----------------------------------------------------------------------------
(* The server session and the end of a connection. *)

NoTx == [tx |-> "I", writes |-> {}]

\* What the command on the wire may have made durable when nobody reads its
\* answer: the server had run it, or had not.
Landed == IF wire = None THEN {}
          ELSE IF pc[wire] = "commit" /\ session.tx = "T" THEN session.writes
          ELSE IF pc[wire] \in Writing /\ session.tx = "I"
               THEN {<<wire, pc[wire]>>}
          ELSE {}

\* The server ends the session: an open transaction is rolled back.
EndSession == /\ wire' = None
              /\ clobbered' = FALSE
              /\ session' = NoTx
              /\ \E w \in {{}, Landed} : durable' = durable \cup w

\* asyncClose and die: nothing opens this connection again.
CloseConn == conn' = "closed" /\ EndSession

\* Mutant: the lock is released before the answer has been read.
ReleaseUnread == conn' = "idle" /\ UNCHANGED <<wire, clobbered>>

\* The answer is read to its end and the lock released.
Release == /\ conn' = "idle"
           /\ wire' = None
           /\ clobbered' = FALSE

-----------------------------------------------------------------------------
Init == /\ pc = [r \in Requests |-> "new"]
        /\ result = [r \in Requests |-> "none"]
        /\ need = [r \in Requests |-> FirstNeed(r)]
        /\ cancelled = [r \in Requests |-> FALSE]
        /\ overlapped = [r \in Requests |-> FALSE]
        /\ conn = "idle"
        /\ wire = None
        /\ clobbered = FALSE
        /\ session = NoTx
        /\ durable = {}
        /\ faults = 0

ClientVars == <<need, cancelled, overlapped, faults>>

\* A request reaches its handler, in a goroutine of its own.
Arrive(r) ==
  LET others == {q \in Requests \ {r} : Active(q)} IN
  /\ pc[r] = "new"
  /\ Cardinality(others) < MaxInFlight
  /\ Continue(r, FirstCall(r))
  /\ overlapped' = [q \in Requests |->
       overlapped[q] \/ q \in others \/ (q = r /\ others # {})]
  /\ UNCHANGED <<need, cancelled, conn, wire, clobbered, session, durable,
                 faults>>

\* Validation, or a lot id that is no UUID, answers before the first call.
Reject(r) ==
  /\ pc[r] = "new"
  /\ Answer(r, "error")
  /\ UNCHANGED <<ClientVars, conn, wire, clobbered, session, durable>>

\* The client of a running request gives up, or its deadline passes.
Cancel(r) ==
  /\ r \in Cancellable /\ Active(r) /\ ~cancelled[r]
  /\ cancelled' = [cancelled EXCEPT ![r] = TRUE]
  /\ UNCHANGED <<pc, result, need, overlapped, conn, wire, clobbered, session,
                 durable, faults>>

-----------------------------------------------------------------------------
(* Calls on the connection. *)

\* The lock is free and the context alive: the command is sent.  pgconn.lock reads
\* the status and then writes it; that two handlers read it before either writes
\* is left out.
Send(r) ==
  /\ pc[r] \in OnConn
  /\ conn = "idle"
  /\ ~cancelled[r]
  /\ conn' = "busy"
  /\ wire' = r
  /\ clobbered' = FALSE
  /\ UNCHANGED <<ClientVars, pc, result, session, durable>>

\* Mutant: a refused call is tried again for as long as its context lives.
RefusedRetried(r) ==
  /\ pc[r] \in OnConn
  /\ wire # r
  /\ conn # "idle" \/ cancelled[r]
  /\ IF cancelled[r] THEN Fail(r) ELSE UNCHANGED <<pc, result>>
  /\ \/ UNCHANGED clobbered
     \/ pc[r] \in Extended /\ wire # None /\ clobbered' = TRUE
  /\ UNCHANGED <<ClientVars, conn, wire, session, durable>>

\* A call that fails before it is sent: busy, closed or a context already done.
\* BeginTx and Rollback close the connection then, Commit does when the last
\* status it read is not idle; an extended query has replaced the result reader
\* of the command on the wire before it finds the lock taken.
Refused(r) ==
  /\ pc[r] \in OnConn
  /\ wire # r
  /\ conn # "idle" \/ cancelled[r]
  /\ Fail(r)
  /\ IF \/ pc[r] \in {"begin", "rollback"}
        \/ pc[r] = "commit" /\ session.tx # "I"
     THEN CloseConn
     ELSE /\ \/ UNCHANGED clobbered
             \/ pc[r] \in Extended /\ wire # None /\ clobbered' = TRUE
          /\ UNCHANGED <<conn, wire, session, durable>>
  /\ UNCHANGED ClientVars

\* The context ends while the answer is awaited: the driver gives the
\* connection up.
Interrupted(r) ==
  /\ wire = r
  /\ cancelled[r]
  /\ CloseConn
  /\ Fail(r)
  /\ UNCHANGED ClientVars

\* BEGIN inside a transaction only warns; in a failed one it is refused and
\* BeginTx closes the connection.
BeginReply(r) ==
  /\ wire = r /\ pc[r] = "begin"
  /\ IF session.tx = "E"
     THEN Fail(r) /\ CloseConn
     ELSE /\ Continue(r, After("begin", need[r]))
          /\ session' = [session EXCEPT !.tx = "T"]
          /\ Release
          /\ UNCHANGED durable
  /\ UNCHANGED ClientVars

\* A statement that is accepted joins the open transaction, whoever began it;
\* without one it is committed at once.
Accept(r) ==
  /\ session.tx # "E"
  /\ IF session.tx = "T"
     THEN /\ session' = [session EXCEPT !.writes = @ \cup {<<r, pc[r]>>}]
          /\ UNCHANGED durable
     ELSE /\ durable' = durable \cup {<<r, pc[r]>>}
          /\ UNCHANGED session

\* A refused statement (a constraint, a failed transaction) writes nothing and
\* fails the open transaction for every handler in it.
Decline(r) ==
  /\ session' = [session EXCEPT !.tx = IF @ = "I" THEN "I" ELSE "E"]
  /\ UNCHANGED durable

\* The files that are not stored yet decide what the handler inserts next.
Remaining(r) == IF pc[r] = "identical"
                THEN {need[r] \cup n : n \in SUBSET {"insert_single", "insert_multi"}}
                ELSE {need[r]}

\* Where a handler may go after its statement: presigning the urls of the rows
\* may still fail, and the urls of rows to be resumed need ListParts.
Onward(r, needed) ==
  CASE pc[r] = "insert_single" -> {After("insert_single", needed), "rollback"}
    [] pc[r] = "insert_multi"  -> {"commit", "rollback", "list_parts"}
    [] OTHER -> {After(pc[r], needed)}

WriteReply(r) ==
  /\ wire = r /\ pc[r] \in Writing /\ ~clobbered
  /\ \/ /\ Accept(r)
        /\ \E needed \in Remaining(r) :
             /\ need' = [need EXCEPT ![r] = needed]
             /\ IF pc[r] = "insert_lot" THEN Answer(r, "ok")
                ELSE \E call \in Onward(r, needed) : Continue(r, call)
     \/ Decline(r) /\ Fail(r) /\ UNCHANGED need
  /\ Release
  /\ UNCHANGED <<cancelled, overlapped, faults>>

\* GetMultiPartUploadItem: no such attempt, or a failed transaction, is an error.
ReadReply(r) ==
  /\ wire = r /\ pc[r] = "read_item" /\ ~clobbered
  /\ \/ session.tx # "E" /\ Continue(r, "complete_s3")
     \/ Fail(r)
  /\ Release
  /\ UNCHANGED <<ClientVars, session, durable>>

\* The answer of an extended query whose reader was overwritten is lost: the
\* handler sees "conn busy" and never releases the lock.
ReplyLost(r) ==
  /\ wire = r /\ pc[r] \in Extended /\ clobbered
  /\ \/ pc[r] \in Writing /\ Accept(r)
     \/ pc[r] \in Writing /\ Decline(r)
     \/ pc[r] = "read_item" /\ UNCHANGED <<session, durable>>
  /\ Fail(r)
  /\ wire' = None
  /\ clobbered' = FALSE
  /\ UNCHANGED <<ClientVars, conn>>

\* COMMIT ends whatever transaction is open. In a failed one the server rolls
\* back and says so in the command tag, which an overwritten reader loses; with
\* none open it succeeds. Converting the response can fail after it.
CommitReply(r) ==
  /\ wire = r /\ pc[r] = "commit"
  /\ durable' = IF session.tx = "T" THEN durable \cup session.writes ELSE durable
  /\ session' = NoTx
  /\ \E res \in {"ok", "error"} :
       /\ session.tx = "E" /\ ~clobbered => res = "error"
       /\ Answer(r, res)
  /\ Release
  /\ UNCHANGED ClientVars

\* ROLLBACK ends whatever transaction is open.
RollbackReply(r) ==
  /\ wire = r /\ pc[r] = "rollback"
  /\ session' = NoTx
  /\ Answer(r, "error")
  /\ Release
  /\ UNCHANGED <<ClientVars, durable>>

-----------------------------------------------------------------------------
(* Calls to S3 leave the connection alone.  A done context makes them fail; *)
(* completing an upload answers success all the same (MultipartUpload).     *)

S3Reply(r) ==
  /\ pc[r] \in OnS3
  /\ \/ pc[r] = "complete_s3" /\ Answer(r, "ok")
     \/ ~cancelled[r] /\ pc[r] # "complete_s3" /\ Continue(r, After(pc[r], need[r]))
     \/ Fail(r)
  /\ UNCHANGED <<ClientVars, conn, wire, clobbered, session, durable>>

-----------------------------------------------------------------------------
(* Faults *)

\* The server or the network ends the connection.
LoseConn ==
  /\ faults < MaxFaults /\ conn # "closed"
  /\ faults' = faults + 1
  /\ CloseConn
  /\ UNCHANGED <<pc, result, need, cancelled, overlapped>>

\* The process ends with its handlers, and a new one connects.
Restart ==
  /\ faults < MaxFaults
  /\ faults' = faults + 1
  /\ conn' = "idle" /\ EndSession
  /\ pc' = [r \in Requests |-> IF Active(r) THEN "done" ELSE pc[r]]
  /\ UNCHANGED <<result, need, cancelled, overlapped>>

Handle(r) == \/ Send(r) \/ Refused(r) \/ Interrupted(r)
             \/ BeginReply(r) \/ WriteReply(r) \/ ReadReply(r) \/ ReplyLost(r)
             \/ CommitReply(r) \/ RollbackReply(r) \/ S3Reply(r)

Next == \/ \E r \in Requests : Arrive(r) \/ Reject(r) \/ Cancel(r) \/ Handle(r)
        \/ LoseConn \/ Restart

Spec == Init /\ [][Next]_vars

\* The runtime schedules every goroutine; the database and S3 answer, or the
\* call on them ends in an error.
Fairness == \A r \in Requests : WF_vars(Handle(r))

FairSpec == Spec /\ Fairness

-----------------------------------------------------------------------------
(* Properties *)

Calls == OnConn \cup OnS3 \cup {"new", "done"}

\* Every variable has its type; a command on the wire belongs to a handler that
\* waits in a call on the connection, and holds the lock.
TypeOK ==
  /\ pc \in [Requests -> Calls]
  /\ result \in [Requests -> {"none", "ok", "error"}]
  /\ need \in [Requests -> SUBSET Writing]
  /\ cancelled \in [Requests -> BOOLEAN]
  /\ overlapped \in [Requests -> BOOLEAN]
  /\ conn \in {"idle", "busy", "closed"}
  /\ wire \in Requests \cup {None}
  /\ wire # None => conn = "busy" /\ pc[wire] \in OnConn
  /\ clobbered \in BOOLEAN
  /\ session \in [tx : {"I", "T", "E"}, writes : SUBSET (Requests \X Writing)]
  /\ durable \in SUBSET (Requests \X Writing)
  /\ faults \in 0..MaxFaults

\* An open transaction always has a handler that still is going to end it: no
\* interleaving of handlers, refused calls and cancellations leaves the shared
\* connection inside a transaction nobody holds, which would swallow every lot
\* acknowledged after it (initiateUpload's deferred Rollback, image_upload.go).
NoLeakedTx == session.tx # "I" => \E r \in Requests : pc[r] \in InTx

\* A request that ran alone and was answered with success has every write it
\* made durable, whatever other requests did to the connection before it: the
\* "Lot Created" of CreateLot and "Presigned url created" are then true.
SoloAckDurable ==
  \A r \in Requests : result[r] = "ok" /\ ~overlapped[r] => Owed(r) \subseteq durable

\* The statements of a GeneratePresignedUrl that runs alone reach the database
\* all together or not at all, at any moment another session may look, with
\* cancellations, connection losses and restarts at every point.
SoloAllOrNothing ==
  \A r \in Requests : ~overlapped[r] => Owed(r) \cap durable \in {{}, Owed(r)}

\* The service loses its only connection, closed or locked for ever, to nothing
\* but a fault, a client that went away or requests that overlapped: failing
\* statements and S3 calls alone never cost it the connection.
ConnOutlivesErrors ==
  conn = "closed" \/ (conn = "busy" /\ wire = None) =>
    faults > 0 \/ \E r \in Requests : cancelled[r] \/ overlapped[r]

\* Every request that reaches its handler is answered or dies with the process:
\* the lock of pgconn refuses instead of blocking, so not even a connection
\* whose lock is never released makes a handler wait for ever.
EveryRequestAnswered == \A r \in Requests : Active(r) ~> ~Active(r)

\* What "Lot Created" (server.go) says: the lot of an acknowledged CreateLot is
\* stored, or at least still going to be.
AckedLotKept ==
  \A r \in Requests : Kind[r] = "lot" /\ result[r] = "ok" =>
    Owed(r) \subseteq durable \cup session.writes

-----------------------------------------------------------------------------
(* Implementation *)

\* How much of the effect of r is in the database.
Effect(r) == CASE Owed(r) \cap durable = {}   -> "none"
               [] Owed(r) \cap durable # {} /\ Owed(r) \subseteq durable -> "all"
               [] OTHER -> "part"

\* How far r is.
Phase(r) == CASE pc[r] = "new"  -> "new"
              [] pc[r] = "done" -> "over"
              [] OTHER -> "open"

Promise == INSTANCE AtomicRequests
  WITH Writers <- {r \in Requests : Kind[r] # "complete"},
       phase   <- [r \in Requests |-> Phase(r)],
       effect  <- [r \in Requests |-> Effect(r)],
       answer  <- result

\* With requests that never overlap the handlers keep that promise: each is one
\* transaction of its own, whatever fails, is cancelled or restarts in between.
KeepsPromise == Promise!Spec
=============================================================================
