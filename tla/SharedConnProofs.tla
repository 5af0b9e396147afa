-------------------------- MODULE SharedConnProofs --------------------------
(* Theorems about SharedConn, for any number of requests and any bounds. *)
EXTENDS SharedConn, TLAPS

USE DEF Simple, Extended, Writing, OnConn, OnS3, InTx

\* The handler of a request starts with a call, and with known statements.
LEMMA FirstType ==
  ASSUME NEW r \in Requests
  PROVE  /\ FirstCall(r) \in {"insert_lot", "begin", "read_item"}
         /\ FirstNeed(r) \in SUBSET Writing
  BY KindAssumption DEF FirstCall, FirstNeed

\* A handler that goes on stays inside its transaction.
LEMMA AfterType ==
  ASSUME NEW call, NEW needed
  PROVE  After(call, needed) \in InTx \ {"rollback"}
  BY DEF After

\* Ending the session leaves a typed state without a transaction.
LEMMA EndSessionType ==
  ASSUME TypeOK, EndSession
  PROVE  /\ wire' = None
         /\ clobbered' \in BOOLEAN
         /\ session' = NoTx
         /\ NoTx \in [tx : {"I", "T", "E"}, writes : SUBSET (Requests \X Writing)]
         /\ durable' \in SUBSET (Requests \X Writing)
  <1>1. Landed \in SUBSET (Requests \X Writing)
    BY DEF TypeOK, Landed
  <1>2. NoTx \in [tx : {"I", "T", "E"}, writes : SUBSET (Requests \X Writing)]
    BY DEF NoTx
  <1>3. QED
    BY <1>1, <1>2 DEF TypeOK, EndSession

\* The handler's own variables after an answer, a failure or the next call.
LEMMA FailType ==
  ASSUME TypeOK, NEW r \in Requests, Fail(r)
  PROVE  /\ pc' \in [Requests -> Calls]
         /\ result' \in [Requests -> {"none", "ok", "error"}]
         /\ \A q \in Requests \ {r} : pc'[q] = pc[q]
  BY DEF TypeOK, Fail, Answer, Continue, AfterFailure, Calls

LEMMA TypeInit == Init => TypeOK
  <1> SUFFICES ASSUME Init PROVE TypeOK
    OBVIOUS
  <1>1. need \in [Requests -> SUBSET Writing]
    BY FirstType DEF Init
  <1>2. session \in [tx : {"I", "T", "E"}, writes : SUBSET (Requests \X Writing)]
    BY DEF Init, NoTx
  <1>3. faults \in 0..MaxFaults
    BY BoundsAssumption DEF Init
  <1>4. pc \in [Requests -> Calls] /\ result \in [Requests -> {"none", "ok", "error"}]
    BY DEF Init, Calls
  <1>5. QED
    BY <1>1, <1>2, <1>3, <1>4 DEF Init, TypeOK

LEMMA TypeStep == TypeOK /\ [Next]_vars => TypeOK'
  <1> SUFFICES ASSUME TypeOK, [Next]_vars PROVE TypeOK'
    OBVIOUS
  <1> USE DEF Calls
  <1>1. ASSUME NEW r \in Requests, Arrive(r) PROVE TypeOK'
    <2>1. pc' \in [Requests -> Calls] /\ \A q \in Requests \ {r} : pc'[q] = pc[q]
      BY <1>1, FirstType DEF TypeOK, Arrive, Continue
    <2>2. wire # None => wire # r
      BY <1>1, NoneAssumption DEF TypeOK, Arrive
    <2>3. overlapped' \in [Requests -> BOOLEAN]
      BY <1>1 DEF TypeOK, Arrive
    <2>4. QED
      BY <1>1, <2>1, <2>2, <2>3 DEF TypeOK, Arrive, Continue
  <1>2. ASSUME NEW r \in Requests, Reject(r) PROVE TypeOK'
    BY <1>2 DEF TypeOK, Reject, Answer, ClientVars
  <1>3. ASSUME NEW r \in Requests, Cancel(r) PROVE TypeOK'
    BY <1>3 DEF TypeOK, Cancel
  <1>4. ASSUME NEW r \in Requests, Send(r) PROVE TypeOK'
    BY <1>4 DEF TypeOK, Send, ClientVars
  <1>5. ASSUME NEW r \in Requests, Refused(r) PROVE TypeOK'
    <2>1. CASE CloseConn
      BY <1>5, <2>1, FailType, EndSessionType
         DEF TypeOK, Refused, CloseConn, ClientVars
    <2>2. CASE ~CloseConn
      <3>1. /\ pc' \in [Requests -> Calls]
            /\ result' \in [Requests -> {"none", "ok", "error"}]
            /\ \A q \in Requests \ {r} : pc'[q] = pc[q]
        BY <1>5, FailType DEF Refused
      <3>2. UNCHANGED <<conn, wire, session, durable>> /\ UNCHANGED ClientVars
        BY <1>5, <2>2 DEF Refused
      <3>3. clobbered' \in BOOLEAN
        BY <1>5, <2>2 DEF Refused, TypeOK
      <3>4. wire # None => wire # r
        BY <1>5 DEF Refused
      <3>5. wire' # None => conn' = "busy" /\ pc'[wire'] \in OnConn
        BY <3>1, <3>2, <3>4 DEF TypeOK
      <3>6. QED
        BY <3>1, <3>2, <3>3, <3>5 DEF TypeOK, ClientVars
    <2>3. QED
      BY <2>1, <2>2
  <1>6. ASSUME NEW r \in Requests, Interrupted(r) PROVE TypeOK'
    BY <1>6, FailType, EndSessionType
       DEF TypeOK, Interrupted, CloseConn, ClientVars
  <1>7. ASSUME NEW r \in Requests, BeginReply(r) PROVE TypeOK'
    <2>1. CASE session.tx = "E"
      BY <1>7, <2>1, FailType, EndSessionType
         DEF TypeOK, BeginReply, CloseConn, ClientVars
    <2>2. CASE session.tx # "E"
      <3>1. session' \in [tx : {"I", "T", "E"}, writes : SUBSET (Requests \X Writing)]
        BY <1>7, <2>2 DEF TypeOK, BeginReply
      <3>2. pc' \in [Requests -> Calls] /\ result' = result
        BY <1>7, <2>2, AfterType DEF TypeOK, BeginReply, Continue
      <3>3. QED
        BY <1>7, <2>2, <3>1, <3>2 DEF TypeOK, BeginReply, Release, ClientVars
    <2>3. QED
      BY <2>1, <2>2
  <1>8. ASSUME NEW r \in Requests, WriteReply(r) PROVE TypeOK'
    <2>1. /\ pc' \in [Requests -> Calls]
          /\ result' \in [Requests -> {"none", "ok", "error"}]
      <3>1. ASSUME NEW needed, NEW call \in Onward(r, needed), Continue(r, call)
            PROVE  pc' \in [Requests -> Calls] /\ result' = result
        <4>1. call \in Calls
          BY <3>1, AfterType DEF Onward
        <4>2. QED
          BY <3>1, <4>1 DEF TypeOK, Continue
      <3>2. QED
        BY <1>8, <3>1, FailType DEF WriteReply, TypeOK, Answer
    <2>2. need' \in [Requests -> SUBSET Writing]
      <3>1. \A needed \in Remaining(r) : needed \in SUBSET Writing
        <4>1. need[r] \in SUBSET Writing
          BY DEF TypeOK
        <4>2. \A n \in SUBSET {"insert_single", "insert_multi"} :
                need[r] \cup n \in SUBSET Writing
          BY <4>1
        <4>3. QED
          BY <4>1, <4>2 DEF Remaining
      <3>2. CASE UNCHANGED need
        BY <3>2 DEF TypeOK
      <3>3. ASSUME NEW needed \in Remaining(r), need' = [need EXCEPT ![r] = needed]
            PROVE  need' \in [Requests -> SUBSET Writing]
        BY <3>1, <3>3 DEF TypeOK
      <3>4. QED
        BY <1>8, <3>2, <3>3 DEF WriteReply
    <2>3. /\ session' \in [tx : {"I", "T", "E"}, writes : SUBSET (Requests \X Writing)]
          /\ durable' \in SUBSET (Requests \X Writing)
      <3>1. CASE Accept(r)
        BY <1>8, <3>1 DEF TypeOK, Accept, WriteReply
      <3>2. CASE Decline(r)
        BY <1>8, <3>2 DEF TypeOK, Decline
      <3>3. QED
        BY <1>8, <3>1, <3>2 DEF WriteReply
    <2>4. QED
      BY <1>8, <2>1, <2>2, <2>3 DEF TypeOK, WriteReply, Release
  <1>9. ASSUME NEW r \in Requests, ReadReply(r) PROVE TypeOK'
    BY <1>9, FailType DEF TypeOK, ReadReply, Continue, Release, ClientVars
  <1>10. ASSUME NEW r \in Requests, ReplyLost(r) PROVE TypeOK'
    <2>1. /\ session' \in [tx : {"I", "T", "E"}, writes : SUBSET (Requests \X Writing)]
          /\ durable' \in SUBSET (Requests \X Writing)
      <3>1. CASE pc[r] \in Writing /\ Accept(r)
        BY <1>10, <3>1 DEF TypeOK, Accept
      <3>2. CASE Decline(r)
        BY <1>10, <3>2 DEF TypeOK, Decline
      <3>3. CASE UNCHANGED <<session, durable>>
        BY <3>3 DEF TypeOK
      <3>4. QED
        BY <1>10, <3>1, <3>2, <3>3 DEF ReplyLost
    <2>2. QED
      BY <1>10, <2>1, FailType DEF TypeOK, ReplyLost, ClientVars
  <1>11. ASSUME NEW r \in Requests, CommitReply(r) PROVE TypeOK'
    <2>1. session' \in [tx : {"I", "T", "E"}, writes : SUBSET (Requests \X Writing)]
      BY <1>11 DEF CommitReply, NoTx
    <2>2. durable' \in SUBSET (Requests \X Writing)
      BY <1>11 DEF CommitReply, TypeOK
    <2>3. /\ pc' \in [Requests -> Calls]
          /\ result' \in [Requests -> {"none", "ok", "error"}]
      BY <1>11 DEF TypeOK, CommitReply, Answer
    <2>4. Release /\ UNCHANGED ClientVars
      BY <1>11 DEF CommitReply
    <2>5. QED
      BY <2>1, <2>2, <2>3, <2>4, NoneAssumption DEF TypeOK, Release, ClientVars
  <1>12. ASSUME NEW r \in Requests, RollbackReply(r) PROVE TypeOK'
    <2>1. session' \in [tx : {"I", "T", "E"}, writes : SUBSET (Requests \X Writing)]
      BY <1>12 DEF RollbackReply, NoTx
    <2>2. QED
      BY <1>12, <2>1 DEF TypeOK, RollbackReply, Answer, Release, ClientVars
  <1>13. ASSUME NEW r \in Requests, S3Reply(r) PROVE TypeOK'
    <2>1. wire # None => wire # r
      BY <1>13, NoneAssumption DEF TypeOK, S3Reply
    <2>2. /\ pc' \in [Requests -> Calls]
          /\ result' \in [Requests -> {"none", "ok", "error"}]
          /\ \A q \in Requests \ {r} : pc'[q] = pc[q]
      BY <1>13, FailType, AfterType DEF TypeOK, S3Reply, Answer, Continue
    <2>3. QED
      BY <1>13, <2>1, <2>2 DEF TypeOK, S3Reply, ClientVars
  <1>14. CASE LoseConn
    BY <1>14, EndSessionType, BoundsAssumption DEF TypeOK, LoseConn, CloseConn
  <1>15. CASE Restart
    BY <1>15, EndSessionType, BoundsAssumption DEF TypeOK, Restart
  <1>16. CASE UNCHANGED vars
    BY <1>16 DEF TypeOK, vars
  <1>17. QED
    BY <1>1, <1>2, <1>3, <1>4, <1>5, <1>6, <1>7, <1>8, <1>9, <1>10, <1>11,
       <1>12, <1>13, <1>14, <1>15, <1>16 DEF Next, Handle

\* Every variable keeps its type, and the command on the wire belongs to a
\* handler that waits for it: whatever requests, cancellations and faults come.
THEOREM TypeCorrect == Spec => []TypeOK
  <1>1. QED
    BY TypeInit, TypeStep, PTL DEF Spec

-----------------------------------------------------------------------------
(* No transaction is leaked. *)

LEMMA NoLeakInit == Init => NoLeakedTx
  BY DEF Init, NoTx, NoLeakedTx

\* A handler of a transaction whose call fails goes to roll it back, unless the
\* call was the one that ends it; the other handlers stay where they are.
LEMMA FailInTx ==
  ASSUME TypeOK, NEW r \in Requests, Fail(r)
  PROVE  /\ pc[r] \in InTx \ {"commit", "rollback"} => pc'[r] = "rollback"
         /\ pc[r] \notin InTx \ {"commit", "rollback"} => pc'[r] = "done"
         /\ \A q \in Requests \ {r} : pc'[q] = pc[q]
  BY DEF TypeOK, Fail, Answer, Continue, AfterFailure

\* A step after which the handlers in the transaction still are in one.
LEMMA StayInTx ==
  ASSUME NoLeakedTx, session'.tx # "I" => session.tx # "I",
         \A q \in Requests : pc[q] \in InTx => pc'[q] \in InTx
  PROVE  NoLeakedTx'
  BY DEF NoLeakedTx

LEMMA NoLeakStep == TypeOK /\ NoLeakedTx /\ [Next]_vars => NoLeakedTx'
  <1> SUFFICES ASSUME TypeOK, NoLeakedTx, [Next]_vars PROVE NoLeakedTx'
    OBVIOUS
  <1>0. ASSUME session' = NoTx PROVE NoLeakedTx'
    BY <1>0 DEF NoTx, NoLeakedTx
  <1>1. ASSUME NEW r \in Requests, Arrive(r) PROVE NoLeakedTx'
    BY <1>1, StayInTx DEF TypeOK, Arrive, Continue
  <1>2. ASSUME NEW r \in Requests, Reject(r) PROVE NoLeakedTx'
    BY <1>2, StayInTx DEF TypeOK, Reject, Answer
  <1>3. ASSUME NEW r \in Requests, Cancel(r) \/ Send(r) PROVE NoLeakedTx'
    BY <1>3, StayInTx DEF Cancel, Send
  <1>4. ASSUME NEW r \in Requests, Refused(r) PROVE NoLeakedTx'
    <2>1. CASE CloseConn
      BY <1>0, <2>1 DEF CloseConn, EndSession
    <2>2. CASE ~CloseConn
      <3>1. session' = session /\ pc[r] \notin {"begin", "rollback"}
        BY <1>4, <2>2 DEF Refused
      <3>2. pc[r] = "commit" => session.tx = "I"
        BY <1>4, <2>2 DEF Refused
      <3>3. CASE session.tx = "I"
        BY <3>1, <3>3 DEF NoLeakedTx
      <3>4. CASE session.tx # "I"
        BY <1>4, <3>1, <3>2, <3>4, FailInTx, StayInTx DEF Refused
      <3>5. QED
        BY <3>3, <3>4
    <2>3. QED
      BY <2>1, <2>2
  <1>5. ASSUME NEW r \in Requests, Interrupted(r) PROVE NoLeakedTx'
    BY <1>0, <1>5 DEF Interrupted, CloseConn, EndSession
  <1>6. ASSUME NEW r \in Requests, BeginReply(r) PROVE NoLeakedTx'
    <2>1. CASE session.tx = "E"
      BY <1>0, <1>6, <2>1 DEF BeginReply, CloseConn, EndSession
    <2>2. CASE session.tx # "E"
      BY <1>6, <2>2, AfterType DEF BeginReply, Continue, TypeOK, NoLeakedTx
    <2>3. QED
      BY <2>1, <2>2
  <1>7. ASSUME NEW r \in Requests, Decline(r), Fail(r), pc[r] \in Extended
        PROVE  NoLeakedTx'
    <2>1. session'.tx # "I" => session.tx # "I"
      BY <1>7 DEF Decline, TypeOK
    <2>2. QED
      BY <1>7, <2>1, FailInTx, StayInTx
  <1>8. ASSUME Accept(wire) PROVE session'.tx = session.tx
    BY <1>8 DEF Accept, TypeOK
  <1>9. ASSUME NEW r \in Requests, WriteReply(r) PROVE NoLeakedTx'
    <2>1. CASE Decline(r)  /\ Fail(r)
      BY <1>7, <1>9, <2>1 DEF WriteReply
    <2>2. CASE Accept(r) /\ pc[r] = "insert_lot" /\ Answer(r, "ok")
      BY <1>8, <1>9, <2>2, StayInTx DEF WriteReply, Answer, TypeOK
    <2>3. ASSUME Accept(r), NEW needed, NEW call \in Onward(r, needed), Continue(r, call)
          PROVE  NoLeakedTx'
      <3>1. call \in InTx
        BY <2>3, AfterType DEF Onward
      <3>2. session'.tx = session.tx
        BY <1>8, <1>9, <2>3 DEF WriteReply
      <3>3. QED
        BY <2>3, <3>1, <3>2, StayInTx DEF Continue, TypeOK
    <2>4. QED
      BY <1>9, <2>1, <2>2, <2>3 DEF WriteReply
  <1>10. ASSUME NEW r \in Requests, ReadReply(r) PROVE NoLeakedTx'
    BY <1>10, FailInTx, StayInTx DEF ReadReply, Continue, TypeOK
  <1>11. ASSUME NEW r \in Requests, ReplyLost(r) PROVE NoLeakedTx'
    <2>1. CASE Accept(r)
      BY <1>8, <1>11, <2>1, FailInTx, StayInTx DEF ReplyLost
    <2>2. CASE Decline(r)
      BY <1>7, <1>11, <2>2 DEF ReplyLost
    <2>3. CASE UNCHANGED session
      BY <1>11, <2>3, FailInTx, StayInTx DEF ReplyLost
    <2>4. QED
      BY <1>11, <2>1, <2>2, <2>3 DEF ReplyLost
  <1>12. ASSUME NEW r \in Requests, CommitReply(r) \/ RollbackReply(r) PROVE NoLeakedTx'
    BY <1>0, <1>12 DEF CommitReply, RollbackReply
  <1>13. ASSUME NEW r \in Requests, S3Reply(r) PROVE NoLeakedTx'
    BY <1>13, FailInTx, AfterType, StayInTx DEF S3Reply, Answer, Continue, TypeOK
  <1>14. CASE LoseConn \/ Restart
    BY <1>0, <1>14 DEF LoseConn, Restart, CloseConn, EndSession
  <1>15. CASE UNCHANGED vars
    BY <1>15 DEF NoLeakedTx, vars
  <1>16. QED
    BY <1>1, <1>2, <1>3, <1>4, <1>5, <1>6, <1>9, <1>10, <1>11, <1>12, <1>13,
       <1>14, <1>15 DEF Next, Handle

\* No interleaving of requests, cancellations and faults leaves the connection
\* inside a transaction that no handler is going to end.
THEOREM NeverLeaksTx == Spec => []NoLeakedTx
  <1>1. QED
    BY TypeCorrect, NoLeakInit, NoLeakStep, PTL DEF Spec

-----------------------------------------------------------------------------
(* Requests that run alone. *)

\* The statements that a handler about to make this call has still to make.
Pending(call, needed) ==
  CASE call = "identical" -> needed
    [] call \in {"create_uploads", "insert_single"}
         -> needed \cap {"insert_single", "insert_multi"}
    [] call = "insert_multi" -> {"insert_multi"}
    [] OTHER -> {}

\* A handler makes the calls and statements of its RPC, and answers once.
KindInv == \A r \in Requests :
  /\ Kind[r] = "lot" => pc[r] \in {"new", "insert_lot", "done"} /\ need[r] = {"insert_lot"}
  /\ Kind[r] = "complete" =>
       pc[r] \in {"new", "read_item", "complete_s3", "done"} /\ need[r] = {}
  /\ Kind[r] = "presign" =>
       /\ pc[r] \in {"new", "begin", "done"} \cup InTx
       /\ need[r] \in SUBSET {"identical", "insert_single", "insert_multi"}
  /\ result[r] = "ok" => pc[r] = "done"

\* Without a transaction nothing is uncommitted.
SessionInv == /\ session.tx = "I" => session.writes = {}
              /\ conn = "closed" => session = NoTx

\* A request that is running, and has met no other, runs alone.
AloneInv == \A r \in Requests : ~overlapped[r] /\ Active(r) =>
  \A q \in Requests \ {r} : ~Active(q)

\* The uncommitted writes are of requests that run, or have met another.
OverInv == \A r \in Requests : ~overlapped[r] /\ ~Active(r) =>
  \A s \in Writing : <<r, s>> \notin session.writes

\* A request that ran alone has nothing in the database before its end.
FreshInv == \A r \in Requests :
  ~overlapped[r] /\ (pc[r] = "new" \/ (Active(r) /\ conn # "closed")) =>
    \A s \in Writing : <<r, s>> \notin durable

\* Its transaction holds the statements made so far.
ProgressInv == \A r \in Requests :
  ~overlapped[r] /\ conn # "closed" /\ pc[r] \in InTx \ {"rollback"} =>
    /\ session.tx = "T"
    /\ \A s \in need[r] \ Pending(pc[r], need[r]) : <<r, s>> \in session.writes

SoloInv == /\ TypeOK /\ NoLeakedTx /\ KindInv /\ SessionInv
           /\ AloneInv /\ OverInv /\ FreshInv /\ ProgressInv
           /\ SoloAckDurable /\ SoloAllOrNothing

LEMMA SoloInit == Init => SoloInv
  <1> SUFFICES ASSUME Init PROVE SoloInv
    OBVIOUS
  <1>1. TypeOK /\ NoLeakedTx
    BY TypeInit, NoLeakInit
  <1>2. KindInv
    BY KindAssumption DEF Init, KindInv, FirstNeed
  <1>3. SessionInv /\ AloneInv /\ OverInv /\ FreshInv /\ ProgressInv
    BY DEF Init, SessionInv, NoTx, AloneInv, OverInv, FreshInv, ProgressInv, Active
  <1>4. SoloAckDurable /\ SoloAllOrNothing
    BY DEF Init, SoloAckDurable, SoloAllOrNothing
  <1>5. QED
    BY <1>1, <1>2, <1>3, <1>4 DEF SoloInv

\* A step of the handler of r leaves the other handlers and the history alone.
LEMMA HandleFrame ==
  ASSUME TypeOK, NEW r \in Requests, Handle(r)
  PROVE  /\ Active(r) /\ pc[r] \in OnConn \cup OnS3
         /\ overlapped' = overlapped
         /\ \A q \in Requests \ {r} : /\ pc'[q] = pc[q]
                                     /\ result'[q] = result[q]
                                     /\ need'[q] = need[q]
  <1> USE DEF TypeOK, Active, ClientVars, Fail, Answer, Continue
  <1>1. CASE Send(r)
    BY <1>1 DEF Send
  <1>2. CASE Refused(r)
    BY <1>2 DEF Refused
  <1>3. CASE Interrupted(r)
    BY <1>3, NoneAssumption DEF Interrupted
  <1>4. CASE BeginReply(r)
    BY <1>4 DEF BeginReply
  <1>5. CASE WriteReply(r)
    BY <1>5 DEF WriteReply
  <1>6. CASE ReadReply(r)
    BY <1>6 DEF ReadReply
  <1>7. CASE ReplyLost(r)
    BY <1>7 DEF ReplyLost
  <1>8. CASE CommitReply(r)
    BY <1>8 DEF CommitReply
  <1>9. CASE RollbackReply(r)
    BY <1>9 DEF RollbackReply
  <1>10. CASE S3Reply(r)
    BY <1>10 DEF S3Reply
  <1>11. QED
    BY <1>1, <1>2, <1>3, <1>4, <1>5, <1>6, <1>7, <1>8, <1>9, <1>10 DEF Handle

\* The steps of the specification, by who makes them.
LEMMA NextCases ==
  ASSUME [Next]_vars
  PROVE  \/ \E r \in Requests : Handle(r)
         \/ \E r \in Requests : Arrive(r)
         \/ \E r \in Requests : Reject(r)
         \/ \E r \in Requests : Cancel(r)
         \/ LoseConn \/ Restart \/ UNCHANGED vars
  BY DEF Next

LEMMA AloneStep == TypeOK /\ AloneInv /\ [Next]_vars => AloneInv'
  <1> SUFFICES ASSUME TypeOK, AloneInv, [Next]_vars PROVE AloneInv'
    OBVIOUS
  <1>0. ASSUME \A q \in Requests : Active(q)' => Active(q), overlapped' = overlapped
        PROVE  AloneInv'
    BY <1>0 DEF AloneInv
  <1>1. ASSUME NEW r \in Requests, Handle(r) PROVE AloneInv'
    BY <1>0, <1>1, HandleFrame DEF Active
  <1>2. ASSUME NEW r \in Requests, Arrive(r) PROVE AloneInv'
    <2>1. \A q \in Requests \ {r} : Active(q)' <=> Active(q)
      BY <1>2 DEF Arrive, Continue, Active, TypeOK
    <2>2. \A q \in Requests \ {r} : Active(q) => overlapped'[q] /\ overlapped'[r]
      BY <1>2 DEF Arrive, TypeOK
    <2>3. \A q \in Requests : overlapped[q] => overlapped'[q]
      BY <1>2 DEF Arrive, TypeOK
    <2>4. QED
      BY <2>1, <2>2, <2>3 DEF AloneInv
  <1>3. ASSUME NEW r \in Requests, Reject(r) PROVE AloneInv'
    BY <1>0, <1>3 DEF Reject, Answer, Active, TypeOK, ClientVars
  <1>4. ASSUME NEW r \in Requests, Cancel(r) PROVE AloneInv'
    BY <1>0, <1>4 DEF Cancel, Active
  <1>5. CASE LoseConn \/ Restart
    BY <1>0, <1>5 DEF LoseConn, Restart, Active
  <1>6. CASE UNCHANGED vars
    BY <1>0, <1>6 DEF vars, Active
  <1>7. QED
    BY <1>1, <1>2, <1>3, <1>4, <1>5, <1>6, NextCases

LEMMA SessionStep == TypeOK /\ SessionInv /\ [Next]_vars => SessionInv'
  <1> SUFFICES ASSUME TypeOK, SessionInv, [Next]_vars PROVE SessionInv'
    OBVIOUS
  <1>0. ASSUME session' = NoTx PROVE SessionInv'
    BY <1>0 DEF NoTx, SessionInv
  <1>1. ASSUME conn # "closed", conn' # "closed",
               \/ UNCHANGED session
               \/ session.tx # "I" /\ session'.tx = session.tx
               \/ session'.tx \in {"T", "E"}
               \/ session'.tx = session.tx /\ session'.writes = session.writes
        PROVE  SessionInv'
    BY <1>1 DEF SessionInv
  <1>2. ASSUME NEW r, Accept(r) \/ Decline(r), conn # "closed", conn' # "closed"
        PROVE  SessionInv'
    <2>1. CASE Accept(r)
      BY <1>1, <1>2, <2>1 DEF Accept, TypeOK
    <2>2. CASE Decline(r)
      BY <1>1, <1>2, <2>2 DEF Decline, TypeOK
    <2>3. QED
      BY <1>2, <2>1, <2>2
  <1>3. ASSUME NEW r \in Requests, Handle(r) PROVE SessionInv'
    <2>0. r # None
      BY NoneAssumption
    <2>1. CASE CloseConn
      BY <1>0, <2>1 DEF CloseConn, EndSession
    <2>2. CASE Send(r)
      BY <1>1, <2>2 DEF Send
    <2>3. CASE Refused(r) /\ ~CloseConn
      BY <2>3 DEF Refused, SessionInv
    <2>4. CASE BeginReply(r) /\ ~CloseConn
      <3>1. session'.tx = "T" /\ conn' = "idle"
        BY <2>4 DEF BeginReply, Release, TypeOK
      <3>2. QED
        BY <3>1 DEF SessionInv
    <2>5. CASE WriteReply(r)
      BY <1>2, <2>0, <2>5 DEF WriteReply, Release, TypeOK
    <2>6. CASE ReadReply(r)
      BY <1>1, <2>0, <2>6 DEF ReadReply, Release, TypeOK
    <2>7. CASE ReplyLost(r)
      BY <1>1, <1>2, <2>0, <2>7 DEF ReplyLost, TypeOK
    <2>8. CASE CommitReply(r) \/ RollbackReply(r)
      BY <1>0, <2>8 DEF CommitReply, RollbackReply
    <2>9. CASE S3Reply(r)
      BY <2>9 DEF S3Reply, SessionInv
    <2>10. QED
      BY <1>3, <2>1, <2>2, <2>3, <2>4, <2>5, <2>6, <2>7, <2>8, <2>9
         DEF Handle, Interrupted
  <1>4. CASE \E r \in Requests : Arrive(r) \/ Reject(r) \/ Cancel(r)
    BY <1>4 DEF Arrive, Reject, Cancel, SessionInv
  <1>5. CASE LoseConn \/ Restart
    BY <1>0, <1>5 DEF LoseConn, Restart, CloseConn, EndSession
  <1>6. CASE UNCHANGED vars
    BY <1>6 DEF vars, SessionInv
  <1>7. QED
    BY <1>3, <1>4, <1>5, <1>6, NextCases

\* Each request stays within the calls and the statements of its RPC.
LEMMA KindStep == TypeOK /\ KindInv /\ [Next]_vars => KindInv'
  <1> SUFFICES ASSUME TypeOK, KindInv, [Next]_vars PROVE KindInv'
    OBVIOUS
  <1> USE DEF KindInv
  <1>1. ASSUME NEW r \in Requests, Handle(r),
               \/ pc'[r] \in {pc[r], "done"}
               \/ pc[r] \in {"begin"} \cup InTx /\ pc'[r] \in InTx
               \/ pc[r] = "read_item" /\ pc'[r] = "complete_s3",
               \/ need'[r] = need[r]
               \/ pc[r] = "identical" /\
                  need'[r] \in SUBSET {"identical", "insert_single", "insert_multi"},
               pc'[r] = "done" \/ result'[r] = result[r]
        PROVE  KindInv'
    <2>1. \A q \in Requests \ {r} : /\ pc'[q] = pc[q]
                                   /\ result'[q] = result[q]
                                   /\ need'[q] = need[q]
      BY <1>1, HandleFrame
    <2>2. Active(r)
      BY <1>1, HandleFrame
    <2>3. QED
      BY <1>1, <2>1, <2>2, KindAssumption DEF Active
  <1>2. ASSUME NEW r \in Requests, Handle(r), Fail(r), UNCHANGED need
        PROVE  KindInv'
    <2>1. pc'[r] = "done" \/ result'[r] = result[r]
      BY <1>2 DEF Fail, Answer, Continue, TypeOK
    <2>2. QED
      BY <1>1, <1>2, <2>1, FailInTx
  <1>3. ASSUME NEW r \in Requests, NEW res, Handle(r), Answer(r, res), UNCHANGED need
        PROVE  KindInv'
    BY <1>1, <1>3 DEF Answer, TypeOK
  <1>4. ASSUME NEW r \in Requests, NEW call \in InTx, Handle(r), Continue(r, call),
               UNCHANGED need, pc[r] \in {"begin"} \cup InTx
        PROVE  KindInv'
    BY <1>1, <1>4 DEF Continue, TypeOK
  <1>5. ASSUME NEW r \in Requests, WriteReply(r) PROVE KindInv'
    <2>0. Handle(r)
      BY <1>5 DEF Handle
    <2>1. CASE Fail(r) /\ UNCHANGED need
      BY <1>2, <2>0, <2>1
    <2>2. ASSUME NEW needed \in Remaining(r), need' = [need EXCEPT ![r] = needed],
                 pc[r] = "insert_lot", Answer(r, "ok")
          PROVE  KindInv'
      <3>1. need' = need
        BY <2>2 DEF Remaining, TypeOK
      <3>2. QED
        BY <1>3, <2>0, <2>2, <3>1
    <2>3. ASSUME NEW needed \in Remaining(r), need' = [need EXCEPT ![r] = needed],
                 pc[r] # "insert_lot", NEW call \in Onward(r, needed), Continue(r, call)
          PROVE  KindInv'
      <3>1. call \in InTx /\ pc[r] \in InTx
        BY <1>5, <2>3, AfterType DEF Onward, WriteReply
      <3>2. need'[r] = needed /\ pc'[r] = call /\ result'[r] = result[r]
        BY <2>3 DEF TypeOK, Continue
      <3>3. CASE pc[r] # "identical"
        BY <1>1, <2>0, <2>3, <3>1, <3>2, <3>3 DEF Remaining
      <3>4. CASE pc[r] = "identical"
        <4>1. Kind[r] = "presign"
          BY <3>4, KindAssumption
        <4>2. need[r] \in SUBSET {"identical", "insert_single", "insert_multi"}
          BY <4>1
        <4>3. needed \in SUBSET {"identical", "insert_single", "insert_multi"}
          BY <2>3, <3>4, <4>2 DEF Remaining
        <4>4. QED
          BY <1>1, <2>0, <3>1, <3>2, <3>4, <4>3
      <3>5. QED
        BY <3>3, <3>4
    <2>4. QED
      BY <1>5, <2>1, <2>2, <2>3 DEF WriteReply
  <1>6. ASSUME NEW r \in Requests, Handle(r) PROVE KindInv'
    <2>1. CASE Send(r)
      BY <1>1, <1>6, <2>1 DEF Send, ClientVars
    <2>2. CASE Refused(r) \/ Interrupted(r) \/ ReplyLost(r)
      BY <1>2, <1>6, <2>2 DEF Refused, Interrupted, ReplyLost, ClientVars
    <2>3. CASE BeginReply(r)
      BY <1>2, <1>4, <1>6, <2>3, AfterType DEF BeginReply, ClientVars
    <2>4. CASE ReadReply(r)
      <3>1. CASE Continue(r, "complete_s3")
        BY <1>1, <1>6, <2>4, <3>1 DEF ReadReply, Continue, ClientVars, TypeOK
      <3>2. QED
        BY <1>2, <1>6, <2>4, <3>1 DEF ReadReply, ClientVars
    <2>5. CASE CommitReply(r) \/ RollbackReply(r)
      BY <1>3, <1>6, <2>5 DEF CommitReply, RollbackReply, ClientVars
    <2>6. CASE S3Reply(r)
      <3>1. UNCHANGED need
        BY <2>6 DEF S3Reply, ClientVars
      <3>2. CASE pc[r] # "complete_s3" /\ Continue(r, After(pc[r], need[r]))
        BY <1>4, <1>6, <2>6, <3>1, <3>2, AfterType DEF S3Reply
      <3>3. QED
        BY <1>2, <1>3, <1>6, <2>6, <3>1, <3>2 DEF S3Reply
    <2>7. QED
      BY <1>5, <1>6, <2>1, <2>2, <2>3, <2>4, <2>5, <2>6 DEF Handle
  <1>7. ASSUME NEW r \in Requests, Arrive(r) PROVE KindInv'
    <2>1. /\ pc' = [pc EXCEPT ![r] = FirstCall(r)]
          /\ UNCHANGED <<result, need>>
          /\ pc[r] = "new"
      BY <1>7 DEF Arrive, Continue
    <2>2. result[r] # "ok"
      BY <2>1
    <2>3. pc'[r] = FirstCall(r) /\ \A q \in Requests \ {r} : pc'[q] = pc[q]
      BY <2>1 DEF TypeOK
    <2>4. /\ Kind[r] = "lot" => FirstCall(r) = "insert_lot"
          /\ Kind[r] = "complete" => FirstCall(r) = "read_item"
          /\ Kind[r] = "presign" => FirstCall(r) = "begin"
      BY DEF FirstCall
    <2>5. QED
      BY <2>1, <2>2, <2>3, <2>4
  <1>8. ASSUME NEW r \in Requests, Reject(r) PROVE KindInv'
    BY <1>8 DEF Reject, Answer, ClientVars, TypeOK
  <1>9. ASSUME NEW r \in Requests, Cancel(r) PROVE KindInv'
    BY <1>9 DEF Cancel
  <1>10. CASE LoseConn \/ Restart
    BY <1>10 DEF LoseConn, Restart
  <1>11. CASE UNCHANGED vars
    BY <1>11 DEF vars
  <1>12. QED
    BY <1>6, <1>7, <1>8, <1>9, <1>10, <1>11, NextCases

\* Outside its transaction a request that runs alone finds none open.
LEMMA AloneOutside ==
  ASSUME SoloInv, NEW r \in Requests, Active(r), ~overlapped[r], pc[r] \notin InTx
  PROVE  session.tx = "I" /\ session.writes = {}
  BY DEF SoloInv, AloneInv, NoLeakedTx, SessionInv, Active

\* Where everybody is while a handler moves: who has met no other is at rest.
LEMMA OthersAtRest ==
  ASSUME SoloInv, NEW r \in Requests, Active(r),
         NEW q \in Requests \ {r}, ~overlapped[q]
  PROVE  ~Active(q)
  BY DEF SoloInv, AloneInv

\* What may land when a connection ends: nothing of a request at rest, and of
\* one that runs alone all it owes or nothing.
LEMMA LandedSolo ==
  ASSUME SoloInv, NEW q \in Requests, ~overlapped[q]
  PROVE  \/ \A s \in Writing : <<q, s>> \notin Landed
         \/ Active(q) /\ \A s \in need[q] : <<q, s>> \in Landed
  <1> USE DEF SoloInv
  <1>1. CASE Landed = {}
    BY <1>1
  <1>2. CASE wire # None
    <2>1. wire \in Requests /\ Active(wire) /\ conn = "busy"
      BY <1>2 DEF TypeOK, Active
    <2>2. CASE wire # q
      <3>1. ~Active(q)
        BY <2>1, <2>2, OthersAtRest
      <3>2. QED
        BY <2>1, <2>2, <3>1 DEF Landed, OverInv
    <2>3. CASE wire = q /\ pc[q] = "commit" /\ session.tx = "T"
      <3>1. Pending(pc[q], need[q]) = {}
        BY <2>3 DEF Pending
      <3>2. \A s \in need[q] : <<q, s>> \in session.writes
        BY <2>1, <2>3, <3>1 DEF ProgressInv
      <3>3. QED
        BY <1>2, <2>1, <2>3, <3>2 DEF Landed
    <2>4. CASE wire = q /\ pc[q] = "insert_lot"
      <3>1. need[q] = {"insert_lot"}
        BY <2>4, KindAssumption DEF KindInv
      <3>2. QED
        BY <1>2, <2>1, <2>4, <3>1 DEF Landed
    <2>5. CASE wire = q /\ pc[q] \in InTx \ {"commit", "rollback"}
      BY <2>1, <2>5 DEF Landed, ProgressInv
    <2>6. QED
      BY <2>2, <2>3, <2>4, <2>5 DEF Landed
  <1>3. QED
    BY <1>1, <1>2 DEF Landed

\* A step changes nothing in the database of a request at rest.
LEMMA QuietKept ==
  ASSUME SoloInv, [Next]_vars, NEW q \in Requests, ~overlapped[q], ~Active(q)
  PROVE  \A s \in Writing : <<q, s>> \in durable' <=> <<q, s>> \in durable
  <1> USE DEF SoloInv
  <1>1. CASE EndSession
    <2>1. \A s \in Writing : <<q, s>> \notin Landed
      BY LandedSolo
    <2>2. QED
      BY <1>1, <2>1 DEF EndSession
  <1>2. CASE durable' = durable
    BY <1>2
  <1>3. ASSUME NEW r \in Requests, Handle(r), Accept(r) \/ CommitReply(r)
        PROVE  \A s \in Writing : <<q, s>> \in durable' <=> <<q, s>> \in durable
    <2>1. r # q
      BY <1>3, HandleFrame
    <2>2. \A s \in Writing : <<q, s>> \notin session.writes
      BY DEF OverInv
    <2>3. QED
      BY <1>3, <2>1, <2>2 DEF Accept, CommitReply
  <1>4. ASSUME NEW r \in Requests, Handle(r)
        PROVE  EndSession \/ durable' = durable \/ Accept(r) \/ CommitReply(r)
    BY <1>4 DEF Handle, Send, Refused, Interrupted, BeginReply, WriteReply,
                ReadReply, ReplyLost, RollbackReply, S3Reply, CloseConn, Decline
  <1>5. CASE \E r \in Requests : Arrive(r) \/ Reject(r) \/ Cancel(r)
    BY <1>2, <1>5 DEF Arrive, Reject, Cancel
  <1>6. CASE LoseConn \/ Restart
    BY <1>1, <1>6 DEF LoseConn, Restart, CloseConn
  <1>7. CASE UNCHANGED vars
    BY <1>2, <1>7 DEF vars
  <1>8. QED
    BY <1>1, <1>2, <1>3, <1>4, <1>5, <1>6, <1>7, NextCases

LEMMA OverStep == SoloInv /\ [Next]_vars => OverInv'
  <1> SUFFICES ASSUME SoloInv, [Next]_vars PROVE OverInv'
    OBVIOUS
  <1>0. TypeOK /\ OverInv
    BY DEF SoloInv
  <1>1. ASSUME session'.writes = {} PROVE OverInv'
    BY <1>1 DEF OverInv
  <1>2. ASSUME session'.writes = session.writes,
               \A q \in Requests : ~overlapped'[q] => ~overlapped[q],
               \A q \in Requests : Active(q) => Active(q)'
        PROVE  OverInv'
    BY <1>0, <1>2 DEF OverInv
  <1>3. ASSUME NEW r \in Requests, Handle(r), Active(r)',
               \A q \in Requests \ {r} : \A s \in Writing :
                 <<q, s>> \in session'.writes => <<q, s>> \in session.writes
        PROVE  OverInv'
    <2>1. \A q \in Requests \ {r} : Active(q)' <=> Active(q)
      BY <1>0, <1>3, HandleFrame DEF Active
    <2>2. overlapped' = overlapped
      BY <1>0, <1>3, HandleFrame
    <2>3. QED
      BY <1>0, <1>3, <2>1, <2>2 DEF OverInv
  <1>4. ASSUME NEW r \in Requests, Handle(r), ~Active(r)',
               session.tx = "I" => session'.writes = session.writes,
               \A q \in Requests \ {r} : \A s \in Writing :
                 <<q, s>> \in session'.writes => <<q, s>> \in session.writes,
               pc[r] \notin InTx
        PROVE  OverInv'
    <2>1. \A q \in Requests \ {r} : Active(q)' <=> Active(q)
      BY <1>0, <1>4, HandleFrame DEF Active
    <2>2. overlapped' = overlapped /\ Active(r)
      BY <1>0, <1>4, HandleFrame
    <2>3. ~overlapped[r] => session.writes = {} /\ session.tx = "I"
      BY <1>4, <2>2, AloneOutside
    <2>4. QED
      BY <1>0, <1>4, <2>1, <2>2, <2>3 DEF OverInv
  <1>5. ASSUME NEW r, Accept(r) \/ Decline(r)
        PROVE  /\ session.tx = "I" => session'.writes = session.writes
               /\ \A q \in Requests \ {r} : \A s \in Writing :
                    <<q, s>> \in session'.writes => <<q, s>> \in session.writes
    <2>1. CASE Accept(r)
      BY <1>0, <2>1 DEF Accept, TypeOK
    <2>2. CASE Decline(r)
      BY <1>0, <2>2 DEF Decline, TypeOK
    <2>3. QED
      BY <1>5, <2>1, <2>2
  <1>6. ASSUME NEW r \in Requests, Handle(r),
               pc[r] \in InTx => Active(r)',
               \/ Accept(r) \/ Decline(r)
               \/ session'.writes = session.writes
        PROVE  OverInv'
    BY <1>3, <1>4, <1>5, <1>6
  <1>7. ASSUME NEW r \in Requests, Handle(r) PROVE OverInv'
    <2>1. CASE EndSession \/ CommitReply(r) \/ RollbackReply(r)
      BY <1>1, <2>1 DEF EndSession, CommitReply, RollbackReply, NoTx
    <2>2. CASE Send(r)
      BY <1>2, <2>2 DEF Send, ClientVars, Active
    <2>3. CASE Refused(r) /\ ~EndSession
      <3>1. CASE pc[r] = "commit"
        BY <1>1, <2>3, <3>1 DEF Refused, CloseConn, SoloInv, SessionInv
      <3>2. CASE pc[r] # "commit"
        <4>1. pc[r] \in InTx => Active(r)'
          BY <1>0, <2>3, <3>2, FailInTx DEF Refused, CloseConn, Active
        <4>2. session' = session
          BY <2>3 DEF Refused, CloseConn
        <4>3. QED
          BY <1>6, <1>7, <4>1, <4>2
      <3>3. QED
        BY <3>1, <3>2
    <2>4. CASE BeginReply(r) /\ ~EndSession
      <3>1. session'.writes = session.writes
        BY <1>0, <2>4 DEF BeginReply, CloseConn, TypeOK
      <3>2. pc[r] \notin InTx
        BY <2>4 DEF BeginReply
      <3>3. QED
        BY <1>6, <1>7, <3>1, <3>2
    <2>5. CASE WriteReply(r)
      <3>1. pc[r] \in InTx => Active(r)'
        <4>1. CASE Fail(r)
          BY <1>0, <2>5, <4>1, FailInTx DEF WriteReply, Active
        <4>2. ASSUME NEW needed, NEW call \in Onward(r, needed), Continue(r, call)
              PROVE  Active(r)'
          <5>1. call \in InTx
            BY <4>2, AfterType DEF Onward
          <5>2. QED
            BY <1>0, <4>2, <5>1 DEF Continue, Active, TypeOK
        <4>3. QED
          BY <2>5, <4>1, <4>2 DEF WriteReply
      <3>2. QED
        BY <1>6, <1>7, <2>5, <3>1 DEF WriteReply
    <2>6. CASE ReadReply(r)
      BY <1>6, <1>7, <2>6 DEF ReadReply
    <2>7. CASE ReplyLost(r)
      <3>1. pc[r] \in InTx => Active(r)'
        BY <1>0, <2>7, FailInTx DEF ReplyLost, Active
      <3>2. QED
        BY <1>6, <1>7, <2>7, <3>1 DEF ReplyLost
    <2>8. CASE S3Reply(r)
      <3>1. pc[r] \in InTx => Active(r)'
        BY <1>0, <2>8, FailInTx, AfterType DEF S3Reply, Continue, Active, TypeOK
      <3>2. QED
        BY <1>6, <1>7, <2>8, <3>1 DEF S3Reply
    <2>9. QED
      BY <1>7, <2>1, <2>2, <2>3, <2>4, <2>5, <2>6, <2>7, <2>8
         DEF Handle, Interrupted, CloseConn
  <1>8. ASSUME NEW r \in Requests, Arrive(r) PROVE OverInv'
    <2>1. \A q \in Requests : Active(q) => Active(q)'
      BY <1>0, <1>8 DEF Arrive, Continue, Active, TypeOK
    <2>2. QED
      BY <1>0, <1>2, <1>8, <2>1 DEF Arrive, TypeOK
  <1>9. ASSUME NEW r \in Requests, Reject(r) PROVE OverInv'
    BY <1>0, <1>2, <1>9 DEF Reject, Answer, ClientVars, Active, TypeOK
  <1>10. ASSUME NEW r \in Requests, Cancel(r) PROVE OverInv'
    BY <1>2, <1>10 DEF Cancel, Active
  <1>11. CASE LoseConn \/ Restart
    BY <1>1, <1>11 DEF LoseConn, Restart, CloseConn, EndSession, NoTx
  <1>12. CASE UNCHANGED vars
    BY <1>2, <1>12 DEF vars, Active
  <1>13. QED
    BY <1>7, <1>8, <1>9, <1>10, <1>11, <1>12, NextCases

\* A handler that runs alone inside its transaction writes into that one.
LEMMA AloneAccept ==
  ASSUME SoloInv, NEW r \in Requests, ~overlapped[r], wire = r, Accept(r),
         pc[r] \in Writing
  PROVE  /\ pc[r] = "insert_lot" =>
              /\ need[r] = {"insert_lot"}
              /\ durable' = durable \cup {<<r, "insert_lot">>}
         /\ pc[r] # "insert_lot" =>
              /\ durable' = durable
              /\ session'.tx = "T"
              /\ session'.writes = session.writes \cup {<<r, pc[r]>>}
  <1> USE DEF SoloInv
  <1>1. conn = "busy" /\ Active(r)
    BY NoneAssumption DEF TypeOK, Active
  <1>2. CASE pc[r] = "insert_lot"
    <2>1. session.tx = "I"
      BY <1>1, <1>2, AloneOutside
    <2>2. QED
      BY <1>2, <2>1, KindAssumption DEF Accept, KindInv
  <1>3. CASE pc[r] # "insert_lot"
    BY <1>1, <1>3 DEF Accept, ProgressInv, TypeOK
  <1>4. QED
    BY <1>2, <1>3

LEMMA FreshStep == SoloInv /\ [Next]_vars => FreshInv'
  <1> SUFFICES ASSUME SoloInv, [Next]_vars PROVE FreshInv'
    OBVIOUS
  <1>0. TypeOK /\ FreshInv
    BY DEF SoloInv
  <1>1. ASSUME NEW q \in Requests, ~overlapped[q], ~Active(q), pc'[q] = "new" => pc[q] = "new",
               pc'[q] = "new" \/ pc[q] = "new"
        PROVE  \A s \in Writing : <<q, s>> \notin durable'
    BY <1>0, <1>1, QuietKept DEF FreshInv, Active
  <1>2. ASSUME NEW r \in Requests, Handle(r) PROVE FreshInv'
    <2>1. ASSUME NEW q \in Requests \ {r}, ~overlapped'[q],
                 pc'[q] = "new" \/ Active(q)'
          PROVE  \A s \in Writing : <<q, s>> \notin durable'
      <3>1. pc'[q] = pc[q] /\ overlapped' = overlapped /\ Active(r)
        BY <1>0, <1>2, HandleFrame
      <3>2. ~Active(q)
        BY <2>1, <3>1, OthersAtRest
      <3>3. QED
        BY <1>1, <2>1, <3>1, <3>2 DEF Active
    <2>2. ASSUME ~overlapped'[r], Active(r)', conn' # "closed"
          PROVE  \A s \in Writing : <<r, s>> \notin durable'
      <3>1. overlapped' = overlapped /\ Active(r)
        BY <1>0, <1>2, HandleFrame
      <3>2. conn # "closed" => \A s \in Writing : <<r, s>> \notin durable
        BY <2>2, <3>1, <1>0 DEF FreshInv
      <3>3. CASE WriteReply(r) \/ ReplyLost(r)
        <4>1. wire = r /\ (durable' = durable \/ (Accept(r) /\ pc[r] \in Writing))
          BY <3>3 DEF WriteReply, ReplyLost, Decline
        <4>2. conn # "closed"
          BY <1>0, <4>1, NoneAssumption DEF TypeOK
        <4>3. pc[r] # "insert_lot"
          BY <1>0, <2>2, <3>3, FailInTx
             DEF WriteReply, ReplyLost, Answer, Active, TypeOK
        <4>4. QED
          BY <2>2, <3>1, <3>2, <4>1, <4>2, <4>3, AloneAccept
      <3>4. CASE CommitReply(r)
        BY <1>0, <2>2, <3>4 DEF CommitReply, Answer, Active, TypeOK
      <3>5. CASE ~(WriteReply(r) \/ ReplyLost(r) \/ CommitReply(r))
        <4>1. durable' = durable /\ conn # "closed"
          <5>1. ~CloseConn
            BY <2>2 DEF CloseConn
          <5>2. wire = r => conn # "closed"
            BY <1>0, NoneAssumption DEF TypeOK
          <5>3. QED
            BY <1>2, <2>2, <3>5, <5>1, <5>2
               DEF Handle, Send, Refused, Interrupted, BeginReply, ReadReply,
                   RollbackReply, S3Reply
        <4>2. QED
          BY <3>2, <4>1
      <3>6. QED
        BY <3>3, <3>4, <3>5
    <2>3. pc'[r] # "new"
      <3>1. CASE WriteReply(r)
        BY <1>0, <3>1, FailInTx, AfterType
           DEF WriteReply, Answer, Continue, Onward, TypeOK
      <3>2. CASE ~WriteReply(r)
        BY <1>0, <1>2, <3>2, FailInTx, AfterType
           DEF Handle, Send, Refused, Interrupted, BeginReply, ReadReply, ReplyLost,
               CommitReply, RollbackReply, S3Reply, Answer, Continue, TypeOK
      <3>3. QED
        BY <3>1, <3>2
    <2>4. QED
      BY <2>1, <2>2, <2>3 DEF FreshInv
  <1>3. ASSUME durable' = durable, conn' = conn,
               \A q \in Requests : ~overlapped'[q] => ~overlapped[q],
               \A q \in Requests : pc'[q] = "new" => pc[q] = "new",
               \A q \in Requests : Active(q)' => pc[q] = "new" \/ Active(q)
        PROVE  FreshInv'
    BY <1>0, <1>3 DEF FreshInv
  <1>4. ASSUME NEW r \in Requests, Arrive(r) PROVE FreshInv'
    BY <1>0, <1>3, <1>4 DEF Arrive, Continue, Active, TypeOK
  <1>5. ASSUME NEW r \in Requests, Reject(r) PROVE FreshInv'
    BY <1>0, <1>3, <1>5 DEF Reject, Answer, ClientVars, Active, TypeOK
  <1>6. ASSUME NEW r \in Requests, Cancel(r) PROVE FreshInv'
    BY <1>3, <1>6 DEF Cancel, Active
  <1>7. CASE LoseConn
    <2>1. overlapped' = overlapped /\ pc' = pc /\ conn' = "closed"
      BY <1>7 DEF LoseConn, CloseConn
    <2>2. QED
      BY <1>1, <2>1 DEF FreshInv, Active
  <1>8. CASE Restart
    <2>1. /\ overlapped' = overlapped
          /\ \A q \in Requests : ~Active(q)'
          /\ \A q \in Requests : pc'[q] = "new" => pc[q] = "new"
      BY <1>0, <1>8 DEF Restart, Active, TypeOK
    <2>2. QED
      BY <1>1, <2>1 DEF FreshInv, Active
  <1>9. CASE UNCHANGED vars
    BY <1>3, <1>9 DEF vars, Active
  <1>10. QED
    BY <1>2, <1>4, <1>5, <1>6, <1>7, <1>8, <1>9, NextCases

LEMMA ProgressStep == SoloInv /\ [Next]_vars => ProgressInv'
  <1> SUFFICES ASSUME SoloInv, [Next]_vars PROVE ProgressInv'
    OBVIOUS
  <1>0. TypeOK /\ ProgressInv
    BY DEF SoloInv
  <1>1. ASSUME UNCHANGED <<session, need, conn>>,
               \A q \in Requests : ~overlapped'[q] => ~overlapped[q],
               \A q \in Requests : pc'[q] = pc[q] \/ pc'[q] \notin InTx \ {"rollback"}
        PROVE  ProgressInv'
    BY <1>0, <1>1 DEF ProgressInv
  <1>2. ASSUME NEW r \in Requests, Handle(r), ~overlapped[r], conn' # "closed",
               pc'[r] \in InTx \ {"rollback"}
        PROVE  /\ session'.tx = "T"
               /\ \A s \in need'[r] \ Pending(pc'[r], need'[r]) :
                    <<r, s>> \in session'.writes
    <2>0. ~CloseConn /\ Active(r)
      BY <1>0, <1>2, HandleFrame DEF CloseConn
    <2>1. CASE Send(r)
      BY <1>0, <1>2, <2>1 DEF Send, ClientVars, ProgressInv
    <2>2. CASE Fail(r)
      BY <1>0, <1>2, <2>2, FailInTx
    <2>3. CASE BeginReply(r) /\ ~Fail(r)
      <3>1. pc'[r] = "identical" /\ need' = need
        BY <1>0, <2>3 DEF BeginReply, Continue, After, ClientVars, TypeOK
      <3>2. Pending(pc'[r], need'[r]) = need'[r]
        BY <3>1 DEF Pending
      <3>3. session'.tx = "T"
        BY <1>0, <2>3 DEF BeginReply, TypeOK
      <3>4. QED
        BY <3>2, <3>3
    <2>4. CASE WriteReply(r) /\ ~Fail(r)
      <3>1. pc[r] # "insert_lot"
        BY <1>0, <1>2, <2>4 DEF WriteReply, Answer, TypeOK
      <3>2. Accept(r) /\ wire = r /\ conn = "busy" /\ pc[r] \in Writing
        BY <1>0, <2>4, NoneAssumption DEF WriteReply, TypeOK
      <3>12. PICK needed \in Remaining(r) :
              /\ need' = [need EXCEPT ![r] = needed]
              /\ \E call \in Onward(r, needed) : Continue(r, call)
        BY <2>4, <3>1 DEF WriteReply
      <3>3. PICK call \in Onward(r, needed) :
              need' = [need EXCEPT ![r] = needed] /\ Continue(r, call)
        BY <3>12
      <3>4. need'[r] = needed /\ pc'[r] = call
        BY <1>0, <3>3 DEF Continue, TypeOK
      <3>5. /\ session'.tx = "T"
            /\ session'.writes = session.writes \cup {<<r, pc[r]>>}
        BY <1>2, <3>1, <3>2, AloneAccept
      <3>6. \A s \in need[r] \ Pending(pc[r], need[r]) : <<r, s>> \in session.writes
        BY <1>0, <1>2, <3>1, <3>2 DEF ProgressInv
      <3>7. need[r] \in SUBSET {"identical", "insert_single", "insert_multi"}
        BY <3>1, <3>2, KindAssumption DEF SoloInv, KindInv
      <3>8. CASE pc[r] = "identical"
        <4>1. needed \in SUBSET {"identical", "insert_single", "insert_multi"}
          BY <3>3, <3>7, <3>8 DEF Remaining
        <4>2. call = After("identical", needed)
          BY <3>3, <3>8 DEF Onward
        <4>3. needed \ Pending(call, needed) \subseteq {"identical"}
          BY <4>1, <4>2 DEF After, Pending
        <4>4. QED
          BY <3>4, <3>5, <3>8, <4>3
      <3>9. CASE pc[r] = "insert_single"
        <4>1. needed = need[r] /\ call = After("insert_single", needed)
          BY <1>2, <3>3, <3>4, <3>9 DEF Remaining, Onward
        <4>2. needed \ Pending(call, needed) \subseteq
                (need[r] \ Pending(pc[r], need[r])) \cup {"insert_single"}
          BY <3>7, <3>9, <4>1 DEF After, Pending
        <4>3. QED
          BY <3>4, <3>5, <3>6, <3>9, <4>2
      <3>10. CASE pc[r] = "insert_multi"
        <4>1. needed = need[r]
          BY <3>3, <3>10 DEF Remaining
        <4>2. needed \ Pending(call, needed) \subseteq
                (need[r] \ Pending(pc[r], need[r])) \cup {"insert_multi"}
          BY <3>7, <3>10, <4>1 DEF Pending
        <4>3. QED
          BY <3>4, <3>5, <3>6, <3>10, <4>2
      <3>11. QED
        BY <3>1, <3>2, <3>8, <3>9, <3>10
    <2>5. CASE S3Reply(r) /\ ~Fail(r)
      <3>1. /\ pc[r] \in {"create_uploads", "list_parts"}
            /\ pc'[r] = After(pc[r], need[r])
            /\ UNCHANGED <<session, need, conn>>
        BY <1>0, <1>2, <2>5 DEF S3Reply, Answer, Continue, ClientVars, TypeOK
      <3>2. conn # "closed"
        BY <1>2, <3>1
      <3>3. /\ session.tx = "T"
            /\ \A s \in need[r] \ Pending(pc[r], need[r]) : <<r, s>> \in session.writes
        BY <1>0, <1>2, <3>1, <3>2 DEF ProgressInv
      <3>4. need[r] \in SUBSET {"identical", "insert_single", "insert_multi"}
        BY <3>1, KindAssumption DEF SoloInv, KindInv
      <3>5. need[r] \ Pending(pc'[r], need[r]) \subseteq need[r] \ Pending(pc[r], need[r])
        BY <3>1, <3>4 DEF After, Pending
      <3>6. QED
        BY <3>1, <3>3, <3>5
    <2>6. CASE ReadReply(r) /\ ~Fail(r)
      BY <1>0, <1>2, <2>6 DEF ReadReply, Continue, TypeOK
    <2>7. CASE CommitReply(r) \/ RollbackReply(r)
      BY <1>0, <1>2, <2>7 DEF CommitReply, RollbackReply, Answer, TypeOK
    <2>8. QED
      BY <1>2, <2>1, <2>2, <2>3, <2>4, <2>5, <2>6, <2>7
         DEF Handle, Refused, Interrupted, ReplyLost
  <1>3. ASSUME NEW r \in Requests, Handle(r) PROVE ProgressInv'
    <2>1. ASSUME NEW q \in Requests \ {r}, ~overlapped'[q] PROVE pc'[q] \notin InTx
      <3>1. pc'[q] = pc[q] /\ overlapped' = overlapped /\ Active(r)
        BY <1>0, <1>3, HandleFrame
      <3>2. ~Active(q)
        BY <2>1, <3>1, OthersAtRest
      <3>3. QED
        BY <3>1, <3>2 DEF Active
    <2>2. overlapped' = overlapped
      BY <1>0, <1>3, HandleFrame
    <2>3. QED
      BY <1>2, <1>3, <2>1, <2>2 DEF ProgressInv
  <1>4. ASSUME NEW r \in Requests, Arrive(r) PROVE ProgressInv'
    BY <1>0, <1>1, <1>4, FirstType DEF Arrive, Continue, TypeOK
  <1>5. ASSUME NEW r \in Requests, Reject(r) PROVE ProgressInv'
    BY <1>0, <1>1, <1>5 DEF Reject, Answer, ClientVars, TypeOK
  <1>6. ASSUME NEW r \in Requests, Cancel(r) PROVE ProgressInv'
    BY <1>1, <1>6 DEF Cancel
  <1>7. CASE LoseConn
    BY <1>7 DEF LoseConn, CloseConn, ProgressInv
  <1>8. CASE Restart
    BY <1>0, <1>8 DEF Restart, ProgressInv, Active, TypeOK
  <1>9. CASE UNCHANGED vars
    BY <1>1, <1>9 DEF vars
  <1>10. QED
    BY <1>3, <1>4, <1>5, <1>6, <1>7, <1>8, <1>9, NextCases

\* What a request owes, and what of it is in the database, does not change
\* while it is at rest.
LEMMA OwedKept ==
  ASSUME SoloInv, [Next]_vars, NEW q \in Requests, ~overlapped[q], ~Active(q)
  PROVE  Owed(q)' = Owed(q) /\ Owed(q)' \cap durable' = Owed(q) \cap durable
  <1> USE DEF SoloInv
  <1>1. need'[q] = need[q]
    <2>1. ASSUME NEW r \in Requests, Handle(r) PROVE need'[q] = need[q]
      BY <2>1, HandleFrame
    <2>2. CASE \E r \in Requests : Arrive(r) \/ Reject(r) \/ Cancel(r)
      BY <2>2 DEF Arrive, Reject, Cancel, ClientVars
    <2>3. CASE LoseConn \/ Restart \/ UNCHANGED vars
      BY <2>3 DEF LoseConn, Restart, vars
    <2>4. QED
      BY <2>1, <2>2, <2>3, NextCases
  <1>2. Owed(q)' = Owed(q)
    BY <1>1 DEF Owed
  <1>3. Owed(q) \subseteq {<<q, s>> : s \in Writing}
    BY DEF Owed, TypeOK
  <1>4. QED
    BY <1>2, <1>3, QuietKept

\* All or nothing, said statement by statement.
LEMMA OwedCases ==
  ASSUME NEW q \in Requests, NEW S, NEW N \in SUBSET Writing,
         \/ \A s \in N : <<q, s>> \in S
         \/ \A s \in N : <<q, s>> \notin S
  PROVE  {<<q, s>> : s \in N} \cap S \in {{}, {<<q, s>> : s \in N}}
  OBVIOUS

LEMMA AllStep == SoloInv /\ TypeOK' /\ [Next]_vars => SoloAllOrNothing'
  <1> SUFFICES ASSUME SoloInv, TypeOK', [Next]_vars, NEW q \in Requests, ~overlapped'[q]
               PROVE  Owed(q)' \cap durable' \in {{}, Owed(q)'}
    BY DEF SoloAllOrNothing
  <1>0. TypeOK /\ TypeOK'
    BY DEF SoloInv
  <1>1. ~overlapped[q]
    <2>1. ASSUME NEW r \in Requests, Arrive(r) PROVE ~overlapped[q]
      BY <1>0, <2>1 DEF Arrive, TypeOK
    <2>2. ASSUME NEW r \in Requests, Reject(r) \/ Cancel(r) PROVE ~overlapped[q]
      BY <2>2 DEF Reject, Cancel, ClientVars
    <2>3. ASSUME NEW r \in Requests, Handle(r) PROVE ~overlapped[q]
      BY <1>0, <2>3, HandleFrame
    <2>4. CASE LoseConn \/ Restart \/ UNCHANGED vars
      BY <2>4 DEF LoseConn, Restart, vars
    <2>5. QED
      BY <2>1, <2>2, <2>3, <2>4, NextCases
  <1>2. Owed(q) \cap durable \in {{}, Owed(q)}
    BY <1>1 DEF SoloInv, SoloAllOrNothing
  <1>3. CASE ~Active(q)
    BY <1>1, <1>2, <1>3, OwedKept
  <1>4. ASSUME need'[q] = need[q], durable' = durable
        PROVE  Owed(q)' \cap durable' \in {{}, Owed(q)'}
    BY <1>2, <1>4 DEF Owed
  <1>5. ASSUME Active(q), need'[q] = need[q], EndSession
        PROVE  Owed(q)' \cap durable' \in {{}, Owed(q)'}
    <2>1. need[q] \in SUBSET Writing
      BY <1>0 DEF TypeOK
    <2>2. durable' = durable \/ durable' = durable \cup Landed
      BY <1>5 DEF EndSession
    <2>3. CASE \A s \in Writing : <<q, s>> \notin Landed
      <3>1. Owed(q) \cap durable' = Owed(q) \cap durable
        BY <2>1, <2>2, <2>3 DEF Owed
      <3>2. QED
        BY <1>2, <1>5, <3>1 DEF Owed
    <2>4. CASE \A s \in need[q] : <<q, s>> \in Landed
      <3>1. CASE durable' = durable
        BY <1>4, <1>5, <3>1
      <3>2. CASE durable' = durable \cup Landed
        BY <1>5, <2>1, <2>4, <3>2, OwedCases DEF Owed
      <3>3. QED
        BY <2>2, <3>1, <3>2
    <2>5. QED
      BY <1>1, <2>3, <2>4, LandedSolo
  <1>6. ASSUME NEW r \in Requests, Handle(r), Active(q)
        PROVE  Owed(q)' \cap durable' \in {{}, Owed(q)'}
    <2>0. r = q
      BY <1>0, <1>1, <1>6, HandleFrame, OthersAtRest
    <2>1. need'[q] \in SUBSET Writing
      BY <1>0 DEF TypeOK
    <2>2. CASE EndSession /\ need' = need
      BY <1>5, <1>6, <2>2
    <2>3. ASSUME wire = q, Accept(q), pc[q] \in Writing,
                 pc[q] = "insert_lot" => need'[q] = need[q]
          PROVE  Owed(q)' \cap durable' \in {{}, Owed(q)'}
      <3>1. conn # "closed"
        BY <1>0, <2>3, NoneAssumption DEF TypeOK
      <3>2. \A s \in Writing : <<q, s>> \notin durable
        BY <1>1, <1>6, <3>1 DEF SoloInv, FreshInv
      <3>3. \/ \A s \in need'[q] : <<q, s>> \in durable'
            \/ \A s \in need'[q] : <<q, s>> \notin durable'
        BY <1>1, <2>1, <2>3, <3>2, AloneAccept
      <3>4. QED
        BY <2>1, <3>3, OwedCases DEF Owed
    <2>4. CASE WriteReply(q)
      <3>1. CASE Decline(q) /\ UNCHANGED need
        BY <1>4, <3>1 DEF Decline
      <3>2. CASE Accept(q)
        <4>1. pc[q] = "insert_lot" => need'[q] = need[q]
          BY <1>0, <2>4 DEF WriteReply, Remaining, TypeOK
        <4>2. QED
          BY <2>3, <2>4, <3>2, <4>1 DEF WriteReply
      <3>3. QED
        BY <2>4, <3>1, <3>2 DEF WriteReply
    <2>5. CASE ReplyLost(q)
      BY <1>4, <2>3, <2>5 DEF ReplyLost, Decline, ClientVars
    <2>6. CASE CommitReply(q)
      <3>1. conn # "closed" /\ need' = need
        BY <1>0, <2>6, NoneAssumption DEF TypeOK, CommitReply, ClientVars
      <3>2. Pending("commit", need[q]) = {}
        BY DEF Pending
      <3>3. session.tx = "T" /\ \A s \in need[q] : <<q, s>> \in session.writes
        BY <1>1, <2>6, <3>1, <3>2 DEF CommitReply, SoloInv, ProgressInv
      <3>4. \A s \in need'[q] : <<q, s>> \in durable'
        BY <2>6, <3>1, <3>3 DEF CommitReply
      <3>5. QED
        BY <2>1, <3>4, OwedCases DEF Owed
    <2>7. QED
      BY <1>4, <1>6, <2>0, <2>2, <2>4, <2>5, <2>6
         DEF Handle, Send, Refused, Interrupted, BeginReply, ReadReply,
             RollbackReply, S3Reply, CloseConn, ClientVars
  <1>7. CASE \E r \in Requests : Arrive(r) \/ Reject(r) \/ Cancel(r)
    BY <1>4, <1>7 DEF Arrive, Reject, Cancel, ClientVars
  <1>8. CASE (LoseConn \/ Restart) /\ Active(q)
    BY <1>5, <1>8 DEF LoseConn, Restart, CloseConn
  <1>9. CASE UNCHANGED vars
    BY <1>4, <1>9 DEF vars
  <1>10. QED
    BY <1>3, <1>6, <1>7, <1>8, <1>9, NextCases

LEMMA AckStep == SoloInv /\ TypeOK' /\ [Next]_vars => SoloAckDurable'
  <1> SUFFICES ASSUME SoloInv, TypeOK', [Next]_vars, NEW q \in Requests,
                      ~overlapped'[q], result'[q] = "ok"
               PROVE  Owed(q)' \subseteq durable'
    BY DEF SoloAckDurable
  <1>0. TypeOK /\ KindInv
    BY DEF SoloInv
  <1>1. ASSUME result'[q] = result[q], ~overlapped[q]
        PROVE  Owed(q)' \subseteq durable'
    <2>1. ~Active(q) /\ Owed(q) \subseteq durable
      BY <1>1, <1>0 DEF SoloInv, KindInv, Active, SoloAckDurable
    <2>2. QED
      BY <1>1, <2>1, OwedKept
  <1>2. ASSUME NEW r \in Requests, Handle(r) PROVE Owed(q)' \subseteq durable'
    <2>1. overlapped' = overlapped /\ (q # r => result'[q] = result[q])
      BY <1>0, <1>2, HandleFrame
    <2>2. CASE result'[q] = result[q]
      BY <1>1, <2>1, <2>2
    <2>3. CASE result'[q] # result[q] /\ q = r /\ WriteReply(q)
      <3>1. pc[q] = "insert_lot" /\ Accept(q) /\ wire = q
        BY <1>0, <2>3, FailInTx
           DEF WriteReply, Fail, Answer, Continue, TypeOK
      <3>2. need'[q] = need[q]
        BY <1>0, <2>3, <3>1 DEF WriteReply, Remaining, TypeOK
      <3>3. QED
        BY <2>1, <3>1, <3>2, AloneAccept DEF Owed
    <2>4. CASE result'[q] # result[q] /\ q = r /\ CommitReply(q)
      <3>1. conn # "closed" /\ need' = need
        BY <1>0, <2>4, NoneAssumption DEF TypeOK, CommitReply, ClientVars
      <3>2. Pending("commit", need[q]) = {}
        BY DEF Pending
      <3>3. session.tx = "T" /\ \A s \in need[q] : <<q, s>> \in session.writes
        BY <2>1, <2>4, <3>1, <3>2 DEF CommitReply, SoloInv, ProgressInv
      <3>4. QED
        BY <2>4, <3>1, <3>3 DEF CommitReply, Owed
    <2>5. CASE result'[q] # result[q] /\ q = r /\ S3Reply(q)
      <3>1. pc[q] = "complete_s3" /\ need' = need
        BY <1>0, <2>5 DEF S3Reply, Fail, Answer, Continue, ClientVars, TypeOK
      <3>2. need'[q] = {}
        BY <1>0, <3>1, KindAssumption DEF KindInv
      <3>3. QED
        BY <3>2 DEF Owed
    <2>6. CASE result'[q] # result[q] /\ q = r /\
               ~(WriteReply(q) \/ CommitReply(q) \/ S3Reply(q))
      BY <1>0, <1>2, <2>6
         DEF Handle, Send, Refused, Interrupted, BeginReply, ReadReply, ReplyLost,
             RollbackReply, Fail, Answer, Continue, TypeOK
    <2>7. QED
      BY <2>1, <2>2, <2>3, <2>4, <2>5, <2>6
  <1>3. ASSUME NEW r \in Requests, Arrive(r) PROVE Owed(q)' \subseteq durable'
    BY <1>0, <1>1, <1>3 DEF Arrive, Continue, TypeOK
  <1>4. ASSUME NEW r \in Requests, Reject(r) PROVE Owed(q)' \subseteq durable'
    BY <1>0, <1>1, <1>4 DEF Reject, Answer, ClientVars, TypeOK
  <1>5. ASSUME NEW r \in Requests, Cancel(r) PROVE Owed(q)' \subseteq durable'
    BY <1>1, <1>5 DEF Cancel
  <1>6. CASE LoseConn \/ Restart \/ UNCHANGED vars
    BY <1>1, <1>6 DEF LoseConn, Restart, vars
  <1>7. QED
    BY <1>2, <1>3, <1>4, <1>5, <1>6, NextCases

LEMMA SoloStep == SoloInv /\ [Next]_vars => SoloInv'
  <1> SUFFICES ASSUME SoloInv, [Next]_vars PROVE SoloInv'
    OBVIOUS
  <1>1. TypeOK /\ NoLeakedTx /\ KindInv /\ SessionInv /\ AloneInv
    BY DEF SoloInv
  <1>2. TypeOK' /\ NoLeakedTx' /\ KindInv' /\ SessionInv' /\ AloneInv'
    BY <1>1, TypeStep, NoLeakStep, KindStep, SessionStep, AloneStep
  <1>3. OverInv' /\ FreshInv' /\ ProgressInv'
    BY OverStep, FreshStep, ProgressStep
  <1>4. SoloAckDurable' /\ SoloAllOrNothing'
    BY <1>2, AckStep, AllStep
  <1>5. QED
    BY <1>2, <1>3, <1>4 DEF SoloInv

LEMMA SoloInvariant == Spec => []SoloInv
  <1>1. QED
    BY SoloInit, SoloStep, PTL DEF Spec

\* Success answered to a request that ran alone is never lost, whatever other
\* requests, cancellations, lost connections and restarts came before or after.
THEOREM SoloAckIsDurable == Spec => []SoloAckDurable
  <1>1. SoloInv => SoloAckDurable
    BY DEF SoloInv
  <1>2. QED
    BY <1>1, SoloInvariant, PTL

\* The statements of a request that ran alone are stored together or not at all.
THEOREM SoloIsAtomic == Spec => []SoloAllOrNothing
  <1>1. SoloInv => SoloAllOrNothing
    BY DEF SoloInv
  <1>2. QED
    BY <1>1, SoloInvariant, PTL

-----------------------------------------------------------------------------
(* The connection outlives failing statements and S3 calls. *)

\* A fault, a client that went away, or two requests at the same time.
Troubled == faults > 0 \/ \E r \in Requests : cancelled[r] \/ overlapped[r]

\* Without trouble the lock is held only while a command is on the wire, and
\* nobody overwrites the reader of its answer.
CalmInv == ~Troubled => /\ conn # "closed"
                        /\ conn = "busy" => wire # None
                        /\ ~clobbered

LEMMA CalmInit == Init => CalmInv
  BY DEF Init, CalmInv

\* Trouble is never forgotten.
LEMMA TroubledStays ==
  ASSUME TypeOK, [Next]_vars, Troubled
  PROVE  Troubled'
  <1>1. CASE faults > 0
    <2>1. faults' = faults \/ faults' = faults + 1
      BY DEF Next, Handle, Arrive, Reject, Cancel, Send, Refused, Interrupted,
             BeginReply, WriteReply, ReadReply, ReplyLost, CommitReply,
             RollbackReply, S3Reply, LoseConn, Restart, ClientVars, vars
    <2>2. faults \in Nat
      BY BoundsAssumption DEF TypeOK
    <2>3. QED
      BY <1>1, <2>1, <2>2 DEF Troubled
  <1>2. ASSUME NEW q \in Requests, cancelled[q] \/ overlapped[q] PROVE Troubled'
    <2>1. (cancelled[q] => cancelled'[q]) /\ (overlapped[q] => overlapped'[q])
      BY DEF Next, Handle, Arrive, Reject, Cancel, Send, Refused, Interrupted,
             BeginReply, WriteReply, ReadReply, ReplyLost, CommitReply,
             RollbackReply, S3Reply, LoseConn, Restart, ClientVars, vars, TypeOK
    <2>2. QED
      BY <1>2, <2>1 DEF Troubled
  <1>3. QED
    BY <1>1, <1>2 DEF Troubled

\* Without trouble two handlers never run at the same time.
LEMMA CalmIsAlone ==
  ASSUME AloneInv, ~Troubled, NEW r \in Requests, NEW q \in Requests,
         Active(r), Active(q)
  PROVE  q = r
  BY DEF AloneInv, Troubled

LEMMA CalmStep ==
  TypeOK /\ NoLeakedTx /\ AloneInv /\ CalmInv /\ [Next]_vars => CalmInv'
  <1> SUFFICES ASSUME TypeOK, NoLeakedTx, AloneInv, CalmInv, [Next]_vars, ~Troubled'
               PROVE  /\ conn' # "closed"
                      /\ conn' = "busy" => wire' # None
                      /\ ~clobbered'
    BY DEF CalmInv
  <1> DEFINE Calm == /\ conn' # "closed"
                     /\ conn' = "busy" => wire' # None
                     /\ ~clobbered'
  <1>0. ~Troubled /\ conn # "closed" /\ (conn = "busy" => wire # None) /\ ~clobbered
    BY TroubledStays DEF CalmInv
  <1>1. ASSUME UNCHANGED <<conn, wire, clobbered>> PROVE Calm
    BY <1>0, <1>1
  <1>2. ASSUME Release PROVE Calm
    BY <1>2 DEF Release
  <1>3. ASSUME NEW r \in Requests, Arrive(r) \/ Reject(r) \/ Cancel(r) \/ S3Reply(r)
        PROVE  Calm
    BY <1>1, <1>3 DEF Arrive, Reject, Cancel, S3Reply
  <1>4. ASSUME NEW r \in Requests, Send(r) PROVE Calm
    BY <1>4, NoneAssumption DEF Send
  <1>5. ASSUME NEW r \in Requests, Refused(r) PROVE FALSE
    <2>1. conn = "busy" /\ wire # None /\ wire # r
      BY <1>0, <1>5 DEF Refused, Troubled, TypeOK
    <2>2. Active(r) /\ wire \in Requests /\ Active(wire)
      BY <1>5, <2>1 DEF Refused, TypeOK, Active
    <2>3. QED
      BY <1>0, <2>1, <2>2, CalmIsAlone
  <1>6. ASSUME NEW r \in Requests, Interrupted(r) PROVE FALSE
    BY <1>0, <1>6 DEF Interrupted, Troubled
  <1>7. ASSUME NEW r \in Requests, BeginReply(r) PROVE Calm
    <2>1. session.tx # "E"
      <3>1. SUFFICES ASSUME session.tx = "E" PROVE FALSE
        OBVIOUS
      <3>2. PICK q \in Requests : pc[q] \in InTx
        BY <3>1 DEF NoLeakedTx
      <3>3. Active(q) /\ Active(r) /\ q # r
        BY <1>7, <3>2 DEF BeginReply, Active
      <3>4. QED
        BY <1>0, <3>3, CalmIsAlone
    <2>2. QED
      BY <1>2, <1>7, <2>1 DEF BeginReply
  <1>8. ASSUME NEW r \in Requests,
               WriteReply(r) \/ ReadReply(r) \/ CommitReply(r) \/ RollbackReply(r)
        PROVE  Calm
    BY <1>2, <1>8 DEF WriteReply, ReadReply, CommitReply, RollbackReply
  <1>9. ASSUME NEW r \in Requests, ReplyLost(r) PROVE FALSE
    BY <1>0, <1>9 DEF ReplyLost
  <1>10. CASE LoseConn \/ Restart
    <2>1. faults' > 0
      BY <1>10, BoundsAssumption DEF LoseConn, Restart, TypeOK
    <2>2. QED
      BY <2>1 DEF Troubled
  <1>11. CASE UNCHANGED vars
    BY <1>1, <1>11 DEF vars
  <1>12. QED
    BY <1>3, <1>4, <1>5, <1>6, <1>7, <1>8, <1>9, <1>10, <1>11 DEF Next, Handle

\* Only a fault, a client that went away or overlapping requests cost the
\* service its connection: never a statement or an S3 call that fails.
THEOREM ConnOutlives == Spec => []ConnOutlivesErrors
  <1>1. TypeOK /\ CalmInv => ConnOutlivesErrors
    BY DEF CalmInv, Troubled, ConnOutlivesErrors, TypeOK
  <1>2. SoloInv => TypeOK /\ NoLeakedTx /\ AloneInv
    BY DEF SoloInv
  <1>3. Spec => []CalmInv
    BY <1>2, CalmInit, CalmStep, SoloInvariant, PTL DEF Spec
  <1>4. QED
    BY <1>1, <1>3, TypeCorrect, PTL
=============================================================================
