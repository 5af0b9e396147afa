-------------------------- MODULE AtomicityProofs --------------------------
(***************************************************************************)
(* SharedConn implements AtomicRequests for serial traffic: for any set of *)
(* requests, with cancellations, connection losses and restarts anywhere.  *)
(***************************************************************************)
EXTENDS SharedConnProofs, FiniteSetTheorems

USE DEF Simple, Extended, Writing, OnConn, OnS3, InTx

\* No request has met another.
SerialInv == \A r \in Requests : overlapped[r] = FALSE

\* Only a request that is over has an answer, and the first statement of a
\* presign request is one that it owes.
AnswerInv == \A r \in Requests :
  /\ pc[r] # "done" => result[r] = "none"
  /\ Kind[r] = "presign" => "identical" \in need[r]

AtomicInv == SoloInv /\ SerialInv /\ AnswerInv

LEMMA AtomicInit == Init => AtomicInv
  <1> SUFFICES ASSUME Init PROVE AtomicInv
    OBVIOUS
  <1>1. SerialInv /\ AnswerInv
    BY DEF Init, SerialInv, AnswerInv, FirstNeed
  <1>2. QED
    BY <1>1, SoloInit DEF AtomicInv

\* With one handler at a time a request finds nobody else.
LEMMA ArrivesAlone ==
  ASSUME AloneInv, SerialInv, MaxInFlight = 1, NEW r \in Requests, Arrive(r)
  PROVE  {q \in Requests \ {r} : Active(q)} = {}
  <1> DEFINE others == {q \in Requests \ {r} : Active(q)}
  <1>1. \E x : others \subseteq {x}
    BY DEF AloneInv, SerialInv
  <1>2. IsFiniteSet(others)
    BY <1>1, FS_Singleton, FS_Subset
  <1>3. Cardinality(others) \in Nat /\ Cardinality(others) < 1
    BY <1>2, FS_CardinalityType DEF Arrive
  <1>4. Cardinality(others) = 0
    BY <1>3
  <1>5. QED
    BY <1>2, <1>4, FS_EmptySet

LEMMA SerialStep ==
  ASSUME TypeOK, AloneInv, SerialInv, MaxInFlight = 1, [Next]_vars
  PROVE  SerialInv'
  <1>1. ASSUME NEW r \in Requests, Arrive(r) PROVE SerialInv'
    <2>1. \A q \in Requests : q \notin {p \in Requests \ {r} : Active(p)}
      BY <1>1, ArrivesAlone
    <2>2. QED
      BY <1>1, <2>1, ArrivesAlone DEF Arrive, SerialInv
  <1>2. CASE overlapped' = overlapped
    BY <1>2 DEF SerialInv
  <1>3. QED
    BY <1>1, <1>2, NextCases, HandleFrame
       DEF Reject, Cancel, LoseConn, Restart, vars, ClientVars

\* What the handler of r says and needs after its step.
LEMMA HandleAnswer ==
  ASSUME TypeOK, NEW r \in Requests, Handle(r)
  PROVE  /\ \/ pc'[r] \notin {"new", "done"} /\ result'[r] = result[r]
            \/ pc'[r] = "done" /\ result'[r] \in {"ok", "error"}
         /\ need[r] \subseteq need'[r]
         /\ pc[r] \notin Writing => need'[r] = need[r]
         /\ conn = "closed" => need'[r] = need[r]
  <1>1. ASSUME Fail(r), UNCHANGED need
        PROVE  /\ \/ pc'[r] \notin {"new", "done"} /\ result'[r] = result[r]
                  \/ pc'[r] = "done" /\ result'[r] \in {"ok", "error"}
               /\ need[r] \subseteq need'[r] /\ need'[r] = need[r]
    BY <1>1 DEF Fail, Answer, Continue, AfterFailure, TypeOK
  <1>2. CASE Send(r)
    BY <1>2 DEF Send, ClientVars
  <1>3. CASE Refused(r) \/ Interrupted(r) \/ ReplyLost(r)
    BY <1>1, <1>3 DEF Refused, Interrupted, ReplyLost, ClientVars
  <1>4. CASE BeginReply(r)
    BY <1>1, <1>4, AfterType DEF BeginReply, Continue, ClientVars, TypeOK
  <1>5. CASE WriteReply(r)
    <2>1. conn = "busy"
      BY <1>5, NoneAssumption DEF WriteReply, TypeOK
    <2>2. CASE Fail(r) /\ UNCHANGED need
      BY <1>1, <1>5, <2>1, <2>2 DEF WriteReply
    <2>3. ASSUME NEW needed \in Remaining(r), need' = [need EXCEPT ![r] = needed],
                 \/ Answer(r, "ok")
                 \/ \E call \in Onward(r, needed) : Continue(r, call)
          PROVE  /\ \/ pc'[r] \notin {"new", "done"} /\ result'[r] = result[r]
                    \/ pc'[r] = "done" /\ result'[r] \in {"ok", "error"}
                 /\ need[r] \subseteq need'[r]
      <3>1. need[r] \subseteq need'[r]
        BY <2>3 DEF Remaining, TypeOK
      <3>2. \A call \in Onward(r, needed) : call \notin {"new", "done"}
        BY AfterType DEF Onward
      <3>3. QED
        BY <2>3, <3>1, <3>2 DEF Answer, Continue, TypeOK
    <2>4. QED
      BY <1>5, <2>1, <2>2, <2>3 DEF WriteReply
  <1>6. CASE ReadReply(r)
    BY <1>1, <1>6 DEF ReadReply, Continue, ClientVars, TypeOK
  <1>7. CASE CommitReply(r) \/ RollbackReply(r)
    BY <1>7 DEF CommitReply, RollbackReply, Answer, ClientVars, TypeOK
  <1>8. CASE S3Reply(r)
    BY <1>1, <1>8, AfterType DEF S3Reply, Answer, Continue, ClientVars, TypeOK
  <1>9. QED
    BY <1>2, <1>3, <1>4, <1>5, <1>6, <1>7, <1>8 DEF Handle

LEMMA AnswerStep ==
  ASSUME TypeOK, AnswerInv, [Next]_vars
  PROVE  AnswerInv'
  <1>1. ASSUME NEW r \in Requests, Handle(r) PROVE AnswerInv'
    BY <1>1, HandleFrame, HandleAnswer DEF AnswerInv, Active
  <1>2. ASSUME NEW r \in Requests, Arrive(r) PROVE AnswerInv'
    BY <1>2 DEF Arrive, Continue, AnswerInv, TypeOK
  <1>3. ASSUME NEW r \in Requests, Reject(r) PROVE AnswerInv'
    BY <1>3 DEF Reject, Answer, ClientVars, AnswerInv, TypeOK
  <1>4. CASE \E r \in Requests : Cancel(r)
    BY <1>4 DEF Cancel, AnswerInv
  <1>5. CASE LoseConn \/ Restart
    BY <1>5 DEF LoseConn, Restart, AnswerInv
  <1>6. CASE UNCHANGED vars
    BY <1>6 DEF vars, AnswerInv
  <1>7. QED
    BY <1>1, <1>2, <1>3, <1>4, <1>5, <1>6, NextCases

LEMMA AtomicStep ==
  ASSUME AtomicInv, MaxInFlight = 1, [Next]_vars
  PROVE  AtomicInv'
  <1>1. TypeOK /\ AloneInv
    BY DEF AtomicInv, SoloInv
  <1>2. QED
    BY <1>1, SoloStep, SerialStep, AnswerStep DEF AtomicInv

-----------------------------------------------------------------------------
(* Effects *)

\* A request has its whole effect or none, and a successful one the whole.
EffectsWhole == \A r \in Requests :
  /\ Effect(r) \in {"none", "all"}
  /\ Effect(r) = "all" => Kind[r] # "complete"
  /\ Kind[r] # "complete" /\ result[r] = "ok" => Effect(r) = "all"

LEMMA EffectCases == AtomicInv => EffectsWhole
  <1> SUFFICES ASSUME AtomicInv, NEW r \in Requests
               PROVE  /\ Effect(r) \in {"none", "all"}
                      /\ Effect(r) = "all" => Kind[r] # "complete"
                      /\ Kind[r] # "complete" /\ result[r] = "ok" => Effect(r) = "all"
    BY DEF EffectsWhole
  <1> USE DEF AtomicInv, SoloInv, SerialInv
  <1>1. Owed(r) \cap durable \in {{}, Owed(r)}
    BY DEF SoloAllOrNothing
  <1>2. Effect(r) \in {"none", "all"}
    BY <1>1 DEF Effect
  <1>3. Kind[r] = "complete" => Owed(r) = {}
    BY DEF KindInv, Owed
  <1>4. Kind[r] # "complete" => Owed(r) # {}
    <2>1. Kind[r] # "complete" => \E s \in need[r] : TRUE
      BY KindAssumption DEF KindInv, AnswerInv
    <2>2. \A s \in need[r] : <<r, s>> \in Owed(r)
      BY DEF Owed
    <2>3. QED
      BY <2>1, <2>2
  <1>5. result[r] = "ok" => Owed(r) \subseteq durable
    BY DEF SoloAckDurable
  <1>6. QED
    BY <1>2, <1>3, <1>4, <1>5 DEF Effect

\* Before its last step the effect of a request is none, unless the connection
\* was lost under it.
LEMMA EffectFresh ==
  ASSUME AtomicInv, NEW r \in Requests, Active(r), conn # "closed"
  PROVE  Effect(r) = "none"
  <1>1. \A s \in Writing : <<r, s>> \notin durable
    BY DEF AtomicInv, SoloInv, SerialInv, FreshInv
  <1>2. Owed(r) \cap durable = {}
    BY <1>1 DEF Owed, AtomicInv, SoloInv, TypeOK
  <1>3. QED
    BY <1>2 DEF Effect

\* A request keeps its effect in a step that leaves alone what it needs and what
\* is in the database, and in the steps of others.
LEMMA EffectKept ==
  ASSUME NEW r \in Requests, need'[r] = need[r], durable' = durable
  PROVE  Effect(r)' = Effect(r)
  BY DEF Effect, Owed

LEMMA EffectAtRest ==
  ASSUME AtomicInv, [Next]_vars, NEW q \in Requests, ~Active(q)
  PROVE  Effect(q)' = Effect(q)
  <1>1. Owed(q)' = Owed(q) /\ Owed(q)' \cap durable' = Owed(q) \cap durable
    BY OwedKept DEF AtomicInv, SerialInv
  <1>2. Owed(q)' \subseteq durable' <=> Owed(q) \subseteq durable
    BY <1>1
  <1>3. QED
    BY <1>1, <1>2 DEF Effect

\* A connection that is closed takes no more writes.
LEMMA ClosedKept ==
  ASSUME TypeOK, [Next]_vars, conn = "closed"
  PROVE  durable' = durable
  <1>1. wire = None
    BY DEF TypeOK
  <1>2. CASE EndSession
    BY <1>1, <1>2 DEF EndSession, Landed
  <1>3. ASSUME NEW r \in Requests, Handle(r) PROVE EndSession \/ durable' = durable
    BY <1>1, <1>3, NoneAssumption
       DEF Handle, Send, Refused, Interrupted, BeginReply, WriteReply, ReadReply,
           ReplyLost, CommitReply, RollbackReply, S3Reply, CloseConn
  <1>4. CASE \E r \in Requests : Arrive(r) \/ Reject(r) \/ Cancel(r)
    BY <1>4 DEF Arrive, Reject, Cancel
  <1>5. CASE LoseConn \/ Restart \/ UNCHANGED vars
    BY <1>2, <1>5 DEF LoseConn, CloseConn, Restart, vars
  <1>6. QED
    BY <1>2, <1>3, <1>4, <1>5, NextCases

\* The effect of a running request stays what it is, or takes place.
LEMMA EffectGrows ==
  ASSUME AtomicInv, EffectsWhole', [Next]_vars, NEW r \in Requests, Active(r),
         conn = "closed" => need'[r] = need[r]
  PROVE  Effect(r)' = Effect(r) \/ (Effect(r) = "none" /\ Effect(r)' = "all")
  <1>1. CASE conn = "closed"
    <2>1. durable' = durable
      BY <1>1, ClosedKept DEF AtomicInv, SoloInv
    <2>2. QED
      BY <1>1, <2>1, EffectKept
  <1>2. CASE conn # "closed"
    <2>1. Effect(r)' \in {"none", "all"}
      BY DEF EffectsWhole
    <2>2. Effect(r) = "none"
      BY <1>2, EffectFresh
    <2>3. QED
      BY <2>1, <2>2
  <1>3. QED
    BY <1>1, <1>2

-----------------------------------------------------------------------------
(* Steps *)

\* Where requests are.
LEMMA PhaseCases ==
  ASSUME NEW r \in Requests
  PROVE  /\ Phase(r) = "open" <=> Active(r)
         /\ Phase(r) = "new" <=> pc[r] = "new"
         /\ Phase(r) = "over" <=> pc[r] = "done"
         /\ Phase(r)' = "open" <=> Active(r)'
         /\ Phase(r)' = "new" <=> pc'[r] = "new"
         /\ Phase(r)' = "over" <=> pc'[r] = "done"
         /\ Phase(r) \in {"new", "open", "over"} /\ Phase(r)' \in {"new", "open", "over"}
  BY DEF Phase, Active

\* The others stay as they are.
Still(q) == /\ Phase(q)' = Phase(q)
            /\ Effect(q)' = Effect(q)
            /\ result'[q] = result[q]

\* A step in which only r moves, from open.
LEMMA OpenMoves ==
  ASSUME TypeOK, TypeOK', EffectsWhole, EffectsWhole', NEW r \in Requests,
         \A q \in Requests \ {r} : Still(q),
         Phase(r) = "open", result[r] = "none",
         \/ Phase(r)' = "open" /\ result'[r] = result[r]
         \/ Phase(r)' = "over" /\ result'[r] \in {"ok", "error"},
         Effect(r)' = Effect(r) \/ (Effect(r) = "none" /\ Effect(r)' = "all")
  PROVE  [Promise!Next]_(Promise!vars)
  <1> USE DEF Still
  <1>1. CASE Effect(r)' # Effect(r)
    <2>1. Kind[r] # "complete"
      BY <1>1 DEF EffectsWhole
    <2>2. Promise!Apply(r, result'[r])
      <3>1. /\ result' = [result EXCEPT ![r] = result'[r]]
            /\ result'[r] = "none" <=> Phase(r)' = "open"
        BY DEF TypeOK
      <3>2. QED
        BY <1>1, <2>1, <3>1 DEF Promise!Apply
    <2>3. result'[r] \in {"none", "ok", "error"}
      OBVIOUS
    <2>4. QED
      BY <2>2, <2>3 DEF Promise!Next
  <1>2. CASE Effect(r)' = Effect(r) /\ Phase(r)' = "open"
    <2>1. result' = result
      BY <1>2 DEF TypeOK
    <2>2. UNCHANGED Promise!vars
      BY <1>2, <2>1 DEF Promise!vars
    <2>3. QED
      BY <2>2
  <1>3. CASE Effect(r)' = Effect(r) /\ Phase(r)' = "over" /\ result'[r] = "error"
    <2>1. result' = [result EXCEPT ![r] = "error"]
      BY <1>3 DEF TypeOK
    <2>2. Promise!Refuse(r)
      BY <1>3, <2>1 DEF Promise!Refuse
    <2>3. QED
      BY <2>2 DEF Promise!Next
  <1>4. CASE Effect(r)' = Effect(r) /\ Phase(r)' = "over" /\ result'[r] = "ok"
    <2>1. result' = [result EXCEPT ![r] = "ok"]
      BY <1>4 DEF TypeOK
    <2>2. Kind[r] # "complete" => Effect(r) = "all"
      BY <1>4 DEF EffectsWhole
    <2>3. Promise!Succeed(r)
      BY <1>4, <2>1, <2>2 DEF Promise!Succeed
    <2>4. QED
      BY <2>3 DEF Promise!Next
  <1>5. QED
    BY <1>1, <1>2, <1>3, <1>4

\* A handler moves alone.
LEMMA HandleMaps ==
  ASSUME AtomicInv, TypeOK', EffectsWhole, EffectsWhole', [Next]_vars,
         NEW r \in Requests, Handle(r)
  PROVE  [Promise!Next]_(Promise!vars)
  <1>0. TypeOK /\ Active(r)
    BY HandleFrame DEF AtomicInv, SoloInv
  <1>1. ASSUME NEW q \in Requests \ {r} PROVE Still(q)
    <2>1. ~Active(q)
      BY <1>0 DEF AtomicInv, SoloInv, SerialInv, AloneInv
    <2>2. Effect(q)' = Effect(q)
      BY <2>1, EffectAtRest
    <2>3. Phase(q)' = Phase(q) /\ result'[q] = result[q]
      BY <1>0, HandleFrame DEF Phase
    <2>4. QED
      BY <2>2, <2>3 DEF Still
  <1>2. result[r] = "none" /\ Phase(r) = "open"
    BY <1>0, PhaseCases DEF AtomicInv, AnswerInv, Active
  <1>3. \/ Phase(r)' = "open" /\ result'[r] = result[r]
        \/ Phase(r)' = "over" /\ result'[r] \in {"ok", "error"}
    BY <1>0, HandleAnswer, PhaseCases DEF Active
  <1>4. Effect(r)' = Effect(r) \/ (Effect(r) = "none" /\ Effect(r)' = "all")
    BY <1>0, HandleAnswer, EffectGrows
  <1>5. QED
    BY <1>0, <1>1, <1>2, <1>3, <1>4, OpenMoves

\* Clients come and go without an effect.
LEMMA ClientMaps ==
  ASSUME TypeOK, TypeOK', NEW r \in Requests, Arrive(r) \/ Reject(r) \/ Cancel(r)
  PROVE  [Promise!Next]_(Promise!vars)
  <1>1. \A q \in Requests : Effect(q)' = Effect(q)
    BY EffectKept DEF Arrive, Reject, Cancel, ClientVars
  <1>2. CASE Arrive(r)
    <2>1. /\ Phase(r) = "new" /\ Phase(r)' = "open" /\ result' = result
          /\ \A q \in Requests \ {r} : Phase(q)' = Phase(q)
      BY <1>2, FirstType, PhaseCases DEF Arrive, Continue, Phase, Active, TypeOK
    <2>2. Promise!Open(r)
      BY <1>1, <2>1 DEF Promise!Open
    <2>3. QED
      BY <2>2 DEF Promise!Next
  <1>3. CASE Reject(r)
    <2>1. /\ Phase(r) = "new" /\ Phase(r)' = "over"
          /\ result' = [result EXCEPT ![r] = "error"]
          /\ \A q \in Requests \ {r} : Phase(q)' = Phase(q)
      BY <1>3, PhaseCases DEF Reject, Answer, Phase, TypeOK
    <2>2. Promise!Refuse(r)
      BY <1>1, <2>1 DEF Promise!Refuse
    <2>3. QED
      BY <2>2 DEF Promise!Next
  <1>4. CASE Cancel(r)
    <2>1. result' = result /\ \A q \in Requests : Phase(q)' = Phase(q)
      BY <1>4 DEF Cancel, Phase
    <2>2. UNCHANGED Promise!vars
      BY <1>1, <2>1 DEF Promise!vars
    <2>3. QED
      BY <2>2
  <1>5. QED
    BY <1>2, <1>3, <1>4

\* A lost connection may leave the effect of the one request that runs.
LEMMA LossMaps ==
  ASSUME AtomicInv, TypeOK', EffectsWhole, EffectsWhole', [Next]_vars, LoseConn
  PROVE  [Promise!Next]_(Promise!vars)
  <1>1. \A q \in Requests : /\ Phase(q)' = Phase(q)
                            /\ result'[q] = result[q] /\ need'[q] = need[q]
    BY DEF LoseConn, Phase
  <1>2. \A q \in Requests : ~Active(q) => Still(q)
    BY <1>1, EffectAtRest DEF Still
  <1>3. CASE \A q \in Requests : ~Active(q)
    <2>1. UNCHANGED Promise!vars
      BY <1>1, <1>2, <1>3 DEF LoseConn, Still, Promise!vars
    <2>2. QED
      BY <2>1
  <1>4. ASSUME NEW r \in Requests, Active(r) PROVE [Promise!Next]_(Promise!vars)
    <2>1. \A q \in Requests \ {r} : Still(q)
      BY <1>2, <1>4 DEF AtomicInv, SoloInv, SerialInv, AloneInv
    <2>2. result[r] = "none" /\ Phase(r) = "open" /\ Phase(r)' = "open"
      BY <1>1, <1>4, PhaseCases DEF AtomicInv, AnswerInv, Active
    <2>3. Effect(r)' = Effect(r) \/ (Effect(r) = "none" /\ Effect(r)' = "all")
      BY <1>1, <1>4, EffectGrows
    <2>4. TypeOK
      BY DEF AtomicInv, SoloInv
    <2>5. QED
      BY <1>1, <2>1, <2>2, <2>3, <2>4, OpenMoves
  <1>5. QED
    BY <1>3, <1>4

\* A process that ends leaves the effects that landed, and no answers.
LEMMA RestartMaps ==
  ASSUME AtomicInv, EffectsWhole, EffectsWhole', [Next]_vars, Restart
  PROVE  [Promise!Next]_(Promise!vars)
  <1> DEFINE landed == {q \in Requests : Effect(q)' # Effect(q)}
  <1>1. \A q \in Requests : Phase(q)' = IF Phase(q) = "open" THEN "over" ELSE Phase(q)
    BY DEF Restart, Phase, Active
  <1>2. ASSUME NEW q \in Requests, Effect(q)' # Effect(q)
        PROVE  Phase(q) = "open" /\ Effect(q)' = "all" /\ Kind[q] # "complete"
    <2>1. Active(q)
      BY <1>2, EffectAtRest
    <2>2. Effect(q)' = "all"
      BY <1>2, <2>1, EffectGrows DEF Restart
    <2>3. QED
      BY <2>1, <2>2, PhaseCases DEF EffectsWhole
  <1>3. PICK moved : moved = landed
    OBVIOUS
  <1>4. moved \in SUBSET {q \in {q \in Requests : Kind[q] # "complete"} \cap Requests :
                          Phase(q) = "open"}
    BY <1>2, <1>3
  <1>5. \A q \in Requests : Effect(q)' = IF q \in moved THEN "all" ELSE Effect(q)
    BY <1>2, <1>3
  <1>6. result' = result
    BY DEF Restart
  <1>7. Promise!Stop
    BY <1>1, <1>4, <1>5, <1>6 DEF Promise!Stop
  <1>8. QED
    BY <1>7 DEF Promise!Next

\* With one handler at a time the handlers implement AtomicRequests: whatever
\* the requests, wherever a client gives up, a call fails, the connection is lost
\* or the process stops, each request is one atomic effect, and success is
\* answered only after it (KeepsPromise).
THEOREM SerialRefinement ==
  ASSUME MaxInFlight = 1
  PROVE  Spec => KeepsPromise
  <1>1. Init => Promise!Init
    <2> SUFFICES ASSUME Init PROVE Promise!Init
      OBVIOUS
    <2>1. \A r \in Requests : Phase(r) = "new" /\ Effect(r) = "none"
      BY DEF Init, Phase, Effect
    <2>2. QED
      BY <2>1 DEF Init, Promise!Init
  <1>2. AtomicInv /\ AtomicInv' /\ EffectsWhole /\ EffectsWhole' /\ [Next]_vars
        => [Promise!Next]_(Promise!vars)
    <2> SUFFICES ASSUME AtomicInv, AtomicInv', EffectsWhole, EffectsWhole', [Next]_vars
                 PROVE  [Promise!Next]_(Promise!vars)
      OBVIOUS
    <2>1. TypeOK /\ TypeOK'
      BY DEF AtomicInv, SoloInv
    <2>2. ASSUME NEW r \in Requests, Handle(r) PROVE [Promise!Next]_(Promise!vars)
      BY <2>1, <2>2, HandleMaps
    <2>3. ASSUME NEW r \in Requests, Arrive(r) \/ Reject(r) \/ Cancel(r)
          PROVE  [Promise!Next]_(Promise!vars)
      BY <2>1, <2>3, ClientMaps
    <2>4. CASE LoseConn
      BY <2>1, <2>4, LossMaps
    <2>5. CASE Restart
      BY <2>5, RestartMaps
    <2>6. CASE UNCHANGED vars
      <3>1. \A q \in Requests : Phase(q)' = Phase(q) /\ Effect(q)' = Effect(q)
        BY <2>6, EffectKept DEF vars, Phase
      <3>2. UNCHANGED Promise!vars
        BY <2>6, <3>1 DEF vars, Promise!vars
      <3>3. QED
        BY <3>2
    <2>7. QED
      BY <2>2, <2>3, <2>4, <2>5, <2>6, NextCases
  <1>3. AtomicInv /\ [Next]_vars => AtomicInv'
    BY AtomicStep
  <1>4. Spec => []AtomicInv
    BY <1>3, AtomicInit, PTL DEF Spec
  <1>5. QED
    BY <1>1, <1>2, <1>4, EffectCases, PTL DEF Spec, KeepsPromise, Promise!Spec
=============================================================================
