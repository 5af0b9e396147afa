--------------------------- MODULE AtomicRequests ---------------------------
(***************************************************************************)
(* What the lot service promises its clients: every request is a            *)
(* transaction of its own.  While it is open its effect takes place once,   *)
(* whole, or not at all; success is answered only after the effect.  An     *)
(* error promises nothing, and a process that stops answers nothing.        *)
(***************************************************************************)
CONSTANTS Requests,
          Writers    \* those of them that have an effect on the database

VARIABLES phase,     \* phase[r]: not arrived, open, or over
          effect,    \* effect[r]: how much of r's effect is in the database
          answer     \* answer[r]: what the client was told

vars == <<phase, effect, answer>>

Init == /\ phase = [r \in Requests |-> "new"]
        /\ effect = [r \in Requests |-> "none"]
        /\ answer = [r \in Requests |-> "none"]

\* A request arrives.
Open(r) == /\ phase[r] = "new"
           /\ phase' = [phase EXCEPT ![r] = "open"]
           /\ UNCHANGED <<effect, answer>>

\* The effect of an open request takes place, and success may follow at once.
Apply(r, told) ==
  /\ phase[r] = "open" /\ r \in Writers /\ effect[r] = "none"
  /\ effect' = [effect EXCEPT ![r] = "all"]
  /\ answer' = [answer EXCEPT ![r] = told]
  /\ phase' = [phase EXCEPT ![r] = IF told = "none" THEN "open" ELSE "over"]

\* An error may be answered before, after or without the effect.
Refuse(r) == /\ phase[r] # "over"
             /\ phase' = [phase EXCEPT ![r] = "over"]
             /\ answer' = [answer EXCEPT ![r] = "error"]
             /\ UNCHANGED effect

\* Success follows the effect, or at once when there is none to wait for.
Succeed(r) == /\ phase[r] = "open" /\ (r \in Writers => effect[r] = "all")
              /\ phase' = [phase EXCEPT ![r] = "over"]
              /\ answer' = [answer EXCEPT ![r] = "ok"]
              /\ UNCHANGED effect

\* The process stops: open requests get no answer, and the effect of those that
\* were just taking place did or did not.
Stop == /\ phase' = [r \in Requests |-> IF phase[r] = "open" THEN "over" ELSE phase[r]]
        /\ \E landed \in SUBSET {r \in Writers \cap Requests : phase[r] = "open"} :
             effect' = [r \in Requests |-> IF r \in landed THEN "all" ELSE effect[r]]
        /\ UNCHANGED answer

Next == \/ \E r \in Requests :
             \/ Open(r) \/ Refuse(r) \/ Succeed(r)
             \/ \E told \in {"none", "ok", "error"} : Apply(r, told)
        \/ Stop

Spec == Init /\ [][Next]_vars
=============================================================================
