---------------------------- MODULE ServiceCalls -----------------------------
(***************************************************************************)
(* What the SSI promises a process (phase 2 specification, section 6:      *)
(* receive a request, satisfy it, send back the results): calls of         *)
(* different processes are independent, each call is answered once, with   *)
(* an answer to that call, and every call returns.                         *)
(***************************************************************************)
CONSTANTS Client, Request, Reply, None, Right(_, _)

VARIABLES call,    \* the request each client waits for the answer of
          answer   \* the answer that has reached it

vars == <<call, answer>>

TypeOK ==
  /\ call \in [Client -> Request \cup {None}]
  /\ answer \in [Client -> Reply \cup {None}]

Init ==
  /\ call = [p \in Client |-> None]
  /\ answer = [p \in Client |-> None]

Call(p) ==
  /\ call[p] = None
  /\ \E r \in Request : call' = [call EXCEPT ![p] = r]
  /\ UNCHANGED answer

\* Answers reach some clients: one tick of the pseudo-clock answers many calls.
Answer ==
  /\ UNCHANGED call
  /\ answer' \in [Client -> Reply \cup {None}]
  /\ \A p \in Client :
       answer'[p] # answer[p] =>
         call[p] # None /\ answer[p] = None /\ Right(call[p], answer'[p])

Return(p) ==
  /\ answer[p] # None
  /\ call' = [call EXCEPT ![p] = None]
  /\ answer' = [answer EXCEPT ![p] = None]

Next ==
  \/ \E p \in Client : Call(p) \/ Return(p)
  \/ Answer

Spec == Init /\ [][Next]_vars

Returns == \A p \in Client : call[p] # None ~> call[p] = None
=============================================================================
