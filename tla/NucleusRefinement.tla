-------------------------- MODULE NucleusRefinement --------------------------
(***************************************************************************)
(* The nucleus implements ServiceCalls: a process' pending call is what    *)
(* its receive from the SSI waits for, the answer that has reached it is   *)
(* the SSI's message in its inbox.                                         *)
(***************************************************************************)
EXTENDS Nucleus

PendingCall(p) == IF p \in Live /\ Awaits(p) THEN ControlOf(p).val ELSE Nothing
AnswerHeld(p)  ==
  IF p \in Live /\ Matching(p, ssi_pcb) # {}
  THEN inbox[p][CHOOSE i \in Matching(p, ssi_pcb) : TRUE].payload
  ELSE Nothing

Promise == INSTANCE ServiceCalls WITH
  Client  <- Pcb \ {ssi_pcb},
  Request <- Payload \ {Nothing},
  Reply   <- Payload \ {Nothing},
  None    <- Nothing,
  Right   <- Answers,
  call    <- [p \in Pcb \ {ssi_pcb} |-> PendingCall(p)],
  answer  <- [p \in Pcb \ {ssi_pcb} |-> AnswerHeld(p)]

\* The SSI keeps its promise: every call of a process is answered once, with
\* the result of the service it asked for, before it returns ...
ImplementsServiceCalls == Promise!Spec

\* ... and every call returns: none waits for ever for the SSI, its device or the clock.
CallsReturn == Promise!Returns
=============================================================================
