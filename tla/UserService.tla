----------------------------- MODULE UserService ------------------------------
(***************************************************************************)
(* What the support level promises to user processes, without processes,   *)
(* messages or kernel: a request to print is answered when the string is   *)
(* out, and the system halts once every user process has ended.            *)
(***************************************************************************)
EXTENDS Sequences, Naturals

CONSTANTS User, Device, Strings

VARIABLES user, due, output, halted

vars == <<user, due, output, halted>>

Init ==
  /\ user = [i \in User |-> "computing"]
  /\ \A d \in Device : due[d] = <<>> /\ output[d] = <<>>
  /\ halted = FALSE

\* The devices of a user have its number.
Printed(i) == \A d \in Device : d[2] = i => output[d] = due[d]

Becomes(i, from, to) == user[i] = from /\ user' = [user EXCEPT ![i] = to]

Write(i, d) ==
  /\ d[2] = i /\ Becomes(i, "computing", "waiting")
  /\ \E msg \in Strings : due' = [due EXCEPT ![d] = @ \o msg]
  /\ UNCHANGED <<output, halted>>
AskTime(i) == Becomes(i, "computing", "waiting") /\ UNCHANGED <<due, output, halted>>
End(i)     == Becomes(i, "computing", "ended")   /\ UNCHANGED <<due, output, halted>>

PutChar(d) ==
  /\ Len(output[d]) < Len(due[d])
  /\ output' = [output EXCEPT ![d] = Append(@, due[d][Len(@) + 1])]
  /\ UNCHANGED <<user, due, halted>>

Answer(i) ==
  /\ Printed(i) /\ Becomes(i, "waiting", "computing")
  /\ UNCHANGED <<due, output, halted>>

Halt ==
  /\ halted = FALSE /\ halted' = TRUE
  /\ \A i \in User : user[i] = "ended"
  /\ UNCHANGED <<user, due, output>>

Next ==
  \/ \E i \in User : AskTime(i) \/ End(i) \/ Answer(i) \/ \E d \in Device : Write(i, d)
  \/ \E d \in Device : PutChar(d)
  \/ Halt

Spec ==
  /\ Init /\ [][Next]_vars
  /\ WF_vars(Halt)
  /\ \A d \in Device : WF_vars(PutChar(d))
  /\ \A i \in User : WF_vars(Answer(i))
=============================================================================
