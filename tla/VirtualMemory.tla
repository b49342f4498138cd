---------------------------- MODULE VirtualMemory ----------------------------
(***************************************************************************)
(* What the pager promises a user process: a private memory, where a page  *)
(* holds what its owner last stored there, until the process ends.         *)
(***************************************************************************)
CONSTANTS Process, Page, Data, Image

VARIABLES mem,    \* the contents of each page
          ended   \* the processes that have no memory any more

vars == <<mem, ended>>

Init ==
  /\ mem = [p \in Process |-> [g \in Page |-> Image]]
  /\ ended = {}

Store(p, g, d) ==
  /\ p \notin ended
  /\ mem' = [mem EXCEPT ![p][g] = d]
  /\ UNCHANGED ended

End(p) ==
  /\ p \notin ended
  /\ ended' = ended \cup {p}
  /\ mem' = [mem EXCEPT ![p] = [g \in Page |-> Image]]

Next ==
  \E p \in Process : End(p) \/ \E g \in Page, d \in Data : Store(p, g, d)

Spec == Init /\ [][Next]_vars
=============================================================================
