----------------------------- MODULE MCNucleus ------------------------------
(* Instances of Nucleus for TLC. *)
EXTENDS NucleusRefinement

CONSTANTS ssi, test, a, b

ThreePcbs == {ssi, test, a}
FourPcbs  == {ssi, test, a, b}
ThreeClients == {test, a}
Clients   == FourPcbs \ {ssi}

Disk3     == [line |-> "DISK", no |-> 3]
Disk5     == [line |-> "DISK", no |-> 5]

NoDevice     == {}
OneTerm      == {[line |-> "TERMTRANSM", no |-> 7]}
TwoDisks     == {Disk3, Disk5}

\* What processes and hardware do in the runs whose processes are prudent ...
Calls         == {"CREATEPROCESS", "DOIO", "CLOCKWAIT"}
Lives         == {"CREATEPROCESS", "TERMPROCESS", "KILL", "INVALID", "TRAP",
                  "SENDMESSAGE", "RECEIVEMESSAGE"}

\* ... in the run whose processes are not ...
Reckless      == {"CREATEPROCESS", "TERMPROCESS", "KILL", "DOIO", "CLOCKWAIT",
                  "SENDMESSAGE", "GETPARENT", "TRAP", "PLT", "DEVERROR"}

\* ... and in the run of a finding.
Preempted     == {"CREATEPROCESS", "SENDMESSAGE", "RECEIVEMESSAGE", "PLT"}
=============================================================================
