------------------------------ MODULE MCPager -------------------------------
(* Instances of Pager for TLC. *)
EXTENDS Pager

CONSTANTS code, stack

TwoPages == {code, stack}
Stack    == {stack}
Bits     == {0, 1}

Nothing  == {}


AllEvents == {"TRAP", "EXIT", "READERROR", "WRITEERROR"}
JustTraps == {"TRAP"}
JustExits == {"EXIT"}
=============================================================================
