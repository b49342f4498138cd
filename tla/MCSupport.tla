------------------------------ MODULE MCSupport -------------------------------
(* Instances of Support for TLC. *)
EXTENDS Support

MCpcbTable == <<"p1", "p2", "p3", "p4", "p5", "p6", "p7", "p8", "p9", "p10", "p11", "p12">>
MCmsgTable == <<>>
MCDevice   == {"printer", "terminal", "flash"} \X (0..1)
MCStrings  == {<<"a", "b">>}
MCLastRequest == [i \in 0..1 |-> IF i = 0 THEN "TERMINATE" ELSE "UNKNOWN"]
=============================================================================
