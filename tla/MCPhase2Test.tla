----------------------------- MODULE MCPhase2Test -----------------------------
(* Instances of Phase2Test for TLC. *)
EXTENDS Phase2Test

MCpcbTable == <<"p01", "p02", "p03", "p04", "p05", "p06", "p07", "p08", "p09", "p10", "p11",
                "p12", "p13", "p14">>
MCmsgTable == <<>>
MCDevice   == {"term0"}
=============================================================================
