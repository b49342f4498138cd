------------------------------ MODULE MCLists -------------------------------
(* An instance of LinkedLists for TLC: the SSI, the first process and two others. *)
EXTENDS LinkedLists

CONSTANTS ssi, test, a, b, one, two

FourPcbs    == <<ssi, test, a, b>>
TwoMessages == <<one, two>>
OneDevice   == {0}

\* Requests and answers.
WithTheSSI  == {ssi} \X {test, a, b} \cup {test, a, b} \X {ssi}

\* Only Init tells these apart: the tables are used in their order there and nowhere else.
Alike == Permutations({a, b}) \cup Permutations({one, two})
=============================================================================
