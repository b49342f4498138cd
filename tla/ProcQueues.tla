----------------------------- MODULE ProcQueues ------------------------------
(***************************************************************************)
(* The process queues of phase 1 as sequences of PCBs, first in first out. *)
(* The empty queue, its head and its removal are <<>>, Head and Tail.      *)
(*                                                                         *)
(* In the modules that use this one an operator named X_Y is X with a slip *)
(* Y: the properties are shown to tell it from X, and nothing else uses it.*)
(***************************************************************************)
EXTENDS Integers, Sequences, FiniteSets, SequencesExt

\* outProcQ() of every member of K: the positions of s that hold none of them,
\* and s at those positions, in order.
Kept(s, K)    == {i \in DOMAIN s : s[i] \notin K}
Rank(i, N)    == Cardinality({j \in N : j <= i})
Without(s, K) ==
  [n \in 1..Cardinality(Kept(s, K)) |->
     s[CHOOSE i \in Kept(s, K) : Rank(i, Kept(s, K)) = n]]
=============================================================================
