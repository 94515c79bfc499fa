------------------------------- MODULE MCMcfg -------------------------------
(* Mcfg on tables of every length around the entry: bytes of the base that *)
(* are zero or have their two outer bits set, other bytes all different    *)
(* from them.                                                              *)
EXTENDS Mcfg

MCTables ==
  {SubSeq([k \in 1..60 |-> IF k \in 45..52 THEN b[k] ELSE {k % 8}], 1, n)
     : b \in [45..52 -> {{}, {0, 7}}], n \in {0, 20} \union 44..57}
=============================================================================
