---------------------------- MODULE TxPipelineMC ----------------------------
(* Small instances of TxPipeline for TLC.                                   *)
EXTENDS TxPipeline

CONSTANTS j1, j2, j3, n1, n2, n3

(* Every job spends a nullifier of its own.                                 *)
Distinct == [j \in Jobs |-> CASE j = j1 -> n1 [] j = j2 -> n2 [] OTHER -> n3]
(* The first two jobs spend the same nullifier.                             *)
Shared == [j \in Jobs |-> IF j \in {j1, j2} THEN n1 ELSE n2]
=============================================================================
