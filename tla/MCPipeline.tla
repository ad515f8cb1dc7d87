------------------------------ MODULE MCPipeline ------------------------------
(* Instances of Pipeline for TLC: every byte of a file has a value of its own. *)
EXTENDS Pipeline

CONSTANT Lengths

MCFiles == {[i \in 0 .. n - 1 |-> i + 1] : n \in Lengths}
=============================================================================
