-------------------------- MODULE MCDstcDirectory --------------------------
(***************************************************************************)
(* DstcDirectory for TLC: two nodes that may offer the same two functions, *)
(* and tables of three rows: one fewer than the pairs there are to enter,  *)
(* and room for two registrations in each process.                         *)
(***************************************************************************)
EXTENDS DstcDirectory
============================================================================
