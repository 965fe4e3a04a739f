-------------------------- MODULE MCDstcCallbacks --------------------------
(***************************************************************************)
(* DstcCallbacks for TLC: two functions and a table of three      *)
(* slots, which more activations than it holds can fill.                   *)
(***************************************************************************)
EXTENDS DstcCallbacks, TLC

Symmetry == Permutations(Funcs)
============================================================================
