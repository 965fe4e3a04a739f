----------------------------- MODULE MCDstcLock -----------------------------
(***************************************************************************)
(* DstcLock for TLC: three threads, each of which may be in a function run *)
(* for an event, and in an operation called there.                         *)
(***************************************************************************)
EXTENDS DstcLock, TLC

Symmetry == Permutations(Threads)
=============================================================================
