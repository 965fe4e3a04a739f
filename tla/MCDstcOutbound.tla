-------------------------- MODULE MCDstcOutbound --------------------------
(***************************************************************************)
(* DstcOutbound for TLC: two threads, a buffer of three units, calls that  *)
(* fill a third, two thirds, or more than all of it, and RMC suspending at *)
(* two packets and restarting when it is empty.                            *)
(***************************************************************************)
EXTENDS DstcOutbound

MCSizes == {1, 2, 4}
===========================================================================
