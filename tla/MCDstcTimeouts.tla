--------------------------- MODULE MCDstcTimeouts ---------------------------
(***************************************************************************)
(* DstcTimeouts for TLC: RMC's timeouts are a millisecond and a half       *)
(* ahead, and a call may find them at any tick since they were set.        *)
(***************************************************************************)
EXTENDS DstcTimeouts
=============================================================================
