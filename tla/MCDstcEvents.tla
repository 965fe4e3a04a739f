---------------------------- MODULE MCDstcEvents ----------------------------
(***************************************************************************)
(* DstcEvents for TLC: a thread in the library's loop, whose functions     *)
(* process events too, and one in a loop of its own. Some descriptors      *)
(* share a hash value and others but a bucket.                             *)
(***************************************************************************)
EXTENDS DstcEvents

MCHash == <<1, 1, 3, 5, 1>>
MCMaxFrames == [t \in Threads |-> IF t \in UserThreads THEN 1 ELSE 2]
=============================================================================
