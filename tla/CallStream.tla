---------------------------- MODULE CallStream ----------------------------
(***************************************************************************)
(* What the outbound half of DSTC promises the program that calls a        *)
(* DSTC_CLIENT function: the calls it was told are accepted (result 0)     *)
(* leave the process as one stream, in the order in which they were        *)
(* accepted, each exactly once, however they are batched into packets.     *)
(***************************************************************************)
EXTENDS Naturals, Sequences

CONSTANT Call

VARIABLES
    accepted,   \* every call the program was told is accepted, in order
    delivered   \* the calls that have left, in order

vars == <<accepted, delivered>>

Init ==
    /\ accepted = <<>>
    /\ delivered = <<>>

\* Some (perhaps no) further calls of stream leave, oldest first.
Advance(stream) ==
    \E n \in Len(delivered) .. Len(stream) : delivered' = SubSeq(stream, 1, n)

\* A call is accepted once; accepting it may also push the stream out.
Accept(call) ==
    /\ \A i \in 1 .. Len(accepted) : accepted[i] # call
    /\ accepted' = Append(accepted, call)
    /\ Advance(accepted')

Deliver ==
    /\ Advance(accepted)
    /\ UNCHANGED accepted

Next ==
    \/ \E call \in Call : Accept(call)
    \/ Deliver

Spec == Init /\ [][Next]_vars
===========================================================================
