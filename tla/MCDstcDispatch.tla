--------------------------- MODULE MCDstcDispatch ---------------------------
(***************************************************************************)
(* DstcDispatch for TLC. The receiver has f and g, not h. The instance has *)
(* a 16-bit number of less range, so that dynamic data outgrows it.        *)
(***************************************************************************)
EXTENDS DstcDispatch

Dynamic == [tag |-> "DSTC", elem |-> 16, count |-> 0]
Callback == [tag |-> "CBCK", elem |-> 8, count |-> 0]
Plain(elem, count) == [tag |-> "int", elem |-> elem, count |-> count]
Arg(value) == [value |-> value, length |-> 0]
Data(length) == [value |-> "d", length |-> length]

MCDecls == [name \in {"f", "g", "h", ""} |->
    CASE name = "f" -> <<Dynamic, Plain(2, 0), Callback>>
      [] name = "g" -> <<Plain(1, 1), Dynamic, Plain(1, 3)>>
      [] name = "h" -> <<>>
      [] name = "" -> <<Plain(2, 0)>>]

MCServerFuncs == <<"g", "f">>

MCCalls == {
    [name |-> "f", ref |-> "", args |-> <<Data(3), Arg("x"), Arg("r")>>],
    [name |-> "g", ref |-> "", args |-> <<Arg("x"), Data(51), Arg("y")>>],
    [name |-> "h", ref |-> "", args |-> <<>>],
    [name |-> "", ref |-> "c", args |-> <<Arg("x")>>]}
=============================================================================
