----------------------------- MODULE DstcCodec -----------------------------
(***************************************************************************)
(* What the macros of src/dstc.h and _dstc_queue() make of a call: the     *)
(* bytes of its arguments, of the name or callback reference before them,  *)
(* and of the header before those; and what the receiver reads back.       *)
(*                                                                         *)
(* A byte is <<kind, value, i>>, the i-th of a value of that kind. Memory  *)
(* nobody has written, or that is read as what it is not, gives Junk.      *)
(*                                                                         *)
(* The declaration of an argument is [tag, elem, count]: what its type's   *)
(* name begins with, "DSTC", "CBCK" or another, the sizeof of the type,    *)
(* and its number of elements, 0 unless it is an array. An argument is     *)
(* [value, length], the length of dynamic data, and otherwise 0.           *)
(***************************************************************************)
EXTENDS Naturals, Sequences, SequencesExt

CONSTANTS
    UINT16_RANGE,   \* 2^16 in the code: the values of a uint16_t
    Junk            \* what is read where no such value is

ASSUME RangeAssumption == UINT16_RANGE \in Nat \ {0}

sizeof_uint16 == 2
sizeof_uint32 == 4
sizeof_callback == 8
sizeof_node_id == 4
sizeof_header == sizeof_node_id + sizeof_uint16

Bytes(kind, value, n) == [i \in 1..n |-> <<kind, value, i>>]
Nul == <<"name", "", 1>>

\* The value of that kind in the n bytes after the first "at".
Read(kind, cells, at, n) ==
    IF at + n <= Len(cells) /\ n > 0
       /\ SubSeq(cells, at + 1, at + n) = Bytes(kind, cells[at + 1][2], n)
    THEN cells[at + 1][2]
    ELSE Junk

ReadNumber(cells, at) ==
    IF Read("number", cells, at, sizeof_uint16) \in Nat
    THEN Read("number", cells, at, sizeof_uint16) ELSE 0

---------------------------------------------------------------------------
(* Arguments.                                                              *)

\* DSTC_DYNAMIC_ARG() and DSTC_STRING_ARG() keep the length in 16 bits.
DSTC_DYNAMIC_ARG(data, length) == [value |-> data, length |-> length % UINT16_RANGE]

SizeOf(decl) == decl.elem * (IF decl.count = 0 THEN 1 ELSE decl.count)

\* An array's name is a pointer. What tells the two apart is their sizes, and so
\* the pointer is copied for an array of one element.
SERIALIZE_ARGUMENT(decl, arg) ==
    CASE decl.tag = "DSTC" ->
            Bytes("number", arg.length, sizeof_uint16) \o Bytes("data", arg.value, arg.length)
      [] decl.tag = "CBCK" -> Bytes("ref", arg.value, sizeof_callback)
      [] OTHER -> Bytes(IF decl.count = 1 THEN "pointer" ELSE decl.tag, arg.value, SizeOf(decl))

\* Two bytes more than dynamic data takes: its length is counted as four.
SIZE_ARGUMENT(decl, arg) ==
    IF decl.tag = "DSTC" THEN sizeof_uint32 + arg.length ELSE SizeOf(decl)

SERIALIZE_ARGUMENTS(decls, args) ==
    FlattenSeq([i \in DOMAIN decls |-> SERIALIZE_ARGUMENT(decls[i], args[i])])

SIZE_ARGUMENTS(decls, args) ==
    LET size[i \in 0..Len(decls)] ==
            IF i = 0 THEN 0 ELSE size[i - 1] + SIZE_ARGUMENT(decls[i], args[i])
    IN size[Len(decls)]

\* A faulty variant stands before the definition it changes; it is in no
\* specification, and some property must refute it.
DESERIALIZE_ARGUMENT_WideLength(decl, cells, at) ==
    CASE decl.tag = "DSTC" ->
            LET length == ReadNumber(cells, at)
            IN [arg |-> [value |-> Read("data", cells, at + sizeof_uint16, length),
                         length |-> length],
                next |-> at + sizeof_uint32 + length]
      [] decl.tag = "CBCK" ->
            [arg |-> [value |-> Read("ref", cells, at, sizeof_callback), length |-> 0],
             next |-> at + sizeof_callback]
      [] OTHER ->
            [arg |-> [value |-> Read(decl.tag, cells, at, SizeOf(decl)), length |-> 0],
             next |-> at + SizeOf(decl)]

\* The argument that begins after "at" bytes, and where the next one does. Dynamic
\* data stays where it is: the argument points into the packet.
DESERIALIZE_ARGUMENT(decl, cells, at) ==
    CASE decl.tag = "DSTC" ->
            LET length == ReadNumber(cells, at)
            IN [arg |-> [value |-> Read("data", cells, at + sizeof_uint16, length),
                         length |-> length],
                next |-> at + sizeof_uint16 + length]
      [] decl.tag = "CBCK" ->
            [arg |-> [value |-> Read("ref", cells, at, sizeof_callback), length |-> 0],
             next |-> at + sizeof_callback]
      [] OTHER ->
            [arg |-> [value |-> Read(decl.tag, cells, at, SizeOf(decl)), length |-> 0],
             next |-> at + SizeOf(decl)]

DESERIALIZE_ARGUMENTS(decls, cells, at) ==
    LET read == [i \in DOMAIN decls |-> [from \in Nat |->
                    DESERIALIZE_ARGUMENT(decls[i], cells, from)]]
        start[i \in 0..Len(decls)] ==
            IF i = 0 THEN at ELSE read[i][start[i - 1]].next
    IN [i \in DOMAIN decls |-> read[i][start[i - 1]].arg]

---------------------------------------------------------------------------
(* Calls: [name, ref, args], with name "" to invoke a callback by its ref.  *)

\* The argument buffer of the function DSTC_CLIENT() or DSTC_SERVER_CALLBACK()
\* makes: what is over is whatever was on the stack.
arg_buf(decls, args) ==
    LET arg_sz == SIZE_ARGUMENTS(decls, args)
    IN SubSeq(SERIALIZE_ARGUMENTS(decls, args) \o Bytes("stack", Junk, arg_sz), 1, arg_sz)

Identity(call) ==
    IF call.name = "" THEN <<Nul>> \o Bytes("ref", call.ref, sizeof_callback)
    ELSE Bytes("name", call.name, 1) \o <<Nul>>

\* A framed call, as _dstc_queue() lays it out. The length has 16 bits.
Frame(node_id, call, arg) ==
    Bytes("node", node_id, sizeof_node_id)
        \o Bytes("number", (Len(Identity(call)) + Len(arg)) % UINT16_RANGE, sizeof_uint16)
        \o Identity(call) \o arg

=============================================================================
