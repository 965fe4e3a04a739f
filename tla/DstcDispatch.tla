---------------------------- MODULE DstcDispatch ----------------------------
(***************************************************************************)
(* A call's way from a DSTC_CLIENT function to the DSTC_SERVER function of *)
(* another process: _dstc_queue() frames it in the sender's buffer, the    *)
(* buffer becomes a packet, RMC delivers packets in their order, and       *)
(* dstc_process_incoming() runs what is in them. A function that runs may  *)
(* process events itself: dispatch nests. All of it is under the lock, so  *)
(* that one thread of the receiver is enough (OneThreadInRmc of DstcEvents *)
(* and ExclusiveButForExpiry of DstcLock are about that).                  *)
(***************************************************************************)
EXTENDS DstcCodec, FiniteSets

CONSTANTS
    Calls,              \* bound: the calls the sender makes, [name, ref, args]
    Decls,              \* [name -> declared arguments], "" for the callback's
    ServerFuncs,        \* names of the receiver's functions, in order of registration
    Refs,               \* callback references the receiver may have activated
    Node,               \* the sender's node id
    RMC_MAX_PAYLOAD,
    MaxCalls,           \* bound: how many calls are made
    MaxDispatches       \* bound: how deep dispatch nests

ASSUME NamesAssumption ==
    /\ \A call \in Calls : call.name \in DOMAIN Decls
    /\ ToSet(ServerFuncs) \subseteq DOMAIN Decls \ {""}
ASSUME DeclsAssumption ==
    \A name \in DOMAIN Decls :
        /\ Decls[name] \in Seq([tag : STRING, elem : Nat \ {0}, count : Nat])
        /\ \A i \in DOMAIN Decls[name] : LET decl == Decls[name][i] IN
              decl.tag = "CBCK" => decl.elem = sizeof_callback /\ decl.count = 0
ASSUME CallsAssumption ==
    \A call \in Calls :
        /\ call.name # "" => call.ref = ""
        /\ call.args = [i \in DOMAIN Decls[call.name] |->
                [value |-> call.args[i].value, length |-> call.args[i].length]]
        /\ \A i \in DOMAIN call.args :
              call.args[i].length \in IF Decls[call.name][i].tag = "DSTC" THEN Nat ELSE {0}
ASSUME BufferAssumption == RMC_MAX_PAYLOAD \in 1..UINT16_RANGE - 1
ASSUME BoundAssumption == MaxCalls \in Nat /\ MaxDispatches \in Nat \ {0}

VARIABLES
    pub_buffer,     \* the bytes of the sender's buffer
    packets,        \* the payloads handed to RMC, in order
    made,           \* history: the calls the sender was told are accepted, in order
    buffered,       \* history: the numbers of those in the buffer, in their order
    contents,       \* history: and of those in each packet
    arrived,        \* how many the receiver's RMC has ready for dispatch, or had
    dispatched,     \* how many of those were marked as dispatched
    freed,          \* those whose payload was freed
    callbacks,      \* references of the callbacks that are activated
    stack,          \* running dstc_process_incoming()s, innermost last
    ran             \* history: what ran, in the order in which it was begun

sender == <<pub_buffer, packets, made, buffered, contents>>
vars == <<sender, arrived, dispatched, freed, callbacks, stack, ran>>

---------------------------------------------------------------------------
(* The sender.                                                             *)

\* The arguments as the calling program packs them.
Packed(call) ==
    [i \in DOMAIN call.args |->
        IF Decls[call.name][i].tag = "DSTC"
        THEN DSTC_DYNAMIC_ARG(call.args[i].value, call.args[i].length)
        ELSE call.args[i]]

\* Every call, and the bytes that frame it.
Framed ==
    {[call |-> call, bytes |-> Frame(Node, call, arg_buf(Decls[call.name], Packed(call)))] :
        call \in Calls}

HandOver(cells, numbers) ==
    /\ packets' = Append(packets, cells)
    /\ contents' = Append(contents, numbers)
    /\ pub_buffer' = <<>>
    /\ buffered' = <<>>

\* A faulty variant stands before the definition it changes; it is in no
\* specification, and some property must refute it.
_dstc_queue_NewestFirst(call, frame) ==
    /\ Len(made) < MaxCalls
    /\ Len(pub_buffer) + Len(frame) <= RMC_MAX_PAYLOAD
    /\ made' = Append(made, call)
    /\ pub_buffer' = frame \o pub_buffer
    /\ buffered' = <<Len(made')>> \o buffered
    /\ UNCHANGED <<packets, contents>>
    /\ UNCHANGED <<arrived, dispatched, freed, callbacks, stack, ran>>

\* A call is framed in the buffer; unless the program buffers calls, or traffic is
\* suspended, the buffer is handed over. Without room for the call it is handed over
\* for that, and the call refused: the program makes it again, or not.
_dstc_queue(call, frame) ==
    /\ Len(made) < MaxCalls
    /\ IF Len(pub_buffer) + Len(frame) <= RMC_MAX_PAYLOAD
       THEN /\ made' = Append(made, call)
            /\ \/ /\ pub_buffer' = pub_buffer \o frame
                  /\ buffered' = Append(buffered, Len(made'))
                  /\ UNCHANGED <<packets, contents>>
               \/ HandOver(pub_buffer \o frame, Append(buffered, Len(made')))
       ELSE pub_buffer # <<>> /\ HandOver(pub_buffer, buffered) /\ UNCHANGED made
    /\ UNCHANGED <<arrived, dispatched, freed, callbacks, stack, ran>>

dstc_flush_client_calls ==
    /\ pub_buffer # <<>>
    /\ HandOver(pub_buffer, buffered)
    /\ UNCHANGED made
    /\ UNCHANGED <<arrived, dispatched, freed, callbacks, stack, ran>>

---------------------------------------------------------------------------
(* The receiver. A frame of dispatch: the packet, 0 when the next one is   *)
(* to be taken; the bytes of it that are processed and the number of calls *)
(* in them; and whether a function is running.                             *)

Top == stack[Len(stack)]
SetTop(frame) == stack' = [stack EXCEPT ![Len(stack)] = frame]
NoPacket == [pack |-> 0, ind |-> 0, nth |-> 0, running |-> FALSE]
Dispatching == stack # <<>> /\ ~Top.running
Payload == packets[Top.pack]
OnStack == {stack[i].pack : i \in DOMAIN stack} \ {0}

\* Events are processed, by the program or by a function that runs, and one is a
\* read that completes packets: RMC calls dstc_process_incoming().
ReadEvent ==
    /\ stack # <<>> => Top.running
    /\ Len(stack) < MaxDispatches
    /\ \E n \in arrived + 1..Len(packets) : arrived' = n
    /\ stack' = Append(stack, NoPacket)
    /\ UNCHANGED <<sender, dispatched, freed, callbacks, ran>>

TakePacket_Unmarked ==
    /\ Dispatching
    /\ Top.pack = 0
    /\ IF dispatched < arrived
       THEN SetTop([NoPacket EXCEPT !.pack = dispatched + 1])
       ELSE stack' = Front(stack)
    /\ UNCHANGED <<sender, arrived, dispatched, freed, callbacks, ran>>

TakePacket_FreesPayload ==
    /\ Dispatching
    /\ Top.pack = 0
    /\ IF dispatched < arrived
       THEN /\ SetTop([NoPacket EXCEPT !.pack = dispatched + 1])
            /\ dispatched' = dispatched + 1
            /\ freed' = freed \cup {dispatched'}
       ELSE /\ stack' = Front(stack)
            /\ UNCHANGED <<dispatched, freed>>
    /\ UNCHANGED <<sender, arrived, callbacks, ran>>

\* The loop of dstc_process_incoming(): the next packet is taken, and marked as
\* dispatched before any of its calls is made.
TakePacket ==
    /\ Dispatching
    /\ Top.pack = 0
    /\ IF dispatched < arrived
       THEN /\ SetTop([NoPacket EXCEPT !.pack = dispatched + 1])
            /\ dispatched' = dispatched + 1
       ELSE /\ stack' = Front(stack)
            /\ UNCHANGED dispatched
    /\ UNCHANGED <<sender, arrived, freed, callbacks, ran>>

\* The function of that name that was registered last, as a set of at most one.
_dstc_find_server_function(name) ==
    LET found == {i \in DOMAIN ServerFuncs : ServerFuncs[i] = name}
    IN {i \in found : \A j \in found : j <= i}

Name == Read("name", Payload, Top.ind + sizeof_header, 1)
PayloadLen == ReadNumber(Payload, Top.ind + sizeof_node_id)
Remaining == Len(Payload) - Top.ind

NextCall_CountsNul(frame, size) ==
    [frame EXCEPT !.ind = @ + size + 1, !.nth = @ + 1, !.running = FALSE]

\* What is skipped over or has run: on to the next call of the packet.
NextCall(frame, size) ==
    [frame EXCEPT !.ind = @ + size, !.nth = @ + 1, !.running = FALSE]

\* What the dispatch function reads of the arguments, and what it calls.
Run(name, ref, skip) ==
    /\ ran' = Append(ran,
                [pack |-> Top.pack, nth |-> Top.nth + 1, name |-> name, ref |-> ref,
                 args |-> DESERIALIZE_ARGUMENTS(Decls[name], Payload,
                                                Top.ind + sizeof_header + skip),
                 under |-> {stack[i].pack : i \in 1..Len(stack) - 1}])
    /\ SetTop([Top EXCEPT !.running = TRUE])

\* The next call of the packet. A header or a payload that is cut short ends the
\* packet; what is not known here is skipped. A callback is deactivated when found.
dstc_process_function_call ==
    /\ Dispatching
    /\ Top.pack # 0
    /\ Top.ind < Len(Payload)
    /\ IF Remaining < sizeof_header \/ Remaining - sizeof_header < PayloadLen
       THEN SetTop(NextCall(Top, Remaining)) /\ UNCHANGED <<callbacks, ran>>
       ELSE IF Name # ""
       THEN IF _dstc_find_server_function(Name) # {}
            THEN Run(Name, "", 2) /\ UNCHANGED callbacks
            ELSE SetTop(NextCall(Top, sizeof_header + PayloadLen)) /\ UNCHANGED <<callbacks, ran>>
       ELSE LET ref == Read("ref", Payload, Top.ind + sizeof_header + 1, sizeof_callback)
            IN IF ref \in callbacks
               THEN Run("", ref, 1 + sizeof_callback) /\ callbacks' = callbacks \ {ref}
               ELSE SetTop(NextCall(Top, sizeof_header + PayloadLen))
                    /\ UNCHANGED <<callbacks, ran>>
    /\ UNCHANGED <<sender, arrived, dispatched, freed>>

FunctionReturns_DropsRest ==
    /\ stack # <<>> /\ Top.running
    /\ SetTop(NextCall(Top, Len(Payload)))
    /\ UNCHANGED <<sender, arrived, dispatched, freed, callbacks, ran>>

\* The length is read again from the payload, which has to be there still.
FunctionReturns ==
    /\ stack # <<>> /\ Top.running
    /\ SetTop(NextCall(Top, sizeof_header + PayloadLen))
    /\ UNCHANGED <<sender, arrived, dispatched, freed, callbacks, ran>>

FreePayload ==
    /\ Dispatching
    /\ Top.pack # 0
    /\ Top.ind >= Len(Payload)
    /\ freed' = freed \cup {Top.pack}
    /\ SetTop(NoPacket)
    /\ UNCHANGED <<sender, arrived, dispatched, callbacks, ran>>

---------------------------------------------------------------------------
Init ==
    /\ pub_buffer = <<>> /\ packets = <<>>
    /\ made = <<>> /\ buffered = <<>> /\ contents = <<>>
    /\ arrived = 0 /\ dispatched = 0
    /\ freed = {}
    /\ callbacks \in SUBSET Refs
    /\ stack = <<>>
    /\ ran = <<>>

Receive ==
    ReadEvent \/ TakePacket \/ dstc_process_function_call \/ FunctionReturns \/ FreePayload

Next ==
    \/ \E framed \in Framed : _dstc_queue(framed.call, framed.bytes)
    \/ dstc_flush_client_calls
    \/ Receive

\* The sender flushes what it has buffered; RMC delivers; the receiver goes on
\* processing events, and its functions return.
Spec ==
    /\ Init /\ [][Next]_vars
    /\ WF_vars(dstc_flush_client_calls)
    /\ WF_vars(Receive)

---------------------------------------------------------------------------
(* Type invariant.                                                         *)

FrameSet == [pack : 0..Len(packets), ind : Nat, nth : Nat, running : BOOLEAN]

TypeOK ==
    /\ Len(pub_buffer) <= RMC_MAX_PAYLOAD
    /\ made \in Seq(Calls)
    /\ FlattenSeq(contents) \o buffered = [i \in 1..Len(made) |-> i]
    /\ Len(contents) = Len(packets)
    /\ \A p \in DOMAIN packets : Len(packets[p]) \in 1..RMC_MAX_PAYLOAD
    /\ arrived \in 0..Len(packets)
    /\ dispatched \in 0..arrived
    /\ freed \subseteq 1..dispatched
    /\ callbacks \subseteq Refs
    /\ stack \in Seq(FrameSet) /\ Len(stack) <= MaxDispatches
    /\ \A i \in DOMAIN stack : stack[i].pack # 0 =>
          stack[i].ind <= Len(packets[stack[i].pack])
    /\ \A i \in DOMAIN ran : ran[i].nth \in DOMAIN contents[ran[i].pack]

---------------------------------------------------------------------------
(* Safety.                                                                 *)

Number(run) == contents[run.pack][run.nth]

\* What runs is the function or callback that was called, with the arguments of the
\* call, wherever in a packet its bytes are and whatever arguments come before. Lost
\* are only the end of dynamic data that does not fit 16 bits, and what is in an
\* array of one element, though "all scalars, arrays, unions and structs can be
\* transmitted" (README.md:34): its pointer is sent.
Survives(decl, arg) ==
    IF decl.tag = "DSTC" THEN arg.length \in 1..UINT16_RANGE - 1 ELSE decl.count # 1
RunsWhatWasSent ==
    \A i \in DOMAIN ran :
        LET call == made[Number(ran[i])]
        IN /\ ran[i].name = call.name
           /\ ran[i].ref = call.ref
           /\ Len(ran[i].args) = Len(call.args)
           /\ \A a \in DOMAIN call.args :
                 Survives(Decls[call.name][a], call.args[a]) => ran[i].args[a] = call.args[a]

\* A call runs once, though a function that runs may process events and meet the very
\* packet it is from; a callback that is activated once, once, however often invoked.
EachRunOnce ==
    \A i, j \in DOMAIN ran : i # j =>
        /\ Number(ran[i]) # Number(ran[j])
        /\ ran[i].name = "" => <<ran[i].name, ran[i].ref>> # <<ran[j].name, ran[j].ref>>

\* The payload a function's arguments point into is not freed before the function
\* returns, nor before the calls behind it have run; and then it is freed.
PayloadsFreedAfterUse == freed = 1..dispatched \ OnStack

\* Calls begin in the order they were made in, but for those that come after a call
\* of their packet which processes events: what comes later may begin before them
\* while that function runs.
OvertakesOnlyFromWithin ==
    \A i, j \in DOMAIN ran :
        i < j /\ Number(ran[j]) < Number(ran[i]) => ran[j].pack \in ran[i].under

---------------------------------------------------------------------------
(* Liveness.                                                               *)

\* Every accepted call to a function the receiver has runs in the end.
Known(k) == k <= Len(made) /\ _dstc_find_server_function(made[k].name) # {}
EveryCallRuns ==
    \A k \in 1..MaxCalls : Known(k) ~> \E i \in DOMAIN ran : Number(ran[i]) = k

=============================================================================
