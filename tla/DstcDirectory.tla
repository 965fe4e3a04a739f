--------------------------- MODULE DstcDirectory ---------------------------
(***************************************************************************)
(* How a DSTC client learns which functions it can call (src/dstc.c). The  *)
(* client announces itself; every server node that hears it subscribes to  *)
(* it, and when its subscription is complete sends one control message for *)
(* each DSTC_SERVER function it has. The client enters them in its table   *)
(* remote_node, which dstc_remote_function_available() searches.           *)
(*                                                                         *)
(* RMC carries the control messages of a node in order over a connection   *)
(* that can break at any time, with the messages in it, and be made again. *)
(* A node that restarts has a new node id and is another node here.        *)
(***************************************************************************)
EXTENDS Naturals, Sequences, FiniteSets, SequencesExt

CONSTANTS
    Nodes,      \* the ids of server nodes
    Self,       \* the client's own node id
    Funcs,      \* function names
    TableSize,  \* SYMTAB_SIZE
    Nil         \* node id 0 and the empty name of a cleared row

ASSUME TableSizeAssumption == TableSize \in Nat \ {0}
ASSUME NodeAssumption == Self \notin Nodes /\ Nil \notin Nodes \cup {Self} \cup Funcs

Row == [node_id : Nodes, func_name : Funcs]
NoRow == [node_id |-> Nil, func_name |-> Nil]

VARIABLES
    remote_node,   \* the client's table; its length is remote_node_ind
    client_func,   \* the client's DSTC_CLIENT functions, as registered
    announcing,    \* "no" before setup, then whether setup started announcing
    server_func,   \* server_func[n]: the functions of node n, as registered
    link,          \* link[n]: is n subscribed to the client
    control,       \* control[n]: n's control messages on their way
    subscribed,    \* history: the functions n had when its subscription completed
    received,      \* history: the rows whose messages the client has handled
    exited         \* the processes that found a table full and called exit(255)

clientVars == <<remote_node, client_func, announcing, received>>
vars == <<clientVars, server_func, link, control, subscribed, exited>>

TypeOK ==
    /\ remote_node \in Seq(Row \cup {NoRow}) /\ Len(remote_node) <= TableSize
    /\ client_func \in Seq(Funcs) /\ Len(client_func) < TableSize
    /\ announcing \in {"unset", "yes", "no"}
    /\ server_func \in [Nodes -> Seq(Funcs)]
    /\ \A n \in Nodes : Len(server_func[n]) < TableSize
    /\ link \in [Nodes -> BOOLEAN]
    /\ control \in [Nodes -> Seq(Funcs)]
    /\ subscribed \in [Nodes -> SUBSET Funcs]
    /\ received \subseteq Row
    /\ exited \subseteq Nodes \cup {Self}

Init ==
    /\ remote_node = <<>>
    /\ client_func = <<>>
    /\ announcing = "unset"
    /\ server_func = [n \in Nodes |-> <<>>]
    /\ link = [n \in Nodes |-> FALSE]
    /\ control = [n \in Nodes |-> <<>>]
    /\ subscribed = [n \in Nodes |-> {}]
    /\ received = {}
    /\ exited = {}

\* Node n has a row for function f.
Known(n, f) ==
    \E i \in 1 .. Len(remote_node) :
        remote_node[i] = [node_id |-> n, func_name |-> f]

dstc_remote_function_available_by_name(f) ==
    \E i \in 1 .. Len(remote_node) :
        remote_node[i].node_id # Nil /\ remote_node[i].func_name = f

\* The query by function pointer knows the client's own functions only.
dstc_remote_function_available(f) ==
    f \in ToSet(client_func) /\ dstc_remote_function_available_by_name(f)

---------------------------------------------------------------------------
(* The client registers its functions and is set up.                       *)

dstc_register_client_function(f) ==
    /\ Self \notin exited
    /\ IF Len(client_func) = TableSize - 1
       THEN exited' = exited \cup {Self} /\ UNCHANGED client_func
       ELSE client_func' = Append(client_func, f) /\ UNCHANGED exited
    /\ UNCHANGED <<remote_node, announcing, received, server_func, link, control,
                   subscribed>>

\* dstc_setup_internal(): only a client that has functions (or callbacks, which
\* count the same) announces itself.
dstc_setup ==
    /\ announcing = "unset" /\ Self \notin exited
    /\ announcing' = IF client_func = <<>> THEN "no" ELSE "yes"
    /\ remote_node' = <<>>
    /\ UNCHANGED <<client_func, received, server_func, link, control, subscribed,
                   exited>>

---------------------------------------------------------------------------
(* The nodes.                                                              *)

dstc_register_server_function(n, f) ==
    /\ n \notin exited
    /\ IF Len(server_func[n]) = TableSize - 1
       THEN exited' = exited \cup {n} /\ UNCHANGED server_func
       ELSE server_func' = [server_func EXCEPT ![n] = Append(@, f)] /\ UNCHANGED exited
    /\ UNCHANGED <<clientVars, link, control, subscribed>>

Announcement_MissesFirst(n) == SubSeq(Reverse(server_func[n]), 1, Len(server_func[n]) - 1)

\* The messages dstc_subscription_complete() writes: last registered first.
Announcement(n) == Reverse(server_func[n])

dstc_subscription_complete(n) ==
    /\ announcing = "yes"
    /\ exited \cap {n, Self} = {} /\ ~link[n]
    /\ link' = [link EXCEPT ![n] = TRUE]
    /\ control' = [control EXCEPT ![n] = Announcement(n)]
    /\ subscribed' = [subscribed EXCEPT ![n] = ToSet(server_func[n])]
    /\ UNCHANGED <<clientVars, server_func, exited>>

---------------------------------------------------------------------------
(* The client's callbacks from RMC.                                        *)

\* Faulty variants stand before the definition they change: they are in no
\* specification, and some property must refute each of them.
dstc_register_remote_function_KeepsDuplicates(n, f) ==
    IF Len(remote_node) = TableSize
    THEN exited' = exited \cup {Self} /\ UNCHANGED remote_node
    ELSE /\ remote_node' = Append(remote_node, [node_id |-> n, func_name |-> f])
         /\ UNCHANGED exited

dstc_register_remote_function_ByNameOnly(n, f) ==
    \/ /\ dstc_remote_function_available_by_name(f)
       /\ UNCHANGED <<remote_node, exited>>
    \/ /\ ~dstc_remote_function_available_by_name(f)
       /\ dstc_register_remote_function_KeepsDuplicates(n, f)

dstc_register_remote_function_NoLimit(n, f) ==
    /\ remote_node' = IF Known(n, f) THEN remote_node
                      ELSE Append(remote_node, [node_id |-> n, func_name |-> f])
    /\ UNCHANGED exited

\* A row is entered once. A cleared row is not used again: with the table at its
\* end, the process exits.
dstc_register_remote_function(n, f) ==
    \/ /\ Known(n, f)
       /\ UNCHANGED <<remote_node, exited>>
    \/ /\ ~Known(n, f) /\ Len(remote_node) = TableSize
       /\ exited' = exited \cup {Self} /\ UNCHANGED remote_node
    \/ /\ ~Known(n, f) /\ Len(remote_node) < TableSize
       /\ remote_node' = Append(remote_node, [node_id |-> n, func_name |-> f])
       /\ UNCHANGED exited

dstc_subscriber_control_message_cb(n) ==
    /\ control[n] # <<>> /\ Self \notin exited
    /\ control' = [control EXCEPT ![n] = Tail(@)]
    /\ received' = received \cup {[node_id |-> n, func_name |-> Head(control[n])]}
    /\ dstc_register_remote_function(n, Head(control[n]))
    /\ UNCHANGED <<client_func, announcing, server_func, link, subscribed>>

dstc_unregister_remote_node(id) ==
    remote_node' = [i \in 1 .. Len(remote_node) |->
                        IF remote_node[i].node_id = id THEN NoRow ELSE remote_node[i]]

\* The connection to node n breaks. The callback asks RMC for the node id of the
\* publisher, which is the client itself.
dstc_subscriber_disconnect_cb(n) ==
    /\ link[n] /\ Self \notin exited
    /\ link' = [link EXCEPT ![n] = FALSE]
    /\ control' = [control EXCEPT ![n] = <<>>]
    /\ dstc_unregister_remote_node(Self)
    /\ UNCHANGED <<client_func, announcing, received, server_func, subscribed, exited>>

Next ==
    \/ dstc_setup
    \/ \E f \in Funcs : dstc_register_client_function(f)
    \/ \E n \in Nodes, f \in Funcs : dstc_register_server_function(n, f)
    \/ \E n \in Nodes :
          \/ dstc_subscription_complete(n)
          \/ dstc_subscriber_control_message_cb(n)
          \/ dstc_subscriber_disconnect_cb(n)

\* The client processes events.
Fairness == \A n \in Nodes : WF_vars(dstc_subscriber_control_message_cb(n))

Spec == Init /\ [][Next]_vars /\ Fairness

---------------------------------------------------------------------------
(* Properties.                                                             *)

\* A subscribed node's functions, those it had when its subscription completed,
\* are each in the table or still in the connection: no announcement is skipped and
\* no other node's message, disconnect or reconnect takes it away.
SubscribedKnown ==
    Self \notin exited =>
        \A n \in Nodes : link[n] =>
            \A f \in subscribed[n] : Known(n, f) \/ f \in ToSet(control[n])

\* The client exits only when its table of functions is used up: more different
\* rows have been announced than it has, however often nodes registered them,
\* reconnected and announced them again, or it registered too many functions.
ExitOnlyWhenFull ==
    Self \in exited =>
        \/ Cardinality(received) > TableSize
        \/ Len(client_func) = TableSize - 1

\* A client that processes events comes to know every function of a node that
\* stays connected, also when another node offers the function already.
BecomesKnown ==
    \A n \in Nodes, f \in Funcs :
        link[n] /\ f \in subscribed[n]
            ~> Known(n, f) \/ ~link[n] \/ Self \in exited

\* dstc.c:784-785: "Setup a callback for subscriber disconnect, meaning that remote
\* nodes with functions that we can call can no longer be used." So a function that
\* is available to the client is one that some subscribed node has.
AvailableIsServed ==
    \A f \in Funcs : dstc_remote_function_available(f) =>
        \E n \in Nodes : link[n] /\ f \in subscribed[n]
============================================================================
