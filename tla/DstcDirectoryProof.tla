------------------------- MODULE DstcDirectoryProof -------------------------
(***************************************************************************)
(* Proofs about DstcDirectory, for any nodes, functions and size of the    *)
(* table. They rest on what a disconnect really does: the rows it takes    *)
(* out are those of the client's own id, and no such row is ever entered,  *)
(* so that rows once entered stay as they are.                             *)
(***************************************************************************)
EXTENDS DstcDirectory, FiniteSetTheorems, TLAPS

USE TableSizeAssumption, NodeAssumption

\* The rows of the table, as a set; each is entered once, and none is cleared.
Rows == {remote_node[i] : i \in 1..Len(remote_node)}
Once ==
    \A i, j \in 1..Len(remote_node) : remote_node[i] = remote_node[j] => i = j

\* Before the client announces itself nobody is connected and nothing is known.
Quiet ==
    announcing # "yes" =>
        /\ remote_node = <<>>
        /\ received = {}
        /\ \A n \in Nodes : ~link[n] /\ control[n] = <<>>

\* What was received is in the table, as long as it has room.
Recorded == Self \notin exited => received = Rows

IInv ==
    /\ TypeOK
    /\ remote_node \in Seq(Row)
    /\ Quiet
    /\ Once
    /\ Recorded
    /\ SubscribedKnown
    /\ ExitOnlyWhenFull

---------------------------------------------------------------------------
(* Sequences.                                                              *)

LEMMA SetOfReverse ==
    ASSUME NEW S, NEW s \in Seq(S)
    PROVE  Reverse(s) \in Seq(S) /\ ToSet(Reverse(s)) = ToSet(s)
  <1>1. /\ DOMAIN Reverse(s) = 1..Len(s)
        /\ \A i \in 1..Len(s) : Reverse(s)[i] = s[(Len(s) - i) + 1]
    BY DEF Reverse
  <1>2. \A i \in 1..Len(s) : (Len(s) - i) + 1 \in 1..Len(s)
    OBVIOUS
  <1>3. Reverse(s) \in Seq(S)
    BY <1>2 DEF Reverse
  <1>4. ASSUME NEW i \in 1..Len(s)
        PROVE  s[i] = Reverse(s)[(Len(s) - i) + 1]
    BY <1>1, <1>2
  <1>5. DOMAIN s = 1..Len(s)
    OBVIOUS
  <1>6. ToSet(Reverse(s)) \subseteq ToSet(s)
    BY <1>1, <1>2, <1>5 DEF ToSet
  <1>7. ToSet(s) \subseteq ToSet(Reverse(s))
    BY <1>1, <1>2, <1>4, <1>5 DEF ToSet
  <1> QED
    BY <1>3, <1>6, <1>7

LEMMA HeadAndTail ==
    ASSUME NEW S, NEW s \in Seq(S), s # <<>>
    PROVE  /\ Head(s) \in S
           /\ Tail(s) \in Seq(S)
           /\ ToSet(s) \subseteq ToSet(Tail(s)) \cup {Head(s)}
  <1>1. Head(s) \in S /\ Tail(s) \in Seq(S) /\ Len(Tail(s)) = Len(s) - 1
    OBVIOUS
  <1>2. ASSUME NEW i \in DOMAIN s, s[i] # Head(s)
        PROVE  s[i] \in ToSet(Tail(s))
    <2>1. i \in 2..Len(s)
      BY <1>2
    <2>2. i - 1 \in DOMAIN Tail(s) /\ Tail(s)[i - 1] = s[i]
      BY <1>1, <2>1
    <2> QED
      BY <2>2 DEF ToSet
  <1> QED
    BY <1>1, <1>2 DEF ToSet

\* A table in which each row is once has as many rows as it is long.
LEMMA AsManyRowsAsLong ==
    ASSUME remote_node \in Seq(Row), Once
    PROVE  IsFiniteSet(Rows) /\ Cardinality(Rows) = Len(remote_node)
  <1> DEFINE D == 1..Len(remote_node)
             f == [i \in D |-> remote_node[i]]
  <1>1. f \in Bijection(D, Rows)
    <2>1. f \in [D -> Rows]
      BY DEF Rows
    <2>2. \A i, j \in D : f[i] = f[j] => i = j
      BY DEF Once
    <2>3. \A r \in Rows : \E i \in D : f[i] = r
      BY DEF Rows
    <2> QED
      BY <2>1, <2>2, <2>3 DEF Bijection, Injection, Surjection, IsInjective
  <1>2. IsFiniteSet(D) /\ Cardinality(D) = Len(remote_node)
    <2>1. Len(remote_node) \in Nat
      OBVIOUS
    <2> QED
      BY <2>1, FS_Interval
  <1>3. ExistsBijection(D, Rows)
    BY <1>1 DEF ExistsBijection
  <1> QED
    BY <1>2, <1>3, FS_Bijection

LEMMA KnownIsRow ==
    ASSUME NEW n, NEW f
    PROVE  Known(n, f) <=> [node_id |-> n, func_name |-> f] \in Rows
  BY DEF Known, Rows

---------------------------------------------------------------------------
(* Each operation keeps the invariant.                                     *)

LEMMA InitHolds == Init => IInv
  <1> SUFFICES ASSUME Init PROVE IInv
    OBVIOUS
  <1> USE DEF Init
  <1>1. TypeOK
    <2>1. Len(remote_node) <= TableSize /\ Len(client_func) < TableSize
      OBVIOUS
    <2> QED
      BY <2>1 DEF TypeOK
  <1>2. Rows = {}
    BY DEF Rows
  <1> QED
    BY <1>1, <1>2 DEF IInv, Quiet, Once, Recorded, SubscribedKnown, ExitOnlyWhenFull

LEMMA SetupKeeps ==
    ASSUME IInv, dstc_setup
    PROVE  IInv'
  <1> USE DEF dstc_setup
  <1>1. remote_node = <<>> /\ remote_node' = <<>>
    BY DEF IInv, Quiet
  <1>2. TypeOK'
    BY <1>1 DEF IInv, TypeOK
  <1>3. Quiet' /\ Once' /\ Recorded' /\ ExitOnlyWhenFull'
    BY <1>1 DEF IInv, Quiet, Once, Recorded, Rows, ExitOnlyWhenFull
  <1>4. SubscribedKnown'
    BY DEF IInv, Quiet, SubscribedKnown
  <1> QED
    BY <1>1, <1>2, <1>3, <1>4 DEF IInv

LEMMA ClientFunctionKeeps ==
    ASSUME IInv, NEW f \in Funcs, dstc_register_client_function(f)
    PROVE  IInv'
  <1> USE DEF dstc_register_client_function
  <1>1. TypeOK'
    <2>1. CASE Len(client_func) = TableSize - 1
      BY <2>1 DEF IInv, TypeOK
    <2>2. CASE Len(client_func) # TableSize - 1
      <3>1. client_func \in Seq(Funcs) /\ Len(client_func) < TableSize
        BY DEF IInv, TypeOK
      <3>2. client_func' = Append(client_func, f)
        BY <2>2
      <3>3. client_func' \in Seq(Funcs) /\ Len(client_func') < TableSize
        BY <2>2, <3>1, <3>2
      <3> QED
        BY <2>2, <3>3 DEF IInv, TypeOK
    <2> QED
      BY <2>1, <2>2
  <1>2. remote_node' \in Seq(Row) /\ Quiet' /\ Once' /\ Rows' = Rows
    BY DEF IInv, Quiet, Once, Rows
  <1>3. Recorded'
    BY <1>2 DEF IInv, Recorded
  <1>4. SubscribedKnown'
    BY DEF IInv, SubscribedKnown, Known
  <1>5. ExitOnlyWhenFull'
    BY DEF IInv, ExitOnlyWhenFull
  <1> QED
    BY <1>1, <1>2, <1>3, <1>4, <1>5 DEF IInv

LEMMA ServerFunctionKeeps ==
    ASSUME IInv, NEW n \in Nodes, NEW f \in Funcs, dstc_register_server_function(n, f)
    PROVE  IInv'
  <1> USE DEF dstc_register_server_function, clientVars
  <1>1. TypeOK'
    <2>1. CASE Len(server_func[n]) = TableSize - 1
      BY <2>1 DEF IInv, TypeOK
    <2>2. CASE Len(server_func[n]) # TableSize - 1
      <3>1. server_func \in [Nodes -> Seq(Funcs)]
        BY DEF IInv, TypeOK
      <3>2. /\ Append(server_func[n], f) \in Seq(Funcs)
            /\ Len(Append(server_func[n], f)) < TableSize
        BY <2>2, <3>1 DEF IInv, TypeOK
      <3>3. server_func' = [server_func EXCEPT ![n] = Append(@, f)]
        BY <2>2
      <3>4. server_func' \in [Nodes -> Seq(Funcs)]
        BY <3>1, <3>2, <3>3
      <3>5. ASSUME NEW m \in Nodes
            PROVE  Len(server_func'[m]) < TableSize
        <4>1. Len(server_func[m]) < TableSize
          BY DEF IInv, TypeOK
        <4> QED
          BY <3>1, <3>2, <3>3, <4>1
      <3> QED
        BY <2>2, <3>4, <3>5 DEF IInv, TypeOK
    <2> QED
      BY <2>1, <2>2
  <1>2. Self \in exited' <=> Self \in exited
    BY DEF IInv, TypeOK
  <1>3. remote_node' \in Seq(Row) /\ Quiet' /\ Once' /\ Rows' = Rows
    BY DEF IInv, Quiet, Once, Rows
  <1>4. Recorded' /\ ExitOnlyWhenFull'
    BY <1>2, <1>3 DEF IInv, Recorded, ExitOnlyWhenFull
  <1>5. SubscribedKnown'
    BY <1>2 DEF IInv, SubscribedKnown, Known
  <1> QED
    BY <1>1, <1>3, <1>4, <1>5 DEF IInv

LEMMA SubscriptionKeeps ==
    ASSUME IInv, NEW n \in Nodes, dstc_subscription_complete(n)
    PROVE  IInv'
  <1> USE DEF dstc_subscription_complete, clientVars
  <1>1. /\ link \in [Nodes -> BOOLEAN]
        /\ control \in [Nodes -> Seq(Funcs)]
        /\ subscribed \in [Nodes -> SUBSET Funcs]
        /\ server_func \in [Nodes -> Seq(Funcs)]
    BY DEF IInv, TypeOK
  <1>2. Announcement(n) \in Seq(Funcs) /\ ToSet(Announcement(n)) = ToSet(server_func[n])
    BY <1>1, SetOfReverse DEF Announcement
  <1>3. ToSet(server_func[n]) \in SUBSET Funcs
    BY <1>1 DEF ToSet
  <1>4. /\ link' \in [Nodes -> BOOLEAN]
        /\ control' \in [Nodes -> Seq(Funcs)]
        /\ subscribed' \in [Nodes -> SUBSET Funcs]
    BY <1>1, <1>2, <1>3
  <1>5. TypeOK'
    BY <1>4 DEF IInv, TypeOK
  <1>6. remote_node' \in Seq(Row) /\ Quiet' /\ Once' /\ Rows' = Rows
    BY DEF IInv, Quiet, Once, Rows
  <1>7. Recorded' /\ ExitOnlyWhenFull'
    BY <1>6 DEF IInv, Recorded, ExitOnlyWhenFull
  <1>8. ASSUME NEW m \in Nodes, link'[m], NEW f \in subscribed'[m]
        PROVE  Known(m, f)' \/ f \in ToSet(control'[m])
    <2>1. CASE m = n
      <3>1. control'[m] = Announcement(n) /\ subscribed'[m] = ToSet(server_func[n])
        BY <1>1, <2>1
      <3> QED
        BY <1>2, <1>8, <3>1
    <2>2. CASE m # n
      <3>1. link[m] /\ control'[m] = control[m] /\ subscribed'[m] = subscribed[m]
        BY <1>1, <1>8, <2>2
      <3>2. Known(m, f) \/ f \in ToSet(control[m])
        BY <1>8, <3>1 DEF IInv, SubscribedKnown
      <3>3. Known(m, f)' <=> Known(m, f)
        BY DEF Known
      <3> QED
        BY <3>1, <3>2, <3>3
    <2> QED
      BY <2>1, <2>2
  <1> QED
    BY <1>5, <1>6, <1>7, <1>8 DEF IInv, SubscribedKnown

\* A message that is handled takes its row from the connection into the table. The
\* step has three cases: the row is there, it is entered, or the table is full.
LEMMA ControlMessageKeeps ==
    ASSUME IInv, NEW n \in Nodes, dstc_subscriber_control_message_cb(n)
    PROVE  IInv' /\ Rows \subseteq Rows'
  <1> DEFINE f == Head(control[n])
             row == [node_id |-> n, func_name |-> f]
  <1> USE DEF dstc_subscriber_control_message_cb
  <1>1. /\ link \in [Nodes -> BOOLEAN]
        /\ control \in [Nodes -> Seq(Funcs)]
        /\ received \subseteq Row
        /\ remote_node \in Seq(Row) /\ Len(remote_node) <= TableSize
        /\ exited \subseteq Nodes \cup {Self}
    BY DEF IInv, TypeOK
  <1>2. /\ control[n] \in Seq(Funcs) /\ control[n] # <<>>
        /\ f \in Funcs /\ Tail(control[n]) \in Seq(Funcs)
        /\ ToSet(control[n]) \subseteq ToSet(Tail(control[n])) \cup {f}
    BY <1>1, HeadAndTail
  <1>3. row \in Row
    BY <1>2 DEF Row
  <1>4. control' \in [Nodes -> Seq(Funcs)] /\ received' \subseteq Row
    BY <1>1, <1>2, <1>3
  <1>5. announcing = "yes" /\ Self \notin exited /\ received = Rows
    BY <1>2 DEF IInv, Quiet, Recorded
  <1>6. received' = Rows \cup {row}
    BY <1>5
  <1>7. /\ remote_node' \in Seq(Row) /\ Len(remote_node') <= TableSize
        /\ exited' \subseteq Nodes \cup {Self}
        /\ Once' /\ Rows \subseteq Rows' /\ ExitOnlyWhenFull'
        /\ Self \notin exited' => Rows' = Rows \cup {row}
    <2>1. CASE Known(n, f) /\ UNCHANGED <<remote_node, exited>>
      <3>1. row \in Rows
        BY <2>1, KnownIsRow
      <3>2. Rows' = Rows
        BY <2>1 DEF Rows
      <3>3. Once'
        BY <2>1 DEF IInv, Once
      <3> QED
        BY <1>1, <1>5, <2>1, <3>1, <3>2, <3>3 DEF ExitOnlyWhenFull
    <2>2. CASE /\ ~Known(n, f) /\ Len(remote_node) = TableSize
               /\ exited' = exited \cup {Self} /\ UNCHANGED remote_node
      <3>1. row \notin Rows
        BY <2>2, KnownIsRow
      <3>2. IsFiniteSet(Rows) /\ Cardinality(Rows) = TableSize
        BY <1>1, <2>2, AsManyRowsAsLong DEF IInv
      <3>3. Cardinality(received') = TableSize + 1
        BY <1>6, <3>1, <3>2, FS_AddElement
      <3>4. Cardinality(received') > TableSize
        BY <3>3
      <3>5. Rows' = Rows
        BY <2>2 DEF Rows
      <3>6. Once'
        BY <2>2 DEF IInv, Once
      <3> QED
        BY <1>1, <2>2, <3>4, <3>5, <3>6 DEF ExitOnlyWhenFull
    <2>3. CASE /\ ~Known(n, f) /\ Len(remote_node) < TableSize
               /\ remote_node' = Append(remote_node, row)
               /\ UNCHANGED exited
      <3>1. row \notin Rows
        BY <2>3, KnownIsRow
      <3>2. /\ remote_node' \in Seq(Row)
            /\ Len(remote_node') = Len(remote_node) + 1
            /\ \A i \in 1..Len(remote_node) : remote_node'[i] = remote_node[i]
            /\ remote_node'[Len(remote_node) + 1] = row
        BY <1>1, <1>3, <2>3
      <3>3. Len(remote_node) \in Nat
        BY <1>1
      <3>4. Rows' = Rows \cup {row}
        BY <3>2, <3>3 DEF Rows
      <3>5. \A i \in 1..Len(remote_node) : remote_node[i] # row
        BY <3>1 DEF Rows
      <3>6. ASSUME NEW i \in 1..Len(remote_node'), NEW j \in 1..Len(remote_node'),
                   remote_node'[i] = remote_node'[j]
            PROVE  i = j
        <4>1. CASE i \in 1..Len(remote_node) /\ j \in 1..Len(remote_node)
          BY <3>2, <3>6, <4>1 DEF IInv, Once
        <4>2. CASE i = Len(remote_node) + 1 \/ j = Len(remote_node) + 1
          BY <3>2, <3>3, <3>5, <3>6, <4>2
        <4> QED
          BY <3>2, <3>3, <4>1, <4>2
      <3>7. Once'
        BY <3>6 DEF Once
      <3> QED
        BY <1>1, <1>5, <2>3, <3>2, <3>4, <3>7 DEF ExitOnlyWhenFull
    <2> QED
      BY <2>1, <2>2, <2>3 DEF dstc_register_remote_function
  <1>8. TypeOK'
    <2>1. Seq(Row) \subseteq Seq(Row \cup {NoRow})
      OBVIOUS
    <2> QED
      BY <1>4, <1>7, <2>1 DEF IInv, TypeOK
  <1>9. Quiet' /\ Recorded'
    BY <1>5, <1>6, <1>7 DEF Quiet, Recorded
  <1>10. ASSUME Self \notin exited', NEW m \in Nodes, link'[m],
                NEW g \in subscribed'[m]
         PROVE  Known(m, g)' \/ g \in ToSet(control'[m])
    <2> DEFINE wanted == [node_id |-> m, func_name |-> g]
    <2>1. Known(m, g)' <=> wanted \in Rows'
      BY DEF Known, Rows
    <2>2. wanted \in Rows \/ g \in ToSet(control[m])
      BY <1>5, <1>10, KnownIsRow DEF IInv, SubscribedKnown
    <2>3. CASE m = n
      <3>1. control'[m] = Tail(control[n])
        BY <1>1, <2>3
      <3>2. wanted \in Rows \/ g \in ToSet(control'[m]) \/ g = f
        BY <1>2, <2>2, <2>3, <3>1
      <3> QED
        BY <1>7, <1>10, <2>1, <2>3, <3>2
    <2>4. CASE m # n
      <3>1. control'[m] = control[m]
        BY <1>1, <2>4
      <3> QED
        BY <1>7, <2>1, <2>2, <3>1
    <2> QED
      BY <2>3, <2>4
  <1> QED
    BY <1>7, <1>8, <1>9, <1>10 DEF IInv, SubscribedKnown

\* A disconnect takes out the rows of the client's own id: there are none.
LEMMA DisconnectKeeps ==
    ASSUME IInv, NEW n \in Nodes, dstc_subscriber_disconnect_cb(n)
    PROVE  IInv' /\ Rows' = Rows
  <1> USE DEF dstc_subscriber_disconnect_cb
  <1>1. /\ link \in [Nodes -> BOOLEAN]
        /\ control \in [Nodes -> Seq(Funcs)]
        /\ remote_node \in Seq(Row)
    BY DEF IInv, TypeOK
  <1>2. remote_node' = remote_node
    <2>1. \A i \in 1..Len(remote_node) : remote_node[i] \in Row
      BY <1>1
    <2>2. \A i \in 1..Len(remote_node) : remote_node[i].node_id # Self
      BY <2>1 DEF Row
    <2>3. remote_node' = [i \in 1..Len(remote_node) |->
                             IF remote_node[i].node_id = Self THEN NoRow
                                                              ELSE remote_node[i]]
      BY DEF dstc_unregister_remote_node
    <2>4. remote_node' = [i \in 1..Len(remote_node) |-> remote_node[i]]
      BY <2>2, <2>3
    <2> QED
      BY <1>1, <2>4
  <1>3. /\ link' \in [Nodes -> BOOLEAN]
        /\ control' \in [Nodes -> Seq(Funcs)]
        /\ \A m \in Nodes : \/ link'[m] = link[m] /\ control'[m] = control[m]
                            \/ ~link'[m] /\ control'[m] = <<>>
    <2>1. <<>> \in Seq(Funcs)
      OBVIOUS
    <2>2. link' \in [Nodes -> BOOLEAN] /\ control' \in [Nodes -> Seq(Funcs)]
      BY <1>1, <2>1
    <2>3. ASSUME NEW m \in Nodes
          PROVE  \/ link'[m] = link[m] /\ control'[m] = control[m]
                 \/ ~link'[m] /\ control'[m] = <<>>
      <3>1. CASE m = n
        BY <1>1, <3>1
      <3>2. CASE m # n
        BY <1>1, <3>2
      <3> QED
        BY <3>1, <3>2
    <2> QED
      BY <2>2, <2>3
  <1>4. TypeOK'
    BY <1>2, <1>3 DEF IInv, TypeOK
  <1>5. Rows' = Rows
    BY <1>2 DEF Rows
  <1>6. Once' /\ Recorded' /\ ExitOnlyWhenFull'
    BY <1>2, <1>5 DEF IInv, Once, Recorded, ExitOnlyWhenFull
  <1>7. Quiet'
    BY <1>2, <1>3 DEF IInv, Quiet
  <1>8. SubscribedKnown'
    BY <1>2, <1>3 DEF IInv, SubscribedKnown, Known
  <1> QED
    BY <1>1, <1>2, <1>4, <1>5, <1>6, <1>7, <1>8 DEF IInv

---------------------------------------------------------------------------
(* Every step keeps the invariant, and keeps the rows of the table.        *)

LEMMA StepKeeps ==
    ASSUME IInv, [Next]_vars
    PROVE  IInv' /\ Rows \subseteq Rows'
  <1>1. CASE dstc_setup
    <2>1. Rows = {}
      BY <1>1 DEF dstc_setup, IInv, Quiet, Rows
    <2> QED
      BY <1>1, <2>1, SetupKeeps
  <1>2. ASSUME NEW f \in Funcs, dstc_register_client_function(f)
        PROVE  IInv' /\ Rows \subseteq Rows'
    BY <1>2, ClientFunctionKeeps DEF dstc_register_client_function, Rows
  <1>3. ASSUME NEW n \in Nodes, NEW f \in Funcs, dstc_register_server_function(n, f)
        PROVE  IInv' /\ Rows \subseteq Rows'
    BY <1>3, ServerFunctionKeeps DEF dstc_register_server_function, clientVars, Rows
  <1>4. ASSUME NEW n \in Nodes, dstc_subscription_complete(n)
        PROVE  IInv' /\ Rows \subseteq Rows'
    BY <1>4, SubscriptionKeeps DEF dstc_subscription_complete, clientVars, Rows
  <1>5. ASSUME NEW n \in Nodes, dstc_subscriber_control_message_cb(n)
        PROVE  IInv' /\ Rows \subseteq Rows'
    BY <1>5, ControlMessageKeeps
  <1>6. ASSUME NEW n \in Nodes, dstc_subscriber_disconnect_cb(n)
        PROVE  IInv' /\ Rows \subseteq Rows'
    BY <1>6, DisconnectKeeps
  <1>7. CASE UNCHANGED vars
    <2>1. Rows' = Rows
      BY <1>7 DEF vars, clientVars, Rows
    <2>2. TypeOK' /\ Quiet' /\ Once'
      BY <1>7 DEF vars, clientVars, IInv, TypeOK, Quiet, Once
    <2>3. SubscribedKnown' /\ ExitOnlyWhenFull'
      BY <1>7 DEF vars, clientVars, IInv, SubscribedKnown, Known, ExitOnlyWhenFull
    <2>4. Recorded'
      BY <1>7, <2>1 DEF vars, clientVars, IInv, Recorded
    <2>5. remote_node' \in Seq(Row)
      BY <1>7 DEF vars, clientVars, IInv
    <2> QED
      BY <2>1, <2>2, <2>3, <2>4, <2>5 DEF IInv
  <1> QED
    BY <1>1, <1>2, <1>3, <1>4, <1>5, <1>6, <1>7 DEF Next

LEMMA Invariant == Spec => []IInv
  BY InitHolds, StepKeeps, PTL DEF Spec

\* The tables, the connections and the messages are what they should be: neither
\* table ever outgrows SYMTAB_SIZE (dstc.c:479-488, 952-957, 980-985).
THEOREM TypeCorrect == Spec => []TypeOK
  <1>1. IInv => TypeOK
    BY DEF IInv
  <1> QED
    BY <1>1, Invariant, PTL

\* Every function a subscribed node had when its subscription completed is in the
\* client's table or on its way to it (dstc.c:587-623, 660-675).
THEOREM SubscribedKnownCorrect == Spec => []SubscribedKnown
  <1>1. IInv => SubscribedKnown
    BY DEF IInv
  <1> QED
    BY <1>1, Invariant, PTL

\* The client exits only when more different rows have been announced than its
\* table has, or it registered too many functions of its own (dstc.c:479-482, 981-984).
THEOREM ExitOnlyWhenFullCorrect == Spec => []ExitOnlyWhenFull
  <1>1. IInv => ExitOnlyWhenFull
    BY DEF IInv
  <1> QED
    BY <1>1, Invariant, PTL
=============================================================================
