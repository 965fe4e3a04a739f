---------------------------- MODULE DstcRpcProof ----------------------------
(***************************************************************************)
(* The safety properties of DstcRpc hold for any number of clients and     *)
(* servers, any placement of their callbacks, any number of calls and any  *)
(* coming and going of subscriptions.                                      *)
(***************************************************************************)
EXTENDS DstcRpc, TLAPS

\* A reference on its way is null, or where the callback of the call's client is.
Refers(message) == message.ref \in {NullRef, address[message.client]}
ReferencesRefer ==
    \A l \in Links : \A i \in 1..Len(channel[l]) : Refers(channel[l][i])

\* The inductive invariant. That tried is a function is what TypeOK leaves open.
IInv ==
    /\ TypeOK
    /\ tried \in [Clients -> Nat]
    /\ ReferencesRefer
    /\ RunsAsActivated

---------------------------------------------------------------------------
(* What the steps do to the channels.                                      *)

\* Channels in which every message is a call that refers to its client's callback.
Good(messages) ==
    /\ messages \in Seq(Call)
    /\ \A i \in 1..Len(messages) : Refers(messages[i])
GoodChannel(ch) ==
    /\ ch = [l \in Links |-> ch[l]]
    /\ \A l \in Links : Good(ch[l])

\* It is so exactly if the channels have their type and refer.
LEMMA ChannelIsGood ==
    ASSUME TypeOK, ReferencesRefer
    PROVE  GoodChannel(channel)
  BY DEF TypeOK, ReferencesRefer, GoodChannel, Good, Refers

LEMMA GoodAppend ==
    ASSUME NEW messages, Good(messages), NEW message \in Call, Refers(message)
    PROVE  Good(Append(messages, message))
  <1>1. /\ Append(messages, message) \in Seq(Call)
        /\ Len(Append(messages, message)) = Len(messages) + 1
    BY DEF Good
  <1>2. ASSUME NEW i \in 1..Len(messages) + 1
        PROVE  Refers(Append(messages, message)[i])
    <2>1. CASE i = Len(messages) + 1
      <3>1. Append(messages, message)[i] = message
        BY <2>1 DEF Good
      <3> QED
        BY <3>1 DEF Refers
    <2>2. CASE i # Len(messages) + 1
      <3>1. i \in 1..Len(messages) /\ Append(messages, message)[i] = messages[i]
        BY <2>2 DEF Good
      <3> QED
        BY <3>1 DEF Good, Refers
    <2> QED
      BY <2>1, <2>2
  <1> QED
    BY <1>1, <1>2 DEF Good

LEMMA GoodTail ==
    ASSUME NEW messages, Good(messages), messages # <<>>
    PROVE  /\ Good(Tail(messages))
           /\ Head(messages) \in Call
           /\ Refers(Head(messages))
  <1>1. /\ Tail(messages) \in Seq(Call)
        /\ Len(Tail(messages)) = Len(messages) - 1
        /\ Len(messages) \in Nat \ {0}
        /\ Head(messages) = messages[1] /\ messages[1] \in Call
        /\ \A i \in 1..Len(messages) - 1 : Tail(messages)[i] = messages[i + 1]
    BY DEF Good
  <1>2. ASSUME NEW i \in 1..Len(Tail(messages))
        PROVE  Refers(Tail(messages)[i])
    <2>1. i + 1 \in 1..Len(messages) /\ Tail(messages)[i] = messages[i + 1]
      BY <1>1
    <2> QED
      BY <2>1 DEF Good, Refers
  <1>3. Refers(messages[1])
    BY <1>1 DEF Good
  <1> QED
    BY <1>1, <1>2, <1>3 DEF Good, Refers

\* A multicast of a good message.
LEMMA GoodMulticast ==
    ASSUME NEW ch, GoodChannel(ch), NEW p, NEW message \in Call, Refers(message)
    PROVE  GoodChannel(Multicast(ch, p, message))
  <1>1. ASSUME NEW l \in Links
        PROVE  Good(Multicast(ch, p, message)[l])
    <2>1. Good(ch[l]) /\ Good(Append(ch[l], message))
      BY GoodAppend DEF GoodChannel
    <2> QED
      BY <2>1 DEF Multicast
  <1>2. Multicast(ch, p, message) = [l \in Links |-> Multicast(ch, p, message)[l]]
    BY DEF Multicast
  <1> QED
    BY <1>1, <1>2 DEF GoodChannel

\* The oldest message of a channel is taken off it.
LEMMA GoodTake ==
    ASSUME NEW ch, GoodChannel(ch), NEW k \in Links, ch[k] # <<>>
    PROVE  /\ GoodChannel([ch EXCEPT ![k] = Tail(@)])
           /\ Head(ch[k]) \in Call
           /\ Refers(Head(ch[k]))
  <1>1. Good(ch[k])
    BY DEF GoodChannel
  <1>2. Good(Tail(ch[k])) /\ Head(ch[k]) \in Call /\ Refers(Head(ch[k]))
    BY <1>1, GoodTail
  <1> QED
    BY <1>2 DEF GoodChannel

\* The other way round, when the callbacks stay where they are.
LEMMA GoodIsInvariant ==
    ASSUME UNCHANGED address, GoodChannel(channel')
    PROVE  channel' \in [Links -> Seq(Call)] /\ ReferencesRefer'
  BY DEF GoodChannel, Good, ReferencesRefer, Refers

---------------------------------------------------------------------------
(* Every step keeps the invariant.                                         *)

LEMMA CallKeeps ==
    ASSUME IInv, NEW c \in Clients, DSTC_CLIENT_Call(c)
    PROVE  IInv'
  <1>1. PICK ref \in {address[c], NullRef} :
          /\ dstc_activate_callback(c, ref)
          /\ \/ channel' = Multicast(channel, c, [client |-> c, number |-> tried[c], ref |-> ref]) /\ UNCHANGED refused
             \/ refused' = [refused EXCEPT ![c] = @ + 1] /\ UNCHANGED channel
    BY DEF DSTC_CLIENT_Call
  <1>2. UNCHANGED <<address, links, changes, served, lost>>
    BY DEF DSTC_CLIENT_Call
  <1>3. [client |-> c, number |-> tried[c], ref |-> ref] \in Call /\ Refers([client |-> c, number |-> tried[c], ref |-> ref])
    BY DEF IInv, TypeOK, Call, Refers
  <1>4. GoodChannel(channel')
    BY <1>1, <1>3, ChannelIsGood, GoodMulticast DEF IInv
  <1>5. channel' \in [Links -> Seq(Call)] /\ ReferencesRefer'
    BY <1>2, <1>4, GoodIsInvariant
  <1>6. /\ active' \in [Clients -> Nat] /\ activated' \in [Clients -> Nat]
        /\ \A d \in Clients : Len(served'[d]) + active'[d] = activated'[d]
    <2>1. /\ active \in [Clients -> Nat] /\ activated \in [Clients -> Nat]
          /\ served' = served /\ \A d \in Clients : Len(served[d]) \in Nat
          /\ \A d \in Clients : Len(served[d]) + active[d] = activated[d]
      BY <1>2 DEF IInv, TypeOK, RunsAsActivated
    <2>2. CASE active' = active /\ activated' = activated
      BY <2>1, <2>2
    <2>3. CASE /\ active' = [active EXCEPT ![c] = @ + 1]
               /\ activated' = [activated EXCEPT ![c] = @ + 1]
      BY <2>1, <2>3
    <2> QED
      BY <1>1, <2>2, <2>3 DEF dstc_activate_callback
  <1>7. refused' \in [Clients -> Nat]
    <2>1. refused \in [Clients -> Nat]
      BY DEF IInv, TypeOK
    <2>2. CASE refused' = refused
      BY <2>1, <2>2
    <2>3. CASE refused' = [refused EXCEPT ![c] = @ + 1]
      BY <2>1, <2>3
    <2> QED
      BY <1>1, <2>2, <2>3
  <1>8. /\ tried' \in [Clients -> Nat]
        /\ \A d \in Clients : tried'[d] \in 0..MaxCalls[d]
    <2>1. tried' = [tried EXCEPT ![c] = @ + 1] /\ tried[c] < MaxCalls[c]
      BY DEF DSTC_CLIENT_Call
    <2>2. /\ tried \in [Clients -> Nat] /\ MaxCalls \in [Clients -> Nat]
          /\ \A d \in Clients : tried[d] \in 0..MaxCalls[d]
      BY BoundAssumption DEF IInv, TypeOK
    <2> QED
      BY <2>1, <2>2
  <1> QED
    BY <1>2, <1>5, <1>6, <1>7, <1>8 DEF IInv, TypeOK, RunsAsActivated

LEMMA ServerKeeps ==
    ASSUME IInv, NEW s \in Servers, ServerRuns(s)
    PROVE  IInv'
  <1>1. PICK c \in Clients :
          /\ channel[<<c, s>>] # <<>>
          /\ dstc_queue_callback(s, Head(channel[<<c, s>>]),
                                 [channel EXCEPT ![<<c, s>>] = Tail(@)])
    BY DEF ServerRuns
  <1> DEFINE rest == [channel EXCEPT ![<<c, s>>] = Tail(@)]
             call == Head(channel[<<c, s>>])
  <1>2. GoodChannel(rest) /\ call \in Call /\ Refers(call)
    <2>1. <<c, s>> \in Links
      BY DEF Links
    <2> QED
      BY <1>1, <2>1, ChannelIsGood, GoodTake DEF IInv
  <1>3. GoodChannel(Multicast(rest, s, call))
    BY <1>2, GoodMulticast
  <1>4. GoodChannel(channel') /\ lost' \in BOOLEAN
    <2>1. channel' \in {rest, Multicast(rest, s, call)}
      BY <1>1 DEF dstc_queue_callback
    <2>2. lost' \in BOOLEAN
      BY <1>1 DEF dstc_queue_callback, IInv, TypeOK
    <2> QED
      BY <1>2, <1>3, <2>1, <2>2
  <1>5. UNCHANGED <<address, links, active, tried, changes, activated, refused, served>>
    BY DEF ServerRuns
  <1>6. channel' \in [Links -> Seq(Call)] /\ ReferencesRefer'
    BY <1>4, <1>5, GoodIsInvariant
  <1> QED
    BY <1>4, <1>5, <1>6 DEF IInv, TypeOK, RunsAsActivated

\* A reply runs the callback only if it has its address, and so has the callback of
\* the client the reply is for: null is nobody's address.
LEMMA ReceiveKeeps ==
    ASSUME IInv, NEW c \in Clients, ClientReceives(c)
    PROVE  IInv'
  <1>1. PICK s \in Servers :
          /\ channel[<<s, c>>] # <<>>
          /\ _dstc_find_callback_by_ref(c, Head(channel[<<s, c>>]))
          /\ channel' = [channel EXCEPT ![<<s, c>>] = Tail(@)]
    BY DEF ClientReceives
  <1> DEFINE reply == Head(channel[<<s, c>>])
  <1>2. GoodChannel(channel') /\ reply \in Call /\ Refers(reply)
    <2>1. <<s, c>> \in Links
      BY DEF Links
    <2> QED
      BY <1>1, <2>1, ChannelIsGood, GoodTake DEF IInv
  <1>3. UNCHANGED <<address, links, tried, changes, activated, refused, lost>>
    BY DEF ClientReceives
  <1>4. channel' \in [Links -> Seq(Call)] /\ ReferencesRefer'
    BY <1>2, <1>3, GoodIsInvariant
  <1>5. /\ active' \in [Clients -> Nat]
        /\ served' \in [Clients -> Seq(Call)]
        /\ RunsAsActivated'
    <2>1. CASE reply.ref = address[c] /\ active[c] > 0
      <3>1. /\ served' = [served EXCEPT ![c] = Append(@, reply)]
            /\ active' = [active EXCEPT ![c] = @ - 1]
        BY <1>1, <2>1 DEF _dstc_find_callback_by_ref, RunCallback
      <3>2. address[reply.client] = address[c]
        <4>1. reply.ref \in {NullRef, address[reply.client]}
          BY <1>2 DEF Refers
        <4>2. address[c] \in Addresses
          BY DEF IInv, TypeOK
        <4>3. reply.ref # NullRef
          BY <2>1, <4>2, AddressAssumption
        <4> QED
          BY <2>1, <4>1, <4>3
      <3>3. active' \in [Clients -> Nat] /\ served' \in [Clients -> Seq(Call)]
        BY <1>2, <2>1, <3>1 DEF IInv, TypeOK
      <3>4. ASSUME NEW d \in Clients
            PROVE  /\ Len(served'[d]) + active'[d] = activated'[d]
                   /\ \A i \in 1..Len(served'[d]) : address'[served'[d][i].client] = address'[d]
        <4>1. /\ served[d] \in Seq(Call) /\ active[d] \in Nat /\ Len(served[d]) \in Nat
              /\ Len(served[d]) + active[d] = activated[d]
              /\ \A i \in 1..Len(served[d]) : address[served[d][i].client] = address[d]
          BY DEF IInv, TypeOK, RunsAsActivated
        <4>2. CASE d = c
          <5>1. served'[d] = Append(served[d], reply) /\ active'[d] = active[d] - 1
            BY <3>1, <4>2 DEF IInv, TypeOK
          <5>2. Len(served'[d]) = Len(served[d]) + 1
            BY <1>2, <4>1, <5>1
          <5>3. ASSUME NEW i \in 1..Len(served[d]) + 1
                PROVE  address[served'[d][i].client] = address[d]
            <6>1. CASE i = Len(served[d]) + 1
              <7>1. served'[d][i] = reply
                BY <1>2, <4>1, <5>1, <6>1
              <7> QED
                BY <3>2, <4>2, <7>1
            <6>2. CASE i # Len(served[d]) + 1
              <7>1. i \in 1..Len(served[d]) /\ served'[d][i] = served[d][i]
                BY <1>2, <4>1, <5>1, <6>2
              <7> QED
                BY <4>1, <7>1
            <6> QED
              BY <6>1, <6>2
          <5>4. Len(served'[d]) + active'[d] = activated'[d]
            BY <1>3, <4>1, <5>1, <5>2
          <5> QED
            BY <1>3, <5>2, <5>3, <5>4
        <4>3. CASE d # c
          <5>1. served'[d] = served[d] /\ active'[d] = active[d]
            BY <3>1, <4>3 DEF IInv, TypeOK
          <5> QED
            BY <1>3, <4>1, <5>1
        <4> QED
          BY <4>2, <4>3
      <3> QED
        BY <3>3, <3>4 DEF RunsAsActivated
    <2>2. CASE ~(reply.ref = address[c] /\ active[c] > 0)
      <3>1. UNCHANGED <<active, served>>
        BY <1>1, <2>2 DEF _dstc_find_callback_by_ref
      <3> QED
        BY <1>3, <3>1 DEF IInv, TypeOK, RunsAsActivated
    <2> QED
      BY <2>1, <2>2
  <1> QED
    BY <1>3, <1>4, <1>5 DEF IInv, TypeOK

LEMMA LinksKeep ==
    ASSUME IInv, NEW l \in Links, Connect(l) \/ Disconnect(l)
    PROVE  IInv'
  <1>1. CASE Connect(l)
    BY <1>1, BoundAssumption
    DEF Connect, history, IInv, TypeOK, RunsAsActivated, ReferencesRefer, Refers
  <1>2. CASE Disconnect(l)
    <2>1. channel' = [channel EXCEPT ![l] = <<>>]
      BY <1>2 DEF Disconnect
    <2>2. channel' \in [Links -> Seq(Call)]
      BY <2>1 DEF IInv, TypeOK
    <2>3. UNCHANGED <<address, active, tried, activated, refused, served>>
      BY <1>2 DEF Disconnect
    <2>4. ReferencesRefer'
      BY <2>1, <2>3 DEF IInv, TypeOK, ReferencesRefer, Refers
    <2>5. links' \subseteq Links /\ changes' \in 0..MaxChanges /\ lost' \in BOOLEAN
      BY <1>2, BoundAssumption DEF Disconnect, IInv, TypeOK
    <2> QED
      BY <2>2, <2>3, <2>4, <2>5 DEF IInv, TypeOK, RunsAsActivated
  <1> QED
    BY <1>1, <1>2

---------------------------------------------------------------------------
(* The invariant.                                                          *)

LEMMA InitIInv ==
    ASSUME Init
    PROVE  IInv
  <1>1. /\ channel \in [Links -> Seq(Call)]
        /\ ReferencesRefer
    BY DEF Init, ReferencesRefer
  <1>2. /\ address \in [Clients -> Addresses] /\ links \subseteq Links
        /\ changes \in 0..MaxChanges
    BY BoundAssumption DEF Init
  <1>3. /\ tried \in [Clients -> Nat]
        /\ \A c \in Clients : tried[c] \in 0..MaxCalls[c]
    BY BoundAssumption DEF Init
  <1>4. /\ active \in [Clients -> Nat] /\ activated \in [Clients -> Nat]
        /\ refused \in [Clients -> Nat]
        /\ served \in [Clients -> Seq(Call)]
        /\ lost \in BOOLEAN
    <2>1. served = [c \in Clients |-> <<>>] /\ <<>> \in Seq(Call)
      BY DEF Init
    <2>2. served \in [Clients -> Seq(Call)]
      BY <2>1
    <2>3. /\ active \in [Clients -> Nat] /\ activated \in [Clients -> Nat]
          /\ refused \in [Clients -> Nat] /\ lost \in BOOLEAN
      BY DEF Init
    <2> QED
      BY <2>2, <2>3
  <1>5. RunsAsActivated
    <2>1. ASSUME NEW c \in Clients
          PROVE  Len(served[c]) + active[c] = activated[c] /\ Len(served[c]) = 0
      <3>1. active[c] = 0 /\ activated[c] = 0 /\ served[c] = <<>>
        BY DEF Init
      <3> QED
        BY <3>1
    <2>2. ASSUME NEW c \in Clients, NEW i \in 1..Len(served[c])
          PROVE  FALSE
      BY <2>1
    <2> QED
      BY <2>1, <2>2 DEF RunsAsActivated
  <1> QED
    BY <1>1, <1>2, <1>3, <1>4, <1>5 DEF IInv, TypeOK

LEMMA NextIInv ==
    ASSUME IInv, [Next]_vars
    PROVE  IInv'
  <1>1. CASE UNCHANGED vars
    BY <1>1 DEF vars, history, IInv, TypeOK, RunsAsActivated, ReferencesRefer, Refers
  <1>2. CASE Next
    BY <1>2, CallKeeps, ServerKeeps, ReceiveKeeps, LinksKeep DEF Next
  <1> QED
    BY <1>1, <1>2

LEMMA Invariant == Spec => []IInv
  <1>1. Init => IInv
    BY InitIInv
  <1>2. IInv /\ [Next]_vars => IInv'
    BY NextIInv
  <1> QED
    BY <1>1, <1>2, PTL DEF Spec

\* Every variable keeps its type; above all no slot is freed that was not in use.
THEOREM TypeCorrect == Spec => []TypeOK
  <1>1. IInv => TypeOK
    BY DEF IInv
  <1> QED
    BY <1>1, Invariant, PTL

\* A callback runs as often as its activations are used up, however many servers reply
\* and whoever else is replied to, and only for calls of clients which have theirs at
\* the same address.
THEOREM RunsAsActivatedCorrect == Spec => []RunsAsActivated
  <1>1. IInv => RunsAsActivated
    BY DEF IInv
  <1> QED
    BY <1>1, Invariant, PTL
=============================================================================
