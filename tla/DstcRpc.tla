------------------------------ MODULE DstcRpc ------------------------------
(***************************************************************************)
(* A call with a callback from end to end, between processes: clients make *)
(* it, every server that has subscribed to a client's calls runs it, and   *)
(* sends its reply to all who have subscribed to the server, clients whose *)
(* call it was not among them. The programs are those of                   *)
(* src/examples/callback and callback_dyndata: a client has one callback.  *)
(*                                                                         *)
(* What is sent carries the callback's reference, the address of the       *)
(* function in its process. Two processes that run the same program may    *)
(* have it at the same address, or at different ones. External: RMC keeps  *)
(* the order of what one process sends another, until they disconnect.     *)
(* DstcOutbound, DstcDispatch, DstcCallbacks and DstcDirectory have the    *)
(* details of the steps that are put together here.                        *)
(***************************************************************************)
EXTENDS Naturals, Sequences

CONSTANTS
    Clients,
    Servers,
    Addresses,          \* where a client's callback may be
    Placements,         \* bound: the ways to place the callbacks that are looked at
    NullRef,            \* DSTC_CLIENT_CALLBACK_ARG_NULL
    MaxCalls,           \* bound: how many calls a client tries to make
    Connected,          \* bound: the sets of subscriptions there may be at the start
    MaxChanges          \* bound: how many are made or lost after that

ASSUME ProcessAssumption == Clients \cap Servers = {}
ASSUME AddressAssumption == NullRef \notin Addresses

Links == (Clients \X Servers) \cup (Servers \X Clients)

ASSUME BoundAssumption ==
    /\ Placements \subseteq [Clients -> Addresses]
    /\ MaxCalls \in [Clients -> Nat]
    /\ MaxChanges \in Nat
    /\ Connected \subseteq SUBSET Links

\* A call, and each reply to it: whose it is, which of the client's calls, and the
\* reference. (The number is not sent: it tells calls apart in the properties.)
Call == [client : Clients, number : Nat, ref : Addresses \cup {NullRef}]

VARIABLES
    address,        \* address[c]: where c's callback is
    links,          \* <<p, q>>: q has subscribed to p
    channel,        \* channel[<<p, q>>]: the calls, or replies to them, on their way
    active,         \* active[c]: slots of local_callback that hold c's callback
    tried,          \* tried[c]: how many calls c has tried to make
    changes,
    activated,      \* history: how often c's callback was activated
    refused,        \* history: how many of these went with a call that was refused
    served,         \* history: served[c]: the calls c's callback ran for, in order
    lost            \* history: a call or reply did not reach a process it is for

history == <<activated, refused, served, lost>>
vars == <<address, links, channel, active, tried, changes, history>>

---------------------------------------------------------------------------
Subscribers(p) == {q \in Clients \cup Servers : <<p, q>> \in links}

\* What RMC multicasts goes to every process that has subscribed by now.
Multicast(from, p, message) ==
    [l \in Links |-> IF l[1] = p /\ l \in links THEN Append(from[l], message) ELSE from[l]]

\* _dstc_activate_callback(): a slot more, unless the callback is null.
dstc_activate_callback(c, ref) ==
    IF ref = NullRef THEN UNCHANGED <<active, activated>>
    ELSE /\ active' = [active EXCEPT ![c] = @ + 1]
         /\ activated' = [activated EXCEPT ![c] = @ + 1]

\* The program waits until a server is known for the function. The argument is
\* evaluated, and the callback activated, before the call is queued, or refused with
\* EBUSY: the call that is tried again after that activates it again.
DSTC_CLIENT_Call(c) ==
    /\ tried[c] < MaxCalls[c]
    /\ Subscribers(c) # {}
    /\ \E ref \in {address[c], NullRef} :
          LET call == [client |-> c, number |-> tried[c], ref |-> ref]
          IN /\ dstc_activate_callback(c, ref)
             /\ \/ channel' = Multicast(channel, c, call) /\ UNCHANGED refused
                \/ /\ ref # NullRef
                   /\ refused' = [refused EXCEPT ![c] = @ + 1]
                   /\ UNCHANGED channel
    /\ tried' = [tried EXCEPT ![c] = @ + 1]
    /\ UNCHANGED <<address, links, changes, served, lost>>

\* A faulty variant stands before the definition it changes; it is in no
\* specification, and some property must refute it.
dstc_queue_callback_OnlyNull(s, call, rest) ==
    channel' = (IF call.ref = NullRef THEN Multicast(rest, s, call) ELSE rest) /\ UNCHANGED lost

\* The function DSTC_SERVER_CALLBACK() makes: a null reference is not replied to. To a
\* client that has not subscribed yet the reply is lost, and to all if it is refused
\* with EBUSY, as the programs do not try again then.
dstc_queue_callback(s, call, rest) ==
    IF call.ref = NullRef THEN channel' = rest /\ UNCHANGED lost
    ELSE \/ /\ channel' = Multicast(rest, s, call)
            /\ lost' = (lost \/ call.client \notin Subscribers(s))
         \/ channel' = rest /\ lost' = TRUE

\* A server runs the oldest call of a client, and replies.
ServerRuns(s) ==
    /\ \E c \in Clients :
          /\ channel[<<c, s>>] # <<>>
          /\ dstc_queue_callback(s, Head(channel[<<c, s>>]),
                                 [channel EXCEPT ![<<c, s>>] = Tail(@)])
    /\ UNCHANGED <<address, links, active, tried, changes, activated, refused, served>>

RunCallback(c, reply) == served' = [served EXCEPT ![c] = Append(@, reply)]

_dstc_find_callback_by_ref_Keeps(c, reply) ==
    IF reply.ref = address[c] /\ active[c] > 0
    THEN RunCallback(c, reply) /\ UNCHANGED active
    ELSE UNCHANGED <<active, served>>

_dstc_find_callback_by_ref_Unchecked(c, reply) ==
    IF reply.ref = address[c]
    THEN RunCallback(c, reply) /\ active' = [active EXCEPT ![c] = @ - 1]
    ELSE UNCHANGED <<active, served>>

\* The callback runs if a slot holds the reference, and the slot is free then.
_dstc_find_callback_by_ref(c, reply) ==
    IF reply.ref = address[c] /\ active[c] > 0
    THEN RunCallback(c, reply) /\ active' = [active EXCEPT ![c] = @ - 1]
    ELSE UNCHANGED <<active, served>>

ClientReceives(c) ==
    /\ \E s \in Servers :
          /\ channel[<<s, c>>] # <<>>
          /\ _dstc_find_callback_by_ref(c, Head(channel[<<s, c>>]))
          /\ channel' = [channel EXCEPT ![<<s, c>>] = Tail(@)]
    /\ UNCHANGED <<address, links, tried, changes, activated, refused, lost>>

\* A subscription is made; it brings what is sent from then on.
Connect(l) ==
    /\ l \notin links
    /\ changes < MaxChanges
    /\ changes' = changes + 1
    /\ links' = links \cup {l}
    /\ UNCHANGED <<address, channel, active, tried, history>>

\* It breaks, and what is on its way is lost.
Disconnect(l) ==
    /\ l \in links
    /\ changes < MaxChanges
    /\ changes' = changes + 1
    /\ links' = links \ {l}
    /\ channel' = [channel EXCEPT ![l] = <<>>]
    /\ lost' = (lost \/ channel[l] # <<>>)
    /\ UNCHANGED <<address, active, tried, activated, refused, served>>

---------------------------------------------------------------------------
Init ==
    /\ address \in Placements
    /\ links \in Connected
    /\ channel = [l \in Links |-> <<>>]
    /\ active = [c \in Clients |-> 0]
    /\ tried = [c \in Clients |-> 0]
    /\ changes = 0
    /\ activated = [c \in Clients |-> 0]
    /\ refused = [c \in Clients |-> 0]
    /\ served = [c \in Clients |-> <<>>]
    /\ lost = FALSE

Next ==
    \/ \E c \in Clients : DSTC_CLIENT_Call(c) \/ ClientReceives(c)
    \/ \E s \in Servers : ServerRuns(s)
    \/ \E l \in Links : Connect(l) \/ Disconnect(l)

\* The programs go on processing events, and RMC delivers.
Spec ==
    /\ Init /\ [][Next]_vars
    /\ \A c \in Clients : WF_vars(ClientReceives(c))
    /\ \A s \in Servers : WF_vars(ServerRuns(s))

---------------------------------------------------------------------------
(* Type invariant.                                                         *)

TypeOK ==
    /\ address \in [Clients -> Addresses]
    /\ links \subseteq Links
    /\ channel \in [Links -> Seq(Call)]
    /\ active \in [Clients -> Nat]
    /\ \A c \in Clients : tried[c] \in 0..MaxCalls[c]
    /\ changes \in 0..MaxChanges
    /\ activated \in [Clients -> Nat]
    /\ refused \in [Clients -> Nat]
    /\ served \in [Clients -> Seq(Call)]
    /\ lost \in BOOLEAN

---------------------------------------------------------------------------
(* Safety.                                                                 *)

\* However many servers reply, a callback runs no more often than it was activated:
\* once, if it was activated once. And it runs for the calls of its own client, and of
\* clients that have their callback at the same address. It does not say for which
\* call: that is where the code and its description part (section below).
RunsAsActivated ==
    \A c \in Clients :
        /\ Len(served[c]) + active[c] = activated[c]
        /\ \A i \in 1..Len(served[c]) : address[served[c][i].client] = address[c]

---------------------------------------------------------------------------
(* Liveness.                                                               *)

\* Every activation is used up by a reply, but for those that went with refused calls,
\* unless a call or a reply was lost.
AnsweredUnlessLost ==
    \A c \in Clients : active[c] > refused[c] ~> (lost \/ active[c] <= refused[c])

---------------------------------------------------------------------------
(* What the README says of the code, and it does not do.                   *)

\* A reply goes to all, and another client that has the same reference activated runs
\* its callback for it.
OnlyTheSenderRuns ==
    \A c \in Clients : \A i \in 1..Len(served[c]) : served[c][i].client = c

\* The replies to one call all run, while a later call, or one that was refused, has the
\* callback activated.
OneReplyRuns ==
    \A c \in Clients : \A i, j \in 1..Len(served[c]) : i # j => served[c][i] # served[c][j]

\* A callback "can only be invoked once and will only be received by the sending client";
\* "if multiple servers execute a call and invoke their callbacks, only one of those
\* callbacks will be forwarded [...]. The rest of the callbacks are silently dropped"
\* (README.md:412-413, 415-417). Neither holds.
CallbackPromise == OnlyTheSenderRuns /\ OneReplyRuns

============================================================================
