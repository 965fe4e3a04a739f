----------------------------- MODULE DstcEvents -----------------------------
(***************************************************************************)
(* How DSTC keeps the descriptors of RMC's connections and hands events to *)
(* RMC, in both of its builds: src/epoll.c, where the kernel keeps the     *)
(* descriptors and gives back the user data DSTC stored with them, and     *)
(* src/poll.c, where DSTC keeps an array and a hash table from descriptors *)
(* to its elements. Threads wait for events in the library, or in a loop   *)
(* of their own like that of src/examples/chat/chat.c.                     *)
(*                                                                         *)
(* What is external: RMC opens and closes connections, each with a free    *)
(* index of its side, and the kernel gives out the lowest free descriptor. *)
(***************************************************************************)
EXTENDS UtHash, Integers

CONSTANTS
    Threads,
    Nobody,                 \* the owner of a free ctx->lock
    UserThreads,            \* those that run a loop of their own
    DSTC_MAX_CONNECTIONS,   \* elements of poll_elem_array, events of a batch
    USER_DATA_PUB_FLAG,     \* a power of two that indexes are below (2^15 in the code)
    DSTC_EVENT_FLAG,        \* a higher one (2^31)
    Indexes,                \* bound: the indexes RMC uses
    Descriptors,            \* bound: the descriptors other than stdin's
    MaxOpened,              \* bound: how many connections are ever opened
    MaxBatch,               \* bound: the events epoll_wait() returns at once
    MaxFrames,              \* bound: how deep event processing nests in each thread
    HashSteps               \* bound: changes of the hash table looked at by themselves

ASSUME UserAssumption == UserThreads \subseteq Threads /\ Nobody \notin Threads
ASSUME ArrayAssumption == DSTC_MAX_CONNECTIONS \in Nat \ {0}
ASSUME IndexAssumption ==
    /\ USER_DATA_PUB_FLAG \in Nat \ {0} /\ Indexes \subseteq 0..USER_DATA_PUB_FLAG - 1
    /\ DSTC_EVENT_FLAG \in Nat
    /\ \E k \in 1..DSTC_EVENT_FLAG : DSTC_EVENT_FLAG = 2 * k * USER_DATA_PUB_FLAG
ASSUME DescriptorAssumption ==
    Descriptors \subseteq Nat \ {0} /\ Descriptors \subseteq DOMAIN HASH_FCN
ASSUME BoundAssumption ==
    /\ MaxOpened \in Nat /\ HashSteps \in Nat /\ MaxBatch \in Nat
    /\ MaxFrames \in [Threads -> Nat \ {0}]

VARIABLES
    build,              \* "epoll" or "poll"
    connections,        \* RMC's: [id -> [pub, index, fd, events]], ids in order of opening
    opened,             \* how many ids have been used
    epoll_set,          \* the kernel's: [descriptor -> [user_data, events]]
    poll_elem_array,    \* [slot -> [fd, user_data, events]]
    poll_hash,          \* the hash table over its slots
    owner,              \* who has ctx->lock
    stack,              \* stack[t]: t's event processing, innermost last
    exited              \* "no", or why the program has exited

registry == <<epoll_set, poll_elem_array, poll_hash>>
vars == <<build, connections, opened, registry, owner, stack, exited>>

Slots == 1..DSTC_MAX_CONNECTIONS
NoFd == -1
Stdin == 0
FreeElem == [fd |-> NoFd, user_data |-> 0, events |-> {}]
Fd == [s \in Slots |-> poll_elem_array[s].fd]
EmptyMap == [x \in {} |-> {}]

---------------------------------------------------------------------------
(* User data: the index, a bit for the publishing side and one for DSTC.   *)

\* A faulty variant stands before the definition it changes; it is in no
\* specification, and some property must refute it.
TO_POLL_EVENT_USER_DATA_WideFlag(index, pub) ==
    index + (IF pub THEN USER_DATA_PUB_FLAG ELSE 0) + 2 * DSTC_EVENT_FLAG

TO_POLL_EVENT_USER_DATA(index, pub) ==
    index + (IF pub THEN USER_DATA_PUB_FLAG ELSE 0) + DSTC_EVENT_FLAG

FROM_POLL_EVENT_USER_DATA_NarrowMask(user_data) == user_data % (USER_DATA_PUB_FLAG \div 2)

FROM_POLL_EVENT_USER_DATA(user_data) == user_data % USER_DATA_PUB_FLAG
IS_PUB(user_data) == (user_data \div USER_DATA_PUB_FLAG) % 2 = 1
DSTC_EVENT_FLAG_Set(user_data) == user_data >= DSTC_EVENT_FLAG

UserData(c) == TO_POLL_EVENT_USER_DATA(c.index, c.pub)

\* The open connection that RMC finds for user data, as a set of at most one.
ConnectionAt(user_data) ==
    {id \in DOMAIN connections :
        /\ connections[id].index = FROM_POLL_EVENT_USER_DATA(user_data)
        /\ connections[id].pub = IS_PUB(user_data)}

---------------------------------------------------------------------------
(* The callbacks by which RMC has descriptors watched; both builds exit    *)
(* when one fails.                                                         *)

Exit(why) == exited' = why /\ UNCHANGED registry

find_free_poll_elem_index ==
    LET free == {s \in Slots : Fd[s] = NoFd}
    IN {s \in free : \A r \in free : s <= r}

\* Under the key of the element's descriptor.
poll_add(fd, user_data, events) ==
    \/ /\ build = "epoll"
       /\ IF fd \in DOMAIN epoll_set THEN Exit("present")
          ELSE /\ epoll_set' = [f \in DOMAIN epoll_set \cup {fd} |->
                                  IF f = fd THEN [user_data |-> user_data, events |-> events]
                                  ELSE epoll_set[f]]
               /\ UNCHANGED <<poll_elem_array, poll_hash, exited>>
    \/ /\ build = "poll"
       /\ IF HASH_FIND(poll_hash, Fd, fd) # {} THEN Exit("present")
          ELSE IF find_free_poll_elem_index = {} THEN Exit("full")
          ELSE LET s == CHOOSE free \in find_free_poll_elem_index : TRUE
               IN /\ poll_elem_array' = [poll_elem_array EXCEPT ![s] =
                                            [fd |-> fd, user_data |-> user_data, events |-> events]]
                  /\ poll_hash' = HASH_ADD(poll_hash, [Fd EXCEPT ![s] = fd], s)
                  /\ UNCHANGED <<epoll_set, exited>>

poll_modify_KeepsEvents(fd, user_data, events) ==
    \/ /\ build = "epoll"
       /\ epoll_set' = [epoll_set EXCEPT ![fd] = [user_data |-> user_data, events |-> events]]
       /\ UNCHANGED <<poll_elem_array, poll_hash, exited>>
    \/ /\ build = "poll"
       /\ poll_elem_array' = [s \in Slots |->
              IF s \in HASH_FIND(poll_hash, Fd, fd)
              THEN [poll_elem_array[s] EXCEPT !.events = @ \cup events]
              ELSE poll_elem_array[s]]
       /\ UNCHANGED <<epoll_set, poll_hash, exited>>

\* RMC calls it when the events really change; with poll(2), the user data stays.
poll_modify(fd, user_data, events) ==
    \/ /\ build = "epoll"
       /\ IF fd \notin DOMAIN epoll_set THEN Exit("missing")
          ELSE /\ epoll_set' = [epoll_set EXCEPT
                                  ![fd] = [user_data |-> user_data, events |-> events]]
               /\ UNCHANGED <<poll_elem_array, poll_hash, exited>>
    \/ /\ build = "poll"
       /\ LET elem == HASH_FIND(poll_hash, Fd, fd)
          IN IF elem = {} THEN Exit("missing")
             ELSE /\ \E s \in elem :
                        poll_elem_array' = [poll_elem_array EXCEPT ![s].events = events]
                  /\ UNCHANGED <<epoll_set, poll_hash, exited>>

poll_remove_KeepsElement(fd) ==
    \/ /\ build = "epoll"
       /\ epoll_set' = [f \in DOMAIN epoll_set \ {fd} |-> epoll_set[f]]
       /\ UNCHANGED <<poll_elem_array, poll_hash, exited>>
    \/ build = "poll" /\ UNCHANGED <<registry, exited>>

\* A descriptor that epoll(7) does not know is not worth more than a warning. The
\* user data a free element keeps in the code does not matter: poll_add() writes it.
poll_remove(fd) ==
    \/ /\ build = "epoll"
       /\ epoll_set' = [f \in DOMAIN epoll_set \ {fd} |-> epoll_set[f]]
       /\ UNCHANGED <<poll_elem_array, poll_hash, exited>>
    \/ /\ build = "poll"
       /\ LET elem == HASH_FIND(poll_hash, Fd, fd)
          IN IF elem = {} THEN Exit("missing")
             ELSE /\ \E s \in elem :
                        /\ poll_hash' = HASH_DEL(poll_hash, s)
                        /\ poll_elem_array' = [poll_elem_array EXCEPT ![s] = FreeElem]
                  /\ UNCHANGED <<epoll_set, exited>>

---------------------------------------------------------------------------
(* What RMC does to its connections, as part of one of DSTC's steps.       *)

RmcIdle == UNCHANGED <<connections, opened, registry, exited>>

LowestFree(pool, used) ==
    {x \in pool \ used : \A y \in pool \ used : x <= y}

RmcOpens ==
    /\ opened < MaxOpened
    /\ \E pub \in BOOLEAN :
       \E index \in LowestFree(Indexes, {connections[c].index :
                         c \in {d \in DOMAIN connections : connections[d].pub = pub}}),
          fd \in LowestFree(Descriptors, {connections[c].fd : c \in DOMAIN connections}) :
          LET id == opened + 1
              conn == [pub |-> pub, index |-> index, fd |-> fd, events |-> {"in"}]
          IN /\ opened' = id
             /\ connections' = [c \in DOMAIN connections \cup {id} |->
                                  IF c = id THEN conn ELSE connections[c]]
             /\ poll_add(fd, UserData(conn), conn.events)

RmcCloses(c) ==
    /\ connections' = [d \in DOMAIN connections \ {c} |-> connections[d]]
    /\ poll_remove(connections[c].fd)
    /\ UNCHANGED opened

RmcModifies(c, events) ==
    /\ connections[c].events # events
    /\ connections' = [connections EXCEPT ![c].events = events]
    /\ poll_modify(connections[c].fd, UserData(connections[c]), events)
    /\ UNCHANGED opened

\* Timeouts announce, retry connections and give them up.
RmcTimeouts == RmcIdle \/ RmcOpens \/ \E c \in DOMAIN connections : RmcCloses(c)

---------------------------------------------------------------------------
(* The lock, and the event processing a thread is in. While the function   *)
(* that a read brought in runs, it may process events itself: it has the   *)
(* lock then, and keeps it while it waits.                                 *)

CanLock(t) == owner \in {Nobody, t}
Top(t) == stack[t][Len(stack[t])]
At(t, label) == exited = "no" /\ stack[t] # <<>> /\ Top(t).pc = label
SetTop(t, frame) == stack' = [stack EXCEPT ![t][Len(stack[t])] = frame]
Pop(t) == stack' = [stack EXCEPT ![t] = SubSeq(@, 1, Len(@) - 1)]

Idle(t) == exited = "no" /\ stack[t] = <<>>
MayProcess(t) == (Idle(t) \/ At(t, "running")) /\ Len(stack[t]) < MaxFrames[t]

\* Whether the events of the innermost loop are handled for an outer one.
Nested(t) == Len(stack[t]) > 1

NewFrame(loop, pc, max, vector) ==
    [loop |-> loop, pc |-> pc, max |-> max, vector |-> vector, batch |-> <<>>,
     user_data |-> 0]

\* Everything that is watched, in the order of the hash table.
PollVector == [i \in DOMAIN poll_hash.order |-> Fd[poll_hash.order[i].elem]]

---------------------------------------------------------------------------
(* Waiting for events.                                                     *)

\* _dstc_process_single_event(): with poll(2) the descriptors are copied before
\* the lock is given up.
_dstc_process_single_event(t) ==
    /\ t \notin UserThreads \/ stack[t] # <<>>
    /\ MayProcess(t)
    /\ CanLock(t)
    /\ stack' = [stack EXCEPT ![t] = Append(@,
                  NewFrame("library", "waiting", DSTC_MAX_CONNECTIONS, PollVector))]
    /\ UNCHANGED <<build, connections, opened, registry, owner, exited>>

\* The program's own loop counts the sockets first, for room in its vector.
dstc_get_socket_count(t) ==
    /\ t \in UserThreads
    /\ Idle(t)
    /\ CanLock(t)
    /\ stack' = [stack EXCEPT ![t] = Append(@,
                  NewFrame("user", "counted", Cardinality(DOMAIN connections), <<>>))]
    /\ UNCHANGED <<build, connections, opened, registry, owner, exited>>

\* Then it processes the timeouts that are due, each under the lock.
dstc_process_timeout(t) ==
    /\ At(t, "counted")
    /\ CanLock(t)
    /\ RmcTimeouts
    /\ UNCHANGED <<build, owner, stack>>

dstc_retrieve_pollfd_vector_Overflow(t) ==
    /\ At(t, "counted")
    /\ CanLock(t)
    /\ SetTop(t, [Top(t) EXCEPT !.pc = "waiting", !.vector = PollVector])
    /\ UNCHANGED <<build, connections, opened, registry, owner, exited>>

\* With poll(2) it asks for the descriptors, and gives up when they are more than
\* it has room for.
dstc_retrieve_pollfd_vector(t) ==
    /\ At(t, "counted")
    /\ CanLock(t)
    /\ IF build = "poll" /\ Len(PollVector) > Top(t).max
       THEN exited' = "nomem" /\ UNCHANGED stack
       ELSE /\ SetTop(t, [Top(t) EXCEPT !.pc = "waiting", !.vector = PollVector])
            /\ UNCHANGED exited
    /\ UNCHANGED <<build, connections, opened, registry, owner>>

\* An event as the loops see it: its user data with epoll(7), its descriptor with
\* poll(2); and whose it is. What it says is chosen when it is handled.
Event(data, conn) == [data |-> data, conn |-> conn]
StdinEvent == Event(0, Stdin)
Owners(fd) == {c \in DOMAIN connections : connections[c].fd = fd}

\* The batches epoll_wait() may return: events of watched descriptors, and of stdin
\* in the program's own loop. They come in any order, and the last is handled first.
EpollBatches(frame) ==
    LET watched == UNION {{Event(epoll_set[fd].user_data, c) : c \in Owners(fd)} :
                            fd \in DOMAIN epoll_set}
        possible == watched \cup IF frame.loop = "user" THEN {StdinEvent} ELSE {}
        room == frame.max + (IF frame.loop = "user" THEN 1 ELSE 0)
    IN UNION {SetToSeqs(S) : S \in
                       {R \in SUBSET possible : Cardinality(R) <= room /\ Cardinality(R) <= MaxBatch}}

\* What poll() reports of a descriptor: who has it now may not be who had it when it
\* was copied, and a closed one is reported at once.
Gone == -1
PollReport(fd) ==
    Event(fd, IF Owners(fd) = {} THEN Gone ELSE CHOOSE c \in Owners(fd) : TRUE)

\* The library takes the events in the order of the vector, the program's own loop
\* from its end, where it has put stdin.
PollBatches(frame) ==
    LET n == Len(frame.vector)
        closed == {i \in 1..n : Owners(frame.vector[i]) = {}}
        ascending(m) == {p \in [1..m -> 1..n] : \A i, j \in 1..m : i < j => p[i] < p[j]}
        picks == {p \in UNION {ascending(m) : m \in 0..n} : closed \subseteq ToSet(p)}
        batches == {[i \in DOMAIN p |-> PollReport(frame.vector[p[i]])] : p \in picks}
    IN IF frame.loop = "library" THEN batches
       ELSE UNION {{Reverse(b), <<StdinEvent>> \o Reverse(b)} : b \in batches}

\* The wait ends with a batch of events; the library takes the lock for all of it.
WaitReturns(t) ==
    /\ At(t, "waiting")
    /\ \E batch \in (IF build = "epoll" THEN EpollBatches(Top(t)) ELSE PollBatches(Top(t)))
                        \ {<<>>} :
          SetTop(t, [Top(t) EXCEPT !.batch = batch,
                                   !.vector = <<>>,
                                   !.pc = IF Top(t).loop = "user" THEN "events" ELSE "locking"])
    /\ UNCHANGED <<build, connections, opened, registry, owner, exited>>

\* Or its time is up: the timeouts are processed under the lock, and the loop is over.
WaitTimesOut(t) ==
    /\ At(t, "waiting")
    /\ CanLock(t)
    /\ RmcTimeouts
    /\ Pop(t)
    /\ UNCHANGED <<build, owner>>

LockForBatch(t) ==
    /\ At(t, "locking")
    /\ CanLock(t)
    /\ owner' = t
    /\ SetTop(t, [Top(t) EXCEPT !.pc = "events"])
    /\ UNCHANGED <<build, connections, opened, registry, exited>>

---------------------------------------------------------------------------
(* Handling a batch: _dstc_process_epoll_result(), and                     *)
(* _dstc_process_poll_result().                                            *)

NextEvent(t) == Head(Top(t).batch)
Rest(t) == [Top(t) EXCEPT !.batch = Tail(@)]

\* On to the next event, if there is one. The library keeps the lock for it, the
\* program's own loop does not.
Continue(t, frame) == IF frame.batch = <<>> THEN Pop(t) ELSE SetTop(t, frame)

Release_NestedToo(t, frame) ==
    owner' = IF frame.loop = "user" \/ frame.batch = <<>> THEN Nobody ELSE t

Release(t, frame) ==
    owner' = IF frame.loop = "user" \/ (frame.batch = <<>> /\ ~Nested(t)) THEN Nobody ELSE t

\* The user data an event is handled with, as a set of at most one: with poll(2)
\* that of the element which has the descriptor now.
Resolve(event) ==
    IF build = "epoll" THEN {event.data}
    ELSE {poll_elem_array[s].user_data : s \in HASH_FIND(poll_hash, Fd, event.data)}

\* What an event says: to read, and then perhaps to write, or just to write. An event
\* of a descriptor that was closed says neither.
Says(event) == IF event.conn = Gone THEN {} ELSE {"reading", "writing"}

\* The program's own loop tells its keyboard by the user data, or the descriptor, 0.
IsKeyboard(t) == Top(t).loop = "user" /\ NextEvent(t).data = 0

\* handle_keyboard(): a line is read, and sent by a call.
handle_keyboard(t) ==
    /\ At(t, "events")
    /\ IsKeyboard(t)
    /\ Continue(t, Rest(t))
    /\ UNCHANGED <<build, connections, opened, registry, owner, exited>>

\* The user data is looked up once, for the read and the write. In the program's
\* own loop the lock is taken for the event alone, and an event that is neither the
\* keyboard's nor DSTC's ends the program.
TakeEvent(t) ==
    /\ At(t, "events")
    /\ ~IsKeyboard(t)
    /\ CanLock(t)
    /\ IF /\ build = "epoll" /\ Top(t).loop = "user"
          /\ ~DSTC_EVENT_FLAG_Set(NextEvent(t).data)
       THEN exited' = "unknown" /\ UNCHANGED <<stack, owner>>
       ELSE IF Resolve(NextEvent(t)) = {} \/ Says(NextEvent(t)) = {}
       THEN Continue(t, Rest(t)) /\ Release(t, Rest(t)) /\ UNCHANGED exited
       ELSE /\ \E user_data \in Resolve(NextEvent(t)), pc \in Says(NextEvent(t)) :
                  SetTop(t, [Rest(t) EXCEPT !.pc = pc, !.user_data = user_data])
            /\ owner' = t
            /\ UNCHANGED exited
    /\ UNCHANGED <<build, connections, opened, registry>>

Target(t) == ConnectionAt(Top(t).user_data)

\* rmc_pub_read(), rmc_sub_read(): packets come in, a connection is accepted or
\* made, or the other side has closed this one. A function may run. A connection
\* that is closed already cannot be read.
ReadEvent(t) ==
    /\ At(t, "reading")
    /\ \/ RmcIdle /\ SetTop(t, [Top(t) EXCEPT !.pc = IF Target(t) = {} THEN "writing" ELSE "running"])
       \/ /\ Target(t) # {}
          /\ RmcOpens \/ \E c \in Target(t) : RmcCloses(c)
          /\ SetTop(t, [Top(t) EXCEPT !.pc = "writing"])
    /\ UNCHANGED <<build, owner>>

FunctionReturns(t) ==
    /\ At(t, "running")
    /\ SetTop(t, [Top(t) EXCEPT !.pc = "writing"])
    /\ UNCHANGED <<build, connections, opened, registry, owner, exited>>

\* rmc_pub_write(), rmc_sub_write(): something is left to write or not, or the write
\* fails and DSTC has RMC close the connection; a closed one cannot be.
WriteEvent(t) ==
    /\ At(t, "writing")
    /\ \/ RmcIdle
       \/ \E c \in Target(t) : RmcCloses(c) \/ RmcModifies(c, {"in"})
    /\ Continue(t, [Top(t) EXCEPT !.pc = "events", !.user_data = 0])
    /\ Release(t, Top(t))
    /\ UNCHANGED build

\* A call is queued, and RMC wants to know when it may write to a subscriber.
ClientCall(t) ==
    /\ Idle(t) \/ At(t, "running")
    /\ CanLock(t)
    /\ \E c \in DOMAIN connections :
          connections[c].pub /\ RmcModifies(c, {"in", "out"})
    /\ UNCHANGED <<build, owner, stack>>

---------------------------------------------------------------------------
Init ==
    /\ build \in {"epoll", "poll"}
    /\ connections = EmptyMap
    /\ opened = 0
    /\ epoll_set = EmptyMap
    /\ poll_elem_array = [s \in Slots |-> FreeElem]
    /\ poll_hash = NULL
    /\ owner = Nobody
    /\ stack = [t \in Threads |-> <<>>]
    /\ exited = "no"

Next ==
    \E t \in Threads :
        \/ _dstc_process_single_event(t) \/ WaitReturns(t) \/ WaitTimesOut(t)
        \/ LockForBatch(t) \/ TakeEvent(t) \/ ReadEvent(t) \/ FunctionReturns(t)
        \/ WriteEvent(t) \/ ClientCall(t)
        \/ dstc_get_socket_count(t) \/ dstc_process_timeout(t)
        \/ dstc_retrieve_pollfd_vector(t) \/ handle_keyboard(t)

Spec == Init /\ [][Next]_vars

---------------------------------------------------------------------------
(* Type invariant.                                                         *)

UserDataSet == 0..2 * DSTC_EVENT_FLAG - 1
Watched == [user_data : UserDataSet, events : SUBSET {"in", "out"}]
EventSet == [data : Nat, conn : 0..MaxOpened \cup {Gone}]
FrameSet == [loop : {"library", "user"},
             pc : {"counted", "waiting", "locking", "events", "reading", "running", "writing"},
             max : Nat, vector : Seq(Descriptors), batch : Seq(EventSet), user_data : Nat]

TypeOK ==
    /\ build \in {"epoll", "poll"}
    /\ DOMAIN connections \subseteq 1..opened
    /\ \A c \in DOMAIN connections :
          connections[c] \in [pub : BOOLEAN, index : Indexes, fd : Descriptors,
                              events : SUBSET {"in", "out"}]
    /\ opened \in 0..MaxOpened
    /\ DOMAIN epoll_set \subseteq Descriptors
    /\ \A fd \in DOMAIN epoll_set : epoll_set[fd] \in Watched
    /\ poll_elem_array \in [Slots -> [fd : Descriptors \cup {NoFd}, user_data : UserDataSet,
                                      events : SUBSET {"in", "out"}]]
    /\ {hh.elem : hh \in ToSet(poll_hash.order)} \subseteq Slots
    /\ owner \in Threads \cup {Nobody}
    /\ stack \in [Threads -> Seq(FrameSet)]
    /\ \A t \in Threads : Len(stack[t]) <= MaxFrames[t]
    /\ exited \in {"no", "present", "full", "missing", "nomem", "unknown"}

---------------------------------------------------------------------------
(* Safety.                                                                 *)

\* From the empty table DSTC starts with: however elements are added and removed,
\* buckets doubled and doubling given up, a table finds every key it holds and no
\* other, and passes uthash's own check. HashReach[n] are the tables that n changes
\* make; there are more keys here than descriptors in the states.
HashKeys == DOMAIN HASH_FCN
HashKey == [k \in HashKeys |-> k]
HeldBy(tbl) == {hh.elem : hh \in ToSet(tbl.order)}
HashReach[n \in Nat] ==
    IF n = 0 THEN {NULL}
    ELSE {IF k \in HeldBy(tbl) THEN HASH_DEL(tbl, k) ELSE HASH_ADD(tbl, HashKey, k) :
              tbl \in HashReach[n - 1], k \in HashKeys}
HashFindsItsKeys ==
    opened = 0 /\ (\A t \in Threads : stack[t] = <<>>) =>
        \A n \in 0..HashSteps : \A tbl \in HashReach[n] :
            /\ HASH_FSCK(tbl)
            /\ \A k \in HashKeys : HASH_FIND(tbl, HashKey, k) = HeldBy(tbl) \cap {k}

\* What is watched, and what for, is what RMC's open connections asked for: in the
\* kernel's set, or in the array as the hash table finds its elements.
WatchedNow ==
    IF build = "epoll" THEN epoll_set
    ELSE LET elem(fd) == CHOOSE s \in HASH_FIND(poll_hash, Fd, fd) : TRUE
             found == {fd \in Descriptors : HASH_FIND(poll_hash, Fd, fd) # {}}
         IN [fd \in found |-> [user_data |-> poll_elem_array[elem(fd)].user_data,
                               events |-> poll_elem_array[elem(fd)].events]]
WatchedAsAsked ==
    exited = "no" =>
        /\ DOMAIN WatchedNow = {connections[c].fd : c \in DOMAIN connections}
        /\ \A c \in DOMAIN connections :
              WatchedNow[connections[c].fd] =
                  [user_data |-> UserData(connections[c]), events |-> connections[c].events]
        /\ build = "poll" => {s \in Slots : Fd[s] # NoFd} = {hh.elem : hh \in ToSet(poll_hash.order)}

\* The batches that wait to be handled, of every loop that handles one.
Pending == UNION {{stack[t][i].batch : i \in DOMAIN stack[t]} : t \in Threads}

\* An event reaches what it is of: that of an open connection that connection, whatever
\* was opened and closed since it was reported, and stdin's, which the program's own
\* loop has among them, the keyboard; that one is told from them by its data alone.
LiveEventsReach ==
    \A batch \in Pending : \A e \in ToSet(batch) :
        /\ e.data = 0 <=> e.conn = Stdin
        /\ exited = "no" /\ e.conn \in DOMAIN connections =>
              \E user_data \in Resolve(e) : ConnectionAt(user_data) = {e.conn}

\* An event that comes too late, because its connection is closed, may reach only one
\* that was opened since. With poll(2) it reaches an open connection or is dropped.
StaleEventsContained ==
    \A batch \in Pending : \A e \in ToSet(batch) :
        exited = "no" /\ e.conn \in 1..MaxOpened \ DOMAIN connections =>
            \A user_data \in Resolve(e) :
                /\ \A c \in ConnectionAt(user_data) : c > e.conn
                /\ build = "poll" => ConnectionAt(user_data) # {}

\* Descriptors outgrow no array. What a loop gives to poll(), and the batch it gets
\* back, have room in the arrays the loop has made, whatever was opened since the
\* sockets were counted. The process exits instead, and only then: the poll(2) build
\* when every element of DSTC's array is taken, or when the program's vector is short.
ArraysSuffice ==
    /\ \A t \in Threads : \A i \in DOMAIN stack[t] :
          LET frame == stack[t][i]
          IN /\ Len(frame.vector) <= frame.max
             /\ Len(frame.batch) <= frame.max + (IF frame.loop = "user" THEN 1 ELSE 0)
    /\ exited \in {"no", "full", "nomem"}
    /\ exited # "no" => build = "poll"
    /\ exited = "full" => \A s \in Slots : Fd[s] # NoFd
    /\ exited = "nomem" => \E t \in UserThreads : Len(PollVector) > Top(t).max

\* One thread at a time is in RMC, or in a function RMC's events brought in, though
\* such a function may process events itself and another loop locks event by event.
InRmc(t) == \E i \in DOMAIN stack[t] : stack[t][i].pc \in {"reading", "running", "writing"}
OneThreadInRmc == \A t \in Threads : InRmc(t) => owner = t

=============================================================================
