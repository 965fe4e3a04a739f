# DSTC in TLA+

Specifications, model-checking configurations and proofs for DSTC
(Distributed STate machine C), the RPC library in `src/`: a program declares
functions with the macros of `dstc.h`, calls them, and the library carries the
calls by reliable multicast (RMC) to every server that has them.

Source references are `file:line` under `src/`.

## 1. The system

All state is one context, `_dstc_default_context` (`dstc.c:41`), shared by the
program's threads under one recursive mutex. DSTC has no thread of its own: RMC
and the functions that remote nodes call run inside `dstc_process_events()`.

| Component | State | Operations |
|---|---|---|
| Outbound buffering | `pub_buffer`, `pub_buffer_ind`, `pub_is_buffering` | `dstc_queue_func`, `dstc_queue_callback` (through `_dstc_queue`), `dstc_buffer/flush/unbuffer_client_calls`, `_queue_pending_calls` |
| Callback table | `local_callback`, `callback_ind` | `dstc_activate_callback`, `dstc_register_callback_server`, `dstc_cancel_callback`, the lookups by reference and by function |
| Directory | `remote_node`, `client_func`, `server_func`, their indexes, `client_callback_count` | `dstc_register_*`, `dstc_subscription_complete`, the control-message and disconnect callbacks, `dstc_remote_function_available[_by_name]` |
| Lock and event processing | `lock`, `pub_ctx` (is it set up), `epoll_fd` | `_dstc_lock*`, `dstc_process_events`, `dstc_process_pending_events`, `dstc_process_timeout`, `dstc_setup*` |
| Inbound dispatch | none of its own | `dstc_process_incoming`, `dstc_process_function_call` |
| Descriptor bookkeeping | the epoll set, or `poll_elem_array` and `poll_hash` | `poll_add/modify/remove`, `_dstc_process_single_event`, `dstc_process_*_result`, `dstc_retrieve_pollfd_vector` |
| Timeout arithmetic | none | `_dstc_get_timeout_msec_rel`, the first half of `dstc_process_events` |
| Serialization | none | the macros of `dstc.h` |
| Hash table | buckets, chains, the order of insertion | what `poll.c` uses of `uthash.h`: add, find, delete |
| Programs | a callback, a loop of their own | `examples/callback`, `examples/chat`, the stress examples |

Interactions. The program calls the outbound half and the queries. RMC calls the
context back: a packet is ready (dispatch, which runs server functions and
callbacks, which may call DSTC again), a subscription is complete (the directory
of a server sends), a control message came (the directory of a client grows), a
subscriber disconnected. RMC tells the outbound half when traffic is suspended.

What is hard: several threads in one context; a lock that is given up in the
middle of an operation; operations that run inside operations; connections that
break with messages in them; tables of fixed size that end the process when they
are full; calls that are refused and made again; traffic that stops and starts.

What makes each component correct:

- *outbound*: an accepted call leaves once, in order, and eventually; a refused
  call leaves no trace and can be repeated with success; packets are framed right;
- *callbacks*: an activation is run at most once, by the reply that carries it,
  and stays reachable until then; the table is used up only by real callbacks;
- *directory*: the functions of connected nodes, and only those, are available;
- *lock*: one thread at a time; what is locked is unlocked as often; one set-up;
- *dispatch*: every call in a packet runs once, in order, also when a function
  it runs processes events;
- *descriptors*: an event is delivered to the connection it came from, the hash table
  finds what it holds, no array is outgrown, one thread at a time is in RMC;
- *timeouts*: a wait ends when RMC has something to do and within the program's limit, as
  far as the time lost to the lock allows;
- *end to end*: what runs is what was called, and a callback runs as often as it was
  activated, however many servers reply.

`PROJECT.json` lists the hazards, each at its line, with the properties aimed at
it or the reason why there is none.

## 2. Modules

| Module | What it is |
|---|---|
| `CallStream` | abstract: one ordered stream of accepted calls, each leaving once |
| `DstcOutbound` | outbound buffering, flow control, retrying callers; implements `CallStream` |
| `DstcCallbacks` | the table of one-shot callbacks, access by access where no lock is held |
| `DstcDirectory` | announcement, control messages, disconnects, the availability queries |
| `DstcLock` | threads, the recursive mutex, set-up, waits, nested operations |
| `UtHash` | the hash table: adding, finding, deleting, the doubling of the buckets |
| `DstcEvents` | both builds' descriptors, batches of events, two kinds of loop; uses `UtHash` |
| `DstcCodec` | bytes of arguments, calls and packets, as the macros write and read them |
| `DstcDispatch` | a call from its macro to the function it runs, nested dispatch; uses `DstcCodec` |
| `DstcTimeouts` | how long a wait is, the time limit on the lock, when timeouts are processed |
| `DstcRpc` | calls with callbacks between several clients and servers |
| `Dstc*Proof` | theorems about the module they are named after (section 5) |
| `MCDstc*` | the instances for TLC |

Each module takes one aspect of the one context, and leaves to the others what they are
about: `DstcOutbound` has sizes where `DstcDispatch` has bytes; `DstcDispatch` is under
the lock, which `DstcLock` and `DstcEvents` are about; `DstcRpc` puts together, as single
steps, what the others have in detail, and adds the other processes.

Definitions keep the names of the functions they translate. A definition whose name
ends in `_Something` after the name of another one is a faulty variant of it: the
change a plausible bug would make. It is in no specification; `PROJECT.json`,
"mutants", names the property that refutes it.

### DstcOutbound

A framed call is the record of its thread, its number among the thread's calls, and
its size (header, name or reference, arguments); contents play no part.
`pub_buffer` is the sequence of framed calls and `pub_buffer_ind` the bytes they take.
Every operation holds the lock throughout and is one action.

| Code | Action or operator |
|---|---|
| `_dstc_queue` with room (`dstc.c:842`) | `QueueAccepted`: frame, and hand over unless collecting |
| `_dstc_queue` without room (`dstc.c:877`) | `QueueRefused`: hand over in any mode, EBUSY |
| a call by the program, by `DSTC_CLIENT` or `DSTC_SERVER_CALLBACK` | `NewCall`; on EBUSY it is dropped, or kept in `retrying` |
| the loops of the stress examples | `Retry` |
| `_queue_pending_calls` (`dstc.c:318`) | `queue_pending_calls` |
| `dstc_buffer/flush/unbuffer_client_calls` | the actions of these names |
| RMC: queue, suspend at the threshold, acknowledge, restart | `rmc_pub_queue_packet`, `RmcAck` (external) |

`accepted` and `handed` are history variables, for the statement of properties.

External behaviour assumed of RMC: a queued packet stays unconfirmed until every
subscriber has acknowledged it; traffic is suspended when the number of unconfirmed
packets reaches `SUSPEND_TRAFFIC_THRESHOLD` and runs again when it has fallen to
`RESTART_TRAFFIC_THRESHOLD` (set at `dstc.c:793`). The packets are confirmed in order
in the model; only their number matters to the properties.

### DstcCallbacks

`dstc_activate_callback` takes no lock, so it is split at every access to the table and its
index: `Activate`; the loop, `Scan` (the comparison with `callback_ind`), `Look` (the slot) and
`ScanEnds` (with the check for a full table); `WriteRef`, `WriteCallback`; the comparison
at `dstc.c:446`, `Reused` or `Allocated`; and the two accesses of `callback_ind++`,
`LoadIndex` and `StoreIndex`. Two threads can so take the index past the table, and a search
reads behind it: the first element there begins with `callback_ind` itself, the rest is
unknown (`Found`). The other operations hold the lock and are one action each. An
activation, which does not, could meet them halfway as well; the interleavings that are there suffice
to refute what the texts say of several threads, and with one thread there are none.
The function passed stands for both its
pointer (the reference) and its dispatcher, which the macro
`DSTC_CLIENT_CALLBACK_ARG` always pairs. A reply may carry the reference of any
function at any time, which covers late, repeated and foreign replies. The model
starts in a context that is set up.

### DstcDirectory

One client and the server nodes that may subscribe to it. `link[n]` is the
subscription, `control[n]` the control messages on their way. The connection may
break at any moment, with the messages in it (`dstc_subscriber_disconnect_cb`), and
come back (`dstc_subscription_complete`). A restarted node draws a new id, so it is
another node. A cleared row keeps its place, as in the code.

### DstcLock

A thread has a stack of frames, one for each DSTC operation it is in; a frame in
`handling` is a batch of events, whose functions may enter DSTC again. Frames move as
the code between two lock operations moves, `mode` says which path of
`dstc_process_events()` a frame is on, or, for other operations, whether it registers: the four
`dstc_register_*` functions lock and do not set up (`dstc.c:949`, 977, 1007, 1051), all others do
both. `dstc_queue_func()` locks first and sets up in `_dstc_queue()`, under the same lock, which is
the one step `LockContext`. Which path is taken depends on times, and is a
choice. The ETIME path (`dstc.c:1285`) is `TimedLockExpires` and `ExpiredReturns`.
The limit given to `pthread_mutex_timedlock()` is a monotonic time and the function
reads real time, so it has always passed when the lock is taken.

### UtHash and DstcEvents

`UtHash` keeps what uthash keeps: the list of all elements in the order of insertion, a
chain and two counts for each bucket, and the counters that decide whether doubling is
given up (`ineff_expands`, `noexpand`). A chain is a set of handles: its order would only
matter to a search with two hits, and `HashFindsItsKeys` says that there is at most one. Hash values are a constant, so that an instance
can make keys collide. The key is not in the handle: it is in the element of
`poll_elem_array`, and operators are given the keys the elements hold now. So a
descriptor that was changed before its element was deleted would be noticed.

`DstcEvents` has the state of both builds and a variable `build` that says which is used.

| Code | Action or operator |
|---|---|
| `poll_add`, `poll_modify`, `poll_remove` (`epoll.c`, `poll.c`) | the operators of these names, called in the middle of RMC's steps |
| user data: index, side, DSTC's flag (`dstc_internal.h`) | `TO_POLL_EVENT_USER_DATA`, `FROM_...`; the flags 2^15 and 2^31 are constants |
| `_dstc_process_single_event` | `_dstc_process_single_event`, `WaitReturns` or `WaitTimesOut`, `LockForBatch` |
| `_dstc_process_epoll_result`, `_dstc_process_poll_result` | `TakeEvent`, `ReadEvent`, `FunctionReturns`, `WriteEvent` |
| the loop of `chat.c` | `dstc_get_socket_count`, `dstc_process_timeout`, `dstc_retrieve_pollfd_vector`, `handle_keyboard` |
| RMC | `RmcOpens`, `RmcCloses`, `RmcModifies` (external) |

An event carries what the code has of it, the user data or the descriptor, and, for the
properties, whose it was when it was reported. Descriptors and indexes are used again, the
lowest free one first, as by the kernel and by RMC. Several frames of one thread may hold
batches at once, which is where events grow out of date.

### DstcCodec and DstcDispatch

A byte is `<<kind, value, i>>`: the i-th of a value of that kind. Reading bytes as what
they are not, or past their end, gives `Junk`, so a wrong offset or length shows in
what a function is given; a value need not be spelt out. Sizes, offsets and lengths are those
of the code, with lengths modulo `UINT16_RANGE`. `DstcCodec` has the macros' two sides
(`SERIALIZE_ARGUMENTS`, `DESERIALIZE_ARGUMENTS`), and `Frame`, the header and name or
reference that `_dstc_queue` puts before them.

`DstcDispatch` has a stack of frames at the receiver, one for each
`dstc_process_incoming()` that runs. `TakePacket`, `dstc_process_function_call`,
`FunctionReturns` and `FreePayload` are its steps; `ReadEvent` begins one, from the program
or from a function that runs. `made`, `buffered`, `contents` and `ran` are history.

### DstcTimeouts

Time is relative: `due[s]` counts the ticks to RMC's next timeout of a side, and `phase`
the ticks into the current millisecond, so that the code's rounding to milliseconds is
seen and no clock grows without bound. `mode` is which call the thread makes over and over:
`dstc_process_events(0)`, with a limit, with -1, or the loop of `chat.c`. `MaxAhead` bounds how far
ahead RMC sets a timeout, and `MaxAhead + 1` stands for none at all.

The steps follow the code from lock to lock. `ReadClock` is `dstc.c:1233` (1174 for `chat.c`);
`dstc_process_events` and `ChatLoop` come after the lock of 277, and compute with the time since
then (`spent`), as the code computes with the old reading. Other threads take the lock
(`held`) whenever it is free and keep it as long as they like, so every place that locks
without a limit may stop there for any time: 277, 1223, 1240, 1265, and the lock after a wait,
`epoll.c:187` (labels `Blocking`). `TryLock` is the lock with a limit. That limit is taken from the
monotonic clock and read as real time (`clocks`); that it also overflows beyond about two seconds comes to
the same outcome. `Interrupted` is a signal: the wait begins again with the whole of its
time (`epoll.c:180-186`). The wait of `chat.c` itself does not begin again, its loop does.

| Code | Action |
|---|---|
| `dstc_process_events(0)` | `dstc_process_events_0`, then `EventsAfterWait` or `TimeoutsAfterWait` |
| clock, lock at 277, time to wait | `ReadClock`, then `dstc_process_events` or `ChatLoop` |
| nothing to wait (1264) | `HandleDue`, `EventsAtOnce`, `TimeoutsAfterEvent` |
| wait without an end (1239) | `WaitForever` |
| the lock with a limit (1272-1298) | `TryLock`, `LockAfterWait`, `LockExpires` |
| the wait and the lock after it | `Interrupted`, `WaitReturns` or `WaitTimesOut`, then `EventsAfterWait` or `TimeoutsAfterWait` |
| other threads | `OtherTakes`, `OtherReleases` |

`slack` is history: the ticks between clock reading and lock, and those that signals undid. They are
by what a wait may be over later than worked out, and the properties speak of them; `MaxSlack` is their bound.

### DstcRpc

A client's callback is at an address, and `Placements` says which clients may share one.
`channel[<<p, q>>]` holds what p has sent to q and q has not taken. Every server that
has subscribed runs a call, and each replies to every client that has subscribed to it.
A refused call has activated its callback already. A call has a number, which is not sent: it
tells in the properties for which call a callback ran (`served`).

## 3. Runs

| Run | Question | Instance | Result |
|---|---|---|---|
| `outbound` | are calls kept, ordered, bounded, and do retries succeed? | 2 threads, 3 calls each, sizes 1, 2, 4, buffer 3, thresholds 2 and 0 | holds, 480 908 states |
| `outbound_stranded` | does an accepted call leave without help? | 2 calls each | violated |
| `callbacks` | one thread: is every activation reachable, taken once? | 3 slots, 2 functions, 4 activations of each | holds, 3 326 states |
| `callbacks_threads` | the same, two threads | 2 activations of each | violated |
| `directory` | is the table complete, and learned in the end? | 2 nodes, 2 functions, 3 rows | holds, about 300 000 states |
| `directory_disconnect` | is an available function served by somebody? | the same | violated |
| `lock` | is the lock balanced, exclusion kept, set-up done once? | 3 threads, 2 frames deep | holds, 61 889 states |
| `events` | does every event reach its connection, and do the tables hold? | 2 threads, 3 connections, 3 descriptors, 2 indexes, arrays of 2 | holds, 2 016 998 states |
| `dispatch` | does what was called run, once, in order, and in the end? | 4 calls of 4 shapes, buffer 49 bytes, 16 bits cut to 50, nesting 3 | holds, 260 793 states |
| `timeouts` | are waits long enough and no longer, and is what is due processed in the end? | 2 ticks to the millisecond, timeouts 3 ticks ahead, limit 1 ms, 1 tick lost at most | holds, 345 958 states |
| `rpc` | does a callback run as often as it was activated? | 2 clients with 2 and 1 calls, 2 servers, 1 change of subscription | holds, 921 049 states |
| `rpc_promise` | only at the client that called, and only for one of the replies? | the same | violated |

Why the bounds are enough. *Outbound*: with buffer 3, a call fills a third of it, two
thirds, or can never fit, so exact fits, near misses, refusals with calls in the buffer
and with an empty one all occur; six calls can fill two packets and the buffer under
suspension. `RestartThreshold = 0 < SuspendThreshold - 1` keeps the band between the
thresholds. Size 3 is left out for the sake of time: 1 + 2 is the exact fit. *Callbacks*:
four activations of each function against three slots fill the table. *Directory*: four
different rows against three; two registrations fill a table of functions. *Lock*: three
threads give an owner, a waiter and one whose limit expires; two frames give an operation
inside the events of another. *Events*: three connections against two array
elements fill the array; with two indexes and three descriptors both are used again after a
close; of the hash values some are equal and others share a bucket, so that chains, doubling and
ineffective doubling occur; a batch of two is the least in which one event invalidates
another, and two frames the least in which an inner batch invalidates an outer one. The hash
table is also taken by itself through every sequence of six changes, from one
bucket, with more keys than there are descriptors. *Dispatch*: the shapes are dynamic data
with what follows it, data longer than its length field can say, an array, an array of one element,
a callback reference, an unknown function, and a reply; two small calls share a packet; three
levels let a function under dispatch meet the packets behind its own twice over.
*Timeouts*: a timeout three half milliseconds ahead is met by a call at any
tick since it was set, so before, at and after the limit, and due or overdue; half milliseconds show the
rounding; one tick of slack is enough for a timeout to come due between clock reading and lock.
*Rpc*: two servers give two replies for one
activation, a second call, or a refused one, leaves an activation for a reply that comes late, and the second client receives
replies that are not for it, at its own address or at the same one.

Deeper stacks, more threads and longer queues repeat the same steps; the proofs of section 5
have no such bounds. Symmetry is used only in runs without liveness properties, over sets whose
members the specification and properties do not tell apart.

Deadlock is checked in `outbound`, where the buffer operations are always possible, and in
`timeouts`, where time or the thread can always go on. In the others the process may exit,
or a bounded number of calls is used up, and then nothing need follow.

### Fairness

`DstcOutbound!Fairness`: acknowledgements come in (RMC resends until they do, and a
caller in its EBUSY loop processes events), and a thread in the loop makes its call again.
Nothing is assumed of `NewCall` or of flushing. A repeated call succeeds under
weak fairness because the threads make finitely many calls here; with threads that never
stop, one of them could take the space every time, and `RetryAccepted` is not claimed.
`DstcDirectory!Fairness`: a client that processes events handles the messages of each
connected node; nothing is assumed of nodes or connections.
`DstcDispatch`: the sender flushes what it has buffered in the end (without it
`UnbufferedCallsLeave` is what happens), RMC delivers, and the receiver goes on: its functions
return. `DstcTimeouts`: the thread gets a lock that is free again and again, in the end, as
a mutex that threads queue for gives it (strong fairness of `Run`); time goes on; and while queues are
full there is an event when they have room. Nothing is assumed of other threads: that they give the lock back
is an antecedent of `DueServed`, as are the conditions each way of waiting needs (section 4).
`DstcRpc`: each client and each server
goes on processing events; losses are counted, not excluded.

## 4. What the violations show

1. `UnbufferedCallsLeave`: a call accepted outside buffered mode, while RMC has
   suspended traffic, stays in the buffer. When traffic restarts nothing hands it over
   (`dstc.c:922`): only another call, flush or unbuffer does. `dstc.h:61-63` and the
   stress examples count on `dstc_unbuffer_client_calls()` to send everything.
2. `NothingLost` with two threads: `dstc_activate_callback()` takes no lock
   (`dstc.c:411`), so two activations may write the same slot. `README.md:55`:
   "DSTC is fully thread safe both on the client and server side."
3. `AvailableIsServed`: `dstc_subscriber_disconnect_cb()` unregisters the id of the
   publisher, the client itself (`dstc.c:689`), not of the node that left, against
   `dstc.c:784-785`. The functions of a node that left stay available, and since rows are
   never reused the table fills up over the life of the client.
4. `CallbackPromise`: a reply goes to all subscribers and names the callback by its address. A
   client that has its callback at the same address, and activated, runs it for another's call
   (`OnlyTheSenderRuns`): `README.md:412-413`, "will only be received by the sending client". And when two
   servers reply to one call, and a later call has activated the callback again, both replies run it, the
   second instead of the later call's (`OneReplyRuns`): `README.md:415-417`, "only one of those callbacks
   will be forwarded", the rest are dropped. TLC stops at the first; with `Placements` that
   give each client an address of its own it shows the second.

What else the code does not do as described is excepted by name in the properties that hold:

- `ExclusiveButForExpiry`: on the ETIME path the timeouts are processed without the lock
  (`dstc.c:1285-1289`), then a mutex is unlocked that another thread has, against `README.md:55`. The
  property says that this is the only way to lose exclusion among the operations that lock.
- `IndexInTable` holds for one thread. Two activations that both found the last slot to be the next
  one pass the comparison at `dstc.c:446` and both increment the index. It is then `SYMTAB_SIZE + 1`, the
  check for a full table (`dstc.c:434`) is never met again, and slots behind the table are read and
  written. With a second member in `Threads` and two slots TLC shows it.
- `RunsWhatWasSent` excepts arrays of one element (`Survives`). Such an array is as large as its
  element, which is how `SERIALIZE_ARGUMENT` tells arrays from plain arguments (`dstc.h:383`): the
  pointer is sent. `README.md:34`: "All scalars, arrays, unions and structs can be transmitted".
- `WaitsForTheTimeout` and `ReturnsInTime` have `slack` in them. The clock is read before the lock is asked for
  (`dstc.c:1174`, 1233), so the time to the next timeout (`dstc.h:109`) is too long by the time
  another thread had the lock, and so is the wait; a signal makes it longer still.
- `ReturnsInTime` allows a call that had to wait for the lock to wait until RMC's timeout: its wait is
  worked out again from that alone (`dstc.c:1294`), against `dstc.c:1253-1254`.
- `DueServed` claims nothing of `dstc_process_events(-1)` in a context that others use: one that
  found no timeout of RMC waits for an event, and does not process a timeout that another thread's call
  sets, against `dstc.c:1248-1249`.
- `DueServed` needs queues that are never full for the loop of `chat.c`: while they are, it processes
  timeouts that end with EAGAIN, and not the events that would clear the queues (`chat.c:130`,
  against `dstc.c:1182-1183`).

## 5. Proofs

Eight modules hold theorems, none of which has a bound on the number of threads, nodes,
calls, sizes or depth, unless it says so. They assume what the constants' named assumptions
say, and nothing else. In each, an inductive invariant (`IInv`, `LockInv`, `RInv`, `Whole`) is shown to hold at first
and to be kept by every step, with one lemma for each operation.

`DstcOutboundProof`, for every set of threads, every finite or infinite set of positive
sizes, every buffer size, every pair of thresholds with restart below suspend, and any
number of calls (the assumptions named in `DstcOutbound`):

| Theorem | Statement | Argument |
|---|---|---|
| `TypeCorrect` | `[]TypeOK` | inductive; a call is framed only if it fits, so the index stays within the buffer |
| `InOrderOnceCorrect` | `[]InOrderOnce` | inductive with `TypeOK`: every step appends the same call to both sides, or moves calls from the buffer to the end of what is handed over |
| `ThreadOrderCorrect` | `[]ThreadOrder` | `NumbersInv`: accepted calls of a thread are numbered in ascending order, none above what it has issued, all below the one being retried. `ThreadOrder` alone is not inductive: it does not say that the next number is new |
| `InFlightBoundedCorrect` | `[]InFlightBounded` | `WindowInv`: while traffic is not suspended there is room below the threshold. This is what a hand-over needs, and the reason `InFlightBounded` alone is not inductive |
| `HeldForAReasonCorrect` | the action property `HeldForAReason` | `IndexInv`: with calls in the buffer the index is not 0, so that `_queue_pending_calls` is never without effect but under suspension; then one case for each operation |
| `StreamRefinement` | `Spec => StreamSpec` | each step is `Accept` or `Deliver` of `CallStream`, or stutters. `Accept` needs the call to be new, hence `NumbersInv` |

`DstcLockProof`, for every set of threads and any depth of nesting:

| Theorem | Statement |
|---|---|
| `LockTypeCorrect` | `[]TypeOK` |
| `LockBalancedCorrect` | `[]LockBalanced` |
| `SetUpOnceCorrect` | `[]SetUpOnce` |
| `ExclusiveButForExpiryCorrect` | `[]ExclusiveButForExpiry` |

All four follow from one inductive invariant, `LockInv` (theorem `LockInvariant`): types;
`StackInv`, below an operation there is only the handling of the events that ran it;
`SetUpInv`, every frame that will use the context without looking again (`Uses`: all but the
registering ones) is evidence that it is set up; and `CountInv`, which is `LockBalanced` together with "a mutex
held no times is free", needed to know what an unlock leaves. None of the properties
is inductive without the others: that the expired thread is the innermost frame comes
from `StackInv`, that nobody has exited meanwhile from `SetUpInv`. The fifteen actions are
first reduced to four shapes (`StepShape`): start an operation, move its label, end it, or
exit; the lock is taken or given up exactly when the label moves into or out of `Locked`.
Preservation is then proved once for each shape.

`DstcCallbacksProof`:

| Theorem | Statement |
|---|---|
| `TypeCorrect` | `[]TypeOK` |
| `IndexInTableCorrect` | `[]IndexInTable` |
| `NothingLostCorrect` | `[]NothingLost` |
| `TidyCorrect` | `[]Tidy` |
| `ExitOnlyWhenFullCorrect` | `[]ExitOnlyWhenFull` |

All are for one thread (`Threads = {t}` is a hypothesis), any functions, any size of the table and any
number of activations. None of them survives a second thread (section 4, `NothingLost` and
`IndexInTable`). `InTable` says that nothing has moved the index since the
activation compared its slot with it; `Places` relates the half-written slot of an activation to its program
counter; `Balance` counts: activated is taken plus what the table and an unfinished activation
hold. The count over slots is a cardinality, and each step changes it by one or not at all.

`DstcDirectoryProof`, for any nodes, functions and size of the table:

| Theorem | Statement |
|---|---|
| `TypeCorrect` | `[]TypeOK` |
| `SubscribedKnownCorrect` | `[]SubscribedKnown` |
| `ExitOnlyWhenFullCorrect` | `[]ExitOnlyWhenFull` |

The invariant adds that no row is cleared (a disconnect takes out the rows of the
client's own id, and there are none: the defect of section 4 is what makes the table
only grow), that each row is there once (`Once`), that the rows are exactly what was received
(`Recorded`), and that nothing is connected before the client announces itself (`Quiet`).
`ExitOnlyWhenFull` needs the first three: the table is at its end with as many different rows as it
is long, and the one that does not fit is one more.

`DstcEventsProof`, for any threads, loops, batches and depth of nesting, any descriptors,
number of connections, size of the arrays and hash function, and whatever RMC opens and closes:

| Theorem | Statement | Invariant |
|---|---|---|
| `OneThreadInRmcCorrect` | `[]OneThreadInRmc` | `IInv` |
| `HashFindsItsKeysCorrect` | `[]HashFindsItsKeys` | `TableOK` after any number of changes |
| `TypeCorrect` | `[]TypeOK` | `RInv` |
| `WatchedAsAskedCorrect` | `[]WatchedAsAsked` | `RInv` |
| `LiveEventsReachCorrect` | `[]LiveEventsReach` | `RInv` |
| `StaleEventsContainedCorrect` | `[]StaleEventsContained` | `RInv` |
| `ArraysSufficeCorrect` | `[]ArraysSuffice` | `RInv` |

`IInv` says which frames have the lock (`Locks`), and how a stack is built (`StackOK`): below
its top every frame runs a function, and a program's own loop is outermost. Without it the step
in which a loop gives up the lock between two events could not be told from one that takes it
away from an outer batch.

`TableOK` is what makes the hash table find its keys: the list of elements has each once, with
the hash value of the key it holds now (`ListOK`), and a bucket has exactly the handles whose
hash values lead to it, and counts them (`BucketsOK`). Adding, deleting and doubling keep
it, whether doubling is effective, ineffective or given up. `HashFindsItsKeys` asks it of the
table of the program and of every table that a sequence of changes leads to; the
sequences are dealt with by induction over their length, as below.

`RInv` relates what is watched to who asked for it. `RegistryOK`: in either build the watched descriptors
are those of the open connections, with their user data and events. `StacksHold`:
an event in a batch or being handled is told by something that only its connection has
had, or one that was opened later; this is the part that the run could only show for short
batches, since each frame on the stack may be out of date in another way. `ExitOK`: nobody
gives up on a table with room in it. `LiveEventsReach` and `StaleEventsContained` are not inductive alone,
because they say nothing of what is registered when the next event is reported.

`DstcTimeoutsProof`, for any number of ticks to the millisecond, any limit, any timeouts RMC
may set, and any time lost to the lock and to signals:

| Theorem | Statement |
|---|---|
| `TypeCorrect` | `[]TypeOK` |
| `WaitsForTheTimeoutCorrect` | `[]WaitsForTheTimeout` |
| `ReturnsInTimeCorrect` | `[]ReturnsInTime` |

All bounds count from the clock reading and have `slack` in them, for the time between it and the
lock and for what signals undo: without it they are false. How long the thread
is kept waiting for the lock after its wait for events has no bound.

`IInv` relates the milliseconds that the code computes with to the ticks they were
rounded from, while time passes in waits for the lock: `Counted`, the milliseconds spent are the
ticks elapsed, but for the part of one; `Rounded`, the remaining timeout is that of RMC rounded up to
a full millisecond, counted from the beginning of one; `WaitsInTime`, the wait that has begun, or will, is over neither
late nor early; `Bounded`, how long it can be; and `Quiet`, what the
variables are when nothing is waited for. The properties speak of the wait that has begun. What they
need is how it was computed, up to two waits for the lock earlier.

`DstcDispatchProof`, for any calls and declarations of arguments, any buffer smaller than the
range of a 16-bit length, any nesting:

| Theorem | Statement |
|---|---|
| `PayloadsFreedAfterUseCorrect` | `[]PayloadsFreedAfterUse` |
| `RunOnceCorrect` | `[]RunOnce`: no place in a packet and no activated callback is run twice |
| `TypeCorrect` | `[]TypeOK` |
| `RunsWhatWasSentCorrect` | `[]RunsWhatWasSent` |
| `EachRunOnceCorrect` | `[]EachRunOnce` |
| `OvertakesOnlyFromWithinCorrect` | `[]OvertakesOnlyFromWithin` |

There are two invariants. `IInv` does not look into the bytes. No two frames have the same packet
(`Apart`), as a packet is marked when it is taken; a frame is never behind what has
run of its packet (`Passed`). `RunOnce` follows.

`Whole` does. `Sent`: the buffer and each packet are the frames of the calls made, one after the
other, and taken together they are all of them, in order. `Place`: a frame of
dispatch is always where one of those frames begins or at the end, never within one.
`AsCalled`: what ran was given what was called, but for data whose length does not fit its
field and arrays of one element, which the code loses and `Survives` excepts. `InOrder`: a later packet ran before an earlier one only from within a
function of the earlier. It rests on the codec lemmas: the arguments that
`SERIALIZE_ARGUMENTS` writes are read back by `DESERIALIZE_ARGUMENTS`, one by one
(`SerializedArguments`, `ReadOneByOne`); the header in front says how long they are (`FrameIs`);
and so a frame is read back as its call at whatever offset it stands in whatever bytes (`FrameIsRead`,
`CallIsRead`). It follows that the checks of `dstc_process_function_call` for packets cut
short never fail on what this sender has written. The assumptions are that a call with a
name has no reference, that it has the arguments its function was declared with, and that a length is
given where the declaration asks for one (`CallsAssumption`): what the macros make sure of. The buffer
has to be within the range of the length field (`BufferAssumption`) (`dstc_internal.h:106`; its size is RMC's payload, which
one datagram carries).

`DstcRpcProof`, for any clients, servers, placements and subscriptions:

| Theorem | Statement |
|---|---|
| `TypeCorrect` | `[]TypeOK` |
| `RunsAsActivatedCorrect` | `[]RunsAsActivated` |

The invariant adds `ReferencesRefer`: what is on its way between processes carries the null
reference or the address of the callback of the client that made the call. More than that, that the callback
runs for its own client's calls and once for each, is not so: section 4, `CallbackPromise`.

### Only model-checked

- Liveness: `RetryAccepted`, `BecomesKnown`, `EveryCallRuns`, `DueServed`,
  `AnsweredUnlessLost`. The proof system does not reach properties under fairness here.
- The properties of `DstcCallbacks` are proved for one thread, which is where they hold.

Every other property of the runs that pass is a theorem.

Induction. The induction theorems of the library take an operator as a parameter, which none of the
provers can instantiate. Where a proof needs induction over data (folds over the elements of
a packet, sequences of changes to a hash table) it uses the least counterexample instead: a
set of naturals that is not empty has a least element (`LeastNatural`, from the well-founded order
of finite sets), and `InductionTo` has a set, not an operator, for its parameter.
The operators that are reasoned about are recursive functions; there is no RECURSIVE
operator in the modules.

## 6. Not modelled, and why

- RMC itself, the sockets and the network: not in this repository. The assumptions made
  about them are above and in the comments of the external definitions.
- Logging, and configuration by environment variables: no state of their own.
- Of `uthash.h` (vendored) what `poll.c` does not use: other key types, sorting, selection,
  Bloom filters; the hash functions are a constant. The build files. Of the examples what only
  prints.
- The limit of 16 arguments that the macros have: a longer declaration does not compile.
- Failure of `malloc` (the process ends) and calls with neither name nor reference
  (refused with EINVAL, no state changes).
- `dstc_setup2()`, `dstc_setup_epoll()` and `dstc_setup()` called by the program itself. Every
  program of the repository that does so is alone in the library then; `DstcLock` has the
  set-up on first use, from any thread. For the same reason `DstcCallbacks` starts in a context
  that is set up: that `dstc_setup_internal()` resets `callback_ind` (`dstc.c:760`) after a first call has
  activated its callback is listed among the hazards, without a property.
- The C++ class `CallbackVector` and the `dstc.h` macros' C++ variants: generated code around the
  same functions.
