------------------------------ MODULE DstcLock ------------------------------
(***************************************************************************)
(* How the threads of a program share a DSTC context: the recursive mutex  *)
(* ctx->lock, the set-up on first use, and dstc_process_events(), which    *)
(* gives the lock up while it waits in epoll_wait() or poll() and takes it *)
(* with a time limit first (src/dstc.c, src/epoll.c, src/poll.c).          *)
(*                                                                         *)
(* A thread is in the program, or in a DSTC operation. While one of its    *)
(* operations handles events, the server function or callback that an      *)
(* event brings in runs, and may enter DSTC again: a thread has a stack of *)
(* frames. What the operations do in the critical section is the matter of *)
(* the other modules.                                                      *)
(***************************************************************************)
EXTENDS Naturals, Sequences, FiniteSets

CONSTANTS
    Threads,
    Nobody,     \* the owner of a free mutex
    MaxFrames   \* bound: how deep operations nest in a thread

ASSUME MaxFramesAssumption == MaxFrames \in Nat \ {0}
ASSUME NobodyAssumption == Nobody \notin Threads

(* How a frame of dstc_process_events() waits: "zero" for the loop that    *)
(* takes every pending event, "due" when a timeout is due already,         *)
(* "finite" up to a time limit, "infinite", and "pending" for              *)
(* dstc_process_pending_events(). "register" is an operation that adds to  *)
(* the tables of functions and callbacks, "none" any other operation.      *)
Modes == {"zero", "due", "finite", "infinite", "pending", "register", "none"}
Labels == {"lock", "body",                         \* other operations
           "next_timeout", "events_lock", "timed_lock", "waiting",
           "relock_event", "relock_timeout", "handling", "timeouts",
           "unlocked_timeouts"}
Frame == [pc : Labels, mode : Modes]

VARIABLES
    owner,      \* who has ctx->lock
    depth,      \* how many times
    stack,      \* stack[t]: t's frames, innermost last
    inits,      \* how often dstc_setup_internal() has run
    exited      \* exit(255) was called

vars == <<owner, depth, stack, inits, exited>>

TypeOK ==
    /\ owner \in Threads \cup {Nobody}
    /\ depth \in Nat
    /\ stack \in [Threads -> Seq(Frame)]
    /\ \A t \in Threads : Len(stack[t]) <= MaxFrames
    /\ inits \in Nat
    /\ exited \in BOOLEAN

Init ==
    /\ owner = Nobody
    /\ depth = 0
    /\ stack = [t \in Threads |-> <<>>]
    /\ inits = 0
    /\ exited = FALSE

---------------------------------------------------------------------------
(* The mutex, and the frame a thread is in.                                *)

CanLock(t) == owner \in {Nobody, t}

Lock(t) ==
    /\ CanLock(t)
    /\ owner' = t
    /\ depth' = depth + 1

Unlock(t) ==
    /\ owner = t
    /\ depth' = depth - 1
    /\ owner' = IF depth = 1 THEN Nobody ELSE t

Top(t) == stack[t][Len(stack[t])]
At(t, label) == stack[t] # <<>> /\ Top(t).pc = label /\ ~exited

Goto(t, label) == stack' = [stack EXCEPT ![t][Len(stack[t])].pc = label]
Enter(t, label, mode) ==
    stack' = [stack EXCEPT ![t] = Append(@, [pc |-> label, mode |-> mode])]
Return(t) == stack' = [stack EXCEPT ![t] = SubSeq(@, 1, Len(@) - 1)]

\* A faulty variant stands before the definition it changes; it is in no
\* specification, and some property must refute it.
InitContext_Again == inits' = IF inits < 3 THEN inits + 1 ELSE inits

\* _dstc_lock_and_init_context(): with the lock, the first one in sets up.
InitContext == inits' = IF inits = 0 THEN 1 ELSE inits

\* Code that may call DSTC: the program, or a function run for an event.
MayCall(t) ==
    /\ ~exited
    /\ stack[t] = <<>> \/ At(t, "handling")
    /\ Len(stack[t]) < MaxFrames

---------------------------------------------------------------------------
(* Every operation but event processing: lock and set up, act, unlock.     *)

Call(t) ==
    /\ MayCall(t)
    /\ \E mode \in {"register", "none"} : Enter(t, "lock", mode)
    /\ UNCHANGED <<owner, depth, inits, exited>>

\* The operations that register lock and do not set up: they run in the constructors
\* of the program's files. dstc_queue_func() sets up in _dstc_queue(), with the lock.
LockContext(t) ==
    /\ At(t, "lock")
    /\ Lock(t)
    /\ IF Top(t).mode = "register" THEN UNCHANGED inits ELSE InitContext
    /\ Goto(t, "body")
    /\ UNCHANGED exited

CallReturns(t) ==
    /\ At(t, "body")
    /\ Unlock(t)
    /\ Return(t)
    /\ UNCHANGED <<inits, exited>>

---------------------------------------------------------------------------
(* dstc_process_events(timeout_rel), dstc_process_pending_events().        *)

\* With 0 it locks at once, and does not set up. dstc_process_pending_events()
\* locks at once too.
dstc_process_events_zero(t) ==
    /\ MayCall(t)
    /\ \E mode \in {"zero", "pending"} : Enter(t, "events_lock", mode)
    /\ UNCHANGED <<owner, depth, inits, exited>>

\* Otherwise it asks for RMC's next timeout, under the lock.
dstc_process_events(t) ==
    /\ MayCall(t)
    /\ \E mode \in {"finite", "infinite"} : Enter(t, "next_timeout", mode)
    /\ UNCHANGED <<owner, depth, inits, exited>>

\* _dstc_get_next_timeout_abs() locks, sets up and unlocks. A wait without end
\* stays one only if RMC has no timeout; any wait may turn out due already.
NextTimeout(t) ==
    /\ At(t, "next_timeout")
    /\ CanLock(t)
    /\ InitContext
    /\ \E next \in {[pc |-> "events_lock", mode |-> "due"],
                    [pc |-> "timed_lock", mode |-> "finite"],
                    [pc |-> "events_lock", mode |-> "infinite"]} :
          /\ next.mode = "infinite" => Top(t).mode = "infinite"
          /\ stack' = [stack EXCEPT ![t][Len(stack[t])] = next]
    /\ UNCHANGED <<owner, depth, exited>>

\* Having the lock, _dstc_process_single_event() gives it up to wait. A context
\* that is not set up has no descriptor to wait on, and the process exits.
LockAndWait(t) ==
    \/ /\ inits = 0
       /\ exited' = TRUE
       /\ UNCHANGED <<owner, depth, stack, inits>>
    \/ /\ inits > 0
       /\ Goto(t, "waiting")
       /\ UNCHANGED <<owner, depth, inits, exited>>

EventsLock(t) ==
    /\ At(t, "events_lock")
    /\ CanLock(t)
    /\ IF Top(t).mode = "pending"
       THEN InitContext /\ Goto(t, "waiting") /\ UNCHANGED <<owner, depth, exited>>
       ELSE LockAndWait(t)

TimedLock(t) ==
    /\ At(t, "timed_lock")
    /\ CanLock(t)
    /\ LockAndWait(t)

\* Another thread has the lock. The limit is a time of the monotonic clock, which
\* pthread_mutex_timedlock() takes for one of the real-time clock: long past.
TimedLockExpires(t) ==
    /\ At(t, "timed_lock")
    /\ ~CanLock(t)
    /\ Goto(t, "unlocked_timeouts")
    /\ UNCHANGED <<owner, depth, inits, exited>>

\* The timeouts are processed all the same. The mutex is recursive: to unlock it
\* without owning it is an error that nobody looks at, and changes nothing.
ExpiredReturns(t) ==
    /\ At(t, "unlocked_timeouts")
    /\ Return(t)
    /\ UNCHANGED <<owner, depth, inits, exited>>

\* An event comes in, or the time to wait is up.
Wake(t) ==
    /\ At(t, "waiting")
    /\ \/ Goto(t, "relock_event")
       \/ Top(t).mode # "infinite" /\ Goto(t, "relock_timeout")
    /\ UNCHANGED <<owner, depth, inits, exited>>

RelockForEvents(t) ==
    /\ At(t, "relock_event")
    /\ Lock(t)
    /\ Goto(t, "handling")
    /\ UNCHANGED <<inits, exited>>

RelockForTimeouts_WithoutLock(t) ==
    /\ At(t, "relock_timeout")
    /\ Goto(t, "timeouts")
    /\ UNCHANGED <<owner, depth, inits, exited>>

\* "due" and "zero" waits process timeouts when no event is left; so does a finite
\* wait that ran out; dstc_process_pending_events() only unlocks.
RelockForTimeouts(t) ==
    /\ At(t, "relock_timeout")
    /\ Lock(t)
    /\ Goto(t, "timeouts")
    /\ UNCHANGED <<inits, exited>>

EventsHandled_KeepsLock(t) ==
    /\ At(t, "handling")
    /\ IF Top(t).mode = "zero" THEN Goto(t, "events_lock") ELSE Return(t)
    /\ UNCHANGED <<owner, depth, inits, exited>>

\* The events are handled, and every function they ran has returned.
EventsHandled(t) ==
    /\ At(t, "handling")
    /\ \/ Top(t).mode = "zero" /\ Unlock(t) /\ Goto(t, "events_lock")
       \/ Top(t).mode = "pending" /\ Unlock(t) /\ Goto(t, "waiting")
       \/ Top(t).mode = "due" /\ Goto(t, "timeouts") /\ UNCHANGED <<owner, depth>>
       \/ Top(t).mode \in {"finite", "infinite"} /\ Unlock(t) /\ Return(t)
    /\ UNCHANGED <<inits, exited>>

TimeoutsProcessed_UnlocksTwice(t) ==
    /\ At(t, "timeouts")
    /\ owner = t /\ depth' = depth - 2
    /\ owner' = IF depth <= 2 THEN Nobody ELSE t
    /\ Return(t)
    /\ UNCHANGED <<inits, exited>>

TimeoutsProcessed(t) ==
    /\ At(t, "timeouts")
    /\ Unlock(t)
    /\ Return(t)
    /\ UNCHANGED <<inits, exited>>

Next ==
    \E t \in Threads :
        \/ Call(t)
        \/ LockContext(t)
        \/ CallReturns(t)
        \/ dstc_process_events_zero(t)
        \/ dstc_process_events(t)
        \/ NextTimeout(t)
        \/ EventsLock(t)
        \/ TimedLock(t)
        \/ TimedLockExpires(t)
        \/ ExpiredReturns(t)
        \/ Wake(t)
        \/ RelockForEvents(t)
        \/ RelockForTimeouts(t)
        \/ EventsHandled(t)
        \/ TimeoutsProcessed(t)

Spec == Init /\ [][Next]_vars

---------------------------------------------------------------------------
(* Properties.                                                             *)

Locked == {"body", "handling", "timeouts"}
Holding(t) == Cardinality({i \in 1 .. Len(stack[t]) : stack[t][i].pc \in Locked})

\* Somewhere in t's stack an operation is at work on the context.
Working(t) ==
    \E i \in 1 .. Len(stack[t]) :
        stack[t][i].pc \in Locked \cup {"unlocked_timeouts"}

\* The mutex is held as often as its owner's frames count on it, through nested
\* waits, and by no thread that is back in the program: no operation returns with
\* the lock or gives away its caller's.
LockBalanced ==
    \A t \in Threads : Holding(t) = IF owner = t THEN depth ELSE 0

\* Two threads are at work on the context together only if the time limit on the
\* lock of one of them ran out.
ExclusiveButForExpiry ==
    \A t, u \in Threads :
        t # u /\ Working(t) /\ Working(u) =>
            At(t, "unlocked_timeouts") \/ At(u, "unlocked_timeouts")

\* Registering is all that works on a context that is not set up.
Registering(f) == f.pc = "body" /\ f.mode = "register"

\* However many threads come first together, the context is set up once, before any
\* operation of theirs but registering works on it, waits on it, or processes its
\* timeouts.
SetUpOnce ==
    /\ inits <= 1
    /\ \A t \in Threads : \A i \in 1 .. Len(stack[t]) :
          LET f == stack[t][i] IN
          /\ f.pc \in Locked \cup {"waiting", "timed_lock", "unlocked_timeouts"}
          /\ ~Registering(f)
          => inits = 1
=============================================================================
