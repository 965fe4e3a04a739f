-------------------------- MODULE DstcEventsProof ---------------------------
(***************************************************************************)
(* Proofs about DstcEvents, for any threads, nesting, descriptors, hash     *)
(* function and batches, and whatever RMC does to its connections.         *)
(*                                                                         *)
(* One thread at a time is in RMC: the two kinds of loop keep the lock in  *)
(* different ways. The library has it for a batch, and gives it up after   *)
(* the last event unless it runs inside a function of an outer batch; a    *)
(* program's loop has it for an event, and never runs inside another.      *)
(*                                                                         *)
(* The hash table finds what it holds: a bucket has the handles whose hash *)
(* values lead to it, whenever the buckets are doubled.                    *)
(*                                                                         *)
(* Descriptors and events: what is watched is what the open connections    *)
(* asked for, and an event that waits is told by what only its connection  *)
(* has, or one that was opened later.                                      *)
(***************************************************************************)
EXTENDS DstcEvents, FiniteSetTheorems, TLAPS

---------------------------------------------------------------------------
(* The lock.                                                               *)

FrameOK(f) ==
    /\ DOMAIN f = {"loop", "pc", "max", "vector", "batch", "user_data"}
    /\ f.loop \in {"library", "user"}

\* The lock is taken for what the frame is at.
Locks(f) ==
    \/ f.pc \in {"reading", "running", "writing"}
    \/ f.pc = "events" /\ f.loop = "library"

\* Event processing nests in functions that run; a program's own loop is outermost.
StackOK(s) ==
    \A i \in DOMAIN s :
        /\ FrameOK(s[i])
        /\ i # Len(s) => s[i].pc = "running"
        /\ s[i].loop = "user" => i = 1

IInv ==
    /\ \E S : stack \in [Threads -> Seq(S)]
    /\ \A t \in Threads :
          /\ StackOK(stack[t])
          /\ \A i \in DOMAIN stack[t] : Locks(stack[t][i]) => owner = t

---------------------------------------------------------------------------
(* What a thread does to its stack, and to the lock.                       *)

LEMMA LastOfSequence ==
    ASSUME NEW S, NEW s \in Seq(S)
    PROVE  /\ DOMAIN s = 1..Len(s) /\ Len(s) \in Nat
           /\ s # <<>> => Len(s) \in DOMAIN s /\ Len(s) \in Nat \ {0}
           /\ Len(s) > 1 => 1 \in DOMAIN s /\ 1 # Len(s)
           /\ Len(s) = 1 => ~(Len(s) > 1)
  OBVIOUS

LEMMA StackIsSequence ==
    ASSUME IInv, NEW t \in Threads
    PROVE  \E S : stack[t] \in Seq(S)
  BY DEF IInv

\* A thread that takes the lock or gives it up had it, or nobody had.
LEMMA StackStep ==
    ASSUME IInv, NEW t \in Threads, NEW S, NEW s \in Seq(S),
           stack' = [stack EXCEPT ![t] = s],
           StackOK(s), \A i \in DOMAIN s : Locks(s[i]) => owner' = t,
           owner' = owner \/ CanLock(t)
    PROVE  IInv'
  <1>1. PICK T : stack \in [Threads -> Seq(T)]
    BY DEF IInv
  <1>2. \A u \in Threads : stack[u] \in Seq(S \cup T)
    BY <1>1
  <1>3. s \in Seq(S \cup T)
    OBVIOUS
  <1>4. stack' \in [Threads -> Seq(S \cup T)]
    BY <1>1, <1>2, <1>3
  <1>5. stack'[t] = s /\ \A u \in Threads \ {t} : stack'[u] = stack[u]
    BY <1>1
  <1>6. ASSUME NEW u \in Threads
        PROVE  /\ StackOK(stack'[u])
               /\ \A i \in DOMAIN stack'[u] : Locks(stack'[u][i]) => owner' = u
    <2>1. CASE u = t
      BY <1>5, <2>1
    <2>2. CASE u # t
      <3>1. StackOK(stack'[u])
        BY <1>5, <2>2 DEF IInv
      <3>2. ASSUME NEW i \in DOMAIN stack'[u], Locks(stack'[u][i])
            PROVE  owner' = u
        <4>1. owner = u
          BY <1>5, <2>2, <3>2 DEF IInv
        <4>2. ~CanLock(t)
          BY <2>2, <4>1, UserAssumption DEF CanLock
        <4> QED
          BY <4>1, <4>2
      <3> QED
        BY <3>1, <3>2
    <2> QED
      BY <2>1, <2>2
  <1>7. \E Q : stack' \in [Threads -> Seq(Q)]
    BY <1>4
  <1> QED
    BY <1>6, <1>7 DEF IInv, StackOK, FrameOK, Locks

LEMMA NestedOwns ==
    ASSUME IInv, NEW t \in Threads, Nested(t)
    PROVE  owner = t
  <1>1. PICK S : stack[t] \in Seq(S)
    BY StackIsSequence
  <1>2. 1 \in DOMAIN stack[t] /\ 1 # Len(stack[t])
    BY <1>1, LastOfSequence DEF Nested
  <1>3. stack[t][1].pc = "running"
    BY <1>2 DEF IInv, StackOK
  <1> QED
    BY <1>2, <1>3 DEF IInv, Locks

LEMMA TopIsThere ==
    ASSUME IInv, NEW t \in Threads, stack[t] # <<>>
    PROVE  /\ Len(stack[t]) \in DOMAIN stack[t] /\ DOMAIN stack[t] = 1..Len(stack[t])
           /\ Len(stack[t]) \in Nat \ {0}
           /\ FrameOK(Top(t))
           /\ Locks(Top(t)) => owner = t
           /\ Top(t).loop = "user" => ~Nested(t)
  <1>1. PICK S : stack[t] \in Seq(S)
    BY StackIsSequence
  <1>2. /\ Len(stack[t]) \in DOMAIN stack[t] /\ DOMAIN stack[t] = 1..Len(stack[t])
        /\ Len(stack[t]) \in Nat \ {0}
    <2>1. DOMAIN stack[t] = 1..Len(stack[t])
      BY <1>1, LastOfSequence
    <2>2. Len(stack[t]) \in DOMAIN stack[t] /\ Len(stack[t]) \in Nat \ {0}
      BY <1>1, LastOfSequence
    <2> QED
      BY <2>1, <2>2
  <1>3. FrameOK(Top(t)) /\ (Locks(Top(t)) => owner = t)
    BY <1>2 DEF IInv, StackOK, Top
  <1>4. Top(t).loop = "user" => Len(stack[t]) = 1
    BY <1>2 DEF IInv, StackOK, Top
  <1>5. Top(t).loop = "user" => ~Nested(t)
    BY <1>1, <1>4, LastOfSequence DEF Nested
  <1> QED
    BY <1>2, <1>3, <1>5

LEMMA PushKeeps ==
    ASSUME IInv, NEW t \in Threads, Idle(t) \/ At(t, "running"),
           NEW f, FrameOK(f), ~Locks(f), f.loop = "user" => Idle(t),
           stack' = [stack EXCEPT ![t] = Append(@, f)], owner' = owner
    PROVE  IInv'
  <1> DEFINE s == Append(stack[t], f)
             n == Len(stack[t])
  <1>1. PICK S : stack[t] \in Seq(S)
    BY StackIsSequence
  <1>2. s \in Seq(S \cup {f}) /\ n \in Nat
    <2>1. stack[t] \in Seq(S \cup {f})
      BY <1>1
    <2> QED
      BY <1>1, <2>1
  <1>3. /\ DOMAIN s = DOMAIN stack[t] \cup {n + 1} /\ Len(s) = n + 1
        /\ DOMAIN stack[t] = 1..n
        /\ s[n + 1] = f
        /\ \A i \in DOMAIN stack[t] : s[i] = stack[t][i]
    <2>1. stack[t] \in Seq(S \cup {f})
      BY <1>1
    <2> QED
      BY <1>1, <2>1
  <1>4. StackOK(s)
    <2>1. ASSUME NEW i \in DOMAIN stack[t]
          PROVE  /\ FrameOK(s[i])
                 /\ s[i].pc = "running"
                 /\ s[i].loop = "user" => i = 1
      <3>1. stack[t] # <<>>
        BY <1>1
      <3>2. stack[t][n].pc = "running"
        BY <3>1 DEF Idle, At, Top
      <3>3. FrameOK(stack[t][i]) /\ (stack[t][i].loop = "user" => i = 1)
        BY DEF IInv, StackOK
      <3>4. stack[t][i].pc = "running"
        BY <3>2 DEF IInv, StackOK
      <3> QED
        BY <1>3, <3>3, <3>4
    <2>2. f.loop = "user" => n + 1 = 1
      BY <1>1 DEF Idle
    <2> QED
      BY <1>3, <2>1, <2>2 DEF StackOK
  <1>5. \A i \in DOMAIN s : Locks(s[i]) => owner' = t
    BY <1>3 DEF IInv
  <1>6. stack' = [stack EXCEPT ![t] = s]
    OBVIOUS
  <1> HIDE DEF s
  <1> QED
    BY <1>2, <1>4, <1>5, <1>6, StackStep

LEMMA SetTopKeeps ==
    ASSUME IInv, NEW t \in Threads, stack[t] # <<>>,
           NEW f, FrameOK(f), f.loop = Top(t).loop, SetTop(t, f),
           Locks(f) \/ Nested(t) => owner' = t,
           owner' = owner \/ CanLock(t)
    PROVE  IInv'
  <1> DEFINE n == Len(stack[t])
             s == [stack[t] EXCEPT ![n] = f]
  <1>1. PICK S : stack[t] \in Seq(S)
    BY StackIsSequence
  <1>2. n \in DOMAIN stack[t] /\ DOMAIN stack[t] = 1..n /\ n \in Nat \ {0}
    BY TopIsThere
  <1>3. s \in Seq(S \cup {f}) /\ Len(s) = n
    BY <1>1, <1>2
  <1>4. /\ DOMAIN s = DOMAIN stack[t] /\ s[n] = f
        /\ \A i \in DOMAIN stack[t] : i # n => s[i] = stack[t][i]
    BY <1>1, <1>2
  <1>5. StackOK(s)
    BY <1>3, <1>4 DEF IInv, StackOK, Top
  <1>6. \A i \in DOMAIN s : Locks(s[i]) => owner' = t
    <2>1. \A i \in DOMAIN stack[t] : i # n => Nested(t)
      BY <1>2 DEF Nested
    <2> QED
      BY <1>4, <2>1
  <1>7. stack' = [stack EXCEPT ![t] = s]
    BY DEF SetTop
  <1> HIDE DEF s
  <1> QED
    BY <1>3, <1>5, <1>6, <1>7, StackStep

LEMMA PopKeeps ==
    ASSUME IInv, NEW t \in Threads, stack[t] # <<>>, Pop(t),
           Nested(t) => owner' = t, owner' = owner \/ CanLock(t)
    PROVE  IInv'
  <1> DEFINE n == Len(stack[t])
             s == SubSeq(stack[t], 1, n - 1)
  <1>1. PICK S : stack[t] \in Seq(S)
    BY StackIsSequence
  <1>2. n \in DOMAIN stack[t] /\ DOMAIN stack[t] = 1..n /\ n \in Nat \ {0}
    BY TopIsThere
  <1>3. /\ s \in Seq(S) /\ Len(s) = n - 1 /\ DOMAIN s = 1..n - 1
        /\ \A i \in 1..n - 1 : s[i] = stack[t][i]
    BY <1>1, <1>2
  <1>4. \A i \in DOMAIN s : i \in DOMAIN stack[t] /\ i # n /\ Nested(t)
    BY <1>2, <1>3 DEF Nested
  <1>5. StackOK(s)
    BY <1>3, <1>4 DEF IInv, StackOK
  <1>6. \A i \in DOMAIN s : Locks(s[i]) => owner' = t
    BY <1>4
  <1>7. stack' = [stack EXCEPT ![t] = s]
    BY DEF Pop
  <1> HIDE DEF s
  <1> QED
    BY <1>3, <1>5, <1>6, <1>7, StackStep

---------------------------------------------------------------------------
(* The operations.                                                         *)

LEMMA InitHolds == Init => IInv
  <1> SUFFICES ASSUME Init PROVE IInv
    OBVIOUS
  <1>1. stack = [t \in Threads |-> <<>>]
    BY DEF Init
  <1>2. <<>> \in Seq({})
    OBVIOUS
  <1>3. stack \in [Threads -> Seq({})]
    BY <1>1, <1>2
  <1>4. \A t \in Threads : DOMAIN stack[t] = {}
    BY <1>1
  <1> QED
    BY <1>3, <1>4 DEF IInv, StackOK

\* A frame that goes on, from an event or to it, is of the same loop.
LEMMA ChangedFrame ==
    ASSUME NEW f, FrameOK(f), NEW pc, NEW max, NEW vector, NEW batch, NEW user_data
    PROVE  /\ FrameOK([f EXCEPT !.pc = pc, !.max = max, !.vector = vector,
                                !.batch = batch, !.user_data = user_data])
           /\ f.loop = [f EXCEPT !.pc = pc, !.max = max, !.vector = vector,
                                 !.batch = batch, !.user_data = user_data].loop
  BY DEF FrameOK

LEMMA SameStacks ==
    ASSUME IInv, UNCHANGED <<stack, owner>>
    PROVE  IInv'
  BY DEF IInv, StackOK, FrameOK, Locks

LEMMA BeginsKeep ==
    ASSUME IInv, NEW t \in Threads,
           _dstc_process_single_event(t) \/ dstc_get_socket_count(t)
    PROVE  IInv'
  <1>1. CASE _dstc_process_single_event(t)
    <2> DEFINE f == NewFrame("library", "waiting", DSTC_MAX_CONNECTIONS, PollVector)
    <2>1. FrameOK(f) /\ ~Locks(f) /\ f.loop # "user"
      BY DEF NewFrame, FrameOK, Locks
    <2>2. /\ Idle(t) \/ At(t, "running")
          /\ stack' = [stack EXCEPT ![t] = Append(@, f)] /\ owner' = owner
      BY <1>1 DEF _dstc_process_single_event, MayProcess
    <2> HIDE DEF f
    <2> QED
      BY <2>1, <2>2, PushKeeps
  <1>2. CASE dstc_get_socket_count(t)
    <2> DEFINE f == NewFrame("user", "counted", Cardinality(DOMAIN connections), <<>>)
    <2>1. FrameOK(f) /\ ~Locks(f)
      BY DEF NewFrame, FrameOK, Locks
    <2>2. /\ Idle(t)
          /\ stack' = [stack EXCEPT ![t] = Append(@, f)] /\ owner' = owner
      BY <1>2 DEF dstc_get_socket_count
    <2> HIDE DEF f
    <2> QED
      BY <2>1, <2>2, PushKeeps
  <1> QED
    BY <1>1, <1>2

LEMMA WaitsKeep ==
    ASSUME IInv, NEW t \in Threads,
           WaitReturns(t) \/ WaitTimesOut(t) \/ LockForBatch(t)
             \/ dstc_process_timeout(t) \/ dstc_retrieve_pollfd_vector(t)
    PROVE  IInv'
  <1>1. CASE WaitReturns(t)
    <2>1. PICK batch :
             SetTop(t, [Top(t) EXCEPT !.batch = batch, !.vector = <<>>,
                           !.pc = IF Top(t).loop = "user" THEN "events" ELSE "locking"])
      BY <1>1 DEF WaitReturns
    <2> DEFINE f == [Top(t) EXCEPT !.batch = batch, !.vector = <<>>,
                        !.pc = IF Top(t).loop = "user" THEN "events" ELSE "locking"]
    <2>2. stack[t] # <<>> /\ owner' = owner
      BY <1>1 DEF WaitReturns, At
    <2>3. FrameOK(Top(t))
      BY <2>2, TopIsThere
    <2>4. FrameOK(f) /\ f.loop = Top(t).loop
      BY <2>3 DEF FrameOK
    <2>5. f.pc = IF Top(t).loop = "user" THEN "events" ELSE "locking"
      BY <2>3 DEF FrameOK
    <2> HIDE DEF f
    <2>6. ~Locks(f)
      BY <2>4, <2>5 DEF Locks
    <2>7. Nested(t) => owner' = t
      BY <2>2, NestedOwns
    <2> QED
      BY <2>1, <2>2, <2>4, <2>6, <2>7, SetTopKeeps DEF f
  <1>2. CASE WaitTimesOut(t)
    <2>1. stack[t] # <<>> /\ Pop(t) /\ owner' = owner
      BY <1>2 DEF WaitTimesOut, At
    <2> QED
      BY <2>1, NestedOwns, PopKeeps
  <1>3. CASE LockForBatch(t)
    <2> DEFINE f == [Top(t) EXCEPT !.pc = "events"]
    <2>1. stack[t] # <<>> /\ SetTop(t, f) /\ owner' = t /\ CanLock(t)
      BY <1>3 DEF LockForBatch, At
    <2>2. FrameOK(Top(t))
      BY <2>1, TopIsThere
    <2>3. FrameOK(f) /\ f.loop = Top(t).loop
      BY <2>2 DEF FrameOK
    <2> HIDE DEF f
    <2> QED
      BY <2>1, <2>3, SetTopKeeps
  <1>4. CASE dstc_process_timeout(t)
    BY <1>4, SameStacks DEF dstc_process_timeout
  <1>5. CASE dstc_retrieve_pollfd_vector(t)
    <2>1. CASE UNCHANGED stack
      BY <1>5, <2>1, SameStacks DEF dstc_retrieve_pollfd_vector
    <2>2. CASE SetTop(t, [Top(t) EXCEPT !.pc = "waiting", !.vector = PollVector])
      <3> DEFINE f == [Top(t) EXCEPT !.pc = "waiting", !.vector = PollVector]
      <3>1. stack[t] # <<>> /\ SetTop(t, f) /\ owner' = owner
        BY <1>5, <2>2 DEF dstc_retrieve_pollfd_vector, At
      <3>2. FrameOK(Top(t))
        BY <3>1, TopIsThere
      <3>3. FrameOK(f) /\ f.loop = Top(t).loop /\ f.pc = "waiting"
        BY <3>2 DEF FrameOK
      <3> HIDE DEF f
      <3>4. ~Locks(f)
        BY <3>3 DEF Locks
      <3>5. Nested(t) => owner' = t
        BY <3>1, NestedOwns
      <3> QED
        BY <3>1, <3>3, <3>4, <3>5, SetTopKeeps
    <2> QED
      BY <1>5, <2>1, <2>2 DEF dstc_retrieve_pollfd_vector
  <1> QED
    BY <1>1, <1>2, <1>3, <1>4, <1>5

\* What comes after an event: the lock stays with an outer batch, or with the next
\* event of the library's own, and is given up otherwise.
LEMMA ContinueKeeps ==
    ASSUME IInv, NEW t \in Threads, stack[t] # <<>>, CanLock(t),
           NEW f, FrameOK(f), f.loop = Top(t).loop, f.pc = "events",
           NEW g, g.loop = f.loop, g.batch = f.batch,
           Continue(t, f), Release(t, g)
    PROVE  IInv'
  <1>1. Top(t).loop = "user" => ~Nested(t)
    BY TopIsThere
  <1>2. f.loop = "user" => ~Locks(f)
    BY DEF Locks
  <1>3. CASE f.batch = <<>>
    <2>1. Pop(t)
      BY <1>3 DEF Continue
    <2>2. Nested(t) => owner' = t
      BY <1>1 DEF Release
    <2> QED
      BY <2>1, <2>2, PopKeeps
  <1>4. CASE f.batch # <<>>
    <2>1. SetTop(t, f)
      BY <1>4 DEF Continue
    <2>2. Locks(f) \/ Nested(t) => owner' = t
      BY <1>1, <1>2, <1>4 DEF Release
    <2> QED
      BY <2>1, <2>2, SetTopKeeps
  <1> QED
    BY <1>3, <1>4

LEMMA TakeEventKeeps ==
    ASSUME IInv, NEW t \in Threads, handle_keyboard(t) \/ TakeEvent(t)
    PROVE  IInv'
  <1> DEFINE rest == Rest(t)
  <1>1. stack[t] # <<>> /\ Top(t).pc = "events"
    BY DEF handle_keyboard, TakeEvent, At
  <1>2. /\ FrameOK(Top(t)) /\ (Locks(Top(t)) => owner = t)
        /\ Top(t).loop = "user" => ~Nested(t)
    BY <1>1, TopIsThere
  <1>3. FrameOK(rest) /\ rest.loop = Top(t).loop /\ rest.pc = "events"
    BY <1>1, <1>2 DEF FrameOK, Rest
  <1> HIDE DEF rest
  <1>4. CASE handle_keyboard(t)
    <2>1. Continue(t, rest) /\ owner' = owner /\ Top(t).loop = "user"
      BY <1>4 DEF handle_keyboard, IsKeyboard, rest
    <2>2. ~Nested(t) /\ ~Locks(rest)
      BY <1>2, <1>3, <2>1 DEF Locks
    <2>3. CASE rest.batch = <<>>
      <3>1. Pop(t)
        BY <2>1, <2>3 DEF Continue
      <3> QED
        BY <1>1, <2>1, <2>2, <3>1, PopKeeps
    <2>4. CASE rest.batch # <<>>
      <3>1. SetTop(t, rest)
        BY <2>1, <2>4 DEF Continue
      <3> QED
        BY <1>1, <1>3, <2>1, <2>2, <3>1, SetTopKeeps
    <2> QED
      BY <2>3, <2>4
  <1>5. CASE TakeEvent(t)
    <2>1. CanLock(t)
      BY <1>5 DEF TakeEvent
    <2>2. CASE UNCHANGED <<stack, owner>>
      BY <2>2, SameStacks
    <2>3. CASE Continue(t, rest) /\ Release(t, rest)
      BY <1>1, <1>3, <2>1, <2>3, ContinueKeeps
    <2>4. CASE \E user_data, pc : /\ SetTop(t, [rest EXCEPT !.pc = pc, !.user_data = user_data])
                                  /\ owner' = t
      <3>1. PICK user_data, pc : /\ SetTop(t, [rest EXCEPT !.pc = pc, !.user_data = user_data])
                                 /\ owner' = t
        BY <2>4
      <3> DEFINE f == [rest EXCEPT !.pc = pc, !.user_data = user_data]
      <3>2. FrameOK(f) /\ f.loop = Top(t).loop
        BY <1>3 DEF FrameOK
      <3> HIDE DEF f
      <3> QED
        BY <1>1, <2>1, <3>1, <3>2, SetTopKeeps DEF f
    <2> QED
      BY <1>5, <2>2, <2>3, <2>4 DEF TakeEvent, rest
  <1> QED
    BY <1>4, <1>5

LEMMA EventKeeps ==
    ASSUME IInv, NEW t \in Threads, ReadEvent(t) \/ FunctionReturns(t) \/ WriteEvent(t)
    PROVE  IInv'
  <1>1. stack[t] # <<>> /\ Top(t).pc \in {"reading", "running", "writing"}
    BY DEF ReadEvent, FunctionReturns, WriteEvent, At
  <1>2. FrameOK(Top(t)) /\ owner = t
    BY <1>1, TopIsThere DEF Locks
  <1>3. CanLock(t)
    BY <1>2 DEF CanLock
  <1>4. ASSUME NEW pc, SetTop(t, [Top(t) EXCEPT !.pc = pc]), owner' = owner
        PROVE  IInv'
    <2> DEFINE f == [Top(t) EXCEPT !.pc = pc]
    <2>1. FrameOK(f) /\ f.loop = Top(t).loop
      BY <1>2 DEF FrameOK
    <2> HIDE DEF f
    <2> QED
      BY <1>1, <1>2, <1>4, <2>1, SetTopKeeps DEF f
  <1>5. CASE ReadEvent(t)
    <2>1. owner' = owner
      BY <1>5 DEF ReadEvent
    <2>2. \E pc : SetTop(t, [Top(t) EXCEPT !.pc = pc])
      BY <1>5 DEF ReadEvent
    <2> QED
      BY <1>4, <2>1, <2>2
  <1>6. CASE FunctionReturns(t)
    BY <1>4, <1>6 DEF FunctionReturns
  <1>7. CASE WriteEvent(t)
    <2> DEFINE f == [Top(t) EXCEPT !.pc = "events", !.user_data = 0]
    <2>1. /\ FrameOK(f) /\ f.loop = Top(t).loop /\ f.pc = "events"
          /\ f.batch = Top(t).batch
      BY <1>2 DEF FrameOK
    <2>2. Continue(t, f) /\ Release(t, Top(t))
      BY <1>7 DEF WriteEvent
    <2> HIDE DEF f
    <2> QED
      BY <1>1, <1>3, <2>1, <2>2, ContinueKeeps
  <1> QED
    BY <1>5, <1>6, <1>7

---------------------------------------------------------------------------
LEMMA StepKeeps == IInv /\ [Next]_vars => IInv'
  <1> SUFFICES ASSUME IInv, [Next]_vars PROVE IInv'
    OBVIOUS
  <1>1. CASE UNCHANGED vars
    BY <1>1, SameStacks DEF vars
  <1>2. ASSUME NEW t \in Threads, ClientCall(t)
        PROVE  IInv'
    BY <1>2, SameStacks DEF ClientCall
  <1> QED
    BY <1>1, <1>2, BeginsKeep, WaitsKeep, TakeEventKeeps, EventKeeps DEF Next

LEMMA Invariant == Spec => []IInv
  BY InitHolds, StepKeeps, PTL DEF Spec

\* A thread that is in RMC, or in a function that RMC's events brought in, has the
\* lock, and so is the only one (epoll.c:175-216, poll.c:236-302, chat.c:150-230).
THEOREM OneThreadInRmcCorrect == Spec => []OneThreadInRmc
  <1>1. IInv => OneThreadInRmc
    BY DEF IInv, OneThreadInRmc, InRmc, Locks
  <1> QED
    BY <1>1, Invariant, PTL

---------------------------------------------------------------------------
(* The hash table.                                                         *)

Handles(E) == [elem : E, hashv : Nat]

\* Every element is in the list once, with the hash value of its key; a bucket has the
\* handles whose hash values lead to it.
ListOK(tbl, key, E) ==
    /\ tbl.order \in Seq(Handles(E))
    /\ \A i, j \in DOMAIN tbl.order : tbl.order[i].elem = tbl.order[j].elem => i = j
    /\ \A i \in DOMAIN tbl.order :
          /\ key[tbl.order[i].elem] \in DOMAIN HASH_FCN
          /\ tbl.order[i].hashv = HASH_FCN[key[tbl.order[i].elem]]
    /\ tbl.num_items = Len(tbl.order)
BucketOK(bucket, handles) ==
    /\ DOMAIN bucket = {"chain", "count", "expand_mult"}
    /\ bucket.chain = handles
    /\ bucket.count = Cardinality(handles)
Leading(tbl, n, b) == {hh \in ToSet(tbl.order) : HASH_TO_BKT(hh.hashv, n) = b}
BucketsOK(tbl, n) ==
    /\ DOMAIN tbl.buckets = 0..n - 1
    /\ \A b \in 0..n - 1 : BucketOK(tbl.buckets[b], Leading(tbl, n, b))
TableOK(tbl, key, E) ==
    /\ DOMAIN tbl = {"order", "buckets", "num_items", "ineff_expands", "noexpand"}
    /\ ListOK(tbl, key, E)
    /\ tbl.order # <<>> => \E n \in Nat \ {0} : BucketsOK(tbl, n)

\* A set of naturals has a least element: induction over the naturals, as a lemma
\* with a set for its parameter.
LEMMA LeastNatural ==
    ASSUME NEW T, T \subseteq Nat, T # {}
    PROVE  \E m \in T : \A k \in T : m <= k
  <1> DEFINE R == StrictSubsetOrdering(Nat)
             F == {0..k : k \in T}
  <1>1. IsWellFoundedOn(R, FiniteSubsetsOf(Nat))
    BY FS_StrictSubsetOrderingWellFounded
  <1>2. F \subseteq FiniteSubsetsOf(Nat)
    <2>1. \A k \in T : IsFiniteSet(0..k)
      BY FS_Interval
    <2> QED BY <2>1 DEF FiniteSubsetsOf
  <1>3. F # {}
    OBVIOUS
  <1> HIDE DEF R, F
  <1>4. \E x \in F : \A y \in F : ~ (<<y, x>> \in R)
    BY <1>1, <1>2, <1>3, WFMin
  <1>5. PICK m \in T : \A k \in T : ~ (<<0..k, 0..m>> \in R)
    BY <1>4 DEF F
  <1>6. ASSUME NEW k \in T, k < m
        PROVE  FALSE
    <2>1. 0..k \subseteq 0..m /\ 0..k # 0..m
      BY <1>6
    <2>2. <<0..k, 0..m>> \in R
      BY <2>1 DEF R, StrictSubsetOrdering
    <2> QED BY <1>5, <2>2
  <1> QED BY <1>5, <1>6

LEMMA Remainder ==
    ASSUME NEW h \in Nat, NEW n \in Nat \ {0}
    PROVE  HASH_TO_BKT(h, n) \in 0..n - 1
  BY DEF HASH_TO_BKT

LEMMA BucketsCounted ==
    ASSUME NEW tbl, NEW n \in Nat \ {0}, DOMAIN tbl.buckets = 0..n - 1
    PROVE  NumBuckets(tbl) = n
  <1>1. Cardinality(0..n - 1) = IF 0 > n - 1 THEN 0 ELSE n - 1 - 0 + 1
    <2>1. 0 \in Int /\ n - 1 \in Int
      OBVIOUS
    <2> QED
      BY <2>1, FS_Interval
  <1> QED
    BY <1>1 DEF NumBuckets

\* A search finds the elements that hold the key: those of the list, though it looks in
\* one bucket only.
LEMMA FindsHeld ==
    ASSUME NEW tbl, NEW key, NEW E, TableOK(tbl, key, E), NEW k \in DOMAIN HASH_FCN
    PROVE  HASH_FIND(tbl, key, k) = {e \in HeldBy(tbl) : key[e] = k}
  <1>1. CASE tbl.order = <<>>
    BY <1>1 DEF HASH_FIND, HeldBy, ToSet
  <1>2. CASE tbl.order # <<>>
    <2> DEFINE hashv == HASH_FCN[k]
    <2>1. PICK n \in Nat \ {0} : BucketsOK(tbl, n)
      BY <1>2 DEF TableOK
    <2>2. NumBuckets(tbl) = n
      BY <2>1, BucketsCounted DEF BucketsOK
    <2> DEFINE b == HASH_TO_BKT(hashv, n)
    <2>3. b \in 0..n - 1
      BY HashAssumption, Remainder
    <2>4. tbl.buckets[b].chain = Leading(tbl, n, b)
      BY <2>1, <2>3 DEF BucketsOK, BucketOK
    <2> DEFINE found == {hh.elem : hh \in {c \in Leading(tbl, n, b) : c.hashv = hashv /\ key[c.elem] = k}}
    <2>5. HASH_FIND(tbl, key, k) = found
      BY <1>2, <2>2, <2>4 DEF HASH_FIND
    <2>6. found \subseteq {e \in HeldBy(tbl) : key[e] = k}
      BY DEF Leading, HeldBy
    <2>7. ASSUME NEW e \in HeldBy(tbl), key[e] = k
          PROVE  e \in found
      <3>1. PICK i \in DOMAIN tbl.order : e = tbl.order[i].elem
        BY DEF HeldBy, ToSet
      <3>2. tbl.order[i].hashv = hashv
        BY <2>7, <3>1 DEF TableOK, ListOK
      <3>3. tbl.order[i] \in Leading(tbl, n, b)
        BY <3>2 DEF Leading, ToSet
      <3> QED
        BY <2>7, <3>1, <3>2, <3>3
    <2> QED
      BY <2>5, <2>6, <2>7
  <1> QED
    BY <1>1, <1>2

LEMMA HandlesFinite ==
    ASSUME NEW tbl, NEW S, tbl.order \in Seq(S), NEW n, NEW b
    PROVE  IsFiniteSet(ToSet(tbl.order)) /\ IsFiniteSet(Leading(tbl, n, b))
  <1>1. IsFiniteSet(DOMAIN tbl.order)
    BY FS_Interval
  <1>2. ToSet(tbl.order) = {tbl.order[i] : i \in DOMAIN tbl.order}
    BY DEF ToSet
  <1>3. IsFiniteSet(ToSet(tbl.order))
    <2> DEFINE f == [i \in DOMAIN tbl.order |-> tbl.order[i]]
    <2>1. f \in Surjection(DOMAIN tbl.order, ToSet(tbl.order))
      BY <1>2 DEF Surjection
    <2> QED
      BY <1>1, <2>1, FS_Surjection
  <1>4. Leading(tbl, n, b) \subseteq ToSet(tbl.order)
    BY DEF Leading
  <1> QED
    BY <1>3, <1>4, FS_Subset

\* Doubling the buckets loses no handle and misplaces none.
LEMMA ExpandKeeps ==
    ASSUME NEW tbl, NEW E, NEW n \in Nat \ {0},
           DOMAIN tbl = {"order", "buckets", "num_items", "ineff_expands", "noexpand"},
           tbl.order \in Seq(Handles(E)), BucketsOK(tbl, n)
    PROVE  /\ DOMAIN HASH_EXPAND_BUCKETS(tbl) = DOMAIN tbl
           /\ HASH_EXPAND_BUCKETS(tbl).order = tbl.order
           /\ HASH_EXPAND_BUCKETS(tbl).num_items = tbl.num_items
           /\ BucketsOK(HASH_EXPAND_BUCKETS(tbl), 2 * n)
  <1> DEFINE new == HASH_EXPAND_BUCKETS(tbl)
             handles == UNION {tbl.buckets[b].chain : b \in DOMAIN tbl.buckets}
  <1>1. NumBuckets(tbl) = n
    BY BucketsCounted DEF BucketsOK
  <1>2. /\ DOMAIN new = DOMAIN tbl /\ new.order = tbl.order
        /\ new.num_items = tbl.num_items /\ new.buckets = Rehashed(tbl, n)
    BY <1>1 DEF HASH_EXPAND_BUCKETS
  <1>3. handles = ToSet(tbl.order)
    <2>1. ASSUME NEW i \in DOMAIN tbl.order
          PROVE  tbl.order[i] \in handles
      <3> DEFINE hh == tbl.order[i]
                 b == HASH_TO_BKT(hh.hashv, n)
      <3>1. hh \in Handles(E)
        OBVIOUS
      <3>2. b \in 0..n - 1
        BY <3>1, Remainder DEF Handles
      <3>3. hh \in Leading(tbl, n, b)
        BY DEF Leading, ToSet
      <3> HIDE DEF b
      <3> QED
        BY <3>2, <3>3 DEF BucketsOK, BucketOK
    <2>2. handles \subseteq ToSet(tbl.order)
      BY DEF BucketsOK, BucketOK, Leading
    <2> QED
      BY <2>1, <2>2 DEF ToSet
  <1>4. DOMAIN Rehashed(tbl, n) = 0..2 * n - 1
    BY DEF Rehashed
  <1>5. ASSUME NEW b \in 0..2 * n - 1
        PROVE  BucketOK(Rehashed(tbl, n)[b], Leading(tbl, 2 * n, b))
    <2> DEFINE chain == {hh \in handles : HASH_TO_BKT(hh.hashv, 2 * n) = b}
    <2>1. chain = Leading(tbl, 2 * n, b)
      BY <1>3 DEF Leading
    <2>2. \E m : Rehashed(tbl, n)[b] =
                [chain |-> chain, count |-> Cardinality(chain), expand_mult |-> m]
      BY DEF Rehashed
    <2> HIDE DEF chain
    <2> QED
      BY <2>1, <2>2 DEF BucketOK
  <1> HIDE DEF new
  <1>6. \A b : Leading(new, 2 * n, b) = Leading(tbl, 2 * n, b)
    BY <1>2 DEF Leading
  <1>7. BucketsOK(new, 2 * n)
    BY <1>2, <1>4, <1>5, <1>6 DEF BucketsOK
  <1> QED
    BY <1>2, <1>7 DEF new

LEMMA Appended ==
    ASSUME NEW S, NEW s \in Seq(S), NEW x \in S
    PROVE  /\ Append(s, x) \in Seq(S) /\ Len(Append(s, x)) = Len(s) + 1 /\ Append(s, x) # <<>>
           /\ DOMAIN Append(s, x) = DOMAIN s \cup {Len(s) + 1}
           /\ \A i \in DOMAIN s : Append(s, x)[i] = s[i]
           /\ Append(s, x)[Len(s) + 1] = x
           /\ Len(s) + 1 \notin DOMAIN s
  OBVIOUS

\* A new element is added under its key, with the keys of the others unchanged.
LEMMA AddKeeps ==
    ASSUME NEW tbl, NEW key, NEW E, TableOK(tbl, key, E), NEW e \in E, e \notin HeldBy(tbl),
           NEW key2, \A d \in HeldBy(tbl) : key2[d] = key[d], key2[e] \in DOMAIN HASH_FCN
    PROVE  /\ TableOK(HASH_ADD(tbl, key2, e), key2, E)
           /\ HeldBy(HASH_ADD(tbl, key2, e)) = HeldBy(tbl) \cup {e}
           /\ HASH_ADD(tbl, key2, e).order # <<>>
  <1> DEFINE hh == [elem |-> e, hashv |-> HASH_FCN[key2[e]]]
             table == IF tbl.order = <<>> THEN HASH_MAKE_TABLE ELSE tbl
             start == [table EXCEPT !.order = Append(@, hh), !.num_items = @ + 1]
             fields == {"order", "buckets", "num_items", "ineff_expands", "noexpand"}
             long == Append(tbl.order, hh)
  <1>1. hh \in Handles(E) /\ hh.elem = e /\ hh.hashv = HASH_FCN[key2[e]]
    BY HashAssumption DEF Handles
  <1>2. /\ tbl.order \in Seq(Handles(E)) /\ tbl.num_items = Len(tbl.order)
        /\ DOMAIN tbl = fields
    BY DEF TableOK, ListOK
  <1>3. PICK n \in Nat \ {0} :
            /\ DOMAIN table.buckets = 0..n - 1
            /\ \A b \in 0..n - 1 : BucketOK(table.buckets[b], Leading(tbl, n, b))
    <2>1. CASE tbl.order = <<>>
      <3> DEFINE n == HASH_INITIAL_NUM_BUCKETS
      <3>1. n \in Nat \ {0}
        BY BucketsAssumption
      <3>2. table.buckets = [b \in 0..n - 1 |-> EmptyBucket]
        BY <2>1 DEF HASH_MAKE_TABLE, NULL
      <3>3. \A b : Leading(tbl, n, b) = {}
        BY <2>1 DEF Leading, ToSet
      <3>4. Cardinality({}) = 0
        BY FS_EmptySet
      <3> HIDE DEF table
      <3>5. ASSUME NEW b \in 0..n - 1
            PROVE  BucketOK(table.buckets[b], Leading(tbl, n, b))
        <4>1. table.buckets[b] = EmptyBucket
          BY <3>2
        <4>2. BucketOK(EmptyBucket, {})
          BY <3>4 DEF BucketOK, EmptyBucket
        <4> QED
          BY <3>3, <4>1, <4>2
      <3>6. DOMAIN table.buckets = 0..n - 1
        BY <3>2
      <3> QED
        BY <3>1, <3>5, <3>6
    <2>2. CASE tbl.order # <<>>
      BY <2>2 DEF TableOK, BucketsOK
    <2> QED
      BY <2>1, <2>2
  <1>4. DOMAIN table = fields /\ table.order = tbl.order /\ table.num_items = tbl.num_items
    <2>1. CASE tbl.order = <<>>
      <3>1. Len(tbl.order) = 0
        BY <2>1
      <3> QED
        BY <1>2, <2>1, <3>1 DEF HASH_MAKE_TABLE, NULL
    <2>2. CASE tbl.order # <<>>
      BY <1>2, <2>2
    <2> QED
      BY <2>1, <2>2
  <1>5. HASH_ADD(tbl, key2, e) = HASH_ADD_TO_BKT(start, hh)
    BY DEF HASH_ADD
  <1> HIDE DEF table
  <1>6. /\ DOMAIN start = fields /\ start.order = long
        /\ start.num_items = tbl.num_items + 1 /\ start.buckets = table.buckets
    BY <1>4
  <1> HIDE DEF start, hh
  <1>7. /\ long \in Seq(Handles(E)) /\ Len(long) = Len(tbl.order) + 1 /\ long # <<>>
        /\ DOMAIN long = DOMAIN tbl.order \cup {Len(tbl.order) + 1}
        /\ \A i \in DOMAIN tbl.order : long[i] = tbl.order[i]
        /\ long[Len(tbl.order) + 1] = hh
        /\ Len(tbl.order) + 1 \notin DOMAIN tbl.order
    BY <1>1, <1>2, Appended
  <1> HIDE DEF long
  <1>8. ToSet(long) = ToSet(tbl.order) \cup {hh}
    BY <1>7 DEF ToSet
  <1>9. hh \notin ToSet(tbl.order)
    BY <1>1 DEF HeldBy
  <1> DEFINE b0 == HASH_TO_BKT(hh.hashv, n)
             old == table.buckets[b0]
             bucket == [old EXCEPT !.count = @ + 1, !.chain = @ \cup {hh}]
             added == [start EXCEPT !.buckets[b0] = bucket]
  <1>10. b0 \in 0..n - 1
    BY <1>1, Remainder DEF Handles
  <1>11. NumBuckets(start) = n
    BY <1>3, <1>6, BucketsCounted
  <1>12. \/ HASH_ADD_TO_BKT(start, hh) = added
         \/ HASH_ADD_TO_BKT(start, hh) = HASH_EXPAND_BUCKETS(added)
    BY <1>6, <1>11 DEF HASH_ADD_TO_BKT
  <1>13. /\ DOMAIN added = fields /\ added.order = long
         /\ added.num_items = tbl.num_items + 1
         /\ DOMAIN added.buckets = 0..n - 1
         /\ added.buckets[b0] = bucket
         /\ \A b \in 0..n - 1 : b # b0 => added.buckets[b] = table.buckets[b]
    <2> HIDE DEF bucket, b0
    <2> QED
      BY <1>3, <1>6, <1>10
  <1>14. BucketOK(old, Leading(tbl, n, b0))
    BY <1>3, <1>10
  <1> HIDE DEF old
  <1>15. /\ DOMAIN bucket = {"chain", "count", "expand_mult"}
         /\ bucket.count = old.count + 1 /\ bucket.chain = old.chain \cup {hh}
    BY <1>14 DEF BucketOK
  <1> HIDE DEF bucket, added
  <1>16. BucketsOK(added, n)
    <2>1. ASSUME NEW b \in 0..n - 1, b # b0
          PROVE  BucketOK(added.buckets[b], Leading(added, n, b))
      <3>1. Leading(added, n, b) = Leading(tbl, n, b)
        BY <1>8, <1>13, <2>1 DEF Leading
      <3> QED
        BY <1>3, <1>13, <2>1, <3>1
    <2>2. BucketOK(added.buckets[b0], Leading(added, n, b0))
      <3>1. Leading(added, n, b0) = Leading(tbl, n, b0) \cup {hh}
        BY <1>8, <1>13 DEF Leading
      <3>2. hh \notin Leading(tbl, n, b0)
        BY <1>9 DEF Leading
      <3>3. IsFiniteSet(Leading(tbl, n, b0))
        BY <1>2, HandlesFinite
      <3>4. Cardinality(Leading(added, n, b0)) = Cardinality(Leading(tbl, n, b0)) + 1
        BY <3>1, <3>2, <3>3, FS_AddElement
      <3> QED
        BY <1>13, <1>14, <1>15, <3>1, <3>4 DEF BucketOK
    <2> QED
      BY <1>13, <2>1, <2>2 DEF BucketsOK
  <1> DEFINE end == HASH_ADD(tbl, key2, e)
  <1>17. /\ DOMAIN end = fields /\ end.order = long /\ end.num_items = tbl.num_items + 1
         /\ \E m \in Nat \ {0} : BucketsOK(end, m)
    <2>1. CASE end = added
      BY <1>13, <1>16, <2>1
    <2>2. CASE end = HASH_EXPAND_BUCKETS(added)
      <3>1. /\ DOMAIN end = DOMAIN added /\ end.order = added.order
            /\ end.num_items = added.num_items /\ BucketsOK(end, 2 * n)
        BY <1>7, <1>13, <1>16, <2>2, ExpandKeeps
      <3> QED
        BY <1>13, <3>1
    <2> QED
      BY <1>5, <1>12, <2>1, <2>2
  <1> HIDE DEF end
  <1>18. ListOK(end, key2, E)
    <2>1. ASSUME NEW i \in DOMAIN long
          PROVE  /\ key2[long[i].elem] \in DOMAIN HASH_FCN
                 /\ long[i].hashv = HASH_FCN[key2[long[i].elem]]
      <3>1. CASE i \in DOMAIN tbl.order
        <4>1. tbl.order[i].elem \in HeldBy(tbl)
          BY <3>1 DEF HeldBy, ToSet
        <4> QED
          BY <1>7, <3>1, <4>1 DEF TableOK, ListOK
      <3>2. CASE i = Len(tbl.order) + 1
        BY <1>1, <1>7, <3>2
      <3> QED
        BY <1>7, <3>1, <3>2
    <2>2. ASSUME NEW i \in DOMAIN long, NEW j \in DOMAIN long, long[i].elem = long[j].elem
          PROVE  i = j
      <3>1. \A k \in DOMAIN tbl.order : tbl.order[k].elem # e
        BY DEF HeldBy, ToSet
      <3> QED
        BY <1>1, <1>7, <2>2, <3>1 DEF TableOK, ListOK
    <2> QED
      BY <1>2, <1>7, <1>17, <2>1, <2>2 DEF ListOK
  <1>19. HeldBy(end) = HeldBy(tbl) \cup {e}
    BY <1>1, <1>8, <1>17 DEF HeldBy
  <1> QED
    BY <1>7, <1>17, <1>18, <1>19 DEF TableOK, end

LEMMA Removed ==
    ASSUME NEW S, NEW s \in Seq(S), NEW i \in DOMAIN s
    PROVE  /\ RemoveAt(s, i) \in Seq(S) /\ Len(RemoveAt(s, i)) = Len(s) - 1
           /\ DOMAIN RemoveAt(s, i) = 1..Len(s) - 1
           /\ \A j \in 1..Len(s) - 1 : RemoveAt(s, i)[j] = IF j < i THEN s[j] ELSE s[j + 1]
  <1> DEFINE a == SubSeq(s, 1, i - 1)
             b == SubSeq(s, i + 1, Len(s))
  <1>1. Len(s) \in Nat /\ i \in 1..Len(s)
    OBVIOUS
  <1>2. a \in Seq(S) /\ Len(a) = i - 1 /\ \A j \in 1..i - 1 : a[j] = s[j]
    BY <1>1
  <1>3. /\ b \in Seq(S) /\ Len(b) = Len(s) - i
        /\ \A j \in 1..Len(s) - i : b[j] = s[i + j]
    BY <1>1
  <1>4. RemoveAt(s, i) = a \o b
    BY DEF RemoveAt
  <1> HIDE DEF a, b
  <1>5. /\ a \o b \in Seq(S) /\ Len(a \o b) = Len(s) - 1
        /\ DOMAIN (a \o b) = 1..Len(s) - 1
    BY <1>1, <1>2, <1>3
  <1>6. ASSUME NEW j \in 1..Len(s) - 1
        PROVE  (a \o b)[j] = IF j < i THEN s[j] ELSE s[j + 1]
    <2>1. CASE j < i
      BY <1>1, <1>2, <1>3, <2>1
    <2>2. CASE j >= i
      <3>1. (a \o b)[j] = b[j - (i - 1)]
        BY <1>1, <1>2, <1>3, <2>2
      <3>2. j - (i - 1) \in 1..Len(s) - i /\ i + (j - (i - 1)) = j + 1
        BY <1>1, <2>2
      <3> QED
        BY <1>1, <1>3, <2>2, <3>1, <3>2
    <2>3. j < i \/ j >= i
      BY <1>1
    <2> QED
      BY <2>1, <2>2, <2>3
  <1> QED
    BY <1>4, <1>5, <1>6

\* An element is taken out, whatever its key is afterwards.
LEMMA DelKeeps ==
    ASSUME NEW tbl, NEW key, NEW E, TableOK(tbl, key, E), NEW e \in HeldBy(tbl),
           NEW key2, \A d \in HeldBy(tbl) \ {e} : key2[d] = key[d]
    PROVE  /\ TableOK(HASH_DEL(tbl, e), key2, E)
           /\ HeldBy(HASH_DEL(tbl, e)) = HeldBy(tbl) \ {e}
  <1> DEFINE i == CHOOSE n \in DOMAIN tbl.order : tbl.order[n].elem = e
             hh == tbl.order[i]
             short == RemoveAt(tbl.order, i)
             end == HASH_DEL(tbl, e)
             fields == {"order", "buckets", "num_items", "ineff_expands", "noexpand"}
  <1>1. i \in DOMAIN tbl.order /\ hh.elem = e
    BY DEF HeldBy, ToSet
  <1>2. /\ tbl.order \in Seq(Handles(E)) /\ tbl.num_items = Len(tbl.order)
        /\ DOMAIN tbl = fields
        /\ \A j, k \in DOMAIN tbl.order : tbl.order[j].elem = tbl.order[k].elem => j = k
    BY DEF TableOK, ListOK
  <1>3. tbl.order # <<>> /\ Len(tbl.order) \in Nat \ {0} /\ DOMAIN tbl.order = 1..Len(tbl.order)
    BY <1>1, <1>2
  <1>4. PICK n \in Nat \ {0} : BucketsOK(tbl, n)
    BY <1>3 DEF TableOK
  <1> HIDE DEF i
  <1>5. CASE Len(tbl.order) = 1
    <2>1. end = NULL
      BY <1>5 DEF HASH_DEL
    <2>2. HeldBy(tbl) = {e}
      BY <1>1, <1>3, <1>5 DEF HeldBy, ToSet
    <2>3. HeldBy(NULL) = {}
      BY DEF HeldBy, NULL, ToSet
    <2>4. TableOK(NULL, key2, E)
      BY DEF TableOK, ListOK, NULL
    <2> QED
      BY <2>1, <2>2, <2>3, <2>4
  <1>6. CASE Len(tbl.order) # 1
    <2> DEFINE b0 == HASH_TO_BKT(hh.hashv, n)
               old == tbl.buckets[b0]
               bucket == HASH_DEL_IN_BKT(old, hh)
    <2>1. NumBuckets(tbl) = n
      BY <1>4, BucketsCounted DEF BucketsOK
    <2>2. end = [tbl EXCEPT !.order = short, !.buckets[b0] = bucket, !.num_items = @ - 1]
      BY <1>6, <2>1 DEF HASH_DEL, i
    <2>3. hh \in Handles(E)
      BY <1>1, <1>2
    <2>4. b0 \in 0..n - 1
      BY <2>3, Remainder DEF Handles
    <2>5. BucketOK(old, Leading(tbl, n, b0))
      BY <1>4, <2>4 DEF BucketsOK
    <2>6. /\ short \in Seq(Handles(E)) /\ Len(short) = Len(tbl.order) - 1
          /\ DOMAIN short = 1..Len(tbl.order) - 1
          /\ \A j \in 1..Len(tbl.order) - 1 :
                short[j] = IF j < i THEN tbl.order[j] ELSE tbl.order[j + 1]
      BY <1>1, <1>2, Removed
    <2> HIDE DEF short, old
    <2>7. /\ DOMAIN bucket = {"chain", "count", "expand_mult"}
          /\ bucket.count = old.count - 1 /\ bucket.chain = old.chain \ {hh}
      BY <2>5 DEF BucketOK, HASH_DEL_IN_BKT
    <2> HIDE DEF bucket, b0, hh
    <2>8. /\ DOMAIN end = fields /\ end.order = short
          /\ end.num_items = Len(tbl.order) - 1 /\ DOMAIN end.buckets = 0..n - 1
          /\ end.buckets[b0] = bucket
          /\ \A b \in 0..n - 1 : b # b0 => end.buckets[b] = tbl.buckets[b]
      BY <1>2, <1>4, <2>2, <2>4 DEF BucketsOK
    <2> HIDE DEF end
    <2>9. ToSet(short) = ToSet(tbl.order) \ {hh}
      <3>1. ASSUME NEW j \in DOMAIN short
            PROVE  short[j] \in ToSet(tbl.order) \ {hh}
        <4>1. PICK k \in DOMAIN tbl.order : k # i /\ short[j] = tbl.order[k]
          <5>1. CASE j < i
            BY <1>1, <1>3, <2>6, <5>1
          <5>2. CASE j >= i
            <6>1. j + 1 \in DOMAIN tbl.order /\ j + 1 # i /\ short[j] = tbl.order[j + 1]
              BY <1>1, <1>3, <2>6, <5>2
            <6> QED
              BY <6>1
          <5> QED
            BY <1>1, <1>3, <2>6, <5>1, <5>2
        <4> QED
          BY <1>1, <1>2, <4>1 DEF ToSet, hh
      <3>2. ASSUME NEW k \in DOMAIN tbl.order, tbl.order[k] # hh
            PROVE  tbl.order[k] \in ToSet(short)
        <4>1. k # i
          BY <3>2 DEF hh
        <4>2. CASE k < i
          <5>1. k \in 1..Len(tbl.order) - 1 /\ short[k] = tbl.order[k]
            BY <1>1, <1>3, <2>6, <4>2
          <5> QED
            BY <2>6, <5>1 DEF ToSet
        <4>3. CASE k > i
          <5>1. k - 1 \in 1..Len(tbl.order) - 1 /\ short[k - 1] = tbl.order[k]
            BY <1>1, <1>3, <2>6, <4>3
          <5> QED
            BY <2>6, <5>1 DEF ToSet
        <4> QED
          BY <1>1, <1>3, <4>1, <4>2, <4>3
      <3> QED
        BY <3>1, <3>2 DEF ToSet
    <2>10. BucketsOK(end, n)
      <3>1. ASSUME NEW b \in 0..n - 1, b # b0
            PROVE  BucketOK(end.buckets[b], Leading(end, n, b))
        <4>1. Leading(end, n, b) = Leading(tbl, n, b)
          BY <2>8, <2>9, <3>1 DEF Leading, b0
        <4> QED
          BY <1>4, <2>8, <3>1, <4>1 DEF BucketsOK
      <3>2. BucketOK(end.buckets[b0], Leading(end, n, b0))
        <4>1. Leading(end, n, b0) = Leading(tbl, n, b0) \ {hh}
          BY <2>8, <2>9 DEF Leading
        <4>2. hh \in Leading(tbl, n, b0)
          BY <1>1 DEF Leading, b0, ToSet, hh
        <4>3. IsFiniteSet(Leading(tbl, n, b0))
          BY <1>2, HandlesFinite
        <4>4. Cardinality(Leading(end, n, b0)) = Cardinality(Leading(tbl, n, b0)) - 1
          BY <4>1, <4>2, <4>3, FS_RemoveElement
        <4> QED
          BY <2>5, <2>7, <2>8, <4>1, <4>4 DEF BucketOK
      <3> QED
        BY <2>8, <3>1, <3>2 DEF BucketsOK
    <2>11. \A h \in ToSet(tbl.order) : h.elem = e <=> h = hh
      BY <1>1, <1>2 DEF ToSet, hh
    <2>12. ListOK(end, key2, E)
      <3>1. ASSUME NEW j \in DOMAIN short
            PROVE  /\ key2[short[j].elem] \in DOMAIN HASH_FCN
                   /\ short[j].hashv = HASH_FCN[key2[short[j].elem]]
        <4>1. short[j] \in ToSet(tbl.order) \ {hh}
          BY <2>9 DEF ToSet
        <4>2. short[j].elem \in HeldBy(tbl) \ {e}
          BY <2>11, <4>1 DEF HeldBy
        <4>3. PICK k \in DOMAIN tbl.order : short[j] = tbl.order[k]
          BY <4>1 DEF ToSet
        <4> QED
          BY <4>2, <4>3 DEF TableOK, ListOK
      <3>2. ASSUME NEW j \in DOMAIN short, NEW k \in DOMAIN short, short[j].elem = short[k].elem
            PROVE  j = k
        <4> DEFINE at(m) == IF m < i THEN m ELSE m + 1
        <4>1. \A m \in DOMAIN short : at(m) \in DOMAIN tbl.order /\ short[m] = tbl.order[at(m)]
          BY <1>1, <1>3, <2>6
        <4>2. at(j) = at(k)
          BY <1>2, <3>2, <4>1
        <4> QED
          BY <1>1, <1>3, <2>6, <4>2
      <3> QED
        BY <1>3, <2>6, <2>8, <3>1, <3>2 DEF ListOK
    <2>13. HeldBy(end) = HeldBy(tbl) \ {e}
      BY <2>8, <2>9, <2>11 DEF HeldBy
    <2> QED
      BY <2>8, <2>10, <2>12, <2>13 DEF TableOK, end
  <1> QED
    BY <1>5, <1>6

---------------------------------------------------------------------------
(* The tables that changes make: HashReach has the value its recursion     *)
(* says, because there is one function on 0..m that keeps to it, for every *)
(* m; the first m, or place, where that fails would follow one where it    *)
(* does not.                                                               *)

Changed(tables) ==
    {IF k \in HeldBy(tbl) THEN HASH_DEL(tbl, k) ELSE HASH_ADD(tbl, HashKey, k) :
        tbl \in tables, k \in HashKeys}
UpTo(f, m) ==
    /\ f = [i \in 0..m |-> f[i]]
    /\ f[0] = {NULL}
    /\ \A i \in 1..m : f[i] = Changed(f[i - 1])

LEMMA UpToExists ==
    ASSUME NEW m \in Nat
    PROVE  \E f : UpTo(f, m)
  <1> DEFINE T == {n \in Nat : ~\E f : UpTo(f, n)}
  <1>1. SUFFICES ASSUME T # {} PROVE FALSE
    OBVIOUS
  <1>2. PICK n \in T : \A k \in T : n <= k
    BY <1>1, LeastNatural
  <1>3. CASE n = 0
    <2> DEFINE f == [i \in 0..0 |-> {NULL}]
    <2>1. UpTo(f, 0)
      BY DEF UpTo
    <2> QED
      BY <1>3, <2>1
  <1>4. CASE n # 0
    <2>1. n - 1 \in Nat /\ n - 1 \notin T /\ n \in Nat
      BY <1>2, <1>4
    <2>2. PICK f : UpTo(f, n - 1)
      BY <2>1
    <2> DEFINE g == [i \in 0..n |-> IF i = n THEN Changed(f[n - 1]) ELSE f[i]]
    <2>3. /\ \A i \in 0..n - 1 : g[i] = f[i]
          /\ g[n] = Changed(g[n - 1])
      BY <2>1
    <2>4. g = [i \in 0..n |-> g[i]]
      OBVIOUS
    <2> HIDE DEF g
    <2>5. \A i \in 1..n : g[i] = Changed(g[i - 1])
      <3>1. ASSUME NEW i \in 1..n, i # n
            PROVE  g[i] = Changed(g[i - 1])
        <4>1. i \in 1..n - 1 /\ i \in 0..n - 1 /\ i - 1 \in 0..n - 1
          BY <2>1, <3>1
        <4>2. f[i] = Changed(f[i - 1])
          BY <2>2, <4>1 DEF UpTo
        <4> QED
          BY <2>3, <4>1, <4>2
      <3> QED
        BY <2>3, <3>1
    <2>6. g[0] = {NULL}
      BY <2>1, <2>2, <2>3 DEF UpTo
    <2>7. UpTo(g, n)
      BY <2>4, <2>5, <2>6 DEF UpTo
    <2> QED
      BY <1>2, <2>7
  <1> QED
    BY <1>3, <1>4

LEMMA UpToUnique ==
    ASSUME NEW m \in Nat, NEW n \in Nat, NEW f, NEW g, UpTo(f, m), UpTo(g, n),
           NEW j \in Nat, j <= m, j <= n
    PROVE  f[j] = g[j]
  <1> DEFINE T == {i \in Nat : i <= m /\ i <= n /\ f[i] # g[i]}
  <1>1. SUFFICES ASSUME T # {} PROVE FALSE
    OBVIOUS
  <1>2. PICK i \in T : \A k \in T : i <= k
    BY <1>1, LeastNatural
  <1>3. i \in Nat /\ i <= m /\ i <= n /\ f[i] # g[i]
    BY <1>2
  <1>4. i # 0
    BY <1>3 DEF UpTo
  <1>5. i - 1 \in Nat /\ i \in 1..m /\ i \in 1..n /\ ~(i <= i - 1)
    BY <1>3, <1>4
  <1>6. f[i - 1] = g[i - 1]
    BY <1>2, <1>3, <1>5
  <1> QED
    BY <1>3, <1>5, <1>6 DEF UpTo

LEMMA HashReachDef ==
    /\ HashReach[0] = {NULL}
    /\ \A n \in Nat \ {0} : HashReach[n] = Changed(HashReach[n - 1])
  <1> DEFINE some(n) == CHOOSE f : UpTo(f, n)
             F == [n \in Nat |-> some(n)[n]]
             at(f, n) == IF n = 0 THEN {NULL} ELSE Changed(f[n - 1])
             Recursive(f) == f = [n \in Nat |-> at(f, n)]
  <1>1. \A n \in Nat : UpTo(some(n), n)
    BY UpToExists
  <1> HIDE DEF some
  <1>2. F[0] = {NULL}
    BY <1>1 DEF UpTo
  <1>3. ASSUME NEW n \in Nat \ {0}
        PROVE  F[n] = Changed(F[n - 1])
    <2>1. n - 1 \in Nat /\ n \in 1..n
      OBVIOUS
    <2>2. some(n)[n] = Changed(some(n)[n - 1])
      BY <1>1, <2>1 DEF UpTo
    <2>3. some(n)[n - 1] = some(n - 1)[n - 1]
      BY <1>1, <2>1, UpToUnique
    <2> QED
      BY <2>1, <2>2, <2>3
  <1>4. F = [n \in Nat |-> F[n]]
    OBVIOUS
  <1> HIDE DEF F
  <1>5. \A n \in Nat : F[n] = at(F, n)
    BY <1>2, <1>3
  <1>6. Recursive(F)
    <2> HIDE DEF at
    <2> QED
      BY <1>4, <1>5
  <1>7. HashReach = CHOOSE f : Recursive(f)
    BY DEF HashReach, Changed
  <1>8. Recursive(HashReach)
    <2> HIDE DEF Recursive
    <2> QED
      BY <1>6, <1>7
  <1>9. HashReach = [n \in Nat |-> at(HashReach, n)]
    <2> HIDE DEF at
    <2> QED
      BY <1>8
  <1>10. HashReach[0] = {NULL}
    BY <1>9
  <1>11. ASSUME NEW n \in Nat \ {0}
         PROVE  HashReach[n] = Changed(HashReach[n - 1])
    BY <1>9
  <1> QED
    BY <1>10, <1>11

\* What AddKeeps and DelKeeps say of one change holds of any number.
LEMMA ReachedTables ==
    ASSUME NEW m \in Nat, NEW tbl \in HashReach[m]
    PROVE  TableOK(tbl, HashKey, HashKeys)
  <1> DEFINE Fine(n) == \A table \in HashReach[n] : TableOK(table, HashKey, HashKeys)
             T == {n \in Nat : ~Fine(n)}
  <1>1. SUFFICES ASSUME T # {} PROVE FALSE
    OBVIOUS
  <1>2. PICK n \in T : \A k \in T : n <= k
    <2> HIDE DEF Fine
    <2> QED
      BY <1>1, LeastNatural
  <1>3. CASE n = 0
    <2>1. TableOK(NULL, HashKey, HashKeys)
      BY DEF TableOK, ListOK, NULL
    <2> QED
      BY <1>2, <1>3, <2>1, HashReachDef
  <1>4. CASE n # 0
    <2>1. n - 1 \in Nat /\ n - 1 \notin T /\ n \in Nat \ {0}
      BY <1>2, <1>4
    <2>2. Fine(n - 1)
      BY <2>1
    <2>3. ASSUME NEW table \in HashReach[n]
          PROVE  TableOK(table, HashKey, HashKeys)
      <3>1. PICK old \in HashReach[n - 1] : \E k \in HashKeys :
               table = IF k \in HeldBy(old) THEN HASH_DEL(old, k) ELSE HASH_ADD(old, HashKey, k)
        BY <2>1, HashReachDef DEF Changed
      <3>2. PICK k \in HashKeys :
               table = IF k \in HeldBy(old) THEN HASH_DEL(old, k) ELSE HASH_ADD(old, HashKey, k)
        BY <3>1
      <3>3. TableOK(old, HashKey, HashKeys) /\ HashKey[k] \in DOMAIN HASH_FCN
        BY <2>2 DEF HashKey, HashKeys
      <3>4. CASE k \in HeldBy(old)
        BY <3>2, <3>3, <3>4, DelKeeps
      <3>5. CASE k \notin HeldBy(old)
        BY <3>2, <3>3, <3>5, AddKeeps
      <3> QED
        BY <3>4, <3>5
    <2> QED
      BY <1>2, <2>3
  <1> QED
    BY <1>3, <1>4

\* uthash's own check: the handles of the buckets are those of the list, one by one.
LEMMA TablePassesCheck ==
    ASSUME NEW tbl, NEW key, NEW E, TableOK(tbl, key, E)
    PROVE  HASH_FSCK(tbl)
  <1>1. CASE tbl.order = <<>>
    BY <1>1 DEF HASH_FSCK
  <1>2. CASE tbl.order # <<>>
    <2>1. PICK n \in Nat \ {0} : BucketsOK(tbl, n)
      BY <1>2 DEF TableOK
    <2> DEFINE chained == UNION {{<<b, hh>> : hh \in tbl.buckets[b].chain} : b \in DOMAIN tbl.buckets}
               order == tbl.order
               m == Len(order)
               at(i) == <<HASH_TO_BKT(order[i].hashv, n), order[i]>>
               place == [i \in 1..m |-> at(i)]
    <2>2. /\ order \in Seq(Handles(E)) /\ m \in Nat /\ DOMAIN order = 1..m /\ tbl.num_items = m
          /\ \A i, j \in 1..m : order[i].elem = order[j].elem => i = j
      BY DEF TableOK, ListOK
    <2>3. \A b \in DOMAIN tbl.buckets : tbl.buckets[b].count = Cardinality(tbl.buckets[b].chain)
      BY <2>1 DEF BucketsOK, BucketOK
    <2>4. \A i \in 1..m : at(i) \in chained
      <3>1. ASSUME NEW i \in 1..m
            PROVE  at(i) \in chained
        <4> DEFINE b == HASH_TO_BKT(order[i].hashv, n)
        <4>1. order[i].hashv \in Nat
          <5>1. order[i] \in Handles(E)
            BY <2>2
          <5> HIDE DEF order
          <5> QED
            BY <5>1 DEF Handles
        <4>2. b \in 0..n - 1
          BY <4>1, Remainder
        <4>3. order[i] \in Leading(tbl, n, b)
          BY <2>2 DEF Leading, ToSet
        <4> HIDE DEF b
        <4>4. b \in DOMAIN tbl.buckets /\ order[i] \in tbl.buckets[b].chain
          BY <2>1, <4>2, <4>3 DEF BucketsOK, BucketOK
        <4>5. <<b, order[i]>> \in chained
          BY <4>4
        <4> QED
          BY <4>5 DEF b
      <3> QED
        BY <3>1
    <2>5. \A x \in chained : \E i \in 1..m : x = at(i)
      <3>1. ASSUME NEW b \in DOMAIN tbl.buckets, NEW hh \in tbl.buckets[b].chain
            PROVE  \E i \in 1..m : <<b, hh>> = at(i)
        <4>1. hh \in Leading(tbl, n, b)
          BY <2>1, <3>1 DEF BucketsOK, BucketOK
        <4>2. PICK i \in 1..m : hh = order[i] /\ HASH_TO_BKT(hh.hashv, n) = b
          BY <2>2, <4>1 DEF Leading, ToSet
        <4> QED
          BY <4>2
      <3> QED
        BY <3>1
    <2> HIDE DEF chained
    <2>6. \A i, j \in 1..m : at(i) = at(j) => i = j
      BY <2>2
    <2> HIDE DEF at
    <2>7. place \in Bijection(1..m, chained)
      BY <2>4, <2>5, <2>6 DEF Bijection, Injection, Surjection, IsInjective
    <2>8. IsFiniteSet(1..m) /\ Cardinality(1..m) = m
      BY <2>2, FS_Interval
    <2>9. Cardinality(chained) = m
      BY <2>7, <2>8, FS_Bijection DEF ExistsBijection
    <2> QED
      BY <2>2, <2>3, <2>9 DEF HASH_FSCK, chained
  <1> QED
    BY <1>1, <1>2

\* A table that came from the empty one by any changes finds each key it holds, under no
\* other, and passes uthash's own check, for every hash function (uthash.h:407-573, 838-976).
THEOREM HashFindsItsKeysCorrect == Spec => []HashFindsItsKeys
  <1>1. HashFindsItsKeys
    <2>1. ASSUME NEW n \in 0..HashSteps, NEW tbl \in HashReach[n]
          PROVE  /\ HASH_FSCK(tbl)
                 /\ \A k \in HashKeys : HASH_FIND(tbl, HashKey, k) = HeldBy(tbl) \cap {k}
      <3>1. TableOK(tbl, HashKey, HashKeys)
        BY ReachedTables
      <3>2. HeldBy(tbl) \subseteq HashKeys
        <4>1. \A i \in DOMAIN tbl.order : tbl.order[i] \in Handles(HashKeys)
          BY <3>1 DEF TableOK, ListOK
        <4> QED
          BY <4>1 DEF HeldBy, ToSet, Handles
      <3>3. ASSUME NEW k \in HashKeys
            PROVE  HASH_FIND(tbl, HashKey, k) = HeldBy(tbl) \cap {k}
        <4>1. HASH_FIND(tbl, HashKey, k) = {e \in HeldBy(tbl) : HashKey[e] = k}
          BY <3>1, FindsHeld DEF HashKeys
        <4> QED
          BY <3>2, <4>1 DEF HashKey
      <3> QED
        BY <3>1, <3>3, TablePassesCheck
    <2> QED
      BY <2>1 DEF HashFindsItsKeys
  <1> QED
    BY <1>1, PTL

---------------------------------------------------------------------------
(* User data.                                                              *)

LEMMA Quotient ==
    ASSUME NEW P \in Nat \ {0}, NEW i \in 0..P - 1, NEW q \in Nat
    PROVE  (i + q * P) % P = i /\ (i + q * P) \div P = q
  OBVIOUS

LEMMA Odd ==
    ASSUME NEW k \in Nat
    PROVE  (2 * k) % 2 = 0 /\ (2 * k + 1) % 2 = 1
  OBVIOUS

\* What DSTC stores with a descriptor gives back the index and the side, and is marked
\* as DSTC's.
LEMMA UserDataRoundTrips ==
    ASSUME NEW i \in Indexes, NEW pub \in BOOLEAN
    PROVE  /\ FROM_POLL_EVENT_USER_DATA(TO_POLL_EVENT_USER_DATA(i, pub)) = i
           /\ IS_PUB(TO_POLL_EVENT_USER_DATA(i, pub)) = pub
           /\ DSTC_EVENT_FLAG_Set(TO_POLL_EVENT_USER_DATA(i, pub))
           /\ TO_POLL_EVENT_USER_DATA(i, pub) \in UserDataSet \cap (Nat \ {0})
  <1> DEFINE P == USER_DATA_PUB_FLAG
             user_data == TO_POLL_EVENT_USER_DATA(i, pub)
  <1>1. P \in Nat \ {0} /\ i \in 0..P - 1 /\ DSTC_EVENT_FLAG \in Nat
    BY IndexAssumption
  <1>2. PICK k \in Nat \ {0} : DSTC_EVENT_FLAG = (2 * k) * P
    BY <1>1, IndexAssumption
  <1> DEFINE q == IF pub THEN 2 * k + 1 ELSE 2 * k
  <1>3. q \in Nat /\ (q % 2 = 1) = pub
    <2>1. 2 * k \in Nat /\ (2 * k) % 2 = 0 /\ (2 * k + 1) % 2 = 1
      BY Odd
    <2>2. q \in Nat
      BY <2>1
    <2>3. pub => q % 2 = 1
      BY <2>1
    <2>4. ~pub => q % 2 # 1
      BY <2>1
    <2>5. (q % 2 = 1) = pub
      <3> HIDE DEF q
      <3> QED
        BY <2>3, <2>4
    <2> QED
      BY <2>2, <2>5
  <1>4. user_data = i + q * P
    <2>1. CASE pub
      <3>1. (2 * k + 1) * P = (2 * k) * P + P
        BY <1>1
      <3> QED
        BY <1>1, <1>2, <2>1, <3>1 DEF TO_POLL_EVENT_USER_DATA
    <2>2. CASE ~pub
      BY <1>1, <1>2, <2>2 DEF TO_POLL_EVENT_USER_DATA
    <2> QED
      BY <2>1, <2>2
  <1>5. (i + q * P) % P = i /\ (i + q * P) \div P = q
    <2> HIDE DEF P, q
    <2> QED
      BY <1>1, <1>3, Quotient
  <1>6. DSTC_EVENT_FLAG >= 2 * P
    <2>1. k >= 1 /\ (2 * k) * P = 2 * P + (2 * (k - 1)) * P /\ (2 * (k - 1)) * P \in Nat
      BY <1>1
    <2> QED
      BY <1>1, <1>2, <2>1
  <1>7. /\ user_data \in Nat \ {0} /\ user_data >= DSTC_EVENT_FLAG
        /\ user_data <= 2 * DSTC_EVENT_FLAG - 1
    BY <1>1, <1>6 DEF TO_POLL_EVENT_USER_DATA
  <1>8. FROM_POLL_EVENT_USER_DATA(user_data) = i
    BY <1>4, <1>5 DEF FROM_POLL_EVENT_USER_DATA
  <1> HIDE DEF user_data
  <1>9. DSTC_EVENT_FLAG_Set(user_data) /\ user_data \in UserDataSet \cap (Nat \ {0})
    BY <1>1, <1>7 DEF DSTC_EVENT_FLAG_Set, UserDataSet
  <1>10. IS_PUB(user_data) = pub
    <2>1. user_data \div P = q
      BY <1>4, <1>5
    <2> HIDE DEF q
    <2> QED
      BY <1>3, <2>1 DEF IS_PUB
  <1> QED
    BY <1>8, <1>9, <1>10 DEF user_data

---------------------------------------------------------------------------
(* What is kept of RMC's connections. The variables are parameters where a *)
(* definition is needed of two states at once.                             *)

ConnectionSet == [pub : BOOLEAN, index : Indexes, fd : Descriptors, events : SUBSET {"in", "out"}]
ConnectionsOK ==
    /\ opened \in 0..MaxOpened
    /\ DOMAIN connections \subseteq 1..opened
    /\ \A c \in DOMAIN connections : connections[c] \in ConnectionSet
    /\ \A c, d \in DOMAIN connections :
          \/ connections[c].fd = connections[d].fd
          \/ connections[c].pub = connections[d].pub /\ connections[c].index = connections[d].index
          => c = d

ElemSet == [fd : Descriptors \cup {NoFd}, user_data : UserDataSet, events : SUBSET {"in", "out"}]
RegistryTyped ==
    /\ DOMAIN epoll_set \subseteq Descriptors
    /\ \A fd \in DOMAIN epoll_set : epoll_set[fd] \in Watched
    /\ poll_elem_array \in [Slots -> ElemSet]
    /\ TableOK(poll_hash, Fd, Slots)
    /\ HeldBy(poll_hash) = {s \in Slots : Fd[s] # NoFd}
    /\ \A s, r \in Slots : Fd[s] = Fd[r] /\ Fd[s] # NoFd => s = r
    /\ build = "epoll" => poll_hash.order = <<>>

\* What DSTC was asked to watch for a connection.
Asked(c) == [user_data |-> UserData(c), events |-> c.events]
RegistryOK ==
    exited = "no" =>
        /\ build = "epoll" =>
              /\ DOMAIN epoll_set = {connections[c].fd : c \in DOMAIN connections}
              /\ \A c \in DOMAIN connections : epoll_set[connections[c].fd] = Asked(connections[c])
        /\ build = "poll" =>
              /\ \A s \in Slots : Fd[s] # NoFd =>
                    \E c \in DOMAIN connections : Fd[s] = connections[c].fd
              /\ \A c \in DOMAIN connections : \E s \in Slots :
                    /\ Fd[s] = connections[c].fd
                    /\ poll_elem_array[s].user_data = UserData(connections[c])
                    /\ poll_elem_array[s].events = connections[c].events

\* An event is of a connection that is open, or was, or of stdin. What it is told by is
\* that connection's, or of one that was opened later.
DataOf(b, c) == IF b = "epoll" THEN UserData(c) ELSE c.fd
EventOK(e, b, conns, n) ==
    /\ e \in EventSet
    /\ e.data = 0 <=> e.conn = Stdin
    /\ e.conn # Stdin =>
          IF b = "epoll"
          THEN /\ e.conn # Gone
               /\ \E i \in Indexes, pub \in BOOLEAN : e.data = TO_POLL_EVENT_USER_DATA(i, pub)
          ELSE e.data \in Descriptors
    /\ e.conn # Stdin /\ e.conn # Gone =>
          /\ e.conn \in 1..n
          /\ \A c \in DOMAIN conns : DataOf(b, conns[c]) = e.data => c >= e.conn
          /\ e.conn \in DOMAIN conns => DataOf(b, conns[e.conn]) = e.data
FrameHolds(f, t, b, conns, n) ==
    /\ f \in FrameSet
    /\ Len(f.vector) <= f.max
    /\ Len(f.batch) <= f.max + IF f.loop = "user" THEN 1 ELSE 0
    /\ f.pc = "counted" => t \in UserThreads /\ f.loop = "user"
    /\ f.pc \in {"locking", "events"} => f.batch # <<>>
    /\ \A i \in DOMAIN f.batch :
          EventOK(f.batch[i], b, conns, n) /\ (f.batch[i].conn = Stdin => f.loop = "user")
StacksHold ==
    /\ stack \in [Threads -> Seq(FrameSet)]
    /\ \A t \in Threads :
          /\ Len(stack[t]) <= MaxFrames[t]
          /\ \A i \in DOMAIN stack[t] :
                FrameHolds(stack[t][i], t, build, connections, opened)

ExitOK ==
    /\ exited \in {"no", "full", "nomem"}
    /\ exited # "no" => build = "poll"
    /\ exited = "full" => \A s \in Slots : Fd[s] # NoFd
    /\ exited = "nomem" => \E t \in UserThreads : Len(PollVector) > Top(t).max

RegInv == build \in {"epoll", "poll"} /\ ConnectionsOK /\ RegistryTyped /\ RegistryOK

\* Between two states: connections keep what their events are told by, and new ones
\* have higher numbers.
Follows(conns, n, conns2, n2) ==
    /\ n2 \in Nat /\ n2 >= n
    /\ \A c \in DOMAIN conns2 :
          \/ c \in Nat /\ c > n
          \/ /\ c \in DOMAIN conns
             /\ UserData(conns2[c]) = UserData(conns[c]) /\ conns2[c].fd = conns[c].fd

Full == build = "poll" /\ \A s \in Slots : Fd[s] # NoFd

RInv ==
    /\ owner \in Threads \cup {Nobody}
    /\ RegInv
    /\ StacksHold
    /\ ExitOK

---------------------------------------------------------------------------
(* The registry.                                                           *)

\* The slots found under a descriptor are those that have it.
LEMMA SlotsFound ==
    ASSUME RegistryTyped, NEW fd \in Descriptors
    PROVE  HASH_FIND(poll_hash, Fd, fd) = {s \in Slots : Fd[s] = fd}
  <1>1. fd \in DOMAIN HASH_FCN /\ fd # NoFd
    BY DescriptorAssumption DEF NoFd
  <1>2. HASH_FIND(poll_hash, Fd, fd) = {s \in HeldBy(poll_hash) : Fd[s] = fd}
    BY <1>1, FindsHeld DEF RegistryTyped
  <1>3. HeldBy(poll_hash) = {s \in Slots : Fd[s] # NoFd}
    BY DEF RegistryTyped
  <1> QED
    BY <1>1, <1>2, <1>3

LEMMA SetsWatch ==
    ASSUME RegistryTyped, NEW fd \in Descriptors, NEW w \in Watched,
           epoll_set' = [f \in DOMAIN epoll_set \cup {fd} |->
                            IF f = fd THEN w ELSE epoll_set[f]],
           UNCHANGED <<build, poll_elem_array, poll_hash>>
    PROVE  RegistryTyped'
  <1>1. /\ DOMAIN epoll_set' = DOMAIN epoll_set \cup {fd}
        /\ \A f \in DOMAIN epoll_set' : epoll_set'[f] \in Watched
    BY DEF RegistryTyped
  <1>2. Fd' = Fd
    BY DEF Fd
  <1> QED
    BY <1>1, <1>2 DEF RegistryTyped

\* poll_add(): watched from now on, or no element of the array is free.
LEMMA AddWatches ==
    ASSUME RegistryTyped, NEW fd \in Descriptors, NEW user_data \in UserDataSet,
           NEW events \in SUBSET {"in", "out"},
           build = "epoll" => fd \notin DOMAIN epoll_set,
           build = "poll" => \A s \in Slots : Fd[s] # fd,
           build' = build, exited = "no", poll_add(fd, user_data, events)
    PROVE  /\ RegistryTyped'
           /\ \/ /\ exited' = "full" /\ build = "poll" /\ UNCHANGED registry
                 /\ \A s \in Slots : Fd[s] # NoFd
              \/ /\ exited' = "no" /\ build = "epoll"
                 /\ epoll_set' = [f \in DOMAIN epoll_set \cup {fd} |->
                                  IF f = fd THEN [user_data |-> user_data, events |-> events]
                                  ELSE epoll_set[f]]
              \/ /\ exited' = "no" /\ build = "poll"
                 /\ \E s \in Slots :
                       /\ Fd[s] = NoFd
                       /\ poll_elem_array' = [poll_elem_array EXCEPT ![s] =
                              [fd |-> fd, user_data |-> user_data, events |-> events]]
  <1>1. CASE build = "epoll"
    <2>1. /\ exited' = "no" /\ UNCHANGED <<build, poll_elem_array, poll_hash>>
          /\ epoll_set' = [f \in DOMAIN epoll_set \cup {fd} |->
                                  IF f = fd THEN [user_data |-> user_data, events |-> events]
                                  ELSE epoll_set[f]]
      BY <1>1 DEF poll_add
    <2>2. [user_data |-> user_data, events |-> events] \in Watched
      BY DEF Watched
    <2>3. RegistryTyped'
      BY <2>1, <2>2, SetsWatch
    <2> QED
      BY <1>1, <2>1, <2>3
  <1>2. CASE build = "poll"
    <2> DEFINE free == {s \in Slots : Fd[s] = NoFd}
    <2>1. HASH_FIND(poll_hash, Fd, fd) = {}
      BY <1>2, SlotsFound
    <2>2. CASE find_free_poll_elem_index = {}
      <3>1. exited' = "full" /\ UNCHANGED registry
        BY <1>2, <2>1, <2>2 DEF poll_add, Exit
      <3>2. free = {}
        <4>1. free \subseteq Nat
          BY ArrayAssumption DEF Slots
        <4>2. \A s \in Slots : Fd[s] = NoFd => \E m \in free : \A r \in free : m <= r
          BY <4>1, LeastNatural
        <4> QED
          BY <2>2, <4>2 DEF find_free_poll_elem_index
      <3>3. Fd' = Fd
        BY <3>1 DEF Fd, registry
      <3>4. RegistryTyped'
        BY <3>1, <3>3 DEF RegistryTyped, registry
      <3> QED
        BY <1>2, <3>1, <3>2, <3>4
    <2>3. CASE find_free_poll_elem_index # {}
      <3> DEFINE elem == [fd |-> fd, user_data |-> user_data, events |-> events]
      <3>1. PICK s \in find_free_poll_elem_index :
                /\ poll_elem_array' = [poll_elem_array EXCEPT ![s] = elem]
                /\ poll_hash' = HASH_ADD(poll_hash, [Fd EXCEPT ![s] = fd], s)
                /\ UNCHANGED <<epoll_set, exited>>
        BY <1>2, <2>1, <2>3 DEF poll_add
      <3>2. s \in Slots /\ Fd[s] = NoFd
        BY DEF find_free_poll_elem_index
      <3>3. poll_elem_array' \in [Slots -> ElemSet]
        <4>1. elem \in ElemSet
          BY DEF ElemSet
        <4> QED
          BY <3>1, <3>2, <4>1 DEF RegistryTyped
      <3>4. \A r \in Slots : Fd'[r] = IF r = s THEN fd ELSE Fd[r]
        BY <3>1, <3>2 DEF Fd, RegistryTyped
      <3>5. Fd' = [Fd EXCEPT ![s] = fd]
        BY <3>4 DEF Fd
      <3>6. fd \in DOMAIN HASH_FCN /\ fd # NoFd
        BY DescriptorAssumption DEF NoFd
      <3>7. HeldBy(poll_hash) = {r \in Slots : Fd[r] # NoFd}
        BY DEF RegistryTyped
      <3>8. TableOK(poll_hash', Fd', Slots) /\ HeldBy(poll_hash') = HeldBy(poll_hash) \cup {s}
        <4>1. s \notin HeldBy(poll_hash)
          BY <3>2, <3>7
        <4>2. \A r \in HeldBy(poll_hash) : Fd'[r] = Fd[r]
          BY <3>4, <3>7, <4>1
        <4>3. TableOK(poll_hash, Fd, Slots) /\ Fd'[s] \in DOMAIN HASH_FCN
          BY <3>2, <3>4, <3>6 DEF RegistryTyped
        <4>4. poll_hash' = HASH_ADD(poll_hash, Fd', s)
          BY <3>1, <3>5
        <4> DEFINE key2 == Fd'
        <4>5. /\ TableOK(HASH_ADD(poll_hash, key2, s), key2, Slots)
              /\ HeldBy(HASH_ADD(poll_hash, key2, s)) = HeldBy(poll_hash) \cup {s}
          <5> HIDE DEF key2
          <5> QED
            BY <3>2, <4>1, <4>2, <4>3, AddKeeps DEF key2
        <4> QED
          BY <4>4, <4>5
      <3>9. HeldBy(poll_hash') = {r \in Slots : Fd'[r] # NoFd}
        BY <3>2, <3>4, <3>6, <3>7, <3>8
      <3>10. \A r, q \in Slots : Fd'[r] = Fd'[q] /\ Fd'[r] # NoFd => r = q
        BY <1>2, <3>4 DEF RegistryTyped
      <3>11. RegistryTyped'
        <4>1. UNCHANGED <<epoll_set, build>>
          BY <3>1
        <4> HIDE DEF elem
        <4> QED
          BY <1>2, <3>3, <3>8, <3>9, <3>10, <4>1 DEF RegistryTyped
      <3> QED
        BY <1>2, <3>1, <3>2, <3>11
    <2> QED
      BY <2>2, <2>3
  <1>3. build = "epoll" \/ build = "poll"
    BY DEF poll_add
  <1> QED
    BY <1>1, <1>2, <1>3

\* poll_modify() of a watched descriptor.
LEMMA ModifyWatches ==
    ASSUME RegistryTyped, NEW fd \in Descriptors, NEW user_data \in UserDataSet,
           NEW events \in SUBSET {"in", "out"},
           build = "epoll" => fd \in DOMAIN epoll_set,
           build = "poll" => \E s \in Slots : Fd[s] = fd,
           build' = build, exited = "no", poll_modify(fd, user_data, events)
    PROVE  /\ RegistryTyped' /\ exited' = "no"
           /\ \/ /\ build = "epoll"
                 /\ epoll_set' = [epoll_set EXCEPT ![fd] =
                                     [user_data |-> user_data, events |-> events]]
              \/ /\ build = "poll"
                 /\ \E s \in Slots :
                       /\ Fd[s] = fd
                       /\ poll_elem_array' = [poll_elem_array EXCEPT ![s].events = events]
  <1>1. CASE build = "epoll"
    <2> DEFINE w == [user_data |-> user_data, events |-> events]
    <2>1. /\ exited' = "no" /\ UNCHANGED <<build, poll_elem_array, poll_hash>>
          /\ epoll_set' = [epoll_set EXCEPT ![fd] = w]
      BY <1>1 DEF poll_modify
    <2>2. w \in Watched
      BY DEF Watched
    <2> HIDE DEF w
    <2>3. epoll_set' = [f \in DOMAIN epoll_set \cup {fd} |-> IF f = fd THEN w ELSE epoll_set[f]]
      BY <1>1, <2>1
    <2>4. RegistryTyped'
      BY <2>1, <2>2, <2>3, SetsWatch
    <2> QED
      BY <1>1, <2>1, <2>4 DEF w
  <1>2. CASE build = "poll"
    <2>1. PICK s \in HASH_FIND(poll_hash, Fd, fd) :
              poll_elem_array' = [poll_elem_array EXCEPT ![s].events = events]
      BY <1>2, SlotsFound DEF poll_modify
    <2>2. s \in Slots /\ Fd[s] = fd
      BY <2>1, SlotsFound
    <2>3. UNCHANGED <<epoll_set, poll_hash, exited>>
      BY <1>2, SlotsFound DEF poll_modify
    <2>4. poll_elem_array' \in [Slots -> ElemSet] /\ Fd' = Fd
      <3>1. poll_elem_array[s] \in ElemSet
        BY <2>2 DEF RegistryTyped
      <3>2. [poll_elem_array[s] EXCEPT !.events = events] \in ElemSet
        BY <3>1 DEF ElemSet
      <3>3. [poll_elem_array[s] EXCEPT !.events = events].fd = poll_elem_array[s].fd
        BY <3>1 DEF ElemSet
      <3>4. poll_elem_array' = [poll_elem_array EXCEPT ![s] =
                                   [poll_elem_array[s] EXCEPT !.events = events]]
        BY <2>1
      <3> QED
        BY <2>2, <3>2, <3>3, <3>4 DEF RegistryTyped, Fd
    <2>5. RegistryTyped'
      BY <2>3, <2>4 DEF RegistryTyped
    <2> QED
      BY <1>2, <2>1, <2>2, <2>3, <2>5
  <1>3. build = "epoll" \/ build = "poll"
    BY DEF poll_modify
  <1> QED
    BY <1>1, <1>2, <1>3

\* poll_remove() of a watched descriptor.
LEMMA RemoveWatches ==
    ASSUME RegistryTyped, NEW fd \in Descriptors,
           build = "poll" => \E s \in Slots : Fd[s] = fd,
           build' = build, exited = "no", poll_remove(fd)
    PROVE  /\ RegistryTyped' /\ exited' = "no"
           /\ \/ /\ build = "epoll"
                 /\ epoll_set' = [f \in DOMAIN epoll_set \ {fd} |-> epoll_set[f]]
              \/ /\ build = "poll"
                 /\ \E s \in Slots :
                       /\ Fd[s] = fd
                       /\ poll_elem_array' = [poll_elem_array EXCEPT ![s] = FreeElem]
  <1>1. CASE build = "epoll"
    <2>1. /\ exited' = "no" /\ UNCHANGED <<build, poll_elem_array, poll_hash>>
          /\ epoll_set' = [f \in DOMAIN epoll_set \ {fd} |-> epoll_set[f]]
      BY <1>1 DEF poll_remove
    <2>2. RegistryTyped'
      <3>1. Fd' = Fd
        BY <2>1 DEF Fd
      <3> QED
        BY <2>1, <3>1 DEF RegistryTyped
    <2> QED
      BY <1>1, <2>1, <2>2
  <1>2. CASE build = "poll"
    <2>1. PICK s \in HASH_FIND(poll_hash, Fd, fd) :
              /\ poll_hash' = HASH_DEL(poll_hash, s)
              /\ poll_elem_array' = [poll_elem_array EXCEPT ![s] = FreeElem]
      BY <1>2, SlotsFound DEF poll_remove
    <2>2. s \in Slots /\ Fd[s] = fd
      BY <2>1, SlotsFound
    <2>3. UNCHANGED <<epoll_set, exited>>
      BY <1>2, SlotsFound DEF poll_remove
    <2>4. poll_elem_array' \in [Slots -> ElemSet]
      <3>1. FreeElem \in ElemSet
        BY IndexAssumption DEF FreeElem, ElemSet, UserDataSet
      <3> QED
        BY <2>1, <2>2, <3>1 DEF RegistryTyped
    <2>5. \A r \in Slots : Fd'[r] = IF r = s THEN NoFd ELSE Fd[r]
      BY <2>1, <2>2 DEF Fd, RegistryTyped, FreeElem
    <2>6. HeldBy(poll_hash) = {r \in Slots : Fd[r] # NoFd} /\ fd # NoFd
      BY DescriptorAssumption DEF RegistryTyped, NoFd
    <2>7. TableOK(poll_hash', Fd', Slots) /\ HeldBy(poll_hash') = HeldBy(poll_hash) \ {s}
      <3>1. s \in HeldBy(poll_hash)
        BY <2>2, <2>6
      <3>2. \A r \in HeldBy(poll_hash) \ {s} : Fd'[r] = Fd[r]
        BY <2>5, <2>6
      <3>3. TableOK(poll_hash, Fd, Slots)
        BY DEF RegistryTyped
      <3> QED
        BY <2>1, <3>1, <3>2, <3>3, DelKeeps
    <2>8. HeldBy(poll_hash') = {r \in Slots : Fd'[r] # NoFd}
      BY <2>2, <2>5, <2>6, <2>7
    <2>9. \A r, q \in Slots : Fd'[r] = Fd'[q] /\ Fd'[r] # NoFd => r = q
      BY <2>5 DEF RegistryTyped
    <2>10. RegistryTyped'
      BY <1>2, <2>3, <2>4, <2>7, <2>8, <2>9 DEF RegistryTyped
    <2> QED
      BY <1>2, <2>1, <2>2, <2>3, <2>10
  <1>3. build = "epoll" \/ build = "poll"
    BY DEF poll_remove
  <1> QED
    BY <1>1, <1>2, <1>3

---------------------------------------------------------------------------
(* What RMC does.                                                          *)

LEMMA ConnectionIsTold ==
    ASSUME ConnectionsOK, NEW c \in DOMAIN connections
    PROVE  /\ connections[c] \in ConnectionSet /\ connections[c].fd \in Descriptors
           /\ connections[c].events \in SUBSET {"in", "out"}
           /\ UserData(connections[c]) \in UserDataSet
           /\ c \in 1..opened /\ opened \in Nat
  <1>1. connections[c] \in ConnectionSet /\ c \in 1..opened /\ opened \in Nat
    BY BoundAssumption DEF ConnectionsOK
  <1>2. /\ connections[c].index \in Indexes /\ connections[c].pub \in BOOLEAN
        /\ connections[c].fd \in Descriptors /\ connections[c].events \in SUBSET {"in", "out"}
    BY <1>1 DEF ConnectionSet
  <1> QED
    BY <1>1, <1>2, UserDataRoundTrips DEF UserData

LEMMA OpensKeeps ==
    ASSUME RegInv, exited = "no", build' = build, RmcOpens
    PROVE  /\ RegInv' /\ Follows(connections, opened, connections', opened')
           /\ exited' = "no" \/ (exited' = "full" /\ Full')
  <1> USE DEF RegInv
  <1>1. PICK pub \in BOOLEAN, index \in Indexes, fd \in Descriptors :
            /\ \A c \in DOMAIN connections :
                  connections[c].fd # fd /\ ~(connections[c].pub = pub /\ connections[c].index = index)
            /\ opened' = opened + 1
            /\ connections' = [c \in DOMAIN connections \cup {opened + 1} |->
                   IF c = opened + 1
                   THEN [pub |-> pub, index |-> index, fd |-> fd, events |-> {"in"}]
                   ELSE connections[c]]
            /\ poll_add(fd, UserData([pub |-> pub, index |-> index, fd |-> fd, events |-> {"in"}]),
                        {"in"})
    BY DEF RmcOpens, LowestFree
  <1> DEFINE conn == [pub |-> pub, index |-> index, fd |-> fd, events |-> {"in"}]
             id == opened + 1
  <1>2. /\ opened \in Nat /\ opened' \in 0..MaxOpened /\ id \notin DOMAIN connections
        /\ id > opened /\ \A c \in DOMAIN connections : c \in 1..opened /\ c # id
    BY <1>1, BoundAssumption DEF ConnectionsOK, RmcOpens
  <1>3. conn \in ConnectionSet
    BY DEF ConnectionSet
  <1>4. /\ DOMAIN connections' = DOMAIN connections \cup {id} /\ connections'[id] = conn
        /\ \A c \in DOMAIN connections : connections'[c] = connections[c]
    BY <1>1, <1>2
  <1>5. conn.fd = fd /\ conn.pub = pub /\ conn.index = index /\ conn.events = {"in"}
    OBVIOUS
  <1>6. UserData(conn) \in UserDataSet
    BY UserDataRoundTrips DEF UserData
  <1> HIDE DEF conn
  <1>7. ConnectionsOK'
    <2>1. DOMAIN connections' \subseteq 1..opened'
      BY <1>1, <1>2, <1>4
    <2>2. \A c \in DOMAIN connections' : connections'[c] \in ConnectionSet
      BY <1>3, <1>4 DEF ConnectionsOK
    <2>3. ASSUME NEW c \in DOMAIN connections', NEW d \in DOMAIN connections',
                 \/ connections'[c].fd = connections'[d].fd
                 \/ /\ connections'[c].pub = connections'[d].pub
                    /\ connections'[c].index = connections'[d].index
          PROVE  c = d
      <3>1. CASE c \in DOMAIN connections /\ d \in DOMAIN connections
        BY <1>4, <2>3, <3>1 DEF ConnectionsOK
      <3>2. CASE c = id /\ d \in DOMAIN connections
        BY <1>1, <1>4, <1>5, <2>3, <3>2
      <3>3. CASE c \in DOMAIN connections /\ d = id
        BY <1>1, <1>4, <1>5, <2>3, <3>3
      <3> QED
        BY <1>4, <3>1, <3>2, <3>3
    <2> QED
      BY <1>2, <2>1, <2>2, <2>3 DEF ConnectionsOK
  <1>8. Follows(connections, opened, connections', opened')
    BY <1>1, <1>2, <1>4 DEF Follows
  <1>9. poll_add(fd, UserData(conn), {"in"})
    BY <1>1 DEF conn
  <1>10. build = "epoll" => fd \notin DOMAIN epoll_set
    BY <1>1 DEF RegistryOK
  <1>11. build = "poll" => \A s \in Slots : Fd[s] # fd
    <2>1. fd # NoFd
      BY DescriptorAssumption DEF NoFd
    <2> QED
      BY <1>1, <2>1 DEF RegistryOK
  <1>12. /\ RegistryTyped'
         /\ \/ /\ exited' = "full" /\ build = "poll" /\ UNCHANGED registry
               /\ \A s \in Slots : Fd[s] # NoFd
            \/ /\ exited' = "no" /\ build = "epoll"
               /\ epoll_set' = [f \in DOMAIN epoll_set \cup {fd} |->
                                IF f = fd THEN [user_data |-> UserData(conn), events |-> {"in"}]
                                ELSE epoll_set[f]]
            \/ /\ exited' = "no" /\ build = "poll"
               /\ \E s \in Slots :
                     /\ Fd[s] = NoFd
                     /\ poll_elem_array' = [poll_elem_array EXCEPT ![s] =
                            [fd |-> fd, user_data |-> UserData(conn), events |-> {"in"}]]
    BY <1>6, <1>9, <1>10, <1>11, AddWatches
  <1>13. CASE exited' = "full" /\ build = "poll" /\ UNCHANGED registry /\ \A s \in Slots : Fd[s] # NoFd
    <2>1. Full'
      BY <1>13 DEF Full, Fd, registry
    <2> QED
      BY <1>7, <1>8, <1>12, <1>13, <2>1 DEF RegistryOK
  <1>14. CASE /\ exited' = "no" /\ build = "epoll"
              /\ epoll_set' = [f \in DOMAIN epoll_set \cup {fd} |->
                                IF f = fd THEN [user_data |-> UserData(conn), events |-> {"in"}]
                                ELSE epoll_set[f]]
    <2>1. /\ DOMAIN epoll_set' = DOMAIN epoll_set \cup {fd} /\ epoll_set'[fd] = Asked(conn)
          /\ \A f \in DOMAIN epoll_set : epoll_set'[f] = epoll_set[f]
      BY <1>5, <1>10, <1>14 DEF Asked
    <2>2. DOMAIN epoll_set' = {connections'[c].fd : c \in DOMAIN connections'}
      BY <1>4, <1>5, <1>14, <2>1 DEF RegistryOK
    <2>3. \A c \in DOMAIN connections' : epoll_set'[connections'[c].fd] = Asked(connections'[c])
      BY <1>4, <1>5, <1>14, <2>1 DEF RegistryOK
    <2> QED
      BY <1>7, <1>8, <1>12, <1>14, <2>2, <2>3 DEF RegistryOK
  <1>15. CASE /\ exited' = "no" /\ build = "poll"
              /\ \E s \in Slots :
                     /\ Fd[s] = NoFd
                     /\ poll_elem_array' = [poll_elem_array EXCEPT ![s] =
                            [fd |-> fd, user_data |-> UserData(conn), events |-> {"in"}]]
    <2>1. PICK s \in Slots :
                     /\ Fd[s] = NoFd
                     /\ poll_elem_array' = [poll_elem_array EXCEPT ![s] =
                            [fd |-> fd, user_data |-> UserData(conn), events |-> {"in"}]]
      BY <1>15
    <2>2. /\ \A r \in Slots : r # s => poll_elem_array'[r] = poll_elem_array[r] /\ Fd'[r] = Fd[r]
          /\ poll_elem_array'[s].user_data = UserData(conn)
          /\ poll_elem_array'[s].events = {"in"}
          /\ Fd'[s] = fd
      BY <2>1 DEF RegistryTyped, Fd
    <2>3. \A r \in Slots : Fd'[r] # NoFd => \E c \in DOMAIN connections' : Fd'[r] = connections'[c].fd
      BY <1>4, <1>5, <1>15, <2>2 DEF RegistryOK
    <2>4. ASSUME NEW c \in DOMAIN connections'
          PROVE  \E r \in Slots :
                    /\ Fd'[r] = connections'[c].fd
                    /\ poll_elem_array'[r].user_data = UserData(connections'[c])
                    /\ poll_elem_array'[r].events = connections'[c].events
      <3>1. CASE c = id
        BY <1>4, <1>5, <2>2, <3>1
      <3>2. CASE c \in DOMAIN connections
        <4>1. PICK r \in Slots :
                    /\ Fd[r] = connections[c].fd
                    /\ poll_elem_array[r].user_data = UserData(connections[c])
                    /\ poll_elem_array[r].events = connections[c].events
          BY <1>15, <3>2 DEF RegistryOK
        <4>2. r # s
          <5>1. connections[c].fd # NoFd
            BY <3>2, ConnectionIsTold, DescriptorAssumption DEF NoFd
          <5> QED
            BY <2>1, <4>1, <5>1
        <4> QED
          BY <1>4, <2>2, <3>2, <4>1, <4>2
      <3> QED
        BY <1>4, <3>1, <3>2
    <2> QED
      BY <1>7, <1>8, <1>12, <1>15, <2>3, <2>4 DEF RegistryOK
  <1> QED
    BY <1>12, <1>13, <1>14, <1>15

LEMMA ClosesKeeps ==
    ASSUME RegInv, exited = "no", build' = build, NEW c \in DOMAIN connections, RmcCloses(c)
    PROVE  /\ RegInv' /\ Follows(connections, opened, connections', opened')
           /\ exited' = "no"
  <1> USE DEF RegInv
  <1> DEFINE fd == connections[c].fd
  <1>1. /\ connections' = [d \in DOMAIN connections \ {c} |-> connections[d]]
        /\ poll_remove(fd) /\ opened' = opened
    BY DEF RmcCloses
  <1>2. /\ DOMAIN connections' = DOMAIN connections \ {c}
        /\ \A d \in DOMAIN connections' : connections'[d] = connections[d]
    BY <1>1
  <1>3. /\ fd \in Descriptors /\ opened \in Nat /\ fd # NoFd
        /\ \A d \in DOMAIN connections' : connections'[d].fd # fd
    BY <1>2, ConnectionIsTold, DescriptorAssumption DEF ConnectionsOK, NoFd
  <1>4. ConnectionsOK'
    BY <1>1, <1>2 DEF ConnectionsOK
  <1>5. Follows(connections, opened, connections', opened')
    BY <1>1, <1>2, <1>3 DEF Follows
  <1>6. build = "poll" => \E s \in Slots : Fd[s] = fd
    BY DEF RegistryOK
  <1>7. /\ RegistryTyped' /\ exited' = "no"
        /\ \/ /\ build = "epoll"
              /\ epoll_set' = [f \in DOMAIN epoll_set \ {fd} |-> epoll_set[f]]
           \/ /\ build = "poll"
              /\ \E s \in Slots :
                    /\ Fd[s] = fd
                    /\ poll_elem_array' = [poll_elem_array EXCEPT ![s] = FreeElem]
    BY <1>1, <1>3, <1>6, RemoveWatches
  <1>8. CASE build = "epoll" /\ epoll_set' = [f \in DOMAIN epoll_set \ {fd} |-> epoll_set[f]]
    <2>1. /\ DOMAIN epoll_set' = {connections[d].fd : d \in DOMAIN connections} \ {fd}
          /\ \A d \in DOMAIN connections' : epoll_set[connections[d].fd] = Asked(connections[d])
      BY <1>2, <1>8 DEF RegistryOK
    <2>2. DOMAIN epoll_set' = {connections'[d].fd : d \in DOMAIN connections'}
      BY <1>2, <1>3, <2>1
    <2>3. \A d \in DOMAIN connections' : epoll_set'[connections'[d].fd] = Asked(connections'[d])
      BY <1>2, <1>8, <2>1, <2>2
    <2> QED
      BY <1>4, <1>5, <1>7, <1>8, <2>2, <2>3 DEF RegistryOK
  <1>9. CASE /\ build = "poll"
             /\ \E s \in Slots :
                    /\ Fd[s] = fd
                    /\ poll_elem_array' = [poll_elem_array EXCEPT ![s] = FreeElem]
    <2>1. PICK s \in Slots :
                    /\ Fd[s] = fd
                    /\ poll_elem_array' = [poll_elem_array EXCEPT ![s] = FreeElem]
      BY <1>9
    <2>2. /\ \A r \in Slots : r # s => poll_elem_array'[r] = poll_elem_array[r] /\ Fd'[r] = Fd[r]
          /\ Fd'[s] = NoFd
      BY <2>1 DEF RegistryTyped, Fd, FreeElem
    <2>3. ASSUME NEW r \in Slots, Fd'[r] # NoFd
          PROVE  \E d \in DOMAIN connections' : Fd'[r] = connections'[d].fd
      <3>1. r # s /\ Fd'[r] = Fd[r]
        BY <2>2, <2>3
      <3>2. Fd[r] # fd
        BY <1>3, <2>1, <3>1 DEF RegistryTyped
      <3>3. PICK d \in DOMAIN connections : Fd[r] = connections[d].fd
        BY <1>9, <2>3, <3>1 DEF RegistryOK
      <3> QED
        BY <1>2, <3>1, <3>2, <3>3
    <2>4. ASSUME NEW d \in DOMAIN connections'
          PROVE  \E r \in Slots :
                    /\ Fd'[r] = connections'[d].fd
                    /\ poll_elem_array'[r].user_data = UserData(connections'[d])
                    /\ poll_elem_array'[r].events = connections'[d].events
      <3>1. PICK r \in Slots :
                  /\ Fd[r] = connections[d].fd
                  /\ poll_elem_array[r].user_data = UserData(connections[d])
                  /\ poll_elem_array[r].events = connections[d].events
        BY <1>2, <1>9 DEF RegistryOK
      <3>2. r # s
        BY <1>2, <1>3, <2>1, <3>1
      <3> QED
        BY <1>2, <2>2, <3>1, <3>2
    <2> QED
      BY <1>4, <1>5, <1>7, <1>9, <2>3, <2>4 DEF RegistryOK
  <1> QED
    BY <1>7, <1>8, <1>9

LEMMA ModifiesKeeps ==
    ASSUME RegInv, exited = "no", build' = build, NEW c \in DOMAIN connections,
           NEW events \in SUBSET {"in", "out"}, RmcModifies(c, events)
    PROVE  /\ RegInv' /\ Follows(connections, opened, connections', opened')
           /\ exited' = "no"
  <1> USE DEF RegInv
  <1> DEFINE fd == connections[c].fd
             conn == [connections[c] EXCEPT !.events = events]
  <1>1. /\ connections' = [connections EXCEPT ![c] = conn]
        /\ poll_modify(fd, UserData(connections[c]), events) /\ opened' = opened
    BY DEF RmcModifies
  <1>2. /\ connections[c] \in ConnectionSet /\ fd \in Descriptors
        /\ UserData(connections[c]) \in UserDataSet
    BY ConnectionIsTold
  <1>3. /\ conn \in ConnectionSet /\ conn.fd = fd /\ conn.pub = connections[c].pub
        /\ conn.index = connections[c].index /\ conn.events = events
    BY <1>2 DEF ConnectionSet
  <1>4. UserData(conn) = UserData(connections[c])
    BY <1>3 DEF UserData
  <1> HIDE DEF conn
  <1>5. /\ DOMAIN connections' = DOMAIN connections /\ connections'[c] = conn
        /\ \A d \in DOMAIN connections : d # c => connections'[d] = connections[d]
        /\ opened \in Nat
    BY <1>1, BoundAssumption DEF ConnectionsOK
  <1>6. \A d \in DOMAIN connections :
           /\ connections'[d].fd = connections[d].fd /\ connections'[d].pub = connections[d].pub
           /\ connections'[d].index = connections[d].index
           /\ UserData(connections'[d]) = UserData(connections[d])
           /\ connections'[d].events = IF d = c THEN events ELSE connections[d].events
    BY <1>3, <1>4, <1>5
  <1>7. ConnectionsOK'
    BY <1>1, <1>3, <1>5, <1>6 DEF ConnectionsOK
  <1>8. Follows(connections, opened, connections', opened')
    BY <1>1, <1>5, <1>6 DEF Follows
  <1>9. /\ build = "epoll" => fd \in DOMAIN epoll_set
        /\ build = "poll" => \E s \in Slots : Fd[s] = fd
    BY DEF RegistryOK
  <1>10. /\ RegistryTyped' /\ exited' = "no"
         /\ \/ /\ build = "epoll"
               /\ epoll_set' = [epoll_set EXCEPT ![fd] =
                     [user_data |-> UserData(connections[c]), events |-> events]]
            \/ /\ build = "poll"
               /\ \E s \in Slots :
                     /\ Fd[s] = fd
                     /\ poll_elem_array' = [poll_elem_array EXCEPT ![s].events = events]
    <2> DEFINE user_data == UserData(connections[c])
    <2>1. poll_modify(fd, user_data, events) /\ user_data \in UserDataSet /\ RegistryTyped
      BY <1>1, <1>2
    <2> DEFINE asked == [user_data |-> user_data, events |-> events]
    <2>2. /\ RegistryTyped' /\ exited' = "no"
          /\ \/ /\ build = "epoll"
                /\ epoll_set' = [epoll_set EXCEPT ![fd] = asked]
             \/ /\ build = "poll"
                /\ \E s \in Slots :
                      /\ Fd[s] = fd
                      /\ poll_elem_array' = [poll_elem_array EXCEPT ![s].events = events]
      <3> HIDE DEF user_data, fd, RegInv
      <3> QED
        BY <1>2, <1>9, <2>1, ModifyWatches
    <2> QED
      BY <2>2
  <1>11. CASE /\ build = "epoll"
              /\ epoll_set' = [epoll_set EXCEPT ![fd] =
                     [user_data |-> UserData(connections[c]), events |-> events]]
    <2>1. DOMAIN epoll_set' = {connections'[d].fd : d \in DOMAIN connections'}
      BY <1>5, <1>6, <1>11 DEF RegistryOK
    <2>2. ASSUME NEW d \in DOMAIN connections
          PROVE  epoll_set'[connections'[d].fd] = Asked(connections'[d])
      <3>1. CASE d = c
        BY <1>6, <1>9, <1>11, <3>1 DEF Asked
      <3>2. CASE d # c
        <4>1. connections[d].fd # fd
          BY <3>2 DEF ConnectionsOK
        <4> QED
          BY <1>5, <1>11, <3>2, <4>1 DEF RegistryOK
      <3> QED
        BY <3>1, <3>2
    <2> QED
      BY <1>5, <1>7, <1>8, <1>10, <1>11, <2>1, <2>2 DEF RegistryOK
  <1>12. CASE /\ build = "poll"
              /\ \E s \in Slots :
                     /\ Fd[s] = fd
                     /\ poll_elem_array' = [poll_elem_array EXCEPT ![s].events = events]
    <2>1. PICK s \in Slots :
                     /\ Fd[s] = fd
                     /\ poll_elem_array' = [poll_elem_array EXCEPT ![s].events = events]
      BY <1>12
    <2>2. /\ \A r \in Slots : /\ Fd'[r] = Fd[r]
                              /\ poll_elem_array'[r].user_data = poll_elem_array[r].user_data
                              /\ r # s => poll_elem_array'[r].events = poll_elem_array[r].events
          /\ poll_elem_array'[s].events = events
      BY <2>1 DEF RegistryTyped, Fd, ElemSet
    <2>3. \A r \in Slots : Fd'[r] # NoFd => \E d \in DOMAIN connections' : Fd'[r] = connections'[d].fd
      BY <1>5, <1>6, <1>12, <2>2 DEF RegistryOK
    <2>4. ASSUME NEW d \in DOMAIN connections'
          PROVE  \E r \in Slots :
                    /\ Fd'[r] = connections'[d].fd
                    /\ poll_elem_array'[r].user_data = UserData(connections'[d])
                    /\ poll_elem_array'[r].events = connections'[d].events
      <3>1. PICK r \in Slots :
                  /\ Fd[r] = connections[d].fd
                  /\ poll_elem_array[r].user_data = UserData(connections[d])
                  /\ poll_elem_array[r].events = connections[d].events
        BY <1>5, <1>12 DEF RegistryOK
      <3>2. r = s <=> d = c
        <4>1. fd # NoFd
          BY <1>2, DescriptorAssumption DEF NoFd
        <4> QED
          BY <1>5, <2>1, <3>1, <4>1 DEF RegistryTyped, ConnectionsOK
      <3> QED
        BY <1>5, <1>6, <2>2, <3>1, <3>2
    <2> QED
      BY <1>7, <1>8, <1>10, <1>12, <2>3, <2>4 DEF RegistryOK
  <1> QED
    BY <1>10, <1>11, <1>12

\* Whatever RMC does, but for the exit when no element of the array is free.
LEMMA RmcKeeps ==
    ASSUME RegInv, exited = "no", build' = build,
           RmcIdle \/ RmcOpens \/ \E c \in DOMAIN connections : \/ RmcCloses(c)
                                                                \/ RmcModifies(c, {"in"})
                                                                \/ RmcModifies(c, {"in", "out"})
    PROVE  /\ RegInv' /\ Follows(connections, opened, connections', opened')
           /\ exited' = "no" \/ (exited' = "full" /\ Full')
  <1>1. CASE RmcIdle
    <2>1. UNCHANGED <<build, connections, opened, epoll_set, poll_elem_array, poll_hash, exited>>
      BY <1>1 DEF RmcIdle, registry
    <2>2. Fd' = Fd
      BY <2>1 DEF Fd
    <2>3. ConnectionsOK' /\ RegistryTyped' /\ RegistryOK'
      BY <2>1, <2>2 DEF RegInv, ConnectionsOK, RegistryTyped, RegistryOK
    <2>4. Follows(connections, opened, connections', opened')
      BY <2>1, BoundAssumption DEF Follows, RegInv, ConnectionsOK
    <2> QED
      BY <2>1, <2>3, <2>4 DEF RegInv
  <1> QED
    BY <1>1, OpensKeeps, ClosesKeeps, ModifiesKeeps

\* What is known of an event stays known, whatever is opened and closed meanwhile.
LEMMA EventStays ==
    ASSUME NEW e, NEW b, NEW conns, NEW n \in Nat, NEW conns2, NEW n2,
           EventOK(e, b, conns, n), Follows(conns, n, conns2, n2)
    PROVE  EventOK(e, b, conns2, n2)
  <1>1. CASE e.conn = Stdin \/ e.conn = Gone
    BY <1>1 DEF EventOK
  <1>2. CASE ~(e.conn = Stdin \/ e.conn = Gone)
    <2>1. /\ e.conn \in 1..n /\ n2 \in Nat /\ n2 >= n
          /\ \A c \in DOMAIN conns : DataOf(b, conns[c]) = e.data => c >= e.conn
          /\ e.conn \in DOMAIN conns => DataOf(b, conns[e.conn]) = e.data
      BY <1>2 DEF EventOK, Follows
    <2>2. \A c \in DOMAIN conns2 :
             (c \in Nat /\ c > n) \/ (c \in DOMAIN conns /\ DataOf(b, conns2[c]) = DataOf(b, conns[c]))
      BY DEF Follows, DataOf
    <2>3. e.conn \in 1..n2
      BY <2>1
    <2>4. ASSUME NEW c \in DOMAIN conns2, DataOf(b, conns2[c]) = e.data
          PROVE  c >= e.conn
      <3>1. CASE c \in Nat /\ c > n
        BY <2>1, <3>1
      <3>2. CASE ~(c \in Nat /\ c > n)
        BY <2>1, <2>2, <2>4, <3>2
      <3> QED
        BY <3>1, <3>2
    <2>5. e.conn \in DOMAIN conns2 => DataOf(b, conns2[e.conn]) = e.data
      BY <2>1, <2>2
    <2> QED
      BY <1>2, <2>3, <2>4, <2>5 DEF EventOK
  <1> QED
    BY <1>1, <1>2

---------------------------------------------------------------------------
(* Stacks.                                                                 *)

LEMMA FrameStays ==
    ASSUME NEW f, NEW t, NEW b, NEW conns, NEW n \in Nat, NEW conns2, NEW n2,
           FrameHolds(f, t, b, conns, n), Follows(conns, n, conns2, n2)
    PROVE  FrameHolds(f, t, b, conns2, n2)
  BY EventStays DEF FrameHolds

LEMMA OpenedIsNatural == ConnectionsOK => opened \in Nat
  BY BoundAssumption DEF ConnectionsOK

LEMMA Replaced ==
    ASSUME StacksHold, ConnectionsOK, NEW t \in Threads, NEW s \in Seq(FrameSet),
           stack' = [stack EXCEPT ![t] = s], Len(s) <= MaxFrames[t], build' = build,
           Follows(connections, opened, connections', opened'),
           \A i \in DOMAIN s : FrameHolds(s[i], t, build', connections', opened')
    PROVE  StacksHold'
  <1>1. stack' \in [Threads -> Seq(FrameSet)] /\ stack'[t] = s
    BY DEF StacksHold
  <1>2. ASSUME NEW u \in Threads, u # t
        PROVE  /\ Len(stack'[u]) <= MaxFrames[u]
               /\ \A i \in DOMAIN stack'[u] :
                     FrameHolds(stack'[u][i], u, build', connections', opened')
    <2>1. stack'[u] = stack[u]
      BY <1>2 DEF StacksHold
    <2>2. \A i \in DOMAIN stack[u] : FrameHolds(stack[u][i], u, build, connections, opened)
      BY DEF StacksHold
    <2>3. \A i \in DOMAIN stack[u] : FrameHolds(stack[u][i], u, build, connections', opened')
      BY <2>2, FrameStays, OpenedIsNatural
    <2> QED
      BY <2>1, <2>3 DEF StacksHold
  <1> QED
    BY <1>1, <1>2 DEF StacksHold

LEMMA SameFrames ==
    ASSUME StacksHold, ConnectionsOK, UNCHANGED <<stack, build>>,
           Follows(connections, opened, connections', opened')
    PROVE  StacksHold'
  <1>1. ASSUME NEW u \in Threads
        PROVE  \A i \in DOMAIN stack[u] : FrameHolds(stack[u][i], u, build, connections', opened')
    <2>1. \A i \in DOMAIN stack[u] : FrameHolds(stack[u][i], u, build, connections, opened)
      BY DEF StacksHold
    <2> QED
      BY <2>1, FrameStays, OpenedIsNatural
  <1> QED
    BY <1>1 DEF StacksHold

\* A frame of a thread, in either state.
Fits(f, t) == FrameHolds(f, t, build, connections, opened)

LEMMA TopHolds ==
    ASSUME StacksHold, NEW t \in Threads, stack[t] # <<>>
    PROVE  /\ Fits(Top(t), t) /\ Top(t) \in FrameSet
           /\ stack[t] \in Seq(FrameSet) /\ Len(stack[t]) \in DOMAIN stack[t]
           /\ Len(stack[t]) \in Nat /\ DOMAIN stack[t] = 1..Len(stack[t])
  <1>1. stack[t] \in Seq(FrameSet)
    BY DEF StacksHold
  <1>2. /\ Len(stack[t]) \in DOMAIN stack[t] /\ Len(stack[t]) \in Nat
        /\ DOMAIN stack[t] = 1..Len(stack[t])
    BY <1>1
  <1>3. Fits(Top(t), t)
    BY <1>2 DEF StacksHold, Fits, Top
  <1> QED
    BY <1>1, <1>2, <1>3 DEF Fits, FrameHolds

LEMMA OthersHold ==
    ASSUME StacksHold, ConnectionsOK, NEW t \in Threads, build' = build,
           Follows(connections, opened, connections', opened')
    PROVE  \A i \in DOMAIN stack[t] : FrameHolds(stack[t][i], t, build', connections', opened')
  <1>1. \A i \in DOMAIN stack[t] : FrameHolds(stack[t][i], t, build, connections, opened)
    BY DEF StacksHold
  <1> QED
    BY <1>1, FrameStays, OpenedIsNatural

LEMMA PushHolds ==
    ASSUME StacksHold, ConnectionsOK, NEW t \in Threads, NEW f,
           stack' = [stack EXCEPT ![t] = Append(@, f)], Len(stack[t]) < MaxFrames[t],
           build' = build, Follows(connections, opened, connections', opened'),
           FrameHolds(f, t, build', connections', opened')
    PROVE  StacksHold'
  <1> DEFINE s == Append(stack[t], f)
  <1>1. stack[t] \in Seq(FrameSet) /\ f \in FrameSet
    BY DEF StacksHold, FrameHolds
  <1>2. /\ s \in Seq(FrameSet) /\ Len(s) = Len(stack[t]) + 1
        /\ DOMAIN s = DOMAIN stack[t] \cup {Len(stack[t]) + 1}
        /\ \A i \in DOMAIN stack[t] : s[i] = stack[t][i]
        /\ s[Len(stack[t]) + 1] = f
    BY <1>1, Appended
  <1>3. stack' = [stack EXCEPT ![t] = s]
    OBVIOUS
  <1> HIDE DEF s
  <1>4. \A i \in DOMAIN s : FrameHolds(s[i], t, build', connections', opened')
    BY <1>2, OthersHold
  <1>5. Len(s) <= MaxFrames[t]
    BY <1>1, <1>2, BoundAssumption
  <1> QED
    BY <1>2, <1>3, <1>4, <1>5, Replaced

LEMMA SetTopHolds ==
    ASSUME StacksHold, ConnectionsOK, NEW t \in Threads, NEW f, stack[t] # <<>>,
           SetTop(t, f), build' = build, Follows(connections, opened, connections', opened'),
           FrameHolds(f, t, build', connections', opened')
    PROVE  StacksHold'
  <1> DEFINE n == Len(stack[t])
             s == [stack[t] EXCEPT ![n] = f]
  <1>1. stack[t] \in Seq(FrameSet) /\ f \in FrameSet /\ n \in DOMAIN stack[t]
    BY TopHolds DEF FrameHolds
  <1>2. /\ s \in Seq(FrameSet) /\ Len(s) = n /\ DOMAIN s = DOMAIN stack[t]
        /\ \A i \in DOMAIN stack[t] : i # n => s[i] = stack[t][i]
        /\ s[n] = f
    BY <1>1
  <1>3. stack' = [stack EXCEPT ![t] = s]
    BY DEF SetTop
  <1> HIDE DEF s
  <1>4. \A i \in DOMAIN s : FrameHolds(s[i], t, build', connections', opened')
    BY <1>2, OthersHold
  <1>5. Len(s) <= MaxFrames[t]
    BY <1>2 DEF StacksHold
  <1> QED
    BY <1>2, <1>3, <1>4, <1>5, Replaced

LEMMA PopHolds ==
    ASSUME StacksHold, ConnectionsOK, NEW t \in Threads, stack[t] # <<>>, Pop(t),
           build' = build, Follows(connections, opened, connections', opened')
    PROVE  StacksHold'
  <1> DEFINE n == Len(stack[t])
             s == SubSeq(stack[t], 1, n - 1)
  <1>1. /\ stack[t] \in Seq(FrameSet) /\ n \in DOMAIN stack[t]
        /\ n \in Nat /\ DOMAIN stack[t] = 1..n
    BY TopHolds
  <1>2. /\ s \in Seq(FrameSet) /\ Len(s) = n - 1 /\ DOMAIN s = 1..n - 1
        /\ \A i \in 1..n - 1 : s[i] = stack[t][i] /\ i \in DOMAIN stack[t]
    BY <1>1
  <1>3. stack' = [stack EXCEPT ![t] = s]
    BY DEF Pop
  <1> HIDE DEF s
  <1>4. \A i \in DOMAIN s : FrameHolds(s[i], t, build', connections', opened')
    BY <1>2, OthersHold
  <1>5. Len(s) <= MaxFrames[t]
    BY <1>1, <1>2, BoundAssumption DEF StacksHold
  <1> QED
    BY <1>2, <1>3, <1>4, <1>5, Replaced

---------------------------------------------------------------------------
(* Vectors and batches.                                                    *)

LEMMA PollVectorFits ==
    ASSUME RegistryTyped
    PROVE  /\ PollVector \in Seq(Descriptors) /\ Len(PollVector) <= DSTC_MAX_CONNECTIONS
           /\ build = "epoll" => Len(PollVector) = 0
  <1> DEFINE order == poll_hash.order
             n == Len(order)
             elem == [i \in 1..n |-> order[i].elem]
  <1>1. /\ order \in Seq(Handles(Slots)) /\ n \in Nat /\ DOMAIN order = 1..n
        /\ \A i, j \in 1..n : order[i].elem = order[j].elem => i = j
    BY DEF RegistryTyped, TableOK, ListOK
  <1>2. \A i \in 1..n : order[i].elem \in Slots
    <2>1. \A i \in 1..n : order[i] \in Handles(Slots)
      BY <1>1
    <2> HIDE DEF order
    <2> QED
      BY <2>1 DEF Handles
  <1>3. \A i \in 1..n : Fd[order[i].elem] \in Descriptors
    <2>1. \A i \in 1..n : order[i].elem \in HeldBy(poll_hash)
      BY <1>1 DEF HeldBy, ToSet
    <2> QED
      BY <1>2, <2>1 DEF RegistryTyped, ElemSet, Fd
  <1>4. PollVector = [i \in 1..n |-> Fd[order[i].elem]]
    BY <1>1 DEF PollVector
  <1>5. PollVector \in Seq(Descriptors) /\ Len(PollVector) = n
    BY <1>1, <1>3, <1>4
  <1>6. elem \in Injection(1..n, Slots)
    BY <1>1, <1>2 DEF Injection, IsInjective
  <1>7. /\ IsFiniteSet(Slots) /\ Cardinality(Slots) = DSTC_MAX_CONNECTIONS
        /\ Cardinality(1..n) = n
    BY <1>1, ArrayAssumption, FS_Interval DEF Slots
  <1>8. n <= DSTC_MAX_CONNECTIONS
    BY <1>6, <1>7, FS_Injection
  <1>9. build = "epoll" => n = 0
    BY DEF RegistryTyped
  <1> QED
    BY <1>5, <1>8, <1>9

LEMMA ConnectionsFinite ==
    ASSUME ConnectionsOK
    PROVE  IsFiniteSet(DOMAIN connections) /\ Cardinality(DOMAIN connections) \in Nat
  <1>1. IsFiniteSet(1..opened)
    BY OpenedIsNatural, FS_Interval
  <1>2. IsFiniteSet(DOMAIN connections)
    BY <1>1, FS_Subset DEF ConnectionsOK
  <1> QED
    BY <1>2, FS_CardinalityType

\* Events that come up now are of open connections.
LEMMA NewEventFits ==
    ASSUME ConnectionsOK, NEW c \in DOMAIN connections, build \in {"epoll", "poll"}
    PROVE  EventOK(Event(DataOf(build, connections[c]), c), build, connections, opened)
  <1> DEFINE e == Event(DataOf(build, connections[c]), c)
             data == DataOf(build, connections[c])
  <1>1. /\ connections[c] \in ConnectionSet /\ c \in 1..opened /\ opened \in 0..MaxOpened
        /\ connections[c].fd \in Descriptors
    BY ConnectionIsTold DEF ConnectionsOK
  <1>2. /\ connections[c].fd \in Nat \ {0} /\ connections[c].index \in Indexes
        /\ connections[c].pub \in BOOLEAN
    BY <1>1, DescriptorAssumption DEF ConnectionSet
  <1>3. data \in Nat \ {0}
    BY <1>2, UserDataRoundTrips DEF DataOf, UserData
  <1>4. \A d \in DOMAIN connections : DataOf(build, connections[d]) = data => d = c
    <2>1. CASE build = "poll"
      BY <2>1 DEF DataOf, ConnectionsOK
    <2>2. CASE build = "epoll"
      <3>1. ASSUME NEW d \in DOMAIN connections, UserData(connections[d]) = UserData(connections[c])
            PROVE  d = c
        <4>1. connections[d].index \in Indexes /\ connections[d].pub \in BOOLEAN
          BY ConnectionIsTold DEF ConnectionSet
        <4>2. /\ connections[d].index = connections[c].index
              /\ connections[d].pub = connections[c].pub
          BY <1>2, <3>1, <4>1, UserDataRoundTrips DEF UserData
        <4> QED
          BY <4>2 DEF ConnectionsOK
      <3> QED
        BY <2>2, <3>1 DEF DataOf
    <2> QED
      BY <2>1, <2>2
  <1>5. e.data = data /\ e.conn = c
    BY DEF Event
  <1>6. e \in EventSet /\ c # 0 /\ c # Gone /\ c \in Nat
    BY <1>1, <1>3, BoundAssumption DEF EventSet, Event, Gone
  <1>7. IF build = "epoll"
        THEN \E i \in Indexes, pub \in BOOLEAN : data = TO_POLL_EVENT_USER_DATA(i, pub)
        ELSE data \in Descriptors
    BY <1>1, <1>2 DEF DataOf, UserData
  <1> HIDE DEF e, data
  <1>8. \A d \in DOMAIN connections : DataOf(build, connections[d]) = e.data => d >= c
    BY <1>4, <1>5, <1>6
  <1>9. DataOf(build, connections[c]) = e.data
    BY <1>5 DEF data
  <1> QED
    BY <1>1, <1>3, <1>5, <1>6, <1>7, <1>8, <1>9 DEF EventOK, Stdin, e

LEMMA StdinFits ==
    ASSUME NEW b, NEW conns, NEW n
    PROVE  EventOK(StdinEvent, b, conns, n) /\ StdinEvent.conn = Stdin
  BY BoundAssumption DEF EventOK, StdinEvent, Event, EventSet, Stdin, Gone

\* What a batch must be to be handled in a loop of f.
BatchFits(batch, f) ==
    /\ batch \in Seq(EventSet)
    /\ Len(batch) <= f.max + IF f.loop = "user" THEN 1 ELSE 0
    /\ \A i \in DOMAIN batch :
          /\ EventOK(batch[i], build, connections, opened)
          /\ batch[i].conn = Stdin => f.loop = "user"

LEMMA EpollBatchFits ==
    ASSUME RegInv, exited = "no", build = "epoll", NEW f \in FrameSet,
           NEW batch \in EpollBatches(f)
    PROVE  BatchFits(batch, f)
  <1> USE DEF RegInv
  <1> DEFINE now(c) == Event(UserData(connections[c]), c)
             watched == UNION {{Event(epoll_set[fd].user_data, c) : c \in Owners(fd)} :
                                  fd \in DOMAIN epoll_set}
             possible == watched \cup IF f.loop = "user" THEN {StdinEvent} ELSE {}
             room == f.max + (IF f.loop = "user" THEN 1 ELSE 0)
  <1>1. \A e \in watched : \E c \in DOMAIN connections : e = now(c)
    <2>1. ASSUME NEW fd \in DOMAIN epoll_set, NEW c \in Owners(fd)
          PROVE  c \in DOMAIN connections /\ epoll_set[fd].user_data = UserData(connections[c])
      <3>1. c \in DOMAIN connections /\ connections[c].fd = fd
        BY <2>1 DEF Owners
      <3>2. epoll_set[fd] = Asked(connections[c])
        BY <3>1 DEF RegistryOK
      <3> QED
        BY <3>1, <3>2 DEF Asked
    <2> QED
      BY <2>1
  <1>2. IsFiniteSet(possible)
    <2> DEFINE all == [c \in DOMAIN connections |-> now(c)]
               events == {now(c) : c \in DOMAIN connections}
    <2>1. all \in Surjection(DOMAIN connections, events)
      BY DEF Surjection
    <2>2. IsFiniteSet(events)
      BY <2>1, ConnectionsFinite, FS_Surjection
    <2>3. IsFiniteSet(events \cup {StdinEvent})
      BY <2>2, FS_AddElement
    <2>4. possible \subseteq events \cup {StdinEvent}
      BY <1>1
    <2> QED
      BY <2>3, <2>4, FS_Subset
  <1>3. \A e \in possible : /\ EventOK(e, build, connections, opened)
                            /\ e.conn = Stdin => f.loop = "user"
    <2>1. ASSUME NEW c \in DOMAIN connections
          PROVE  EventOK(now(c), build, connections, opened) /\ now(c).conn # Stdin
      <3>1. c # 0
        BY ConnectionIsTold
      <3> QED
        BY <3>1, NewEventFits DEF DataOf, Event, Stdin
    <2> HIDE DEF watched, now
    <2> QED
      BY <1>1, <2>1, StdinFits
  <1>4. PICK R \in SUBSET possible : Cardinality(R) <= room /\ batch \in SetToSeqs(R)
    <2>1. EpollBatches(f) = UNION {SetToSeqs(S) : S \in
                       {R \in SUBSET possible : Cardinality(R) <= room /\ Cardinality(R) <= MaxBatch}}
      BY DEF EpollBatches
    <2> HIDE DEF possible, room
    <2> QED
      BY <2>1
  <1>5. IsFiniteSet(R) /\ Cardinality(R) \in Nat
    BY <1>2, FS_Subset, FS_CardinalityType
  <1>6. batch \in [1..Cardinality(R) -> R]
    BY <1>4 DEF SetToSeqs
  <1> HIDE DEF possible, watched, now
  <1>7. \A e \in R : e \in EventSet
    BY <1>3 DEF EventOK
  <1>8. /\ batch \in Seq(EventSet) /\ Len(batch) = Cardinality(R)
        /\ DOMAIN batch = 1..Cardinality(R)
    BY <1>5, <1>6, <1>7
  <1>9. \A i \in DOMAIN batch : batch[i] \in R
    BY <1>6, <1>8
  <1> QED
    BY <1>3, <1>4, <1>8, <1>9 DEF BatchFits

LEMMA ReportFits ==
    ASSUME ConnectionsOK, build = "poll", NEW fd \in Descriptors
    PROVE  /\ EventOK(PollReport(fd), build, connections, opened)
           /\ PollReport(fd).conn # Stdin
  <1>1. fd \in Nat \ {0} /\ Gone # Stdin
    BY DescriptorAssumption DEF Gone, Stdin
  <1>2. CASE Owners(fd) = {}
    <2>1. PollReport(fd).data = fd /\ PollReport(fd).conn = Gone /\ PollReport(fd) \in EventSet
      BY <1>1, <1>2 DEF PollReport, Event, EventSet
    <2> QED
      BY <1>1, <2>1 DEF EventOK
  <1>3. CASE Owners(fd) # {}
    <2> DEFINE c == CHOOSE d \in Owners(fd) : TRUE
    <2>1. c \in DOMAIN connections /\ connections[c].fd = fd
      BY <1>3 DEF Owners
    <2>2. PollReport(fd) = Event(DataOf(build, connections[c]), c)
      BY <1>3, <2>1 DEF PollReport, DataOf
    <2> HIDE DEF c
    <2>3. PollReport(fd).conn = c /\ c # 0
      BY <2>1, <2>2, ConnectionIsTold DEF Event
    <2> QED
      BY <2>1, <2>2, <2>3, NewEventFits DEF Stdin
  <1> QED
    BY <1>2, <1>3

LEMMA PollBatchFits ==
    ASSUME RegInv, exited = "no", build = "poll", NEW t, NEW f, Fits(f, t),
           NEW batch \in PollBatches(f)
    PROVE  BatchFits(batch, f)
  <1> USE DEF RegInv
  <1> DEFINE n == Len(f.vector)
             Reports(b) == /\ b \in Seq(EventSet) /\ Len(b) <= n
                           /\ \A i \in DOMAIN b :
                                 /\ EventOK(b[i], build, connections, opened)
                                 /\ b[i].conn # Stdin
             report(p) == [i \in DOMAIN p |-> PollReport(f.vector[p[i]])]
  <1>1. /\ f \in FrameSet /\ f.vector \in Seq(Descriptors) /\ n \in Nat
        /\ f.max \in Nat /\ n <= f.max
    <2>1. f \in FrameSet /\ n <= f.max
      BY DEF Fits, FrameHolds
    <2>2. f.vector \in Seq(Descriptors) /\ f.max \in Nat
      BY <2>1 DEF FrameSet
    <2> QED
      BY <2>1, <2>2
  <1>2. ASSUME NEW m \in 0..n, NEW p \in [1..m -> 1..n]
        PROVE  Reports(report(p))
    <2>1. \A i \in 1..m : f.vector[p[i]] \in Descriptors
      BY <1>1
    <2>2. \A i \in 1..m : /\ report(p)[i] \in EventSet
                          /\ EventOK(report(p)[i], build, connections, opened)
                          /\ report(p)[i].conn # Stdin
      BY <2>1, ReportFits DEF EventOK
    <2>3. DOMAIN report(p) = 1..m
      OBVIOUS
    <2>4. report(p) \in Seq(EventSet) /\ Len(report(p)) = m
      <3> DEFINE b == report(p)
      <3>1. b = [i \in 1..m |-> b[i]] /\ m \in Nat /\ \A i \in 1..m : b[i] \in EventSet
        BY <1>1, <2>2
      <3> HIDE DEF b
      <3>2. b \in [1..m -> EventSet]
        BY <3>1
      <3> QED
        BY <3>1, <3>2 DEF b
    <2> HIDE DEF report
    <2> QED
      BY <1>1, <2>2, <2>3, <2>4
  <1>3. \E m \in 0..n : \E p \in [1..m -> 1..n] :
           IF f.loop = "library" THEN batch = report(p)
           ELSE batch = Reverse(report(p)) \/ batch = <<StdinEvent>> \o Reverse(report(p))
    <2> DEFINE picks == {p \in UNION {{q \in [1..m -> 1..n] :
                                       \A i, j \in 1..m : i < j => q[i] < q[j]} : m \in 0..n} :
                            {i \in 1..n : Owners(f.vector[i]) = {}} \subseteq ToSet(p)}
               batches == {report(p) : p \in picks}
    <2>1. PollBatches(f) = IF f.loop = "library" THEN batches
                           ELSE UNION {{Reverse(b), <<StdinEvent>> \o Reverse(b)} : b \in batches}
      BY DEF PollBatches
    <2>2. \A p \in picks : \E m \in 0..n : p \in [1..m -> 1..n]
      OBVIOUS
    <2> HIDE DEF picks, report
    <2>3. PICK p \in picks :
             IF f.loop = "library" THEN batch = report(p)
             ELSE batch = Reverse(report(p)) \/ batch = <<StdinEvent>> \o Reverse(report(p))
      BY <2>1
    <2> QED
      BY <2>2, <2>3
  <1> HIDE DEF report
  <1>4. PICK b : /\ Reports(b)
                 /\ IF f.loop = "library" THEN batch = b
                    ELSE batch = Reverse(b) \/ batch = <<StdinEvent>> \o Reverse(b)
    BY <1>2, <1>3
  <1>5. CASE f.loop = "library"
    BY <1>1, <1>4, <1>5 DEF BatchFits
  <1>6. CASE f.loop = "user"
    <2>1. b \in Seq(EventSet) /\ Len(b) \in Nat /\ DOMAIN b = 1..Len(b)
      BY <1>4
    <2>2. /\ Reverse(b) \in Seq(EventSet) /\ Len(Reverse(b)) = Len(b)
          /\ DOMAIN Reverse(b) = 1..Len(b)
          /\ \A i \in 1..Len(b) : \E j \in DOMAIN b : Reverse(b)[i] = b[j]
      <3>1. \A i \in 1..Len(b) : Len(b) - i + 1 \in 1..Len(b)
        BY <2>1
      <3>2. \A i \in 1..Len(b) : Reverse(b)[i] = b[Len(b) - i + 1] /\ b[Len(b) - i + 1] \in EventSet
        BY <2>1, <3>1 DEF Reverse
      <3>3. Reverse(b) = [i \in 1..Len(b) |-> b[Len(b) - i + 1]]
        BY DEF Reverse
      <3>4. /\ Reverse(b) \in Seq(EventSet) /\ Len(Reverse(b)) = Len(b)
            /\ DOMAIN Reverse(b) = 1..Len(b)
        BY <2>1, <3>2, <3>3
      <3> QED
        BY <2>1, <3>1, <3>2, <3>4
    <2> DEFINE r == Reverse(b)
    <2>3. \A i \in DOMAIN r : EventOK(r[i], build, connections, opened)
      BY <1>4, <2>2
    <2> HIDE DEF r
    <2>4. CASE batch = r
      BY <1>1, <1>4, <1>6, <2>2, <2>3, <2>4 DEF BatchFits, r
    <2>5. CASE batch = <<StdinEvent>> \o r
      <3>1. StdinEvent \in EventSet
        BY StdinFits DEF EventOK
      <3>2. r \in Seq(EventSet) /\ Len(r) = Len(b)
        BY <2>2 DEF r
      <3>3. /\ batch \in Seq(EventSet) /\ Len(batch) = Len(b) + 1
            /\ DOMAIN batch = 1..Len(b) + 1
            /\ batch[1] = StdinEvent
            /\ \A i \in 2..Len(b) + 1 : batch[i] = r[i - 1] /\ i - 1 \in DOMAIN r
        BY <2>1, <2>5, <3>1, <3>2
      <3>4. \A i \in DOMAIN batch : i = 1 \/ i \in 2..Len(b) + 1
        BY <2>1, <3>3
      <3>5. \A i \in DOMAIN batch : EventOK(batch[i], build, connections, opened)
        BY <2>3, <3>3, <3>4, StdinFits
      <3>6. Len(batch) <= f.max + 1
        BY <1>1, <1>4, <2>1, <3>3
      <3> QED
        BY <1>6, <3>3, <3>5, <3>6 DEF BatchFits
    <2>6. batch = r \/ batch = <<StdinEvent>> \o r
      BY <1>4, <1>6 DEF r
    <2> QED
      BY <2>4, <2>5, <2>6
  <1> QED
    BY <1>1, <1>5, <1>6 DEF FrameSet

---------------------------------------------------------------------------
(* The operations, as they keep the registry and the events.               *)

PCs == {"counted", "waiting", "locking", "events", "reading", "running", "writing"}

LEMMA Stays ==
    ASSUME RInv, exited = "no", build' = build,
           UNCHANGED <<connections, opened, registry, exited>>
    PROVE  /\ RegInv' /\ Follows(connections, opened, connections', opened') /\ exited' = "no"
           /\ ConnectionsOK /\ StacksHold
  <1>1. RmcIdle /\ RegInv
    BY DEF RmcIdle, RInv
  <1>2. RegInv' /\ Follows(connections, opened, connections', opened')
    BY <1>1, RmcKeeps
  <1> QED
    BY <1>2 DEF RInv, RegInv

LEMMA Concludes ==
    ASSUME RegInv', StacksHold', owner' \in Threads \cup {Nobody},
           exited' = "no" \/ (exited' = "full" /\ Full')
    PROVE  RInv'
  BY DEF RInv, ExitOK, Full

\* A frame that is at another point, with the same batch.
LEMMA MovedFrame ==
    ASSUME NEW t, NEW f, Fits(f, t), NEW pc \in PCs \ {"counted"}, NEW user_data \in Nat,
           pc \in {"locking", "events"} => f.batch # <<>>
    PROVE  Fits([f EXCEPT !.pc = pc, !.user_data = user_data], t)
  <1> DEFINE g == [f EXCEPT !.pc = pc, !.user_data = user_data]
  <1>1. f \in FrameSet
    BY DEF Fits, FrameHolds
  <1>2. /\ g \in FrameSet /\ g.loop = f.loop /\ g.max = f.max /\ g.vector = f.vector
        /\ g.batch = f.batch /\ g.pc = pc
    BY <1>1 DEF FrameSet, PCs
  <1> HIDE DEF g
  <1>3. g.pc # "counted"
    BY <1>2
  <1>4. Fits(g, t)
    BY <1>2, <1>3 DEF Fits, FrameHolds
  <1> QED
    BY <1>4 DEF g

LEMMA FitsStill ==
    ASSUME ConnectionsOK, NEW t, NEW f, Fits(f, t), build' = build,
           Follows(connections, opened, connections', opened')
    PROVE  FrameHolds(f, t, build', connections', opened')
  BY FrameStays, OpenedIsNatural DEF Fits

LEMMA NewFrameFits ==
    ASSUME NEW t, NEW loop \in {"library", "user"}, NEW pc \in PCs, NEW max \in Nat,
           NEW vector \in Seq(Descriptors), Len(vector) <= max,
           pc = "counted" => t \in UserThreads /\ loop = "user", pc \notin {"locking", "events"}
    PROVE  Fits(NewFrame(loop, pc, max, vector), t)
  <1> DEFINE f == NewFrame(loop, pc, max, vector)
  <1>1. /\ f.loop = loop /\ f.pc = pc /\ f.max = max /\ f.vector = vector /\ f.batch = <<>>
        /\ f \in FrameSet
    BY DEF NewFrame, FrameSet, PCs
  <1> HIDE DEF f
  <1>2. Len(f.batch) = 0 /\ DOMAIN f.batch = {}
    BY <1>1
  <1>3. Fits(f, t)
    BY <1>1, <1>2 DEF Fits, FrameHolds
  <1> QED
    BY <1>3 DEF f

---------------------------------------------------------------------------
LEMMA BeginsHold ==
    ASSUME RInv, NEW t \in Threads,
           _dstc_process_single_event(t) \/ dstc_get_socket_count(t)
    PROVE  RInv'
  <1>1. CASE _dstc_process_single_event(t)
    <2> DEFINE f == NewFrame("library", "waiting", DSTC_MAX_CONNECTIONS, PollVector)
    <2>1. /\ exited = "no" /\ build' = build /\ owner' = owner
          /\ UNCHANGED <<connections, opened, registry, exited>>
          /\ Len(stack[t]) < MaxFrames[t] /\ stack' = [stack EXCEPT ![t] = Append(@, f)]
      BY <1>1 DEF _dstc_process_single_event, MayProcess, Idle, At
    <2>2. /\ RegInv' /\ Follows(connections, opened, connections', opened') /\ exited' = "no"
          /\ ConnectionsOK /\ StacksHold
      BY <2>1, Stays
    <2>3. PollVector \in Seq(Descriptors) /\ Len(PollVector) <= DSTC_MAX_CONNECTIONS
      BY PollVectorFits DEF RInv, RegInv
    <2>4. Fits(f, t)
      BY <2>3, NewFrameFits, ArrayAssumption DEF PCs
    <2> HIDE DEF f
    <2>5. FrameHolds(f, t, build', connections', opened')
      BY <2>1, <2>2, <2>4, FitsStill
    <2>6. StacksHold'
      BY <2>1, <2>2, <2>5, PushHolds
    <2> QED
      BY <2>1, <2>2, <2>6, Concludes DEF RInv
  <1>2. CASE dstc_get_socket_count(t)
    <2> DEFINE f == NewFrame("user", "counted", Cardinality(DOMAIN connections), <<>>)
    <2>1. /\ exited = "no" /\ build' = build /\ owner' = owner
          /\ UNCHANGED <<connections, opened, registry, exited>>
          /\ stack[t] = <<>> /\ stack' = [stack EXCEPT ![t] = Append(@, f)] /\ t \in UserThreads
      BY <1>2 DEF dstc_get_socket_count, Idle
    <2>2. /\ RegInv' /\ Follows(connections, opened, connections', opened') /\ exited' = "no"
          /\ ConnectionsOK /\ StacksHold
      BY <2>1, Stays
    <2>3. <<>> \in Seq(Descriptors) /\ Len(<<>>) = 0 /\ Cardinality(DOMAIN connections) \in Nat
      BY <2>2, ConnectionsFinite
    <2>4. Fits(f, t)
      <3> DEFINE max == Cardinality(DOMAIN connections)
      <3>1. /\ max \in Nat /\ Len(<<>>) <= max
            /\ "counted" \in PCs /\ "counted" \notin {"locking", "events"}
        BY <2>3 DEF PCs
      <3> HIDE DEF max
      <3>2. Fits(NewFrame("user", "counted", max, <<>>), t)
        BY <2>1, <2>3, <3>1, NewFrameFits
      <3> QED
        BY <3>2 DEF max
    <2> HIDE DEF f
    <2>5. FrameHolds(f, t, build', connections', opened')
      BY <2>1, <2>2, <2>4, FitsStill
    <2>6. Len(stack[t]) < MaxFrames[t]
      BY <2>1, BoundAssumption
    <2>7. StacksHold'
      BY <2>1, <2>2, <2>5, <2>6, PushHolds
    <2> QED
      BY <2>1, <2>2, <2>7, Concludes DEF RInv
  <1> QED
    BY <1>1, <1>2

LEMMA TimeoutsHold ==
    ASSUME RInv, NEW t \in Threads,
           dstc_process_timeout(t) \/ WaitTimesOut(t) \/ ClientCall(t)
    PROVE  RInv'
  <1>1. /\ exited = "no" /\ build' = build /\ owner' = owner
        /\ \/ RmcIdle \/ RmcOpens
           \/ \E c \in DOMAIN connections : \/ RmcCloses(c)
                                            \/ RmcModifies(c, {"in"})
                                            \/ RmcModifies(c, {"in", "out"})
    BY DEF dstc_process_timeout, WaitTimesOut, ClientCall, RmcTimeouts, At, Idle
  <1>2. RegInv /\ ConnectionsOK /\ StacksHold
    BY DEF RInv, RegInv
  <1>3. /\ RegInv' /\ Follows(connections, opened, connections', opened')
        /\ exited' = "no" \/ (exited' = "full" /\ Full')
    BY <1>1, <1>2, RmcKeeps
  <1>4. StacksHold'
    <2>1. CASE UNCHANGED stack
      BY <1>1, <1>2, <1>3, <2>1, SameFrames
    <2>2. CASE stack[t] # <<>> /\ Pop(t)
      BY <1>1, <1>2, <1>3, <2>2, PopHolds
    <2> QED
      BY <2>1, <2>2 DEF dstc_process_timeout, WaitTimesOut, ClientCall, At
  <1> QED
    BY <1>1, <1>3, <1>4, Concludes DEF RInv

LEMMA RetrievesHold ==
    ASSUME RInv, NEW t \in Threads, dstc_retrieve_pollfd_vector(t)
    PROVE  RInv'
  <1> DEFINE f == [Top(t) EXCEPT !.pc = "waiting", !.vector = PollVector]
  <1>1. /\ exited = "no" /\ stack[t] # <<>> /\ Top(t).pc = "counted" /\ build' = build
        /\ owner' = owner /\ UNCHANGED <<connections, opened, registry>>
    BY DEF dstc_retrieve_pollfd_vector, At
  <1>2. Fits(Top(t), t) /\ Top(t) \in FrameSet
    BY <1>1, TopHolds DEF RInv
  <1>3. /\ PollVector \in Seq(Descriptors) /\ Len(PollVector) \in Nat
        /\ build = "epoll" => Len(PollVector) = 0
    BY PollVectorFits DEF RInv, RegInv
  <1>4. t \in UserThreads /\ Top(t).max \in Nat
    BY <1>1, <1>2 DEF Fits, FrameHolds, FrameSet
  <1>5. CASE build = "poll" /\ Len(PollVector) > Top(t).max
    <2>1. exited' = "nomem" /\ UNCHANGED stack
      BY <1>5 DEF dstc_retrieve_pollfd_vector
    <2>2. Fd' = Fd /\ PollVector' = PollVector /\ Top(t)' = Top(t)
      BY <1>1, <2>1 DEF Fd, PollVector, Top, registry
    <2>3. RegInv'
      BY <1>1, <2>1, <2>2
         DEF RInv, RegInv, ConnectionsOK, RegistryTyped, RegistryOK, registry
    <2>4. ExitOK'
      BY <1>1, <1>4, <1>5, <2>1, <2>2 DEF ExitOK
    <2>5. StacksHold'
      <3>1. Follows(connections, opened, connections', opened')
        BY <1>1, BoundAssumption DEF Follows, RInv, RegInv, ConnectionsOK
      <3> QED
        BY <1>1, <2>1, <3>1, SameFrames DEF RInv, RegInv
    <2> QED
      BY <1>1, <2>3, <2>4, <2>5 DEF RInv
  <1>6. CASE ~(build = "poll" /\ Len(PollVector) > Top(t).max)
    <2>1. SetTop(t, f) /\ exited' = "no"
      BY <1>1, <1>6 DEF dstc_retrieve_pollfd_vector
    <2>2. /\ RegInv' /\ Follows(connections, opened, connections', opened') /\ exited' = "no"
          /\ ConnectionsOK /\ StacksHold
      BY <1>1, <2>1, Stays
    <2>3. Len(PollVector) <= Top(t).max
      BY <1>3, <1>4, <1>6 DEF RInv, RegInv
    <2>4. Fits(f, t)
      <3>1. /\ f \in FrameSet /\ f.loop = Top(t).loop /\ f.max = Top(t).max /\ f.pc = "waiting"
            /\ f.vector = PollVector /\ f.batch = Top(t).batch
        BY <1>2, <1>3 DEF FrameSet
      <3> HIDE DEF f
      <3> QED
        BY <1>2, <2>3, <3>1 DEF Fits, FrameHolds
    <2> HIDE DEF f
    <2>5. FrameHolds(f, t, build', connections', opened')
      BY <1>1, <2>2, <2>4, FitsStill
    <2>6. StacksHold'
      BY <1>1, <2>1, <2>2, <2>5, SetTopHolds
    <2> QED
      BY <1>1, <2>2, <2>6, Concludes DEF RInv
  <1> QED
    BY <1>5, <1>6

LEMMA WaitReturnsHolds ==
    ASSUME RInv, NEW t \in Threads, WaitReturns(t)
    PROVE  RInv'
  <1>1. /\ exited = "no" /\ stack[t] # <<>> /\ build' = build
        /\ owner' = owner /\ UNCHANGED <<connections, opened, registry, exited>>
    BY DEF WaitReturns, At
  <1>2. Fits(Top(t), t) /\ Top(t) \in FrameSet
    BY <1>1, TopHolds DEF RInv
  <1>3. /\ RegInv' /\ Follows(connections, opened, connections', opened') /\ exited' = "no"
        /\ ConnectionsOK /\ StacksHold
    BY <1>1, Stays
  <1>4. PICK batch \in (IF build = "epoll" THEN EpollBatches(Top(t)) ELSE PollBatches(Top(t)))
                         \ {<<>>} :
           SetTop(t, [Top(t) EXCEPT !.batch = batch, !.vector = <<>>,
                         !.pc = IF Top(t).loop = "user" THEN "events" ELSE "locking"])
    BY DEF WaitReturns
  <1> DEFINE pc == IF Top(t).loop = "user" THEN "events" ELSE "locking"
             f == [Top(t) EXCEPT !.batch = batch, !.vector = <<>>, !.pc = pc]
  <1>5. BatchFits(batch, Top(t))
    <2>1. CASE build = "epoll"
      BY <1>1, <1>2, <1>4, <2>1, EpollBatchFits DEF RInv
    <2>2. CASE build = "poll"
      BY <1>1, <1>2, <1>4, <2>2, PollBatchFits DEF RInv
    <2> QED
      BY <2>1, <2>2 DEF RInv, RegInv
  <1>6. Fits(f, t)
    <2>1. /\ pc \in {"locking", "events"} /\ pc \in PCs
          /\ batch \in Seq(EventSet) /\ <<>> \in Seq(Descriptors)
      BY <1>5 DEF PCs, BatchFits
    <2> HIDE DEF pc
    <2>2. /\ f \in FrameSet /\ f.loop = Top(t).loop /\ f.max = Top(t).max /\ f.pc = pc
          /\ f.vector = <<>> /\ f.batch = batch /\ Top(t).max \in Nat
      BY <1>2, <2>1 DEF FrameSet, PCs
    <2> HIDE DEF f
    <2>3. Len(f.vector) <= f.max
      BY <2>2
    <2> QED
      BY <1>4, <1>5, <2>1, <2>2, <2>3 DEF Fits, FrameHolds, BatchFits
  <1>7. SetTop(t, f)
    BY <1>4
  <1> HIDE DEF f
  <1>8. FrameHolds(f, t, build', connections', opened')
    BY <1>1, <1>3, <1>6, FitsStill
  <1>9. StacksHold'
    BY <1>1, <1>3, <1>7, <1>8, SetTopHolds
  <1> QED
    BY <1>1, <1>3, <1>9, Concludes DEF RInv

\* What is left of the batch of the innermost loop.
LEMMA RestOfBatch ==
    ASSUME StacksHold, NEW t \in Threads, stack[t] # <<>>, Top(t).pc = "events"
    PROVE  /\ NextEvent(t) = Top(t).batch[1] /\ 1 \in DOMAIN Top(t).batch
           /\ EventOK(NextEvent(t), build, connections, opened)
           /\ NextEvent(t).conn = Stdin => Top(t).loop = "user"
           /\ Rest(t) \in FrameSet /\ Rest(t).pc = "events" /\ Rest(t).loop = Top(t).loop
           /\ Rest(t).batch # <<>> => Fits(Rest(t), t)
           /\ \A pc \in {"reading", "writing"}, user_data \in Nat :
                 Fits([Rest(t) EXCEPT !.pc = pc, !.user_data = user_data], t)
  <1> DEFINE f == Top(t)
             b == f.batch
             r == Rest(t)
             FitsBut == /\ r \in FrameSet /\ Len(r.vector) <= r.max
                        /\ Len(r.batch) <= r.max + IF r.loop = "user" THEN 1 ELSE 0
                        /\ \A i \in DOMAIN r.batch :
                              /\ EventOK(r.batch[i], build, connections, opened)
                              /\ r.batch[i].conn = Stdin => r.loop = "user"
  <1>1. Fits(f, t) /\ f \in FrameSet
    BY TopHolds
  <1>2. b \in Seq(EventSet) /\ b # <<>>
    BY <1>1 DEF Fits, FrameHolds, FrameSet
  <1>3. /\ Len(b) \in Nat \ {0} /\ DOMAIN b = 1..Len(b) /\ 1 \in DOMAIN b /\ Head(b) = b[1]
        /\ Tail(b) \in Seq(EventSet) /\ Len(Tail(b)) = Len(b) - 1
        /\ DOMAIN Tail(b) = 1..Len(b) - 1
        /\ \A i \in 1..Len(b) - 1 : Tail(b)[i] = b[i + 1] /\ i + 1 \in DOMAIN b
    BY <1>2
  <1>4. /\ NextEvent(t) = b[1] /\ EventOK(NextEvent(t), build, connections, opened)
        /\ NextEvent(t).conn = Stdin => f.loop = "user"
    BY <1>1, <1>3 DEF Fits, FrameHolds, NextEvent
  <1>5. /\ r \in FrameSet /\ r.loop = f.loop /\ r.pc = "events" /\ r.max = f.max
        /\ r.vector = f.vector /\ r.batch = Tail(b) /\ f.max \in Nat
    BY <1>1, <1>3 DEF Rest, FrameSet
  <1> HIDE DEF r, b
  <1>6. FitsBut
    <2>1. /\ Len(f.vector) <= f.max
          /\ Len(b) <= f.max + IF f.loop = "user" THEN 1 ELSE 0
          /\ \A i \in DOMAIN b : /\ EventOK(b[i], build, connections, opened)
                                 /\ b[i].conn = Stdin => f.loop = "user"
      BY <1>1 DEF Fits, FrameHolds, b
    <2>2. Len(r.batch) <= r.max + IF r.loop = "user" THEN 1 ELSE 0
      BY <1>3, <1>5, <2>1
    <2> QED
      BY <1>3, <1>5, <2>1, <2>2
  <1>7. r.batch # <<>> => Fits(r, t)
    BY <1>5, <1>6 DEF Fits, FrameHolds
  <1>8. ASSUME NEW pc \in {"reading", "writing"}, NEW user_data \in Nat
        PROVE  Fits([r EXCEPT !.pc = pc, !.user_data = user_data], t)
    <2> DEFINE g == [r EXCEPT !.pc = pc, !.user_data = user_data]
    <2>1. /\ g \in FrameSet /\ g.loop = r.loop /\ g.max = r.max /\ g.vector = r.vector
          /\ g.batch = r.batch /\ g.pc = pc
      BY <1>5 DEF FrameSet
    <2> HIDE DEF g
    <2>2. Fits(g, t)
      BY <1>6, <2>1 DEF Fits, FrameHolds
    <2> QED
      BY <2>2 DEF g
  <1> QED
    BY <1>3, <1>4, <1>5, <1>7, <1>8 DEF r, b

LEMMA ContinueHolds ==
    ASSUME StacksHold, ConnectionsOK, NEW t \in Threads, stack[t] # <<>>,
           NEW f, f.batch # <<>> => Fits(f, t), Continue(t, f), build' = build,
           Follows(connections, opened, connections', opened')
    PROVE  StacksHold'
  <1>1. CASE f.batch = <<>>
    BY <1>1, PopHolds DEF Continue
  <1>2. CASE f.batch # <<>>
    BY <1>2, SetTopHolds, FitsStill DEF Continue
  <1> QED
    BY <1>1, <1>2

\* What an event that is not the keyboard's is handled with.
LEMMA Resolved ==
    ASSUME RInv, NEW e, EventOK(e, build, connections, opened), e.conn # Stdin
    PROVE  /\ Resolve(e) \subseteq Nat
           /\ build = "poll" => Resolve(e) = {poll_elem_array[s].user_data :
                                                 s \in {r \in Slots : Fd[r] = e.data}}
           /\ build = "epoll" => DSTC_EVENT_FLAG_Set(e.data)
  <1>1. CASE build = "epoll"
    <2>1. PICK i \in Indexes, pub \in BOOLEAN : e.data = TO_POLL_EVENT_USER_DATA(i, pub)
      BY <1>1 DEF EventOK
    <2>2. e.data \in Nat /\ DSTC_EVENT_FLAG_Set(e.data)
      BY <2>1, UserDataRoundTrips
    <2> QED
      BY <1>1, <2>2 DEF Resolve
  <1>2. CASE build = "poll"
    <2>1. e.data \in Descriptors
      BY <1>2 DEF EventOK
    <2>2. Resolve(e) = {poll_elem_array[s].user_data : s \in {r \in Slots : Fd[r] = e.data}}
      BY <1>2, <2>1, SlotsFound DEF Resolve, RInv, RegInv
    <2>3. \A s \in Slots : poll_elem_array[s].user_data \in Nat
      BY DEF RInv, RegInv, RegistryTyped, ElemSet, UserDataSet
    <2> QED
      BY <1>2, <2>2, <2>3
  <1> QED
    BY <1>1, <1>2 DEF RInv, RegInv

LEMMA TakesHold ==
    ASSUME RInv, NEW t \in Threads, handle_keyboard(t) \/ TakeEvent(t)
    PROVE  RInv'
  <1>1. /\ exited = "no" /\ stack[t] # <<>> /\ Top(t).pc = "events" /\ build' = build
        /\ UNCHANGED <<connections, opened, registry>>
    BY DEF handle_keyboard, TakeEvent, At
  <1>2. StacksHold /\ ConnectionsOK
    BY DEF RInv, RegInv
  <1>3. /\ EventOK(NextEvent(t), build, connections, opened)
        /\ NextEvent(t).conn = Stdin => Top(t).loop = "user"
        /\ Rest(t).batch # <<>> => Fits(Rest(t), t)
        /\ \A pc \in {"reading", "writing"}, user_data \in Nat :
              Fits([Rest(t) EXCEPT !.pc = pc, !.user_data = user_data], t)
    BY <1>1, <1>2, RestOfBatch
  <1>4. ASSUME exited' = exited
        PROVE  RegInv' /\ Follows(connections, opened, connections', opened') /\ exited' = "no"
    BY <1>1, <1>4, Stays
  <1>5. ASSUME exited' = exited, Continue(t, Rest(t)), owner' \in Threads \cup {Nobody}
        PROVE  RInv'
    <2>1. StacksHold'
      BY <1>1, <1>2, <1>3, <1>4, <1>5, ContinueHolds
    <2> QED
      BY <1>4, <1>5, <2>1, Concludes
  <1>6. CASE handle_keyboard(t)
    BY <1>5, <1>6 DEF handle_keyboard, RInv
  <1>7. CASE TakeEvent(t)
    <2>1. NextEvent(t).conn # Stdin
      BY <1>3, <1>7 DEF TakeEvent, IsKeyboard, EventOK
    <2>2. Resolve(NextEvent(t)) \subseteq Nat /\ (build = "epoll" => DSTC_EVENT_FLAG_Set(NextEvent(t).data))
      BY <1>3, <2>1, Resolved
    <2>3. CASE Continue(t, Rest(t)) /\ Release(t, Rest(t)) /\ UNCHANGED exited
      <3>1. owner' \in Threads \cup {Nobody}
        BY <2>3 DEF Release
      <3> QED
        BY <1>5, <2>3, <3>1
    <2>4. CASE /\ \E user_data \in Resolve(NextEvent(t)), pc \in Says(NextEvent(t)) :
                     SetTop(t, [Rest(t) EXCEPT !.pc = pc, !.user_data = user_data])
               /\ owner' = t /\ UNCHANGED exited
      <3>1. PICK user_data \in Nat, pc \in {"reading", "writing"} :
               SetTop(t, [Rest(t) EXCEPT !.pc = pc, !.user_data = user_data])
        BY <2>2, <2>4 DEF Says
      <3> DEFINE f == [Rest(t) EXCEPT !.pc = pc, !.user_data = user_data]
      <3>2. Fits(f, t) /\ SetTop(t, f)
        BY <1>3, <3>1
      <3> HIDE DEF f
      <3>3. FrameHolds(f, t, build', connections', opened')
        BY <1>1, <1>2, <1>4, <2>4, <3>2, FitsStill
      <3>4. StacksHold'
        BY <1>1, <1>2, <1>4, <2>4, <3>2, <3>3, SetTopHolds
      <3> QED
        BY <1>4, <2>4, <3>4, Concludes
    <2> QED
      BY <1>7, <2>2, <2>3, <2>4 DEF TakeEvent
  <1> QED
    BY <1>6, <1>7

\* From one point to the next, whatever RMC did at the first.
LEMMA MoveHolds ==
    ASSUME RInv, NEW t \in Threads, exited = "no", stack[t] # <<>>, build' = build,
           owner' \in Threads \cup {Nobody},
           NEW pc \in {"events", "locking", "reading", "running", "writing"},
           pc \in {"events", "locking"} => Top(t).batch # <<>>,
           \/ SetTop(t, [Top(t) EXCEPT !.pc = pc])
           \/ SetTop(t, [Top(t) EXCEPT !.pc = pc, !.user_data = 0]),
           RegInv', Follows(connections, opened, connections', opened'),
           exited' = "no" \/ (exited' = "full" /\ Full')
    PROVE  RInv'
  <1>1. StacksHold /\ ConnectionsOK
    BY DEF RInv, RegInv
  <1>2. Fits(Top(t), t) /\ Top(t) \in FrameSet
    BY <1>1, TopHolds
  <1>3. PICK user_data \in Nat : SetTop(t, [Top(t) EXCEPT !.pc = pc, !.user_data = user_data])
    <2>1. Top(t).user_data \in Nat
      BY <1>2 DEF FrameSet
    <2>2. [Top(t) EXCEPT !.pc = pc] = [Top(t) EXCEPT !.pc = pc, !.user_data = Top(t).user_data]
      BY <1>2 DEF FrameSet
    <2> QED
      BY <2>1, <2>2
  <1> DEFINE f == [Top(t) EXCEPT !.pc = pc, !.user_data = user_data]
  <1>4. Fits(f, t) /\ SetTop(t, f)
    BY <1>2, <1>3, MovedFrame DEF PCs
  <1> HIDE DEF f
  <1>5. FrameHolds(f, t, build', connections', opened')
    BY <1>1, <1>4, FitsStill
  <1>6. StacksHold'
    BY <1>1, <1>4, <1>5, SetTopHolds
  <1> QED
    BY <1>6, Concludes

LEMMA EventsHold ==
    ASSUME RInv, NEW t \in Threads,
           LockForBatch(t) \/ ReadEvent(t) \/ FunctionReturns(t) \/ WriteEvent(t)
    PROVE  RInv'
  <1>1. exited = "no" /\ stack[t] # <<>> /\ build' = build
    BY DEF LockForBatch, ReadEvent, FunctionReturns, WriteEvent, At
  <1>2. RegInv /\ StacksHold /\ ConnectionsOK /\ owner \in Threads \cup {Nobody}
    BY DEF RInv, RegInv
  <1>3. owner' \in Threads \cup {Nobody}
    BY <1>2 DEF LockForBatch, ReadEvent, FunctionReturns, WriteEvent, Release
  <1>4. /\ RegInv' /\ Follows(connections, opened, connections', opened')
        /\ exited' = "no" \/ (exited' = "full" /\ Full')
    <2>1. \/ RmcIdle \/ RmcOpens
          \/ \E c \in DOMAIN connections : \/ RmcCloses(c)
                                           \/ RmcModifies(c, {"in"})
                                           \/ RmcModifies(c, {"in", "out"})
      BY DEF LockForBatch, ReadEvent, FunctionReturns, WriteEvent, RmcIdle, Target, ConnectionAt
    <2> QED
      BY <1>1, <1>2, <2>1, RmcKeeps
  <1>5. CASE LockForBatch(t)
    <2>1. Top(t).batch # <<>>
      BY <1>1, <1>2, <1>5, TopHolds DEF LockForBatch, At, Fits, FrameHolds
    <2>2. SetTop(t, [Top(t) EXCEPT !.pc = "events"])
      BY <1>5 DEF LockForBatch
    <2> QED
      BY <1>1, <1>3, <1>4, <2>1, <2>2, MoveHolds
  <1>6. CASE ReadEvent(t)
    <2>1. PICK pc \in {"running", "writing"} : SetTop(t, [Top(t) EXCEPT !.pc = pc])
      BY <1>6 DEF ReadEvent
    <2> QED
      BY <1>1, <1>3, <1>4, <2>1, MoveHolds
  <1>7. CASE FunctionReturns(t)
    <2>1. SetTop(t, [Top(t) EXCEPT !.pc = "writing"])
      BY <1>7 DEF FunctionReturns
    <2> QED
      BY <1>1, <1>3, <1>4, <2>1, MoveHolds
  <1>8. CASE WriteEvent(t)
    <2> DEFINE f == [Top(t) EXCEPT !.pc = "events", !.user_data = 0]
    <2>1. Fits(Top(t), t) /\ Top(t) \in FrameSet
      BY <1>1, <1>2, TopHolds
    <2>2. f.batch # <<>> => Fits(f, t)
      <3>1. f.batch = Top(t).batch
        BY <2>1 DEF FrameSet
      <3> QED
        BY <2>1, <3>1, MovedFrame DEF PCs
    <2>3. Continue(t, f)
      BY <1>8 DEF WriteEvent
    <2> HIDE DEF f
    <2>4. StacksHold'
      BY <1>1, <1>2, <1>4, <2>2, <2>3, ContinueHolds
    <2> QED
      BY <1>3, <1>4, <2>4, Concludes
  <1> QED
    BY <1>5, <1>6, <1>7, <1>8

LEMMA RegistryInit == Init => RInv
  <1> SUFFICES ASSUME Init PROVE RInv
    OBVIOUS
  <1>1. ConnectionsOK
    BY BoundAssumption DEF Init, ConnectionsOK, EmptyMap
  <1>2. RegistryTyped
    <2>1. FreeElem \in ElemSet /\ NoFd = -1
      BY IndexAssumption DEF FreeElem, ElemSet, UserDataSet, NoFd
    <2>2. poll_elem_array \in [Slots -> ElemSet] /\ \A s \in Slots : Fd[s] = NoFd
      BY <2>1 DEF Init, Fd, FreeElem
    <2>3. poll_hash.order = <<>> /\ HeldBy(poll_hash) = {}
      BY DEF Init, NULL, HeldBy, ToSet
    <2>4. TableOK(poll_hash, Fd, Slots)
      BY DEF Init, NULL, TableOK, ListOK
    <2>5. DOMAIN epoll_set = {}
      BY DEF Init, EmptyMap
    <2> QED
      BY <2>2, <2>3, <2>4, <2>5 DEF RegistryTyped
  <1>3. RegistryOK
    <2>1. DOMAIN connections = {} /\ DOMAIN epoll_set = {}
      BY DEF Init, EmptyMap
    <2>2. \A s \in Slots : Fd[s] = NoFd
      BY DEF Init, Fd, FreeElem
    <2> QED
      BY <2>1, <2>2 DEF RegistryOK
  <1>4. StacksHold
    <2>1. \A t \in Threads : stack[t] = <<>>
      BY DEF Init
    <2>2. <<>> \in Seq(FrameSet) /\ Len(<<>>) = 0 /\ DOMAIN <<>> = {}
      OBVIOUS
    <2>3. stack \in [Threads -> Seq(FrameSet)]
      BY <2>2 DEF Init
    <2> QED
      BY <2>1, <2>2, <2>3, BoundAssumption DEF StacksHold
  <1> QED
    BY <1>1, <1>2, <1>3, <1>4 DEF RInv, RegInv, ExitOK, Init

LEMMA RegistryStep == RInv /\ [Next]_vars => RInv'
  <1> SUFFICES ASSUME RInv, [Next]_vars PROVE RInv'
    OBVIOUS
  <1>1. CASE UNCHANGED vars
    <2>1. /\ UNCHANGED <<build, connections, opened, epoll_set, poll_elem_array, poll_hash,
                        owner, stack, exited>>
          /\ Fd' = Fd /\ PollVector' = PollVector /\ \A t : Top(t)' = Top(t)
      BY <1>1 DEF vars, registry, Fd, PollVector, Top
    <2>2. ConnectionsOK' /\ RegistryTyped' /\ RegistryOK' /\ ExitOK' /\ StacksHold'
      BY <2>1 DEF RInv, RegInv, ConnectionsOK, RegistryTyped, RegistryOK, ExitOK, StacksHold
    <2> QED
      BY <2>1, <2>2 DEF RInv, RegInv
  <1> QED
    BY <1>1, BeginsHold, TimeoutsHold, RetrievesHold, WaitReturnsHolds, TakesHold, EventsHold
       DEF Next

LEMMA RegistryInvariant == Spec => []RInv
  BY RegistryInit, RegistryStep, PTL DEF Spec

\* Every variable keeps its type, and no thread's event processing nests deeper than
\* its bound (epoll.c, poll.c, dstc.c:1355-1420).
THEOREM TypeCorrect == Spec => []TypeOK
  <1>1. RInv => TypeOK
    <2> SUFFICES ASSUME RInv PROVE TypeOK
      OBVIOUS
    <2>1. {hh.elem : hh \in ToSet(poll_hash.order)} \subseteq Slots
      BY DEF RInv, RegInv, RegistryTyped, HeldBy
    <2> QED
      BY <2>1 DEF RInv, RegInv, ConnectionsOK, ConnectionSet, RegistryTyped, ElemSet,
                  StacksHold, ExitOK, TypeOK
  <1> QED
    BY <1>1, RegistryInvariant, PTL

\* The kernel's set, or the array as the hash table finds it, has just the descriptors
\* of the open connections, with what RMC asked for (epoll.c:46-133, poll.c:35-186).
THEOREM WatchedAsAskedCorrect == Spec => []WatchedAsAsked
  <1>1. RInv => WatchedAsAsked
    <2> SUFFICES ASSUME RInv, exited = "no" PROVE WatchedAsAsked
      BY DEF WatchedAsAsked
    <2> USE DEF RInv, RegInv
    <2>1. CASE build = "epoll"
      BY <2>1 DEF WatchedAsAsked, WatchedNow, RegistryOK, Asked
    <2>2. CASE build = "poll"
      <3> DEFINE elem(fd) == CHOOSE s \in HASH_FIND(poll_hash, Fd, fd) : TRUE
                 found == {fd \in Descriptors : HASH_FIND(poll_hash, Fd, fd) # {}}
                 now == [fd \in found |-> [user_data |-> poll_elem_array[elem(fd)].user_data,
                                           events |-> poll_elem_array[elem(fd)].events]]
      <3>1. WatchedNow = now
        BY <2>2 DEF WatchedNow
      <3>2. \A fd \in Descriptors : HASH_FIND(poll_hash, Fd, fd) = {s \in Slots : Fd[s] = fd}
        BY SlotsFound
      <3>3. \A fd \in Descriptors : fd # NoFd
        BY DescriptorAssumption DEF NoFd
      <3>4. found = {connections[c].fd : c \in DOMAIN connections}
        BY <2>2, <3>2, <3>3, ConnectionIsTold DEF RegistryOK
      <3>5. ASSUME NEW c \in DOMAIN connections
            PROVE  now[connections[c].fd] =
                      [user_data |-> UserData(connections[c]), events |-> connections[c].events]
        <4> DEFINE fd == connections[c].fd
        <4>1. PICK s \in Slots : /\ Fd[s] = fd
                                 /\ poll_elem_array[s].user_data = UserData(connections[c])
                                 /\ poll_elem_array[s].events = connections[c].events
          BY <2>2 DEF RegistryOK
        <4>2. fd \in Descriptors /\ fd # NoFd /\ fd \in found
          BY <3>3, <3>4, ConnectionIsTold
        <4>3. HASH_FIND(poll_hash, Fd, fd) = {s}
          BY <3>2, <4>1, <4>2 DEF RegistryTyped
        <4>4. elem(fd) = s
          BY <4>3
        <4> HIDE DEF elem, found, fd
        <4>5. now[fd] = [user_data |-> poll_elem_array[s].user_data, events |-> poll_elem_array[s].events]
          BY <4>2, <4>4
        <4> QED
          BY <4>1, <4>5 DEF fd
      <3>6. {s \in Slots : Fd[s] # NoFd} = {hh.elem : hh \in ToSet(poll_hash.order)}
        BY DEF RegistryTyped, HeldBy
      <3>7. DOMAIN now = found
        OBVIOUS
      <3> HIDE DEF now, found
      <3> QED
        BY <3>1, <3>4, <3>5, <3>6, <3>7 DEF WatchedAsAsked
    <2> QED
      BY <2>1, <2>2
  <1> QED
    BY <1>1, RegistryInvariant, PTL

\* An event of a batch that waits is of some frame.
LEMMA PendingFits ==
    ASSUME StacksHold, NEW batch \in Pending, NEW e \in ToSet(batch)
    PROVE  EventOK(e, build, connections, opened)
  <1>1. PICK t \in Threads : \E i \in DOMAIN stack[t] : batch = stack[t][i].batch
    BY DEF Pending
  <1>2. PICK i \in DOMAIN stack[t] : batch = stack[t][i].batch
    BY <1>1
  <1>3. PICK j \in DOMAIN batch : e = batch[j]
    BY DEF ToSet
  <1> QED
    BY <1>2, <1>3 DEF StacksHold, FrameHolds

\* User data finds the connection it was made for.
LEMMA ConnectionFound ==
    ASSUME ConnectionsOK, NEW c \in DOMAIN connections
    PROVE  ConnectionAt(UserData(connections[c])) = {c}
  <1>1. connections[c].index \in Indexes /\ connections[c].pub \in BOOLEAN
    BY ConnectionIsTold DEF ConnectionSet
  <1>2. /\ FROM_POLL_EVENT_USER_DATA(UserData(connections[c])) = connections[c].index
        /\ IS_PUB(UserData(connections[c])) = connections[c].pub
    BY <1>1, UserDataRoundTrips DEF UserData
  <1> QED
    BY <1>2 DEF ConnectionAt, ConnectionsOK

\* However late an event of a batch is handled, if its connection is open it reaches that
\* one, and the keyboard's alone is taken for the keyboard's (epoll.c:135-171, poll.c:188-230,
\* chat.c:140-236).
THEOREM LiveEventsReachCorrect == Spec => []LiveEventsReach
  <1>1. RInv => LiveEventsReach
    <2> SUFFICES ASSUME RInv, NEW batch \in Pending, NEW e \in ToSet(batch)
                 PROVE  /\ e.data = 0 <=> e.conn = Stdin
                        /\ exited = "no" /\ e.conn \in DOMAIN connections =>
                              \E user_data \in Resolve(e) : ConnectionAt(user_data) = {e.conn}
      BY DEF LiveEventsReach
    <2>1. StacksHold /\ ConnectionsOK /\ build \in {"epoll", "poll"}
      BY DEF RInv, RegInv
    <2>2. EventOK(e, build, connections, opened)
      BY <2>1, PendingFits
    <2>3. ASSUME exited = "no", e.conn \in DOMAIN connections
          PROVE  \E user_data \in Resolve(e) : ConnectionAt(user_data) = {e.conn}
      <3> DEFINE c == connections[e.conn]
      <3>1. e.conn # Stdin /\ e.conn # Gone
        BY <2>1, <2>3, ConnectionIsTold DEF Stdin, Gone
      <3>2. DataOf(build, c) = e.data
        BY <2>2, <2>3, <3>1 DEF EventOK
      <3>3. UserData(c) \in Resolve(e)
        <4>1. CASE build = "epoll"
          BY <3>2, <4>1 DEF Resolve, DataOf
        <4>2. CASE build = "poll"
          <5>1. PICK s \in Slots : Fd[s] = c.fd /\ poll_elem_array[s].user_data = UserData(c)
            BY <2>3, <4>2 DEF RInv, RegInv, RegistryOK
          <5>2. Resolve(e) = {poll_elem_array[r].user_data : r \in {q \in Slots : Fd[q] = e.data}}
            BY <2>2, <3>1, <4>2, Resolved
          <5> QED
            BY <3>2, <4>2, <5>1, <5>2 DEF DataOf
        <4> QED
          BY <2>1, <4>1, <4>2
      <3> QED
        BY <2>1, <2>3, <3>3, ConnectionFound
    <2> QED
      BY <2>2, <2>3 DEF EventOK
  <1> QED
    BY <1>1, RegistryInvariant, PTL

\* An event whose connection is closed reaches no connection that was open before it came
\* up; with poll(2) it reaches one or is dropped (epoll.c:135-171, poll.c:188-230).
THEOREM StaleEventsContainedCorrect == Spec => []StaleEventsContained
  <1>1. RInv => StaleEventsContained
    <2> SUFFICES ASSUME RInv, NEW batch \in Pending, NEW e \in ToSet(batch), exited = "no",
                        e.conn \in 1..MaxOpened \ DOMAIN connections, NEW user_data \in Resolve(e)
                 PROVE  /\ \A c \in ConnectionAt(user_data) : c > e.conn
                        /\ build = "poll" => ConnectionAt(user_data) # {}
      BY DEF StaleEventsContained
    <2>1. StacksHold /\ ConnectionsOK /\ build \in {"epoll", "poll"}
      BY DEF RInv, RegInv
    <2>2. EventOK(e, build, connections, opened)
      BY <2>1, PendingFits
    <2>3. e.conn # Stdin /\ e.conn # Gone /\ e.conn \in Nat
      BY BoundAssumption DEF Stdin, Gone
    <2>4. \A c \in DOMAIN connections : DataOf(build, connections[c]) = e.data => c > e.conn
      <3>1. \A c \in DOMAIN connections :
               DataOf(build, connections[c]) = e.data => c >= e.conn /\ c # e.conn /\ c \in Nat
        BY <2>1, <2>2, <2>3, ConnectionIsTold DEF EventOK
      <3> QED
        BY <2>3, <3>1
    <2>5. CASE build = "epoll"
      <3>1. user_data = e.data
        BY <2>5 DEF Resolve
      <3>2. PICK i \in Indexes, pub \in BOOLEAN : e.data = TO_POLL_EVENT_USER_DATA(i, pub)
        BY <2>2, <2>3, <2>5 DEF EventOK
      <3>3. ASSUME NEW c \in ConnectionAt(user_data)
            PROVE  c > e.conn
        <4>1. c \in DOMAIN connections /\ connections[c].index = i /\ connections[c].pub = pub
          BY <3>1, <3>2, UserDataRoundTrips DEF ConnectionAt
        <4>2. DataOf(build, connections[c]) = e.data
          BY <2>5, <3>2, <4>1 DEF DataOf, UserData
        <4> QED
          BY <2>4, <4>1, <4>2
      <3> QED
        BY <2>5, <3>3
    <2>6. CASE build = "poll"
      <3>1. PICK s \in Slots : Fd[s] = e.data /\ user_data = poll_elem_array[s].user_data
        BY <2>2, <2>3, <2>6, Resolved
      <3>2. e.data \in Descriptors /\ e.data # NoFd
        BY <2>2, <2>3, <2>6, DescriptorAssumption DEF EventOK, NoFd
      <3>3. PICK c \in DOMAIN connections : connections[c].fd = e.data
        BY <2>6, <3>1, <3>2 DEF RInv, RegInv, RegistryOK
      <3>4. user_data = UserData(connections[c])
        <4>1. PICK r \in Slots : Fd[r] = e.data /\ poll_elem_array[r].user_data = UserData(connections[c])
          BY <2>6, <3>3 DEF RInv, RegInv, RegistryOK
        <4>2. r = s
          BY <3>1, <3>2, <4>1 DEF RInv, RegInv, RegistryTyped
        <4> QED
          BY <3>1, <4>1, <4>2
      <3>5. ConnectionAt(user_data) = {c}
        BY <2>1, <3>4, ConnectionFound
      <3>6. c > e.conn
        BY <2>4, <2>6, <3>3 DEF DataOf
      <3> QED
        BY <3>5, <3>6
    <2> QED
      BY <2>1, <2>5, <2>6
  <1> QED
    BY <1>1, RegistryInvariant, PTL

\* Vectors and batches fit the arrays they are for, and the process exits only when the
\* poll(2) build has no room left (poll.c:20-33, 236-318, chat.c:178-216).
THEOREM ArraysSufficeCorrect == Spec => []ArraysSuffice
  <1>1. RInv => ArraysSuffice
    BY DEF RInv, StacksHold, FrameHolds, ExitOK, ArraysSuffice
  <1> QED
    BY <1>1, RegistryInvariant, PTL
=============================================================================
