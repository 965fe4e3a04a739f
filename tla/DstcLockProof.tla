--------------------------- MODULE DstcLockProof ---------------------------
(***************************************************************************)
(* Proofs about DstcLock for every set of threads and any depth to which   *)
(* operations nest.                                                        *)
(*                                                                         *)
(* The fifteen actions are few from the point of view of the mutex: one    *)
(* starts an operation, moves or ends the innermost one of a thread, and   *)
(* takes, gives up or keeps the lock as the labels it moves between say.   *)
(* Shape says so of every step, and the invariants follow from it.         *)
(***************************************************************************)
EXTENDS DstcLock, FiniteSetTheorems, SequenceTheorems, TLAPS

USE MaxFramesAssumption, NobodyAssumption

(***************************************************************************)
(* Stacks of frames.                                                       *)
(***************************************************************************)

\* How many of the first n frames of a stack count on the lock.
HeldUpTo(s, n) == Cardinality({i \in 1 .. n : s[i].pc \in Locked})
Held(s) == HeldUpTo(s, Len(s))

\* The stack s with its last frame replaced, and without it.
Moved(s, f) == [s EXCEPT ![Len(s)] = f]
Front(s) == SubSeq(s, 1, Len(s) - 1)

LEMMA HeldUpToType ==
    ASSUME NEW s, NEW n \in Nat
    PROVE  /\ HeldUpTo(s, n) \in Nat
           /\ IsFiniteSet({i \in 1 .. n : s[i].pc \in Locked})
<1>1. IsFiniteSet(1 .. n)
    BY FS_Interval
<1>2. {i \in 1 .. n : s[i].pc \in Locked} \in SUBSET (1 .. n)
    OBVIOUS
<1>3. IsFiniteSet({i \in 1 .. n : s[i].pc \in Locked})
    BY <1>1, <1>2, FS_Subset
<1> QED
    BY <1>3, FS_CardinalityType DEF HeldUpTo

\* The count depends on the frames counted.
LEMMA HeldUpToSame ==
    ASSUME NEW s, NEW r, NEW n \in Nat, \A i \in 1 .. n : s[i] = r[i]
    PROVE  HeldUpTo(s, n) = HeldUpTo(r, n)
<1>1. {i \in 1 .. n : s[i].pc \in Locked} = {i \in 1 .. n : r[i].pc \in Locked}
    OBVIOUS
<1> QED
    BY <1>1 DEF HeldUpTo

\* One frame more adds one if it counts on the lock.
LEMMA HeldUpToNext ==
    ASSUME NEW s, NEW n \in Nat
    PROVE  HeldUpTo(s, n + 1) =
               HeldUpTo(s, n) + (IF s[n + 1].pc \in Locked THEN 1 ELSE 0)
<1> DEFINE A == {i \in 1 .. n : s[i].pc \in Locked}
           B == {i \in 1 .. n + 1 : s[i].pc \in Locked}
<1>1. IsFiniteSet(A) /\ Cardinality(A) \in Nat
    BY HeldUpToType DEF HeldUpTo
<1>2. HeldUpTo(s, n) = Cardinality(A) /\ HeldUpTo(s, n + 1) = Cardinality(B)
    BY DEF HeldUpTo
<1>3. CASE s[n + 1].pc \in Locked
    <2>1. B = A \cup {n + 1}
        BY <1>3
    <2>2. n + 1 \notin A
        OBVIOUS
    <2>3. Cardinality(A \cup {n + 1}) = Cardinality(A) + 1
        BY <1>1, <2>2, FS_AddElement
    <2> HIDE DEF A, B
    <2> QED
        BY <1>3, <1>2, <2>1, <2>3
<1>4. CASE s[n + 1].pc \notin Locked
    <2>1. B = A
        BY <1>4
    <2> HIDE DEF A, B
    <2> QED
        BY <1>1, <1>4, <1>2, <2>1
<1> QED
    BY <1>3, <1>4

\* A positive count has a frame to show for it, and the other way round.
LEMMA HeldPositive ==
    ASSUME NEW s, NEW n \in Nat
    PROVE  HeldUpTo(s, n) > 0 <=> \E i \in 1 .. n : s[i].pc \in Locked
<1> DEFINE A == {i \in 1 .. n : s[i].pc \in Locked}
<1>1. IsFiniteSet(A) /\ Cardinality(A) \in Nat
    BY HeldUpToType DEF HeldUpTo
<1>2. Cardinality(A) = 0 <=> A = {}
    BY <1>1, FS_EmptySet
<1>3. A = {} <=> ~ \E i \in 1 .. n : s[i].pc \in Locked
    OBVIOUS
<1> HIDE DEF A
<1> QED
    BY <1>1, <1>2, <1>3 DEF HeldUpTo, A

\* What a stack is after each of the three changes, and how many frames of it count
\* on the lock.
LEMMA Pushed ==
    ASSUME NEW s \in Seq(Frame), NEW f \in Frame
    PROVE  /\ Append(s, f) \in Seq(Frame)
           /\ Len(Append(s, f)) = Len(s) + 1
           /\ \A i \in 1 .. Len(s) : Append(s, f)[i] = s[i]
           /\ Append(s, f)[Len(s) + 1] = f
           /\ Held(Append(s, f)) = Held(s) + (IF f.pc \in Locked THEN 1 ELSE 0)
<1>1. /\ Append(s, f) \in Seq(Frame)
      /\ Len(Append(s, f)) = Len(s) + 1
      /\ \A i \in 1 .. Len(s) : Append(s, f)[i] = s[i]
      /\ Append(s, f)[Len(s) + 1] = f
    BY AppendProperties
<1>2. Len(s) \in Nat
    OBVIOUS
<1> DEFINE r == Append(s, f)
<1> HIDE DEF r
<1>3. HeldUpTo(r, Len(s)) = HeldUpTo(s, Len(s))
    BY <1>1, <1>2, HeldUpToSame DEF r
<1>4. HeldUpTo(r, Len(s) + 1) =
          HeldUpTo(r, Len(s)) + (IF r[Len(s) + 1].pc \in Locked THEN 1 ELSE 0)
    BY <1>2, HeldUpToNext
<1>5. Held(r) = Held(s) + (IF f.pc \in Locked THEN 1 ELSE 0)
    BY <1>1, <1>3, <1>4 DEF Held, r
<1> QED
    BY <1>1, <1>5 DEF r

\* The count of a stack, its last frame apart.
LEMMA HeldLast ==
    ASSUME NEW s \in Seq(Frame), s # <<>>
    PROVE  /\ Len(s) - 1 \in Nat
           /\ HeldUpTo(s, Len(s) - 1) \in Nat
           /\ Held(s) = HeldUpTo(s, Len(s) - 1)
                          + (IF s[Len(s)].pc \in Locked THEN 1 ELSE 0)
<1>1. Len(s) - 1 \in Nat /\ (Len(s) - 1) + 1 = Len(s)
    OBVIOUS
<1>2. HeldUpTo(s, (Len(s) - 1) + 1) = HeldUpTo(s, Len(s) - 1)
                          + (IF s[(Len(s) - 1) + 1].pc \in Locked THEN 1 ELSE 0)
    BY <1>1, HeldUpToNext
<1> QED
    BY <1>1, <1>2, HeldUpToType DEF Held

LEMMA MovedFrame ==
    ASSUME NEW s \in Seq(Frame), s # <<>>, NEW f \in Frame
    PROVE  /\ Moved(s, f) \in Seq(Frame)
           /\ Len(Moved(s, f)) = Len(s)
           /\ \A i \in 1 .. Len(s) - 1 : Moved(s, f)[i] = s[i]
           /\ Moved(s, f)[Len(s)] = f
           /\ Held(Moved(s, f)) = HeldUpTo(s, Len(s) - 1)
                                    + (IF f.pc \in Locked THEN 1 ELSE 0)
<1>1. Len(s) \in 1 .. Len(s)
    OBVIOUS
<1>2. /\ Moved(s, f) \in Seq(Frame)
      /\ Len(Moved(s, f)) = Len(s)
      /\ \A i \in 1 .. Len(s) : Moved(s, f)[i] = IF i = Len(s) THEN f ELSE s[i]
    BY <1>1, ExceptSeq DEF Moved
<1>3. /\ \A i \in 1 .. Len(s) - 1 : Moved(s, f)[i] = s[i]
      /\ Moved(s, f)[Len(s)] = f
    BY <1>1, <1>2
<1>4. Moved(s, f) # <<>>
    BY <1>2
<1>5. HeldUpTo(Moved(s, f), Len(s) - 1) = HeldUpTo(s, Len(s) - 1)
    BY <1>3, HeldLast, HeldUpToSame
<1>6. Held(Moved(s, f)) = HeldUpTo(Moved(s, f), Len(Moved(s, f)) - 1)
          + (IF Moved(s, f)[Len(Moved(s, f))].pc \in Locked THEN 1 ELSE 0)
    BY <1>2, <1>4, HeldLast
<1> QED
    BY <1>2, <1>3, <1>5, <1>6

LEMMA FrontFrames ==
    ASSUME NEW s \in Seq(Frame), s # <<>>
    PROVE  /\ Front(s) \in Seq(Frame)
           /\ Len(Front(s)) = Len(s) - 1
           /\ \A i \in 1 .. Len(s) - 1 : Front(s)[i] = s[i]
           /\ Held(Front(s)) = HeldUpTo(s, Len(s) - 1)
<1> DEFINE n == Len(s) - 1
           r == SubSeq(s, 1, n)
<1>1. n \in Nat /\ \A i \in 1 .. n : s[i] \in Frame
    OBVIOUS
<1> HIDE DEF n
<1>2. /\ r \in Seq(Frame)
      /\ Len(r) = IF 1 <= n THEN n - 1 + 1 ELSE 0
      /\ \A i \in 1 .. n - 1 + 1 : r[i] = s[1 + i - 1]
    BY <1>1, SubSeqProperties
<1>3. Len(r) = n /\ \A i \in 1 .. n : r[i] = s[i]
    BY <1>1, <1>2
<1> HIDE DEF r
<1>4. Held(r) = HeldUpTo(s, n)
    BY <1>1, <1>3, HeldUpToSame DEF Held
<1> QED
    BY <1>2, <1>3, <1>4 DEF Front, r, n

(***************************************************************************)
(* The inductive invariant.                                                *)
(***************************************************************************)

\* The labels of a frame that is at work on the context, or will be without looking
\* again whether it is set up; and such a frame, but for one that registers.
UsesContext == {"body", "timed_lock", "waiting", "relock_event", "relock_timeout",
                "handling", "timeouts", "unlocked_timeouts"}
Uses(f) == f.pc \in UsesContext /\ ~Registering(f)

\* Below an operation there is only the handling of events that ran it.
StackInv ==
    \A t \in Threads : \A i \in 1 .. Len(stack[t]) :
        i < Len(stack[t]) => stack[t][i].pc = "handling"

SetUpInv ==
    /\ inits \in {0, 1}
    /\ exited => inits = 0
    /\ \A t \in Threads : \A i \in 1 .. Len(stack[t]) :
           Uses(stack[t][i]) => inits = 1

\* LockBalanced, and that a free mutex is the one held no times.
CountInv ==
    /\ owner = Nobody <=> depth = 0
    /\ \A t \in Threads : Held(stack[t]) = IF owner = t THEN depth ELSE 0

LockInv == TypeOK /\ StackInv /\ SetUpInv /\ CountInv

(***************************************************************************)
(* The shape of a step of thread t.                                        *)
(***************************************************************************)

Push(t, f) ==
    /\ MayCall(t)
    /\ f.pc \notin UsesContext
    /\ stack' = [stack EXCEPT ![t] = Append(stack[t], f)]

Move(t, f) ==
    /\ stack[t] # <<>>
    /\ stack' = [stack EXCEPT ![t] = Moved(stack[t], f)]

Pop(t) ==
    /\ stack[t] # <<>>
    /\ stack' = [stack EXCEPT ![t] = Front(stack[t])]

\* The lock goes with the labels: was and is say whether the frame counted on it
\* before the step and does after it.
LockFits(t, was, is) ==
    \/ (was <=> is) /\ owner' = owner /\ depth' = depth
    \/ ~was /\ is /\ Lock(t)
    \/ was /\ ~is /\ Unlock(t)

Shape(t) ==
    /\ exited' \in BOOLEAN /\ (exited' => inits' = 0)
    /\ \/ \E f \in Frame : Push(t, f) /\ UNCHANGED <<owner, depth, inits>>
       \/ \E f \in Frame :
             /\ Move(t, f)
             /\ LockFits(t, Top(t).pc \in Locked, f.pc \in Locked)
             /\ inits' \in {inits, 1}
             /\ Uses(f) => inits' = 1
       \/ Pop(t) /\ LockFits(t, Top(t).pc \in Locked, FALSE) /\ inits' = inits
       \/ UNCHANGED <<stack, owner, depth, inits>>

LEMMA TopFrame ==
    ASSUME TypeOK, NEW t \in Threads, stack[t] # <<>>
    PROVE  /\ stack[t] \in Seq(Frame)
           /\ Len(stack[t]) \in 1 .. Len(stack[t])
           /\ Top(t) \in Frame
<1>1. stack[t] \in Seq(Frame) /\ Len(stack[t]) \in 1 .. Len(stack[t])
    BY DEF TypeOK
<1> QED
    BY <1>1 DEF Top

\* Goto moves the innermost frame to a label.
LEMMA GotoMoves ==
    ASSUME TypeOK, NEW t \in Threads, NEW label \in Labels,
           stack[t] # <<>>, Goto(t, label)
    PROVE  \E f \in Frame : f.pc = label /\ f.mode = Top(t).mode /\ Move(t, f)
<1> DEFINE f == [Top(t) EXCEPT !.pc = label]
<1>1. f \in Frame /\ f.pc = label /\ f.mode = Top(t).mode
    BY TopFrame DEF Frame
<1>2. stack' = [stack EXCEPT ![t] = Moved(stack[t], f)]
    BY DEF Goto, Moved, Top
<1> QED
    BY <1>1, <1>2 DEF Move

\* An innermost frame at work on the context is evidence that it is set up.
LEMMA TopSetUp ==
    ASSUME TypeOK, SetUpInv, NEW t \in Threads, stack[t] # <<>>,
           Top(t).pc \in UsesContext \ {"body"}
    PROVE  inits = 1
    BY TopFrame DEF SetUpInv, Top, Uses, Registering

\* The operations that start one.
LEMMA CallsPush ==
    ASSUME LockInv, NEW t \in Threads, NEW label \in {"lock", "events_lock", "next_timeout"},
           NEW mode \in Modes,
           MayCall(t), Enter(t, label, mode), UNCHANGED <<owner, depth, inits, exited>>
    PROVE  Shape(t)
<1> DEFINE f == [pc |-> label, mode |-> mode]
<1>1. f \in Frame /\ f.pc \notin UsesContext
    BY DEF Frame, Labels, UsesContext
<1>2. Push(t, f)
    BY <1>1 DEF Push, Enter
<1>3. exited' \in BOOLEAN /\ (exited' => inits' = 0)
    BY DEF LockInv, TypeOK, SetUpInv
<1> QED
    BY <1>1, <1>2, <1>3 DEF Shape

\* The operations that move the innermost frame to a label.
LEMMA GotoShape ==
    ASSUME LockInv, NEW t \in Threads, NEW label \in Labels,
           stack[t] # <<>>, Goto(t, label),
           LockFits(t, Top(t).pc \in Locked, label \in Locked),
           inits' \in {inits, 1},
           label \in UsesContext => inits' = 1 \/ (label = "body" /\ Top(t).mode = "register"),
           exited' = exited, ~exited
    PROVE  Shape(t)
<1>1. PICK f \in Frame : f.pc = label /\ f.mode = Top(t).mode /\ Move(t, f)
    BY GotoMoves DEF LockInv
<1>2. exited' \in BOOLEAN /\ (exited' => inits' = 0)
    BY DEF LockInv, TypeOK
<1> HIDE DEF LockFits
<1>3. LockFits(t, Top(t).pc \in Locked, f.pc \in Locked)
    BY <1>1
<1>4. Uses(f) => inits' = 1
    BY <1>1 DEF Uses, Registering
<1> QED
    BY <1>1, <1>2, <1>3, <1>4 DEF Shape

LEMMA ReturnShape ==
    ASSUME LockInv, NEW t \in Threads, stack[t] # <<>>, Return(t),
           LockFits(t, Top(t).pc \in Locked, FALSE),
           UNCHANGED <<inits, exited>>, ~exited
    PROVE  Shape(t)
<1>1. stack' = [stack EXCEPT ![t] = Front(stack[t])]
    BY DEF Return, Front
<1>2. Pop(t)
    BY <1>1 DEF Pop
<1>3. exited' \in BOOLEAN /\ (exited' => inits' = 0)
    BY DEF LockInv, TypeOK
<1> QED
    BY <1>2, <1>3 DEF Shape

\* InitContext leaves the context set up, and only ever sets it up.
LEMMA InitContextSets ==
    ASSUME LockInv, InitContext
    PROVE  inits' = 1
    BY DEF LockInv, SetUpInv, InitContext

\* Waiting, in a context that is set up or not.
LEMMA LockAndWaitShape ==
    ASSUME LockInv, NEW t \in Threads, stack[t] # <<>>, ~exited,
           Top(t).pc \in {"events_lock", "timed_lock"}, LockAndWait(t)
    PROVE  Shape(t)
<1>1. CASE inits = 0 /\ exited' = TRUE /\ UNCHANGED <<owner, depth, stack, inits>>
    BY <1>1 DEF Shape
<1>2. CASE inits > 0 /\ Goto(t, "waiting") /\ UNCHANGED <<owner, depth, inits, exited>>
    <2>1. inits = 1
        BY <1>2 DEF LockInv, SetUpInv
    <2>2. LockFits(t, Top(t).pc \in Locked, "waiting" \in Locked)
        BY <1>2 DEF LockFits, Locked
    <2>3. "waiting" \in Labels
        BY DEF Labels
    <2> QED
        BY <1>2, <2>1, <2>2, <2>3, GotoShape
<1> QED
    BY <1>1, <1>2 DEF LockAndWait

\* Every step of a thread has one of the shapes.
LEMMA StepShape ==
    ASSUME LockInv, Next
    PROVE  \E t \in Threads : Shape(t)
<1> USE DEF Labels, Locked, UsesContext, Modes
<1>1. ASSUME NEW t \in Threads, Call(t) PROVE Shape(t)
    BY <1>1, CallsPush DEF Call
<1>2. ASSUME NEW t \in Threads, dstc_process_events_zero(t) PROVE Shape(t)
    BY <1>2, CallsPush DEF dstc_process_events_zero
<1>3. ASSUME NEW t \in Threads, dstc_process_events(t) PROVE Shape(t)
    BY <1>3, CallsPush DEF dstc_process_events
<1>4. ASSUME NEW t \in Threads, LockContext(t) PROVE Shape(t)
    <2>1. LockFits(t, Top(t).pc \in Locked, "body" \in Locked)
        BY <1>4 DEF LockContext, At, LockFits
    <2>2. CASE Top(t).mode = "register"
        BY <1>4, <2>1, <2>2, GotoShape DEF LockContext, At
    <2>3. CASE Top(t).mode # "register"
        BY <1>4, <2>1, <2>3, InitContextSets, GotoShape DEF LockContext, At
    <2> QED
        BY <2>2, <2>3
<1>5. ASSUME NEW t \in Threads, CallReturns(t) PROVE Shape(t)
    <2>1. LockFits(t, Top(t).pc \in Locked, FALSE)
        BY <1>5 DEF CallReturns, At, LockFits
    <2> QED
        BY <1>5, <2>1, ReturnShape DEF CallReturns, At
<1>6. ASSUME NEW t \in Threads, NextTimeout(t) PROVE Shape(t)
    <2>1. /\ stack[t] # <<>> /\ Top(t).pc = "next_timeout" /\ ~exited
          /\ inits' = 1 /\ UNCHANGED <<owner, depth, exited>>
        BY <1>6, InitContextSets DEF NextTimeout, At
    <2>2. PICK f \in {[pc |-> "events_lock", mode |-> "due"],
                      [pc |-> "timed_lock", mode |-> "finite"],
                      [pc |-> "events_lock", mode |-> "infinite"]} :
              stack' = [stack EXCEPT ![t][Len(stack[t])] = f]
        BY <1>6 DEF NextTimeout
    <2>3. f \in Frame /\ f.pc \notin Locked
        BY DEF Frame
    <2>4. Move(t, f)
        BY <2>1, <2>2 DEF Move, Moved
    <2>5. LockFits(t, Top(t).pc \in Locked, f.pc \in Locked)
        BY <2>1, <2>3 DEF LockFits
    <2>6. exited' \in BOOLEAN /\ (exited' => inits' = 0)
        BY <2>1 DEF LockInv, TypeOK
    <2> QED
        BY <2>1, <2>3, <2>4, <2>5, <2>6 DEF Shape
<1>7. ASSUME NEW t \in Threads, EventsLock(t) PROVE Shape(t)
    <2>1. stack[t] # <<>> /\ Top(t).pc = "events_lock" /\ ~exited
        BY <1>7 DEF EventsLock, At
    <2>2. CASE InitContext /\ Goto(t, "waiting") /\ UNCHANGED <<owner, depth, exited>>
        <3>1. LockFits(t, Top(t).pc \in Locked, "waiting" \in Locked)
            BY <2>1, <2>2 DEF LockFits
        <3> QED
            BY <2>1, <2>2, <3>1, InitContextSets, GotoShape
    <2>3. CASE LockAndWait(t)
        BY <2>1, <2>3, LockAndWaitShape
    <2> QED
        BY <1>7, <2>2, <2>3 DEF EventsLock
<1>8. ASSUME NEW t \in Threads, TimedLock(t) PROVE Shape(t)
    BY <1>8, LockAndWaitShape DEF TimedLock, At
<1>9. ASSUME NEW t \in Threads, TimedLockExpires(t) PROVE Shape(t)
    <2>1. /\ stack[t] # <<>> /\ Top(t).pc = "timed_lock" /\ ~exited
          /\ Goto(t, "unlocked_timeouts") /\ UNCHANGED <<owner, depth, inits, exited>>
        BY <1>9 DEF TimedLockExpires, At
    <2>2. inits = 1
        BY <2>1, TopSetUp DEF LockInv
    <2>3. LockFits(t, Top(t).pc \in Locked, "unlocked_timeouts" \in Locked)
        BY <2>1 DEF LockFits
    <2> QED
        BY <2>1, <2>2, <2>3, GotoShape
<1>10. ASSUME NEW t \in Threads, ExpiredReturns(t) PROVE Shape(t)
    <2>1. LockFits(t, Top(t).pc \in Locked, FALSE)
        BY <1>10 DEF ExpiredReturns, At, LockFits
    <2> QED
        BY <1>10, <2>1, ReturnShape DEF ExpiredReturns, At
<1>11. ASSUME NEW t \in Threads, Wake(t) PROVE Shape(t)
    <2>1. /\ stack[t] # <<>> /\ Top(t).pc = "waiting" /\ ~exited
          /\ UNCHANGED <<owner, depth, inits, exited>>
        BY <1>11 DEF Wake, At
    <2>2. inits = 1
        BY <2>1, TopSetUp DEF LockInv
    <2>3. ASSUME NEW label \in {"relock_event", "relock_timeout"}, Goto(t, label)
          PROVE  Shape(t)
        <3>1. LockFits(t, Top(t).pc \in Locked, label \in Locked)
            BY <2>1 DEF LockFits
        <3> QED
            BY <2>1, <2>2, <2>3, <3>1, GotoShape
    <2> QED
        BY <1>11, <2>3 DEF Wake
<1>12. ASSUME NEW t \in Threads, RelockForEvents(t) PROVE Shape(t)
    <2>1. /\ stack[t] # <<>> /\ Top(t).pc = "relock_event" /\ ~exited
          /\ Lock(t) /\ Goto(t, "handling") /\ UNCHANGED <<inits, exited>>
        BY <1>12 DEF RelockForEvents, At
    <2>2. inits = 1
        BY <2>1, TopSetUp DEF LockInv
    <2>3. LockFits(t, Top(t).pc \in Locked, "handling" \in Locked)
        BY <2>1 DEF LockFits
    <2> QED
        BY <2>1, <2>2, <2>3, GotoShape
<1>13. ASSUME NEW t \in Threads, RelockForTimeouts(t) PROVE Shape(t)
    <2>1. /\ stack[t] # <<>> /\ Top(t).pc = "relock_timeout" /\ ~exited
          /\ Lock(t) /\ Goto(t, "timeouts") /\ UNCHANGED <<inits, exited>>
        BY <1>13 DEF RelockForTimeouts, At
    <2>2. inits = 1
        BY <2>1, TopSetUp DEF LockInv
    <2>3. LockFits(t, Top(t).pc \in Locked, "timeouts" \in Locked)
        BY <2>1 DEF LockFits
    <2> QED
        BY <2>1, <2>2, <2>3, GotoShape
<1>14. ASSUME NEW t \in Threads, EventsHandled(t) PROVE Shape(t)
    <2>1. /\ stack[t] # <<>> /\ Top(t).pc = "handling" /\ ~exited
          /\ UNCHANGED <<inits, exited>>
        BY <1>14 DEF EventsHandled, At
    <2>2. inits = 1
        BY <2>1, TopSetUp DEF LockInv
    <2>3. ASSUME NEW label \in {"events_lock", "waiting"}, Unlock(t), Goto(t, label)
          PROVE  Shape(t)
        <3>1. LockFits(t, Top(t).pc \in Locked, label \in Locked)
            BY <2>1, <2>3 DEF LockFits
        <3> QED
            BY <2>1, <2>2, <2>3, <3>1, GotoShape
    <2>4. CASE Goto(t, "timeouts") /\ UNCHANGED <<owner, depth>>
        <3>1. LockFits(t, Top(t).pc \in Locked, "timeouts" \in Locked)
            BY <2>1, <2>4 DEF LockFits
        <3> QED
            BY <2>1, <2>2, <2>4, <3>1, GotoShape
    <2>5. CASE Unlock(t) /\ Return(t)
        <3>1. LockFits(t, Top(t).pc \in Locked, FALSE)
            BY <2>1, <2>5 DEF LockFits
        <3> QED
            BY <2>1, <2>5, <3>1, ReturnShape
    <2> QED
        BY <1>14, <2>3, <2>4, <2>5 DEF EventsHandled
<1>15. ASSUME NEW t \in Threads, TimeoutsProcessed(t) PROVE Shape(t)
    <2>1. LockFits(t, Top(t).pc \in Locked, FALSE)
        BY <1>15 DEF TimeoutsProcessed, At, LockFits
    <2> QED
        BY <1>15, <2>1, ReturnShape DEF TimeoutsProcessed, At
<1> QED
    BY <1>1, <1>2, <1>3, <1>4, <1>5, <1>6, <1>7, <1>8, <1>9, <1>10, <1>11, <1>12,
       <1>13, <1>14, <1>15 DEF Next

(***************************************************************************)
(* A step of any shape preserves the invariant.                            *)
(***************************************************************************)

\* A step leaves the stacks of the other threads alone; its own is the one pushed,
\* moved, or popped.
LEMMA StacksAfter ==
    ASSUME TypeOK, NEW t \in Threads, NEW s, stack' = [stack EXCEPT ![t] = s]
    PROVE  /\ stack'[t] = s
           /\ \A u \in Threads : u # t => stack'[u] = stack[u]
           /\ s \in Seq(Frame) => stack' \in [Threads -> Seq(Frame)]
    BY DEF TypeOK

\* What LockFits makes of the mutex and of the count of its owner.
LEMMA LockFitsCount ==
    ASSUME TypeOK, NEW t \in Threads, NEW was \in BOOLEAN, NEW is \in BOOLEAN,
           owner = Nobody <=> depth = 0,
           NEW n \in Nat,
           n + (IF was THEN 1 ELSE 0) = (IF owner = t THEN depth ELSE 0),
           LockFits(t, was, is)
    PROVE  /\ owner' \in Threads \cup {Nobody} /\ depth' \in Nat
           /\ owner' = Nobody <=> depth' = 0
           /\ n + (IF is THEN 1 ELSE 0) = (IF owner' = t THEN depth' ELSE 0)
           /\ \A u \in Threads : u # t =>
                  (IF owner' = u THEN depth' ELSE 0) = (IF owner = u THEN depth ELSE 0)
<1> USE DEF TypeOK
<1>1. CASE (was <=> is) /\ owner' = owner /\ depth' = depth
    BY <1>1
<1>2. CASE ~was /\ is /\ Lock(t)
    BY <1>2 DEF Lock, CanLock
<1>3. CASE was /\ ~is /\ Unlock(t)
    BY <1>3 DEF Unlock
<1> QED
    BY <1>1, <1>2, <1>3 DEF LockFits

LEMMA PushPreserves ==
    ASSUME LockInv, NEW t \in Threads, NEW f \in Frame, Push(t, f),
           UNCHANGED <<owner, depth, inits>>,
           exited' \in BOOLEAN, exited' => inits' = 0
    PROVE  LockInv'
<1> DEFINE s == Append(stack[t], f)
<1>1. stack[t] \in Seq(Frame) /\ stack' = [stack EXCEPT ![t] = s]
    BY DEF LockInv, TypeOK, Push
<1>2. /\ s \in Seq(Frame)
      /\ Len(s) = Len(stack[t]) + 1
      /\ \A i \in 1 .. Len(stack[t]) : s[i] = stack[t][i]
      /\ s[Len(s)] = f
      /\ Held(s) = Held(stack[t]) + (IF f.pc \in Locked THEN 1 ELSE 0)
    BY <1>1, Pushed
<1> HIDE DEF s
<1>3. /\ stack'[t] = s
      /\ \A u \in Threads : u # t => stack'[u] = stack[u]
      /\ stack' \in [Threads -> Seq(Frame)]
    BY <1>1, <1>2, StacksAfter DEF LockInv
<1>4. Len(stack[t]) \in Nat /\ Len(s) <= MaxFrames
    BY <1>1, <1>2 DEF Push, MayCall
<1>5. TypeOK'
    BY <1>3, <1>4 DEF LockInv, TypeOK
<1>6. StackInv'
    <2>1. ASSUME NEW i \in 1 .. Len(s), i < Len(s)
          PROVE  s[i].pc = "handling"
        <3>1. i \in 1 .. Len(stack[t]) /\ s[i] = stack[t][i]
            BY <1>2, <1>4, <2>1
        <3>2. CASE i < Len(stack[t])
            BY <3>1, <3>2 DEF LockInv, StackInv
        <3>3. CASE i = Len(stack[t])
            BY <3>1, <3>3 DEF Push, MayCall, At, Top
        <3> QED
            BY <1>4, <3>1, <3>2, <3>3
    <2> QED
        BY <1>3, <2>1 DEF LockInv, StackInv
<1>7. SetUpInv'
    <2>1. ASSUME NEW i \in 1 .. Len(s), Uses(s[i])
          PROVE  inits = 1
        <3>1. i # Len(s)
            BY <1>2, <2>1 DEF Push, Uses
        <3>2. i \in 1 .. Len(stack[t]) /\ s[i] = stack[t][i]
            BY <1>2, <1>4, <2>1, <3>1
        <3> QED
            BY <2>1, <3>2 DEF LockInv, SetUpInv
    <2> QED
        BY <1>3, <2>1 DEF LockInv, SetUpInv
<1>8. CountInv'
    <2>1. f.pc \notin Locked
        BY DEF Push, UsesContext, Locked
    <2>2. Held(s) = Held(stack[t])
        <3>1. Held(stack[t]) \in Nat
            BY <1>4, HeldUpToType DEF Held
        <3> QED
            BY <1>2, <2>1, <3>1
    <2> QED
        BY <1>3, <2>2 DEF LockInv, CountInv
<1> QED
    BY <1>5, <1>6, <1>7, <1>8 DEF LockInv

LEMMA MovePreserves ==
    ASSUME LockInv, NEW t \in Threads, NEW f \in Frame, Move(t, f),
           LockFits(t, Top(t).pc \in Locked, f.pc \in Locked),
           inits' \in {inits, 1}, Uses(f) => inits' = 1,
           exited' \in BOOLEAN, exited' => inits' = 0
    PROVE  LockInv'
<1> DEFINE s == Moved(stack[t], f)
           n == HeldUpTo(stack[t], Len(stack[t]) - 1)
<1>1. /\ stack[t] \in Seq(Frame) /\ stack[t] # <<>>
      /\ stack' = [stack EXCEPT ![t] = s]
    BY DEF LockInv, TypeOK, Move
<1>2. /\ s \in Seq(Frame)
      /\ Len(s) = Len(stack[t])
      /\ \A i \in 1 .. Len(stack[t]) - 1 : s[i] = stack[t][i]
      /\ s[Len(stack[t])] = f
      /\ Held(s) = n + (IF f.pc \in Locked THEN 1 ELSE 0)
    <2> DEFINE r == stack[t]
    <2>1. r \in Seq(Frame) /\ r # <<>>
        BY <1>1
    <2> HIDE DEF r
    <2>2. /\ Moved(r, f) \in Seq(Frame)
          /\ Len(Moved(r, f)) = Len(r)
          /\ \A i \in 1 .. Len(r) - 1 : Moved(r, f)[i] = r[i]
          /\ Moved(r, f)[Len(r)] = f
          /\ Held(Moved(r, f)) = HeldUpTo(r, Len(r) - 1)
                                    + (IF f.pc \in Locked THEN 1 ELSE 0)
        BY <2>1, MovedFrame
    <2> QED
        BY <2>2 DEF r
<1>3. /\ n \in Nat
      /\ Held(stack[t]) = n + (IF Top(t).pc \in Locked THEN 1 ELSE 0)
    BY <1>1, HeldLast DEF Top
<1> HIDE DEF s, n
<1>4. /\ stack'[t] = s
      /\ \A u \in Threads : u # t => stack'[u] = stack[u]
      /\ stack' \in [Threads -> Seq(Frame)]
    BY <1>1, <1>2, StacksAfter DEF LockInv
<1>5. Len(s) \in Nat /\ \A i \in 1 .. Len(s) : i = Len(s) \/ i \in 1 .. Len(stack[t]) - 1
    BY <1>1, <1>2
<1>6. /\ owner' \in Threads \cup {Nobody} /\ depth' \in Nat
      /\ owner' = Nobody <=> depth' = 0
      /\ Held(s) = (IF owner' = t THEN depth' ELSE 0)
      /\ \A u \in Threads : u # t =>
             (IF owner' = u THEN depth' ELSE 0) = (IF owner = u THEN depth ELSE 0)
    <2> DEFINE was == Top(t).pc \in Locked
               is == f.pc \in Locked
    <2>1. /\ n + (IF was THEN 1 ELSE 0) = (IF owner = t THEN depth ELSE 0)
          /\ owner = Nobody <=> depth = 0
          /\ was \in BOOLEAN /\ is \in BOOLEAN
        BY <1>3 DEF LockInv, CountInv
    <2>2. LockFits(t, was, is)
        OBVIOUS
    <2>3. Held(s) = n + (IF is THEN 1 ELSE 0)
        BY <1>2
    <2> HIDE DEF was, is
    <2> QED
        BY <1>3, <2>1, <2>2, <2>3, LockFitsCount DEF LockInv
<1>7. TypeOK'
    <2>1. Len(s) <= MaxFrames /\ \A u \in Threads : Len(stack[u]) <= MaxFrames
        BY <1>2 DEF LockInv, TypeOK
    <2>2. \A u \in Threads : Len(stack'[u]) <= MaxFrames
        BY <1>4, <2>1
    <2>3. inits' \in Nat
        BY DEF LockInv, SetUpInv
    <2> QED
        BY <1>4, <1>6, <2>2, <2>3 DEF TypeOK
<1>8. StackInv'
    <2>1. ASSUME NEW i \in 1 .. Len(s), i < Len(s)
          PROVE  s[i].pc = "handling"
        <3>1. i \in 1 .. Len(stack[t]) - 1 /\ s[i] = stack[t][i]
            BY <1>2, <1>5, <2>1
        <3>2. i \in 1 .. Len(stack[t]) /\ i < Len(stack[t])
            BY <1>1, <3>1
        <3> QED
            BY <3>1, <3>2 DEF LockInv, StackInv
    <2>2. \A u \in Threads : u # t =>
              \A i \in 1 .. Len(stack[u]) :
                  i < Len(stack[u]) => stack[u][i].pc = "handling"
        BY DEF LockInv, StackInv
    <2> QED
        BY <1>4, <2>1, <2>2 DEF StackInv
<1>9. SetUpInv'
    <2>1. ASSUME NEW i \in 1 .. Len(s), Uses(s[i])
          PROVE  inits' = 1
        <3>1. CASE i = Len(s)
            BY <1>2, <2>1, <3>1
        <3>2. CASE i \in 1 .. Len(stack[t]) - 1
            <4>1. i \in 1 .. Len(stack[t]) /\ s[i] = stack[t][i]
                BY <1>1, <1>2, <3>2
            <4> QED
                BY <2>1, <4>1 DEF LockInv, SetUpInv
        <3> QED
            BY <1>5, <3>1, <3>2
    <2>2. inits' \in {0, 1} /\ (inits = 1 => inits' = 1)
        BY DEF LockInv, SetUpInv
    <2> QED
        BY <1>4, <2>1, <2>2 DEF LockInv, SetUpInv
<1>10. CountInv'
    BY <1>4, <1>6 DEF LockInv, CountInv
<1> QED
    BY <1>7, <1>8, <1>9, <1>10 DEF LockInv

LEMMA PopPreserves ==
    ASSUME LockInv, NEW t \in Threads, Pop(t),
           LockFits(t, Top(t).pc \in Locked, FALSE), inits' = inits,
           exited' \in BOOLEAN, exited' => inits' = 0
    PROVE  LockInv'
<1> DEFINE s == Front(stack[t])
           n == HeldUpTo(stack[t], Len(stack[t]) - 1)
<1>1. /\ stack[t] \in Seq(Frame) /\ stack[t] # <<>>
      /\ stack' = [stack EXCEPT ![t] = s]
    BY DEF LockInv, TypeOK, Pop
<1>2. /\ s \in Seq(Frame)
      /\ Len(s) = Len(stack[t]) - 1
      /\ \A i \in 1 .. Len(stack[t]) - 1 : s[i] = stack[t][i]
      /\ Held(s) = n
    BY <1>1, FrontFrames
<1>3. /\ n \in Nat
      /\ Held(stack[t]) = n + (IF Top(t).pc \in Locked THEN 1 ELSE 0)
    BY <1>1, HeldLast DEF Top
<1> HIDE DEF s, n
<1>4. /\ stack'[t] = s
      /\ \A u \in Threads : u # t => stack'[u] = stack[u]
      /\ stack' \in [Threads -> Seq(Frame)]
    BY <1>1, <1>2, StacksAfter DEF LockInv
<1>5. /\ Len(s) \in Nat /\ Len(stack[t]) \in Nat /\ Len(s) < Len(stack[t])
      /\ \A i \in 1 .. Len(s) : i \in 1 .. Len(stack[t]) /\ s[i] = stack[t][i]
    BY <1>1, <1>2
<1>6. /\ owner' \in Threads \cup {Nobody} /\ depth' \in Nat
      /\ owner' = Nobody <=> depth' = 0
      /\ Held(s) = (IF owner' = t THEN depth' ELSE 0)
      /\ \A u \in Threads : u # t =>
             (IF owner' = u THEN depth' ELSE 0) = (IF owner = u THEN depth ELSE 0)
    <2> DEFINE was == Top(t).pc \in Locked
               is == FALSE
    <2>1. /\ n + (IF was THEN 1 ELSE 0) = (IF owner = t THEN depth ELSE 0)
          /\ owner = Nobody <=> depth = 0
          /\ was \in BOOLEAN /\ is \in BOOLEAN
        BY <1>3 DEF LockInv, CountInv
    <2>2. LockFits(t, was, is)
        OBVIOUS
    <2>3. Held(s) = n + (IF is THEN 1 ELSE 0)
        BY <1>2, <1>3
    <2> HIDE DEF was, is
    <2> QED
        BY <1>3, <2>1, <2>2, <2>3, LockFitsCount DEF LockInv
<1>7. TypeOK'
    <2>1. Len(s) <= MaxFrames /\ \A u \in Threads : Len(stack[u]) <= MaxFrames
        BY <1>5 DEF LockInv, TypeOK
    <2>2. \A u \in Threads : Len(stack'[u]) <= MaxFrames
        BY <1>4, <2>1
    <2>3. inits' \in Nat
        BY DEF LockInv, SetUpInv
    <2> QED
        BY <1>4, <1>6, <2>2, <2>3 DEF TypeOK
<1>8. StackInv'
    <2>1. \A i \in 1 .. Len(s) : s[i].pc = "handling"
        BY <1>5 DEF LockInv, StackInv
    <2> QED
        BY <1>4, <2>1 DEF LockInv, StackInv
<1>9. SetUpInv'
    BY <1>4, <1>5 DEF LockInv, SetUpInv
<1>10. CountInv'
    BY <1>4, <1>6 DEF LockInv, CountInv
<1> QED
    BY <1>7, <1>8, <1>9, <1>10 DEF LockInv

LEMMA LockInvStep == LockInv /\ [Next]_vars => LockInv'
<1> SUFFICES ASSUME LockInv, [Next]_vars PROVE LockInv'
    OBVIOUS
<1>1. CASE UNCHANGED vars
    BY <1>1 DEF vars, LockInv, TypeOK, StackInv, SetUpInv, CountInv
<1>2. CASE Next
    <2>1. PICK t \in Threads : Shape(t)
        BY <1>2, StepShape
    <2>2. CASE UNCHANGED <<stack, owner, depth, inits>>
        BY <2>1, <2>2 DEF Shape, LockInv, TypeOK, StackInv, SetUpInv, CountInv
    <2> QED
        BY <2>1, <2>2, PushPreserves, MovePreserves, PopPreserves DEF Shape
<1> QED
    BY <1>1, <1>2

LEMMA LockInvInit == Init => LockInv
<1> SUFFICES ASSUME Init PROVE LockInv
    OBVIOUS
<1>1. \A t \in Threads : stack[t] = <<>> /\ Len(stack[t]) = 0
    BY DEF Init
<1>2. \A t \in Threads : Held(stack[t]) = 0
    <2> SUFFICES ASSUME NEW t \in Threads PROVE Held(stack[t]) = 0
        OBVIOUS
    <2>1. {i \in 1 .. 0 : stack[t][i].pc \in Locked} = {}
        OBVIOUS
    <2> QED
        BY <1>1, <2>1, FS_EmptySet DEF Held, HeldUpTo
<1>3. TypeOK
    <2>1. stack \in [Threads -> Seq(Frame)]
        BY DEF Init
    <2>2. \A t \in Threads : Len(stack[t]) <= MaxFrames
        BY <1>1
    <2> QED
        BY <2>1, <2>2 DEF Init, TypeOK
<1>4. StackInv /\ SetUpInv
    BY <1>1 DEF Init, StackInv, SetUpInv
<1>5. CountInv
    BY <1>2 DEF Init, CountInv
<1> QED
    BY <1>3, <1>4, <1>5 DEF LockInv

\* The strengthening holds in every state.
THEOREM LockInvariant == Spec => []LockInv
    BY LockInvInit, LockInvStep, PTL DEF Spec

(***************************************************************************)
(* The theorems.                                                           *)
(***************************************************************************)

\* Every state of DstcLock is typed: no operation unlocks a mutex more often than it
\* was locked (__dstc_unlock_context), at any depth of nesting.
THEOREM LockTypeCorrect == Spec => []TypeOK
    BY LockInvariant, PTL DEF LockInv

\* The mutex is held as often as its owner's operations count on it, and no thread
\* holds it outside one: the unlock around a wait in _dstc_process_single_event()
\* gives back what its caller had, however deep in other operations it is.
THEOREM LockBalancedCorrect == Spec => []LockBalanced
<1>1. LockInv => LockBalanced
    BY DEF LockInv, CountInv, LockBalanced, Holding, Held, HeldUpTo
<1> QED
    BY <1>1, LockInvariant, PTL

\* The context is set up at most once, and before any operation but registering works
\* on it or waits on its descriptor (__dstc_lock_and_init_context).
THEOREM SetUpOnceCorrect == Spec => []SetUpOnce
<1>1. LockInv => SetUpOnce
    <2> SUFFICES ASSUME LockInv PROVE SetUpOnce
        OBVIOUS
    <2>1. inits <= 1
        BY DEF LockInv, SetUpInv
    <2>2. ASSUME NEW t \in Threads, NEW i \in 1 .. Len(stack[t]),
                 stack[t][i].pc \in Locked \cup {"waiting", "timed_lock", "unlocked_timeouts"},
                 ~Registering(stack[t][i])
          PROVE  inits = 1
        BY <2>2 DEF Locked, LockInv, SetUpInv, Uses, UsesContext
    <2> QED
        BY <2>1, <2>2 DEF SetUpOnce
<1> QED
    BY <1>1, LockInvariant, PTL

\* Two threads are at work on the context together only when one of them went on
\* without the lock after its time limit (the ETIME path of dstc_process_events()).
THEOREM ExclusiveButForExpiryCorrect == Spec => []ExclusiveButForExpiry
<1>1. LockInv => ExclusiveButForExpiry
    <2> SUFFICES ASSUME LockInv, NEW t \in Threads, NEW u \in Threads, t # u,
                        Working(t), Working(u)
                 PROVE  At(t, "unlocked_timeouts") \/ At(u, "unlocked_timeouts")
        BY DEF ExclusiveButForExpiry
    <2>1. ASSUME NEW v \in Threads, NEW i \in 1 .. Len(stack[v]), stack[v][i].pc \in Locked
          PROVE  owner = v
        <3>1. Len(stack[v]) \in Nat
            BY DEF LockInv, TypeOK
        <3>2. Held(stack[v]) > 0
            BY <2>1, <3>1, HeldPositive DEF Held
        <3> QED
            BY <3>2 DEF LockInv, CountInv
    <2>2. ASSUME NEW v \in Threads, Working(v), owner # v
          PROVE  At(v, "unlocked_timeouts")
        <3>1. PICK i \in 1 .. Len(stack[v]) :
                  stack[v][i].pc \in Locked \cup {"unlocked_timeouts"}
            BY <2>2 DEF Working
        <3>2. stack[v][i].pc = "unlocked_timeouts"
            BY <2>1, <2>2, <3>1
        <3>3. stack[v] \in Seq(Frame) /\ i = Len(stack[v])
            BY <3>1, <3>2 DEF LockInv, TypeOK, StackInv
        <3>4. inits = 1
            BY <3>1, <3>2 DEF LockInv, SetUpInv, Uses, UsesContext, Registering
        <3>5. ~exited
            BY <3>4 DEF LockInv, SetUpInv
        <3> QED
            BY <3>1, <3>2, <3>3, <3>5 DEF At, Top
    <2> QED
        BY <2>2
<1> QED
    BY <1>1, LockInvariant, PTL
=============================================================================
