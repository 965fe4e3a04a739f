------------------------- MODULE DstcDispatchProof --------------------------
(***************************************************************************)
(* Proofs about DstcDispatch, for any calls and declarations of arguments, *)
(* any buffer, depth of nesting and number of calls.                       *)
(*                                                                         *)
(* The first invariant, IInv, does not look into the bytes: a packet is    *)
(* marked as dispatched when it is taken, so that no two frames of         *)
(* dispatch ever have the same one, and a frame only goes forward.         *)
(*                                                                         *)
(* The lemmas about DstcCodec say that what a call is written as is read   *)
(* back as that call, wherever in a packet it stands. What they need of    *)
(* induction is InductionTo, which has a set for its parameter.            *)
(*                                                                         *)
(* The second, Whole, says that the buffer and the packets are the frames  *)
(* of the calls made, one after the other and in their order, that a frame *)
(* of dispatch is always where one of them begins, and that what ran is    *)
(* what was called.                                                        *)
(***************************************************************************)
EXTENDS DstcDispatch, FiniteSetTheorems, SequenceTheorems, TLAPS

---------------------------------------------------------------------------
(* The first invariant.                                                    *)

\* What a frame of dispatch and what ran have of the packets dispatched so far.
FrameOK(f, last) ==
    /\ DOMAIN f = {"pack", "ind", "nth", "running"}
    /\ f.pack \in 0..last
    /\ f.nth \in Nat
    /\ f.running \in BOOLEAN

Shape ==
    /\ dispatched \in Nat
    /\ \E S : stack \in Seq(S)
    /\ \E S : ran \in Seq(S)
    /\ \A i \in DOMAIN stack : FrameOK(stack[i], dispatched)
    /\ \A r \in DOMAIN ran : ran[r].pack \in 1..dispatched /\ ran[r].nth \in Nat

\* No two frames have the same packet.
Apart ==
    \A i, j \in DOMAIN stack :
        stack[i].pack = stack[j].pack /\ stack[i].pack # 0 => i = j

\* The calls of its packet a frame has begun; what ran of a packet that is still
\* dispatched is among them.
Begun(f) == f.nth + (IF f.running THEN 1 ELSE 0)
Passed ==
    \A r \in DOMAIN ran, i \in DOMAIN stack :
        ran[r].pack = stack[i].pack => ran[r].nth <= Begun(stack[i])

\* A call at its place in its packet runs once, and so does a callback.
RunOnce ==
    \A r, q \in DOMAIN ran : r # q =>
        /\ <<ran[r].pack, ran[r].nth>> # <<ran[q].pack, ran[q].nth>>
        /\ ran[r].name = "" /\ ran[q].name = "" => ran[r].ref # ran[q].ref
Deactivated == \A r \in DOMAIN ran : ran[r].name = "" => ran[r].ref \notin callbacks

\* The first invariant.
IInv ==
    /\ Shape
    /\ Apart
    /\ Passed
    /\ RunOnce
    /\ Deactivated
    /\ PayloadsFreedAfterUse

---------------------------------------------------------------------------
(* The stack.                                                              *)

LEMMA TopIsThere ==
    ASSUME NEW S, stack \in Seq(S), stack # <<>>
    PROVE  Len(stack) \in DOMAIN stack /\ DOMAIN stack = 1..Len(stack) /\ Len(stack) \in Nat \ {0}
  OBVIOUS

\* A frame that stays with its packet and does not go back changes nothing the
\* invariant is about.
LEMMA MoveKeeps ==
    ASSUME IInv, stack # <<>>, NEW f, FrameOK(f, dispatched), f.pack = Top.pack,
           Begun(f) >= Begun(Top), SetTop(f),
           UNCHANGED <<dispatched, freed, callbacks, ran>>
    PROVE  IInv'
  <1>1. PICK S : stack \in Seq(S)
    BY DEF IInv, Shape
  <1>2. Len(stack) \in DOMAIN stack /\ DOMAIN stack = 1..Len(stack) /\ Len(stack) \in Nat \ {0}
    BY <1>1, TopIsThere
  <1>3. stack' \in Seq(S \cup {f})
    BY <1>1, <1>2 DEF SetTop
  <1>4. /\ DOMAIN stack' = DOMAIN stack
        /\ stack'[Len(stack)] = f
        /\ \A i \in DOMAIN stack : i # Len(stack) => stack'[i] = stack[i]
    BY <1>1, <1>2 DEF SetTop
  <1>5. \A i \in DOMAIN stack : stack'[i].pack = stack[i].pack
    BY <1>4 DEF Top
  <1>6. \A i \in DOMAIN stack' : FrameOK(stack'[i], dispatched')
    <2>1. \A i \in DOMAIN stack : FrameOK(stack[i], dispatched)
      BY DEF IInv, Shape
    <2>2. \A i \in DOMAIN stack : FrameOK(stack'[i], dispatched)
      BY <1>4, <2>1
    <2> QED
      BY <1>4, <2>2 DEF FrameOK
  <1>7. Shape'
    <2>1. \E T : stack' \in Seq(T)
      BY <1>3
    <2>2. (\E T : ran \in Seq(T))'
      BY DEF IInv, Shape
    <2> QED
      BY <1>6, <2>1, <2>2 DEF IInv, Shape
  <1>8. Apart'
    BY <1>4, <1>5 DEF IInv, Apart
  <1>9. Passed'
    <2> SUFFICES ASSUME NEW r \in DOMAIN ran, NEW i \in DOMAIN stack,
                        ran[r].pack = stack'[i].pack
                 PROVE  ran[r].nth <= Begun(stack'[i])
      BY <1>4 DEF Passed, Begun
    <2>1. ran[r].nth <= Begun(stack[i]) /\ ran[r].nth \in Nat
      BY <1>5 DEF IInv, Passed, Shape
    <2>2. Begun(Top) \in Nat /\ Begun(f) \in Nat
      <3>1. FrameOK(Top, dispatched)
        BY <1>2 DEF Top, IInv, Shape
      <3> QED
        BY <3>1 DEF Begun, FrameOK
    <2>3. CASE i = Len(stack)
      BY <1>4, <2>1, <2>2, <2>3 DEF Top
    <2>4. CASE i # Len(stack)
      BY <1>4, <2>1, <2>4
    <2> QED
      BY <2>3, <2>4
  <1>10. RunOnce' /\ Deactivated'
    <2>1. RunOnce'
      BY DEF IInv, RunOnce
    <2>2. Deactivated'
      BY DEF IInv, Deactivated
    <2> QED
      BY <2>1, <2>2
  <1>11. PayloadsFreedAfterUse'
    <2>1. OnStack' = OnStack
      BY <1>4, <1>5 DEF OnStack
    <2> QED
      BY <2>1 DEF IInv, PayloadsFreedAfterUse
  <1> QED
    BY <1>7, <1>8, <1>9, <1>10, <1>11 DEF IInv

---------------------------------------------------------------------------
(* The operations.                                                         *)

LEMMA InitHolds == Init => IInv
  <1> SUFFICES ASSUME Init PROVE IInv
    OBVIOUS
  <1> USE DEF Init
  <1>1. Shape
    <2>1. stack \in Seq({}) /\ ran \in Seq({})
      OBVIOUS
    <2> QED
      BY <2>1 DEF Shape
  <1>2. Apart /\ Passed /\ RunOnce /\ Deactivated
    BY DEF Apart, Passed, RunOnce, Deactivated
  <1>3. PayloadsFreedAfterUse
    BY DEF PayloadsFreedAfterUse, OnStack
  <1> QED
    BY <1>1, <1>2, <1>3 DEF IInv

\* The sender, and a step that leaves everything as it is.
LEMMA OthersKeep ==
    ASSUME IInv, UNCHANGED <<dispatched, freed, callbacks, stack, ran>>
    PROVE  IInv'
  <1>1. Shape'
    <2>1. (\E S : stack \in Seq(S))' /\ (\E S : ran \in Seq(S))'
      BY DEF IInv, Shape
    <2>2. \A i \in DOMAIN stack' : FrameOK(stack'[i], dispatched')
      BY DEF IInv, Shape, FrameOK
    <2>3. \A r \in DOMAIN ran' : ran'[r].pack \in 1..dispatched' /\ ran'[r].nth \in Nat
      BY DEF IInv, Shape
    <2>4. dispatched' \in Nat
      BY DEF IInv, Shape
    <2> QED
      BY <2>1, <2>2, <2>3, <2>4 DEF Shape
  <1>2. Apart' /\ Passed' /\ RunOnce' /\ Deactivated'
    <2>1. Apart' /\ Passed'
      BY DEF IInv, Apart, Passed, Begun
    <2>2. RunOnce' /\ Deactivated'
      BY DEF IInv, RunOnce, Deactivated
    <2> QED
      BY <2>1, <2>2
  <1>3. PayloadsFreedAfterUse'
    BY DEF IInv, PayloadsFreedAfterUse, OnStack
  <1> QED
    BY <1>1, <1>2, <1>3 DEF IInv

LEMMA ReadEventKeeps ==
    ASSUME IInv, ReadEvent
    PROVE  IInv'
  <1> DEFINE n == Len(stack) + 1
  <1>1. PICK S : stack \in Seq(S)
    BY DEF IInv, Shape
  <1>2. stack' = Append(stack, NoPacket) /\ UNCHANGED <<dispatched, freed, callbacks, ran>>
    BY DEF ReadEvent
  <1>3. Len(stack) \in Nat /\ DOMAIN stack = 1..Len(stack)
    BY <1>1
  <1>4. stack \in Seq(S \cup {NoPacket})
    BY <1>1
  <1>5. stack' \in Seq(S \cup {NoPacket})
    BY <1>2, <1>4
  <1>6. /\ DOMAIN stack' = DOMAIN stack \cup {n}
        /\ stack'[n] = NoPacket
        /\ \A i \in DOMAIN stack : stack'[i] = stack[i]
    BY <1>2, <1>3, <1>4
  <1>7. NoPacket.pack = 0 /\ FrameOK(NoPacket, dispatched)
    BY DEF NoPacket, FrameOK, IInv, Shape
  <1>8. Shape'
    <2>1. \A i \in DOMAIN stack' : FrameOK(stack'[i], dispatched)
      BY <1>6, <1>7 DEF IInv, Shape
    <2>2. \A i \in DOMAIN stack' : FrameOK(stack'[i], dispatched')
      BY <1>2, <2>1 DEF FrameOK
    <2>3. \E T : stack' \in Seq(T)
      BY <1>5
    <2>4. (\E T : ran \in Seq(T))'
      BY <1>2 DEF IInv, Shape
    <2>5. dispatched' \in Nat
      BY <1>2 DEF IInv, Shape
    <2>6. \A r \in DOMAIN ran' : ran'[r].pack \in 1..dispatched' /\ ran'[r].nth \in Nat
      BY <1>2 DEF IInv, Shape
    <2> QED
      BY <2>2, <2>3, <2>4, <2>5, <2>6 DEF Shape
  <1>9. Apart'
    BY <1>6, <1>7 DEF IInv, Apart
  <1>10. Passed'
    <2>1. \A r \in DOMAIN ran : ran[r].pack # 0
      BY DEF IInv, Shape
    <2> QED
      BY <1>2, <1>6, <1>7, <2>1 DEF IInv, Passed, Begun
  <1>11. RunOnce' /\ Deactivated'
    <2>1. RunOnce'
      BY <1>2 DEF IInv, RunOnce
    <2>2. Deactivated'
      BY <1>2 DEF IInv, Deactivated
    <2> QED
      BY <2>1, <2>2
  <1>12. PayloadsFreedAfterUse'
    <2>1. OnStack' = OnStack
      BY <1>6, <1>7 DEF OnStack
    <2> QED
      BY <1>2, <2>1 DEF IInv, PayloadsFreedAfterUse
  <1> QED
    BY <1>8, <1>9, <1>10, <1>11, <1>12 DEF IInv

\* A packet is taken by the innermost frame, and by no other, as its number is new;
\* or there is none, and the frame is over, which has no packet.
LEMMA TakePacketKeeps ==
    ASSUME IInv, TakePacket
    PROVE  IInv'
  <1> DEFINE n == Len(stack)
             f == [NoPacket EXCEPT !.pack = dispatched + 1]
  <1>1. PICK S : stack \in Seq(S)
    BY DEF IInv, Shape
  <1>2. stack # <<>> /\ Top.pack = 0 /\ UNCHANGED <<freed, callbacks, ran>>
    BY DEF TakePacket, Dispatching
  <1>3. n \in DOMAIN stack /\ DOMAIN stack = 1..n /\ n \in Nat \ {0}
    BY <1>1, <1>2, TopIsThere
  <1>4. dispatched \in Nat
    BY DEF IInv, Shape
  <1>5. (\E T : ran \in Seq(T))'
    BY <1>2 DEF IInv, Shape
  <1>6. RunOnce' /\ Deactivated'
    <2>1. RunOnce'
      BY <1>2 DEF IInv, RunOnce
    <2>2. Deactivated'
      BY <1>2 DEF IInv, Deactivated
    <2> QED
      BY <2>1, <2>2
  <1>7. CASE dispatched < arrived
    <2>1. SetTop(f) /\ dispatched' = dispatched + 1
      BY <1>7 DEF TakePacket
    <2>2. stack' \in Seq(S \cup {f})
      BY <1>1, <1>3, <2>1 DEF SetTop
    <2>3. /\ DOMAIN stack' = DOMAIN stack
          /\ stack'[n] = f
          /\ \A i \in DOMAIN stack : i # n => stack'[i] = stack[i]
      BY <1>1, <1>3, <2>1 DEF SetTop
    <2>4. /\ f.pack = dispatched + 1 /\ f.nth = 0 /\ f.running = FALSE
          /\ DOMAIN f = {"pack", "ind", "nth", "running"}
      BY DEF NoPacket
    <2>5. \A i \in DOMAIN stack' : FrameOK(stack'[i], dispatched')
      <3>1. ASSUME NEW i \in DOMAIN stack', i # n
            PROVE  FrameOK(stack'[i], dispatched')
        <4>1. FrameOK(stack[i], dispatched) /\ stack'[i] = stack[i]
          BY <2>3, <3>1 DEF IInv, Shape
        <4> QED
          BY <1>4, <2>1, <4>1 DEF FrameOK
      <3>2. FrameOK(stack'[n], dispatched')
        <4>1. f.running \in BOOLEAN
          BY <2>4
        <4> HIDE DEF f
        <4>2. f.pack \in 0..dispatched' /\ f.nth \in Nat
          BY <1>4, <2>1, <2>4
        <4> QED
          BY <2>3, <2>4, <4>1, <4>2 DEF FrameOK
      <3> QED
        BY <3>1, <3>2
    <2>6. \A r \in DOMAIN ran' : ran'[r].pack \in 1..dispatched' /\ ran'[r].nth \in Nat
      BY <1>2, <1>4, <2>1 DEF IInv, Shape
    <2>7. Shape'
      <3>1. \E T : stack' \in Seq(T)
        BY <2>2
      <3>2. dispatched' \in Nat
        BY <1>4, <2>1
      <3> QED
        BY <1>5, <2>5, <2>6, <3>1, <3>2 DEF Shape
    <2>8. \A i \in DOMAIN stack : stack[i].pack # dispatched + 1
      BY <1>4 DEF IInv, Shape, FrameOK
    <2>9. Apart'
      BY <2>3, <2>4, <2>8 DEF IInv, Apart
    <2>10. Passed'
      <3>1. \A r \in DOMAIN ran : ran[r].pack # dispatched + 1
        BY <1>4 DEF IInv, Shape
      <3> QED
        BY <1>2, <2>3, <2>4, <3>1 DEF IInv, Passed, Begun
    <2>11. PayloadsFreedAfterUse'
      <3>1. OnStack' = OnStack \cup {dispatched + 1}
        <4>1. stack[n].pack = 0
          BY <1>2 DEF Top
        <4> QED
          BY <1>3, <1>4, <2>3, <2>4, <4>1 DEF OnStack
      <3>2. 1..dispatched' = 1..dispatched \cup {dispatched + 1}
        BY <1>4, <2>1
      <3>3. dispatched + 1 \notin 1..dispatched
        BY <1>4
      <3> QED
        BY <1>2, <3>1, <3>2, <3>3 DEF IInv, PayloadsFreedAfterUse
    <2> QED
      BY <1>6, <2>7, <2>9, <2>10, <2>11 DEF IInv
  <1>8. CASE ~(dispatched < arrived)
    <2>1. stack' = SubSeq(stack, 1, n - 1) /\ dispatched' = dispatched
      BY <1>8 DEF TakePacket, Front
    <2>2. /\ stack' \in Seq(S)
          /\ DOMAIN stack' = 1..n - 1
          /\ \A i \in 1..n - 1 : stack'[i] = stack[i]
      BY <1>1, <1>3, <2>1
    <2>3. DOMAIN stack = DOMAIN stack' \cup {n} /\ DOMAIN stack' \subseteq DOMAIN stack
      BY <1>3, <2>2
    <2>4. Shape'
      <3>1. \A i \in DOMAIN stack' : FrameOK(stack'[i], dispatched')
        BY <2>1, <2>2, <2>3 DEF IInv, Shape, FrameOK
      <3>2. \E T : stack' \in Seq(T)
        BY <2>2
      <3>3. \A r \in DOMAIN ran' : ran'[r].pack \in 1..dispatched' /\ ran'[r].nth \in Nat
        BY <1>2, <2>1 DEF IInv, Shape
      <3> QED
        BY <1>4, <1>5, <2>1, <3>1, <3>2, <3>3 DEF Shape
    <2>5. Apart' /\ Passed'
      BY <1>2, <2>2, <2>3 DEF IInv, Apart, Passed, Begun
    <2>6. PayloadsFreedAfterUse'
      <3>1. stack[n].pack = 0
        BY <1>2 DEF Top
      <3>2. OnStack' = OnStack
        BY <2>2, <2>3, <3>1 DEF OnStack
      <3> QED
        BY <1>2, <2>1, <3>2 DEF IInv, PayloadsFreedAfterUse
    <2> QED
      BY <1>6, <2>4, <2>5, <2>6 DEF IInv
  <1> QED
    BY <1>7, <1>8

\* A packet whose last call has returned is freed and leaves its frame: it is on the
\* stack no more, as no other frame has it.
LEMMA FreePayloadKeeps ==
    ASSUME IInv, FreePayload
    PROVE  IInv'
  <1> DEFINE n == Len(stack)
             p == Top.pack
  <1>1. PICK S : stack \in Seq(S)
    BY DEF IInv, Shape
  <1>2. /\ stack # <<>> /\ p # 0
        /\ freed' = freed \cup {p}
        /\ SetTop(NoPacket)
        /\ UNCHANGED <<dispatched, callbacks, ran>>
    BY DEF FreePayload, Dispatching
  <1>3. n \in DOMAIN stack /\ DOMAIN stack = 1..n /\ n \in Nat \ {0}
    BY <1>1, <1>2, TopIsThere
  <1>4. stack' \in Seq(S \cup {NoPacket})
    BY <1>1, <1>2, <1>3 DEF SetTop
  <1>5. /\ DOMAIN stack' = DOMAIN stack
        /\ stack'[n] = NoPacket
        /\ \A i \in DOMAIN stack : i # n => stack'[i] = stack[i]
    BY <1>1, <1>2, <1>3 DEF SetTop
  <1>6. dispatched \in Nat /\ p \in 1..dispatched
    BY <1>2, <1>3 DEF IInv, Shape, FrameOK, Top
  <1>7. /\ NoPacket.pack = 0 /\ NoPacket.nth = 0 /\ NoPacket.running = FALSE
        /\ DOMAIN NoPacket = {"pack", "ind", "nth", "running"}
    BY DEF NoPacket
  <1>8. Shape'
    <2>1. ASSUME NEW i \in DOMAIN stack', i # n
          PROVE  FrameOK(stack'[i], dispatched')
      <3>1. FrameOK(stack[i], dispatched) /\ stack'[i] = stack[i]
        BY <1>5, <2>1 DEF IInv, Shape
      <3> QED
        BY <1>2, <3>1 DEF FrameOK
    <2>2. FrameOK(stack'[n], dispatched')
      <3>1. NoPacket.pack \in 0..dispatched' /\ NoPacket.nth \in Nat
        BY <1>2, <1>6, <1>7
      <3>2. NoPacket.running \in BOOLEAN
        BY <1>7
      <3> QED
        BY <1>5, <1>7, <3>1, <3>2 DEF FrameOK
    <2>3. \A i \in DOMAIN stack' : FrameOK(stack'[i], dispatched')
      BY <2>1, <2>2
    <2>4. \E T : stack' \in Seq(T)
      BY <1>4
    <2>5. (\E T : ran \in Seq(T))'
      BY <1>2 DEF IInv, Shape
    <2>6. \A r \in DOMAIN ran' : ran'[r].pack \in 1..dispatched' /\ ran'[r].nth \in Nat
      BY <1>2 DEF IInv, Shape
    <2> QED
      BY <1>2, <1>6, <2>3, <2>4, <2>5, <2>6 DEF Shape
  <1>9. Apart'
    BY <1>5, <1>7 DEF IInv, Apart
  <1>10. Passed'
    <2>1. \A r \in DOMAIN ran : ran[r].pack # 0
      BY DEF IInv, Shape
    <2> QED
      BY <1>2, <1>5, <1>7, <2>1 DEF IInv, Passed, Begun
  <1>11. RunOnce' /\ Deactivated'
    <2>1. RunOnce'
      BY <1>2 DEF IInv, RunOnce
    <2>2. Deactivated'
      BY <1>2 DEF IInv, Deactivated
    <2> QED
      BY <2>1, <2>2
  <1>12. PayloadsFreedAfterUse'
    <2>1. \A q : q \in OnStack <=> q # 0 /\ \E i \in DOMAIN stack : stack[i].pack = q
      BY DEF OnStack
    <2>2. \A q : q \in OnStack' <=> q # 0 /\ \E i \in DOMAIN stack' : stack'[i].pack = q
      BY DEF OnStack
    <2>3. /\ stack[n].pack = p
          /\ \A i \in DOMAIN stack : stack[i].pack = p => i = n
      <3>1. stack[n].pack = p
        BY DEF Top
      <3> HIDE DEF n, p
      <3>2. \A i \in DOMAIN stack : stack[i].pack = stack[n].pack => i = n
        BY <1>2, <1>3, <3>1 DEF IInv, Apart
      <3> QED
        BY <3>1, <3>2
    <2> HIDE DEF n, p
    <2>4. OnStack' = OnStack \ {p}
      <3>1. ASSUME NEW q \in OnStack'
            PROVE  q \in OnStack \ {p}
        BY <1>5, <1>7, <2>1, <2>2, <2>3
      <3>2. ASSUME NEW q \in OnStack \ {p}
            PROVE  q \in OnStack'
        BY <1>5, <2>1, <2>2, <2>3
      <3> QED
        BY <3>1, <3>2
    <2> QED
      BY <1>2, <1>6, <2>4 DEF IInv, PayloadsFreedAfterUse
  <1> QED
    BY <1>8, <1>9, <1>10, <1>11, <1>12 DEF IInv

\* A callback that runs is deactivated; a function has none.
Spends(name, ref) ==
    \/ name # "" /\ callbacks' = callbacks
    \/ name = "" /\ ref \in callbacks /\ callbacks' = callbacks \ {ref}

\* A call runs: it is further on in its packet than what ran of it, and a callback is
\* one that is activated still.
LEMMA RunKeeps ==
    ASSUME IInv, stack # <<>>, Top.pack # 0, ~Top.running,
           UNCHANGED <<dispatched, freed>>,
           NEW func, NEW cb, NEW skip, Run(func, cb, skip),
           Spends(func, cb)
    PROVE  IInv'
  <1> DEFINE n == Len(stack)
             m == Len(ran) + 1
             f == [Top EXCEPT !.running = TRUE]
             new == [pack |-> Top.pack, nth |-> Top.nth + 1, name |-> func, ref |-> cb,
                     args |-> DESERIALIZE_ARGUMENTS(Decls[func], Payload,
                                                    Top.ind + sizeof_header + skip),
                     under |-> {stack[i].pack : i \in 1..Len(stack) - 1}]
  <1>1. PICK S : stack \in Seq(S)
    BY DEF IInv, Shape
  <1>2. PICK T : ran \in Seq(T)
    BY DEF IInv, Shape
  <1>3. n \in DOMAIN stack /\ DOMAIN stack = 1..n /\ n \in Nat \ {0}
    BY <1>1, TopIsThere
  <1>4. ran' = Append(ran, new) /\ SetTop(f)
    BY DEF Run
  <1>5. new.pack = Top.pack /\ new.nth = Top.nth + 1 /\ new.name = func /\ new.ref = cb
    OBVIOUS
  <1>6. FrameOK(Top, dispatched)
    BY <1>3 DEF IInv, Shape, Top
  <1>7. /\ f.pack = Top.pack /\ f.nth = Top.nth /\ f.running = TRUE
        /\ DOMAIN f = {"pack", "ind", "nth", "running"}
    BY <1>6 DEF FrameOK
  <1> HIDE DEF f, new
  <1>8. stack' \in Seq(S \cup {f}) /\ ran' \in Seq(T \cup {new})
    <2>1. ran \in Seq(T \cup {new})
      BY <1>2
    <2> QED
      BY <1>1, <1>3, <1>4, <2>1 DEF SetTop
  <1>9. /\ DOMAIN stack' = DOMAIN stack
        /\ stack'[n] = f
        /\ \A i \in DOMAIN stack : i # n => stack'[i] = stack[i]
    BY <1>1, <1>3, <1>4 DEF SetTop
  <1>10. /\ DOMAIN ran' = DOMAIN ran \cup {m} /\ m \notin DOMAIN ran
         /\ ran'[m] = new
         /\ \A r \in DOMAIN ran : ran'[r] = ran[r]
    <2>1. ran \in Seq(T \cup {new}) /\ Len(ran) \in Nat /\ DOMAIN ran = 1..Len(ran)
      BY <1>2
    <2> QED
      BY <1>4, <2>1
  <1>11. FrameOK(f, dispatched')
    <2>1. f.running \in BOOLEAN
      BY <1>7
    <2> QED
      BY <1>6, <1>7, <2>1 DEF FrameOK
  <1>12. dispatched \in Nat /\ Top.pack \in 1..dispatched /\ Top.nth \in Nat
    BY <1>6 DEF FrameOK, IInv, Shape
  <1>13. Shape'
    <2>1. \A i \in DOMAIN stack' : FrameOK(stack'[i], dispatched')
      BY <1>9, <1>11 DEF IInv, Shape
    <2>2. \A r \in DOMAIN ran' : ran'[r].pack \in 1..dispatched' /\ ran'[r].nth \in Nat
      BY <1>5, <1>10, <1>12 DEF IInv, Shape
    <2>3. (\E Q : stack' \in Seq(Q)) /\ (\E Q : ran' \in Seq(Q))
      BY <1>8
    <2> QED
      BY <1>12, <2>1, <2>2, <2>3 DEF Shape
  <1>14. \A i \in DOMAIN stack : stack'[i].pack = stack[i].pack
    BY <1>7, <1>9 DEF Top
  <1>15. Apart'
    BY <1>9, <1>14 DEF IInv, Apart
  <1>16. Begun(Top) = Top.nth /\ Begun(f) = Top.nth + 1
    BY <1>7, <1>12 DEF Begun
  <1>17. \A r \in DOMAIN ran : ran[r].pack = Top.pack => ran[r].nth <= Top.nth
    BY <1>3, <1>16 DEF IInv, Passed, Top
  <1>18. Passed'
    <2>1. ASSUME NEW r \in DOMAIN ran, NEW i \in DOMAIN stack,
                 ran[r].pack = stack'[i].pack
          PROVE  ran[r].nth <= Begun(stack'[i])
      <3>1. CASE i = n
        <4>1. ran[r].nth \in Nat /\ ran[r].nth <= Top.nth
          BY <1>7, <1>9, <1>17, <2>1, <3>1 DEF IInv, Shape
        <4> QED
          BY <1>9, <1>12, <1>16, <3>1, <4>1
      <3>2. CASE i # n
        BY <1>9, <2>1, <3>2 DEF IInv, Passed
      <3> QED
        BY <3>1, <3>2
    <2>2. ASSUME NEW i \in DOMAIN stack, new.pack = stack'[i].pack
          PROVE  new.nth <= Begun(stack'[i])
      <3>1. i = n
        BY <1>3, <1>5, <1>14, <2>2 DEF IInv, Apart, Top
      <3> QED
        BY <1>5, <1>9, <1>12, <1>16, <3>1
    <2> QED
      BY <1>9, <1>10, <2>1, <2>2 DEF Passed, Begun
  <1>19. RunOnce'
    <2>1. ASSUME NEW r \in DOMAIN ran
          PROVE  <<ran[r].pack, ran[r].nth>> # <<new.pack, new.nth>>
      <3>1. ran[r].nth \in Nat
        BY DEF IInv, Shape
      <3> QED
        BY <1>5, <1>12, <1>17, <3>1
    <2>2. ASSUME NEW r \in DOMAIN ran, ran[r].name = "", new.name = ""
          PROVE  ran[r].ref # new.ref
      BY <1>5, <2>2 DEF IInv, Deactivated, Spends
    <2>3. ASSUME NEW r \in DOMAIN ran', NEW q \in DOMAIN ran', r # q
          PROVE  /\ <<ran'[r].pack, ran'[r].nth>> # <<ran'[q].pack, ran'[q].nth>>
                 /\ ran'[r].name = "" /\ ran'[q].name = "" => ran'[r].ref # ran'[q].ref
      <3>1. CASE r \in DOMAIN ran /\ q \in DOMAIN ran
        BY <1>10, <2>3, <3>1 DEF IInv, RunOnce
      <3>2. CASE r = m /\ q \in DOMAIN ran
        BY <1>10, <2>1, <2>2, <3>2
      <3>3. CASE r \in DOMAIN ran /\ q = m
        BY <1>10, <2>1, <2>2, <3>3
      <3> QED
        BY <1>10, <2>3, <3>1, <3>2, <3>3
    <2> QED
      BY <2>3 DEF RunOnce
  <1>20. Deactivated'
    <2>1. \A r \in DOMAIN ran : ran[r].name = "" => ran[r].ref \notin callbacks'
      BY DEF IInv, Deactivated, Spends
    <2>2. func = "" => cb \notin callbacks'
      BY DEF Spends
    <2> QED
      BY <1>5, <1>10, <2>1, <2>2 DEF Deactivated
  <1>21. PayloadsFreedAfterUse'
    <2>1. OnStack' = OnStack
      BY <1>9, <1>14 DEF OnStack
    <2> QED
      BY <2>1 DEF IInv, PayloadsFreedAfterUse
  <1> QED
    BY <1>13, <1>15, <1>18, <1>19, <1>20, <1>21 DEF IInv

\* A frame that goes on to the next call of its packet begins none by that, and a
\* call that was running has been begun.
LEMMA NextCallMoves ==
    ASSUME IInv, stack # <<>>, NEW size
    PROVE  /\ FrameOK(NextCall(Top, size), dispatched)
           /\ NextCall(Top, size).pack = Top.pack
           /\ Begun(NextCall(Top, size)) >= Begun(Top)
  <1> DEFINE f == NextCall(Top, size)
  <1>1. PICK S : stack \in Seq(S)
    BY DEF IInv, Shape
  <1>2. Len(stack) \in DOMAIN stack
    BY <1>1, TopIsThere
  <1>3. FrameOK(Top, dispatched)
    BY <1>2 DEF IInv, Shape, Top
  <1>4. /\ f.pack = Top.pack /\ f.nth = Top.nth + 1 /\ f.running = FALSE
        /\ DOMAIN f = {"pack", "ind", "nth", "running"}
    BY <1>3 DEF NextCall, FrameOK
  <1> HIDE DEF f
  <1>5. f.running \in BOOLEAN
    BY <1>4
  <1>6. Top.nth \in Nat /\ Top.running \in BOOLEAN
    BY <1>3 DEF FrameOK
  <1>7. FrameOK(f, dispatched)
    BY <1>3, <1>4, <1>5, <1>6 DEF FrameOK
  <1>8. Begun(f) = Top.nth + 1
    BY <1>4, <1>6 DEF Begun
  <1>9. Begun(Top) <= Top.nth + 1
    BY <1>6 DEF Begun
  <1>10. Begun(f) >= Begun(Top)
    BY <1>6, <1>8, <1>9 DEF Begun
  <1> QED
    BY <1>4, <1>7, <1>10 DEF f

LEMMA FunctionCallKeeps ==
    ASSUME IInv, dstc_process_function_call
    PROVE  IInv'
  <1>1. /\ stack # <<>> /\ Top.pack # 0 /\ ~Top.running
        /\ UNCHANGED <<dispatched, freed>>
    BY DEF dstc_process_function_call, Dispatching
  <1>2. ASSUME NEW size, SetTop(NextCall(Top, size)), UNCHANGED <<callbacks, ran>>
        PROVE  IInv'
    BY <1>1, <1>2, NextCallMoves, MoveKeeps
  <1>3. CASE Remaining < sizeof_header \/ Remaining - sizeof_header < PayloadLen
    BY <1>2, <1>3 DEF dstc_process_function_call
  <1>4. CASE /\ ~(Remaining < sizeof_header \/ Remaining - sizeof_header < PayloadLen)
             /\ Name # ""
    <2>1. CASE _dstc_find_server_function(Name) # {}
      <3>1. Run(Name, "", 2) /\ callbacks' = callbacks
        BY <1>4, <2>1 DEF dstc_process_function_call
      <3>2. Spends(Name, "")
        BY <1>4, <3>1 DEF Spends
      <3> QED
        BY <1>1, <3>1, <3>2, RunKeeps
    <2>2. CASE _dstc_find_server_function(Name) = {}
      <3>1. SetTop(NextCall(Top, sizeof_header + PayloadLen)) /\ UNCHANGED <<callbacks, ran>>
        BY <1>4, <2>2 DEF dstc_process_function_call
      <3> QED
        BY <1>2, <3>1
    <2> QED
      BY <2>1, <2>2
  <1>5. CASE /\ ~(Remaining < sizeof_header \/ Remaining - sizeof_header < PayloadLen)
             /\ ~(Name # "")
    <2> DEFINE ref == Read("ref", Payload, Top.ind + sizeof_header + 1, sizeof_callback)
    <2>1. CASE ref \in callbacks
      <3>1. Run("", ref, 1 + sizeof_callback) /\ callbacks' = callbacks \ {ref}
        BY <1>5, <2>1 DEF dstc_process_function_call
      <3>2. Spends("", ref)
        BY <2>1, <3>1 DEF Spends
      <3> QED
        BY <1>1, <3>1, <3>2, RunKeeps
    <2>2. CASE ref \notin callbacks
      <3>1. SetTop(NextCall(Top, sizeof_header + PayloadLen)) /\ UNCHANGED <<callbacks, ran>>
        BY <1>5, <2>2 DEF dstc_process_function_call
      <3> QED
        BY <1>2, <3>1
    <2> QED
      BY <2>1, <2>2
  <1> QED
    BY <1>3, <1>4, <1>5

LEMMA FunctionReturnsKeeps ==
    ASSUME IInv, FunctionReturns
    PROVE  IInv'
  <1>1. /\ stack # <<>>
        /\ SetTop(NextCall(Top, sizeof_header + PayloadLen))
        /\ UNCHANGED <<dispatched, freed, callbacks, ran>>
    BY DEF FunctionReturns
  <1> QED
    BY <1>1, NextCallMoves, MoveKeeps

---------------------------------------------------------------------------
LEMMA StepKeeps == IInv /\ [Next]_vars => IInv'
  <1> SUFFICES ASSUME IInv, [Next]_vars PROVE IInv'
    OBVIOUS
  <1>1. ASSUME NEW call, NEW frame, _dstc_queue(call, frame)
        PROVE  IInv'
    BY <1>1, OthersKeep DEF _dstc_queue
  <1>2. CASE dstc_flush_client_calls
    BY <1>2, OthersKeep DEF dstc_flush_client_calls
  <1>3. CASE UNCHANGED vars
    BY <1>3, OthersKeep DEF vars
  <1>4. CASE Receive
    BY <1>4, ReadEventKeeps, TakePacketKeeps, FunctionCallKeeps, FunctionReturnsKeeps,
       FreePayloadKeeps DEF Receive
  <1> QED
    BY <1>1, <1>2, <1>3, <1>4 DEF Next

LEMMA Invariant == Spec => []IInv
  BY InitHolds, StepKeeps, PTL DEF Spec

\* The payload a function's arguments point into is not freed before the function
\* returns, and then it is, however deep dispatch nests (dstc.c:626-657).
THEOREM PayloadsFreedAfterUseCorrect == Spec => []PayloadsFreedAfterUse
  <1>1. IInv => PayloadsFreedAfterUse
    BY DEF IInv
  <1> QED
    BY <1>1, Invariant, PTL

\* No place of a packet is run twice, though a function that runs may process events
\* and meet the very packet it is from; nor is a callback (dstc.c:515-584, 626-657).
THEOREM RunOnceCorrect == Spec => []RunOnce
  <1>1. IInv => RunOnce
    BY DEF IInv
  <1> QED
    BY <1>1, Invariant, PTL
------------------------------------------------------------------------

---------------------------------------------------------------------------
(* Sequences.                                                              *)

\* Of some set, or another.
IsSeq(s) == \E S : s \in Seq(S)

LEMMA Concat ==
    ASSUME NEW s, NEW t, IsSeq(s), IsSeq(t)
    PROVE  /\ IsSeq(s \o t)
           /\ Len(s) \in Nat /\ Len(t) \in Nat
           /\ Len(s \o t) = Len(s) + Len(t)
           /\ \A i \in 1..Len(s) : (s \o t)[i] = s[i]
           /\ \A i \in 1..Len(t) : (s \o t)[Len(s) + i] = t[i]
  <1>1. PICK S : s \in Seq(S)
    BY DEF IsSeq
  <1>2. PICK T : t \in Seq(T)
    BY DEF IsSeq
  <1>3. s \in Seq(S \cup T) /\ t \in Seq(S \cup T)
    BY <1>1, <1>2
  <1>4. s \o t \in Seq(S \cup T)
    BY <1>3
  <1>5. /\ Len(s) \in Nat /\ Len(t) \in Nat
        /\ Len(s \o t) = Len(s) + Len(t)
        /\ \A i \in 1..Len(s) : (s \o t)[i] = s[i]
        /\ \A i \in 1..Len(t) : (s \o t)[Len(s) + i] = t[i]
    BY <1>3
  <1> QED
    BY <1>4, <1>5 DEF IsSeq

\* What is defined from 1 to a natural number is a sequence.
LEMMA FunctionIsSeq ==
    ASSUME NEW f, NEW n \in Nat, f = [i \in 1..n |-> f[i]]
    PROVE  IsSeq(f) /\ Len(f) = n /\ f \in Seq({f[i] : i \in 1..n})
  <1>1. f \in Seq({f[i] : i \in 1..n})
    OBVIOUS
  <1>2. DOMAIN f = 1..n
    OBVIOUS
  <1>3. Len(f) = n
    BY <1>1, <1>2
  <1>4. IsSeq(f)
    BY <1>1 DEF IsSeq
  <1> QED
    BY <1>1, <1>3, <1>4

LEMMA SameSeq ==
    ASSUME NEW s, NEW t, IsSeq(s), IsSeq(t), NEW n \in Nat, Len(s) = n, Len(t) = n,
           \A i \in 1..n : s[i] = t[i]
    PROVE  s = t
  <1>1. PICK S : s \in Seq(S)
    BY DEF IsSeq
  <1>2. PICK T : t \in Seq(T)
    BY DEF IsSeq
  <1>3. s \in Seq(S \cup T) /\ t \in Seq(S \cup T)
    BY <1>1, <1>2
  <1> QED
    BY <1>3, SeqEqual

LEMMA SameSingle ==
    ASSUME NEW s, NEW t, IsSeq(s), IsSeq(t), Len(s) = 1, Len(t) = 1, s[1] = t[1]
    PROVE  s = t
  <1>1. PICK n \in Nat : n = 1
    OBVIOUS
  <1>2. \A i \in 1..n : i = 1
    BY <1>1
  <1>3. \A i \in 1..n : s[i] = t[i]
    BY <1>2
  <1>4. Len(s) = n /\ Len(t) = n
    BY <1>1
  <1> HIDE <1>1
  <1> QED
    BY <1>3, <1>4, SameSeq

LEMMA BytesAre ==
    ASSUME NEW kind, NEW value, NEW n \in Nat
    PROVE  /\ IsSeq(Bytes(kind, value, n)) /\ Len(Bytes(kind, value, n)) = n
           /\ \A i \in 1..n : Bytes(kind, value, n)[i] = <<kind, value, i>>
  <1> DEFINE f == Bytes(kind, value, n)
  <1>1. f = [i \in 1..n |-> f[i]] /\ \A i \in 1..n : f[i] = <<kind, value, i>>
    BY DEF Bytes
  <1> HIDE DEF f
  <1>2. IsSeq(f) /\ Len(f) = n
    BY <1>1, FunctionIsSeq
  <1> QED
    BY <1>1, <1>2 DEF f

LEMMA SingleIs ==
    ASSUME NEW x
    PROVE  IsSeq(<<x>>) /\ Len(<<x>>) = 1 /\ <<x>>[1] = x
  <1>1. <<x>> \in Seq({x})
    OBVIOUS
  <1> QED
    BY <1>1 DEF IsSeq

LEMMA PrefixIs ==
    ASSUME NEW s, IsSeq(s), NEW m \in Nat, NEW n \in Nat, m + n <= Len(s)
    PROVE  /\ IsSeq(SubSeq(s, m + 1, m + n)) /\ Len(SubSeq(s, m + 1, m + n)) = n
           /\ \A i \in 1..n : SubSeq(s, m + 1, m + n)[i] = s[m + i]
  <1>1. PICK S : s \in Seq(S)
    BY DEF IsSeq
  <1>2. \A i \in (m + 1)..(m + n) : s[i] \in S
    BY <1>1
  <1>3. /\ SubSeq(s, m + 1, m + n) \in Seq(S)
        /\ Len(SubSeq(s, m + 1, m + n)) = n
        /\ \A i \in 1..n : SubSeq(s, m + 1, m + n)[i] = s[m + i]
    BY <1>1, <1>2
  <1> QED
    BY <1>3 DEF IsSeq

---------------------------------------------------------------------------
\* s stands in cells after the first "at".
At(cells, at, s) ==
    /\ at + Len(s) <= Len(cells)
    /\ \A i \in 1..Len(s) : cells[at + i] = s[i]

LEMMA AtConcat ==
    ASSUME NEW cells, NEW at \in Nat, NEW s, NEW t, IsSeq(s), IsSeq(t), IsSeq(cells),
           At(cells, at, s \o t)
    PROVE  At(cells, at, s) /\ At(cells, at + Len(s), t) /\ at + Len(s) \in Nat
  <1> DEFINE u == s \o t
  <1>1. /\ Len(s) \in Nat /\ Len(t) \in Nat /\ Len(u) = Len(s) + Len(t)
        /\ \A i \in 1..Len(s) : u[i] = s[i]
        /\ \A i \in 1..Len(t) : u[Len(s) + i] = t[i]
    BY Concat
  <1>2. Len(cells) \in Nat
    BY DEF IsSeq
  <1>3. at + Len(u) <= Len(cells) /\ \A i \in 1..Len(u) : cells[at + i] = u[i]
    BY DEF At
  <1> HIDE DEF u
  <1>4. At(cells, at, s)
    BY <1>1, <1>2, <1>3 DEF At
  <1>5. \A i \in 1..Len(t) : cells[(at + Len(s)) + i] = t[i]
    <2> TAKE i \in 1..Len(t)
    <2>1. Len(s) + i \in 1..Len(u) /\ at + (Len(s) + i) = (at + Len(s)) + i
      BY <1>1
    <2> QED
      BY <1>1, <1>3, <2>1
  <1>6. At(cells, at + Len(s), t)
    BY <1>1, <1>2, <1>3, <1>5 DEF At
  <1> QED
    BY <1>1, <1>4, <1>6

LEMMA ReadBack ==
    ASSUME NEW cells, IsSeq(cells), NEW at \in Nat, NEW kind, NEW value, NEW n \in Nat, n > 0,
           At(cells, at, Bytes(kind, value, n))
    PROVE  Read(kind, cells, at, n) = value
  <1> DEFINE b == Bytes(kind, value, n)
  <1>1. IsSeq(b) /\ Len(b) = n /\ \A i \in 1..n : b[i] = <<kind, value, i>>
    BY BytesAre
  <1>2. at + n <= Len(cells) /\ \A i \in 1..n : cells[at + i] = b[i]
    BY <1>1 DEF At
  <1>3. cells[at + 1] = <<kind, value, 1>>
    BY <1>1, <1>2
  <1>4. cells[at + 1][2] = value
    BY <1>3
  <1>5. SubSeq(cells, at + 1, at + n) = b
    <2> DEFINE c == SubSeq(cells, at + 1, at + n)
    <2>1. IsSeq(c) /\ Len(c) = n /\ \A i \in 1..n : c[i] = cells[at + i]
      BY <1>2, PrefixIs
    <2> HIDE DEF b, c
    <2>2. \A i \in 1..n : c[i] = b[i]
      BY <1>2, <2>1
    <2>3. c = b
      BY <1>1, <2>1, <2>2, SameSeq
    <2> QED
      BY <2>3 DEF c
  <1> QED
    BY <1>2, <1>4, <1>5 DEF Read

---------------------------------------------------------------------------
\* A set of naturals has a least element: induction over the naturals, as a lemma
\* with a set for its parameter.
LEMMA LeastNatural ==
    ASSUME NEW T, T \subseteq Nat, T # {}
    PROVE  \E m \in T : \A k \in T : m <= k
  <1> DEFINE R == StrictSubsetOrdering(Nat)
             F == {0..k : k \in T}
  <1>1. IsWellFoundedOn(R, FiniteSubsetsOf(Nat))
    BY FS_StrictSubsetOrderingWellFounded
  <1>2. F \subseteq FiniteSubsetsOf(Nat)
    <2>1. \A k \in T : IsFiniteSet(0..k)
      BY FS_Interval
    <2> QED BY <2>1 DEF FiniteSubsetsOf
  <1>3. F # {}
    OBVIOUS
  <1> HIDE DEF R, F
  <1>4. \E x \in F : \A y \in F : ~ (<<y, x>> \in R)
    BY <1>1, <1>2, <1>3, WFMin
  <1>5. PICK m \in T : \A k \in T : ~ (<<0..k, 0..m>> \in R)
    BY <1>4 DEF F
  <1>6. ASSUME NEW k \in T, k < m
        PROVE  FALSE
    <2>1. 0..k \subseteq 0..m /\ 0..k # 0..m
      BY <1>6
    <2>2. <<0..k, 0..m>> \in R
      BY <2>1 DEF R, StrictSubsetOrdering
    <2> QED BY <1>5, <2>2
  <1> QED BY <1>5, <1>6

LEMMA InductionTo ==
    ASSUME NEW n \in Nat, NEW T, 0 \in T, \A k \in 1..n : k - 1 \in T => k \in T
    PROVE  0..n \subseteq T
  <1> DEFINE U == {k \in 0..n : k \notin T}
  <1>1. SUFFICES ASSUME U # {} PROVE FALSE
    OBVIOUS
  <1>2. U \subseteq Nat
    OBVIOUS
  <1>3. PICK m \in U : \A k \in U : m <= k
    <2> HIDE DEF U
    <2> QED
      BY <1>1, <1>2, LeastNatural
  <1>4. m # 0 /\ m \in 1..n
    BY <1>3
  <1>5. m - 1 \in 0..n /\ ~(m <= m - 1)
    BY <1>4
  <1>6. m - 1 \in T
    BY <1>3, <1>5
  <1> QED
    BY <1>3, <1>4, <1>6

\* There is a function that begins with "first" and goes on as "step" says.
Goes(f, n, S, first, step) ==
    f \in [0..n -> S] /\ f[0] = first /\ \A k \in 1..n : f[k] = step[k][f[k - 1]]
LEMMA Recursion ==
    ASSUME NEW n \in Nat, NEW S, NEW first \in S, NEW step \in [1..n -> [S -> S]]
    PROVE  \E f : Goes(f, n, S, first, step)
  <1> DEFINE OK(f, m) == f[0] = first /\ \A k \in 1..m : f[k] = step[k][f[k - 1]]
             T == {m \in 0..n : \E f \in [0..m -> S] : OK(f, m)}
  <1>1. 0 \in T
    <2> DEFINE f == [i \in 0..0 |-> first]
    <2>1. f \in [0..0 -> S] /\ OK(f, 0)
      OBVIOUS
    <2> HIDE DEF f, OK
    <2>2. \E g \in [0..0 -> S] : OK(g, 0)
      BY <2>1
    <2> QED
      BY <2>2
  <1>2. ASSUME NEW m \in 1..n, m - 1 \in T
        PROVE  m \in T
    <2>1. PICK f \in [0..m - 1 -> S] : OK(f, m - 1)
      BY <1>2
    <2> DEFINE next == step[m][f[m - 1]]
               g == [i \in 0..m |-> IF i = m THEN next ELSE f[i]]
    <2>2. m - 1 \in 0..m - 1 /\ 0 \in 0..m - 1 /\ m # 0
      OBVIOUS
    <2>3. next \in S
      BY <2>2
    <2> HIDE DEF next
    <2>4. g \in [0..m -> S] /\ g[m] = next /\ \A i \in 0..m - 1 : g[i] = f[i]
      BY <2>3
    <2> HIDE DEF g
    <2>5. ASSUME NEW k \in 1..m
          PROVE  g[k] = step[k][g[k - 1]]
      <3>1. CASE k = m
        BY <2>2, <2>4, <3>1 DEF next
      <3>2. CASE k # m
        <4>1. k \in 1..m - 1 /\ k \in 0..m - 1 /\ k - 1 \in 0..m - 1
          BY <3>2
        <4> QED
          BY <2>1, <2>4, <4>1
      <3> QED
        BY <3>1, <3>2
    <2>6. g[0] = first
      BY <2>1, <2>2, <2>4
    <2>7. OK(g, m)
      BY <2>5, <2>6
    <2> HIDE DEF OK
    <2>8. \E h \in [0..m -> S] : OK(h, m)
      BY <2>4, <2>7
    <2> QED
      BY <2>8
  <1> HIDE DEF T
  <1>3. 0..n \subseteq T
    BY <1>1, <1>2, InductionTo
  <1>4. n \in T
    BY <1>3
  <1> QED
    BY <1>4 DEF T, Goes

---------------------------------------------------------------------------
\* The sizes of the arguments, added up.
Sums(f, decls, args) ==
    /\ f \in [0..Len(decls) -> Nat] /\ f[0] = 0
    /\ \A i \in 1..Len(decls) : f[i] = f[i - 1] + SIZE_ARGUMENT(decls[i], args[i])
LEMMA SizesAre ==
    ASSUME NEW decls, NEW args, Len(decls) \in Nat,
           \A i \in 1..Len(decls) : SIZE_ARGUMENT(decls[i], args[i]) \in Nat
    PROVE  \E f : Sums(f, decls, args) /\ SIZE_ARGUMENTS(decls, args) = f[Len(decls)]
  <1> DEFINE n == Len(decls)
             size(i) == SIZE_ARGUMENT(decls[i], args[i])
             step == [i \in 1..n |-> [x \in Nat |-> x + size(i)]]
             value(f, i) == IF i = 0 THEN 0 ELSE f[i - 1] + size(i)
             Recursive(f) == f = [i \in 0..n |-> value(f, i)]
             chosen == CHOOSE f : Recursive(f)
  <1>1. SIZE_ARGUMENTS(decls, args) = chosen[n]
    BY DEF SIZE_ARGUMENTS
  <1>2. \A i \in 1..n : size(i) \in Nat
    OBVIOUS
  <1> HIDE DEF n, size
  <1>3. n \in Nat
    BY DEF n
  <1>4. step \in [1..n -> [Nat -> Nat]]
    BY <1>2
  <1>5. \A i \in 1..n, x \in Nat : step[i][x] = x + size(i)
    OBVIOUS
  <1> HIDE DEF step
  <1>6. PICK f : Goes(f, n, Nat, 0, step)
    BY <1>3, <1>4, Recursion
  <1>7. /\ f \in [0..n -> Nat]
        /\ \A i \in 0..n : f[i] = value(f, i)
    <2>1. f \in [0..n -> Nat] /\ f[0] = 0
      BY <1>6 DEF Goes
    <2>2. ASSUME NEW i \in 1..n
          PROVE  f[i] = f[i - 1] + size(i)
      <3>1. i - 1 \in 0..n /\ f[i] = step[i][f[i - 1]]
        BY <1>3, <1>6 DEF Goes
      <3>2. f[i - 1] \in Nat
        BY <2>1, <3>1
      <3> QED
        BY <1>5, <3>1, <3>2
    <2> QED
      BY <1>3, <2>1, <2>2
  <1>8. Recursive(f)
    <2>1. f = [i \in 0..n |-> f[i]]
      BY <1>7
    <2> HIDE DEF value
    <2> QED
      BY <1>7, <2>1
  <1>9. Recursive(chosen)
    <2> HIDE DEF Recursive
    <2> QED
      BY <1>8
  <1> HIDE DEF chosen
  <1>10. chosen = [i \in 0..n |-> value(chosen, i)]
    BY <1>9
  <1>11. chosen[0] = 0 /\ \A i \in 1..n : chosen[i] = chosen[i - 1] + size(i)
    BY <1>3, <1>10
  <1>12. chosen \in [0..n -> Nat]
    <2> DEFINE T == {i \in 0..n : chosen[i] \in Nat}
    <2>1. 0 \in T
      BY <1>3, <1>11
    <2>2. \A i \in 1..n : i - 1 \in T => i \in T
      BY <1>2, <1>3, <1>11
    <2> HIDE DEF T
    <2>3. 0..n \subseteq T
      BY <1>3, <2>1, <2>2, InductionTo
    <2>4. \A i \in 0..n : chosen[i] \in Nat
      BY <2>3 DEF T
    <2>5. chosen = [i \in 0..n |-> chosen[i]]
      <3>1. DOMAIN chosen = 0..n
        BY <1>10
      <3> HIDE DEF value
      <3> QED
        BY <1>10, <3>1
    <2> QED
      BY <2>4, <2>5
  <1> QED
    BY <1>1, <1>11, <1>12 DEF n, size, Sums

\* FlattenSeq() puts one sequence after the other.
Flattens(f, s, n, E) ==
    f \in [0..n -> Seq(E)] /\ f[0] = <<>> /\ \A i \in 1..n : f[i] = f[i - 1] \o s[i]
LEMMA FlattenIs ==
    ASSUME NEW E, NEW s \in Seq(Seq(E))
    PROVE  \E f : Flattens(f, s, Len(s), E) /\ FlattenSeq(s) = f[Len(s)]
  <1> DEFINE n == Len(s)
             step == [i \in 1..n |-> [x \in Seq(E) |-> x \o s[i]]]
             value(f, i) == IF i = 1 THEN s[i] ELSE f[i - 1] \o s[i]
             Recursive(f) == f = [i \in 1..n |-> value(f, i)]
             chosen == CHOOSE f : Recursive(f)
  <1>1. FlattenSeq(s) = IF n = 0 THEN s ELSE chosen[n]
    BY DEF FlattenSeq
  <1>2. n \in Nat /\ (\A i \in 1..n : s[i] \in Seq(E)) /\ (n = 0 => s = <<>>)
    OBVIOUS
  <1> HIDE DEF n
  <1>3. step \in [1..n -> [Seq(E) -> Seq(E)]]
    <2>1. \A i \in 1..n, x \in Seq(E) : x \o s[i] \in Seq(E)
      BY <1>2
    <2> QED
      BY <2>1
  <1>4. \A i \in 1..n, x \in Seq(E) : step[i][x] = x \o s[i]
    OBVIOUS
  <1>5. <<>> \in Seq(E)
    OBVIOUS
  <1> HIDE DEF step
  <1>6. PICK f : Goes(f, n, Seq(E), <<>>, step)
    BY <1>2, <1>3, <1>5, Recursion
  <1>7. Flattens(f, s, n, E)
    <2>1. ASSUME NEW i \in 1..n
          PROVE  f[i] = f[i - 1] \o s[i]
      <3>1. i - 1 \in 0..n /\ f[i] = step[i][f[i - 1]] /\ f \in [0..n -> Seq(E)]
        BY SMTT(30), <1>2, <1>6 DEF Goes
      <3>2. f[i - 1] \in Seq(E)
        BY <3>1
      <3> QED
        BY <1>4, <3>1, <3>2
    <2> QED
      BY <1>6, <2>1 DEF Goes, Flattens
  <1> DEFINE g == [i \in 1..n |-> f[i]]
  <1>8. Recursive(g)
    <2>1. ASSUME NEW i \in 1..n
          PROVE  f[i] = value(g, i)
      <3>1. CASE i = 1
        <4>1. 1 \in 1..n /\ 1 - 1 = 0
          BY <3>1
        <4>2. f[1] = f[0] \o s[1] /\ f[0] = <<>> /\ s[1] \in Seq(E)
          BY <1>2, <1>7, <4>1 DEF Flattens
        <4>3. f[1] = s[1]
          BY <4>2
        <4> QED
          BY <3>1, <4>3
      <3>2. CASE i # 1
        <4>1. i - 1 \in 1..n
          BY <1>2, <3>2
        <4> QED
          BY <1>7, <3>2, <4>1 DEF Flattens
      <3> QED
        BY <3>1, <3>2
    <2> HIDE DEF value
    <2> QED
      BY <2>1
  <1>9. Recursive(chosen)
    <2> HIDE DEF Recursive, g
    <2> QED
      BY <1>8
  <1> HIDE DEF chosen
  <1>10. \A i \in 1..n : chosen[i] = value(chosen, i)
    <2> HIDE DEF value
    <2> QED
      BY <1>9
  <1>11. \A i \in 1..n : chosen[i] = f[i]
    <2> DEFINE T == {i \in 0..n : i = 0 \/ chosen[i] = f[i]}
    <2>1. 0 \in T
      BY <1>2
    <2>2. ASSUME NEW i \in 1..n, i - 1 \in T
          PROVE  i \in T
      <3>1. f[i] = f[i - 1] \o s[i]
        BY <1>7 DEF Flattens
      <3>2. CASE i = 1
        <4>1. 1 \in 1..n /\ 1 - 1 = 0
          BY <3>2
        <4>2. f[1] = f[0] \o s[1] /\ f[0] = <<>> /\ s[1] \in Seq(E) /\ chosen[1] = s[1]
          BY <1>2, <1>7, <1>10, <4>1 DEF Flattens
        <4>3. f[1] = s[1]
          BY <4>2
        <4> QED
          BY <3>2, <4>2, <4>3
      <3>3. CASE i # 1
        <4>1. chosen[i - 1] = f[i - 1]
          BY <2>2, <3>3
        <4>2. chosen[i] = chosen[i - 1] \o s[i]
          BY <1>10, <3>3
        <4>3. chosen[i] = f[i]
          BY <3>1, <4>1, <4>2
        <4> QED
          BY <4>3
      <3> QED
        BY <3>2, <3>3
    <2> HIDE DEF T
    <2>3. 0..n \subseteq T
      BY <1>2, <2>1, <2>2, InductionTo
    <2>4. \A i \in 1..n : i \in T /\ i # 0
      BY <1>2, <2>3
    <2> QED
      BY <2>4 DEF T
  <1>12. FlattenSeq(s) = f[n]
    <2>1. CASE n = 0
      BY <1>1, <1>2, <1>7, <2>1 DEF Flattens
    <2>2. CASE n # 0
      <3>1. n \in 1..n
        BY <1>2, <2>2
      <3> QED
        BY <1>1, <1>11, <2>2, <3>1
    <2> QED
      BY <2>1, <2>2
  <1> QED
    BY <1>7, <1>12 DEF n

\* With one sequence more, FlattenSeq() has that one at its end.
LEMMA FlattenAppend ==
    ASSUME NEW E, NEW s \in Seq(Seq(E)), NEW x \in Seq(E)
    PROVE  FlattenSeq(s) \in Seq(E) /\ FlattenSeq(Append(s, x)) = FlattenSeq(s) \o x
  <1> DEFINE n == Len(s)
             t == Append(s, x)
  <1>1. /\ n \in Nat /\ t \in Seq(Seq(E)) /\ Len(t) = n + 1
        /\ t[n + 1] = x /\ \A i \in 1..n : t[i] = s[i]
    OBVIOUS
  <1> HIDE DEF n, t
  <1>2. PICK f : Flattens(f, s, n, E) /\ FlattenSeq(s) = f[n]
    BY FlattenIs DEF n
  <1>3. PICK g : Flattens(g, t, n + 1, E) /\ FlattenSeq(t) = g[n + 1]
    BY <1>1, FlattenIs
  <1> DEFINE T == {i \in 0..n : g[i] = f[i]}
  <1>4. 0 \in T
    BY <1>1, <1>2, <1>3 DEF Flattens
  <1>5. ASSUME NEW i \in 1..n, i - 1 \in T
        PROVE  i \in T
    <2>1. i \in 1..n + 1
      BY <1>1
    <2>2. f[i] = f[i - 1] \o s[i] /\ g[i] = g[i - 1] \o t[i]
      BY <1>2, <1>3, <2>1 DEF Flattens
    <2>3. g[i - 1] = f[i - 1] /\ t[i] = s[i]
      BY <1>1, <1>5
    <2>4. g[i] = f[i]
      BY <2>2, <2>3
    <2> QED
      BY <2>4
  <1> HIDE DEF T
  <1>6. 0..n \subseteq T
    BY <1>1, <1>4, <1>5, InductionTo
  <1>7. g[n] = f[n]
    BY <1>1, <1>6 DEF T
  <1>8. n + 1 \in 1..n + 1 /\ (n + 1) - 1 = n /\ n \in 0..n
    BY <1>1
  <1>9. g[n + 1] = g[n] \o t[n + 1]
    BY <1>3, <1>8 DEF Flattens
  <1>10. f[n] \in Seq(E)
    BY <1>2, <1>8 DEF Flattens
  <1> QED
    BY <1>1, <1>2, <1>3, <1>7, <1>9, <1>10 DEF t

---------------------------------------------------------------------------
(* One argument.                                                           *)

LEMMA AtLonger ==
    ASSUME NEW s, NEW t, NEW x, NEW at \in Nat, IsSeq(s), IsSeq(t), IsSeq(x), At(s, at, x)
    PROVE  At(s \o t, at, x)
  <1>1. /\ Len(s) \in Nat /\ Len(t) \in Nat /\ Len(s \o t) = Len(s) + Len(t)
        /\ \A i \in 1..Len(s) : (s \o t)[i] = s[i]
    BY Concat
  <1>2. Len(x) \in Nat
    BY DEF IsSeq
  <1> DEFINE u == s \o t
  <1> HIDE DEF u
  <1>3. at + Len(x) <= Len(u)
    BY <1>1, <1>2 DEF At, u
  <1>4. \A i \in 1..Len(x) : u[at + i] = x[i]
    <2> TAKE i \in 1..Len(x)
    <2>1. at + i \in 1..Len(s)
      BY <1>1, <1>2 DEF At
    <2> QED
      BY <1>1, <2>1 DEF At, u
  <1> QED
    BY <1>3, <1>4 DEF At, u

LEMMA AtEnd ==
    ASSUME NEW s, NEW t, IsSeq(s), IsSeq(t)
    PROVE  At(s \o t, Len(s), t)
  BY Concat DEF At

LEMMA AtWithin ==
    ASSUME NEW cells, NEW s, NEW t, NEW at \in Nat, NEW off \in Nat,
           IsSeq(cells), IsSeq(s), IsSeq(t), At(cells, at, s), At(s, off, t)
    PROVE  At(cells, at + off, t)
  <1>1. Len(cells) \in Nat /\ Len(s) \in Nat /\ Len(t) \in Nat
    BY DEF IsSeq
  <1>2. (at + off) + Len(t) <= Len(cells)
    BY <1>1 DEF At
  <1>3. \A i \in 1..Len(t) : cells[(at + off) + i] = t[i]
    <2> TAKE i \in 1..Len(t)
    <2>1. off + i \in 1..Len(s) /\ at + (off + i) = (at + off) + i
      BY <1>1 DEF At
    <2> QED
      BY <2>1 DEF At
  <1> QED
    BY <1>2, <1>3 DEF At

\* What is assumed of a declaration.
DeclOK(decl) ==
    /\ decl.tag \in STRING /\ decl.elem \in Nat \ {0} /\ decl.count \in Nat
    /\ decl.tag = "CBCK" => decl.elem = sizeof_callback /\ decl.count = 0

LEMMA SizePositive ==
    ASSUME NEW decl, DeclOK(decl)
    PROVE  SizeOf(decl) \in Nat \ {0}
  <1>1. ASSUME NEW a \in Nat \ {0}, NEW b \in Nat \ {0}
        PROVE  a * b \in Nat \ {0}
    OBVIOUS
  <1>2. (IF decl.count = 0 THEN 1 ELSE decl.count) \in Nat \ {0}
    BY DEF DeclOK
  <1> QED
    BY <1>1, <1>2 DEF SizeOf, DeclOK

\* Where an argument stands it is read back, and the next one looked for behind it.
Received(decl, arg, got) ==
    IF decl.tag = "DSTC" THEN arg.length # 0 => got = [value |-> arg.value, length |-> arg.length]
    ELSE decl.count # 1 => got = [value |-> arg.value, length |-> 0]
LEMMA OneArgument ==
    ASSUME NEW decl, NEW arg, DeclOK(decl), arg.length \in Nat
    PROVE  /\ IsSeq(SERIALIZE_ARGUMENT(decl, arg))
           /\ Len(SERIALIZE_ARGUMENT(decl, arg)) \in Nat
           /\ SIZE_ARGUMENT(decl, arg) \in Nat
           /\ Len(SERIALIZE_ARGUMENT(decl, arg)) <= SIZE_ARGUMENT(decl, arg)
           /\ \A cells, at : IsSeq(cells) /\ at \in Nat /\ At(cells, at, SERIALIZE_ARGUMENT(decl, arg)) =>
                 /\ DESERIALIZE_ARGUMENT(decl, cells, at).next = at + Len(SERIALIZE_ARGUMENT(decl, arg))
                 /\ Received(decl, arg, DESERIALIZE_ARGUMENT(decl, cells, at).arg)
  <1> DEFINE b == SERIALIZE_ARGUMENT(decl, arg)
  <1>1. CASE decl.tag = "DSTC"
    <2> DEFINE number == Bytes("number", arg.length, sizeof_uint16)
               data == Bytes("data", arg.value, arg.length)
    <2>1. b = number \o data
      BY <1>1 DEF SERIALIZE_ARGUMENT
    <2>2. sizeof_uint16 \in Nat /\ sizeof_uint16 > 0 /\ sizeof_uint16 = 2 /\ sizeof_uint32 = 4
      BY DEF sizeof_uint16, sizeof_uint32
    <2>3. IsSeq(number) /\ Len(number) = 2 /\ IsSeq(data) /\ Len(data) = arg.length
      BY <2>2, BytesAre
    <2> HIDE DEF b, number, data
    <2>4. IsSeq(b) /\ Len(b) = 2 + arg.length
      <3>1. IsSeq(number \o data) /\ Len(number \o data) = Len(number) + Len(data)
        BY <2>3, Concat
      <3> QED
        BY <2>1, <2>3, <3>1
    <2>5. SIZE_ARGUMENT(decl, arg) = 4 + arg.length
      BY <1>1, <2>2 DEF SIZE_ARGUMENT
    <2>6. ASSUME NEW cells, IsSeq(cells), NEW at \in Nat, At(cells, at, b)
          PROVE  /\ DESERIALIZE_ARGUMENT(decl, cells, at).next = at + Len(b)
                 /\ Received(decl, arg, DESERIALIZE_ARGUMENT(decl, cells, at).arg)
      <3>1. At(cells, at, number) /\ At(cells, at + 2, data) /\ at + 2 \in Nat
        BY <2>1, <2>3, <2>6, AtConcat
      <3>2. Read("number", cells, at, sizeof_uint16) = arg.length
        BY <2>2, <2>6, <3>1, ReadBack DEF number
      <3>3. ReadNumber(cells, at) = arg.length
        BY <3>2 DEF ReadNumber
      <3>4. DESERIALIZE_ARGUMENT(decl, cells, at) =
                [arg |-> [value |-> Read("data", cells, at + 2, arg.length), length |-> arg.length],
                 next |-> at + 2 + arg.length]
        BY <1>1, <2>2, <3>3 DEF DESERIALIZE_ARGUMENT
      <3>5. arg.length # 0 => Read("data", cells, at + 2, arg.length) = arg.value
        BY <2>6, <3>1, ReadBack DEF data
      <3> QED
        BY <1>1, <2>4, <3>4, <3>5 DEF Received
    <2> QED
      BY <2>4, <2>5, <2>6 DEF b
  <1>2. CASE decl.tag = "CBCK"
    <2>1. b = Bytes("ref", arg.value, sizeof_callback)
      BY <1>2 DEF SERIALIZE_ARGUMENT
    <2>2. sizeof_callback \in Nat /\ sizeof_callback > 0 /\ sizeof_callback = 8
      BY DEF sizeof_callback
    <2> HIDE DEF b
    <2>3. IsSeq(b) /\ Len(b) = 8
      BY <2>1, <2>2, BytesAre
    <2>4. SIZE_ARGUMENT(decl, arg) = 8
      BY <1>2, <2>2 DEF SIZE_ARGUMENT, SizeOf, DeclOK
    <2>5. ASSUME NEW cells, IsSeq(cells), NEW at \in Nat, At(cells, at, b)
          PROVE  /\ DESERIALIZE_ARGUMENT(decl, cells, at).next = at + Len(b)
                 /\ Received(decl, arg, DESERIALIZE_ARGUMENT(decl, cells, at).arg)
      <3>1. Read("ref", cells, at, sizeof_callback) = arg.value
        BY <2>1, <2>2, <2>5, ReadBack
      <3>2. DESERIALIZE_ARGUMENT(decl, cells, at) =
                [arg |-> [value |-> arg.value, length |-> 0], next |-> at + 8]
        BY <1>2, <2>2, <3>1 DEF DESERIALIZE_ARGUMENT
      <3> QED
        BY <1>2, <2>3, <3>2 DEF Received
    <2> QED
      BY <2>3, <2>4, <2>5 DEF b
  <1>3. CASE decl.tag # "DSTC" /\ decl.tag # "CBCK"
    <2> DEFINE kind == IF decl.count = 1 THEN "pointer" ELSE decl.tag
               n == SizeOf(decl)
    <2>1. b = Bytes(kind, arg.value, n)
      BY <1>3 DEF SERIALIZE_ARGUMENT
    <2>2. n \in Nat /\ n > 0
      BY SizePositive
    <2> HIDE DEF b, n
    <2>3. IsSeq(b) /\ Len(b) = n
      BY <2>1, <2>2, BytesAre
    <2>4. SIZE_ARGUMENT(decl, arg) = n
      BY <1>3 DEF SIZE_ARGUMENT, n
    <2>5. ASSUME NEW cells, IsSeq(cells), NEW at \in Nat, At(cells, at, b)
          PROVE  /\ DESERIALIZE_ARGUMENT(decl, cells, at).next = at + Len(b)
                 /\ Received(decl, arg, DESERIALIZE_ARGUMENT(decl, cells, at).arg)
      <3>1. DESERIALIZE_ARGUMENT(decl, cells, at) =
                [arg |-> [value |-> Read(decl.tag, cells, at, n), length |-> 0], next |-> at + n]
        BY <1>3 DEF DESERIALIZE_ARGUMENT, n
      <3>2. decl.count # 1 => Read(decl.tag, cells, at, n) = arg.value
        BY <2>1, <2>2, <2>5, ReadBack
      <3> QED
        BY <1>3, <2>3, <3>1, <3>2 DEF Received
    <2> QED
      BY <2>2, <2>3, <2>4, <2>5 DEF b
  <1> QED
    BY <1>1, <1>2, <1>3

---------------------------------------------------------------------------
(* All of a call's arguments.                                              *)

LEMMA CommonSet ==
    ASSUME NEW n \in Nat, NEW s, s = [i \in 1..n |-> s[i]], \A i \in 1..n : IsSeq(s[i])
    PROVE  \E E : s \in Seq(Seq(E))
  <1> DEFINE E == UNION {{s[i][k] : k \in DOMAIN s[i]} : i \in 1..n}
  <1>1. ASSUME NEW i \in 1..n
        PROVE  s[i] \in Seq(E)
    <2>1. PICK S : s[i] \in Seq(S)
      BY DEF IsSeq
    <2>2. \A k \in 1..Len(s[i]) : s[i][k] \in E
      BY <2>1
    <2> DEFINE x == s[i]
    <2> HIDE DEF x, E
    <2>3. x = [k \in 1..Len(x) |-> x[k]] /\ Len(x) \in Nat
      BY <2>1 DEF x
    <2>4. x \in Seq(E)
      BY <2>2, <2>3 DEF x
    <2> QED
      BY <2>4 DEF x
  <1> HIDE DEF E
  <1>2. s \in Seq(Seq(E))
    BY <1>1
  <1> QED
    BY <1>2

\* Where the arguments stand, as the lengths of what is before them.
Places(len, decls, args) ==
    /\ len \in [0..Len(decls) -> Nat] /\ len[0] = 0
    /\ \A i \in 1..Len(decls) :
          /\ len[i] = len[i - 1] + Len(SERIALIZE_ARGUMENT(decls[i], args[i]))
          /\ At(SERIALIZE_ARGUMENTS(decls, args), len[i - 1], SERIALIZE_ARGUMENT(decls[i], args[i]))
LEMMA SerializedArguments ==
    ASSUME NEW decls, IsSeq(decls), NEW args,
           \A i \in 1..Len(decls) : DeclOK(decls[i]) /\ args[i].length \in Nat
    PROVE  /\ IsSeq(SERIALIZE_ARGUMENTS(decls, args))
           /\ \E len : Places(len, decls, args) /\ len[Len(decls)] = Len(SERIALIZE_ARGUMENTS(decls, args))
  <1> DEFINE n == Len(decls)
             ser == SERIALIZE_ARGUMENTS(decls, args)
             b(i) == SERIALIZE_ARGUMENT(decls[i], args[i])
             s == [i \in DOMAIN decls |-> b(i)]
  <1>1. n \in Nat /\ DOMAIN decls = 1..n
    BY DEF IsSeq
  <1>2. \A i \in 1..n : IsSeq(b(i)) /\ Len(b(i)) \in Nat
    BY OneArgument
  <1>3. ser = FlattenSeq(s)
    BY DEF SERIALIZE_ARGUMENTS
  <1> HIDE DEF n, ser, b
  <1>4. s = [i \in 1..n |-> s[i]] /\ \A i \in 1..n : s[i] = b(i)
    BY <1>1
  <1> HIDE DEF s
  <1>5. PICK E : s \in Seq(Seq(E))
    BY <1>1, <1>2, <1>4, CommonSet
  <1>6. Len(s) = n
    BY <1>1, <1>4, FunctionIsSeq
  <1>7. PICK f : Flattens(f, s, n, E) /\ ser = f[n]
    BY <1>3, <1>5, <1>6, FlattenIs
  <1>8. /\ f[0] = <<>> /\ \A i \in 0..n : f[i] \in Seq(E)
        /\ \A i \in 1..n : f[i] = f[i - 1] \o b(i)
    BY <1>4, <1>7 DEF Flattens
  <1> DEFINE len == [i \in 0..n |-> Len(f[i])]
             OK(k) == \A i \in 1..k : At(f[k], len[i - 1], b(i))
             T == {k \in 0..n : OK(k)}
  <1>9. len \in [0..n -> Nat] /\ \A i \in 0..n : len[i] = Len(f[i])
    BY <1>8
  <1> HIDE DEF len
  <1>10. 0 \in T
    BY <1>1
  <1>11. ASSUME NEW k \in 1..n
         PROVE  k - 1 \in 0..n /\ k \in 0..n /\ IsSeq(f[k - 1]) /\ IsSeq(f[k])
    BY <1>1, <1>8 DEF IsSeq
  <1>12. ASSUME NEW k \in 1..n, k - 1 \in T
         PROVE  k \in T
    <2>1. ASSUME NEW i \in 1..k
          PROVE  At(f[k], len[i - 1], b(i))
      <3>1. CASE i = k
        <4>1. At(f[k - 1] \o b(k), Len(f[k - 1]), b(k))
          BY <1>2, <1>11, AtEnd
        <4> QED
          BY <1>8, <1>9, <1>11, <3>1, <4>1
      <3>2. CASE i # k
        <4>1. i \in 1..k - 1 /\ i \in 1..n /\ i - 1 \in 0..n
          BY <1>1, <3>2
        <4>2. At(f[k - 1], len[i - 1], b(i))
          BY <1>12, <4>1
        <4>3. len[i - 1] \in Nat
          BY <1>9, <4>1
        <4>4. At(f[k - 1] \o b(k), len[i - 1], b(i))
          BY <1>2, <1>11, <4>1, <4>2, <4>3, AtLonger
        <4> QED
          BY <1>8, <4>4
      <3> QED
        BY <3>1, <3>2
    <2>2. OK(k)
      BY <2>1
    <2> HIDE DEF OK
    <2> QED
      BY <1>11, <2>2
  <1> HIDE DEF T
  <1>13. 0..n \subseteq T
    BY <1>1, <1>10, <1>12, InductionTo
  <1>14. n \in T
    BY <1>1, <1>13
  <1>15. \A i \in 1..n : At(ser, len[i - 1], b(i))
    BY <1>7, <1>14 DEF T
  <1>16. ASSUME NEW i \in 1..n
         PROVE  len[i] = len[i - 1] + Len(b(i))
    <2>1. Len(f[i - 1] \o b(i)) = Len(f[i - 1]) + Len(b(i))
      BY <1>2, <1>11, Concat
    <2> QED
      BY <1>8, <1>9, <1>11, <2>1
  <1>17. 0 \in 0..n /\ n \in 0..n
    BY <1>1
  <1>18. len[0] = 0 /\ len[n] = Len(ser) /\ IsSeq(ser)
    BY <1>7, <1>8, <1>9, <1>17 DEF IsSeq
  <1>19. Places(len, decls, args)
    BY <1>9, <1>15, <1>16, <1>18 DEF Places, n, ser, b
  <1> QED
    BY <1>18, <1>19 DEF n, ser

\* The buffer has room for what the arguments are written as.
LEMMA BufferHolds ==
    ASSUME NEW decls, IsSeq(decls), NEW args,
           \A i \in 1..Len(decls) : DeclOK(decls[i]) /\ args[i].length \in Nat
    PROVE  /\ IsSeq(arg_buf(decls, args)) /\ Len(arg_buf(decls, args)) \in Nat
           /\ At(arg_buf(decls, args), 0, SERIALIZE_ARGUMENTS(decls, args))
  <1> DEFINE n == Len(decls)
             ser == SERIALIZE_ARGUMENTS(decls, args)
             arg_sz == SIZE_ARGUMENTS(decls, args)
             b(i) == SERIALIZE_ARGUMENT(decls[i], args[i])
             size(i) == SIZE_ARGUMENT(decls[i], args[i])
  <1>1. n \in Nat
    BY DEF IsSeq
  <1>2. \A i \in 1..n : Len(b(i)) \in Nat /\ size(i) \in Nat /\ Len(b(i)) <= size(i)
    BY OneArgument
  <1>3. PICK len : Places(len, decls, args) /\ len[n] = Len(ser)
    BY SerializedArguments
  <1>4. IsSeq(ser)
    BY SerializedArguments
  <1>5. PICK f : Sums(f, decls, args) /\ arg_sz = f[n]
    BY <1>1, <1>2, SizesAre
  <1>6. /\ f \in [0..n -> Nat] /\ f[0] = 0 /\ arg_sz = f[n]
        /\ \A i \in 1..n : f[i] = f[i - 1] + size(i)
    BY <1>5 DEF Sums
  <1>7. /\ len \in [0..n -> Nat] /\ len[0] = 0
        /\ \A i \in 1..n : len[i] = len[i - 1] + Len(b(i))
    BY <1>3 DEF Places
  <1> HIDE DEF n, ser, arg_sz, b, size
  <1> DEFINE T == {i \in 0..n : len[i] <= f[i]}
  <1>8. 0 \in T
    BY <1>1, <1>6, <1>7
  <1>9. ASSUME NEW i \in 1..n, i - 1 \in T
        PROVE  i \in T
    <2>1. i - 1 \in 0..n /\ i \in 0..n
      BY <1>1
    <2>2. len[i - 1] \in Nat /\ f[i - 1] \in Nat
      BY <1>6, <1>7, <2>1
    <2> QED
      BY <1>2, <1>6, <1>7, <1>9, <2>1, <2>2
  <1> HIDE DEF T
  <1>10. 0..n \subseteq T
    BY <1>1, <1>8, <1>9, InductionTo
  <1>11. n \in 0..n
    BY <1>1
  <1>12. Len(ser) <= arg_sz /\ arg_sz \in Nat /\ Len(ser) \in Nat
    BY <1>3, <1>6, <1>7, <1>10, <1>11 DEF T
  <1> DEFINE stack_bytes == Bytes("stack", Junk, arg_sz)
             long == ser \o stack_bytes
             buf == SubSeq(long, 0 + 1, 0 + arg_sz)
  <1>13. IsSeq(stack_bytes) /\ Len(stack_bytes) = arg_sz
    BY <1>12, BytesAre
  <1>14. arg_buf(decls, args) = buf
    <2>1. 0 + 1 = 1 /\ 0 + arg_sz = arg_sz
      BY <1>12
    <2> QED
      BY <2>1 DEF arg_buf, ser, arg_sz
  <1> HIDE DEF stack_bytes
  <1>15. IsSeq(long) /\ Len(long) = Len(ser) + arg_sz /\ \A i \in 1..Len(ser) : long[i] = ser[i]
    BY <1>4, <1>13, Concat
  <1> HIDE DEF long
  <1>16. 0 \in Nat /\ 0 + arg_sz <= Len(long)
    BY <1>12, <1>15
  <1>17. IsSeq(buf) /\ Len(buf) = arg_sz /\ \A i \in 1..arg_sz : buf[i] = long[0 + i]
    BY <1>12, <1>15, <1>16, PrefixIs
  <1> HIDE DEF buf
  <1>18. At(buf, 0, ser)
    BY <1>12, <1>15, <1>17 DEF At
  <1> QED
    BY <1>12, <1>14, <1>17, <1>18 DEF ser

\* What is read when each argument is found where "next" says that it is.
LEMMA ReadOneByOne ==
    ASSUME NEW decls, IsSeq(decls), NEW cells, NEW at \in Nat,
           NEW next \in [0..Len(decls) -> Nat], next[0] = at,
           \A i \in 1..Len(decls) : DESERIALIZE_ARGUMENT(decls[i], cells, next[i - 1]).next = next[i]
    PROVE  DESERIALIZE_ARGUMENTS(decls, cells, at) =
               [i \in DOMAIN decls |-> DESERIALIZE_ARGUMENT(decls[i], cells, next[i - 1]).arg]
  <1> DEFINE n == Len(decls)
             got(i, from) == DESERIALIZE_ARGUMENT(decls[i], cells, from)
             read == [i \in DOMAIN decls |-> [from \in Nat |-> got(i, from)]]
             value(f, i) == IF i = 0 THEN at ELSE read[i][f[i - 1]].next
             Recursive(f) == f = [i \in 0..n |-> value(f, i)]
             chosen == CHOOSE f : Recursive(f)
  <1>1. DESERIALIZE_ARGUMENTS(decls, cells, at) = [i \in DOMAIN decls |-> read[i][chosen[i - 1]].arg]
    BY DEF DESERIALIZE_ARGUMENTS
  <1>2. n \in Nat /\ DOMAIN decls = 1..n
    BY DEF IsSeq
  <1>3. \A i \in 1..n : got(i, next[i - 1]).next = next[i]
    OBVIOUS
  <1>4. next \in [0..n -> Nat]
    OBVIOUS
  <1> HIDE DEF n, got
  <1>5. \A i \in 1..n, from \in Nat : read[i][from] = got(i, from)
    BY <1>2
  <1> HIDE DEF read
  <1>6. ASSUME NEW i \in 1..n
        PROVE  i - 1 \in 0..n /\ next[i - 1] \in Nat /\ read[i][next[i - 1]] = got(i, next[i - 1])
    BY <1>2, <1>4, <1>5
  <1>7. \A i \in 0..n : next[i] = value(next, i)
    BY <1>2, <1>3, <1>6
  <1>8. Recursive(next)
    <2> HIDE DEF value
    <2> QED
      BY <1>4, <1>7
  <1>9. Recursive(chosen)
    <2> HIDE DEF Recursive
    <2> QED
      BY <1>8
  <1> HIDE DEF chosen
  <1>10. \A i \in 0..n : chosen[i] = value(chosen, i)
    <2> HIDE DEF value
    <2> QED
      BY <1>9
  <1> DEFINE T == {i \in 0..n : chosen[i] = next[i]}
  <1>11. 0 \in T
    BY <1>2, <1>10
  <1>12. ASSUME NEW i \in 1..n, i - 1 \in T
         PROVE  i \in T
    <2>1. i \in 0..n /\ i # 0
      BY <1>2
    <2>2. chosen[i] = read[i][chosen[i - 1]].next
      BY <1>10, <2>1
    <2>3. chosen[i - 1] = next[i - 1]
      BY <1>12
    <2>4. chosen[i] = next[i]
      BY <1>3, <1>6, <2>2, <2>3
    <2> QED
      BY <2>1, <2>4
  <1> HIDE DEF T
  <1>13. 0..n \subseteq T
    BY <1>2, <1>11, <1>12, InductionTo
  <1>14. \A i \in 1..n : read[i][chosen[i - 1]].arg = got(i, next[i - 1]).arg
    BY <1>6, <1>13 DEF T
  <1>15. [i \in DOMAIN decls |-> read[i][chosen[i - 1]].arg] = [i \in DOMAIN decls |-> got(i, next[i - 1]).arg]
    BY <1>2, <1>14
  <1> QED
    BY <1>1, <1>15 DEF got

---------------------------------------------------------------------------
(* A call's frame.                                                         *)

Argument(call) == arg_buf(Decls[call.name], Packed(call))
FrameOf(call) == Frame(Node, call, Argument(call))

LEMMA PackedAre ==
    ASSUME NEW call \in Calls
    PROVE  /\ IsSeq(Decls[call.name]) /\ Len(call.args) = Len(Decls[call.name])
           /\ DOMAIN Decls[call.name] = 1..Len(Decls[call.name])
           /\ DOMAIN call.args = DOMAIN Decls[call.name]
           /\ \A i \in DOMAIN Decls[call.name] :
                 /\ DeclOK(Decls[call.name][i]) /\ Packed(call)[i].length \in Nat
                 /\ \A got : /\ Received(Decls[call.name][i], Packed(call)[i], got)
                             /\ Survives(Decls[call.name][i], call.args[i])
                             => got = call.args[i]
  <1> DEFINE decls == Decls[call.name]
  <1>1. call.name \in DOMAIN Decls
    BY NamesAssumption
  <1>2. decls \in Seq([tag : STRING, elem : Nat \ {0}, count : Nat])
    BY <1>1, DeclsAssumption
  <1>3. \A i \in DOMAIN decls : decls[i].tag = "CBCK" =>
            decls[i].elem = sizeof_callback /\ decls[i].count = 0
    BY <1>1, DeclsAssumption
  <1>4. ASSUME NEW i \in DOMAIN decls
        PROVE  decls[i].tag \in STRING /\ decls[i].elem \in Nat \ {0} /\ decls[i].count \in Nat
    <2> DEFINE S == [tag : STRING, elem : Nat \ {0}, count : Nat]
    <2>1. \A d \in S : d.tag \in STRING /\ d.elem \in Nat \ {0} /\ d.count \in Nat
      OBVIOUS
    <2>2. ASSUME NEW d \in Seq(S), NEW k \in DOMAIN d
          PROVE  d[k] \in S
      <3> HIDE DEF S
      <3> QED
        BY <2>2
    <2>3. decls[i] \in S
      <3> HIDE DEF S, decls
      <3> QED
        BY <1>2, <2>2 DEF S
    <2> QED
      BY <2>1, <2>3
  <1>5. \A i \in DOMAIN decls : DeclOK(decls[i])
    BY <1>3, <1>4 DEF DeclOK
  <1>6. IsSeq(decls) /\ DOMAIN decls = 1..Len(decls) /\ Len(decls) \in Nat
    BY <1>2 DEF IsSeq
  <1> DEFINE arg(i) == [value |-> call.args[i].value, length |-> call.args[i].length]
  <1>7. call.args = [i \in DOMAIN decls |-> arg(i)]
    BY CallsAssumption
  <1>8. DOMAIN call.args = DOMAIN decls
    BY <1>7
  <1>9. Len(call.args) = Len(decls)
    <2> DEFINE n == Len(decls)
               args == call.args
    <2>1. DOMAIN args = 1..n /\ n \in Nat
      BY <1>8, <1>6
    <2> HIDE DEF n, args
    <2>2. Len(args) = n
      BY <2>1
    <2> QED
      BY <2>2 DEF n, args
  <1>10. ASSUME NEW i \in DOMAIN decls
        PROVE  /\ call.args[i] = arg(i)
               /\ call.args[i].length \in IF decls[i].tag = "DSTC" THEN Nat ELSE {0}
    <2>1. call.args[i] = arg(i)
      <3> HIDE DEF arg
      <3> QED
        BY <1>7
    <2> QED
      BY <1>8, <2>1, CallsAssumption
  <1>11. ASSUME NEW i \in DOMAIN decls
        PROVE  /\ Packed(call)[i].length \in Nat
               /\ \A got : Received(decls[i], Packed(call)[i], got) /\ Survives(decls[i], call.args[i])
                              => got = call.args[i]
    <2>1. Packed(call)[i] = IF decls[i].tag = "DSTC"
                            THEN [value |-> call.args[i].value,
                                  length |-> call.args[i].length % UINT16_RANGE]
                            ELSE call.args[i]
      BY <1>8 DEF Packed, DSTC_DYNAMIC_ARG
    <2>2. CASE decls[i].tag = "DSTC"
      <3>1. call.args[i].length \in Nat /\ UINT16_RANGE \in Nat \ {0}
        BY <1>10, <2>2, RangeAssumption
      <3>2. ASSUME NEW a \in Nat, NEW m \in Nat \ {0}
            PROVE  a % m \in Nat /\ (a \in 1..m - 1 => a % m = a)
        OBVIOUS
      <3>3. /\ Packed(call)[i].length = call.args[i].length % UINT16_RANGE
            /\ Packed(call)[i].value = call.args[i].value
            /\ Packed(call)[i].length \in Nat
        BY <2>1, <2>2, <3>1, <3>2
      <3>4. Survives(decls[i], call.args[i]) =>
                call.args[i].length \in 1..UINT16_RANGE - 1 /\ Packed(call)[i].length = call.args[i].length
        BY <2>2, <3>1, <3>2, <3>3 DEF Survives
      <3>5. call.args[i].length \in 1..UINT16_RANGE - 1 => call.args[i].length # 0
        BY <3>1
      <3> QED
        BY <1>10, <2>2, <3>3, <3>4, <3>5 DEF Received
    <2>3. CASE decls[i].tag # "DSTC"
      <3>1. Packed(call)[i] = call.args[i] /\ call.args[i].length = 0
        BY <1>10, <2>1, <2>3
      <3> QED
        BY <1>10, <2>3, <3>1 DEF Received, Survives
    <2> QED
      BY <2>2, <2>3
  <1> QED
    BY <1>5, <1>8, <1>6, <1>11, <1>9

LEMMA IdentityParts ==
    ASSUME NEW call
    PROVE  /\ IsSeq(<<Nul>>) /\ Len(<<Nul>>) = 1 /\ <<Nul>> = Bytes("name", "", 1)
           /\ IsSeq(Bytes("ref", call.ref, 8)) /\ Len(Bytes("ref", call.ref, 8)) = 8
           /\ IsSeq(Bytes("name", call.name, 1)) /\ Len(Bytes("name", call.name, 1)) = 1
           /\ Identity(call) = IF call.name = "" THEN <<Nul>> \o Bytes("ref", call.ref, 8)
                               ELSE Bytes("name", call.name, 1) \o <<Nul>>
  <1> DEFINE nul == <<Nul>>
             empty == Bytes("name", "", 1)
  <1>1. sizeof_callback = 8 /\ 1 \in Nat /\ 8 \in Nat
    BY DEF sizeof_callback
  <1>2. IsSeq(nul) /\ Len(nul) = 1 /\ nul[1] = <<"name", "", 1>>
    BY SingleIs DEF Nul
  <1>3. IsSeq(Bytes("ref", call.ref, 8)) /\ Len(Bytes("ref", call.ref, 8)) = 8
    BY <1>1, BytesAre
  <1>4. IsSeq(Bytes("name", call.name, 1)) /\ Len(Bytes("name", call.name, 1)) = 1
    BY <1>1, BytesAre
  <1>5. IsSeq(empty) /\ Len(empty) = 1 /\ \A i \in 1..1 : empty[i] = <<"name", "", i>>
    BY <1>1, BytesAre
  <1> HIDE DEF nul, empty
  <1>6. nul[1] = empty[1]
    <2>1. 1 \in 1..1
      OBVIOUS
    <2>2. empty[1] = <<"name", "", 1>>
      BY <1>5, <2>1
    <2> QED
      BY <1>2, <2>2
  <1>7. nul = empty
    BY <1>2, <1>5, <1>6, SameSingle
  <1> QED
    BY <1>1, <1>2, <1>3, <1>4, <1>7 DEF nul, empty, Identity

LEMMA IdentityIs ==
    ASSUME NEW call
    PROVE  /\ IsSeq(Identity(call))
           /\ call.name = "" => Len(Identity(call)) = 9
           /\ call.name # "" => Len(Identity(call)) = 2
  <1> DEFINE nul == <<Nul>>
             ref == Bytes("ref", call.ref, 8)
             name == Bytes("name", call.name, 1)
  <1>1. /\ IsSeq(nul) /\ Len(nul) = 1 /\ IsSeq(ref) /\ Len(ref) = 8 /\ IsSeq(name) /\ Len(name) = 1
        /\ Identity(call) = IF call.name = "" THEN nul \o ref ELSE name \o nul
    BY IdentityParts
  <1> HIDE DEF nul, ref, name
  <1>2. IsSeq(nul) /\ Len(nul) = 1 /\ IsSeq(ref) /\ Len(ref) = 8 /\ IsSeq(name) /\ Len(name) = 1
    BY <1>1
  <1>3. IsSeq(nul \o ref) /\ Len(nul \o ref) = 9
    <2>1. IsSeq(nul \o ref) /\ Len(nul \o ref) = Len(nul) + Len(ref)
      BY <1>2, Concat
    <2> QED
      BY <1>2, <2>1
  <1>4. IsSeq(name \o nul) /\ Len(name \o nul) = 2
    <2>1. IsSeq(name \o nul) /\ Len(name \o nul) = Len(name) + Len(nul)
      BY <1>2, Concat
    <2> QED
      BY <1>2, <2>1
  <1>5. CASE call.name = ""
    <2>1. Identity(call) = nul \o ref
      BY <1>1, <1>5
    <2> QED
      BY <1>3, <1>5, <2>1
  <1>6. CASE call.name # ""
    <2>1. Identity(call) = name \o nul
      BY <1>1, <1>6
    <2> QED
      BY <1>4, <1>6, <2>1
  <1> QED
    BY <1>5, <1>6

LEMMA IdentityIsRead ==
    ASSUME NEW call, NEW cells, IsSeq(cells), NEW at \in Nat, At(cells, at, Identity(call))
    PROVE  /\ Read("name", cells, at, 1) = call.name
           /\ call.name = "" => Read("ref", cells, at + 1, sizeof_callback) = call.ref
  <1>1. sizeof_callback = 8 /\ 1 \in Nat /\ 8 \in Nat /\ 1 > 0 /\ 8 > 0
    BY DEF sizeof_callback
  <1>2. CASE call.name = ""
    <2> DEFINE nul == <<Nul>>
               ref == Bytes("ref", call.ref, 8)
    <2>1. IsSeq(nul) /\ Len(nul) = 1 /\ IsSeq(ref) /\ At(cells, at, nul \o ref)
      BY <1>2, IdentityParts
    <2> HIDE DEF nul, ref
    <2>2. At(cells, at, nul) /\ At(cells, at + Len(nul), ref) /\ at + Len(nul) \in Nat
      BY <2>1, AtConcat
    <2>3. At(cells, at + 1, ref) /\ at + 1 \in Nat
      BY <2>1, <2>2
    <2>4. At(cells, at, Bytes("name", "", 1))
      BY <2>2, IdentityParts DEF nul
    <2>5. Read("name", cells, at, 1) = ""
      BY <1>1, <2>4, ReadBack
    <2>6. Read("ref", cells, at + 1, 8) = call.ref
      BY <1>1, <2>3, ReadBack DEF ref
    <2> QED
      BY <1>1, <1>2, <2>5, <2>6
  <1>3. CASE call.name # ""
    <2> DEFINE nul == <<Nul>>
               name == Bytes("name", call.name, 1)
    <2>1. IsSeq(nul) /\ IsSeq(name) /\ At(cells, at, name \o nul)
      BY <1>3, IdentityParts
    <2> HIDE DEF nul, name
    <2>2. At(cells, at, name)
      BY <2>1, AtConcat
    <2>3. Read("name", cells, at, 1) = call.name
      BY <1>1, <2>2, ReadBack DEF name
    <2> QED
      BY <1>3, <2>3
  <1> QED
    BY <1>2, <1>3

\* How a frame is built, and so where its parts stand.
Skip(call) == IF call.name = "" THEN 1 + sizeof_callback ELSE 2
LEMMA FrameIs ==
    ASSUME NEW call \in Calls
    PROVE  /\ IsSeq(Argument(call)) /\ Len(Argument(call)) \in Nat
           /\ IsSeq(FrameOf(call)) /\ Skip(call) \in {2, 9}
           /\ Len(FrameOf(call)) = 6 + Skip(call) + Len(Argument(call))
           /\ \A cells, at : IsSeq(cells) /\ at \in Nat /\ At(cells, at, FrameOf(call)) =>
                 /\ At(cells, at + 4, Bytes("number", (Skip(call) + Len(Argument(call))) % UINT16_RANGE, 2))
                 /\ At(cells, at + 6, Identity(call))
                 /\ At(cells, at + 6 + Skip(call), Argument(call))
  <1> DEFINE node == Bytes("node", Node, sizeof_node_id)
             number == Bytes("number", (Len(Identity(call)) + Len(Argument(call))) % UINT16_RANGE, sizeof_uint16)
             id == Identity(call)
             arg == Argument(call)
             two == node \o number
             three == two \o id
  <1>1. sizeof_node_id = 4 /\ sizeof_uint16 = 2 /\ sizeof_callback = 8
    BY DEF sizeof_node_id, sizeof_uint16, sizeof_callback
  <1>2. IsSeq(id) /\ Len(id) = Skip(call) /\ Skip(call) \in {2, 9}
    <2>1. IsSeq(id) /\ (call.name = "" => Len(id) = 9) /\ (call.name # "" => Len(id) = 2)
      BY IdentityIs
    <2>2. (call.name = "" => Skip(call) = 9) /\ (call.name # "" => Skip(call) = 2)
      <3>1. 1 + sizeof_callback = 9
        BY <1>1
      <3> QED
        BY <3>1 DEF Skip
    <2> HIDE DEF id
    <2> QED
      BY <2>1, <2>2
  <1>3. IsSeq(arg) /\ Len(arg) \in Nat
    BY PackedAre, BufferHolds DEF Argument
  <1>4. IsSeq(node) /\ Len(node) = 4 /\ IsSeq(number) /\ Len(number) = 2
    <2>1. sizeof_node_id \in Nat /\ sizeof_uint16 \in Nat
      BY <1>1
    <2>2. IsSeq(node) /\ Len(node) = sizeof_node_id
      BY <2>1, BytesAre
    <2>3. IsSeq(number) /\ Len(number) = sizeof_uint16
      BY <2>1, BytesAre
    <2> QED
      BY <1>1, <2>2, <2>3
  <1>5. FrameOf(call) = three \o arg
    BY DEF FrameOf, Frame
  <1>6. number = Bytes("number", (Skip(call) + Len(Argument(call))) % UINT16_RANGE, 2)
    BY <1>1, <1>2
  <1> HIDE DEF node, number, id, arg
  <1>7. IsSeq(two) /\ Len(two) = 6
    <2>1. IsSeq(two) /\ Len(two) = Len(node) + Len(number)
      BY <1>4, Concat
    <2> QED
      BY <1>4, <2>1
  <1>8. IsSeq(three) /\ Len(three) = 6 + Skip(call)
    <2> HIDE DEF two
    <2>1. IsSeq(three) /\ Len(three) = Len(two) + Len(id)
      BY <1>2, <1>7, Concat
    <2> QED
      BY <1>2, <1>7, <2>1
  <1>9. IsSeq(FrameOf(call)) /\ Len(FrameOf(call)) = 6 + Skip(call) + Len(arg)
    <2> HIDE DEF three
    <2>1. IsSeq(three \o arg) /\ Len(three \o arg) = Len(three) + Len(arg)
      BY <1>3, <1>8, Concat
    <2> QED
      BY <1>5, <1>8, <2>1
  <1>10. ASSUME NEW cells, NEW at, IsSeq(cells), at \in Nat, At(cells, at, FrameOf(call))
         PROVE  /\ At(cells, at + 4, number)
                /\ At(cells, at + 6, id)
                /\ At(cells, at + 6 + Skip(call), arg)
    <2>1. At(cells, at, three) /\ At(cells, at + Len(three), arg)
      <3> HIDE DEF three
      <3> QED
        BY <1>3, <1>5, <1>8, <1>10, AtConcat
    <2>2. At(cells, at, two) /\ At(cells, at + Len(two), id)
      <3> HIDE DEF two
      <3> QED
        BY <1>2, <1>7, <1>10, <2>1, AtConcat
    <2>3. At(cells, at + Len(node), number)
      BY <1>4, <1>10, <2>2, AtConcat
    <2>4. at + (6 + Skip(call)) = at + 6 + Skip(call)
      BY <1>2, <1>10
    <2> QED
      BY <1>4, <1>7, <1>8, <2>1, <2>2, <2>3, <2>4
  <1> QED
    BY <1>2, <1>3, <1>6, <1>9, <1>10 DEF id, arg

\* What dispatch makes of a frame: its length, what it calls, and the arguments.
LEMMA FrameIsRead ==
    ASSUME NEW call \in Calls, NEW cells, IsSeq(cells), NEW at \in Nat,
           At(cells, at, FrameOf(call)), Len(FrameOf(call)) <= RMC_MAX_PAYLOAD
    PROVE  /\ Len(FrameOf(call)) \in Nat /\ Len(FrameOf(call)) >= 8
           /\ sizeof_header + ReadNumber(cells, at + sizeof_node_id) = Len(FrameOf(call))
           /\ Read("name", cells, at + sizeof_header, 1) = call.name
           /\ call.name = "" => Read("ref", cells, at + sizeof_header + 1, sizeof_callback) = call.ref
           /\ LET args == DESERIALIZE_ARGUMENTS(Decls[call.name], cells, at + sizeof_header + Skip(call))
              IN /\ Len(args) = Len(call.args)
                 /\ \A a \in DOMAIN call.args :
                       Survives(Decls[call.name][a], call.args[a]) => args[a] = call.args[a]
  <1> DEFINE len == Skip(call) + Len(Argument(call))
             decls == Decls[call.name]
             args == Packed(call)
  <1>1. sizeof_node_id = 4 /\ sizeof_header = 6 /\ sizeof_uint16 = 2
    BY DEF sizeof_node_id, sizeof_header, sizeof_uint16
  <1>2. /\ IsSeq(Argument(call)) /\ Len(Argument(call)) \in Nat
        /\ Skip(call) \in {2, 9} /\ Len(FrameOf(call)) = 6 + Skip(call) + Len(Argument(call))
        /\ At(cells, at + 4, Bytes("number", len % UINT16_RANGE, 2))
        /\ At(cells, at + 6, Identity(call))
        /\ At(cells, at + 6 + Skip(call), Argument(call))
    BY FrameIs
  <1> HIDE DEF len
  <1>3. len \in Nat /\ Len(FrameOf(call)) = 6 + len /\ len >= 2 /\ len < UINT16_RANGE
    <2>1. Skip(call) \in {2, 9} /\ Len(Argument(call)) \in Nat
      BY <1>2
    <2>2. len = Skip(call) + Len(Argument(call))
      BY DEF len
    <2>3. len \in Nat /\ len >= 2
      BY <2>1, <2>2
    <2>4. Len(FrameOf(call)) = 6 + len
      BY <1>2, <2>1, <2>2
    <2>5. RMC_MAX_PAYLOAD \in Nat /\ RMC_MAX_PAYLOAD < UINT16_RANGE /\ UINT16_RANGE \in Nat
      BY BufferAssumption, RangeAssumption
    <2>6. Len(FrameOf(call)) <= RMC_MAX_PAYLOAD
      OBVIOUS
    <2> QED
      BY <2>3, <2>4, <2>5, <2>6
  <1>4. len % UINT16_RANGE = len
    <2>1. ASSUME NEW a \in Nat, NEW m \in Nat \ {0}, a < m
          PROVE  a % m = a
      BY <2>1
    <2> QED
      BY <1>3, <2>1, RangeAssumption
  <1>5. ReadNumber(cells, at + 4) = len
    <2>1. Read("number", cells, at + 4, 2) = len
      BY <1>2, <1>4, ReadBack
    <2> QED
      BY <1>1, <1>3, <2>1 DEF ReadNumber
  <1>6. /\ Read("name", cells, at + 6, 1) = call.name
        /\ call.name = "" => Read("ref", cells, at + 6 + 1, sizeof_callback) = call.ref
    <2> DEFINE a == at + 6
    <2>1. a \in Nat /\ At(cells, a, Identity(call))
      BY <1>2
    <2> HIDE DEF a
    <2>2. /\ Read("name", cells, a, 1) = call.name
          /\ call.name = "" => Read("ref", cells, a + 1, sizeof_callback) = call.ref
      BY <2>1, IdentityIsRead
    <2> QED
      BY <2>2 DEF a
  <1> DEFINE from == at + 6 + Skip(call)
             got == DESERIALIZE_ARGUMENTS(decls, cells, from)
  <1>7. Len(got) = Len(call.args)
        /\ \A a \in DOMAIN call.args : Survives(decls[a], call.args[a]) => got[a] = call.args[a]
    <2>1. /\ IsSeq(decls) /\ DOMAIN decls = 1..Len(decls) /\ DOMAIN call.args = DOMAIN decls
          /\ \A i \in DOMAIN decls :
                 /\ DeclOK(decls[i]) /\ args[i].length \in Nat
                 /\ \A x : Received(decls[i], args[i], x) /\ Survives(decls[i], call.args[i])
                             => x = call.args[i]
      BY PackedAre
    <2>2. from \in Nat /\ At(cells, from, Argument(call))
      BY <1>2
    <2> DEFINE ser == SERIALIZE_ARGUMENTS(decls, args)
               b(i) == SERIALIZE_ARGUMENT(decls[i], args[i])
    <2> HIDE DEF from, args, decls
    <2>3. IsSeq(ser) /\ At(Argument(call), 0, ser)
      BY <2>1, BufferHolds, SerializedArguments DEF Argument, decls, args
    <2>4. At(cells, from, ser)
      <3>1. At(cells, from + 0, ser) /\ from + 0 = from
        BY <1>2, <2>2, <2>3, AtWithin
      <3> QED
        BY <3>1
    <2>5. PICK len2 : Places(len2, decls, args)
      BY <2>1, SerializedArguments
    <2> DEFINE n == Len(decls)
               next == [i \in 0..n |-> from + len2[i]]
    <2>6. n \in Nat
      BY <2>1 DEF IsSeq
    <2>7. /\ len2 \in [0..n -> Nat] /\ len2[0] = 0
          /\ \A i \in 1..n : len2[i] = len2[i - 1] + Len(b(i)) /\ At(ser, len2[i - 1], b(i))
      BY <2>5 DEF Places
    <2>8. \A i \in 1..n : IsSeq(b(i)) /\ Len(b(i)) \in Nat
      BY <2>1, OneArgument
    <2> HIDE DEF ser, b
    <2>9. next \in [0..n -> Nat] /\ next[0] = from /\ \A i \in 0..n : next[i] = from + len2[i]
      BY <2>2, <2>6, <2>7
    <2> HIDE DEF next, n
    <2>10. ASSUME NEW i \in 1..n
           PROVE  /\ At(cells, next[i - 1], b(i)) /\ next[i - 1] \in Nat
                  /\ next[i] = next[i - 1] + Len(b(i))
      <3>1. i - 1 \in 0..n /\ i \in 0..n
        BY <2>6
      <3>2. len2[i - 1] \in Nat /\ len2[i] = len2[i - 1] + Len(b(i))
        BY <2>7, <3>1
      <3>3. At(cells, from + len2[i - 1], b(i))
        BY <2>2, <2>3, <2>4, <2>7, <2>8, <3>2, AtWithin
      <3> QED
        BY <2>2, <2>8, <2>9, <3>1, <3>2, <3>3
    <2>11. ASSUME NEW i \in 1..n
           PROVE  /\ DESERIALIZE_ARGUMENT(decls[i], cells, next[i - 1]).next = next[i]
                  /\ Received(decls[i], args[i], DESERIALIZE_ARGUMENT(decls[i], cells, next[i - 1]).arg)
      <3>1. DeclOK(decls[i]) /\ args[i].length \in Nat
        BY <2>1 DEF n
      <3> QED
        BY <2>10, <3>1, OneArgument DEF b
    <2>12. got = [i \in DOMAIN decls |-> DESERIALIZE_ARGUMENT(decls[i], cells, next[i - 1]).arg]
      <3>1. DESERIALIZE_ARGUMENTS(decls, cells, from) =
                [i \in DOMAIN decls |-> DESERIALIZE_ARGUMENT(decls[i], cells, next[i - 1]).arg]
        <4>1. /\ IsSeq(decls) /\ from \in Nat /\ next[0] = from
              /\ next \in [0..Len(decls) -> Nat]
          BY <2>1, <2>2, <2>9 DEF n
        <4>2. \A i \in 1..Len(decls) :
                 DESERIALIZE_ARGUMENT(decls[i], cells, next[i - 1]).next = next[i]
          BY <2>11 DEF n
        <4> QED
          BY SMTT(30), <4>1, <4>2, ReadOneByOne
      <3> QED
        BY <3>1
    <2> HIDE DEF got
    <2>13. got = [i \in 1..n |-> got[i]]
      BY <2>1, <2>12 DEF n
    <2>14. Len(got) = n /\ DOMAIN got = 1..n
      BY <2>6, <2>13, FunctionIsSeq
    <2>15. Len(call.args) = n
      BY PackedAre DEF n, decls
    <2>16. ASSUME NEW a \in DOMAIN call.args, Survives(decls[a], call.args[a])
           PROVE  got[a] = call.args[a]
      <3>1. got[a] = DESERIALIZE_ARGUMENT(decls[a], cells, next[a - 1]).arg /\ a \in 1..n
        BY <2>1, <2>12 DEF n
      <3>2. Received(decls[a], args[a], got[a])
        BY <2>11, <3>1
      <3> QED
        BY <2>1, <2>16, <3>2
    <2> QED
      BY <2>14, <2>15, <2>16
  <1>8. /\ Len(FrameOf(call)) \in Nat /\ Len(FrameOf(call)) >= 8
        /\ 6 + ReadNumber(cells, at + 4) = Len(FrameOf(call))
    BY <1>3, <1>5
  <1> QED
    BY <1>1, <1>6, <1>7, <1>8

---------------------------------------------------------------------------
(* What is in a buffer, and in the packets it became.                      *)

\* The bytes of "cells" are those of the calls of these numbers, one after the other;
\* "off" says where each ends.
Framing(calls, cells, numbers, off) ==
    /\ off \in [0..Len(numbers) -> Nat] /\ off[0] = 0 /\ off[Len(numbers)] = Len(cells)
    /\ \A k \in 1..Len(numbers) :
          /\ At(cells, off[k - 1], FrameOf(calls[numbers[k]]))
          /\ off[k] = off[k - 1] + Len(FrameOf(calls[numbers[k]]))

Ascending(s) == \A k, l \in 1..Len(s) : k < l => s[k] < s[l]
Before(s, t) == \A k \in 1..Len(s), l \in 1..Len(t) : s[k] < t[l]

\* A buffer, or a packet: the calls of these numbers, which ascend.
Block(calls, cells, numbers) ==
    /\ IsSeq(cells) /\ Len(cells) <= RMC_MAX_PAYLOAD
    /\ numbers \in Seq(Nat) /\ \A k \in 1..Len(numbers) : numbers[k] \in 1..Len(calls)
    /\ Ascending(numbers)
    /\ \E off : Framing(calls, cells, numbers, off)

\* The buffer and the packets have every call that was made once, in their order.
Sent(calls, packs, parts, cells, numbers) ==
    /\ calls \in Seq(Calls)
    /\ IsSeq(packs) /\ parts \in Seq(Seq(Nat)) /\ Len(parts) = Len(packs)
    /\ FlattenSeq(parts) \o numbers = [i \in 1..Len(calls) |-> i]
    /\ Block(calls, cells, numbers)
    /\ \A p \in 1..Len(packs) :
          Block(calls, packs[p], parts[p]) /\ Len(packs[p]) > 0 /\ Before(parts[p], numbers)
    /\ \A p, q \in 1..Len(packs) : p < q => Before(parts[p], parts[q])

LEMMA FlattenIsEmpty ==
    ASSUME NEW s, s = <<>>
    PROVE  FlattenSeq(s) = s
  <1>1. Len(s) = 0
    OBVIOUS
  <1> QED
    BY <1>1 DEF FlattenSeq

LEMMA SeqAppend ==
    ASSUME NEW S, NEW s \in Seq(S), NEW x \in S
    PROVE  /\ Append(s, x) \in Seq(S) /\ Len(s) \in Nat /\ Len(Append(s, x)) = Len(s) + 1
           /\ Append(s, x)[Len(s) + 1] = x
           /\ \A i \in 1..Len(s) : Append(s, x)[i] = s[i]
  OBVIOUS

LEMMA IsSeqAppend ==
    ASSUME NEW s, IsSeq(s), NEW x
    PROVE  /\ IsSeq(Append(s, x)) /\ Len(s) \in Nat /\ Len(Append(s, x)) = Len(s) + 1
           /\ Append(s, x)[Len(s) + 1] = x
           /\ \A i \in 1..Len(s) : Append(s, x)[i] = s[i]
  <1>1. PICK S : s \in Seq(S)
    BY DEF IsSeq
  <1>2. s \in Seq(S \cup {x}) /\ x \in S \cup {x}
    BY <1>1
  <1>3. /\ Append(s, x) \in Seq(S \cup {x}) /\ Len(s) \in Nat /\ Len(Append(s, x)) = Len(s) + 1
        /\ Append(s, x)[Len(s) + 1] = x
        /\ \A i \in 1..Len(s) : Append(s, x)[i] = s[i]
    BY <1>2, SeqAppend
  <1> QED
    BY <1>3 DEF IsSeq

\* A call more changes nothing of what is framed already.
LEMMA FramingGrows ==
    ASSUME NEW calls \in Seq(Calls), NEW call \in Calls, NEW cells, NEW numbers, NEW off,
           \A k \in 1..Len(numbers) : numbers[k] \in 1..Len(calls),
           Framing(calls, cells, numbers, off)
    PROVE  Framing(Append(calls, call), cells, numbers, off)
  <1>1. \A k \in 1..Len(numbers) : Append(calls, call)[numbers[k]] = calls[numbers[k]]
    BY SeqAppend
  <1> QED
    BY <1>1 DEF Framing

LEMMA BlockGrows ==
    ASSUME NEW calls \in Seq(Calls), NEW call \in Calls, NEW cells, NEW numbers,
           Block(calls, cells, numbers)
    PROVE  Block(Append(calls, call), cells, numbers)
  <1>1. \A k \in 1..Len(numbers) : numbers[k] \in 1..Len(calls)
    BY DEF Block
  <1>2. PICK off : Framing(calls, cells, numbers, off)
    BY DEF Block
  <1>3. Framing(Append(calls, call), cells, numbers, off)
    BY <1>1, <1>2, FramingGrows
  <1>4. Len(calls) \in Nat /\ Len(Append(calls, call)) = Len(calls) + 1
    BY SeqAppend
  <1>5. \A k \in 1..Len(numbers) : numbers[k] \in 1..Len(Append(calls, call))
    BY <1>1, <1>4
  <1> QED
    BY <1>3, <1>5 DEF Block

\* A call's frame at the end of the buffer.
LEMMA FramingExtends ==
    ASSUME NEW calls \in Seq(Calls), NEW cells, IsSeq(cells), NEW numbers \in Seq(Nat), NEW off,
           Framing(calls, cells, numbers, off), NEW new \in Nat,
           \A k \in 1..Len(numbers) : numbers[k] \in 1..Len(calls), new \in 1..Len(calls)
    PROVE  \E next : Framing(calls, cells \o FrameOf(calls[new]), Append(numbers, new), next)
  <1> DEFINE frame == FrameOf(calls[new])
             n == Len(numbers)
             longer == Append(numbers, new)
             all == cells \o frame
             next == [k \in 0..n + 1 |-> IF k = n + 1 THEN Len(all) ELSE off[k]]
             f(i) == FrameOf(calls[i])
  <1>1. \A i \in 1..Len(calls) : IsSeq(f(i)) /\ Len(f(i)) \in Nat
    <2>1. \A call \in Calls : IsSeq(FrameOf(call)) /\ Len(FrameOf(call)) \in Nat
      BY FrameIs DEF IsSeq
    <2> QED
      BY <2>1
  <1>2. /\ n \in Nat /\ Len(longer) = n + 1
        /\ longer[n + 1] = new /\ \A k \in 1..n : longer[k] = numbers[k]
    BY SeqAppend
  <1>3. /\ off \in [0..n -> Nat] /\ off[0] = 0 /\ off[n] = Len(cells)
        /\ \A k \in 1..n : At(cells, off[k - 1], f(numbers[k])) /\ off[k] = off[k - 1] + Len(f(numbers[k]))
    BY DEF Framing
  <1>4. frame = f(new)
    OBVIOUS
  <1> HIDE DEF n, longer, f, frame
  <1>5. IsSeq(frame) /\ Len(frame) \in Nat
    BY <1>1, <1>4
  <1>6. Len(cells) \in Nat /\ Len(all) = Len(cells) + Len(frame) /\ At(all, Len(cells), frame)
    BY <1>5, Concat, AtEnd
  <1> HIDE DEF all
  <1>7. /\ next \in [0..n + 1 -> Nat] /\ next[n + 1] = Len(all)
        /\ \A k \in 0..n : next[k] = off[k]
    BY <1>2, <1>3, <1>5, <1>6
  <1> HIDE DEF next
  <1>8. ASSUME NEW k \in 1..n + 1
        PROVE  At(all, next[k - 1], f(longer[k])) /\ next[k] = next[k - 1] + Len(f(longer[k]))
    <2>1. CASE k = n + 1
      <3>1. k - 1 = n /\ n \in 0..n
        BY <1>2, <2>1
      <3>2. next[k - 1] = Len(cells) /\ longer[k] = new /\ next[k] = Len(cells) + Len(frame)
        BY <1>2, <1>3, <1>6, <1>7, <2>1, <3>1
      <3> QED
        BY <1>4, <1>6, <3>2
    <2>2. CASE k # n + 1
      <3>1. k \in 1..n /\ k - 1 \in 0..n /\ k \in 0..n
        BY <1>2, <2>2
      <3>2. /\ next[k - 1] = off[k - 1] /\ next[k] = off[k] /\ longer[k] = numbers[k]
            /\ off[k - 1] \in Nat
        BY <1>2, <1>3, <1>7, <3>1
      <3>3. At(cells, off[k - 1], f(numbers[k])) /\ off[k] = off[k - 1] + Len(f(numbers[k]))
        BY <1>3, <3>1
      <3>4. IsSeq(f(numbers[k]))
        BY <1>1, <3>1 DEF n
      <3>5. At(all, off[k - 1], f(numbers[k]))
        BY <1>5, <3>2, <3>3, <3>4, AtLonger DEF all
      <3> QED
        BY <3>2, <3>3, <3>5
    <2> QED
      BY <2>1, <2>2
  <1>9. 0 \in 0..n
    BY <1>2
  <1>10. Framing(calls, all, longer, next)
    BY <1>2, <1>3, <1>7, <1>8, <1>9 DEF Framing, f
  <1>11. \E other : Framing(calls, all, longer, other)
    BY <1>10
  <1> QED
    BY <1>11 DEF all, longer, frame

\* The buffer with a call more.
LEMMA Queued ==
    ASSUME NEW calls, NEW packs, NEW parts, NEW cells, NEW numbers,
           Sent(calls, packs, parts, cells, numbers), NEW call \in Calls,
           Len(cells) + Len(FrameOf(call)) <= RMC_MAX_PAYLOAD
    PROVE  /\ Sent(Append(calls, call), packs, parts, cells \o FrameOf(call),
                   Append(numbers, Len(calls) + 1))
           /\ Len(cells \o FrameOf(call)) > 0
  <1> DEFINE more == Append(calls, call)
             new == Len(calls) + 1
             longer == Append(numbers, new)
             all == cells \o FrameOf(call)
             n == Len(numbers)
  <1>1. /\ calls \in Seq(Calls) /\ Block(calls, cells, numbers)
        /\ numbers \in Seq(Nat) /\ IsSeq(cells)
        /\ \A k \in 1..n : numbers[k] \in 1..Len(calls)
    BY DEF Sent, Block
  <1>2. /\ more \in Seq(Calls) /\ Len(calls) \in Nat /\ Len(more) = new /\ more[new] = call
        /\ \A i \in 1..Len(calls) : more[i] = calls[i]
    BY <1>1, SeqAppend
  <1>3. new \in Nat
    BY <1>2
  <1>4. /\ longer \in Seq(Nat) /\ n \in Nat /\ Len(longer) = n + 1 /\ longer[n + 1] = new
        /\ \A k \in 1..n : longer[k] = numbers[k]
    BY <1>1, <1>3, SeqAppend
  <1>5. IsSeq(FrameOf(call)) /\ Len(FrameOf(call)) \in Nat /\ Len(FrameOf(call)) > 0
    <2>1. /\ IsSeq(FrameOf(call)) /\ Skip(call) \in {2, 9} /\ Len(Argument(call)) \in Nat
          /\ Len(FrameOf(call)) = 6 + Skip(call) + Len(Argument(call))
      BY FrameIs
    <2> QED
      BY <2>1
  <1>6. IsSeq(all) /\ Len(all) = Len(cells) + Len(FrameOf(call)) /\ Len(cells) \in Nat
    BY <1>1, <1>5, Concat
  <1> HIDE DEF more, new, longer, n
  <1>7. \E off : Framing(more, all, longer, off)
    <2>1. PICK old : Framing(calls, cells, numbers, old)
      BY <1>1 DEF Block
    <2>2. Framing(more, cells, numbers, old)
      BY <1>1, <2>1, FramingGrows DEF more, n
    <2>3. \A k \in 1..Len(numbers) : numbers[k] \in 1..Len(more)
      BY <1>1, <1>2 DEF new, n
    <2>4. new \in 1..Len(more)
      BY <1>2 DEF new
    <2> QED
      BY <1>1, <1>2, <1>3, <2>2, <2>3, <2>4, FramingExtends DEF longer
  <1>8. \A k \in 1..n : numbers[k] \in Nat /\ numbers[k] < new
    BY <1>1, <1>2 DEF new
  <1>9. Block(more, all, longer)
    <2>1. Ascending(longer)
      <3> SUFFICES ASSUME NEW k \in 1..n + 1, NEW l \in 1..n + 1, k < l
                   PROVE  longer[k] < longer[l]
        BY <1>4 DEF Ascending
      <3>1. k \in 1..n
        BY <1>4
      <3>2. CASE l = n + 1
        BY <1>4, <1>8, <3>1, <3>2
      <3>3. CASE l # n + 1
        <4>1. l \in 1..n
          BY <1>4, <3>3
        <4> QED
          BY <1>1, <1>4, <3>1, <4>1 DEF Block, Ascending, n
      <3> QED
        BY <3>2, <3>3
    <2>2. \A k \in 1..Len(longer) : longer[k] \in 1..Len(more)
      <3> SUFFICES ASSUME NEW k \in 1..n + 1 PROVE longer[k] \in 1..new
        BY <1>2, <1>4
      <3>1. CASE k = n + 1
        BY <1>2, <1>4, <3>1 DEF new
      <3>2. CASE k # n + 1
        <4>1. k \in 1..n
          BY <1>4, <3>2
        <4>2. longer[k] = numbers[k] /\ numbers[k] \in 1..Len(calls)
          BY <1>1, <1>4, <4>1
        <4> QED
          BY <1>2, <4>2 DEF new
      <3> QED
        BY <3>1, <3>2
    <2>3. Len(all) <= RMC_MAX_PAYLOAD
      BY <1>6
    <2> HIDE DEF all
    <2> QED
      BY <1>4, <1>6, <1>7, <2>1, <2>2, <2>3 DEF Block
  <1>10. ASSUME NEW p \in 1..Len(packs)
         PROVE  Block(more, packs[p], parts[p]) /\ Len(packs[p]) > 0 /\ Before(parts[p], longer)
    <2>1. Block(calls, packs[p], parts[p]) /\ Len(packs[p]) > 0 /\ Before(parts[p], numbers)
      BY DEF Sent
    <2>2. Block(more, packs[p], parts[p])
      BY <1>1, <2>1, BlockGrows DEF more
    <2>3. \A k \in 1..Len(parts[p]) : parts[p][k] \in 1..Len(calls)
      BY <2>1 DEF Block
    <2>4. Before(parts[p], longer)
      <3> SUFFICES ASSUME NEW k \in 1..Len(parts[p]), NEW l \in 1..n + 1
                   PROVE  parts[p][k] < longer[l]
        BY <1>4 DEF Before
      <3>1. CASE l = n + 1
        BY <1>2, <1>4, <2>3, <3>1 DEF new
      <3>2. CASE l # n + 1
        <4>1. l \in 1..n
          BY <1>4, <3>2
        <4> QED
          BY <1>4, <2>1, <4>1 DEF Before, n
      <3> QED
        BY <3>1, <3>2
    <2> QED
      BY <2>1, <2>2, <2>4
  <1>11. FlattenSeq(parts) \o longer = [i \in 1..Len(more) |-> i]
    <2> DEFINE before == FlattenSeq(parts)
               so_far == before \o numbers
    <2>1. before \in Seq(Nat)
      <3>1. parts \in Seq(Seq(Nat))
        BY DEF Sent
      <3>2. <<>> \in Seq(Nat)
        OBVIOUS
      <3> QED
        BY <3>1, <3>2, FlattenAppend
    <2>2. so_far = [i \in 1..Len(calls) |-> i]
      BY DEF Sent
    <2> HIDE DEF before
    <2>3. before \o longer = Append(so_far, new) /\ so_far \in Seq(Nat)
      BY <1>1, <1>3, <2>1 DEF longer
    <2> HIDE DEF so_far
    <2>4. Len(so_far) = Len(calls)
      <3>1. DOMAIN so_far = 1..Len(calls)
        BY <2>2
      <3> QED
        BY <1>2, <2>3, <3>1
    <2>5. /\ Append(so_far, new) \in Seq(Nat) /\ Len(Append(so_far, new)) = Len(so_far) + 1
          /\ Append(so_far, new)[Len(so_far) + 1] = new
          /\ \A i \in 1..Len(so_far) : Append(so_far, new)[i] = so_far[i]
      BY <1>3, <2>3, SeqAppend
    <2> DEFINE s == Append(so_far, new)
    <2> HIDE DEF s
    <2>6. s \in Seq(Nat) /\ Len(s) = new /\ \A i \in 1..new : s[i] = i
      BY <1>2, <2>2, <2>4, <2>5 DEF s, new
    <2>7. s = [i \in 1..new |-> i]
      BY <1>3, <2>6
    <2> QED
      BY <1>2, <2>3, <2>7 DEF before, s
  <1>12. \A p, q \in 1..Len(packs) : p < q => Before(parts[p], parts[q])
    BY DEF Sent
  <1>13. IsSeq(packs) /\ parts \in Seq(Seq(Nat)) /\ Len(parts) = Len(packs)
    BY DEF Sent
  <1>14. Len(all) > 0
    BY <1>5, <1>6
  <1> HIDE DEF all
  <1>15. Sent(more, packs, parts, all, longer)
    BY <1>2, <1>9, <1>10, <1>11, <1>12, <1>13 DEF Sent
  <1> QED
    BY <1>14, <1>15 DEF more, all, longer, new

\* The buffer's bytes as a packet.
LEMMA HandedOver ==
    ASSUME NEW calls, NEW packs, NEW parts, NEW cells, NEW numbers,
           Sent(calls, packs, parts, cells, numbers), Len(cells) > 0
    PROVE  Sent(calls, Append(packs, cells), Append(parts, numbers), <<>>, <<>>)
  <1> DEFINE m == Len(packs)
             more == Append(packs, cells)
             longer == Append(parts, numbers)
  <1>1. /\ calls \in Seq(Calls) /\ IsSeq(packs) /\ parts \in Seq(Seq(Nat)) /\ Len(parts) = m
        /\ Block(calls, cells, numbers) /\ numbers \in Seq(Nat)
    BY DEF Sent, Block
  <1>2. /\ IsSeq(more) /\ m \in Nat /\ Len(more) = m + 1 /\ more[m + 1] = cells
        /\ \A p \in 1..m : more[p] = packs[p]
    BY <1>1, IsSeqAppend
  <1>3. /\ longer \in Seq(Seq(Nat)) /\ Len(longer) = m + 1 /\ longer[m + 1] = numbers
        /\ \A p \in 1..m : longer[p] = parts[p]
    BY <1>1, SeqAppend
  <1> DEFINE none == <<>>
  <1>4. none \in Seq(Nat) /\ IsSeq(none) /\ Len(none) = 0
    BY DEF IsSeq
  <1>5. FlattenSeq(longer) \o none = [i \in 1..Len(calls) |-> i]
    <2>1. FlattenSeq(parts) \in Seq(Nat) /\ FlattenSeq(longer) = FlattenSeq(parts) \o numbers
      BY <1>1, FlattenAppend
    <2>2. FlattenSeq(longer) \in Seq(Nat)
      BY <1>1, <2>1
    <2> DEFINE whole == FlattenSeq(longer)
    <2> HIDE DEF longer, whole
    <2>3. whole \o none = whole
      BY <2>2 DEF whole
    <2> QED
      BY <2>1, <2>3 DEF Sent, whole
  <1> HIDE DEF m, more, longer, none
  <1>6. \E off : Framing(calls, none, none, off)
    <2> DEFINE off == [k \in 0..0 |-> 0]
    <2>1. off \in [0..0 -> Nat] /\ off[0] = 0
      OBVIOUS
    <2> HIDE DEF off
    <2>2. \A k \in 1..Len(none) : FALSE
      BY <1>4
    <2>3. Framing(calls, none, none, off)
      BY <1>4, <2>1, <2>2 DEF Framing
    <2> QED
      BY <2>3
  <1>7. Block(calls, none, none)
    <2>1. RMC_MAX_PAYLOAD \in Nat
      BY BufferAssumption, RangeAssumption
    <2>2. \A k \in 1..Len(none) : FALSE
      BY <1>4
    <2> QED
      BY <1>4, <1>6, <2>1, <2>2 DEF Block, Ascending
  <1>8. ASSUME NEW p \in 1..m + 1
        PROVE  Block(calls, more[p], longer[p]) /\ Len(more[p]) > 0 /\ Before(longer[p], none)
    <2>1. Before(longer[p], none)
      <3>1. \A k \in 1..Len(none) : FALSE
        BY <1>4
      <3> QED
        BY <3>1 DEF Before
    <2>2. CASE p = m + 1
      BY <1>1, <1>2, <1>3, <2>1, <2>2
    <2>3. CASE p # m + 1
      <3>1. p \in 1..m
        BY <1>2, <2>3
      <3>2. Block(calls, packs[p], parts[p]) /\ Len(packs[p]) > 0
        BY <3>1 DEF Sent, m
      <3> QED
        BY <1>2, <1>3, <2>1, <3>1, <3>2
    <2> QED
      BY <2>2, <2>3
  <1>9. ASSUME NEW p \in 1..m + 1, NEW q \in 1..m + 1, p < q
        PROVE  Before(longer[p], longer[q])
    <2>1. p \in 1..m
      BY <1>2, <1>9
    <2>2. CASE q = m + 1
      <3>1. Before(parts[p], numbers)
        BY <2>1 DEF Sent, m
      <3> QED
        BY <1>3, <2>1, <2>2, <3>1
    <2>3. CASE q # m + 1
      <3>1. q \in 1..m
        BY <1>2, <2>3
      <3>2. Before(parts[p], parts[q])
        BY <1>9, <2>1, <3>1 DEF Sent, m
      <3> QED
        BY <1>3, <2>1, <3>1, <3>2
    <2> QED
      BY <2>2, <2>3
  <1>10. Sent(calls, more, longer, none, none)
    BY <1>1, <1>2, <1>3, <1>5, <1>7, <1>8, <1>9 DEF Sent
  <1> QED
    BY <1>10 DEF more, longer, none

\* Where a call that has not been processed begins, its frame is, and is read as what
\* it is; behind it begins the next.
IsRead(calls, cells, numbers, off, nth) ==
    LET at == off[nth]
        call == calls[numbers[nth + 1]]
        args == DESERIALIZE_ARGUMENTS(Decls[call.name], cells, at + sizeof_header + Skip(call))
    IN /\ sizeof_header + ReadNumber(cells, at + sizeof_node_id) = off[nth + 1] - at
       /\ Read("name", cells, at + sizeof_header, 1) = call.name
       /\ call.name = "" => Read("ref", cells, at + sizeof_header + 1, sizeof_callback) = call.ref
       /\ Len(args) = Len(call.args)
       /\ \A a \in DOMAIN call.args :
             Survives(Decls[call.name][a], call.args[a]) => args[a] = call.args[a]
LEMMA CallIsRead ==
    ASSUME NEW calls \in Seq(Calls), NEW cells, NEW numbers, NEW off,
           Block(calls, cells, numbers), Framing(calls, cells, numbers, off),
           NEW nth \in 0..Len(numbers), off[nth] < Len(cells) \/ nth < Len(numbers)
    PROVE  /\ nth + 1 \in 1..Len(numbers) /\ calls[numbers[nth + 1]] \in Calls
           /\ off[nth] \in Nat /\ off[nth + 1] <= Len(cells)
           /\ ReadNumber(cells, off[nth] + sizeof_node_id) \in Nat
           /\ IsRead(calls, cells, numbers, off, nth)
  <1> DEFINE n == Len(numbers)
             k == nth + 1
             at == off[nth]
             call == calls[numbers[k]]
             frame == FrameOf(call)
  <1>1. /\ IsSeq(cells) /\ Len(cells) \in Nat /\ Len(cells) <= RMC_MAX_PAYLOAD
        /\ n \in Nat /\ \A l \in 1..n : numbers[l] \in 1..Len(calls)
    BY DEF Block, IsSeq
  <1>2. /\ off \in [0..n -> Nat] /\ off[0] = 0 /\ off[n] = Len(cells)
        /\ \A l \in 1..n : /\ At(cells, off[l - 1], FrameOf(calls[numbers[l]]))
                           /\ off[l] = off[l - 1] + Len(FrameOf(calls[numbers[l]]))
    BY DEF Framing
  <1>3. nth # n
    BY <1>1, <1>2
  <1>4. k \in 1..n /\ k - 1 = nth
    BY <1>1, <1>3
  <1>5. call \in Calls /\ at \in Nat
    BY <1>1, <1>2, <1>4
  <1>6. At(cells, at, frame) /\ off[k] = at + Len(frame)
    BY <1>2, <1>4
  <1> HIDE DEF frame, at, call
  <1>7. Len(frame) \in Nat /\ RMC_MAX_PAYLOAD \in Nat
    <2>1. IsSeq(frame)
      BY <1>5, FrameIs DEF frame
    <2> QED
      BY <2>1, BufferAssumption, RangeAssumption DEF IsSeq
  <1>8. at + Len(frame) <= Len(cells)
    BY <1>6 DEF At
  <1>9. Len(frame) <= RMC_MAX_PAYLOAD
    BY <1>1, <1>5, <1>7, <1>8
  <1>10. /\ Len(frame) >= 8
         /\ sizeof_header + ReadNumber(cells, at + sizeof_node_id) = Len(frame)
         /\ Read("name", cells, at + sizeof_header, 1) = call.name
         /\ call.name = "" => Read("ref", cells, at + sizeof_header + 1, sizeof_callback) = call.ref
         /\ LET args == DESERIALIZE_ARGUMENTS(Decls[call.name], cells, at + sizeof_header + Skip(call))
            IN /\ Len(args) = Len(call.args)
               /\ \A a \in DOMAIN call.args :
                     Survives(Decls[call.name][a], call.args[a]) => args[a] = call.args[a]
    BY <1>1, <1>5, <1>6, <1>9, FrameIsRead DEF frame
  <1>11. off[k] <= Len(cells) /\ off[k] - at = Len(frame)
    BY <1>1, <1>5, <1>6, <1>7, <1>8
  <1>12. ReadNumber(cells, at + sizeof_node_id) \in Nat
    BY DEF ReadNumber
  <1>13. IsRead(calls, cells, numbers, off, nth)
    BY <1>10, <1>11 DEF IsRead, at, call
  <1> QED
    BY <1>4, <1>5, <1>11, <1>12, <1>13 DEF at, call

---------------------------------------------------------------------------
(* The second invariant: how far the receiver is in the packets, and what  *)
(* ran.                                                                    *)

\* A frame of dispatch is where a call of its packet begins, or at the end.
Place(calls, packs, parts, f) ==
    /\ f.running => f.pack # 0
    /\ f.pack # 0 =>
          /\ f.pack \in 1..Len(packs)
          /\ f.nth \in 0..Len(parts[f.pack])
          /\ f.running => f.nth < Len(parts[f.pack])
          /\ \E off : Framing(calls, packs[f.pack], parts[f.pack], off) /\ f.ind = off[f.nth]

\* What ran is what was called.
AsCalled(calls, parts, run) ==
    /\ run.pack \in 1..Len(parts) /\ run.nth \in 1..Len(parts[run.pack])
    /\ LET call == calls[parts[run.pack][run.nth]]
       IN /\ run.name = call.name
          /\ run.ref = call.ref
          /\ Len(run.args) = Len(call.args)
          /\ \A a \in DOMAIN call.args :
                Survives(Decls[call.name][a], call.args[a]) => run.args[a] = call.args[a]

FrameRecord == [pack : Nat, ind : Nat, nth : Nat, running : BOOLEAN]
Counted ==
    /\ arrived \in 0..Len(packets) /\ dispatched \in 0..arrived
    /\ callbacks \subseteq Refs
    /\ stack \in Seq(FrameRecord)
    /\ Len(stack) <= MaxDispatches

\* Of one packet what ran, ran in order; and a packet before that of a call that runs
\* is on the stack only beneath it.
InOrder ==
    /\ \A r, q \in DOMAIN ran : r < q =>
          /\ ran[r].pack = ran[q].pack => ran[r].nth < ran[q].nth
          /\ ran[q].pack < ran[r].pack => ran[q].pack \in ran[r].under
    /\ \A r \in DOMAIN ran, i \in DOMAIN stack :
          stack[i].pack # 0 /\ stack[i].pack < ran[r].pack => stack[i].pack \in ran[r].under

\* The second invariant.
Whole ==
    /\ Sent(made, packets, contents, pub_buffer, buffered)
    /\ Counted
    /\ \A i \in DOMAIN stack : Place(made, packets, contents, stack[i])
    /\ \A r \in DOMAIN ran : AsCalled(made, contents, ran[r])
    /\ InOrder

---------------------------------------------------------------------------
(* The sender.                                                             *)

Extends(s, t) == Len(s) <= Len(t) /\ \A i \in 1..Len(s) : t[i] = s[i]

LEMMA AppendExtends ==
    ASSUME NEW s, IsSeq(s), NEW x
    PROVE  Extends(s, Append(s, x))
  <1>1. /\ Len(s) \in Nat /\ Len(Append(s, x)) = Len(s) + 1
        /\ \A i \in 1..Len(s) : Append(s, x)[i] = s[i]
    BY IsSeqAppend
  <1> QED
    BY <1>1 DEF Extends

\* With calls made and packets handed over, a place in a packet stays one, and what ran
\* is still what was called.
LEMMA PlaceStays ==
    ASSUME NEW calls, NEW packs, NEW parts, NEW cells, NEW numbers,
           Sent(calls, packs, parts, cells, numbers),
           NEW calls2, NEW packs2, NEW parts2, NEW cells2, NEW numbers2,
           Sent(calls2, packs2, parts2, cells2, numbers2),
           Extends(calls, calls2), Extends(packs, packs2), Extends(parts, parts2)
    PROVE  /\ \A f : Place(calls, packs, parts, f) => Place(calls2, packs2, parts2, f)
           /\ \A run : AsCalled(calls, parts, run) => AsCalled(calls2, parts2, run)
  <1>1. /\ Len(parts) = Len(packs) /\ Len(packs) \in Nat /\ Len(packs2) \in Nat
        /\ Len(parts2) = Len(packs2)
    BY DEF Sent, IsSeq
  <1>2. ASSUME NEW p \in 1..Len(packs)
        PROVE  /\ packs2[p] = packs[p] /\ parts2[p] = parts[p] /\ p \in 1..Len(packs2)
               /\ \A k \in 1..Len(parts[p]) : calls2[parts[p][k]] = calls[parts[p][k]]
               /\ \A off : Framing(calls, packs[p], parts[p], off) =>
                              Framing(calls2, packs2[p], parts2[p], off)
    <2>1. packs2[p] = packs[p] /\ parts2[p] = parts[p] /\ p \in 1..Len(packs2)
      BY <1>1 DEF Extends
    <2>2. \A k \in 1..Len(parts[p]) : parts[p][k] \in 1..Len(calls)
      BY DEF Sent, Block
    <2>3. \A k \in 1..Len(parts[p]) : calls2[parts[p][k]] = calls[parts[p][k]]
      BY <2>2 DEF Extends
    <2>4. ASSUME NEW off, Framing(calls, packs[p], parts[p], off)
          PROVE  Framing(calls2, packs[p], parts[p], off)
      BY <2>3, <2>4 DEF Framing
    <2> QED
      BY <2>1, <2>3, <2>4
  <1>3. ASSUME NEW f, Place(calls, packs, parts, f)
        PROVE  Place(calls2, packs2, parts2, f)
    <2>1. CASE f.pack # 0
      <3>1. f.pack \in 1..Len(packs)
        BY <1>3, <2>1 DEF Place
      <3>2. PICK off : Framing(calls, packs[f.pack], parts[f.pack], off) /\ f.ind = off[f.nth]
        BY <1>3, <2>1 DEF Place
      <3>3. Framing(calls2, packs2[f.pack], parts2[f.pack], off)
        BY <1>2, <3>1, <3>2
      <3>4. /\ f.nth \in 0..Len(parts2[f.pack])
            /\ f.running => f.nth < Len(parts2[f.pack])
            /\ f.pack \in 1..Len(packs2)
        BY <1>2, <1>3, <2>1, <3>1 DEF Place
      <3> QED
        BY <2>1, <3>2, <3>3, <3>4 DEF Place
    <2>2. CASE f.pack = 0
      BY <1>3, <2>2 DEF Place
    <2> QED
      BY <2>1, <2>2
  <1>4. ASSUME NEW run, AsCalled(calls, parts, run)
        PROVE  AsCalled(calls2, parts2, run)
    <2>1. run.pack \in 1..Len(packs) /\ run.nth \in 1..Len(parts[run.pack])
      BY <1>1, <1>4 DEF AsCalled
    <2>2. /\ parts2[run.pack] = parts[run.pack] /\ run.pack \in 1..Len(parts2)
          /\ calls2[parts[run.pack][run.nth]] = calls[parts[run.pack][run.nth]]
      BY <1>1, <1>2, <2>1
    <2> QED
      BY <1>4, <2>1, <2>2 DEF AsCalled
  <1> QED
    BY <1>3, <1>4

LEMMA SendKeeps ==
    ASSUME Whole, Sent(made', packets', contents', pub_buffer', buffered'),
           Extends(made, made'), Extends(packets, packets'), Extends(contents, contents'),
           UNCHANGED <<arrived, dispatched, freed, callbacks, stack, ran>>
    PROVE  Whole'
  <1>1. Sent(made, packets, contents, pub_buffer, buffered)
    BY DEF Whole
  <1>2. /\ \A f : Place(made, packets, contents, f) => Place(made', packets', contents', f)
        /\ \A run : AsCalled(made, contents, run) => AsCalled(made', contents', run)
    BY <1>1, PlaceStays
  <1>3. \A i \in DOMAIN stack' : Place(made', packets', contents', stack'[i])
    BY <1>2 DEF Whole
  <1>4. \A r \in DOMAIN ran' : AsCalled(made', contents', ran'[r])
    BY <1>2 DEF Whole
  <1>5. Counted'
    <2>1. Len(packets) \in Nat /\ Len(packets') \in Nat /\ Len(packets) <= Len(packets')
      BY <1>1 DEF Sent, IsSeq, Extends
    <2>2. arrived' \in 0..Len(packets')
      BY <2>1 DEF Whole, Counted
    <2> QED
      BY <2>2 DEF Whole, Counted
  <1>6. InOrder'
    BY DEF Whole, InOrder
  <1> QED
    BY <1>3, <1>4, <1>5, <1>6 DEF Whole

LEMMA ExtendsItself ==
    ASSUME NEW s, IsSeq(s)
    PROVE  Extends(s, s)
  BY DEF Extends, IsSeq

LEMMA SentSeqs ==
    ASSUME Whole
    PROVE  /\ IsSeq(made) /\ IsSeq(packets) /\ IsSeq(contents) /\ IsSeq(pub_buffer)
           /\ Sent(made, packets, contents, pub_buffer, buffered)
  BY DEF Whole, Sent, Block, IsSeq

LEMMA FlushWhole ==
    ASSUME Whole, pub_buffer # <<>>, HandOver(pub_buffer, buffered), made' = made,
           UNCHANGED <<arrived, dispatched, freed, callbacks, stack, ran>>
    PROVE  Whole'
  <1>1. /\ IsSeq(made) /\ IsSeq(packets) /\ IsSeq(contents) /\ IsSeq(pub_buffer)
        /\ Sent(made, packets, contents, pub_buffer, buffered)
    BY SentSeqs
  <1>2. Len(pub_buffer) > 0
    BY <1>1 DEF IsSeq
  <1>3. Sent(made', packets', contents', pub_buffer', buffered')
    BY <1>1, <1>2, HandedOver DEF HandOver
  <1>4. Extends(packets, packets') /\ Extends(contents, contents') /\ Extends(made, made')
    BY <1>1, AppendExtends, ExtendsItself DEF HandOver
  <1> QED
    BY <1>3, <1>4, SendKeeps

LEMMA QueueWhole ==
    ASSUME Whole, NEW call \in Calls, _dstc_queue(call, FrameOf(call))
    PROVE  Whole'
  <1> DEFINE frame == FrameOf(call)
             more == Append(made, call)
             longer == Append(buffered, Len(made) + 1)
             all == pub_buffer \o frame
  <1>1. /\ IsSeq(made) /\ IsSeq(packets) /\ IsSeq(contents) /\ IsSeq(pub_buffer)
        /\ Sent(made, packets, contents, pub_buffer, buffered)
    BY SentSeqs
  <1>2. UNCHANGED <<arrived, dispatched, freed, callbacks, stack, ran>>
    BY DEF _dstc_queue
  <1>3. CASE Len(pub_buffer) + Len(frame) <= RMC_MAX_PAYLOAD
    <2>1. Sent(more, packets, contents, all, longer) /\ Len(all) > 0
      BY <1>1, <1>3, Queued
    <2>2. Extends(made, more)
      BY <1>1, AppendExtends
    <2>3. made' = more /\ Len(made') = Len(made) + 1
      <3>1. made' = more
        BY <1>3 DEF _dstc_queue
      <3> QED
        BY <1>1, <3>1, IsSeqAppend
    <2>4. CASE pub_buffer' = all /\ buffered' = Append(buffered, Len(made')) /\ UNCHANGED <<packets, contents>>
      <3>1. Sent(made', packets', contents', pub_buffer', buffered')
        BY <2>1, <2>3, <2>4
      <3>2. Extends(packets, packets') /\ Extends(contents, contents') /\ Extends(made, made')
        BY <1>1, <2>2, <2>3, <2>4, ExtendsItself
      <3> QED
        BY <1>2, <3>1, <3>2, SendKeeps
    <2>5. CASE HandOver(all, Append(buffered, Len(made')))
      <3>1. /\ packets' = Append(packets, all) /\ contents' = Append(contents, longer)
            /\ pub_buffer' = <<>> /\ buffered' = <<>>
        BY <2>3, <2>5 DEF HandOver
      <3>2. Sent(more, Append(packets, all), Append(contents, longer), <<>>, <<>>)
        <4> HIDE DEF more, longer, all
        <4> QED
          BY <2>1, HandedOver
      <3>3. Sent(made', packets', contents', pub_buffer', buffered')
        BY <2>3, <3>1, <3>2
      <3>4. Extends(packets, packets') /\ Extends(contents, contents') /\ Extends(made, made')
        <4> HIDE DEF more, longer, all
        <4> QED
          BY <1>1, <2>2, <2>3, <3>1, AppendExtends
      <3> QED
        BY <1>2, <3>3, <3>4, SendKeeps
    <2> QED
      BY <1>3, <2>4, <2>5 DEF _dstc_queue
  <1>4. CASE ~(Len(pub_buffer) + Len(frame) <= RMC_MAX_PAYLOAD)
    <2>1. pub_buffer # <<>> /\ HandOver(pub_buffer, buffered) /\ made' = made
      BY <1>4 DEF _dstc_queue
    <2> QED
      BY <1>2, <2>1, FlushWhole
  <1> QED
    BY <1>3, <1>4

---------------------------------------------------------------------------
(* The receiver.                                                           *)

\* A packet a frame may have, by what ran: not one that was overtaken, but from within.
Tolerated(pack) == \A r \in DOMAIN ran : pack # 0 /\ pack < ran[r].pack => pack \in ran[r].under

StackWhole ==
    /\ stack \in Seq(FrameRecord) /\ Len(stack) <= MaxDispatches
    /\ \A i \in DOMAIN stack : Place(made, packets, contents, stack[i])
    /\ \A i \in DOMAIN stack : Tolerated(stack[i].pack)

LEMMA StackIsWhole ==
    ASSUME Whole
    PROVE  StackWhole
  BY DEF Whole, Counted, InOrder, StackWhole, Tolerated

LEMMA TopKeeps ==
    ASSUME Whole, stack # <<>>, NEW f \in FrameRecord, SetTop(f),
           Place(made, packets, contents, f), Tolerated(f.pack), UNCHANGED <<sender, ran>>
    PROVE  StackWhole'
  <1>1. StackWhole
    BY StackIsWhole
  <1>2. stack \in Seq(FrameRecord)
    BY <1>1 DEF StackWhole
  <1>3. Len(stack) \in DOMAIN stack
    BY <1>2, TopIsThere
  <1>4. /\ stack' \in Seq(FrameRecord) /\ Len(stack') = Len(stack)
        /\ DOMAIN stack' = DOMAIN stack
        /\ stack'[Len(stack)] = f
        /\ \A i \in DOMAIN stack : i # Len(stack) => stack'[i] = stack[i]
    <2> HIDE DEF FrameRecord
    <2> QED
      BY <1>2, <1>3 DEF SetTop
  <1>5. \A i \in DOMAIN stack' : Place(made, packets, contents, stack'[i]) /\ Tolerated(stack'[i].pack)
    BY <1>1, <1>4 DEF StackWhole
  <1>6. UNCHANGED <<made, packets, contents, ran>>
    BY DEF sender
  <1> QED
    BY <1>1, <1>4, <1>5, <1>6 DEF StackWhole, Tolerated

\* With the stack's part, what is left to show of a receiver's step that runs nothing.
LEMMA ReceiverKeeps ==
    ASSUME Whole, StackWhole', UNCHANGED <<sender, callbacks, ran>>,
           arrived' \in 0..Len(packets), dispatched' \in 0..arrived'
    PROVE  Whole'
  <1>1. UNCHANGED <<made, packets, contents, pub_buffer, buffered>>
    BY DEF sender
  <1>2. Counted'
    BY <1>1 DEF Whole, Counted, StackWhole
  <1>3. InOrder'
    BY DEF Whole, InOrder, StackWhole, Tolerated
  <1> QED
    BY <1>1, <1>2, <1>3 DEF Whole, StackWhole

LEMMA NothingTaken ==
    /\ NoPacket \in FrameRecord /\ NoPacket.pack = 0
    /\ \A calls, packs, parts : Place(calls, packs, parts, NoPacket)
    /\ Tolerated(NoPacket.pack)
  <1>1. NoPacket \in FrameRecord /\ NoPacket.pack = 0 /\ NoPacket.running = FALSE
    BY DEF NoPacket, FrameRecord
  <1> QED
    BY <1>1 DEF Place, Tolerated

LEMMA ReadEventWhole ==
    ASSUME Whole, ReadEvent
    PROVE  Whole'
  <1>1. /\ Len(stack) < MaxDispatches /\ stack' = Append(stack, NoPacket)
        /\ UNCHANGED <<sender, dispatched, freed, callbacks, ran>>
    BY DEF ReadEvent
  <1>2. PICK n \in arrived + 1..Len(packets) : arrived' = n
    BY DEF ReadEvent
  <1>3. StackWhole
    BY StackIsWhole
  <1>4. stack \in Seq(FrameRecord) /\ NoPacket \in FrameRecord
    BY <1>3, NothingTaken DEF StackWhole
  <1>5. /\ stack' \in Seq(FrameRecord) /\ Len(stack) \in Nat /\ Len(stack') = Len(stack) + 1
        /\ stack'[Len(stack) + 1] = NoPacket
        /\ \A i \in 1..Len(stack) : stack'[i] = stack[i]
    BY <1>1, <1>4, SeqAppend
  <1>6. DOMAIN stack = 1..Len(stack) /\ DOMAIN stack' = 1..Len(stack) + 1
    <2> HIDE DEF FrameRecord
    <2> QED
      BY <1>4, <1>5
  <1>7. ASSUME NEW i \in DOMAIN stack'
        PROVE  Place(made, packets, contents, stack'[i]) /\ Tolerated(stack'[i].pack)
    <2>1. CASE i \in DOMAIN stack
      BY <1>3, <1>5, <1>6, <2>1 DEF StackWhole
    <2>2. CASE i = Len(stack) + 1
      BY <1>5, <2>2, NothingTaken
    <2> QED
      BY <1>5, <1>6, <2>1, <2>2
  <1>8. UNCHANGED <<made, packets, contents, ran>>
    BY <1>1 DEF sender
  <1>9. StackWhole'
    <2>1. Len(stack') <= MaxDispatches
      BY <1>1, <1>5, BoundAssumption
    <2> QED
      BY <1>5, <1>7, <1>8, <2>1 DEF StackWhole, Tolerated
  <1>10. arrived \in 0..Len(packets) /\ dispatched \in 0..arrived /\ Len(packets) \in Nat
    BY SentSeqs DEF Whole, Counted, IsSeq
  <1>11. arrived' \in 0..Len(packets) /\ dispatched' \in 0..arrived'
    BY <1>1, <1>2, <1>10
  <1> QED
    BY <1>1, <1>9, <1>11, ReceiverKeeps

LEMMA ButLast ==
    ASSUME NEW S, NEW s \in Seq(S), s # <<>>, NEW t, t = SubSeq(s, 1, Len(s) - 1)
    PROVE  /\ t \in Seq(S) /\ Len(t) = Len(s) - 1 /\ Len(s) \in Nat
           /\ DOMAIN t \subseteq DOMAIN s
           /\ \A i \in DOMAIN t : t[i] = s[i]
  <1>1. Len(s) \in Nat \ {0} /\ DOMAIN s = 1..Len(s)
    OBVIOUS
  <1>2. t \in Seq(S) /\ DOMAIN t = 1..Len(s) - 1 /\ \A i \in 1..Len(s) - 1 : t[i] = s[i]
    BY <1>1
  <1>3. Len(t) = Len(s) - 1
    BY <1>1, <1>2
  <1> QED
    BY <1>1, <1>2, <1>3

LEMMA TakePacketWhole ==
    ASSUME IInv, Whole, TakePacket
    PROVE  Whole'
  <1> DEFINE p == dispatched + 1
             f == [NoPacket EXCEPT !.pack = p]
  <1>1. stack # <<>> /\ UNCHANGED <<sender, arrived, freed, callbacks, ran>>
    BY DEF TakePacket, Dispatching
  <1>2. arrived \in 0..Len(packets) /\ dispatched \in 0..arrived /\ Len(packets) \in Nat
    BY SentSeqs DEF Whole, Counted, IsSeq
  <1>3. CASE dispatched < arrived
    <2>1. SetTop(f) /\ dispatched' = p
      BY <1>3 DEF TakePacket
    <2>2. p \in 1..Len(packets) /\ p \in Nat
      BY <1>2, <1>3
    <2>3. f \in FrameRecord /\ f.pack = p /\ f.ind = 0 /\ f.nth = 0 /\ f.running = FALSE
      BY <2>2 DEF NoPacket, FrameRecord
    <2> HIDE DEF f
    <2>4. Place(made, packets, contents, f)
      <3>1. Block(made, packets[p], contents[p])
        BY <2>2, SentSeqs DEF Sent
      <3>2. PICK off : Framing(made, packets[p], contents[p], off)
        BY <3>1 DEF Block
      <3>3. Len(contents[p]) \in Nat
        BY <3>1 DEF Block
      <3>4. off[0] = 0
        BY <3>2 DEF Framing
      <3>5. f.ind = off[f.nth] /\ f.nth \in 0..Len(contents[p])
        BY <2>3, <3>3, <3>4
      <3> QED
        BY <2>2, <2>3, <3>2, <3>5 DEF Place
    <2>5. Tolerated(f.pack)
      <3>1. \A r \in DOMAIN ran : ran[r].pack \in 1..dispatched
        BY DEF IInv, Shape
      <3>2. \A r \in DOMAIN ran : ~(p < ran[r].pack)
        BY <1>2, <3>1
      <3> QED
        BY <2>3, <3>2 DEF Tolerated
    <2>6. StackWhole'
      BY <1>1, <2>1, <2>3, <2>4, <2>5, TopKeeps
    <2>7. arrived' \in 0..Len(packets) /\ dispatched' \in 0..arrived'
      BY <1>1, <1>2, <1>3, <2>1
    <2> QED
      BY <1>1, <2>6, <2>7, ReceiverKeeps
  <1>4. CASE ~(dispatched < arrived)
    <2>1. stack' = SubSeq(stack, 1, Len(stack) - 1) /\ dispatched' = dispatched
      BY <1>4 DEF TakePacket, Front
    <2>2. StackWhole
      BY StackIsWhole
    <2>3. stack \in Seq(FrameRecord)
      BY <2>2 DEF StackWhole
    <2>4. /\ stack' \in Seq(FrameRecord) /\ Len(stack') = Len(stack) - 1 /\ Len(stack) \in Nat
          /\ DOMAIN stack' \subseteq DOMAIN stack
          /\ \A i \in DOMAIN stack' : stack'[i] = stack[i]
      BY <1>1, <2>1, <2>3, ButLast
    <2>5. \A i \in DOMAIN stack' : Place(made, packets, contents, stack'[i]) /\ Tolerated(stack'[i].pack)
      BY <2>2, <2>4 DEF StackWhole
    <2>6. UNCHANGED <<made, packets, contents, ran>>
      BY <1>1 DEF sender
    <2>7. Len(stack') <= MaxDispatches
      BY <2>2, <2>4, BoundAssumption DEF StackWhole
    <2>8. StackWhole'
      BY <2>4, <2>5, <2>6, <2>7 DEF StackWhole, Tolerated
    <2> QED
      BY <1>1, <1>2, <2>1, <2>8, ReceiverKeeps
  <1> QED
    BY <1>3, <1>4

LEMMA FreePayloadWhole ==
    ASSUME Whole, FreePayload
    PROVE  Whole'
  <1>1. stack # <<>> /\ SetTop(NoPacket) /\ UNCHANGED <<sender, arrived, dispatched, callbacks, ran>>
    BY DEF FreePayload, Dispatching
  <1>2. UNCHANGED <<sender, ran>>
    BY <1>1
  <1>3. StackWhole'
    BY <1>1, <1>2, NothingTaken, TopKeeps
  <1>4. arrived' \in 0..Len(packets) /\ dispatched' \in 0..arrived'
    BY <1>1 DEF Whole, Counted
  <1> QED
    BY <1>1, <1>3, <1>4, ReceiverKeeps


LEMMA NextCallIs ==
    ASSUME NEW t \in FrameRecord, NEW size, t.ind + size \in Nat
    PROVE  LET f == NextCall(t, size)
           IN /\ f \in FrameRecord /\ f.pack = t.pack
              /\ f.ind = t.ind + size /\ f.nth = t.nth + 1 /\ f.running = FALSE
  <1>1. t.nth + 1 \in Nat
    BY DEF FrameRecord
  <1> QED
    BY <1>1 DEF NextCall, FrameRecord

LEMMA TopIs ==
    ASSUME Whole, stack # <<>>
    PROVE  Place(made, packets, contents, Top) /\ Top \in FrameRecord
  <1>1. StackWhole
    BY StackIsWhole
  <1>2. stack \in Seq(FrameRecord)
    BY <1>1 DEF StackWhole
  <1>3. Len(stack) \in DOMAIN stack
    BY <1>2, TopIsThere
  <1>4. Top \in FrameRecord
    <2> HIDE DEF FrameRecord
    <2> QED
      BY <1>2, <1>3 DEF Top
  <1> QED
    BY <1>1, <1>3, <1>4 DEF StackWhole, Top

\* What the innermost frame is about to call, or has called.
Called == made[contents[Top.pack][Top.nth + 1]]
ReadArgs == DESERIALIZE_ARGUMENTS(Decls[Called.name], Payload, Top.ind + sizeof_header + Skip(Called))
LEMMA TopIsRead ==
    ASSUME Whole, stack # <<>>, Top.pack # 0, Top.ind < Len(Payload) \/ Top.running
    PROVE  /\ Top.pack \in 1..Len(contents) /\ Top.nth + 1 \in 1..Len(contents[Top.pack])
           /\ Called \in Calls
           /\ ~(Remaining < sizeof_header \/ Remaining - sizeof_header < PayloadLen)
           /\ Name = Called.name
           /\ Called.name = "" =>
                 Read("ref", Payload, Top.ind + sizeof_header + 1, sizeof_callback) = Called.ref
           /\ Len(ReadArgs) = Len(Called.args)
           /\ \A a \in DOMAIN Called.args :
                 Survives(Decls[Called.name][a], Called.args[a]) => ReadArgs[a] = Called.args[a]
           /\ LET f == NextCall(Top, sizeof_header + PayloadLen)
              IN f \in FrameRecord /\ f.pack = Top.pack /\ Place(made, packets, contents, f)
           /\ LET f == [Top EXCEPT !.running = TRUE]
              IN f \in FrameRecord /\ f.pack = Top.pack /\ Place(made, packets, contents, f)
  <1> DEFINE p == Top.pack
             nth == Top.nth
             at == Top.ind
             numbers == contents[p]
             number == ReadNumber(Payload, at + sizeof_node_id)
  <1>1. Top \in FrameRecord /\ Place(made, packets, contents, Top)
    BY TopIs
  <1>2. /\ p \in 1..Len(packets) /\ nth \in 0..Len(numbers)
        /\ Top.running => nth < Len(numbers)
    BY <1>1 DEF Place
  <1>3. PICK off : Framing(made, packets[p], numbers, off) /\ at = off[nth]
    BY <1>1 DEF Place
  <1>4. Block(made, Payload, numbers) /\ made \in Seq(Calls) /\ Len(contents) = Len(packets)
    BY <1>2, SentSeqs DEF Sent, Payload
  <1>5. Framing(made, Payload, numbers, off)
    BY <1>3 DEF Payload
  <1>6. off[nth] < Len(Payload) \/ nth < Len(numbers)
    BY <1>2, <1>3
  <1>7. /\ nth + 1 \in 1..Len(numbers) /\ made[numbers[nth + 1]] \in Calls
        /\ off[nth] \in Nat /\ off[nth + 1] <= Len(Payload)
        /\ ReadNumber(Payload, off[nth] + sizeof_node_id) \in Nat
        /\ IsRead(made, Payload, numbers, off, nth)
    <2> HIDE DEF p, nth, at, numbers, number
    <2> QED
      BY <1>2, <1>4, <1>5, <1>6, CallIsRead
  <1>8. PayloadLen = number /\ Remaining = Len(Payload) - at
    BY DEF PayloadLen, Remaining
  <1>9. /\ sizeof_header + number = off[nth + 1] - at
        /\ Name = Called.name
        /\ Called.name = "" =>
              Read("ref", Payload, at + sizeof_header + 1, sizeof_callback) = Called.ref
        /\ Len(ReadArgs) = Len(Called.args)
        /\ \A a \in DOMAIN Called.args :
              Survives(Decls[Called.name][a], Called.args[a]) => ReadArgs[a] = Called.args[a]
    BY <1>3, <1>7 DEF IsRead, Called, ReadArgs, Name
  <1>10. Called \in Calls
    BY <1>7 DEF Called
  <1> HIDE DEF nth, at, numbers, number, p
  <1>11. Len(numbers) \in Nat /\ Len(Payload) \in Nat /\ off \in [0..Len(numbers) -> Nat]
    BY <1>4, <1>5 DEF Framing, Block, IsSeq
  <1>12. /\ nth \in Nat /\ nth < Len(numbers) /\ nth + 1 \in 0..Len(numbers)
    BY <1>2, <1>7, <1>11
  <1>13. off[nth + 1] \in Nat /\ at \in Nat /\ number \in Nat /\ sizeof_header \in Nat
    <2>1. sizeof_header \in Nat
      BY DEF sizeof_header, sizeof_node_id, sizeof_uint16
    <2> QED
      BY <1>3, <1>7, <1>11, <1>12, <2>1 DEF number
  <1>14. at + (sizeof_header + number) = off[nth + 1] /\ Len(Payload) - at >= sizeof_header + number
    <2>1. ASSUME NEW a \in Nat, NEW h \in Nat, NEW k \in Nat, NEW o \in Nat, NEW len \in Nat,
                 h + k = o - a, o <= len
          PROVE  a + (h + k) = o /\ len - a >= h + k
      BY <2>1
    <2>2. sizeof_header + number = off[nth + 1] - at
      BY <1>9
    <2>3. off[nth + 1] <= Len(Payload)
      BY <1>7
    <2> QED
      BY <1>11, <1>13, <2>1, <2>2, <2>3
  <1>15. ~(Remaining < sizeof_header \/ Remaining - sizeof_header < PayloadLen)
    <2>1. ASSUME NEW a \in Nat, NEW h \in Nat, NEW k \in Nat, NEW len \in Nat, len - a >= h + k
          PROVE  ~(len - a < h \/ (len - a) - h < k)
      BY <2>1
    <2> QED
      BY <1>8, <1>11, <1>13, <1>14, <2>1
  <1>16. LET f == NextCall(Top, sizeof_header + PayloadLen)
         IN f \in FrameRecord /\ f.pack = Top.pack /\ Place(made, packets, contents, f)
    <2> DEFINE f == NextCall(Top, sizeof_header + PayloadLen)
    <2>1. Top.ind + (sizeof_header + PayloadLen) = off[nth + 1]
      BY <1>8, <1>14 DEF at
    <2>2. f \in FrameRecord /\ f.pack = Top.pack /\ f.ind = off[nth + 1] /\ f.nth = nth + 1 /\ f.running = FALSE
      BY <1>1, <1>13, <2>1, NextCallIs DEF nth
    <2> HIDE DEF f
    <2>3. f.pack \in 1..Len(packets) /\ f.nth \in 0..Len(contents[f.pack]) /\ ~f.running
      BY <1>2, <1>12, <2>2 DEF p, numbers
    <2>4. Framing(made, packets[f.pack], contents[f.pack], off) /\ f.ind = off[f.nth]
      BY <1>3, <2>2 DEF p, numbers
    <2>5. Place(made, packets, contents, f)
      BY <2>3, <2>4 DEF Place
    <2> QED
      BY <2>2, <2>5 DEF f
  <1>17. LET f == [Top EXCEPT !.running = TRUE]
         IN f \in FrameRecord /\ f.pack = Top.pack /\ Place(made, packets, contents, f)
    <2> DEFINE f == [Top EXCEPT !.running = TRUE]
    <2>1. f \in FrameRecord /\ f.pack = Top.pack /\ f.ind = at /\ f.nth = nth
      BY <1>1 DEF FrameRecord, at, nth
    <2> HIDE DEF f
    <2>2. /\ f.pack \in 1..Len(packets) /\ f.nth \in 0..Len(contents[f.pack])
          /\ f.nth < Len(contents[f.pack]) /\ f.pack # 0
      BY <1>2, <1>12, <2>1 DEF p, numbers
    <2>3. Framing(made, packets[f.pack], contents[f.pack], off) /\ f.ind = off[f.nth]
      BY <1>3, <2>1 DEF p, numbers
    <2>4. Place(made, packets, contents, f)
      BY <2>2, <2>3 DEF Place
    <2> QED
      BY <2>1, <2>4 DEF f
  <1> QED
    BY <1>2, <1>4, <1>7, <1>9, <1>10, <1>15, <1>16, <1>17 DEF p, nth, numbers, at

\* A frame that goes on to the next call, or to its running, has the packet it had.
LEMMA MoveWhole ==
    ASSUME Whole, stack # <<>>, NEW f \in FrameRecord, SetTop(f), f.pack = Top.pack,
           Place(made, packets, contents, f), UNCHANGED <<sender, ran>>
    PROVE  StackWhole'
  <1>1. StackWhole
    BY StackIsWhole
  <1>2. stack \in Seq(FrameRecord)
    BY <1>1 DEF StackWhole
  <1>3. Len(stack) \in DOMAIN stack
    BY <1>2, TopIsThere
  <1>4. Tolerated(f.pack)
    BY <1>1, <1>3 DEF StackWhole, Top
  <1> QED
    BY <1>4, TopKeeps

LEMMA NextCallWhole ==
    ASSUME Whole, stack # <<>>, Top.pack # 0, Top.ind < Len(Payload) \/ Top.running,
           SetTop(NextCall(Top, sizeof_header + PayloadLen)),
           UNCHANGED <<sender, arrived, dispatched, callbacks, ran>>
    PROVE  Whole'
  <1> DEFINE f == NextCall(Top, sizeof_header + PayloadLen)
  <1>1. f \in FrameRecord /\ f.pack = Top.pack /\ Place(made, packets, contents, f)
    BY TopIsRead
  <1> HIDE DEF f
  <1>2. SetTop(f) /\ UNCHANGED <<sender, ran>>
    BY DEF f
  <1>3. StackWhole'
    BY <1>1, <1>2, MoveWhole
  <1>4. arrived' \in 0..Len(packets) /\ dispatched' \in 0..arrived'
    BY DEF Whole, Counted
  <1> QED
    BY <1>3, <1>4, ReceiverKeeps

LEMMA RunWhole ==
    ASSUME IInv, Whole, stack # <<>>, Top.pack # 0, ~Top.running, Top.ind < Len(Payload),
           Run(Called.name, Called.ref, Skip(Called)), callbacks' \subseteq callbacks,
           UNCHANGED <<sender, arrived, dispatched>>
    PROVE  Whole'
  <1> DEFINE n == Len(stack)
             m == Len(ran) + 1
             f == [Top EXCEPT !.running = TRUE]
             under == {stack[i].pack : i \in 1..Len(stack) - 1}
             new == [pack |-> Top.pack, nth |-> Top.nth + 1, name |-> Called.name,
                     ref |-> Called.ref, args |-> ReadArgs, under |-> under]
  <1>1. /\ Top.pack \in 1..Len(contents) /\ Top.nth + 1 \in 1..Len(contents[Top.pack])
        /\ Len(ReadArgs) = Len(Called.args)
        /\ \A a \in DOMAIN Called.args :
              Survives(Decls[Called.name][a], Called.args[a]) => ReadArgs[a] = Called.args[a]
        /\ f \in FrameRecord /\ f.pack = Top.pack /\ Place(made, packets, contents, f)
    BY TopIsRead
  <1>2. ran' = Append(ran, new) /\ SetTop(f)
    BY DEF Run, ReadArgs
  <1>3. /\ new.pack = Top.pack /\ new.nth = Top.nth + 1 /\ new.name = Called.name
        /\ new.ref = Called.ref /\ new.args = ReadArgs /\ new.under = under
    OBVIOUS
  <1>4. AsCalled(made, contents, new)
    <2> HIDE DEF new
    <2> QED
      BY <1>1, <1>3 DEF AsCalled, Called
  <1> HIDE DEF new, f
  <1>5. UNCHANGED <<made, packets, contents, pub_buffer, buffered>>
    BY DEF sender
  <1>6. IsSeq(ran)
    BY DEF IInv, Shape, IsSeq
  <1>7. /\ DOMAIN ran = 1..Len(ran) /\ Len(ran) \in Nat
        /\ DOMAIN ran' = DOMAIN ran \cup {m} /\ m \notin DOMAIN ran
        /\ ran'[m] = new /\ \A r \in DOMAIN ran : ran'[r] = ran[r]
    <2>1. DOMAIN ran = 1..Len(ran) /\ Len(ran) \in Nat
      BY <1>6 DEF IsSeq
    <2>2. /\ IsSeq(ran') /\ Len(ran') = m /\ ran'[m] = new
          /\ \A i \in 1..Len(ran) : ran'[i] = ran[i]
      BY <1>2, <1>6, IsSeqAppend
    <2>3. DOMAIN ran' = 1..m
      BY <2>2 DEF IsSeq
    <2> QED
      BY <2>1, <2>2, <2>3
  <1>8. \A r \in DOMAIN ran' : AsCalled(made', contents', ran'[r])
    <2>1. \A r \in DOMAIN ran : AsCalled(made, contents, ran[r])
      BY DEF Whole
    <2> QED
      BY <1>4, <1>5, <1>7, <2>1
  <1>9. StackWhole
    BY StackIsWhole
  <1>10. stack \in Seq(FrameRecord)
    BY <1>9 DEF StackWhole
  <1>11. n \in DOMAIN stack /\ DOMAIN stack = 1..n /\ n \in Nat \ {0}
    BY <1>10, TopIsThere
  <1>12. /\ stack' \in Seq(FrameRecord) /\ Len(stack') = Len(stack)
         /\ DOMAIN stack' = DOMAIN stack
         /\ \A i \in DOMAIN stack : stack'[i].pack = stack[i].pack
         /\ \A i \in DOMAIN stack' : Place(made, packets, contents, stack'[i])
    <2>1. /\ stack' \in Seq(FrameRecord) /\ Len(stack') = Len(stack)
          /\ DOMAIN stack' = DOMAIN stack
          /\ stack'[n] = f
          /\ \A i \in DOMAIN stack : i # n => stack'[i] = stack[i]
      <3>1. stack' = [stack EXCEPT ![n] = f]
        BY <1>2 DEF SetTop
      <3> HIDE DEF FrameRecord
      <3> QED
        BY <1>1, <1>10, <1>11, <3>1
    <2>2. \A i \in DOMAIN stack : Place(made, packets, contents, stack[i])
      BY <1>9 DEF StackWhole
    <2> QED
      BY <1>1, <2>1, <2>2 DEF Top
  <1>13. Counted'
    BY <1>5, <1>9, <1>12 DEF Whole, Counted, StackWhole
  <1>14. \A r \in DOMAIN ran : ran[r].pack = Top.pack => ran[r].nth < new.nth
    <2>1. FrameOK(Top, dispatched)
      BY <1>11 DEF IInv, Shape, Top
    <2>2. Top.nth \in Nat /\ Begun(Top) = Top.nth
      BY <2>1 DEF FrameOK, Begun
    <2>3. ASSUME NEW r \in DOMAIN ran, ran[r].pack = Top.pack
          PROVE  ran[r].nth <= Top.nth /\ ran[r].nth \in Nat
      BY <1>11, <2>2, <2>3 DEF IInv, Passed, Shape, Top
    <2> QED
      BY <1>3, <2>2, <2>3
  <1>15. \A i \in DOMAIN stack : stack[i].pack # 0 /\ stack[i].pack < new.pack => stack[i].pack \in new.under
    <2> SUFFICES ASSUME NEW i \in DOMAIN stack, stack[i].pack < new.pack
                 PROVE  stack[i].pack \in under
      BY <1>3
    <2>1. Top.pack \in Nat /\ Top = stack[n]
      BY <1>1 DEF Top
    <2>2. i # n
      BY <1>3, <2>1
    <2>3. i \in 1..Len(stack) - 1
      BY <1>11, <2>2
    <2> QED
      BY <2>3
  <1>16. InOrder'
    <2>1. ASSUME NEW r \in DOMAIN ran', NEW q \in DOMAIN ran', r < q
          PROVE  /\ ran'[r].pack = ran'[q].pack => ran'[r].nth < ran'[q].nth
                 /\ ran'[q].pack < ran'[r].pack => ran'[q].pack \in ran'[r].under
      <3>1. r \in DOMAIN ran
        BY <1>7, <2>1
      <3>2. CASE q \in DOMAIN ran
        BY <1>7, <2>1, <3>1, <3>2 DEF Whole, InOrder
      <3>3. CASE q = m
        <4>1. Tolerated(stack[n].pack) /\ Top.pack = stack[n].pack
          BY <1>9, <1>11 DEF StackWhole, Top
        <4> QED
          BY <1>3, <1>7, <1>14, <3>1, <3>3, <4>1 DEF Tolerated
      <3> QED
        BY <1>7, <3>2, <3>3
    <2>2. ASSUME NEW r \in DOMAIN ran', NEW i \in DOMAIN stack',
                 stack'[i].pack # 0, stack'[i].pack < ran'[r].pack
          PROVE  stack'[i].pack \in ran'[r].under
      <3>1. CASE r \in DOMAIN ran
        BY <1>7, <1>12, <2>2, <3>1 DEF Whole, InOrder
      <3>2. CASE r = m
        BY <1>7, <1>12, <1>15, <2>2, <3>2
      <3> QED
        BY <1>7, <3>1, <3>2
    <2> QED
      BY <2>1, <2>2 DEF InOrder
  <1>17. \A i \in DOMAIN stack' : Place(made', packets', contents', stack'[i])
    BY <1>5, <1>12
  <1> QED
    BY <1>5, <1>8, <1>13, <1>16, <1>17 DEF Whole

LEMMA FunctionCallWhole ==
    ASSUME IInv, Whole, dstc_process_function_call
    PROVE  Whole'
  <1>1. /\ stack # <<>> /\ Top.pack # 0 /\ ~Top.running /\ Top.ind < Len(Payload)
        /\ UNCHANGED <<sender, arrived, dispatched, freed>>
    BY DEF dstc_process_function_call, Dispatching
  <1>2. /\ Called \in Calls /\ Name = Called.name
        /\ ~(Remaining < sizeof_header \/ Remaining - sizeof_header < PayloadLen)
        /\ Called.name = "" =>
              Read("ref", Payload, Top.ind + sizeof_header + 1, sizeof_callback) = Called.ref
    BY <1>1, TopIsRead
  <1>3. ASSUME SetTop(NextCall(Top, sizeof_header + PayloadLen)), UNCHANGED <<callbacks, ran>>
        PROVE  Whole'
    BY <1>1, <1>3, NextCallWhole
  <1>4. CASE Name # ""
    <2>1. CASE _dstc_find_server_function(Name) # {}
      <3>1. Run(Name, "", 2) /\ callbacks' = callbacks
        BY <1>2, <1>4, <2>1 DEF dstc_process_function_call
      <3>2. Called.ref = "" /\ Skip(Called) = 2
        BY <1>2, <1>4, CallsAssumption DEF Skip
      <3>3. Run(Called.name, Called.ref, Skip(Called))
        BY <1>2, <3>1, <3>2
      <3> QED
        BY <1>1, <3>1, <3>3, RunWhole
    <2>2. CASE _dstc_find_server_function(Name) = {}
      <3>1. SetTop(NextCall(Top, sizeof_header + PayloadLen)) /\ UNCHANGED <<callbacks, ran>>
        BY <1>2, <1>4, <2>2 DEF dstc_process_function_call
      <3> QED
        BY <1>3, <3>1
    <2> QED
      BY <2>1, <2>2
  <1>5. CASE Name = ""
    <2> DEFINE ref == Read("ref", Payload, Top.ind + sizeof_header + 1, sizeof_callback)
    <2>1. ref = Called.ref /\ Skip(Called) = 1 + sizeof_callback
      BY <1>2, <1>5 DEF Skip
    <2>2. CASE ref \in callbacks
      <3>1. Run("", ref, 1 + sizeof_callback) /\ callbacks' = callbacks \ {ref}
        BY <1>2, <1>5, <2>2 DEF dstc_process_function_call
      <3>2. Run(Called.name, Called.ref, Skip(Called))
        BY <1>2, <1>5, <2>1, <3>1
      <3>3. callbacks' \subseteq callbacks
        BY <3>1
      <3> QED
        BY <1>1, <3>2, <3>3, RunWhole
    <2>3. CASE ref \notin callbacks
      <3>1. SetTop(NextCall(Top, sizeof_header + PayloadLen)) /\ UNCHANGED <<callbacks, ran>>
        BY <1>2, <1>5, <2>3 DEF dstc_process_function_call
      <3> QED
        BY <1>3, <3>1
    <2> QED
      BY <2>2, <2>3
  <1> QED
    BY <1>4, <1>5

LEMMA FunctionReturnsWhole ==
    ASSUME Whole, FunctionReturns
    PROVE  Whole'
  <1>1. /\ stack # <<>> /\ Top.running
        /\ SetTop(NextCall(Top, sizeof_header + PayloadLen))
        /\ UNCHANGED <<sender, arrived, dispatched, callbacks, ran>>
    BY DEF FunctionReturns
  <1>2. Top.pack # 0
    BY <1>1, TopIs DEF Place
  <1> QED
    BY <1>1, <1>2, NextCallWhole

---------------------------------------------------------------------------
LEMMA InitWhole == Init => Whole
  <1> SUFFICES ASSUME Init PROVE Whole
    OBVIOUS
  <1> DEFINE none == <<>>
  <1>1. /\ made = none /\ packets = none /\ contents = none /\ pub_buffer = none /\ buffered = none
        /\ stack = none /\ ran = none /\ arrived = 0 /\ dispatched = 0 /\ callbacks \subseteq Refs
    BY DEF Init
  <1>2. Len(none) = 0 /\ DOMAIN none = {} /\ \A S : none \in Seq(S)
    OBVIOUS
  <1>3. IsSeq(none)
    BY <1>2 DEF IsSeq
  <1>4. \A k \in 1..Len(none) : FALSE
    BY <1>2
  <1>5. FlattenSeq(none) \o none = [i \in 1..Len(none) |-> i]
    <2>1. FlattenSeq(none) = none
      BY <1>2, FlattenIsEmpty
    <2>2. none \o none = none
      OBVIOUS
    <2>3. none = [i \in 1..0 |-> i]
      OBVIOUS
    <2> QED
      BY <1>2, <2>1, <2>2, <2>3
  <1> HIDE DEF none
  <1>6. Sent(none, none, none, none, none)
    <2> DEFINE off == [k \in 0..0 |-> 0]
    <2>1. off \in [0..0 -> Nat] /\ off[0] = 0
      OBVIOUS
    <2> HIDE DEF off
    <2>2. Framing(none, none, none, off)
      BY <1>2, <1>4, <2>1 DEF Framing
    <2>3. Block(none, none, none)
      BY <1>2, <1>3, <1>4, <2>2, BufferAssumption, RangeAssumption DEF Block, Ascending
    <2> QED
      BY <1>2, <1>3, <1>4, <1>5, <2>3 DEF Sent
  <1>7. Counted
    BY <1>1, <1>2, BoundAssumption DEF Counted
  <1>8. InOrder
    BY <1>1, <1>2 DEF InOrder
  <1> QED
    BY <1>1, <1>2, <1>6, <1>7, <1>8 DEF Whole

LEMMA StepWhole == IInv /\ Whole /\ [Next]_vars => Whole'
  <1> SUFFICES ASSUME IInv, Whole, [Next]_vars PROVE Whole'
    OBVIOUS
  <1>1. ASSUME NEW framed \in Framed, _dstc_queue(framed.call, framed.bytes)
        PROVE  Whole'
    <2>1. PICK call \in Calls : framed = [call |-> call, bytes |-> FrameOf(call)]
      BY DEF Framed, FrameOf, Argument
    <2>2. _dstc_queue(call, FrameOf(call))
      BY <1>1, <2>1
    <2> QED
      BY <2>2, QueueWhole
  <1>2. CASE dstc_flush_client_calls
    BY <1>2, FlushWhole DEF dstc_flush_client_calls
  <1>3. CASE UNCHANGED vars
    <2>1. /\ IsSeq(made) /\ IsSeq(packets) /\ IsSeq(contents)
          /\ Sent(made, packets, contents, pub_buffer, buffered)
      BY SentSeqs
    <2>2. /\ UNCHANGED <<made, packets, contents, pub_buffer, buffered>>
          /\ UNCHANGED <<arrived, dispatched, freed, callbacks, stack, ran>>
      BY <1>3 DEF vars, sender
    <2>3. Extends(made, made') /\ Extends(packets, packets') /\ Extends(contents, contents')
      BY <2>1, <2>2, ExtendsItself
    <2> QED
      BY <2>1, <2>2, <2>3, SendKeeps
  <1>4. CASE Receive
    BY <1>4, ReadEventWhole, TakePacketWhole, FunctionCallWhole, FunctionReturnsWhole,
       FreePayloadWhole DEF Receive
  <1> QED
    BY <1>1, <1>2, <1>3, <1>4 DEF Next

LEMMA WholeInvariant == Spec => [](IInv /\ Whole)
  <1>1. Init => IInv /\ Whole
    BY InitHolds, InitWhole
  <1>2. IInv /\ Whole /\ [Next]_vars => (IInv /\ Whole)'
    BY StepKeeps, StepWhole
  <1> QED
    BY <1>1, <1>2, PTL DEF Spec

\* The numbers of what ran.
LEMMA NumbersOrdered ==
    ASSUME IInv, Whole, NEW r \in DOMAIN ran, NEW q \in DOMAIN ran
    PROVE  /\ Number(ran[r]) \in Nat
           /\ ran[r].pack \in 1..Len(packets) /\ ran[r].nth \in Nat
           /\ ran[r].pack < ran[q].pack => Number(ran[r]) < Number(ran[q])
           /\ ran[r].pack = ran[q].pack /\ ran[r].nth < ran[q].nth => Number(ran[r]) < Number(ran[q])
  <1>1. /\ ran[r].pack \in 1..Len(contents) /\ ran[r].nth \in 1..Len(contents[ran[r].pack])
        /\ ran[q].pack \in 1..Len(contents) /\ ran[q].nth \in 1..Len(contents[ran[q].pack])
    BY DEF Whole, AsCalled
  <1>2. /\ Len(contents) = Len(packets)
        /\ \A a, b \in 1..Len(packets) : a < b => Before(contents[a], contents[b])
        /\ \A a \in 1..Len(packets) : contents[a] \in Seq(Nat) /\ Ascending(contents[a])
    BY SentSeqs DEF Sent, Block
  <1> DEFINE p == ran[r].pack
             k == ran[r].nth
             o == ran[q].pack
             l == ran[q].nth
  <1>3. Number(ran[r]) = contents[p][k] /\ Number(ran[q]) = contents[o][l]
    BY DEF Number
  <1> HIDE DEF p, k, o, l
  <1>4. /\ p \in 1..Len(packets) /\ k \in 1..Len(contents[p])
        /\ o \in 1..Len(packets) /\ l \in 1..Len(contents[o])
    BY <1>1, <1>2 DEF p, k, o, l
  <1>5. contents[p] \in Seq(Nat) /\ contents[p][k] \in Nat
    BY <1>2, <1>4
  <1>6. p < o => contents[p][k] < contents[o][l]
    BY <1>2, <1>4 DEF Before
  <1>7. p = o /\ k < l => contents[p][k] < contents[o][l]
    BY <1>2, <1>4 DEF Ascending
  <1>8. k \in Nat
    BY <1>4
  <1> QED
    BY <1>3, <1>4, <1>5, <1>6, <1>7, <1>8 DEF p, k, o, l

---------------------------------------------------------------------------
\* Buffer and packets never hold more than RMC's payload, every call that was accepted
\* is in one of them, in order and once, and dispatch stays within the packets
\* (dstc.c:842-926, 517-584, 626-657).
THEOREM TypeCorrect == Spec => []TypeOK
  <1>1. IInv /\ Whole => TypeOK
    <2> SUFFICES ASSUME IInv, Whole PROVE TypeOK
      OBVIOUS
    <2>1. Sent(made, packets, contents, pub_buffer, buffered)
      BY SentSeqs
    <2>2. /\ Len(pub_buffer) <= RMC_MAX_PAYLOAD /\ made \in Seq(Calls)
          /\ FlattenSeq(contents) \o buffered = [i \in 1..Len(made) |-> i]
          /\ Len(contents) = Len(packets)
      BY <2>1 DEF Sent, Block
    <2>3. IsSeq(packets) /\ DOMAIN packets = 1..Len(packets) /\ Len(packets) \in Nat
      BY <2>1 DEF Sent, IsSeq
    <2>4. \A p \in DOMAIN packets : Len(packets[p]) \in 1..RMC_MAX_PAYLOAD
      <3>1. RMC_MAX_PAYLOAD \in Nat
        BY BufferAssumption, RangeAssumption
      <3>2. ASSUME NEW p \in 1..Len(packets)
            PROVE  Len(packets[p]) \in Nat /\ Len(packets[p]) > 0 /\ Len(packets[p]) <= RMC_MAX_PAYLOAD
        BY <2>1 DEF Sent, Block, IsSeq
      <3> QED
        BY <2>3, <3>1, <3>2
    <2>5. /\ arrived \in 0..Len(packets) /\ dispatched \in 0..arrived
          /\ callbacks \subseteq Refs /\ Len(stack) <= MaxDispatches /\ stack \in Seq(FrameRecord)
      BY DEF Whole, Counted
    <2>6. freed \subseteq 1..dispatched
      BY DEF IInv, PayloadsFreedAfterUse
    <2>7. ASSUME NEW i \in DOMAIN stack
          PROVE  /\ stack[i] \in FrameSet
                 /\ stack[i].pack # 0 => stack[i].ind <= Len(packets[stack[i].pack])
      <3>1. stack[i] \in FrameRecord /\ Place(made, packets, contents, stack[i])
        <4> HIDE DEF FrameRecord
        <4> QED
          BY <2>5 DEF Whole
      <3>2. stack[i].pack \in 0..Len(packets)
        BY <2>3, <3>1 DEF Place
      <3>3. stack[i] \in FrameSet
        BY <3>1, <3>2 DEF FrameSet, FrameRecord
      <3>4. CASE stack[i].pack # 0
        <4> DEFINE p == stack[i].pack
                   nth == stack[i].nth
                   numbers == contents[p]
        <4>1. p \in 1..Len(packets) /\ nth \in 0..Len(numbers)
          BY <3>1, <3>4 DEF Place
        <4>2. PICK off : Framing(made, packets[p], numbers, off) /\ stack[i].ind = off[nth]
          BY <3>1, <3>4 DEF Place
        <4>3. Block(made, packets[p], numbers) /\ made \in Seq(Calls)
          BY <2>1, <4>1 DEF Sent
        <4> HIDE DEF p, nth, numbers
        <4>4. CASE nth < Len(numbers)
          <5>1. /\ nth + 1 \in 1..Len(numbers) /\ off[nth] \in Nat /\ off[nth + 1] <= Len(packets[p])
                /\ IsRead(made, packets[p], numbers, off, nth)
                /\ ReadNumber(packets[p], off[nth] + sizeof_node_id) \in Nat
            BY <4>1, <4>2, <4>3, <4>4, CallIsRead
          <5>2. sizeof_header + ReadNumber(packets[p], off[nth] + sizeof_node_id) = off[nth + 1] - off[nth]
            BY <5>1 DEF IsRead
          <5>3. off[nth + 1] \in Nat /\ Len(packets[p]) \in Nat
            BY <4>2, <4>3, <5>1 DEF Framing, Block, IsSeq
          <5>4. sizeof_header \in Nat
            BY DEF sizeof_header, sizeof_node_id, sizeof_uint16
          <5>5. off[nth] <= Len(packets[p])
            <6>1. ASSUME NEW a \in Nat, NEW b \in Nat, NEW c \in Nat, NEW h \in Nat, NEW k \in Nat,
                         h + k = b - a, b <= c
                  PROVE  a <= c
              BY <6>1
            <6>2. off[nth] \in Nat /\ off[nth + 1] <= Len(packets[p])
                  /\ ReadNumber(packets[p], off[nth] + sizeof_node_id) \in Nat
              BY <5>1
            <6> QED
              BY <5>2, <5>3, <5>4, <6>1, <6>2
          <5> QED
            BY <3>3, <4>2, <5>5 DEF p
        <4>5. CASE ~(nth < Len(numbers))
          <5>1. nth = Len(numbers)
            BY <4>1, <4>3, <4>5 DEF Block
          <5>2. off[nth] = Len(packets[p]) /\ Len(packets[p]) \in Nat
            BY <4>2, <4>3, <5>1 DEF Framing, Block, IsSeq
          <5> QED
            BY <3>3, <4>2, <5>2 DEF p
        <4> QED
          BY <4>4, <4>5
      <3> QED
        BY <3>3, <3>4
    <2>8. stack \in Seq(FrameSet)
      <3> HIDE DEF FrameRecord, FrameSet
      <3> QED
        BY <2>5, <2>7
    <2>9. \A i \in DOMAIN ran : ran[i].nth \in DOMAIN contents[ran[i].pack]
      <3>1. ASSUME NEW i \in DOMAIN ran
            PROVE  ran[i].nth \in DOMAIN contents[ran[i].pack]
        <4>1. ran[i].pack \in 1..Len(packets) /\ ran[i].nth \in 1..Len(contents[ran[i].pack])
          BY <2>2 DEF Whole, AsCalled
        <4>2. contents[ran[i].pack] \in Seq(Nat)
          BY <2>1, <4>1 DEF Sent, Block
        <4> QED
          BY <4>1, <4>2
      <3> QED
        BY <3>1
    <2> QED
      BY <2>2, <2>4, <2>5, <2>6, <2>7, <2>8, <2>9 DEF TypeOK
  <1> QED
    BY <1>1, WholeInvariant, PTL

\* What runs is the function or callback that was called, with the arguments of the
\* call, whatever comes before it in the packet and whatever arguments before those
\* (dstc.h:291-507, dstc.c:842-926, 517-584).
THEOREM RunsWhatWasSentCorrect == Spec => []RunsWhatWasSent
  <1>1. IInv /\ Whole => RunsWhatWasSent
    BY DEF Whole, AsCalled, RunsWhatWasSent, Number
  <1> QED
    BY <1>1, WholeInvariant, PTL

\* No call runs twice, though a function that runs may process events; nor does a
\* callback (dstc.c:515-584, 626-657).
THEOREM EachRunOnceCorrect == Spec => []EachRunOnce
  <1>1. IInv /\ Whole => EachRunOnce
    <2> SUFFICES ASSUME IInv, Whole, NEW r \in DOMAIN ran, NEW q \in DOMAIN ran, r # q
                 PROVE  /\ Number(ran[r]) # Number(ran[q])
                        /\ ran[r].name = "" => <<ran[r].name, ran[r].ref>> # <<ran[q].name, ran[q].ref>>
      BY DEF EachRunOnce
    <2>1. /\ <<ran[r].pack, ran[r].nth>> # <<ran[q].pack, ran[q].nth>>
          /\ ran[r].name = "" /\ ran[q].name = "" => ran[r].ref # ran[q].ref
      BY DEF IInv, RunOnce
    <2>2. /\ Number(ran[r]) \in Nat /\ Number(ran[q]) \in Nat
          /\ ran[r].pack \in Nat /\ ran[q].pack \in Nat /\ ran[r].nth \in Nat /\ ran[q].nth \in Nat
          /\ ran[r].pack < ran[q].pack => Number(ran[r]) < Number(ran[q])
          /\ ran[q].pack < ran[r].pack => Number(ran[q]) < Number(ran[r])
          /\ ran[r].pack = ran[q].pack /\ ran[r].nth < ran[q].nth => Number(ran[r]) < Number(ran[q])
          /\ ran[q].pack = ran[r].pack /\ ran[q].nth < ran[r].nth => Number(ran[q]) < Number(ran[r])
      BY NumbersOrdered
    <2>3. Number(ran[r]) # Number(ran[q])
      <3>1. CASE ran[r].pack = ran[q].pack
        <4>1. ran[r].nth # ran[q].nth
          BY <2>1, <3>1
        <4>2. ran[r].nth < ran[q].nth \/ ran[q].nth < ran[r].nth
          BY <2>2, <4>1
        <4> QED
          BY <2>2, <3>1, <4>2
      <3>2. CASE ran[r].pack # ran[q].pack
        <4>1. ran[r].pack < ran[q].pack \/ ran[q].pack < ran[r].pack
          BY <2>2, <3>2
        <4> QED
          BY <2>2, <4>1
      <3> QED
        BY <3>1, <3>2
    <2> QED
      BY <2>1, <2>3
  <1> QED
    BY <1>1, WholeInvariant, PTL

\* Calls begin in the order they were made in, unless a call before them of their packet
\* processes events and what it dispatches comes first (dstc.c:626-657).
THEOREM OvertakesOnlyFromWithinCorrect == Spec => []OvertakesOnlyFromWithin
  <1>1. IInv /\ Whole => OvertakesOnlyFromWithin
    <2> SUFFICES ASSUME IInv, Whole, NEW r \in DOMAIN ran, NEW q \in DOMAIN ran, r < q,
                        Number(ran[q]) < Number(ran[r])
                 PROVE  ran[q].pack \in ran[r].under
      BY DEF OvertakesOnlyFromWithin
    <2>1. /\ Number(ran[r]) \in Nat /\ Number(ran[q]) \in Nat
          /\ ran[r].pack \in Nat /\ ran[q].pack \in Nat
          /\ ran[r].pack < ran[q].pack => Number(ran[r]) < Number(ran[q])
          /\ ran[r].pack = ran[q].pack /\ ran[r].nth < ran[q].nth => Number(ran[r]) < Number(ran[q])
      BY NumbersOrdered
    <2>2. /\ ran[r].pack = ran[q].pack => ran[r].nth < ran[q].nth
          /\ ran[q].pack < ran[r].pack => ran[q].pack \in ran[r].under
      BY DEF Whole, InOrder
    <2> QED
      BY <2>1, <2>2
  <1> QED
    BY <1>1, WholeInvariant, PTL

=============================================================================
