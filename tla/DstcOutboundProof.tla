------------------------- MODULE DstcOutboundProof -------------------------
(***************************************************************************)
(* Proofs about DstcOutbound for every set of threads, every buffer size,  *)
(* every choice of call sizes and thresholds, and any number of calls.     *)
(***************************************************************************)
EXTENDS DstcOutbound, SequenceTheorems, TLAPS

USE SizesAssumption, BufferAssumption, ThresholdAssumption, MaxCallsAssumption

(***************************************************************************)
(* Type correctness.                                                       *)
(***************************************************************************)

\* Handing over the buffer, or not, leaves the variables it may change typed.
LEMMA QueuePendingType ==
    ASSUME TypeOK,
           NEW calls \in Seq(Calls), NEW ind \in 0 .. BufferSize,
           queue_pending_calls(calls, ind)
    PROVE  /\ pub_buffer' \in Seq(Calls)
           /\ pub_buffer_ind' \in 0 .. BufferSize
           /\ rmc_queue' \in Seq(Packets)
           /\ suspended' \in BOOLEAN
           /\ handed' \in Seq(Calls)
<1>1. CASE /\ rmc_pub_queue_packet([calls |-> calls, bytes |-> ind])
           /\ pub_buffer' = <<>>
           /\ pub_buffer_ind' = 0
    <2>1. [calls |-> calls, bytes |-> ind] \in Packets
        BY DEF Packets
    <2> QED
        BY <1>1, <2>1 DEF TypeOK, rmc_pub_queue_packet
<1>2. CASE pub_buffer' = calls /\ pub_buffer_ind' = ind /\ UNCHANGED rmcVars
    BY <1>2 DEF TypeOK, rmcVars
<1> QED
    BY <1>1, <1>2 DEF queue_pending_calls

\* So does framing a call that fits.
LEMMA QueueAcceptedType ==
    ASSUME TypeOK, NEW call \in Calls, QueueAccepted(call)
    PROVE  /\ pub_buffer' \in Seq(Calls)
           /\ pub_buffer_ind' \in 0 .. BufferSize
           /\ rmc_queue' \in Seq(Packets)
           /\ suspended' \in BOOLEAN
           /\ handed' \in Seq(Calls)
           /\ accepted' \in Seq(Calls)
<1> DEFINE calls == Append(pub_buffer, call)
           ind == pub_buffer_ind + call.size
<1>1. calls \in Seq(Calls) /\ accepted' \in Seq(Calls)
    BY DEF TypeOK, QueueAccepted
<1>2. ind \in 0 .. BufferSize
    <2>1. call.size \in Nat
        BY DEF Calls
    <2>2. call.size <= BufferSize - pub_buffer_ind
        BY DEF QueueAccepted, Fits, payload_buffer_available
    <2> QED
        BY <2>1, <2>2 DEF TypeOK
<1>3. CASE pub_is_buffering
    BY <1>1, <1>2, <1>3 DEF TypeOK, QueueAccepted, rmcVars
<1>4. CASE ~pub_is_buffering
    <2>1. queue_pending_calls(calls, ind)
        BY <1>4 DEF QueueAccepted
    <2> HIDE DEF calls, ind
    <2> QED
        BY <1>1, <1>2, <2>1, QueuePendingType
<1> QED
    BY <1>3, <1>4

LEMMA QueueRefusedType ==
    ASSUME TypeOK, NEW call \in Calls, QueueRefused(call)
    PROVE  /\ pub_buffer' \in Seq(Calls)
           /\ pub_buffer_ind' \in 0 .. BufferSize
           /\ rmc_queue' \in Seq(Packets)
           /\ suspended' \in BOOLEAN
           /\ handed' \in Seq(Calls)
           /\ accepted' \in Seq(Calls)
    BY QueuePendingType DEF TypeOK, QueueRefused

\* The call a thread makes next is a call.
LEMMA NextCallType ==
    ASSUME TypeOK, NEW t \in Threads, NEW size \in Sizes, issued[t] < MaxCalls
    PROVE  [thread |-> t, num |-> issued[t] + 1, size |-> size] \in Calls
    BY DEF TypeOK, Calls

LEMMA TypeStep == TypeOK /\ [Next]_vars => TypeOK'
<1> SUFFICES ASSUME TypeOK, [Next]_vars PROVE TypeOK'
    OBVIOUS
<1>1. ASSUME NEW t \in Threads, NEW size \in Sizes, NEW persistent \in BOOLEAN,
             NewCall(t, size, persistent)
      PROVE  TypeOK'
    <2> DEFINE call == [thread |-> t, num |-> issued[t] + 1, size |-> size]
    <2>1. call \in Calls
        BY <1>1, NextCallType DEF NewCall
    <2>2. issued' \in [Threads -> 0 .. MaxCalls] /\ pub_is_buffering' \in BOOLEAN
        BY <1>1 DEF NewCall, TypeOK
    <2>3. QueueAccepted(call) \/ QueueRefused(call)
        BY <1>1 DEF NewCall
    <2>4. retrying' \in [Threads -> Calls \cup {NoCall}]
        BY <1>1, <2>1 DEF NewCall, TypeOK
    <2> HIDE DEF call
    <2> QED
        BY <2>1, <2>2, <2>3, <2>4, QueueAcceptedType, QueueRefusedType DEF TypeOK
<1>2. ASSUME NEW t \in Threads, Retry(t)
      PROVE  TypeOK'
    <2>1. retrying[t] \in Calls
        BY <1>2 DEF Retry, TypeOK
    <2>2. QueueAccepted(retrying[t]) \/ QueueRefused(retrying[t])
        BY <1>2 DEF Retry
    <2>3. /\ issued' \in [Threads -> 0 .. MaxCalls]
          /\ pub_is_buffering' \in BOOLEAN
          /\ retrying' \in [Threads -> Calls \cup {NoCall}]
        BY <1>2 DEF Retry, TypeOK
    <2> QED
        BY <2>1, <2>2, <2>3, QueueAcceptedType, QueueRefusedType DEF TypeOK
<1>3. CASE dstc_buffer_client_calls
    BY <1>3 DEF dstc_buffer_client_calls, TypeOK, bufferVars, rmcVars, programVars
<1>4. CASE dstc_flush_client_calls
    <2>1. queue_pending_calls(pub_buffer, pub_buffer_ind)
        BY <1>4 DEF dstc_flush_client_calls
    <2> QED
        BY <1>4, <2>1, QueuePendingType
        DEF dstc_flush_client_calls, TypeOK, programVars
<1>5. CASE dstc_unbuffer_client_calls
    <2>1. queue_pending_calls(pub_buffer, pub_buffer_ind)
        BY <1>5 DEF dstc_unbuffer_client_calls
    <2> QED
        BY <1>5, <2>1, QueuePendingType
        DEF dstc_unbuffer_client_calls, TypeOK, programVars
<1>6. CASE RmcAck
    BY <1>6 DEF RmcAck, TypeOK, bufferVars, programVars
<1>7. CASE UNCHANGED vars
    BY <1>7 DEF vars, TypeOK, bufferVars, rmcVars, programVars
<1> QED
    BY <1>1, <1>2, <1>3, <1>4, <1>5, <1>6, <1>7 DEF Next

\* Every state of DstcOutbound is typed; in particular the index never leaves the
\* payload buffer (_dstc_payload_buffer_alloc) and no packet is longer than it.
THEOREM TypeCorrect == Spec => []TypeOK
<1>1. ASSUME Init PROVE TypeOK
    <2>1. /\ issued \in [Threads -> 0 .. MaxCalls]
          /\ retrying \in [Threads -> Calls \cup {NoCall}]
        BY <1>1 DEF Init
    <2>2. /\ pub_buffer \in Seq(Calls)
          /\ rmc_queue \in Seq(Packets)
          /\ accepted \in Seq(Calls)
          /\ handed \in Seq(Calls)
        BY <1>1 DEF Init
    <2>3. pub_buffer_ind \in 0 .. BufferSize
        BY <1>1 DEF Init
    <2>4. pub_is_buffering \in BOOLEAN /\ suspended \in BOOLEAN
        BY <1>1, Zenon DEF Init
    <2> QED
        BY <2>1, <2>2, <2>3, <2>4 DEF TypeOK
<1> QED
    BY <1>1, TypeStep, PTL DEF Spec

(***************************************************************************)
(* Every accepted call goes out once and in order.                         *)
(***************************************************************************)

\* Handing over the buffer, or not, loses, repeats and reorders nothing.
LEMMA QueuePendingOutgoing ==
    ASSUME TypeOK,
           NEW calls \in Seq(Calls), NEW ind \in 0 .. BufferSize,
           queue_pending_calls(calls, ind)
    PROVE  Outgoing' = handed \o calls
<1>1. CASE /\ rmc_pub_queue_packet([calls |-> calls, bytes |-> ind])
           /\ pub_buffer' = <<>>
    <2>1. handed' = handed \o calls
        BY <1>1 DEF rmc_pub_queue_packet
    <2>2. handed \o calls \in Seq(Calls)
        BY ConcatProperties DEF TypeOK
    <2> QED
        BY <1>1, <2>1, <2>2, ConcatEmptySeq DEF Outgoing
<1>2. CASE pub_buffer' = calls /\ UNCHANGED rmcVars
    BY <1>2 DEF rmcVars, Outgoing
<1> QED
    BY <1>1, <1>2 DEF queue_pending_calls

\* A call that is accepted joins the outgoing calls at the end.
LEMMA QueueAcceptedOutgoing ==
    ASSUME TypeOK, NEW call \in Calls, QueueAccepted(call)
    PROVE  Outgoing' = Append(Outgoing, call)
<1> DEFINE calls == Append(pub_buffer, call)
           ind == pub_buffer_ind + call.size
<1>1. calls \in Seq(Calls)
    BY DEF TypeOK
<1>2. handed \o calls = Append(Outgoing, call)
    <2>1. calls = pub_buffer \o <<call>>
        BY AppendIsConcat DEF TypeOK
    <2>2. <<call>> \in Seq(Calls)
        OBVIOUS
    <2>3. handed \o (pub_buffer \o <<call>>) = (handed \o pub_buffer) \o <<call>>
        BY <2>2, ConcatAssociative DEF TypeOK
    <2>4. handed \o pub_buffer \in Seq(Calls)
        BY ConcatProperties DEF TypeOK
    <2> QED
        BY <2>1, <2>3, <2>4, AppendIsConcat DEF Outgoing
<1>3. ind \in 0 .. BufferSize
    <2>1. call.size \in Nat
        BY DEF Calls
    <2>2. call.size <= BufferSize - pub_buffer_ind
        BY DEF QueueAccepted, Fits, payload_buffer_available
    <2> QED
        BY <2>1, <2>2 DEF TypeOK
<1>4. CASE pub_is_buffering
    <2>1. Outgoing' = handed \o calls
        BY <1>4 DEF QueueAccepted, rmcVars, Outgoing
    <2> QED
        BY <1>2, <2>1
<1>5. CASE ~pub_is_buffering
    <2>1. queue_pending_calls(calls, ind)
        BY <1>5 DEF QueueAccepted
    <2> HIDE DEF calls, ind
    <2> QED
        BY <1>1, <1>2, <1>3, <2>1, QueuePendingOutgoing
<1> QED
    BY <1>4, <1>5

\* This step is thread t making the call: for the first time, or again.
Makes(t, call) ==
    \/ Retry(t) /\ call = retrying[t]
    \/ \E size \in Sizes, persistent \in BOOLEAN :
          /\ NewCall(t, size, persistent)
          /\ call = [thread |-> t, num |-> issued[t] + 1, size |-> size]

\* Every step either accepts one call, which joins the end of both streams, or
\* leaves both as they are.
LEMMA StreamStep ==
    ASSUME TypeOK, [Next]_vars
    PROVE  \/ \E call \in Calls :
                  /\ QueueAccepted(call)
                  /\ \E t \in Threads : Makes(t, call)
                  /\ Outgoing' = Append(Outgoing, call)
                  /\ accepted' = Append(accepted, call)
           \/ Outgoing' = Outgoing /\ accepted' = accepted
<1>1. ASSUME NEW call \in Calls, QueueRefused(call)
      PROVE  Outgoing' = Outgoing /\ accepted' = accepted
    <2>1. queue_pending_calls(pub_buffer, pub_buffer_ind) /\ accepted' = accepted
        BY <1>1 DEF QueueRefused
    <2> QED
        BY <2>1, QueuePendingOutgoing DEF TypeOK, Outgoing
<1>2. ASSUME NEW call \in Calls, QueueAccepted(call)
      PROVE  Outgoing' = Append(Outgoing, call) /\ accepted' = Append(accepted, call)
    BY <1>2, QueueAcceptedOutgoing DEF QueueAccepted
<1> DEFINE Goal ==
        \/ \E call \in Calls :
               /\ QueueAccepted(call)
               /\ \E t \in Threads : Makes(t, call)
               /\ Outgoing' = Append(Outgoing, call)
               /\ accepted' = Append(accepted, call)
        \/ Outgoing' = Outgoing /\ accepted' = accepted
<1>3. ASSUME NEW t \in Threads, NEW size \in Sizes, NEW persistent \in BOOLEAN,
             NewCall(t, size, persistent)
      PROVE  Goal
    <2> DEFINE call == [thread |-> t, num |-> issued[t] + 1, size |-> size]
    <2>1. call \in Calls /\ (QueueAccepted(call) \/ QueueRefused(call))
        BY <1>3, NextCallType DEF NewCall
    <2>2. Makes(t, call)
        BY <1>3 DEF Makes
    <2> HIDE DEF call
    <2> QED
        BY <1>1, <1>2, <2>1, <2>2
<1>4. ASSUME NEW t \in Threads, Retry(t)
      PROVE  Goal
    <2>1. retrying[t] \in Calls
        BY <1>4 DEF Retry, TypeOK
    <2>2. QueueAccepted(retrying[t]) \/ QueueRefused(retrying[t])
        BY <1>4 DEF Retry
    <2>3. Makes(t, retrying[t])
        BY <1>4 DEF Makes
    <2> QED
        BY <1>1, <1>2, <2>1, <2>2, <2>3
<1>5. CASE dstc_flush_client_calls \/ dstc_unbuffer_client_calls
    <2>1. queue_pending_calls(pub_buffer, pub_buffer_ind) /\ accepted' = accepted
        BY <1>5 DEF dstc_flush_client_calls, dstc_unbuffer_client_calls, programVars
    <2> QED
        BY <2>1, QueuePendingOutgoing DEF TypeOK, Outgoing
<1>6. CASE dstc_buffer_client_calls \/ RmcAck \/ UNCHANGED vars
    BY <1>6 DEF dstc_buffer_client_calls, RmcAck, vars, bufferVars, rmcVars,
                programVars, Outgoing
<1> QED
    BY <1>1, <1>2, <1>3, <1>4, <1>5, <1>6 DEF Next

\* An accepted call is never lost, repeated or overtaken between the answer 0 and
\* the hand-over to RMC (_dstc_queue, _queue_pending_calls).
THEOREM InOrderOnceCorrect == Spec => []InOrderOnce
<1>1. Init => InOrderOnce
    BY ConcatEmptySeq DEF Init, InOrderOnce, Outgoing
<1>2. TypeOK /\ InOrderOnce /\ [Next]_vars => InOrderOnce'
    BY StreamStep DEF InOrderOnce
<1> QED
    BY <1>1, <1>2, TypeCorrect, PTL DEF Spec

(***************************************************************************)
(* The calls of one thread keep their order.                               *)
(***************************************************************************)

\* What makes ThreadOrder inductive: a thread's accepted calls are numbered no
\* higher than the calls it has made, in ascending order, and below the one it is
\* still making.
NumbersInv ==
    /\ \A i, j \in 1 .. Len(accepted) :
           i < j /\ accepted[i].thread = accepted[j].thread
               => accepted[i].num < accepted[j].num
    /\ \A i \in 1 .. Len(accepted) :
           accepted[i].num <= issued[accepted[i].thread]
    /\ \A t \in Threads : retrying[t] # NoCall =>
           /\ retrying[t].thread = t
           /\ retrying[t].num = issued[t]
           /\ \A i \in 1 .. Len(accepted) :
                  accepted[i].thread = t => accepted[i].num < issued[t]

\* Appending a call numbered above its thread's earlier ones keeps the order.
LEMMA AppendAscending ==
    ASSUME NEW s \in Seq(Calls), NEW call \in Calls,
           \A i, j \in 1 .. Len(s) :
               i < j /\ s[i].thread = s[j].thread => s[i].num < s[j].num,
           \A i \in 1 .. Len(s) : s[i].thread = call.thread => s[i].num < call.num
    PROVE  LET r == Append(s, call)
           IN  \A i, j \in 1 .. Len(r) :
                   i < j /\ r[i].thread = r[j].thread => r[i].num < r[j].num
    OBVIOUS

LEMMA CallFields ==
    ASSUME NEW call \in Calls
    PROVE  call.thread \in Threads /\ call.num \in Nat /\ call.size \in Nat
<1>1. call.thread \in Threads
    BY DEF Calls
<1>2. call.num \in Nat
    <2>1. call.num \in 1 .. MaxCalls
        BY DEF Calls
    <2> QED
        BY <2>1
<1>3. call.size \in Nat
    <2>1. call.size \in Sizes
        BY DEF Calls
    <2> QED
        BY <2>1
<1> QED
    BY <1>1, <1>2, <1>3

LEMMA NumbersStep ==
    ASSUME TypeOK, NumbersInv, [Next]_vars
    PROVE  NumbersInv'
<1> USE DEF TypeOK
<1>0. ASSUME NEW i \in 1 .. Len(accepted)
      PROVE  /\ accepted[i] \in Calls
             /\ accepted[i].thread \in Threads
             /\ accepted[i].num \in Nat
    <2>1. accepted[i] \in Calls
        OBVIOUS
    <2> QED
        BY <2>1, CallFields
<1>1. ASSUME NEW t \in Threads, NEW size \in Sizes, NEW persistent \in BOOLEAN,
             NewCall(t, size, persistent)
      PROVE  NumbersInv'
    <2> DEFINE call == [thread |-> t, num |-> issued[t] + 1, size |-> size]
    <2>1. call \in Calls
        BY <1>1, NextCallType DEF NewCall
    <2>2. /\ issued' = [issued EXCEPT ![t] = issued[t] + 1]
          /\ retrying[t] = NoCall
        BY <1>1 DEF NewCall
    <2>3. \A u \in Threads : issued[u] \in Nat /\ issued'[u] = IF u = t THEN issued[t] + 1 ELSE issued[u]
        BY <2>2
    <2>4. ASSUME NEW u \in Threads, NEW n \in Nat, n <= issued[u]
          PROVE  n <= issued'[u]
        <3>1. /\ issued[u] \in Nat
              /\ issued'[u] = issued[u] \/ issued'[u] = issued[u] + 1
            BY <2>3
        <3> HIDE DEF TypeOK
        <3> QED
            BY <2>4, <3>1
    <2>5. CASE accepted' = Append(accepted, call) /\ retrying' = retrying
        <3>1. \A i \in 1 .. Len(accepted) :
                 accepted[i].thread = call.thread => accepted[i].num < call.num
            BY <1>0, <2>3 DEF NumbersInv
        <3>2. /\ Len(accepted') = Len(accepted) + 1
              /\ \A i \in 1 .. Len(accepted) : accepted'[i] = accepted[i]
              /\ accepted'[Len(accepted) + 1] = call
            BY <2>1, <2>5
        <3>3. \A i, j \in 1 .. Len(accepted') :
                 i < j /\ accepted'[i].thread = accepted'[j].thread
                     => accepted'[i].num < accepted'[j].num
            BY <2>1, <2>5, <3>1, AppendAscending DEF NumbersInv
        <3>4. ASSUME NEW i \in 1 .. Len(accepted')
              PROVE  accepted'[i].num <= issued'[accepted'[i].thread]
            <4>1. CASE i = Len(accepted) + 1
                BY <2>3, <3>2, <4>1
            <4>2. CASE i \in 1 .. Len(accepted)
                <5>1. /\ accepted[i].thread \in Threads
                      /\ accepted[i].num \in Nat
                      /\ accepted[i].num <= issued[accepted[i].thread]
                    BY <1>0, <4>2 DEF NumbersInv
                <5>2. accepted'[i] = accepted[i]
                    BY <3>2, <4>2
                <5> QED
                    BY <2>4, <5>1, <5>2
            <4> QED
                BY <3>2, <4>1, <4>2
        <3>5. ASSUME NEW u \in Threads, retrying'[u] # NoCall
              PROVE  /\ retrying'[u].thread = u
                     /\ retrying'[u].num = issued'[u]
                     /\ \A i \in 1 .. Len(accepted') :
                            accepted'[i].thread = u => accepted'[i].num < issued'[u]
            <4>1. u # t /\ issued'[u] = issued[u] /\ retrying[u] # NoCall
                BY <2>2, <2>3, <2>5, <3>5
            <4> QED
                BY <2>5, <3>2, <4>1 DEF NumbersInv
        <3> QED
            BY <3>3, <3>4, <3>5 DEF NumbersInv
    <2>6. CASE /\ accepted' = accepted
               /\ retrying' = [retrying EXCEPT ![t] = IF persistent THEN call ELSE NoCall]
        <3>1. ASSUME NEW i \in 1 .. Len(accepted)
              PROVE  accepted[i].num <= issued'[accepted[i].thread]
            <4>1. /\ accepted[i].thread \in Threads
                  /\ accepted[i].num \in Nat
                  /\ accepted[i].num <= issued[accepted[i].thread]
                BY <1>0 DEF NumbersInv
            <4> QED
                BY <2>4, <4>1
        <3>2. ASSUME NEW u \in Threads, retrying'[u] # NoCall
              PROVE  /\ retrying'[u].thread = u
                     /\ retrying'[u].num = issued'[u]
                     /\ \A i \in 1 .. Len(accepted) :
                            accepted[i].thread = u => accepted[i].num < issued'[u]
            <4>1. CASE u = t
                <5>1. retrying'[u] = call
                    BY <2>6, <3>2, <4>1
                <5>2. \A i \in 1 .. Len(accepted) :
                         accepted[i].thread = t => accepted[i].num < issued'[t]
                    BY <1>0, <2>3 DEF NumbersInv
                <5> QED
                    BY <2>3, <4>1, <5>1, <5>2
            <4>2. CASE u # t
                BY <2>3, <2>6, <3>2, <4>2 DEF NumbersInv
            <4> QED
                BY <4>1, <4>2
        <3> QED
            BY <2>6, <3>1, <3>2 DEF NumbersInv
    <2> QED
        BY <1>1, <2>5, <2>6 DEF NewCall, QueueAccepted, QueueRefused
<1>2. ASSUME NEW t \in Threads, Retry(t)
      PROVE  NumbersInv'
    <2> DEFINE call == retrying[t]
    <2>1. call \in Calls /\ call # NoCall /\ issued' = issued
        BY <1>2 DEF Retry
    <2>2. call.thread = t /\ call.num = issued[t]
        BY <2>1 DEF NumbersInv
    <2>3. CASE accepted' = Append(accepted, call) /\ retrying' = [retrying EXCEPT ![t] = NoCall]
        <3>1. /\ Len(accepted') = Len(accepted) + 1
              /\ \A i \in 1 .. Len(accepted) : accepted'[i] = accepted[i]
              /\ accepted'[Len(accepted) + 1] = call
            BY <2>1, <2>3
        <3>2. \A i, j \in 1 .. Len(accepted') :
                 i < j /\ accepted'[i].thread = accepted'[j].thread
                     => accepted'[i].num < accepted'[j].num
            <4>1. \A i \in 1 .. Len(accepted) :
                     accepted[i].thread = call.thread => accepted[i].num < call.num
                BY <2>1, <2>2 DEF NumbersInv
            <4> QED
                BY <2>1, <2>3, <4>1, AppendAscending DEF NumbersInv
        <3>3. issued[t] \in Nat
            OBVIOUS
        <3>4. \A i \in 1 .. Len(accepted') :
                 accepted'[i].num <= issued'[accepted'[i].thread]
            BY <2>1, <2>2, <3>1, <3>3 DEF NumbersInv
        <3>5. ASSUME NEW u \in Threads, retrying'[u] # NoCall
              PROVE  /\ retrying'[u].thread = u
                     /\ retrying'[u].num = issued'[u]
                     /\ \A i \in 1 .. Len(accepted') :
                            accepted'[i].thread = u => accepted'[i].num < issued'[u]
            <4>1. u # t /\ retrying'[u] = retrying[u]
                BY <2>3, <3>5
            <4> QED
                <5>1. /\ retrying[u].thread = u
                      /\ retrying[u].num = issued[u]
                    BY <3>5, <4>1 DEF NumbersInv
                <5>2. ASSUME NEW i \in 1 .. Len(accepted'), accepted'[i].thread = u
                      PROVE  accepted'[i].num < issued'[u]
                    <6>1. i # Len(accepted) + 1
                        BY <2>2, <3>1, <4>1, <5>2
                    <6>2. i \in 1 .. Len(accepted)
                        BY <3>1, <6>1
                    <6> QED
                        BY <2>1, <3>1, <3>5, <4>1, <5>2, <6>2 DEF NumbersInv
                <5> QED
                    BY <2>1, <4>1, <5>1, <5>2
        <3> QED
            BY <3>2, <3>4, <3>5 DEF NumbersInv
    <2>4. CASE accepted' = accepted /\ retrying' = retrying
        BY <2>1, <2>4 DEF NumbersInv
    <2> QED
        BY <1>2, <2>3, <2>4 DEF Retry, QueueAccepted, QueueRefused
<1>3. CASE UNCHANGED programVars
    BY <1>3 DEF NumbersInv, programVars
<1> QED
    BY <1>1, <1>2, <1>3
    DEF Next, dstc_buffer_client_calls, dstc_flush_client_calls,
        dstc_unbuffer_client_calls, RmcAck, vars

\* The calls of a thread leave in the order it made them, none of them twice, and
\* a call that was refused has not left (dstc_queue_func under the context lock).
THEOREM ThreadOrderCorrect == Spec => []ThreadOrder
<1>1. Init => NumbersInv
    BY DEF Init, NumbersInv
<1>2. TypeOK /\ NumbersInv /\ [Next]_vars => NumbersInv'
    BY NumbersStep
<1>3. TypeOK /\ InOrderOnce /\ NumbersInv => ThreadOrder
    <2> SUFFICES ASSUME TypeOK, InOrderOnce, NumbersInv PROVE ThreadOrder
        OBVIOUS
    <2>1. Outgoing = accepted
        BY DEF InOrderOnce
    <2>2. ASSUME NEW i \in 1 .. Len(accepted), NEW t \in Threads
          PROVE  accepted[i] # retrying[t]
        <3>1. accepted[i] \in Calls
            BY DEF TypeOK
        <3>2. CASE retrying[t] = NoCall
            BY <3>1, <3>2, NoCallAssumption
        <3>3. CASE retrying[t] # NoCall
            BY <3>3 DEF NumbersInv, TypeOK
        <3> QED
            BY <3>2, <3>3
    <2>3. \A i, j \in 1 .. Len(accepted) :
             i < j /\ accepted[i].thread = accepted[j].thread
                 => accepted[i].num < accepted[j].num
        BY DEF NumbersInv
    <2> HIDE DEF Outgoing
    <2> QED
        BY <2>1, <2>2, <2>3 DEF ThreadOrder
<1> QED
    BY <1>1, <1>2, <1>3, TypeCorrect, InOrderOnceCorrect, PTL DEF Spec

(***************************************************************************)
(* Flow control.                                                           *)
(***************************************************************************)

\* While traffic runs there is room for one more packet below the threshold.
WindowInv ==
    /\ Len(rmc_queue) <= SuspendThreshold
    /\ ~suspended => Len(rmc_queue) < SuspendThreshold

LEMMA QueuePendingWindow ==
    ASSUME TypeOK, WindowInv, NEW calls, NEW ind,
           queue_pending_calls(calls, ind)
    PROVE  WindowInv'
<1>1. CASE ~suspended /\ rmc_pub_queue_packet([calls |-> calls, bytes |-> ind])
    <2>1. Len(rmc_queue') = Len(rmc_queue) + 1 /\ Len(rmc_queue) \in Nat
        BY <1>1 DEF rmc_pub_queue_packet, TypeOK
    <2>2. Len(rmc_queue') >= SuspendThreshold => suspended'
        BY <1>1, Zenon DEF rmc_pub_queue_packet
    <2>3. Len(rmc_queue) < SuspendThreshold
        BY <1>1 DEF WindowInv
    <2> QED
        BY <2>1, <2>2, <2>3 DEF WindowInv
<1>2. CASE UNCHANGED rmcVars
    BY <1>2 DEF rmcVars, WindowInv
<1> QED
    BY <1>1, <1>2 DEF queue_pending_calls

LEMMA WindowStep ==
    ASSUME TypeOK, WindowInv, [Next]_vars
    PROVE  WindowInv'
<1>1. ASSUME NEW call, QueueAccepted(call) \/ QueueRefused(call)
      PROVE  WindowInv'
    <2>1. CASE UNCHANGED rmcVars
        BY <2>1 DEF rmcVars, WindowInv
    <2>2. CASE \E calls, ind : queue_pending_calls(calls, ind)
        BY <2>2, QueuePendingWindow
    <2> QED
        BY <1>1, <2>1, <2>2 DEF QueueAccepted, QueueRefused
<1>2. ASSUME NEW t \in Threads, NEW size \in Sizes, NEW persistent \in BOOLEAN,
             NewCall(t, size, persistent)
      PROVE  WindowInv'
    BY <1>1, <1>2 DEF NewCall
<1>3. ASSUME NEW t \in Threads, Retry(t)
      PROVE  WindowInv'
    BY <1>1, <1>3 DEF Retry
<1>4. CASE dstc_flush_client_calls \/ dstc_unbuffer_client_calls
    BY <1>4, QueuePendingWindow DEF dstc_flush_client_calls, dstc_unbuffer_client_calls
<1>5. CASE RmcAck
    <2>1. Len(rmc_queue') = Len(rmc_queue) - 1 /\ Len(rmc_queue) \in Nat
        BY <1>5, HeadTailProperties DEF RmcAck, TypeOK
    <2>2. suspended' = (suspended /\ Len(rmc_queue') > RestartThreshold)
        BY <1>5 DEF RmcAck
    <2> QED
        BY <2>1, <2>2 DEF WindowInv, TypeOK
<1>6. CASE dstc_buffer_client_calls \/ UNCHANGED vars
    BY <1>6 DEF dstc_buffer_client_calls, vars, rmcVars, WindowInv
<1> QED
    BY <1>2, <1>3, <1>4, <1>5, <1>6 DEF Next

\* RMC never holds more unconfirmed packets than the suspend threshold, because
\* every path of the code to rmc_pub_queue_packet() asks whether traffic is
\* suspended first.
THEOREM InFlightBoundedCorrect == Spec => []InFlightBounded
<1>1. Init => WindowInv
    BY DEF Init, WindowInv
<1>2. TypeOK /\ WindowInv /\ [Next]_vars => WindowInv'
    BY WindowStep
<1>3. WindowInv => InFlightBounded
    BY DEF WindowInv, InFlightBounded
<1> QED
    BY <1>1, <1>2, <1>3, TypeCorrect, PTL DEF Spec

(***************************************************************************)
(* Refinement.                                                             *)
(***************************************************************************)

\* RMC is handed a longer and longer part of the calls that go out.
LEMMA HandedStep ==
    ASSUME TypeOK, [Next]_vars
    PROVE  \/ handed' = handed
           \/ \E calls \in Seq(Calls) : handed' = handed \o calls
<1>1. ASSUME NEW calls \in Seq(Calls), NEW ind, queue_pending_calls(calls, ind)
      PROVE  handed' = handed \/ handed' = handed \o calls
    BY <1>1 DEF queue_pending_calls, rmc_pub_queue_packet, rmcVars
<1>2. ASSUME NEW call \in Calls, QueueAccepted(call) \/ QueueRefused(call)
      PROVE  handed' = handed \/ \E calls \in Seq(Calls) : handed' = handed \o calls
    <2>1. pub_buffer \in Seq(Calls) /\ Append(pub_buffer, call) \in Seq(Calls)
        BY DEF TypeOK
    <2>2. CASE QueueAccepted(call) /\ ~pub_is_buffering
        BY <1>1, <2>1, <2>2 DEF QueueAccepted
    <2>3. CASE QueueRefused(call)
        BY <1>1, <2>1, <2>3 DEF QueueRefused
    <2>4. CASE QueueAccepted(call) /\ pub_is_buffering
        BY <2>4 DEF QueueAccepted, rmcVars
    <2> QED
        BY <1>2, <2>2, <2>3, <2>4
<1>3. ASSUME NEW t \in Threads, NEW size \in Sizes, NEW persistent \in BOOLEAN,
             NewCall(t, size, persistent)
      PROVE  handed' = handed \/ \E calls \in Seq(Calls) : handed' = handed \o calls
    BY <1>2, <1>3, NextCallType DEF NewCall
<1>4. ASSUME NEW t \in Threads, Retry(t)
      PROVE  handed' = handed \/ \E calls \in Seq(Calls) : handed' = handed \o calls
    <2>1. retrying[t] \in Calls
        BY <1>4 DEF Retry, TypeOK
    <2> QED
        BY <1>2, <1>4, <2>1 DEF Retry
<1>5. CASE dstc_flush_client_calls \/ dstc_unbuffer_client_calls
    <2>1. pub_buffer \in Seq(Calls)
        BY DEF TypeOK
    <2> QED
        BY <1>1, <1>5, <2>1 DEF dstc_flush_client_calls, dstc_unbuffer_client_calls
<1>6. CASE dstc_buffer_client_calls \/ RmcAck \/ UNCHANGED vars
    BY <1>6 DEF dstc_buffer_client_calls, RmcAck, vars, rmcVars
<1> QED
    BY <1>3, <1>4, <1>5, <1>6 DEF Next

\* A sequence that begins a longer one is the longer one cut off.
LEMMA PrefixIsSubSeq ==
    ASSUME NEW S, NEW s \in Seq(S), NEW r \in Seq(S)
    PROVE  /\ Len(s) \in 0 .. Len(s \o r)
           /\ s = SubSeq(s \o r, 1, Len(s))
<1>1. /\ s \o r \in Seq(S)
      /\ Len(s \o r) = Len(s) + Len(r)
      /\ \A i \in 1 .. Len(s) : (s \o r)[i] = s[i]
    BY ConcatProperties
<1>2. Len(s) \in Nat /\ Len(r) \in Nat
    OBVIOUS
<1> DEFINE u == SubSeq(s \o r, 1, Len(s))
<1>3. /\ u \in Seq(S)
      /\ Len(u) = Len(s)
      /\ \A i \in 1 .. Len(s) : u[i] = (s \o r)[i]
    BY <1>1, <1>2
<1> HIDE DEF u
<1>4. s = u
    BY <1>1, <1>3, SeqEqual
<1> QED
    BY <1>1, <1>2, <1>4 DEF u

\* The variables of CallStream move as its next-state relation allows.
LEMMA StreamRefined ==
    ASSUME TypeOK, TypeOK', InOrderOnce', ThreadOrder', [Next]_vars
    PROVE  Stream!Next
<1>1. Stream!Advance(accepted')
    <2>1. accepted' = handed' \o pub_buffer'
        BY DEF InOrderOnce, Outgoing
    <2>2. handed' \in Seq(Calls) /\ pub_buffer' \in Seq(Calls) /\ handed \in Seq(Calls)
        BY DEF TypeOK
    <2>3. Len(handed') \in 0 .. Len(accepted') /\ handed' = SubSeq(accepted', 1, Len(handed'))
        BY <2>1, <2>2, PrefixIsSubSeq
    <2>4. Len(handed) <= Len(handed')
        <3>1. CASE handed' = handed
            BY <2>2, <3>1
        <3>2. CASE \E calls \in Seq(Calls) : handed' = handed \o calls
            BY <2>2, <3>2, PrefixIsSubSeq
        <3> QED
            BY <3>1, <3>2, HandedStep
    <2>5. Len(handed') \in Len(handed) .. Len(accepted')
        BY <2>2, <2>3, <2>4
    <2> QED
        BY <2>3, <2>5 DEF Stream!Advance
<1>2. CASE accepted' = accepted
    BY <1>1, <1>2 DEF Stream!Next, Stream!Deliver
<1>3. ASSUME NEW call \in Calls, accepted' = Append(accepted, call)
      PROVE  Stream!Next
    <2>1. ASSUME NEW i \in 1 .. Len(accepted)
          PROVE  accepted[i] # call
        <3> DEFINE n == Len(accepted)
        <3>1. /\ n \in Nat
              /\ Len(accepted') = n + 1
              /\ accepted'[i] = accepted[i]
              /\ accepted'[n + 1] = call
            BY <1>3 DEF TypeOK
        <3>2. accepted[i] \in Calls
            BY DEF TypeOK
        <3>3. accepted[i].thread = call.thread => accepted[i].num < call.num
            <4>1. \A k, j \in 1 .. Len(accepted') :
                     k < j /\ accepted'[k].thread = accepted'[j].thread
                         => accepted'[k].num < accepted'[j].num
                BY DEF ThreadOrder, InOrderOnce
            <4> QED
                BY <3>1, <4>1
        <3> QED
            BY <3>2, <3>3, CallFields
    <2> QED
        BY <1>1, <1>3, <2>1 DEF Stream!Next, Stream!Accept
<1> QED
    BY <1>2, <1>3, StreamStep

\* The payload buffer, its modes, the EBUSY retries and the hand-over to RMC
\* together implement one ordered stream in which each accepted call appears once.
THEOREM StreamRefinement == Spec => StreamSpec
<1>1. Init => Stream!Init
    BY DEF Init, Stream!Init
<1>2. ASSUME TypeOK, TypeOK', InOrderOnce', ThreadOrder', [Next]_vars
      PROVE  [Stream!Next]_(Stream!vars)
    BY <1>2, StreamRefined, Zenon
<1> QED
    BY <1>1, <1>2, TypeCorrect, InOrderOnceCorrect, ThreadOrderCorrect, PTL
    DEF Spec, StreamSpec, Stream!Spec

(***************************************************************************)
(* Calls stay behind for a reason.                                         *)
(***************************************************************************)

\* The index counts the calls in the buffer. A buffer with a call in it and index 0
\* would never be handed over.
IndexInv == pub_buffer # <<>> => pub_buffer_ind > 0

\* A buffer the code has tried to hand over is empty, or traffic is suspended.
LEMMA QueuePendingLeaves ==
    ASSUME NEW calls, NEW ind, ind \in Nat, calls # <<>> => ind > 0,
           queue_pending_calls(calls, ind)
    PROVE  /\ pub_buffer' # <<>> => suspended'
           /\ IndexInv'
    BY DEF queue_pending_calls, IndexInv, rmcVars

LEMMA QueueAcceptedLeaves ==
    ASSUME TypeOK, NEW call \in Calls, QueueAccepted(call),
           pub_is_buffering' = pub_is_buffering
    PROVE  /\ pub_buffer' # <<>> => pub_is_buffering' \/ suspended'
           /\ IndexInv'
<1> DEFINE calls == Append(pub_buffer, call)
           ind == pub_buffer_ind + call.size
<1>1. call.size \in Nat \ {0}
    BY DEF Calls
<1>2. ind \in Nat /\ ind > 0
    BY <1>1 DEF TypeOK
<1>3. CASE pub_is_buffering
    BY <1>2, <1>3 DEF QueueAccepted, IndexInv
<1>4. CASE ~pub_is_buffering
    <2>1. queue_pending_calls(calls, ind)
        BY <1>4 DEF QueueAccepted
    <2> HIDE DEF calls, ind
    <2> QED
        BY <1>2, <2>1, QueuePendingLeaves
<1> QED
    BY <1>3, <1>4

LEMMA HeldStep ==
    ASSUME TypeOK, IndexInv, [Next]_vars
    PROVE  /\ IndexInv'
           /\ \/ UNCHANGED <<pub_buffer, pub_is_buffering>>
              \/ pub_buffer' = <<>>
              \/ pub_is_buffering' \/ suspended'
<1>1. pub_buffer_ind \in Nat
    BY DEF TypeOK
<1>2. ASSUME queue_pending_calls(pub_buffer, pub_buffer_ind)
      PROVE  (pub_buffer' # <<>> => suspended') /\ IndexInv'
    BY <1>1, <1>2, QueuePendingLeaves DEF IndexInv
<1>3. ASSUME NEW t \in Threads, NEW size \in Sizes, NEW persistent \in BOOLEAN,
             NewCall(t, size, persistent)
      PROVE  (pub_buffer' # <<>> => pub_is_buffering' \/ suspended') /\ IndexInv'
    <2> DEFINE call == [thread |-> t, num |-> issued[t] + 1, size |-> size]
    <2>1. call \in Calls
        BY <1>3, NextCallType DEF NewCall
    <2>2. /\ QueueAccepted(call) \/ QueueRefused(call)
          /\ pub_is_buffering' = pub_is_buffering
        BY <1>3 DEF NewCall
    <2> HIDE DEF call
    <2> QED
        BY <1>2, <2>1, <2>2, QueueAcceptedLeaves DEF QueueRefused
<1>4. ASSUME NEW t \in Threads, Retry(t)
      PROVE  (pub_buffer' # <<>> => pub_is_buffering' \/ suspended') /\ IndexInv'
    <2>1. retrying[t] \in Calls
        BY <1>4 DEF Retry, TypeOK
    <2>2. /\ QueueAccepted(retrying[t]) \/ QueueRefused(retrying[t])
          /\ pub_is_buffering' = pub_is_buffering
        BY <1>4 DEF Retry
    <2> QED
        BY <1>2, <2>1, <2>2, QueueAcceptedLeaves DEF QueueRefused
<1>5. CASE dstc_flush_client_calls \/ dstc_unbuffer_client_calls
    BY <1>2, <1>5 DEF dstc_flush_client_calls, dstc_unbuffer_client_calls
<1>6. CASE dstc_buffer_client_calls
    BY <1>6 DEF dstc_buffer_client_calls, bufferVars, IndexInv
<1>7. CASE RmcAck \/ UNCHANGED vars
    BY <1>7 DEF RmcAck, vars, bufferVars, IndexInv
<1> QED
    BY <1>3, <1>4, <1>5, <1>6, <1>7 DEF Next

\* A step that frames calls, hands them over or changes the mode leaves calls in the
\* buffer only in buffered mode or under suspension (_dstc_queue,
\* dstc_unbuffer_client_calls, dstc_flush_client_calls).
THEOREM HeldForAReasonCorrect == Spec => HeldForAReason
<1>1. Init => IndexInv
    BY DEF Init, IndexInv
<1>2. TypeOK /\ IndexInv /\ [Next]_vars => IndexInv'
    BY HeldStep
<1>3. TypeOK /\ IndexInv /\ [Next]_vars =>
          [<<pub_buffer, pub_is_buffering>>' # <<pub_buffer, pub_is_buffering>>
              /\ pub_buffer' # <<>> => pub_is_buffering' \/ suspended']_vars
    BY HeldStep
<1> QED
    BY <1>1, <1>2, <1>3, TypeCorrect, PTL DEF Spec, HeldForAReason
=============================================================================
