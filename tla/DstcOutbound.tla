--------------------------- MODULE DstcOutbound ---------------------------
(***************************************************************************)
(* The outbound half of a DSTC context (src/dstc.c): the payload buffer    *)
(* pub_buffer in which _dstc_queue() frames client calls and callback      *)
(* invocations, buffered mode, and the hand-over of the whole buffer as    *)
(* one packet to the reliable multicast library (RMC), which suspends      *)
(* traffic when too many packets are unconfirmed.                          *)
(*                                                                         *)
(* Every operation holds the context's lock from its first to its last     *)
(* statement, so each is one action here (DstcLock is about the lock).     *)
(* A framed call is [thread, num, size]: who made it, its number among the *)
(* calls of that thread, and the bytes it takes: header, function name or  *)
(* callback reference, and arguments.                                      *)
(***************************************************************************)
EXTENDS Naturals, Sequences, SequencesExt

CONSTANTS
    Threads,            \* the threads that call DSTC_CLIENT functions
    Sizes,              \* the sizes framed calls may have
    BufferSize,         \* sizeof(ctx->pub_buffer), i.e. RMC_MAX_PAYLOAD
    SuspendThreshold,   \* SUSPEND_TRAFFIC_THRESHOLD
    RestartThreshold,   \* RESTART_TRAFFIC_THRESHOLD
    MaxCalls,           \* bound: the calls one thread makes
    NoCall              \* what stands for no call

ASSUME SizesAssumption == Sizes \subseteq Nat \ {0}
ASSUME BufferAssumption == BufferSize \in Nat
ASSUME ThresholdAssumption ==
    /\ SuspendThreshold \in Nat
    /\ RestartThreshold \in Nat
    /\ RestartThreshold < SuspendThreshold
ASSUME MaxCallsAssumption == MaxCalls \in Nat

Calls == [thread : Threads, num : 1 .. MaxCalls, size : Sizes]
Packets == [calls : Seq(Calls), bytes : 0 .. BufferSize]

ASSUME NoCallAssumption == NoCall \notin Calls

VARIABLES
    pub_buffer,       \* the calls framed in ctx->pub_buffer, in order
    pub_buffer_ind,   \* bytes of the buffer in use
    pub_is_buffering, \* ctx->pub_is_buffering
    rmc_queue,        \* packets RMC has not had confirmed yet, oldest first
    suspended,        \* rmc_pub_traffic_suspended()
    issued,           \* issued[t]: how many calls thread t has made
    retrying,         \* retrying[t]: the refused call t keeps making, or NoCall
    accepted,         \* history: the calls answered with 0, in order
    handed            \* history: the calls handed to RMC, in order

rmcVars == <<rmc_queue, suspended, handed>>
bufferVars == <<pub_buffer, pub_buffer_ind>>
programVars == <<issued, retrying, accepted>>
vars == <<bufferVars, pub_is_buffering, rmcVars, programVars>>

TypeOK ==
    /\ pub_buffer \in Seq(Calls)
    /\ pub_buffer_ind \in 0 .. BufferSize
    /\ pub_is_buffering \in BOOLEAN
    /\ rmc_queue \in Seq(Packets)
    /\ suspended \in BOOLEAN
    /\ issued \in [Threads -> 0 .. MaxCalls]
    /\ retrying \in [Threads -> Calls \cup {NoCall}]
    /\ accepted \in Seq(Calls)
    /\ handed \in Seq(Calls)

Init ==
    /\ pub_buffer = <<>>
    /\ pub_buffer_ind = 0
    /\ pub_is_buffering = FALSE
    /\ rmc_queue = <<>>
    /\ suspended = FALSE
    /\ issued = [t \in Threads |-> 0]
    /\ retrying = [t \in Threads |-> NoCall]
    /\ accepted = <<>>
    /\ handed = <<>>

---------------------------------------------------------------------------
(* The helpers under the operations.                                       *)

payload_buffer_available == BufferSize - pub_buffer_ind

\* RMC takes a packet and suspends traffic at the threshold it was given.
rmc_pub_queue_packet(packet) ==
    /\ rmc_queue' = Append(rmc_queue, packet)
    /\ suspended' = (Len(rmc_queue') >= SuspendThreshold)
    /\ handed' = handed \o packet.calls

\* Faulty variants of a definition stand before it: the change a plausible
\* bug would make. They are in no specification; each is a mutant some property
\* must refute.
queue_pending_calls_KeepsCalls(calls, ind) ==
    IF ~suspended /\ ind > 0
    THEN /\ rmc_pub_queue_packet([calls |-> calls, bytes |-> ind])
         /\ pub_buffer' = calls
         /\ pub_buffer_ind' = 0
    ELSE pub_buffer' = calls /\ pub_buffer_ind' = ind /\ UNCHANGED rmcVars

queue_pending_calls_IgnoresSuspension(calls, ind) ==
    IF ind > 0
    THEN /\ rmc_pub_queue_packet([calls |-> calls, bytes |-> ind])
         /\ pub_buffer' = <<>>
         /\ pub_buffer_ind' = 0
    ELSE pub_buffer' = calls /\ pub_buffer_ind' = ind /\ UNCHANGED rmcVars

\* The buffer holds the calls "calls" in "ind" bytes. Unless traffic is
\* suspended or the buffer is empty it becomes a packet.
queue_pending_calls(calls, ind) ==
    \/ /\ ~suspended
       /\ ind > 0
       /\ rmc_pub_queue_packet([calls |-> calls, bytes |-> ind])
       /\ pub_buffer' = <<>>
       /\ pub_buffer_ind' = 0
    \/ /\ suspended \/ ind = 0
       /\ pub_buffer' = calls
       /\ pub_buffer_ind' = ind
       /\ UNCHANGED rmcVars

Fits_OffByOne(call) == call.size <= payload_buffer_available + 1

Fits(call) == call.size <= payload_buffer_available

QueueAccepted_NewestFirst(call) ==
    LET calls == <<call>> \o pub_buffer
        ind == pub_buffer_ind + call.size
    IN  /\ Fits(call)
        /\ accepted' = Append(accepted, call)
        /\ IF pub_is_buffering
           THEN pub_buffer' = calls /\ pub_buffer_ind' = ind /\ UNCHANGED rmcVars
           ELSE queue_pending_calls(calls, ind)

\* _dstc_queue() for a call there is room for: it is framed, and unless calls
\* are being collected the buffer is handed over. The caller is told 0.
QueueAccepted(call) ==
    LET calls == Append(pub_buffer, call)
        ind == pub_buffer_ind + call.size
    IN  /\ Fits(call)
        /\ accepted' = Append(accepted, call)
        /\ IF pub_is_buffering
           THEN /\ pub_buffer' = calls
                /\ pub_buffer_ind' = ind
                /\ UNCHANGED rmcVars
           ELSE queue_pending_calls(calls, ind)

QueueRefused_KeepsBuffer(call) ==
    /\ ~Fits(call)
    /\ UNCHANGED <<bufferVars, rmcVars, accepted>>

\* _dstc_queue() for a call there is no room for: whatever the mode, the buffer
\* is handed over to get its space back, and the caller is told EBUSY.
QueueRefused(call) ==
    /\ ~Fits(call)
    /\ queue_pending_calls(pub_buffer, pub_buffer_ind)
    /\ UNCHANGED accepted

---------------------------------------------------------------------------
(* The operations a program calls.                                         *)

\* A thread makes its next call. Told EBUSY, it either drops the call or goes
\* on to make it again, as the programs under src/examples do.
NewCall(t, size, persistent) ==
    LET call == [thread |-> t, num |-> issued[t] + 1, size |-> size]
    IN  /\ retrying[t] = NoCall
        /\ issued[t] < MaxCalls
        /\ issued' = [issued EXCEPT ![t] = @ + 1]
        /\ \/ QueueAccepted(call) /\ UNCHANGED retrying
           \/ /\ QueueRefused(call)
              /\ retrying' = [retrying EXCEPT ![t] = IF persistent THEN call ELSE NoCall]
        /\ UNCHANGED pub_is_buffering

\* while (dstc_f(...) == EBUSY) dstc_process_events(...);
Retry(t) ==
    /\ retrying[t] # NoCall
    /\ \/ /\ QueueAccepted(retrying[t])
          /\ retrying' = [retrying EXCEPT ![t] = NoCall]
       \/ QueueRefused(retrying[t]) /\ UNCHANGED retrying
    /\ UNCHANGED <<pub_is_buffering, issued>>

dstc_buffer_client_calls ==
    /\ pub_is_buffering' = TRUE
    /\ UNCHANGED <<bufferVars, rmcVars, programVars>>

dstc_flush_client_calls ==
    /\ queue_pending_calls(pub_buffer, pub_buffer_ind)
    /\ UNCHANGED <<pub_is_buffering, programVars>>

dstc_unbuffer_client_calls_KeepsCalls ==
    /\ pub_is_buffering' = FALSE
    /\ UNCHANGED <<bufferVars, rmcVars, programVars>>

dstc_unbuffer_client_calls ==
    /\ pub_is_buffering' = FALSE
    /\ queue_pending_calls(pub_buffer, pub_buffer_ind)
    /\ UNCHANGED programVars

\* While a thread processes events every subscriber's acknowledgement of the
\* oldest packet comes in: RMC frees it, and restarts traffic at its threshold.
RmcAck ==
    /\ rmc_queue # <<>>
    /\ rmc_queue' = Tail(rmc_queue)
    /\ suspended' = (suspended /\ Len(rmc_queue') > RestartThreshold)
    /\ UNCHANGED <<bufferVars, pub_is_buffering, programVars, handed>>

Next ==
    \/ \E t \in Threads, size \in Sizes, persistent \in BOOLEAN :
           NewCall(t, size, persistent)
    \/ \E t \in Threads : Retry(t)
    \/ dstc_buffer_client_calls
    \/ dstc_flush_client_calls
    \/ dstc_unbuffer_client_calls
    \/ RmcAck

\* A caller in its EBUSY loop keeps calling and processing events, and RMC
\* resends a packet until it is confirmed.
Fairness ==
    /\ WF_vars(RmcAck)
    /\ \A t \in Threads : WF_vars(Retry(t))

Spec == Init /\ [][Next]_vars /\ Fairness

---------------------------------------------------------------------------
(* Properties.                                                             *)

\* The calls that have left the context or are about to, in order.
Outgoing == handed \o pub_buffer

\* Every call the program was told is accepted is in exactly one place, handed
\* to RMC or in the buffer, and in the order of acceptance, through every mix of
\* refusals, retries, mode changes and suspensions.
InOrderOnce == accepted = Outgoing

\* What the server of examples/thread_stress checks of each client thread: its
\* calls leave in the order it made them and none twice; and a call that is
\* being retried after EBUSY has not left.
ThreadOrder ==
    /\ \A i, j \in 1 .. Len(Outgoing) :
           i < j /\ Outgoing[i].thread = Outgoing[j].thread
               => Outgoing[i].num < Outgoing[j].num
    /\ \A i \in 1 .. Len(Outgoing) :
           \A t \in Threads : Outgoing[i] # retrying[t]

\* However many calls are made, at most the suspend threshold of packets waits
\* for confirmation.
InFlightBounded == Len(rmc_queue) <= SuspendThreshold

\* Whenever the buffer or the mode changes - a call is framed or refused, the calls
\* collected are flushed, buffered mode ends with calls in the buffer - calls stay
\* behind only in buffered mode or while traffic is suspended.
HeldForAReason ==
    [][<<pub_buffer, pub_is_buffering>>' # <<pub_buffer, pub_is_buffering>>
            /\ pub_buffer' # <<>>
        => pub_is_buffering' \/ suspended']_vars

\* A caller that repeats a refused call the buffer can hold gets out of its loop,
\* in every mode: refusing hands the buffer over, or waits for a confirmation that
\* comes. The other threads make finitely many calls here; threads that never stop
\* could take the freed space every time.
RetryAccepted ==
    \A t \in Threads :
        retrying[t] # NoCall /\ retrying[t].size <= BufferSize
            ~> retrying[t] = NoCall

\* The context implements the one ordered stream of CallStream.
Stream == INSTANCE CallStream WITH Call <- Calls, delivered <- handed
StreamSpec == Stream!Spec

\* dstc.h:61-63: "Packets will be sent either when the outbound buffer is full
\* (63KB), or when dstc_unbuffer_client_calls() is invoked." Out of buffered mode,
\* then, an accepted call leaves. Nothing in the code hands the buffer over when
\* RMC restarts traffic, so the last calls before a pause do not.
UnbufferedCallsLeave ==
    (pub_buffer # <<>> /\ ~pub_is_buffering) ~> (pub_buffer = <<>> \/ pub_is_buffering)
===========================================================================
