---------------------------- MODULE DstcTimeouts ----------------------------
(***************************************************************************)
(* The time a thread waits for events, in dstc_process_events() of         *)
(* src/dstc.c and in the loop of src/examples/chat/chat.c, and how RMC's   *)
(* timeouts come to be processed: announcements, resending of packets that *)
(* are not acknowledged, connections to try again. One thread runs events  *)
(* in the way "mode" says, over and over; others may use the context too,  *)
(* and have its lock for any time.                                         *)
(*                                                                         *)
(* Time runs in ticks, Millisecond of them to a millisecond: the code has  *)
(* RMC's timeouts in microseconds and works with whole milliseconds. All   *)
(* times are relative to now, so that time needs no bound. It passes where *)
(* a thread waits, for the lock or for events, and between calls; steps    *)
(* themselves take none. External are RMC's timeouts, and how the kernel's *)
(* waits end.                                                              *)
(***************************************************************************)
EXTENDS Integers, FiniteSetsExt

CONSTANTS
    Millisecond,    \* ticks of a millisecond
    Ahead,          \* bound: how many ticks ahead RMC sets its timeouts
    MaxAhead,       \* bound: and how many at most
    MaxSlack,       \* bound: how many ticks a call loses before its wait begins to count
    Limit           \* the limit in milliseconds a program gives, mode "finite"

ASSUME TimeAssumption ==
    /\ Millisecond \in Nat \ {0} /\ Limit \in Nat \ {0}
    /\ MaxAhead \in Nat \ {0} /\ Ahead \subseteq 1..MaxAhead
    /\ MaxSlack \in Nat

Modes == {"zero", "finite", "infinite", "chat"}
Sides == {"pub", "sub"}
None == MaxAhead + 1    \* in place of a timeout: there is none
Forever == -1           \* a wait without an end

\* What came due longer ago than that is past for any clock reading still in use.
Earliest == -(Millisecond + MaxSlack)

VARIABLES
    mode,       \* dstc_process_events(0), (Limit) or (-1), or the loop of chat.c
    others,     \* other threads use the context
    clocks,     \* "same", or "apart": what the limit on the lock counts from is ahead
    held,       \* another thread has the lock
    phase,      \* ticks since the last full millisecond
    due,        \* due[s]: ticks to RMC's next timeout of that side
    txfull,     \* RMC's transmission queues are full
    events,     \* there is an event to handle
    pc,
    next,       \* ms from the clock reading of the call to RMC's next timeout, or -1
    wait,       \* the timeout given to the wait for events, in ms, or -1
    spent,      \* full milliseconds that began since the clock was read
    elapsed,    \* ticks since then
    slack,      \* history: those that make the wait end later than was worked out
    left,       \* ticks until the wait, for the lock or for events, is over
    contended,  \* the call has waited for the lock with a limit
    armed       \* history: another thread changed the timeouts since they were asked for

config == <<mode, others, clocks>>
rmc == <<due, txfull, events>>
timing == <<next, wait, spent, elapsed, slack, left, contended, armed>>
vars == <<config, held, phase, rmc, pc, timing>>

\* Where the thread waits for the lock without a limit: to ask for RMC's next timeout, to
\* handle what is there at once, to wait for events without an end, and with what the wait
\* has brought: events, events and then the timeouts, or the timeouts alone.
Blocking == {"ask", "due", "forever", "handle", "both", "process"}
Labels == {"start", "timeouts", "lock", "wait"} \cup Blocking

---------------------------------------------------------------------------
(* RMC's timeouts.                                                         *)

IsDue(s) == due[s] <= 0

\* A timeout that is processed may be followed by another.
Following == Ahead \cup {None}

\* rmc_pub_timeout_process(), rmc_sub_timeout_process(): EAGAIN when there is
\* something due to be sent again and no room for it.
ProcessSide(s, after) ==
    IF IsDue(s) /\ ~txfull THEN after \in Following ELSE after = due[s]
EAGAIN(s) == IsDue(s) /\ txfull

\* A faulty variant stands before the definition it changes; it is in no
\* specification, and some property must refute it.
_dstc_process_timeout_PubOnly ==
    \E pub \in Following \cup {due["pub"]} :
        /\ ProcessSide("pub", pub)
        /\ due' = [due EXCEPT !["pub"] = pub]

\* The subscriber's timeouts have to wait when the publisher's end with EAGAIN.
_dstc_process_timeout ==
    \E pub \in Following \cup {due["pub"]}, sub \in Following \cup {due["sub"]} :
        /\ ProcessSide("pub", pub)
        /\ IF EAGAIN("pub") THEN sub = due["sub"] ELSE ProcessSide("sub", sub)
        /\ due' = [pub |-> pub, sub |-> sub]

\* The millisecond that ticks from now is in, counted from that of the clock reading,
\* which may be some time ago.
InMilliseconds(ticks) == spent + (phase + ticks) \div Millisecond

Timeouts == {due[s] : s \in Sides} \ {None}
_dstc_get_next_timeout_abs == {t \in Timeouts : \A u \in Timeouts : t <= u}

_dstc_get_timeout_msec_rel_RoundsDown ==
    IF Timeouts = {} THEN -1
    ELSE LET tout == InMilliseconds(CHOOSE t \in _dstc_get_next_timeout_abs : TRUE)
         IN IF tout < 0 THEN 0 ELSE tout

_dstc_get_timeout_msec_rel ==
    IF Timeouts = {} THEN -1
    ELSE LET tout == InMilliseconds(CHOOSE t \in _dstc_get_next_timeout_abs : TRUE)
         IN IF tout < 0 THEN 0 ELSE tout + 1

\* Handling events may leave others to handle, and lets RMC set timeouts or drop
\* them. Full queues are written from, though what is called may fill them again.
HandleEvents ==
    /\ events' \in BOOLEAN
    /\ txfull' \in BOOLEAN
    /\ \E s \in Sides, after \in Following :
          due' = [due EXCEPT ![s] = IF IsDue(s) THEN @ ELSE after]

---------------------------------------------------------------------------
(* dstc_process_events(), and the loop of chat.c.                          *)

\* What the call has worked out is of no use any more.
Forget ==
    /\ next' = -1 /\ wait' = 0 /\ spent' = 0 /\ elapsed' = 0 /\ slack' = 0
    /\ left' = 0 /\ contended' = FALSE /\ armed' = FALSE

\* A wait of no time, without the lock: are there events?
AtOnce(found) == IF events THEN found ELSE "process"

\* With 0 every event is handled, then the timeouts that are due.
dstc_process_events_0 ==
    /\ pc = "start" /\ mode = "zero" /\ ~held
    /\ pc' = AtOnce("handle")
    /\ UNCHANGED <<config, held, phase, rmc, timing>>

\* The time the call counts from: read before the lock is asked for.
ReadClock ==
    /\ pc = "start" /\ mode # "zero"
    /\ pc' = "ask"
    /\ UNCHANGED <<config, held, phase, rmc, timing>>

WaitFor_LongerOfBoth(rel) ==
    IF mode = "infinite" THEN rel
    ELSE IF rel # -1 /\ rel > Limit THEN rel ELSE Limit

\* The shorter of the program's limit, if any, and the time to RMC's next timeout.
WaitFor(rel) ==
    IF mode = "infinite" THEN rel
    ELSE IF rel # -1 /\ rel < Limit THEN rel ELSE Limit

\* With the lock, RMC's next timeout and from it the time to wait: none, without an end,
\* or so long, first for the lock.
dstc_process_events ==
    /\ pc = "ask" /\ mode \in {"finite", "infinite"} /\ ~held
    /\ LET rel == _dstc_get_timeout_msec_rel
           limit == WaitFor(rel)
       IN \/ limit = 0 /\ pc' = "due" /\ Forget
          \/ limit = -1 /\ pc' = "forever" /\ Forget
          \/ /\ limit > 0 /\ pc' = "lock"
             /\ next' = rel /\ wait' = limit
             /\ UNCHANGED <<spent, elapsed, slack, left, contended, armed>>
    /\ UNCHANGED <<config, held, phase, rmc>>

\* Timeouts are processed for as long as one is due; then the loop of chat.c waits.
ChatLoop ==
    /\ pc = "ask" /\ mode = "chat" /\ ~held
    /\ LET rel == _dstc_get_timeout_msec_rel
       IN \/ rel = 0 /\ pc' = "process" /\ Forget
          \/ /\ rel # 0 /\ pc' = "wait"
             /\ wait' = rel
             /\ left' = IF rel = -1 THEN Forever ELSE rel * Millisecond
             /\ UNCHANGED <<next, spent, elapsed, slack, contended, armed>>
    /\ UNCHANGED <<config, held, phase, rmc>>

HandleDue ==
    /\ pc = "due" /\ ~held
    /\ pc' = AtOnce("both")
    /\ UNCHANGED <<config, held, phase, rmc, timing>>

WaitForever ==
    /\ pc = "forever" /\ ~held
    /\ pc' = "wait" /\ wait' = -1 /\ left' = Forever
    /\ UNCHANGED <<config, held, phase, rmc, next, spent, elapsed, slack, contended, armed>>

\* _dstc_lock_context_timeout(): the lock is free, and the wait begins now; or it is not.
\* The limit on the lock counts from the clock reading. That is of the monotonic clock, the
\* limit one of the realtime clock, which is long past it in most systems. Over about two
\* seconds, it overflows as well.
TryLock ==
    /\ pc = "lock" /\ ~contended
    /\ IF held
       THEN /\ contended' = TRUE
            /\ left' = IF clocks = "apart" \/ elapsed > wait * Millisecond THEN 0
                       ELSE wait * Millisecond - elapsed
            /\ UNCHANGED pc
       ELSE pc' = "wait" /\ left' = wait * Millisecond /\ UNCHANGED contended
    /\ UNCHANGED <<config, held, phase, rmc, next, wait, spent, elapsed, slack, armed>>

LockAfterWait_Unclamped ==
    /\ pc = "lock" /\ contended /\ ~held
    /\ pc' = "wait"
    /\ wait' = next - spent
    /\ left' = wait' * Millisecond
    /\ UNCHANGED <<config, held, phase, rmc, next, spent, elapsed, slack, contended, armed>>

\* Having waited for the lock, it waits for events until RMC's timeout; the program's
\* limit does not count any more.
LockAfterWait ==
    /\ pc = "lock" /\ contended /\ ~held
    /\ pc' = "wait"
    /\ wait' = IF next < spent THEN 0 ELSE next - spent
    /\ left' = wait' * Millisecond
    /\ UNCHANGED <<config, held, phase, rmc, next, spent, elapsed, slack, contended, armed>>

\* Without the lock, the timeouts are processed all the same.
LockExpires ==
    /\ pc = "lock" /\ contended /\ left = 0
    /\ _dstc_process_timeout
    /\ pc' = "start" /\ Forget
    /\ UNCHANGED <<config, held, phase, txfull, events>>

---------------------------------------------------------------------------
(* The wait for events, without the lock, and what follows it.             *)

\* A signal: the wait begins again, and with all of its time.
Interrupted ==
    /\ pc = "wait" /\ mode # "chat" /\ left # Forever /\ left < wait * Millisecond
    /\ slack' = slack + wait * Millisecond - left /\ slack' <= MaxSlack
    /\ left' = wait * Millisecond
    /\ UNCHANGED <<config, held, phase, rmc, pc, next, wait, spent, elapsed, contended, armed>>

WaitReturns ==
    /\ pc = "wait" /\ events
    /\ pc' = "handle" /\ Forget
    /\ UNCHANGED <<config, held, phase, rmc>>

WaitTimesOut ==
    /\ pc = "wait" /\ ~events /\ left = 0
    /\ pc' = "process" /\ Forget
    /\ UNCHANGED <<config, held, phase, rmc>>

EventsAfterWait ==
    /\ pc = "handle" /\ ~held
    /\ HandleEvents
    /\ pc' = "start"
    /\ UNCHANGED <<config, held, phase, timing>>

TimeoutsAfterWait ==
    /\ pc = "process" /\ ~held
    /\ _dstc_process_timeout
    /\ pc' = "start"
    /\ UNCHANGED <<config, held, phase, txfull, events, timing>>

\* Both, one after the other, with the lock.
EventsAtOnce ==
    /\ pc = "both" /\ ~held
    /\ HandleEvents
    /\ pc' = "timeouts"
    /\ UNCHANGED <<config, held, phase, timing>>
TimeoutsAfterEvent ==
    /\ pc = "timeouts"
    /\ _dstc_process_timeout
    /\ pc' = "start"
    /\ UNCHANGED <<config, held, phase, txfull, events, timing>>

---------------------------------------------------------------------------
(* The rest of the world.                                                  *)

\* An event comes in: a packet, a connection; or room in full queues.
Event ==
    /\ ~events
    /\ events' = TRUE
    /\ UNCHANGED <<config, held, phase, due, txfull, pc, timing>>

\* Another thread takes the lock, and makes a call, handles events or processes timeouts.
OtherTakes ==
    /\ others /\ ~held /\ pc # "timeouts"
    /\ held' = TRUE
    /\ UNCHANGED <<config, phase, rmc, pc, timing>>
OtherReleases ==
    /\ held
    /\ held' = FALSE
    /\ \/ HandleEvents
       \/ _dstc_process_timeout /\ UNCHANGED <<txfull, events>>
    /\ armed' = (armed \/ (pc \in {"forever", "lock", "wait"} /\ due' # due))
    /\ UNCHANGED <<config, phase, pc, next, wait, spent, elapsed, slack, left, contended>>

\* Time is lost while another thread has the lock. A wait is over in its time.
Passes ==
    \/ pc = "start"
    \/ pc \in Blocking /\ held /\ (pc = "ask" => slack < MaxSlack)
    \/ pc = "lock" /\ contended /\ held /\ left > 0
    \/ pc = "wait" /\ left # 0

Tick ==
    /\ Passes
    /\ phase' = (phase + 1) % Millisecond
    /\ due' = [s \in Sides |-> IF due[s] \in {None, Earliest} THEN due[s] ELSE due[s] - 1]
    /\ slack' = IF pc = "ask" THEN slack + 1 ELSE slack
    /\ left' = IF pc \in {"lock", "wait"} /\ left > 0 THEN left - 1 ELSE left
    /\ elapsed' = IF pc = "ask" \/ left' # left THEN elapsed + 1 ELSE elapsed
    /\ spent' = IF pc \in {"ask", "lock"} /\ phase' = 0 THEN spent + 1 ELSE spent
    /\ UNCHANGED <<config, held, txfull, events, pc, next, wait, contended, armed>>

---------------------------------------------------------------------------
Init ==
    /\ mode \in Modes
    /\ others \in BOOLEAN
    /\ clocks \in {"same", "apart"}
    /\ clocks = "apart" => others /\ mode \in {"finite", "infinite"}
    /\ held = FALSE
    /\ phase = 0
    /\ due \in [Sides -> Following]
    /\ txfull = FALSE
    /\ events = FALSE
    /\ pc = "start"
    /\ next = -1 /\ wait = 0 /\ spent = 0 /\ elapsed = 0 /\ slack = 0
    /\ left = 0 /\ contended = FALSE /\ armed = FALSE

Run ==
    \/ dstc_process_events_0 \/ ReadClock \/ dstc_process_events \/ ChatLoop
    \/ HandleDue \/ WaitForever \/ TryLock \/ LockAfterWait \/ LockExpires
    \/ WaitReturns \/ WaitTimesOut
    \/ EventsAfterWait \/ TimeoutsAfterWait \/ EventsAtOnce \/ TimeoutsAfterEvent

Next == Run \/ Interrupted \/ Event \/ OtherTakes \/ OtherReleases \/ Tick

\* The thread goes on, and gets a lock that is free again and again; time goes on. While
\* queues are full there is an event when they have room; any other event may come or not.
\* Nothing makes other threads release the lock.
Spec ==
    /\ Init /\ [][Next]_vars
    /\ SF_vars(Run)
    /\ SF_vars(Tick)
    /\ WF_vars(txfull /\ Event)

---------------------------------------------------------------------------
(* Type invariant.                                                         *)

LongestWait == Max({MaxAhead, Limit * Millisecond}) + 2 * (Millisecond + MaxSlack)

TypeOK ==
    /\ mode \in Modes /\ others \in BOOLEAN /\ clocks \in {"same", "apart"}
    /\ held \in BOOLEAN
    /\ phase \in 0..Millisecond - 1
    /\ due \in [Sides -> Earliest..None]
    /\ txfull \in BOOLEAN /\ events \in BOOLEAN
    /\ pc \in Labels
    /\ next \in -1..MaxAhead + MaxSlack + 1
    /\ wait \in -1..LongestWait
    /\ spent \in 0..LongestWait
    /\ elapsed \in 0..LongestWait
    /\ slack \in 0..MaxSlack
    /\ left \in Forever..LongestWait
    /\ contended \in BOOLEAN /\ armed \in BOOLEAN

---------------------------------------------------------------------------
(* Safety.                                                                 *)

\* Unless another thread changed the timeouts, a wait for events is over no later than two
\* milliseconds after the first is due, and as much later as the thread lost between
\* reading the clock and asking for the timeout, and to signals; and when only a timeout
\* can end it, one is due by then: the thread does not wake up for nothing.
WaitsForTheTimeout ==
    pc = "wait" /\ ~armed =>
        /\ \A s \in Sides : due[s] # None =>
              left # Forever /\ left < due[s] + 2 * Millisecond + slack
        /\ mode \in {"infinite", "chat"} /\ left # Forever =>
              \E s \in Sides : due[s] # None /\ due[s] <= left

\* A program that gave a limit does not wait for longer, and what the call loses as above.
\* When it had to wait for the lock, it may wait for events until RMC's timeout. What it
\* waits for the lock after that has no bound.
ReturnsInTime ==
    mode = "finite" =>
        /\ pc = "lock" /\ contended => elapsed + left <= Limit * Millisecond + slack
        /\ pc = "wait" =>
              IF contended THEN elapsed + left <= (Max({next, Limit}) + 1) * Millisecond + slack
              ELSE elapsed + left <= Limit * Millisecond + slack

---------------------------------------------------------------------------
(* Liveness.                                                               *)

\* A timeout that is due is processed in the end, though events never cease, if there
\* comes to be room to send, and the lock is free again and again. That holds of a single
\* thread which waits, or has a limit. dstc_process_events(0) needs a pause between events.
\* The loop of chat.c handles no events while its timeouts end with EAGAIN, so it needs
\* queues that are never full. And a thread that waits forever does not know of a timeout
\* another thread sets.
Serves ==
    /\ []<>~held
    /\ \/ mode = "finite" /\ <>[]~txfull
       \/ mode = "infinite" /\ ~others /\ <>[]~txfull
       \/ mode = "zero" /\ <>[]~txfull /\ <>[]~events
       \/ mode = "chat" /\ ~others /\ []~txfull
DueServed == Serves => \A s \in Sides : IsDue(s) ~> ~IsDue(s)

=============================================================================
