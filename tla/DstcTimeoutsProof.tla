------------------------- MODULE DstcTimeoutsProof --------------------------
(***************************************************************************)
(* Proofs about DstcTimeouts, for any length of a millisecond in ticks,    *)
(* limit, timeouts of RMC and time lost to the lock: how long a thread     *)
(* waits. What they rest on is how the milliseconds the code works with,   *)
(* which count from an earlier clock reading, relate to the ticks they are *)
(* rounded from.                                                           *)
(***************************************************************************)
EXTENDS DstcTimeouts, TLAPS

Typing ==
    /\ mode \in Modes /\ others \in BOOLEAN /\ clocks \in {"same", "apart"}
    /\ held \in BOOLEAN
    /\ phase \in 0..Millisecond - 1
    /\ due \in [Sides -> Earliest..None]
    /\ txfull \in BOOLEAN /\ events \in BOOLEAN
    /\ pc \in Labels
    /\ next \in -1..MaxAhead + MaxSlack + 1
    /\ wait \in Int /\ wait >= -1
    /\ spent \in Nat /\ elapsed \in Nat /\ spent <= elapsed
    /\ slack \in 0..MaxSlack
    /\ left \in Int /\ left >= Forever
    /\ contended \in BOOLEAN /\ armed \in BOOLEAN

\* A time in milliseconds, and what is left of RMC's timeout as the code has it.
Span(ms) == ms * Millisecond
rest == Span(next - spent)

\* The variables of the call have their first values, but while it waits or is about to.
Fresh == next = -1 /\ wait = 0 /\ spent = 0 /\ elapsed = 0 /\ slack = 0 /\ left = 0 /\ ~contended
Quiet ==
    /\ pc \notin {"ask", "lock", "wait"} => Fresh /\ (pc # "forever" => ~armed)
    /\ pc = "ask" => next = -1 /\ wait = 0 /\ left = 0 /\ ~contended /\ ~armed /\ elapsed = slack
    /\ pc = "forever" => mode = "infinite"
    /\ pc = "lock" =>
          /\ mode \in {"finite", "infinite"} /\ wait > 0 /\ left >= 0
          /\ next # -1 => wait <= next
          /\ mode = "infinite" => next # -1
          /\ mode = "finite" => wait <= Limit
          /\ ~contended => elapsed = slack /\ left = 0
          /\ Span(wait) >= elapsed + left \/ (elapsed <= slack /\ left = 0)
    /\ pc = "wait" => mode # "zero" /\ (left = Forever \/ (left <= Span(wait) /\ wait >= 0))

\* Ticks and milliseconds since the clock was read.
Counted ==
    pc \in {"ask", "lock"} =>
        /\ elapsed <= Span(spent) + phase
        /\ Span(spent) + phase <= elapsed + Millisecond - 1

\* While the thread waits for the lock, the timeout in milliseconds is that in ticks,
\* rounded up: it counts from the beginning of a millisecond.
Rounded ==
    pc = "lock" =>
        /\ elapsed + rest <= MaxAhead + Millisecond + slack + phase
        /\ ~armed =>
              /\ \A s \in Sides : due[s] # None => next # -1 /\ rest <= due[s] + phase + Millisecond
              /\ next # -1 => \E s \in Sides :
                     due[s] = Earliest \/ (due[s] # None /\ rest > due[s] + phase)

\* A wait of so many ticks is over neither late nor early.
InTime(ticks) ==
    /\ \A s \in Sides : due[s] # None =>
          ticks # Forever /\ ticks < due[s] + 2 * Millisecond + slack
    /\ mode \in {"infinite", "chat"} /\ ticks # Forever =>
          \E s \in Sides : due[s] # None /\ due[s] <= ticks
WaitsInTime ==
    /\ pc = "wait" /\ ~armed => InTime(left)
    /\ pc = "lock" /\ ~contended /\ ~armed => InTime(Span(wait))
    /\ pc = "forever" /\ ~armed => \A s \in Sides : due[s] = None

Short(ticks) == ticks <= MaxAhead + 2 * Millisecond + MaxSlack \/ ticks <= Span(Limit)
Bounded ==
    /\ pc \in {"lock", "wait"} => Short(Span(wait))
    /\ pc = "wait" =>
          /\ left = Forever => elapsed <= slack
          /\ left # Forever => Short(elapsed + left - slack)
          /\ mode = "finite" =>
                \/ elapsed + left <= Span(Limit) + slack
                \/ contended /\ elapsed + left <= Span(next + 1) + slack

IInv ==
    /\ Typing
    /\ Quiet
    /\ Counted
    /\ Rounded
    /\ WaitsInTime
    /\ Bounded

---------------------------------------------------------------------------
(* Milliseconds and ticks.                                                 *)

LEMMA Ticks ==
    /\ Millisecond \in Nat \ {0} /\ Limit \in Nat \ {0} /\ MaxAhead \in Nat \ {0}
    /\ MaxSlack \in Nat /\ Ahead \subseteq 1..MaxAhead
    /\ None \in Nat /\ Earliest \in Int /\ Earliest < 0 /\ Earliest <= -Millisecond
    /\ Following \subseteq 1..None /\ Following \subseteq Earliest..None
  BY TimeAssumption DEF None, Earliest, Following

LEMMA Division ==
    ASSUME NEW x \in Int
    PROVE  /\ x \div Millisecond \in Int
           /\ Span(x \div Millisecond) <= x
           /\ x < Span(x \div Millisecond) + Millisecond
  BY Ticks DEF Span

LEMMA Product ==
    ASSUME NEW a \in Int, NEW b \in Int
    PROVE  /\ Span(a) \in Int
           /\ Span(a + b) = Span(a) + Span(b)
           /\ Span(a - b) = Span(a) - Span(b)
           /\ a <= b => Span(a) <= Span(b)
           /\ a >= 0 => a <= Span(a)
           /\ a < 0 => Span(a) <= -Millisecond
           /\ Span(0) = 0 /\ Span(1) = Millisecond
  BY Ticks DEF Span

\* RMC's next timeout in milliseconds, whatever the part of a millisecond it is now, and
\* however long ago the clock was read.
RoundedUp(rel) ==
    /\ rel \in -1..MaxAhead + spent + 1
    /\ rel = -1 => \A s \in Sides : due[s] = None
    /\ rel > 0 =>
          /\ \A s \in Sides : due[s] # None => Span(rel - spent) <= due[s] + phase + Millisecond
          /\ Span(rel - spent) <= MaxAhead + phase + Millisecond
          /\ \E s \in Sides : due[s] # None /\ Span(rel - spent) > due[s] + phase

LEMMA Relative ==
    ASSUME Typing
    PROVE  RoundedUp(_dstc_get_timeout_msec_rel)
  <1> DEFINE rel == _dstc_get_timeout_msec_rel
             t == CHOOSE u \in _dstc_get_next_timeout_abs : TRUE
             q == (phase + t) \div Millisecond
  <1> USE Ticks
  <1>1. /\ due["pub"] \in Int /\ due["sub"] \in Int /\ spent \in Nat
        /\ phase \in Int /\ phase >= 0 /\ phase < Millisecond
        /\ \A s \in Sides : due[s] \in Int /\ due[s] <= None
    BY DEF Typing, Sides
  <1>2. CASE Timeouts = {}
    <2>1. \A s \in Sides : due[s] = None
      BY <1>2 DEF Timeouts
    <2>2. rel = -1
      BY <1>2 DEF _dstc_get_timeout_msec_rel
    <2> QED
      BY <1>1, <2>1, <2>2 DEF RoundedUp
  <1>3. CASE Timeouts # {}
    <2>1. _dstc_get_next_timeout_abs # {}
      <3>1. Timeouts = {due["pub"], due["sub"]} \ {None}
        BY DEF Timeouts, Sides
      <3> QED
        BY <1>1, <1>3, <3>1 DEF _dstc_get_next_timeout_abs
    <2>2. t \in Timeouts /\ \A u \in Timeouts : t <= u
      BY <2>1 DEF _dstc_get_next_timeout_abs
    <2> HIDE DEF t
    <2>3. \A s \in Sides : due[s] # None => t <= due[s]
      BY <2>2 DEF Timeouts
    <2>4. PICK s \in Sides : t = due[s] /\ due[s] # None
      BY <2>2 DEF Timeouts
    <2>5. t \in Int /\ t <= MaxAhead
      BY <1>1, <2>4 DEF None
    <2>6. q \in Int /\ Span(q) <= phase + t /\ phase + t < Span(q) + Millisecond
      BY <1>1, <2>5, Division
    <2> HIDE DEF q
    <2>7. rel = IF spent + q < 0 THEN 0 ELSE spent + q + 1
      BY <1>3 DEF _dstc_get_timeout_msec_rel, InMilliseconds, t, q
    <2> HIDE DEF rel
    <2>8. q <= MaxAhead
      <3>1. CASE q > MaxAhead
        <4>1. Span(MaxAhead + 1) <= Span(q) /\ Span(q) \in Int
          BY <2>6, <3>1, Product
        <4>2. Span(MaxAhead + 1) = Span(MaxAhead) + Millisecond
              /\ MaxAhead <= Span(MaxAhead) /\ Span(MaxAhead) \in Int
          BY Product
        <4> QED
          BY <1>1, <2>5, <2>6, <4>1, <4>2
      <3> QED
        BY <2>6, <3>1
    <2>9. rel \in -1..MaxAhead + spent + 1 /\ rel # -1
      BY <1>1, <2>6, <2>7, <2>8
    <2>10. ASSUME rel > 0 PROVE RoundedUp(rel)
      <3>1. rel - spent = q + 1
        BY <1>1, <2>6, <2>7, <2>10
      <3>2. Span(rel - spent) = Span(q) + Millisecond /\ Span(q) \in Int
        BY <2>6, <3>1, Product
      <3>3. ASSUME NEW r \in Sides, due[r] # None
            PROVE  Span(rel - spent) <= due[r] + phase + Millisecond
        <4>1. t <= due[r] /\ due[r] \in Int
          BY <1>1, <2>3, <3>3
        <4> QED
          BY <1>1, <2>5, <2>6, <3>2, <4>1
      <3>4. Span(rel - spent) > due[s] + phase /\ Span(rel - spent) <= MaxAhead + phase + Millisecond
        BY <1>1, <2>4, <2>5, <2>6, <3>2
      <3> QED
        BY <2>4, <2>9, <2>10, <3>3, <3>4 DEF RoundedUp
    <2>11. ASSUME ~(rel > 0) PROVE RoundedUp(rel)
      BY <2>9, <2>11 DEF RoundedUp
    <2> QED
      BY <2>10, <2>11 DEF rel
  <1> QED
    BY <1>2, <1>3

\* The milliseconds count from the clock reading, so a wait of them that begins now is late
\* by what the thread lost since then.
LEMMA Asked ==
    ASSUME IInv, pc = "ask", NEW rel, RoundedUp(rel), rel > 0
    PROVE  /\ rel \in Int /\ Span(rel) \in Int /\ InTime(Span(rel)) /\ Short(Span(rel))
           /\ elapsed + Span(rel - spent) <= MaxAhead + Millisecond + slack + phase
           /\ Span(rel - spent) \in Int
  <1> USE Ticks
  <1>1. /\ spent \in Nat /\ phase \in Int /\ phase >= 0 /\ slack \in Nat /\ slack <= MaxSlack
        /\ elapsed = slack /\ Span(spent) \in Int
        /\ Span(spent) + phase <= slack + Millisecond - 1
        /\ slack <= Span(spent) + phase
        /\ \A s \in Sides : due[s] \in Int
    BY Product DEF IInv, Typing, Quiet, Counted
  <1>2. rel \in Int
    BY <1>1 DEF RoundedUp
  <1>3. Span(rel) \in Int /\ Span(rel - spent) = Span(rel) - Span(spent)
        /\ Span(rel - spent) \in Int /\ Span(rel) > 0
    <2>1. Span(rel) \in Int /\ Span(rel - spent) = Span(rel) - Span(spent) /\ rel <= Span(rel)
      BY <1>1, <1>2, Product
    <2> QED
      BY <1>1, <1>2, <2>1
  <1>4. ASSUME NEW s \in Sides, due[s] # None
        PROVE  Span(rel) # Forever /\ Span(rel) < due[s] + 2 * Millisecond + slack
    <2>1. Span(rel - spent) <= due[s] + phase + Millisecond
      BY <1>4 DEF RoundedUp
    <2> QED
      BY <1>1, <1>3, <2>1 DEF Forever
  <1>5. \E s \in Sides : due[s] # None /\ due[s] <= Span(rel)
    <2>1. PICK s \in Sides : due[s] # None /\ Span(rel - spent) > due[s] + phase
      BY DEF RoundedUp
    <2> QED
      BY <1>1, <1>3, <2>1
  <1>6. Span(rel - spent) <= MaxAhead + phase + Millisecond
    BY DEF RoundedUp
  <1>7. Short(Span(rel))
    BY <1>1, <1>3, <1>6 DEF Short
  <1> QED
    BY <1>1, <1>2, <1>3, <1>4, <1>5, <1>6, <1>7 DEF InTime

---------------------------------------------------------------------------
(* What steps have in common.                                              *)

LEMMA TimeoutsTyped ==
    ASSUME Typing, _dstc_process_timeout
    PROVE  due' \in [Sides -> Earliest..None]
  <1>1. PICK pub \in Following \cup {due["pub"]}, sub \in Following \cup {due["sub"]} :
            due' = [pub |-> pub, sub |-> sub]
    BY DEF _dstc_process_timeout
  <1>2. Following \subseteq Earliest..None
    BY Ticks
  <1>3. due["pub"] \in Earliest..None /\ due["sub"] \in Earliest..None
    BY DEF Typing, Sides
  <1>4. pub \in Earliest..None /\ sub \in Earliest..None
    BY <1>2, <1>3
  <1> HIDE DEF Earliest, None
  <1>5. \A x \in Sides : [pub |-> pub, sub |-> sub][x] \in Earliest..None
    BY <1>4 DEF Sides
  <1> QED
    BY <1>1, <1>5 DEF Sides

LEMMA EventsTyped ==
    ASSUME Typing, HandleEvents
    PROVE  due' \in [Sides -> Earliest..None] /\ txfull' \in BOOLEAN /\ events' \in BOOLEAN
  <1>1. Following \subseteq Earliest..None
    BY Ticks
  <1>2. PICK s \in Sides, after \in Following :
            due' = [due EXCEPT ![s] = IF IsDue(s) THEN @ ELSE after]
    BY DEF HandleEvents
  <1>3. due[s] \in Earliest..None /\ after \in Earliest..None
    BY <1>1 DEF Typing
  <1>4. due' \in [Sides -> Earliest..None]
    BY <1>2, <1>3 DEF Typing
  <1> QED
    BY <1>4 DEF HandleEvents

\* Outside of a wait and of the way into it, there is little to keep.
LEMMA FreshKeeps ==
    ASSUME Typing, UNCHANGED <<config, phase>>, held' \in BOOLEAN,
           due' \in [Sides -> Earliest..None], txfull' \in BOOLEAN, events' \in BOOLEAN,
           pc' \in Labels \ {"ask", "lock", "wait", "forever"}, Fresh', ~armed', armed' \in BOOLEAN,
           contended' \in BOOLEAN
    PROVE  IInv'
  <1>1. Typing'
    <2>1. /\ next' \in -1..MaxAhead + MaxSlack + 1 /\ wait' \in Int /\ wait' >= -1
          /\ spent' \in Nat /\ elapsed' \in Nat /\ spent' <= elapsed' /\ slack' \in 0..MaxSlack
          /\ left' \in Int /\ left' >= Forever
      BY Ticks DEF Fresh, Forever
    <2> QED
      BY <2>1 DEF Typing, config
  <1> QED
    BY <1>1 DEF IInv, Quiet, Counted, Rounded, WaitsInTime, Bounded, Labels, Blocking

LEMMA InitHolds == Init => IInv
  <1> SUFFICES ASSUME Init PROVE IInv
    OBVIOUS
  <1>1. due \in [Sides -> Earliest..None]
    <2>1. Following \subseteq Earliest..None
      BY Ticks
    <2> QED
      BY <2>1 DEF Init
  <1>2. others \in BOOLEAN /\ txfull \in BOOLEAN /\ events \in BOOLEAN /\ held \in BOOLEAN
        /\ contended \in BOOLEAN /\ armed \in BOOLEAN
    BY DEF Init
  <1>3. Typing
    <2>1. /\ phase \in 0..Millisecond - 1 /\ next \in -1..MaxAhead + MaxSlack + 1
          /\ left >= Forever /\ slack \in 0..MaxSlack /\ wait \in Int /\ wait >= -1
          /\ spent \in Nat /\ elapsed \in Nat /\ spent <= elapsed /\ left \in Int
      BY Ticks DEF Init, Forever
    <2> QED
      BY <1>1, <1>2, <2>1 DEF Init, Typing, Labels
  <1> QED
    BY <1>3 DEF Init, IInv, Quiet, Fresh, Counted, Rounded, WaitsInTime, Bounded

\* Steps that do not touch the variables of the call, but for forgetting them.
LEMMA FreshStepsKeep ==
    ASSUME IInv,
           dstc_process_events_0 \/ HandleDue \/ LockExpires \/ WaitReturns \/ WaitTimesOut
             \/ EventsAfterWait \/ TimeoutsAfterWait \/ EventsAtOnce \/ TimeoutsAfterEvent
    PROVE  IInv'
  <1>1. Typing /\ txfull \in BOOLEAN /\ events \in BOOLEAN /\ held \in BOOLEAN
        /\ due \in [Sides -> Earliest..None]
    BY DEF IInv, Typing
  <1>2. pc \in {"start", "due", "handle", "process", "both", "timeouts"} =>
            Fresh /\ ~armed /\ armed \in BOOLEAN /\ contended \in BOOLEAN
    BY DEF IInv, Typing, Quiet
  <1>3. UNCHANGED timing /\ Fresh /\ ~armed /\ armed \in BOOLEAN /\ contended \in BOOLEAN
            => Fresh' /\ ~armed' /\ armed' \in BOOLEAN /\ contended' \in BOOLEAN
    BY DEF timing, Fresh
  <1>4. Forget => Fresh' /\ ~armed' /\ armed' \in BOOLEAN /\ contended' \in BOOLEAN
    BY DEF Forget, Fresh
  <1>5. ASSUME HandleEvents \/ (_dstc_process_timeout /\ UNCHANGED <<txfull, events>>)
                 \/ UNCHANGED rmc
        PROVE  due' \in [Sides -> Earliest..None] /\ txfull' \in BOOLEAN /\ events' \in BOOLEAN
    BY <1>1, <1>5, TimeoutsTyped, EventsTyped DEF rmc
  <1>6. CASE dstc_process_events_0
    BY <1>1, <1>2, <1>3, <1>5, <1>6, FreshKeeps DEF dstc_process_events_0, AtOnce, Labels, Blocking
  <1>7. CASE HandleDue
    BY <1>1, <1>2, <1>3, <1>5, <1>7, FreshKeeps DEF HandleDue, AtOnce, Labels, Blocking
  <1>8. CASE LockExpires
    BY <1>1, <1>4, <1>5, <1>8, FreshKeeps DEF LockExpires, Labels, Blocking
  <1>9. CASE WaitReturns
    BY <1>1, <1>4, <1>5, <1>9, FreshKeeps DEF WaitReturns, Labels, Blocking
  <1>10. CASE WaitTimesOut
    BY <1>1, <1>4, <1>5, <1>10, FreshKeeps DEF WaitTimesOut, Labels, Blocking
  <1>11. CASE EventsAfterWait
    BY <1>1, <1>2, <1>3, <1>5, <1>11, FreshKeeps DEF EventsAfterWait, Labels, Blocking
  <1>12. CASE TimeoutsAfterWait
    BY <1>1, <1>2, <1>3, <1>5, <1>12, FreshKeeps DEF TimeoutsAfterWait, Labels, Blocking
  <1>13. CASE EventsAtOnce
    BY <1>1, <1>2, <1>3, <1>5, <1>13, FreshKeeps DEF EventsAtOnce, Labels, Blocking
  <1>14. CASE TimeoutsAfterEvent
    BY <1>1, <1>2, <1>3, <1>5, <1>14, FreshKeeps DEF TimeoutsAfterEvent, Labels, Blocking
  <1> QED
    BY <1>6, <1>7, <1>8, <1>9, <1>10, <1>11, <1>12, <1>13, <1>14

---------------------------------------------------------------------------
(* Into a wait, and from the wait for the lock to that for events.         *)

LEMMA ReadClockKeeps ==
    ASSUME IInv, ReadClock
    PROVE  IInv'
  <1>1. /\ pc = "start" /\ pc' = "ask"
        /\ mode' = mode /\ others' = others /\ clocks' = clocks /\ held' = held /\ phase' = phase
        /\ due' = due /\ txfull' = txfull /\ events' = events /\ next' = next /\ wait' = wait
        /\ spent' = spent /\ elapsed' = elapsed /\ slack' = slack /\ left' = left
        /\ contended' = contended /\ armed' = armed
    BY DEF ReadClock, config, rmc, timing
  <1>2. Fresh /\ ~armed
    BY <1>1 DEF IInv, Quiet
  <1>3. Typing'
    BY <1>1 DEF IInv, Typing, Labels, Blocking
  <1>4. Counted'
    <2>1. phase \in 0..Millisecond - 1 /\ spent' = 0 /\ elapsed' = 0
      BY <1>1, <1>2 DEF IInv, Typing, Fresh
    <2>2. Span(0) = 0
      BY Product
    <2> QED
      BY <1>1, <2>1, <2>2, Ticks DEF Counted, Span
  <1> QED
    BY <1>1, <1>2, <1>3, <1>4 DEF IInv, Quiet, Fresh, Rounded, WaitsInTime, Bounded

\* The wait for the lock begins.
LEMMA LockBegins ==
    ASSUME IInv, pc = "ask", NEW rel, RoundedUp(rel), NEW limit \in Int, limit > 0,
           \/ mode = "infinite" /\ limit = rel
           \/ /\ mode = "finite" /\ limit <= Limit
              /\ limit = Limit \/ limit = rel
              /\ rel # -1 => limit <= rel,
           rel # 0, pc' = "lock", next' = rel, wait' = limit,
           UNCHANGED <<spent, elapsed, slack, left, contended, armed>>,
           UNCHANGED <<config, held, phase, rmc>>
    PROVE  IInv'
  <1> USE Ticks
  <1>1. /\ mode' = mode /\ others' = others /\ clocks' = clocks /\ held' = held /\ phase' = phase
        /\ due' = due /\ txfull' = txfull /\ events' = events
        /\ spent' = spent /\ elapsed' = elapsed /\ slack' = slack /\ left' = left
        /\ contended' = contended /\ armed' = armed
    BY DEF config, rmc
  <1>2. /\ Typing /\ left = 0 /\ ~contended /\ ~armed /\ elapsed = slack
        /\ spent \in Nat /\ slack \in Nat /\ phase \in Int /\ phase >= 0 /\ slack <= MaxSlack
        /\ elapsed \in Nat /\ elapsed <= Span(spent) + phase
    BY DEF IInv, Quiet, Typing, Counted
  <1>3. /\ rel \in -1..MaxAhead + spent + 1 /\ rel \in Int
        /\ rel = -1 => \A s \in Sides : due[s] = None
        /\ rel = -1 \/ rel > 0
    BY <1>2 DEF RoundedUp
  <1>4. Span(limit) \in Int /\ Span(limit) > 0 /\ Span(rel) \in Int /\ Span(spent) \in Int
        /\ (limit <= rel => Span(limit) <= Span(rel))
    <2>1. limit <= Span(limit) /\ Span(limit) \in Int /\ Span(rel) \in Int /\ Span(spent) \in Int
      <3>1. limit >= 0 /\ spent \in Int
        BY <1>2
      <3>2. limit <= Span(limit) /\ Span(limit) \in Int /\ Span(rel) \in Int
        BY <1>3, <3>1, Product
      <3> QED
        BY <3>1, <3>2, Product
    <2>2. limit <= rel => Span(limit) <= Span(rel)
      BY <1>3, Product
    <2> QED
      BY <1>3, <2>1, <2>2
  <1>5. Typing'
    <2>1. rel \in -1..MaxAhead + MaxSlack + 1
      BY <1>2, <1>3 DEF Typing
    <2> QED
      BY <1>1, <1>2, <2>1 DEF Typing, Labels
  <1>6. Quiet'
    BY <1>1, <1>2, <1>3, <1>4 DEF Quiet
  <1>7. Counted'
    BY <1>1 DEF IInv, Counted
  <1>8. rest' = Span(rel - spent)
    BY <1>1 DEF rest
  <1>9. CASE rel > 0
    <2>1. /\ InTime(Span(rel)) /\ Short(Span(rel))
          /\ elapsed + Span(rel - spent) <= MaxAhead + Millisecond + slack + phase
      BY <1>9, Asked
    <2>2. Rounded'
      <3>1. \A s \in Sides : due[s] # None => Span(rel - spent) <= due[s] + phase + Millisecond
        BY <1>9 DEF RoundedUp
      <3>2. \E s \in Sides : due[s] # None /\ Span(rel - spent) > due[s] + phase
        BY <1>9 DEF RoundedUp
      <3> QED
        BY <1>1, <1>3, <1>8, <1>9, <2>1, <3>1, <3>2 DEF Rounded
    <2>3. limit <= rel /\ Span(limit) <= Span(rel)
      BY <1>3, <1>4, <1>9
    <2>4. InTime(Span(limit))
      <3>1. \A s \in Sides : due[s] \in Int
        BY <1>2 DEF Typing
      <3>2. ASSUME NEW s \in Sides, due[s] # None
            PROVE  Span(limit) # Forever /\ Span(limit) < due[s] + 2 * Millisecond + slack
        <4>1. Span(rel) < due[s] + 2 * Millisecond + slack
          BY <2>1, <3>2 DEF InTime
        <4> QED
          BY <1>2, <1>4, <2>3, <3>1, <4>1 DEF Forever
      <3>3. mode = "infinite" => limit = rel
        OBVIOUS
      <3>4. mode # "chat"
        OBVIOUS
      <3> QED
        BY <2>1, <3>2, <3>3, <3>4 DEF InTime
    <2>5. WaitsInTime'
      <3>1. InTime(Span(limit))'
        BY <1>1, <2>4 DEF InTime, Span
      <3>2. wait' = limit
        OBVIOUS
      <3> QED
        BY <3>1, <3>2 DEF WaitsInTime, InTime, Span
    <2>6. Bounded'
      <3>1. Short(Span(limit))
        BY <1>2, <1>4, <2>1, <2>3, Product DEF Short
      <3> QED
        BY <3>1 DEF Bounded, Short, Span
    <2> QED
      BY <1>5, <1>6, <1>7, <2>2, <2>5, <2>6 DEF IInv
  <1>10. CASE rel = -1
    <2>1. mode = "finite" /\ limit = Limit /\ \A s \in Sides : due[s] = None
      BY <1>3, <1>10
    <2>2. Rounded'
      <3>1. Span(rel - spent) <= -Millisecond /\ Span(rel - spent) \in Int
        BY <1>2, <1>3, <1>10, Product
      <3>2. elapsed + Span(rel - spent) <= MaxAhead + Millisecond + slack + phase
        BY <1>2, <3>1
      <3> QED
        BY <1>1, <1>8, <1>10, <2>1, <3>2 DEF Rounded
    <2>3. WaitsInTime'
      BY <1>1, <2>1 DEF WaitsInTime, InTime
    <2>4. Bounded'
      <3>1. Short(Span(limit))
        BY <1>4, <2>1, Product DEF Short
      <3> QED
        BY <3>1 DEF Bounded, Short, Span
    <2> QED
      BY <1>5, <1>6, <1>7, <2>2, <2>3, <2>4 DEF IInv
  <1> QED
    BY <1>3, <1>9, <1>10

\* Nothing is due, and the wait is to have no end.
LEMMA ForeverBegins ==
    ASSUME IInv, pc = "ask", RoundedUp(-1), mode = "infinite", pc' = "forever", Forget,
           UNCHANGED <<config, held, phase, rmc>>
    PROVE  IInv'
  <1>1. /\ mode' = mode /\ others' = others /\ clocks' = clocks /\ held' = held /\ phase' = phase
        /\ due' = due /\ txfull' = txfull /\ events' = events
    BY DEF config, rmc
  <1>2. Fresh' /\ armed' = FALSE /\ contended' = FALSE
    BY DEF Forget, Fresh
  <1>3. \A s \in Sides : due[s] = None
    BY DEF RoundedUp
  <1>4. Typing'
    <2>1. /\ next' \in -1..MaxAhead + MaxSlack + 1 /\ wait' \in Int /\ wait' >= -1
          /\ spent' \in Nat /\ elapsed' \in Nat /\ spent' <= elapsed' /\ slack' \in 0..MaxSlack
          /\ left' \in Int /\ left' >= Forever
      BY <1>2, Ticks DEF Fresh, Forever
    <2>2. contended' \in BOOLEAN /\ armed' \in BOOLEAN
      BY <1>2
    <2> QED
      BY <1>1, <2>1, <2>2 DEF IInv, Typing, Labels, Blocking
  <1> QED
    BY <1>1, <1>2, <1>3, <1>4 DEF IInv, Quiet, Counted, Rounded, WaitsInTime, Bounded

LEMMA AskKeeps ==
    ASSUME IInv, dstc_process_events
    PROVE  IInv'
  <1> DEFINE rel == _dstc_get_timeout_msec_rel
             limit == WaitFor(rel)
  <1>1. Typing /\ pc = "ask" /\ mode \in {"finite", "infinite"} /\ UNCHANGED <<config, held, phase, rmc>>
    BY DEF IInv, Typing, dstc_process_events
  <1>2. RoundedUp(rel)
    BY <1>1, Relative
  <1>3. \/ limit = 0 /\ pc' = "due" /\ Forget
        \/ limit = -1 /\ pc' = "forever" /\ Forget
        \/ /\ limit > 0 /\ pc' = "lock"
           /\ next' = rel /\ wait' = limit
           /\ UNCHANGED <<spent, elapsed, slack, left, contended, armed>>
    BY DEF dstc_process_events
  <1> HIDE DEF rel
  <1>4. rel \in Int /\ rel >= -1
    BY <1>1, <1>2 DEF RoundedUp, Typing
  <1>5. /\ limit \in Int /\ limit >= -1
        /\ mode = "infinite" => limit = rel
        /\ mode = "finite" => limit <= Limit /\ (limit = Limit \/ limit = rel)
                              /\ (rel # -1 => limit <= rel) /\ limit # -1
        /\ limit > 0 => rel # 0
    BY <1>1, <1>4, Ticks DEF WaitFor
  <1> HIDE DEF limit
  <1>6. CASE limit = 0 /\ pc' = "due" /\ Forget
    <2>1. held' \in BOOLEAN /\ due' \in [Sides -> Earliest..None] /\ txfull' \in BOOLEAN
          /\ events' \in BOOLEAN
      BY <1>1 DEF Typing, rmc
    <2>2. Fresh' /\ ~armed' /\ armed' \in BOOLEAN /\ contended' \in BOOLEAN
      BY <1>6 DEF Forget, Fresh
    <2> QED
      BY <1>1, <1>6, <2>1, <2>2, FreshKeeps DEF Labels, Blocking
  <1>7. CASE limit = -1 /\ pc' = "forever" /\ Forget
    <2>1. mode = "infinite" /\ rel = -1
      BY <1>1, <1>5, <1>7
    <2> QED
      BY <1>1, <1>2, <1>7, <2>1, ForeverBegins
  <1>8. CASE /\ limit > 0 /\ pc' = "lock" /\ next' = rel /\ wait' = limit
             /\ UNCHANGED <<spent, elapsed, slack, left, contended, armed>>
    <2>1. \/ mode = "infinite" /\ limit = rel
          \/ /\ mode = "finite" /\ limit <= Limit
             /\ limit = Limit \/ limit = rel
             /\ rel # -1 => limit <= rel
      BY <1>1, <1>5
    <2>2. rel # 0 /\ pc' = "lock" /\ next' = rel /\ wait' = limit /\ limit > 0
          /\ UNCHANGED <<spent, elapsed, slack, left, contended, armed>>
      BY <1>5, <1>8
    <2>3. limit \in Int /\ pc = "ask" /\ UNCHANGED <<config, held, phase, rmc>>
      BY <1>1, <1>5
    <2> QED
      BY <1>2, <2>1, <2>2, <2>3, LockBegins
  <1> QED
    BY <1>3, <1>6, <1>7, <1>8

LEMMA ChatLoopKeeps ==
    ASSUME IInv, ChatLoop
    PROVE  IInv'
  <1> USE Ticks
  <1> DEFINE rel == _dstc_get_timeout_msec_rel
  <1>1. Typing /\ pc = "ask" /\ mode = "chat" /\ UNCHANGED <<config, held, phase, rmc>>
    BY DEF IInv, Typing, ChatLoop
  <1>2. RoundedUp(rel)
    BY <1>1, Relative
  <1>3. \/ rel = 0 /\ pc' = "process" /\ Forget
        \/ /\ rel # 0 /\ pc' = "wait" /\ wait' = rel
           /\ left' = IF rel = -1 THEN Forever ELSE Span(rel)
           /\ UNCHANGED <<next, spent, elapsed, slack, contended, armed>>
    BY DEF ChatLoop, Span
  <1> HIDE DEF rel
  <1>4. rel \in Int /\ rel >= -1 /\ Span(rel) \in Int /\ (rel >= 0 => rel <= Span(rel))
    <2>1. rel \in Int /\ rel >= -1
      BY <1>1, <1>2 DEF RoundedUp, Typing
    <2> QED
      BY <2>1, Product
  <1>5. /\ mode' = mode /\ others' = others /\ clocks' = clocks /\ held' = held /\ phase' = phase
        /\ due' = due /\ txfull' = txfull /\ events' = events
    BY <1>1 DEF config, rmc
  <1>6. CASE rel = 0 /\ pc' = "process" /\ Forget
    <2>1. held' \in BOOLEAN /\ due' \in [Sides -> Earliest..None] /\ txfull' \in BOOLEAN
          /\ events' \in BOOLEAN
      BY <1>1, <1>5 DEF Typing
    <2>2. Fresh' /\ ~armed' /\ armed' \in BOOLEAN /\ contended' \in BOOLEAN
      BY <1>6 DEF Forget, Fresh
    <2> QED
      BY <1>1, <1>6, <2>1, <2>2, FreshKeeps DEF Labels, Blocking
  <1>7. CASE /\ rel # 0 /\ pc' = "wait" /\ wait' = rel
             /\ left' = (IF rel = -1 THEN Forever ELSE Span(rel))
             /\ UNCHANGED <<next, spent, elapsed, slack, contended, armed>>
    <2>1. left' \in Int /\ left' >= Forever /\ (rel # -1 => left' = Span(rel) /\ left' # Forever)
      BY <1>4, <1>7 DEF Forever
    <2>2. Typing'
      BY <1>1, <1>4, <1>5, <1>7, <2>1 DEF Typing, Labels
    <2>3. Span(wait') = Span(rel) /\ elapsed' = elapsed /\ slack' = slack /\ elapsed = slack
      BY <1>1, <1>7 DEF IInv, Quiet
    <2>4. Quiet'
      <3>1. left' = Forever \/ (left' <= Span(rel) /\ rel >= 0)
        BY <1>4, <1>7
      <3> QED
        BY <1>1, <1>5, <1>7, <3>1 DEF Quiet, Span
    <2>5. WaitsInTime'
      <3>1. CASE rel = -1
        <4>1. \A s \in Sides : due[s] = None
          BY <1>2, <3>1 DEF RoundedUp
        <4> QED
          BY <1>5, <1>7, <3>1, <4>1 DEF WaitsInTime, InTime
      <3>2. CASE rel > 0
        <4>1. InTime(Span(rel))
          BY <1>1, <1>2, <3>2, Asked
        <4> QED
          BY <1>5, <1>7, <2>1, <2>3, <3>2, <4>1 DEF WaitsInTime, InTime
      <3> QED
        BY <1>4, <1>7, <3>1, <3>2
    <2>6. Bounded'
      <3>1. Short(Span(rel))
        <4>1. CASE rel = -1
          BY <4>1, Product, Ticks DEF Short
        <4>2. CASE rel > 0
          BY <1>1, <1>2, <4>2, Asked
        <4> QED
          BY <1>4, <1>7, <4>1, <4>2
      <3>2. slack \in Int
        BY <1>1 DEF Typing
      <3>3. left' # Forever => elapsed' + left' - slack' = Span(rel)
        BY <1>4, <1>7, <2>1, <2>3, <3>2
      <3>4. left' # Forever => Short(elapsed' + left' - slack')
        BY <3>1, <3>3
      <3>5. elapsed' <= slack'
        BY <2>3, <3>2
      <3> QED
        BY <1>1, <1>5, <1>7, <3>1, <3>4, <3>5 DEF Bounded, Short, Span
    <2> QED
      BY <1>7, <2>2, <2>4, <2>5, <2>6 DEF IInv, Counted, Rounded
  <1> QED
    BY <1>3, <1>6, <1>7

LEMMA WaitForeverKeeps ==
    ASSUME IInv, WaitForever
    PROVE  IInv'
  <1>1. /\ pc = "forever" /\ pc' = "wait" /\ wait' = -1 /\ left' = Forever
        /\ mode' = mode /\ others' = others /\ clocks' = clocks /\ held' = held /\ phase' = phase
        /\ due' = due /\ txfull' = txfull /\ events' = events /\ next' = next
        /\ spent' = spent /\ elapsed' = elapsed /\ slack' = slack
        /\ contended' = contended /\ armed' = armed
    BY DEF WaitForever, config, rmc
  <1>2. Fresh /\ mode = "infinite" /\ (~armed => \A s \in Sides : due[s] = None)
    BY <1>1 DEF IInv, Quiet, WaitsInTime
  <1>3. Typing'
    <2>1. left' \in Int /\ left' >= Forever
      BY <1>1 DEF Forever
    <2> QED
      BY <1>1, <2>1 DEF IInv, Typing, Labels
  <1>4. Quiet' /\ WaitsInTime'
    BY <1>1, <1>2 DEF Quiet, WaitsInTime, InTime
  <1>5. Bounded'
    <2>1. Short(Span(-1))
      BY Product, Ticks DEF Short
    <2>2. elapsed' <= slack'
      BY <1>1, <1>2 DEF Fresh
    <2> QED
      BY <1>1, <1>2, <2>1, <2>2 DEF Bounded, Short, Span
  <1> QED
    BY <1>1, <1>3, <1>4, <1>5 DEF IInv, Counted, Rounded

LEMMA TryLockKeeps ==
    ASSUME IInv, TryLock
    PROVE  IInv'
  <1> USE Ticks
  <1>1. /\ pc = "lock" /\ ~contended
        /\ mode' = mode /\ others' = others /\ clocks' = clocks /\ held' = held /\ phase' = phase
        /\ due' = due /\ txfull' = txfull /\ events' = events /\ next' = next /\ wait' = wait
        /\ spent' = spent /\ elapsed' = elapsed /\ slack' = slack /\ armed' = armed
    BY DEF TryLock, config, rmc
  <1>2. /\ Typing /\ mode \in {"finite", "infinite"} /\ wait > 0 /\ wait \in Int /\ slack \in Nat
        /\ (next # -1 => wait <= next) /\ (mode = "infinite" => next # -1)
        /\ (mode = "finite" => wait <= Limit) /\ elapsed = slack
    BY <1>1 DEF IInv, Quiet, Typing
  <1>3. Span(wait) \in Int /\ Span(wait) > 0
    <2>1. Span(wait) \in Int /\ wait <= Span(wait)
      BY <1>2, Product
    <2> QED
      BY <1>2, <2>1
  <1>4. CASE held
    <2>1. /\ contended' = TRUE /\ pc' = pc
          /\ left' = IF clocks = "apart" \/ elapsed > Span(wait) THEN 0 ELSE Span(wait) - elapsed
      BY <1>4 DEF TryLock, Span
    <2>2. /\ left' \in Int /\ left' >= 0
          /\ Span(wait) >= elapsed + left' \/ (elapsed <= slack /\ left' = 0)
      BY <1>2, <1>3, <2>1
    <2>3. Typing'
      BY <1>1, <1>2, <2>1, <2>2 DEF Typing, Forever
    <2>4. Quiet'
      BY <1>1, <1>2, <2>1, <2>2 DEF Quiet, Span
    <2>5. Counted' /\ Rounded'
      BY <1>1, <2>1 DEF IInv, Counted, Rounded, rest, Span
    <2>6. WaitsInTime' /\ Bounded'
      BY <1>1, <2>1 DEF IInv, WaitsInTime, Bounded, Short, Span
    <2> QED
      BY <2>3, <2>4, <2>5, <2>6 DEF IInv
  <1>5. CASE ~held
    <2>1. contended' = contended /\ pc' = "wait" /\ left' = Span(wait)
      BY <1>5 DEF TryLock, Span
    <2>2. Typing' /\ Quiet'
      BY <1>1, <1>2, <1>3, <2>1 DEF Typing, Quiet, Forever, Labels, Span
    <2>3. WaitsInTime'
      <3>1. ~armed => InTime(Span(wait))
        BY <1>1 DEF IInv, WaitsInTime
      <3> QED
        BY <1>1, <2>1, <3>1 DEF WaitsInTime, InTime
    <2>4. Bounded'
      <3>1. Short(Span(wait)) /\ elapsed + Span(wait) - slack = Span(wait)
        BY <1>1, <1>2, <1>3 DEF IInv, Bounded
      <3>2. mode = "finite" => elapsed + Span(wait) <= Span(Limit) + slack
        <4>1. mode = "finite" => Span(wait) <= Span(Limit)
          BY <1>2, Product
        <4>2. Span(Limit) \in Int /\ elapsed = slack /\ slack \in Int
          BY <1>2, Product
        <4> QED
          BY <1>3, <4>1, <4>2
      <3>3. Span(wait) # Forever
        BY <1>3 DEF Forever
      <3> QED
        BY <1>1, <2>1, <3>1, <3>2, <3>3 DEF Bounded, Short, Span
    <2> QED
      BY <2>1, <2>2, <2>3, <2>4 DEF IInv, Counted, Rounded
  <1> QED
    BY <1>4, <1>5

LEMMA LockAfterWaitKeeps ==
    ASSUME IInv, LockAfterWait
    PROVE  IInv'
  <1> USE Ticks
  <1>1. /\ pc = "lock" /\ contended /\ pc' = "wait"
        /\ wait' = (IF next < spent THEN 0 ELSE next - spent) /\ left' = Span(wait')
        /\ mode' = mode /\ others' = others /\ clocks' = clocks /\ held' = held /\ phase' = phase
        /\ due' = due /\ txfull' = txfull /\ events' = events /\ next' = next
        /\ spent' = spent /\ elapsed' = elapsed /\ slack' = slack
        /\ contended' = contended /\ armed' = armed
    BY DEF LockAfterWait, config, rmc, Span
  <1>2. /\ Typing /\ mode \in {"finite", "infinite"} /\ wait > 0 /\ wait \in Int
        /\ next \in Int /\ spent \in Nat /\ elapsed \in Nat /\ slack \in Nat /\ slack <= MaxSlack
        /\ phase \in Int /\ phase >= 0 /\ phase < Millisecond
        /\ left \in Int /\ left >= 0
        /\ \A s \in Sides : due[s] \in Int
    BY <1>1 DEF IInv, Quiet, Typing
  <1>3. /\ next # -1 => wait <= next
        /\ mode = "infinite" => next # -1
        /\ mode = "finite" => wait <= Limit
        /\ elapsed <= Span(wait) \/ elapsed <= slack
        /\ Span(wait) \in Int /\ Span(Limit) \in Int /\ Span(Limit) >= 0
    <2>1. Span(wait) \in Int /\ Span(Limit) \in Int /\ Limit <= Span(Limit)
      BY <1>2, Product
    <2>2. Span(wait) >= elapsed + left \/ elapsed <= slack
      BY <1>1 DEF IInv, Quiet
    <2> QED
      BY <1>1, <1>2, <2>1, <2>2 DEF IInv, Quiet
  <1>4. /\ rest \in Int /\ rest = Span(next) - Span(spent)
        /\ Span(next) \in Int /\ Span(spent) \in Int
        /\ Span(next + 1) = Span(next) + Millisecond
        /\ wait <= next => Span(wait) <= Span(next)
        /\ wait <= Limit => Span(wait) <= Span(Limit)
    <2>1. next \in Int /\ spent \in Int /\ wait \in Int /\ Limit \in Int
      BY <1>2
    <2>2. rest \in Int /\ rest = Span(next) - Span(spent)
      <3>1. next - spent \in Int
        BY <2>1
      <3> QED
        BY <2>1, <3>1, Product DEF rest
    <2>3. Span(next) \in Int /\ Span(spent) \in Int
      BY <2>1, Product
    <2>4. Span(next + 1) = Span(next) + Millisecond
      BY <2>1, Product
    <2>5. (wait <= next => Span(wait) <= Span(next)) /\ (wait <= Limit => Span(wait) <= Span(Limit))
      BY <2>1, Product
    <2> QED
      BY <2>2, <2>3, <2>4, <2>5
  <1>5. /\ elapsed <= Span(spent) + phase
        /\ Span(spent) + phase <= elapsed + Millisecond - 1
        /\ elapsed + rest <= MaxAhead + Millisecond + slack + phase
    BY <1>1 DEF IInv, Counted, Rounded
  <1>6. \/ next < spent /\ wait' = 0 /\ left' = 0 /\ rest < 0
        \/ next >= spent /\ wait' = next - spent /\ left' = rest /\ rest >= 0
    <2>1. next < spent => next - spent < 0 /\ next - spent \in Int
      BY <1>2
    <2>2. next < spent => rest < 0
      <3>1. next < spent => Span(next - spent) <= -Millisecond
        BY <2>1, Product
      <3> QED
        BY <1>4, <3>1 DEF rest
    <2>3. next >= spent => next - spent >= 0 /\ next - spent \in Int
      BY <1>2
    <2>4. next >= spent => rest >= 0
      BY <1>2, <2>3, Product DEF rest
    <2>5. next < spent => wait' = 0 /\ left' = 0
      <3>1. Span(0) = 0
        BY Product
      <3> QED
        BY <1>1, <3>1
    <2>6. next >= spent => wait' = next - spent /\ left' = rest
      BY <1>1, <1>2 DEF rest
    <2> QED
      BY <1>2, <2>2, <2>4, <2>5, <2>6
  <1> HIDE DEF rest
  <1>7. left' \in Int /\ left' >= 0 /\ left' # Forever /\ wait' \in Int /\ wait' >= 0
    BY <1>2, <1>4, <1>6 DEF Forever
  <1>8. Typing' /\ Quiet'
    <2>1. left' >= Forever
      BY <1>7 DEF Forever
    <2>2. left' <= Span(wait')
      BY <1>1, <1>7
    <2>3. Typing'
      BY <1>1, <1>2, <1>7, <2>1 DEF Typing, Labels
    <2> QED
      BY <1>1, <1>2, <1>7, <2>2, <2>3 DEF Quiet, Span
  <1>9. WaitsInTime'
    <2> SUFFICES ASSUME ~armed
                 PROVE  /\ \A s \in Sides : due[s] # None => left' < due[s] + 2 * Millisecond + slack
                        /\ mode = "infinite" => \E s \in Sides : due[s] # None /\ due[s] <= left'
      BY <1>1, <1>2, <1>7 DEF WaitsInTime, InTime
    <2>1. ASSUME NEW s \in Sides, due[s] # None PROVE left' < due[s] + 2 * Millisecond + slack
      <3>1. rest <= due[s] + phase + Millisecond /\ next # -1 /\ due[s] \in Int
        BY <1>1, <1>2, <2>1 DEF IInv, Rounded
      <3>2. Span(wait) <= Span(next) /\ Span(wait) >= 0
        <4>1. wait <= Span(wait)
          BY <1>2, Product
        <4> QED
          BY <1>2, <1>3, <1>4, <3>1, <4>1
      <3>3. rest >= phase + 1 - Millisecond - slack
        BY <1>2, <1>3, <1>4, <1>5, <3>2
      <3> QED
        BY <1>2, <1>4, <1>6, <3>1, <3>3
    <2>2. ASSUME mode = "infinite" PROVE \E s \in Sides : due[s] # None /\ due[s] <= left'
      <3>1. PICK s \in Sides : due[s] = Earliest \/ (due[s] # None /\ rest > due[s] + phase)
        BY <1>1, <1>3, <2>2 DEF IInv, Rounded
      <3>2. due[s] # None
        BY <3>1
      <3> QED
        BY <1>2, <1>4, <1>6, <1>7, <3>1, <3>2
    <2> QED
      BY <2>1, <2>2
  <1>10. Bounded'
    <2>1. Short(Span(wait))
      BY <1>1 DEF IInv, Bounded
    <2>2. Short(Span(wait'))
      BY <1>1, <1>2, <1>3, <1>4, <1>5, <1>6 DEF Short
    <2>3. Short(elapsed + left' - slack)
      BY <1>2, <1>3, <1>4, <1>5, <1>6, <2>1 DEF Short
    <2>4. mode = "finite" => \/ elapsed + left' <= Span(Limit) + slack
                             \/ elapsed + left' <= Span(next + 1) + slack
      BY <1>2, <1>3, <1>4, <1>5, <1>6
    <2> QED
      BY <1>1, <1>7, <2>2, <2>3, <2>4 DEF Bounded, Short, Span
  <1> QED
    BY <1>1, <1>8, <1>9, <1>10 DEF IInv, Counted, Rounded

LEMMA InterruptedKeeps ==
    ASSUME IInv, Interrupted
    PROVE  IInv'
  <1> USE Ticks
  <1>1. /\ pc = "wait" /\ pc' = "wait" /\ left # Forever /\ left < Span(wait) /\ left' = Span(wait)
        /\ slack' = slack + Span(wait) - left /\ slack' <= MaxSlack
        /\ mode' = mode /\ others' = others /\ clocks' = clocks /\ held' = held /\ phase' = phase
        /\ due' = due /\ txfull' = txfull /\ events' = events /\ next' = next /\ wait' = wait
        /\ spent' = spent /\ elapsed' = elapsed /\ contended' = contended /\ armed' = armed
    BY DEF Interrupted, config, rmc, Span
  <1>2. /\ Typing /\ left \in Int /\ left >= 0 /\ slack \in Nat /\ elapsed \in Nat
        /\ wait \in Int /\ wait >= 0 /\ mode # "zero" /\ next \in Int
        /\ \A s \in Sides : due[s] \in Int
    BY <1>1 DEF IInv, Typing, Quiet, Forever
  <1>3. Span(wait) \in Int /\ Span(Limit) \in Int /\ Span(next + 1) \in Int
    BY <1>2, Product
  <1>4. /\ slack' \in Int /\ slack' >= 0 /\ left' # Forever /\ left' >= Forever
        /\ elapsed' + left' - slack' = elapsed + left - slack
        /\ left' - slack' = left - slack /\ left' >= left
    BY <1>1, <1>2, <1>3 DEF Forever
  <1>5. Typing' /\ Quiet'
    BY <1>1, <1>2, <1>3, <1>4 DEF Typing, Quiet, Span
  <1>6. WaitsInTime'
    <2> SUFFICES ASSUME ~armed
                 PROVE  /\ \A s \in Sides : due[s] # None =>
                              left' < due[s] + 2 * Millisecond + slack'
                        /\ mode \in {"infinite", "chat"} =>
                              \E s \in Sides : due[s] # None /\ due[s] <= left'
      BY <1>1, <1>4 DEF WaitsInTime, InTime
    <2>1. InTime(left)
      BY <1>1 DEF IInv, WaitsInTime
    <2>2. ASSUME NEW s \in Sides, due[s] # None PROVE left' < due[s] + 2 * Millisecond + slack'
      <3>1. left < due[s] + 2 * Millisecond + slack /\ due[s] \in Int
        BY <1>2, <2>1, <2>2 DEF InTime
      <3> QED
        BY <1>1, <1>2, <1>3, <3>1
    <2>3. ASSUME mode \in {"infinite", "chat"}
          PROVE  \E s \in Sides : due[s] # None /\ due[s] <= left'
      <3>1. PICK s \in Sides : due[s] # None /\ due[s] <= left
        BY <1>1, <2>1, <2>3 DEF InTime
      <3> QED
        BY <1>1, <1>2, <1>3, <1>4, <3>1
    <2> QED
      BY <2>2, <2>3
  <1>7. Bounded'
    <2>1. Short(Span(wait)) /\ Short(elapsed + left - slack)
      BY <1>1 DEF IInv, Bounded
    <2>2. mode = "finite" => \/ elapsed + left' <= Span(Limit) + slack'
                             \/ contended /\ elapsed + left' <= Span(next + 1) + slack'
      <3>1. mode = "finite" => \/ elapsed + left <= Span(Limit) + slack
                               \/ contended /\ elapsed + left <= Span(next + 1) + slack
        BY <1>1 DEF IInv, Bounded
      <3> QED
        BY <1>1, <1>2, <1>3, <3>1
    <2>3. Short(elapsed' + left' - slack')
      BY <1>4, <2>1
    <2> QED
      BY <1>1, <1>4, <2>1, <2>2, <2>3 DEF Bounded, Short, Span
  <1> QED
    BY <1>1, <1>5, <1>6, <1>7 DEF IInv, Counted, Rounded

---------------------------------------------------------------------------
(* What goes on during a wait.                                             *)

LEMMA OthersKeep ==
    ASSUME IInv, Event \/ OtherTakes \/ OtherReleases
    PROVE  IInv'
  <1>1. /\ UNCHANGED <<mode, others, clocks, phase, pc, next, wait, spent, elapsed, slack>>
        /\ UNCHANGED <<left, contended>>
    BY DEF Event, OtherTakes, OtherReleases, config, timing
  <1>2. Typing
    BY DEF IInv
  <1>3. /\ held' \in BOOLEAN /\ armed' \in BOOLEAN /\ txfull' \in BOOLEAN /\ events' \in BOOLEAN
        /\ due' \in [Sides -> Earliest..None]
        /\ armed => armed'
        /\ due' = due \/ pc \notin {"forever", "lock", "wait"} \/ armed'
        /\ pc \notin {"forever", "lock", "wait"} => armed' = armed
    <2>1. CASE Event
      BY <1>2, <2>1 DEF Event, timing, Typing
    <2>2. CASE OtherTakes
      BY <1>2, <2>2 DEF OtherTakes, timing, rmc, Typing
    <2>3. CASE OtherReleases
      <3>1. /\ held' = FALSE
            /\ HandleEvents \/ (_dstc_process_timeout /\ UNCHANGED <<txfull, events>>)
            /\ armed' = (armed \/ (pc \in {"forever", "lock", "wait"} /\ due' # due))
        BY <2>3 DEF OtherReleases
      <3>2. due' \in [Sides -> Earliest..None] /\ txfull' \in BOOLEAN /\ events' \in BOOLEAN
        BY <1>2, <3>1, TimeoutsTyped, EventsTyped DEF Typing
      <3>3. armed \in BOOLEAN
        BY <1>2 DEF Typing
      <3> QED
        BY <3>1, <3>2, <3>3
    <2> QED
      BY <2>1, <2>2, <2>3
  <1>4. Typing'
    BY <1>1, <1>2, <1>3 DEF Typing
  <1>5. Quiet'
    BY <1>1, <1>3 DEF IInv, Quiet, Fresh, Span
  <1>6. Counted' /\ Bounded'
    BY <1>1 DEF IInv, Counted, Bounded, Short, Span
  <1>7. Rounded'
    BY <1>1, <1>3 DEF IInv, Rounded, rest, Span
  <1>8. WaitsInTime'
    BY <1>1, <1>3 DEF IInv, WaitsInTime, InTime, Span
  <1> QED
    BY <1>4, <1>5, <1>6, <1>7, <1>8 DEF IInv

\* A tick brings a timeout nearer, unless it is past long ago.
Nearer(d, d1) == d1 = d - 1 \/ (d = Earliest /\ d1 = Earliest)

LEMMA TimeoutsNearer ==
    ASSUME Typing, Tick, NEW s \in Sides
    PROVE  /\ due[s] # None <=> due'[s] # None
           /\ due[s] # None => Nearer(due[s], due'[s])
           /\ due'[s] \in Earliest..None
  <1> USE Ticks
  <1>1. due'[s] = IF due[s] \in {None, Earliest} THEN due[s] ELSE due[s] - 1
    BY DEF Tick
  <1>2. due[s] \in Earliest..None
    BY DEF Typing
  <1> QED
    BY <1>1, <1>2 DEF Nearer

\* With the clock, so many ticks to the timeout or fewer remain so many less the tick.
LEMMA OneTick ==
    ASSUME NEW r \in Int, NEW d \in Int, NEW d1 \in Int, Nearer(d, d1), NEW slip \in Nat
    PROVE  /\ r <= d + Millisecond => r - 1 <= d1 + Millisecond
           /\ r > d => d1 = Earliest \/ r - 1 > d1
           /\ r > 0 /\ r < d + 2 * Millisecond + slip => r - 1 < d1 + 2 * Millisecond + slip
           /\ r > 0 /\ d <= r => d1 <= r - 1
  BY Ticks DEF Nearer

LEMMA OneTickCounted ==
    ASSUME NEW e \in Int, NEW r \in Int, NEW r1 \in Int, NEW bound \in Int,
           r1 = r - 1, e + r <= bound
    PROVE  (e + 1) + r1 <= bound
  OBVIOUS

LEMMA Reordered ==
    ASSUME NEW e \in Int, NEW r \in Int, NEW p \in Int, NEW bound \in Int,
           e + (r - p) <= bound
    PROVE  e + r <= bound + p
  OBVIOUS

LEMMA PhaseTicks ==
    ASSUME Typing, phase' = (phase + 1) % Millisecond
    PROVE  /\ phase' \in 0..Millisecond - 1
           /\ \/ phase' = phase + 1 /\ phase' # 0
              \/ phase' = 0 /\ phase = Millisecond - 1
  <1>1. phase \in 0..Millisecond - 1
    BY DEF Typing
  <1>2. CASE phase = Millisecond - 1
    BY <1>2, Ticks
  <1>3. CASE phase # Millisecond - 1
    BY <1>1, <1>3, Ticks
  <1> QED
    BY <1>2, <1>3

\* Milliseconds and ticks since the clock was read grow together.
LEMMA SpentTicks ==
    ASSUME Typing, Tick, pc \in {"ask", "lock"}
    PROVE  /\ spent' \in Nat /\ (spent' = spent \/ spent' = spent + 1)
           /\ Span(spent) \in Int /\ Span(spent') \in Int
           /\ Span(spent') + phase' = Span(spent) + phase + 1
           /\ rest \in Int /\ rest' \in Int /\ rest' - phase' = rest - phase - 1
  <1> USE Ticks
  <1>1. /\ phase' = (phase + 1) % Millisecond /\ next' = next
        /\ spent' = IF phase' = 0 THEN spent + 1 ELSE spent
    BY DEF Tick
  <1>2. phase \in Int /\ spent \in Nat /\ next \in Int
    BY DEF Typing
  <1>3. spent' \in Nat /\ spent' \in Int /\ spent \in Int /\ next - spent \in Int /\ next - spent' \in Int
    BY <1>1, <1>2
  <1>4. /\ Span(spent) \in Int /\ Span(spent') \in Int /\ Span(next) \in Int
        /\ Span(spent + 1) = Span(spent) + Millisecond
    <2>1. Span(spent) \in Int /\ Span(spent') \in Int /\ Span(next) \in Int
      BY <1>2, <1>3, Product
    <2>2. Span(spent + 1) = Span(spent) + Millisecond
      BY <1>3, Product
    <2> QED
      BY <2>1, <2>2
  <1>5. Span(next - spent) = Span(next) - Span(spent)
    BY <1>2, <1>3, Product
  <1>6. Span(next - spent') = Span(next) - Span(spent')
    BY <1>2, <1>3, Product
  <1>7. rest' = Span(next - spent')
    BY <1>1 DEF rest, Span
  <1>8. /\ phase' \in 0..Millisecond - 1
        /\ \/ phase' = phase + 1 /\ phase' # 0
           \/ phase' = 0 /\ phase = Millisecond - 1
    BY <1>1, PhaseTicks
  <1>9. Span(spent') + phase' = Span(spent) + phase + 1
    BY <1>1, <1>2, <1>4, <1>8
  <1>10. rest \in Int /\ rest' \in Int /\ rest' - phase' = rest - phase - 1
    BY <1>2, <1>4, <1>5, <1>6, <1>7, <1>8, <1>9 DEF rest
  <1> QED
    BY <1>1, <1>2, <1>3, <1>4, <1>9, <1>10

LEMMA TickKeeps ==
    ASSUME IInv, Tick
    PROVE  IInv'
  <1> USE Ticks
  <1>1. /\ mode' = mode /\ others' = others /\ clocks' = clocks /\ held' = held
        /\ txfull' = txfull /\ events' = events /\ pc' = pc /\ next' = next /\ wait' = wait
        /\ contended' = contended /\ armed' = armed /\ phase' = (phase + 1) % Millisecond
        /\ slack' = IF pc = "ask" THEN slack + 1 ELSE slack
        /\ left' = IF pc \in {"lock", "wait"} /\ left > 0 THEN left - 1 ELSE left
        /\ elapsed' = IF pc = "ask" \/ left' # left THEN elapsed + 1 ELSE elapsed
        /\ spent' = IF pc \in {"ask", "lock"} /\ phase' = 0 THEN spent + 1 ELSE spent
    BY DEF Tick, config
  <1>2. /\ Typing /\ phase \in Int /\ next \in Int /\ spent \in Nat /\ elapsed \in Nat
        /\ spent <= elapsed /\ left \in Int /\ left >= -1 /\ slack \in Nat /\ wait \in Int
        /\ slack <= MaxSlack /\ \A s \in Sides : due[s] \in Int
    BY DEF IInv, Typing, Forever
  <1>3. phase' \in 0..Millisecond - 1 /\ phase' \in Int
    BY <1>1, <1>2, PhaseTicks
  <1>4. due' \in [Sides -> Earliest..None]
    <2>1. due' = [s \in Sides |-> due'[s]]
      BY DEF Tick
    <2> QED
      BY <1>2, <2>1, TimeoutsNearer
  <1>5. \A s \in Sides :
          /\ due[s] # None <=> due'[s] # None
          /\ due[s] # None => Nearer(due[s], due'[s])
          /\ due'[s] \in Int
    BY <1>2, <1>4, TimeoutsNearer
  <1>6. ASSUME /\ spent' \in Nat /\ elapsed' \in Nat /\ spent' <= elapsed'
               /\ slack' \in Nat /\ slack' <= MaxSlack /\ left' \in Int /\ left' >= -1
        PROVE  Typing'
    BY <1>1, <1>2, <1>3, <1>4, <1>6 DEF Typing, Forever
  <1>7. CASE pc \notin {"ask", "lock", "wait"}
    <2>1. /\ spent' = spent /\ elapsed' = elapsed /\ slack' = slack /\ left' = left
      BY <1>1, <1>7
    <2>2. Typing'
      BY <1>2, <1>6, <2>1
    <2>3. Quiet'
      BY <1>1, <1>7, <2>1 DEF IInv, Quiet, Fresh
    <2>4. WaitsInTime'
      BY <1>1, <1>5, <1>7 DEF IInv, WaitsInTime
    <2> QED
      BY <1>1, <1>7, <2>2, <2>3, <2>4 DEF IInv, Counted, Rounded, Bounded
  <1>8. CASE pc = "ask"
    <2>1. /\ next = -1 /\ wait = 0 /\ left = 0 /\ ~contended /\ ~armed /\ elapsed = slack
      BY <1>8 DEF IInv, Quiet
    <2>2. slack < MaxSlack
      BY <1>8 DEF Tick, Passes, Blocking
    <2>3. /\ slack' = slack + 1 /\ left' = 0 /\ elapsed' = elapsed + 1
      BY <1>1, <1>8, <2>1
    <2>4. /\ spent' \in Nat /\ (spent' = spent \/ spent' = spent + 1)
          /\ Span(spent) \in Int /\ Span(spent') \in Int
          /\ Span(spent') + phase' = Span(spent) + phase + 1
      BY <1>2, <1>8, SpentTicks
    <2>5. Typing'
      BY <1>2, <1>6, <2>2, <2>3, <2>4
    <2>6. Quiet'
      BY <1>1, <1>2, <1>8, <2>1, <2>3 DEF Quiet
    <2>7. Counted'
      <3>1. elapsed <= Span(spent) + phase /\ Span(spent) + phase <= elapsed + Millisecond - 1
        BY <1>8 DEF IInv, Counted
      <3>2. elapsed' <= Span(spent') + phase' /\ Span(spent') + phase' <= elapsed' + Millisecond - 1
        BY <1>2, <2>3, <2>4, <3>1
      <3> QED
        BY <3>2 DEF Counted, Span
    <2> QED
      BY <1>1, <1>8, <2>5, <2>6, <2>7 DEF IInv, Rounded, WaitsInTime, Bounded
  <1>9. CASE pc = "lock"
    <2>1. contended /\ left > 0
      BY <1>9 DEF Tick, Passes, Blocking
    <2>2. /\ slack' = slack /\ left' = left - 1 /\ elapsed' = elapsed + 1
      BY <1>1, <1>2, <1>9, <2>1
    <2>3. /\ spent' \in Nat /\ (spent' = spent \/ spent' = spent + 1)
          /\ Span(spent) \in Int /\ Span(spent') \in Int
          /\ Span(spent') + phase' = Span(spent) + phase + 1
          /\ rest \in Int /\ rest' \in Int /\ rest' - phase' = rest - phase - 1
      BY <1>2, <1>9, SpentTicks
    <2>4. Typing'
      BY <1>2, <1>6, <2>1, <2>2, <2>3
    <2>5. Quiet'
      <3>1. /\ mode \in {"finite", "infinite"} /\ wait > 0
            /\ next # -1 => wait <= next
            /\ mode = "infinite" => next # -1
            /\ mode = "finite" => wait <= Limit
            /\ Span(wait) >= elapsed + left
        BY <1>2, <1>9, <2>1 DEF IInv, Quiet
      <3>2. Span(wait) >= elapsed' + left' /\ left' >= 0
        BY <1>2, <2>1, <2>2, <3>1
      <3> QED
        BY <1>1, <1>9, <2>1, <3>1, <3>2 DEF Quiet, Span
    <2>6. Counted'
      <3>1. elapsed <= Span(spent) + phase /\ Span(spent) + phase <= elapsed + Millisecond - 1
        BY <1>9 DEF IInv, Counted
      <3>2. elapsed' <= Span(spent') + phase' /\ Span(spent') + phase' <= elapsed' + Millisecond - 1
        BY <1>2, <2>2, <2>3, <3>1
      <3> QED
        BY <3>2 DEF Counted, Span
    <2> HIDE DEF rest
    <2>7. Rounded'
      <3>1. elapsed' + rest' <= MaxAhead + Millisecond + slack' + phase'
        <4>1. elapsed + rest <= MaxAhead + Millisecond + slack + phase
          BY <1>9 DEF IInv, Rounded
        <4> QED
          <5>1. elapsed + (rest - phase) <= MaxAhead + Millisecond + slack
            BY <1>2, <2>3, <4>1
          <5>2. (elapsed + 1) + (rest' - phase') <= MaxAhead + Millisecond + slack
            <6>1. rest - phase \in Int /\ rest' - phase' \in Int
              BY <1>2, <1>3, <2>3
            <6>2. MaxAhead + Millisecond + slack \in Int
              BY <1>2
            <6> QED
              BY <1>2, <2>3, <5>1, <6>1, <6>2, OneTickCounted
          <5>3. elapsed' + (rest' - phase') <= MaxAhead + Millisecond + slack'
            BY <2>2, <5>2
          <5>4. MaxAhead + Millisecond + slack' \in Int /\ elapsed' \in Int
            BY <1>2, <2>2
          <5> QED
            BY <1>3, <2>3, <5>3, <5>4, Reordered
      <3>2. ASSUME ~armed, NEW s \in Sides, due'[s] # None
            PROVE  next # -1 /\ rest' <= due'[s] + phase' + Millisecond
        <4>1. next # -1 /\ rest <= due[s] + phase + Millisecond
          BY <1>5, <1>9, <3>2 DEF IInv, Rounded
        <4>2. due[s] \in Int /\ due'[s] \in Int /\ Nearer(due[s], due'[s])
          BY <1>2, <1>5, <3>2
        <4>3. rest - phase \in Int /\ rest - phase <= due[s] + Millisecond
          BY <1>2, <2>3, <4>1, <4>2
        <4>4. rest - phase - 1 <= due'[s] + Millisecond
          BY <4>2, <4>3, OneTick
        <4> QED
          BY <1>3, <2>3, <4>1, <4>2, <4>4
      <3>3. ASSUME ~armed, next # -1
            PROVE  \E s \in Sides : \/ due'[s] = Earliest
                                    \/ due'[s] # None /\ rest' > due'[s] + phase'
        <4>1. PICK s \in Sides : due[s] = Earliest \/ (due[s] # None /\ rest > due[s] + phase)
          BY <1>9, <3>3 DEF IInv, Rounded
        <4>2. due[s] # None
          BY <4>1
        <4>3. due[s] \in Int /\ due'[s] \in Int /\ Nearer(due[s], due'[s]) /\ due'[s] # None
          BY <1>2, <1>5, <4>2
        <4>4. CASE due[s] = Earliest
          BY <4>2, <4>4 DEF Tick
        <4>5. CASE rest > due[s] + phase
          <5>1. rest - phase \in Int /\ rest - phase > due[s]
            BY <1>2, <2>3, <4>3, <4>5
          <5>2. due'[s] = Earliest \/ rest - phase - 1 > due'[s]
            BY <4>3, <5>1, OneTick
          <5> QED
            BY <1>3, <2>3, <4>3, <5>2
        <4> QED
          BY <4>1, <4>4, <4>5
      <3> QED
        BY <1>1, <3>1, <3>2, <3>3 DEF Rounded
    <2>8. WaitsInTime' /\ Bounded'
      BY <1>1, <1>9, <2>1 DEF IInv, WaitsInTime, Bounded, Short, Span
    <2> QED
      BY <2>4, <2>5, <2>6, <2>7, <2>8 DEF IInv
  <1>10. CASE pc = "wait"
    <2>1. spent' = spent /\ slack' = slack /\ left # 0
      BY <1>1, <1>10 DEF Tick, Passes, Blocking
    <2>2. CASE left = Forever
      <3>1. left' = left /\ elapsed' = elapsed
        <4>1. ~(left > 0)
          BY <2>2 DEF Forever
        <4> QED
          BY <1>1, <1>10, <4>1
      <3>2. Typing'
        BY <1>2, <1>6, <2>1, <3>1
      <3>3. Quiet'
        BY <1>1, <1>10, <2>2, <3>1 DEF IInv, Quiet
      <3>4. WaitsInTime'
        BY <1>1, <1>5, <1>10, <2>2, <3>1 DEF IInv, WaitsInTime, InTime
      <3>5. Bounded'
        BY <1>1, <1>10, <2>1, <3>1 DEF IInv, Bounded, Short, Span
      <3> QED
        BY <1>1, <1>10, <3>2, <3>3, <3>4, <3>5 DEF IInv, Counted, Rounded
    <2>3. CASE left # Forever
      <3>1. left > 0
        BY <1>2, <2>1, <2>3 DEF Forever
      <3>2. left' = left - 1 /\ elapsed' = elapsed + 1
        BY <1>1, <1>2, <1>10, <3>1
      <3>3. elapsed' + left' = elapsed + left /\ left' # Forever /\ left' >= 0
        BY <1>2, <3>1, <3>2 DEF Forever
      <3>4. Typing'
        BY <1>2, <1>6, <2>1, <3>1, <3>2
      <3>5. Quiet'
        <4>1. Span(wait) \in Int /\ left <= Span(wait) /\ wait >= 0 /\ mode # "zero"
          BY <1>2, <1>10, <2>3, Product DEF IInv, Quiet
        <4>2. left' <= Span(wait)
          BY <1>2, <3>2, <4>1
        <4> QED
          BY <1>1, <1>10, <4>1, <4>2 DEF Quiet, Span
      <3>6. WaitsInTime'
        <4> SUFFICES ASSUME ~armed
                     PROVE  /\ \A s \in Sides : due'[s] # None =>
                                  left' < due'[s] + 2 * Millisecond + slack
                            /\ mode \in {"infinite", "chat"} =>
                                  \E s \in Sides : due'[s] # None /\ due'[s] <= left'
          BY <1>1, <1>10, <2>1, <3>3 DEF WaitsInTime, InTime
        <4>1. InTime(left)
          BY <1>10 DEF IInv, WaitsInTime
        <4>2. ASSUME NEW s \in Sides, due'[s] # None
              PROVE  left' < due'[s] + 2 * Millisecond + slack
          <5>1. /\ due[s] \in Int /\ due'[s] \in Int /\ Nearer(due[s], due'[s])
                /\ left < due[s] + 2 * Millisecond + slack
            BY <1>2, <1>5, <4>1, <4>2 DEF InTime
          <5> QED
            BY <1>2, <3>1, <3>2, <5>1, OneTick
        <4>3. ASSUME mode \in {"infinite", "chat"}
              PROVE  \E s \in Sides : due'[s] # None /\ due'[s] <= left'
          <5>1. PICK s \in Sides : due[s] # None /\ due[s] <= left
            BY <2>3, <4>1, <4>3 DEF InTime
          <5>2. due[s] \in Int /\ due'[s] \in Int /\ Nearer(due[s], due'[s]) /\ due'[s] # None
            BY <1>2, <1>5, <5>1
          <5>3. due'[s] <= left - 1
            BY <1>2, <3>1, <5>1, <5>2, OneTick
          <5> QED
            BY <3>2, <5>2, <5>3
        <4> QED
          BY <4>2, <4>3
      <3>7. Bounded'
        <4>1. Short(Span(wait)) /\ Short(elapsed + left - slack)
          BY <1>10, <2>3 DEF IInv, Bounded
        <4>2. mode = "finite" => \/ elapsed + left <= Span(Limit) + slack
                                 \/ contended /\ elapsed + left <= Span(next + 1) + slack
          BY <1>10 DEF IInv, Bounded
        <4>3. elapsed' + left' - slack' = elapsed + left - slack
          BY <1>2, <2>1, <3>2
        <4>4. Short(Span(wait)) /\ Short(elapsed' + left' - slack')
          BY <4>1, <4>3
        <4>5. mode = "finite" => \/ elapsed' + left' <= Span(Limit) + slack
                                 \/ contended /\ elapsed' + left' <= Span(next + 1) + slack
          BY <3>3, <4>2
        <4> QED
          BY <1>1, <1>10, <2>1, <3>3, <4>4, <4>5 DEF Bounded, Short, Span
      <3> QED
        BY <1>1, <1>10, <3>4, <3>5, <3>6, <3>7 DEF IInv, Counted, Rounded
    <2> QED
      BY <2>2, <2>3
  <1> QED
    BY <1>7, <1>8, <1>9, <1>10

---------------------------------------------------------------------------
(* The invariant and what follows from it.                                 *)

LEMMA StepKeeps == IInv /\ [Next]_vars => IInv'
  <1> SUFFICES ASSUME IInv, [Next]_vars PROVE IInv'
    OBVIOUS
  <1>1. CASE dstc_process_events_0 \/ HandleDue \/ LockExpires \/ WaitReturns \/ WaitTimesOut
               \/ EventsAfterWait \/ TimeoutsAfterWait \/ EventsAtOnce \/ TimeoutsAfterEvent
    BY <1>1, FreshStepsKeep
  <1>2. CASE ReadClock
    BY <1>2, ReadClockKeeps
  <1>3. CASE dstc_process_events
    BY <1>3, AskKeeps
  <1>4. CASE ChatLoop
    BY <1>4, ChatLoopKeeps
  <1>5. CASE WaitForever
    BY <1>5, WaitForeverKeeps
  <1>6. CASE TryLock
    BY <1>6, TryLockKeeps
  <1>7. CASE LockAfterWait
    BY <1>7, LockAfterWaitKeeps
  <1>8. CASE Interrupted
    BY <1>8, InterruptedKeeps
  <1>9. CASE Event \/ OtherTakes \/ OtherReleases
    BY <1>9, OthersKeep
  <1>10. CASE Tick
    BY <1>10, TickKeeps
  <1>11. CASE UNCHANGED vars
    <2>1. /\ UNCHANGED <<mode, others, clocks, held, phase, due, txfull, events, pc, next, wait>>
          /\ UNCHANGED <<spent, elapsed, slack, contended, left, armed>>
      BY <1>11 DEF vars, config, rmc, timing
    <2>2. Typing'
      BY <2>1 DEF IInv, Typing
    <2> QED
      BY <2>1, <2>2 DEF IInv, Quiet, Fresh, Counted, Rounded, WaitsInTime, InTime, Bounded, Short,
                        rest, Span
  <1> QED
    BY <1>1, <1>2, <1>3, <1>4, <1>5, <1>6, <1>7, <1>8, <1>9, <1>10, <1>11 DEF Next, Run

LEMMA Invariant == Spec => []IInv
  BY InitHolds, StepKeeps, PTL DEF Spec

LEMMA LargerOfTwo ==
    ASSUME NEW a \in Int, NEW b \in Int
    PROVE  Max({a, b}) \in {a, b} /\ Max({a, b}) >= a /\ Max({a, b}) >= b
  <1>1. \E x \in {a, b} : \A y \in {a, b} : x >= y
    <2>1. CASE a >= b
      BY <2>1
    <2>2. CASE b >= a
      BY <2>2
    <2> QED
      BY <2>1, <2>2
  <1>2. Max({a, b}) \in {a, b} /\ \A y \in {a, b} : Max({a, b}) >= y
    BY <1>1 DEF Max
  <1> QED
    BY <1>2

\* However the milliseconds of dstc_process_events() and of _dstc_get_timeout_msec_rel()
\* (dstc.c) are rounded, and whatever the thread waits for: the longest wait is RMC's
\* timeout or the program's limit, two milliseconds, and what is lost between reading the
\* clock, asking for the timeout with the lock, and a wait that signals do not begin again.
THEOREM TypeCorrect == Spec => []TypeOK
  <1>1. IInv => TypeOK
    <2> SUFFICES ASSUME IInv PROVE TypeOK
      OBVIOUS
    <2>1. Span(Limit) \in Int /\ Limit * Millisecond = Span(Limit)
      BY Ticks, Product DEF Span
    <2>2. /\ LongestWait \in Int
          /\ LongestWait >= MaxAhead + 2 * Millisecond + 2 * MaxSlack
          /\ LongestWait >= Span(Limit) + 2 * MaxSlack
      <3>1. /\ Max({MaxAhead, Span(Limit)}) \in {MaxAhead, Span(Limit)}
            /\ Max({MaxAhead, Span(Limit)}) >= MaxAhead
            /\ Max({MaxAhead, Span(Limit)}) >= Span(Limit)
        <4>1. MaxAhead \in Int
          BY Ticks
        <4> QED
          BY <2>1, <4>1, LargerOfTwo
      <3>2. LongestWait = Max({MaxAhead, Span(Limit)}) + 2 * (Millisecond + MaxSlack)
        BY <2>1 DEF LongestWait
      <3> QED
        BY <2>1, <3>1, <3>2, Ticks
    <2>3. /\ Typing /\ elapsed \in Nat /\ left \in Int /\ left >= -1 /\ wait \in Int /\ wait >= -1
          /\ spent \in Nat /\ spent <= elapsed /\ slack \in Nat /\ slack <= MaxSlack
      BY DEF IInv, Typing, Forever
    <2>4. Span(wait) \in Int /\ (wait >= 0 => wait <= Span(wait))
      BY <2>3, Product
    <2>5. Short(Span(wait)) => wait <= LongestWait /\ Span(wait) <= LongestWait
      BY <2>1, <2>2, <2>3, <2>4, Ticks DEF Short
    <2>6. wait <= LongestWait /\ elapsed <= LongestWait /\ left <= LongestWait
      <3>1. CASE pc \notin {"ask", "lock", "wait"}
        BY <2>2, <3>1, Ticks DEF IInv, Quiet, Fresh
      <3>2. CASE pc = "ask"
        BY <2>2, <2>3, <3>2, Ticks DEF IInv, Quiet
      <3>3. CASE pc = "lock"
        <4>1. /\ left >= 0 /\ Short(Span(wait))
              /\ Span(wait) >= elapsed + left \/ (elapsed <= slack /\ left = 0)
          BY <3>3 DEF IInv, Quiet, Bounded
        <4> QED
          BY <2>2, <2>3, <2>4, <2>5, <4>1, Ticks
      <3>4. CASE pc = "wait" /\ left = Forever
        <4>1. Short(Span(wait)) /\ elapsed <= slack
          BY <3>4 DEF IInv, Bounded
        <4> QED
          BY <2>2, <2>3, <2>5, <3>4, <4>1, Ticks DEF Forever
      <3>5. CASE pc = "wait" /\ left # Forever
        <4>1. Short(Span(wait)) /\ Short(elapsed + left - slack) /\ left >= 0
          BY <2>3, <3>5 DEF IInv, Bounded, Forever
        <4>2. elapsed + left <= LongestWait
          BY <2>1, <2>2, <2>3, <4>1, Ticks DEF Short
        <4> QED
          BY <2>2, <2>3, <2>5, <4>1, <4>2
      <3> QED
        BY <3>1, <3>2, <3>3, <3>4, <3>5
    <2>7. spent <= LongestWait
      BY <2>2, <2>3, <2>6
    <2> QED
      BY <2>2, <2>3, <2>6, <2>7 DEF TypeOK, Typing, Forever
  <1> QED
    BY <1>1, Invariant, PTL

\* The time the code lets the thread wait, which it works out in whole milliseconds from
\* RMC's timeout in microseconds and a clock reading that is older than the lock it waits
\* for, first for the timed lock and then again for events (dstc_process_events(),
\* _dstc_get_timeout_msec_rel(), and the loop of chat.c), ends when the first timeout is due,
\* and no more than two milliseconds and what was lost later.
THEOREM WaitsForTheTimeoutCorrect == Spec => []WaitsForTheTimeout
  <1>1. IInv => WaitsForTheTimeout
    BY DEF IInv, WaitsInTime, InTime, WaitsForTheTimeout
  <1> QED
    BY <1>1, Invariant, PTL

\* dstc_process_events() with a limit waits no longer than that, or than RMC's timeout when
\* it had to wait for the timed lock and forgot the limit, and what is lost (dstc.c).
THEOREM ReturnsInTimeCorrect == Spec => []ReturnsInTime
  <1>1. IInv => ReturnsInTime
    <2> SUFFICES ASSUME IInv, mode = "finite" PROVE ReturnsInTime
      BY DEF ReturnsInTime
    <2>1. /\ elapsed \in Nat /\ left \in Int /\ next \in Int /\ Limit \in Int /\ slack \in Nat
          /\ Limit + 1 \in Int /\ next + 1 \in Int /\ wait \in Int
      BY Ticks DEF IInv, Typing
    <2> DEFINE m == Max({next, Limit})
    <2>2. m \in Int /\ m >= next /\ m >= Limit
      BY <2>1, LargerOfTwo
    <2> HIDE DEF m
    <2>3. /\ Span(next + 1) <= Span(m + 1) /\ Span(Limit) <= Span(m + 1)
          /\ Span(next + 1) \in Int /\ Span(Limit) \in Int /\ Span(m + 1) \in Int
          /\ Span(Limit) >= 0
      <3>1. m + 1 \in Int /\ next + 1 <= m + 1 /\ Limit <= m + 1
        BY <2>1, <2>2
      <3>2. Span(next + 1) <= Span(m + 1)
        BY <2>1, <3>1, Product
      <3>3. Span(Limit) <= Span(m + 1)
        BY <2>1, <3>1, Product
      <3>4. Limit <= Span(Limit) /\ Span(next + 1) \in Int /\ Span(Limit) \in Int /\ Span(m + 1) \in Int
        BY <2>1, <3>1, Ticks, Product
      <3> QED
        BY <2>1, <3>2, <3>3, <3>4, Ticks
    <2>4. pc = "lock" /\ contended => elapsed + left <= Span(Limit) + slack
      <3> SUFFICES ASSUME pc = "lock" PROVE elapsed + left <= Span(Limit) + slack
        OBVIOUS
      <3>1. /\ wait <= Limit
            /\ Span(wait) >= elapsed + left \/ (elapsed <= slack /\ left = 0)
        BY DEF IInv, Quiet
      <3>2. Span(wait) <= Span(Limit) /\ Span(wait) \in Int
        BY <2>1, <3>1, Product
      <3> QED
        BY <2>1, <2>3, <3>1, <3>2
    <2>5. pc = "wait" => \/ elapsed + left <= Span(Limit) + slack
                         \/ contended /\ elapsed + left <= Span(m + 1) + slack
      <3>1. pc = "wait" => \/ elapsed + left <= Span(Limit) + slack
                           \/ contended /\ elapsed + left <= Span(next + 1) + slack
        BY DEF IInv, Bounded
      <3> QED
        BY <2>1, <2>3, <3>1
    <2>6. pc = "wait" =>
              IF contended THEN elapsed + left <= Span(m + 1) + slack
              ELSE elapsed + left <= Span(Limit) + slack
      BY <2>1, <2>3, <2>5
    <2> QED
      BY <2>4, <2>6 DEF ReturnsInTime, Span, m
  <1> QED
    BY <1>1, Invariant, PTL
=============================================================================
