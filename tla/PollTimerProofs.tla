-------------------------- MODULE PollTimerProofs ---------------------------
(***************************************************************************)
(* Theorems about the timing of the polls, for every reload time, every    *)
(* duration of the requests, every horizon and whatever the clock is set   *)
(* to.                                                                     *)
(***************************************************************************)
EXTENDS PollTimer, TLAPS

TimerType ==
  /\ now \in Int /\ last \in Int /\ due \in Int /\ looked \in Int
  /\ real \in Int /\ started \in Int /\ ended \in Int
  /\ polling \in BOOLEAN /\ failed \in BOOLEAN /\ steady \in BOOLEAN

\* How far the wall clock is ahead of real time.
Ahead == now - real

\* As long as the clock is steady: g_query_values_time is the plan in wall
\* clock time, last is not later than the plan or the end of the poll, and
\* unless the poll has just ended the last look is less than ten seconds ago.
OnPlan ==
  /\ due = Planned + Ahead
  /\ ended <= real
  /\ last <= LaterOf(Planned, ended) + Ahead
  /\ now < last + LookTime \/ real = ended

TimerInv ==
  /\ TimerType
  /\ real >= 0
  /\ polling => started = real
  /\ polling /\ steady => looked = now
  /\ started >= 0 /\ steady /\ ~polling => OnPlan

LEMMA InitTimer == Init => TimerInv
<1>. SUFFICES ASSUME Init
              PROVE  TimerInv
  OBVIOUS
<1>1. /\ now = 1000 /\ real = 0 /\ last = 0 /\ due = 0 /\ looked = 0
      /\ started = -1 /\ ended = -1
  BY DEF Init
<1>2. polling = FALSE /\ failed = FALSE /\ steady = TRUE
  BY DEF Init
<1>3. /\ polling \in BOOLEAN /\ failed \in BOOLEAN /\ steady \in BOOLEAN
      /\ ~polling
  BY <1>2
<1>4. /\ now \in Int /\ last \in Int /\ due \in Int /\ looked \in Int
      /\ real \in Int /\ started \in Int /\ ended \in Int
      /\ real >= 0 /\ ~(started >= 0)
  BY <1>1
<1>. QED
  BY <1>3, <1>4 DEF TimerInv, TimerType

\* A nap without a poll leaves the plan as it was.
LEMMA NapStep ==
  ASSUME TimerInv, Nap,
         \/ last' = last /\ now' < last + LookTime
         \/ last' = now' /\ now' < due,
         UNCHANGED <<due, polling, looked, started, ended, failed, steady>>
  PROVE  TimerInv'
<1>0. /\ now \in Int /\ last \in Int /\ due \in Int /\ looked \in Int
      /\ real \in Int /\ started \in Int /\ ended \in Int
      /\ polling \in BOOLEAN /\ failed \in BOOLEAN /\ steady \in BOOLEAN
      /\ real >= 0
  BY DEF TimerInv, TimerType
<1>1. ~polling /\ real' = real + 5 /\ now' = now + 5
  BY DEF Nap, Pass, NapTime
<1>2. TimerType' /\ real' >= 0
  BY <1>0, <1>1 DEF TimerType
<1>3. Planned' = Planned
  BY DEF Planned
<1>4. Planned \in Int
  <2>1. Reload \in Int
    BY TimerConstants
  <2>. QED
    BY <1>0, <2>1 DEF Planned, RetryTime
<1>5. ASSUME started >= 0, steady
      PROVE  OnPlan'
  <2>1. /\ due = Planned + (now - real)
        /\ ended <= real
        /\ last <= LaterOf(Planned, ended) + (now - real)
    BY <1>1, <1>5 DEF TimerInv, OnPlan, Ahead
  <2>2. /\ due' = Planned + (now' - real')
        /\ ended <= real'
        /\ last' <= LaterOf(Planned, ended) + (now' - real')
        /\ now' < last' + 10
    BY <1>0, <1>1, <1>4, <2>1 DEF LookTime, LaterOf
  <2>3. LaterOf(Planned', ended') = LaterOf(Planned, ended)
    BY <1>3 DEF LaterOf
  <2>. QED
    BY <1>3, <2>2, <2>3 DEF OnPlan, Ahead, LookTime
<1>. QED
  BY <1>1, <1>2, <1>5 DEF TimerInv

\* The end of a request makes a plan that is right if the clock is steady.
LEMMA ReturnStep ==
  ASSUME TimerInv,
         NEW seconds \in Durations, NEW fails \in BOOLEAN,
         Return(seconds, fails, IF fails THEN now' ELSE looked,
                                IF fails THEN RetryTime ELSE Reload)
  PROVE  TimerInv'
<1>0. /\ now \in Int /\ last \in Int /\ due \in Int /\ looked \in Int
      /\ real \in Int /\ started \in Int /\ ended \in Int
      /\ polling \in BOOLEAN /\ failed \in BOOLEAN /\ steady \in BOOLEAN
      /\ real >= 0
  BY DEF TimerInv, TimerType
<1>1. seconds \in Nat /\ Reload \in Nat
  BY TimerConstants
<1>2. /\ polling
      /\ real' = real + seconds /\ now' = now + seconds
      /\ ended' = real' /\ looked' = looked /\ started' = started
      /\ last' = IF fails THEN now' ELSE looked
      /\ due' = (IF fails THEN 60 ELSE Reload) + (IF fails THEN now' ELSE looked)
  BY DEF Return, Pass, RetryTime
<1>3. polling' = FALSE /\ failed' = fails /\ steady' = steady
  BY DEF Return
<1>4. /\ ~polling'
      /\ polling' \in BOOLEAN /\ failed' \in BOOLEAN /\ steady' \in BOOLEAN
  BY <1>0, <1>3
<1>5. /\ now' \in Int /\ last' \in Int /\ due' \in Int /\ looked' \in Int
      /\ real' \in Int /\ started' \in Int /\ ended' \in Int
      /\ real' >= 0
  BY <1>0, <1>1, <1>2
<1>6. started = real
  BY <1>2 DEF TimerInv
<1>7. ASSUME steady
      PROVE  OnPlan'
  <2>1. looked = now
    BY <1>2, <1>7 DEF TimerInv
  <2>2. Planned' = IF fails THEN real' + 60 ELSE real + Reload
    BY <1>2, <1>3, <1>6 DEF Planned, RetryTime
  <2>3. CASE fails
    <3>1. Planned' = real' + 60 /\ last' = now' /\ due' = 60 + now'
      BY <1>2, <2>2, <2>3
    <3>2. /\ due' = Planned' + (now' - real')
          /\ ended' <= real'
          /\ last' <= LaterOf(Planned', ended') + (now' - real')
      BY <1>2, <1>5, <3>1 DEF LaterOf
    <3>. QED
      BY <1>2, <3>2 DEF OnPlan, Ahead
  <2>4. CASE ~fails
    <3>1. Planned' = real + Reload /\ last' = now /\ due' = Reload + now
      BY <1>2, <2>1, <2>2, <2>4
    <3>2. /\ due' = Planned' + (now' - real')
          /\ ended' <= real'
          /\ last' <= LaterOf(Planned', ended') + (now' - real')
      BY <1>0, <1>1, <1>2, <3>1 DEF LaterOf
    <3>. QED
      BY <1>2, <3>2 DEF OnPlan, Ahead
  <2>. QED
    BY <2>3, <2>4
<1>. QED
  BY <1>3, <1>4, <1>5, <1>7 DEF TimerInv, TimerType

LEMMA TimerStep == TimerInv /\ [Next]_timerVars => TimerInv'
<1>. SUFFICES ASSUME TimerInv, [Next]_timerVars
              PROVE  TimerInv'
  OBVIOUS
<1>0. /\ now \in Int /\ last \in Int /\ due \in Int /\ looked \in Int
      /\ real \in Int /\ started \in Int /\ ended \in Int
      /\ polling \in BOOLEAN /\ failed \in BOOLEAN /\ steady \in BOOLEAN
      /\ real >= 0
  BY DEF TimerInv, TimerType
<1>1. CASE TooSoon
  BY <1>1, NapStep DEF TooSoon
<1>2. CASE NotDue
  BY <1>2, NapStep DEF NotDue
<1>3. CASE Poll
  <2>1. /\ real' = real + 5 /\ now' = now + 5
        /\ looked' = now' /\ started' = real'
        /\ last' = last /\ due' = due /\ ended' = ended
    BY <1>3 DEF Poll, Nap, Pass, NapTime
  <2>2. polling' = TRUE /\ steady' = TRUE /\ failed' = failed
    BY <1>3 DEF Poll
  <2>3. polling' /\ polling' \in BOOLEAN /\ failed' \in BOOLEAN /\ steady' \in BOOLEAN
    BY <1>0, <2>2
  <2>4. /\ now' \in Int /\ last' \in Int /\ due' \in Int /\ looked' \in Int
        /\ real' \in Int /\ started' \in Int /\ ended' \in Int
        /\ real' >= 0
    BY <1>0, <2>1
  <2>. QED
    BY <2>1, <2>3, <2>4 DEF TimerInv, TimerType
<1>4. ASSUME NEW seconds \in Durations, Succeed(seconds)
      PROVE  TimerInv'
  <2>1. Return(seconds, FALSE, IF FALSE THEN now' ELSE looked,
                               IF FALSE THEN RetryTime ELSE Reload)
    BY <1>4 DEF Succeed
  <2>. QED
    BY <2>1, ReturnStep
<1>5. ASSUME NEW seconds \in Durations, Fail(seconds)
      PROVE  TimerInv'
  <2>1. Return(seconds, TRUE, IF TRUE THEN now' ELSE looked,
                              IF TRUE THEN RetryTime ELSE Reload)
    BY <1>5 DEF Fail
  <2>. QED
    BY <2>1, ReturnStep
<1>6. ASSUME NEW to \in Clocks, SetClock(to)
      PROVE  TimerInv'
  <2>1. now' = to /\ to \in Int
    BY <1>6, TimerConstants DEF SetClock
  <2>2. /\ steady' = FALSE
        /\ UNCHANGED <<last, due, polling, looked, real, started, ended, failed>>
    BY <1>6 DEF SetClock
  <2>3. ~steady' /\ steady' \in BOOLEAN
    BY <2>2
  <2>. QED
    BY <2>1, <2>2, <2>3 DEF TimerInv, TimerType
<1>7. CASE UNCHANGED timerVars
  BY <1>7 DEF timerVars, TimerInv, TimerType, OnPlan, Ahead, Planned
<1>. QED
  BY <1>1, <1>2, <1>3, <1>4, <1>5, <1>6, <1>7 DEF Next, Over

LEMMA TimerInvariant == Spec => []TimerInv
BY InitTimer, TimerStep, PTL DEF Spec

\* Whatever the reload time, however long the requests take and whenever the
\* clock was set before, a poll that is planned is started (main.c:80-103): on
\* a clock left alone since, the plan is never ten seconds and a nap overdue.
THEOREM PollsNeverForgotten == Spec => []NeverForgotten
<1>1. TimerInv => NeverForgotten
  <2>. SUFFICES ASSUME TimerInv, started >= 0, ~polling, steady
                PROVE  real < LaterOf(Planned, ended) + LookTime
    BY DEF NeverForgotten
  <2>1. /\ now \in Int /\ last \in Int /\ real \in Int
        /\ started \in Int /\ ended \in Int
    BY DEF TimerInv, TimerType
  <2>2. Planned \in Int
    <3>1. Reload \in Int
      BY TimerConstants
    <3>. QED
      BY <2>1, <3>1 DEF Planned, RetryTime
  <2>3. /\ last <= LaterOf(Planned, ended) + (now - real)
        /\ now < last + 10 \/ real = ended
    BY DEF TimerInv, OnPlan, Ahead, LookTime
  <2>. QED
    BY <2>1, <2>2, <2>3 DEF LaterOf, LookTime
<1>. QED
  BY TimerInvariant, <1>1, PTL

\* No poll comes before its time: not before the reload time is over, and not
\* within a minute of a failure, unless the clock was set (main.c:86, 89, 93,
\* 96-98).
THEOREM PollsNeverEarly == Spec => NeverEarly
<1>1. TimerInv /\ [Next]_timerVars
        => [~polling /\ polling' /\ started >= 0 /\ steady => real' >= Planned]_timerVars
  <2>. SUFFICES ASSUME TimerInv, [Next]_timerVars,
                       ~polling, polling', started >= 0, steady
                PROVE  real' >= Planned
    OBVIOUS
  <2>1. Poll
    BY DEF Next, TooSoon, NotDue, Succeed, Fail, Return, SetClock, Over, timerVars
  <2>2. due <= now' /\ now' = now + 5 /\ real' = real + 5
    BY <2>1 DEF Poll, Nap, Pass, NapTime
  <2>3. /\ now \in Int /\ due \in Int /\ real \in Int
        /\ started \in Int /\ ended \in Int
    BY DEF TimerInv, TimerType
  <2>4. Planned \in Int
    <3>1. Reload \in Int
      BY TimerConstants
    <3>. QED
      BY <2>3, <3>1 DEF Planned, RetryTime
  <2>5. due = Planned + (now - real)
    BY DEF TimerInv, OnPlan, Ahead
  <2>. QED
    BY <2>2, <2>3, <2>4, <2>5
<1>. QED
  BY TimerInvariant, <1>1, PTL DEF Spec, NeverEarly

=============================================================================
