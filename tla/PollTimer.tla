----------------------------- MODULE PollTimer ------------------------------
(***************************************************************************)
(* When the network thread polls: the timing of networkThread in main.c,   *)
(* in seconds of the wall clock that time(NULL) returns.  The thread naps  *)
(* for five seconds, looks at its plan when the last look is ten seconds   *)
(* old, and polls when g_query_values_time has come.  Somebody may set the *)
(* wall clock at any moment, also during a request.                        *)
(*                                                                         *)
(* Module Vdc leaves out the clock and lets every look be due or not; this *)
(* module is the reason why it may assume that polls come again and again. *)
(***************************************************************************)
EXTENDS Integers

CONSTANTS
  Reload,     \* g_reload_values
  Durations,  \* the seconds a request takes, at most CURLOPT_TIMEOUT
  Clocks,     \* the times somebody sets the wall clock to
  Horizon     \* bound: the seconds of real time that are considered

CurlTimeout == 42
NapTime == 5
LookTime == 10
RetryTime == 60

ASSUME TimerConstants ==
  /\ Reload \in Nat
  /\ Durations \subseteq 0 .. CurlTimeout
  /\ Clocks \subseteq Nat
  /\ Horizon \in Nat

VARIABLES
  now,      \* the wall clock
  last,     \* static time_t last
  due,      \* g_query_values_time
  polling,  \* the thread is in venta_get_data
  looked,   \* the thread's variable now: the wall clock before the request
  real,     \* history: real time
  started,  \* history: real time of the start of the last poll, -1 for none
  ended,    \* history: real time of its end
  failed,   \* history: it failed
  steady    \* history: nobody has set the clock since its start

timerVars == <<now, last, due, polling, looked, real, started, ended, failed, steady>>

\* Real time starts where the wall clock does, somewhere behind 1970.
Init ==
  /\ now = 1000 /\ real = 0
  /\ last = 0 /\ due = 0
  /\ polling = FALSE /\ looked = 0
  /\ started = -1 /\ ended = -1 /\ failed = FALSE
  /\ steady = TRUE

Pass(seconds) ==
  /\ real + seconds <= Horizon
  /\ real' = real + seconds
  /\ now' = now + seconds

Nap == ~polling /\ Pass(NapTime)

\* A loop that notes the time of every look, not of the looks that count.
TooSoonNoted ==
  /\ Nap
  /\ now' < last + LookTime
  /\ last' = now'
  /\ UNCHANGED <<due, polling, looked, started, ended, failed, steady>>

\* The last look is less than ten seconds ago.
TooSoon ==
  /\ Nap
  /\ now' < last + LookTime
  /\ UNCHANGED <<last, due, polling, looked, started, ended, failed, steady>>

\* A look, but the values are not due yet.
NotDue ==
  /\ Nap
  /\ now' >= last + LookTime
  /\ now' < due
  /\ last' = now'
  /\ UNCHANGED <<due, polling, looked, started, ended, failed, steady>>

\* A look, and the values are due.
Poll ==
  /\ Nap
  /\ now' >= last + LookTime
  /\ now' >= due
  /\ polling' = TRUE
  /\ looked' = now'
  /\ started' = real'
  /\ steady' = TRUE
  /\ UNCHANGED <<last, due, ended, failed>>

\* The request is over; what is left of the pass of the loop.
Return(seconds, fails, seen, wait) ==
  /\ polling
  /\ Pass(seconds)
  /\ polling' = FALSE
  /\ last' = seen
  /\ due' = wait + seen
  /\ failed' = fails
  /\ ended' = real'
  /\ UNCHANGED <<looked, started, steady>>

\* It has succeeded: the next is counted from its start.
Succeed(seconds) == Return(seconds, FALSE, looked, Reload)

\* A retry that is counted from the start of the request, too.
RetryFromStart(seconds) == Return(seconds, TRUE, looked, RetryTime)

\* It has failed: the clock is read again and the retry counted from its end.
Fail(seconds) == Return(seconds, TRUE, now', RetryTime)

\* Somebody, or NTP, sets the clock.
SetClock(to) ==
  /\ now' = to
  /\ steady' = FALSE
  /\ UNCHANGED <<last, due, polling, looked, real, started, ended, failed>>

\* The bound is reached.
Over ==
  /\ real + NapTime > Horizon \/ polling
  /\ UNCHANGED timerVars

Next ==
  \/ TooSoon \/ NotDue \/ Poll
  \/ \E seconds \in Durations : Succeed(seconds) \/ Fail(seconds)
  \/ \E to \in Clocks : SetClock(to)
  \/ Over

Spec == Init /\ [][Next]_timerVars

-----------------------------------------------------------------------------
(* Properties.                                                             *)

LaterOf(a, b) == IF a >= b THEN a ELSE b

\* The time the next poll is planned for.
Planned == IF failed THEN ended + RetryTime ELSE started + Reload

\* On a clock that is left alone two polls are never closer than the reload
\* time, and a failed one is not repeated within a minute (main.c:89, 93,
\* 96-98).  A clock that was set matters for one poll, the next one: that one
\* brings the plan back in line.
NeverEarly ==
  [][~polling /\ polling' /\ started >= 0 /\ steady => real' >= Planned]_timerVars

\* The two limits, a nap of five seconds and a look every ten, never add up to
\* a poll forgotten: unless the clock was set, the thread is at most one nap
\* away from a poll ten seconds after it was planned for, or after the one
\* before has ended if that was later (main.c:80-83, 86, 103).
NeverForgotten ==
  started >= 0 /\ ~polling /\ steady => real < LaterOf(Planned, ended) + LookTime

=============================================================================
