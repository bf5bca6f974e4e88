--------------------------------- MODULE Timer ---------------------------------
(***************************************************************************)
(* metricq::Timer (src/src/timer.cpp): a callback run by an asio timer,    *)
(* again and again while it returns TimerResult::repeat.                   *)
(*                                                                         *)
(* A wait that expires queues its handler; changing the expiry or          *)
(* cancelling reaches only waits that have not expired.                    *)
(***************************************************************************)
EXTENDS Naturals

CONSTANTS
  Intervals,  \* intervals the timer is started with
  MaxTime,    \* bound on the clock
  MaxQueued   \* bound on the handlers queued at the same time

\* start() rejects 0 (StartRejected); that no interval is negative is up to the caller.
ASSUME TimerAssumption ==
  Intervals \subseteq Nat \ {0} /\ MaxTime \in Nat /\ MaxQueued \in Nat

VARIABLES
  now,       \* system clock
  interval,  \* interval_; 0 until the first start() and when one is rejected
  running,   \* running_
  waits,     \* number of waits of timer_ that have not expired
  expiry,    \* timer_.expires_at()
  queued,    \* number of expired waits whose handler is queued
  started    \* time of the last start() or restart()

vars == <<now, interval, running, waits, expiry, queued, started>>

Init ==
  /\ now = 0 /\ interval = 0 /\ running = FALSE
  /\ waits = 0 /\ expiry = 0 /\ queued = 0 /\ started = 0

-----------------------------------------------------------------------------
\* Mutant of Wait: the waits there are go on.
WaitAgain(e) == expiry' = e /\ waits' = waits + 1

\* expires_after() or expires_at(), which cancel what is waiting, and async_wait()
Wait(e) == expiry' = e /\ waits' = 1

\* start(i), or restart() with the interval in use
StartWith(i) ==
  /\ interval' = i
  /\ running' = TRUE
  /\ Wait(now + i)
  /\ started' = now

CancelWaits ==
  /\ waits' = 0
  /\ running' = FALSE
  /\ UNCHANGED <<interval, expiry, started>>

Start(i) == StartWith(i) /\ UNCHANGED <<now, queued>>

\* An interval below a microsecond: start() throws, with interval_ set to 0 already.
StartRejected ==
  /\ interval' = 0
  /\ UNCHANGED <<now, running, waits, expiry, queued, started>>

Cancel == CancelWaits /\ UNCHANGED <<now, queued>>

Tick ==
  /\ now < MaxTime
  /\ now' = now + 1
  /\ UNCHANGED <<interval, running, waits, expiry, queued, started>>

Expire ==
  /\ waits > 0 /\ expiry <= now /\ queued < MaxQueued
  /\ waits' = waits - 1
  /\ queued' = queued + 1
  /\ UNCHANGED <<now, interval, running, expiry, started>>

\* Mutant of Deadlines: one interval after the last deadline, missed or not.
DeadlinesMissed(e, i) == {e + i}

\* Mutant of Deadlines: the interval counts from the time the callback ran.
DeadlinesDrifting(e, i) == {now + i}

\* The first multiple of i after e that is still to come: the catch-up loop.
\* With i = 0 and e <= now there is none: the loop does not end, and is no step.
Deadlines(e, i) ==
  {d \in {e + k * i : k \in 1..(now + 1)} : d > now /\ (d = e + i \/ d <= now + i)}

\* Mutant of Repeat: running_ is set, but nothing waits.
RepeatNothing ==
  /\ running' = running /\ interval' = interval /\ started' = started
  /\ waits' = waits /\ expiry' = expiry

\* The callback returned repeat, having left the timer alone.
Repeat ==
  /\ \E d \in Deadlines(expiry, interval) : Wait(d)
  /\ UNCHANGED <<interval, running, started>>

\* It cancelled the timer before: the timer waits again, without running_.
CancelAndRepeat ==
  /\ \E d \in Deadlines(expiry, interval) : Wait(d)
  /\ running' = FALSE
  /\ UNCHANGED <<interval, started>>

\* It restarted the timer before: the next deadline is one interval later still.
StartAndRepeat(i) ==
  /\ interval' = i /\ running' = TRUE /\ started' = now
  /\ Wait(now + 2 * i)

\* The callback returned cancel, having left alone, restarted or cancelled the timer.
Finish ==
  /\ running' = FALSE
  /\ UNCHANGED <<interval, waits, expiry, started>>

StartAndFinish(i) ==
  /\ interval' = i /\ running' = FALSE /\ started' = now
  /\ Wait(now + i)

\* timer_callback()
Callback ==
  /\ queued > 0
  /\ queued' = queued - 1
  /\ \/ Repeat
     \/ CancelAndRepeat
     \/ Finish
     \/ CancelWaits
     \/ \E i \in Intervals : StartAndRepeat(i) \/ StartAndFinish(i)
  /\ UNCHANGED now

Next == StartRejected \/ Cancel \/ Tick \/ Expire \/ Callback \/ \E i \in Intervals : Start(i)

Spec == Init /\ [][Next]_vars

-----------------------------------------------------------------------------
\* Types and ranges of the members.
TypeOK ==
  /\ now \in Nat /\ interval \in Nat /\ running \in BOOLEAN
  /\ waits \in {0, 1} /\ expiry \in Nat /\ queued \in Nat /\ started \in Nat

\* A timer that says running() will call its callback: a wait or a handler exists,
\* whatever the callback did to the timer and returned.
RunningFires == running => waits = 1 \/ queued > 0

\* Every new deadline is in the future: after a stall the missed ones are skipped,
\* not made up for in a burst.
FutureDeadline == [][expiry' # expiry => expiry' > now]_vars

\* The deadlines keep their phase: whole intervals from the last start, however
\* late the callbacks ran.
NoDrift == waits = 1 /\ interval # 0 => \E k \in 1..expiry : expiry = started + k * interval

\* "Calling start() for an already running or recently canceled timer will cancel
\* all callbacks on the event loop." (timer.cpp:71): no callback runs earlier than
\* an interval after the last start().
NotEarly == [][queued' < queued => now >= started + interval]_vars

-----------------------------------------------------------------------------
\* The inductive invariant: the phase is kept also while nothing waits, as a queued
\* callback may go on from it.
Inv ==
  /\ TypeOK /\ RunningFires
  /\ interval # 0 => \E k \in 1..expiry : expiry = started + k * interval
=============================================================================
