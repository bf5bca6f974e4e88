------------------------------ MODULE TimerProofs ------------------------------
(***************************************************************************)
(* Proofs about Timer.tla, for every set of intervals and every bound.     *)
(***************************************************************************)
EXTENDS Timer, Integers, TLAPS

\* Multiplication, as far as deadlines need it.
LEMMA Multiple ==
  ASSUME NEW i \in Nat \ {0}, NEW k \in Nat
  PROVE  k * i \in Nat /\ k <= k * i
  OBVIOUS

LEMMA Distributes ==
  ASSUME NEW i \in Nat, NEW j \in Nat, NEW k \in Nat
  PROVE  (j + k) * i = j * i + k * i
  OBVIOUS

Phase(e, s, i) == \E k \in 1..e : e = s + k * i

\* One interval after the start is in phase, and so is the next one.
LEMMA FirstDeadline ==
  ASSUME NEW s \in Nat, NEW i \in Nat \ {0}, NEW m \in Nat \ {0}
  PROVE  s + m * i \in Nat /\ s + m * i > s /\ Phase(s + m * i, s, i)
<1>1. m * i \in Nat /\ m <= m * i  BY Multiple
<1>2. m \in 1..(s + m * i)  BY <1>1
<1>3. QED  BY <1>1, <1>2 DEF Phase

\* A deadline the catch-up loop finds is in phase, and in the future.
LEMMA NextDeadline ==
  ASSUME NEW s \in Nat, NEW i \in Nat \ {0}, NEW e \in Nat, Phase(e, s, i),
         now \in Nat, NEW d \in Deadlines(e, i)
  PROVE  d \in Nat /\ d > now /\ Phase(d, s, i)
<1>1. PICK k \in 1..(now + 1) : d = e + k * i  BY DEF Deadlines
<1>2. PICK j \in 1..e : e = s + j * i  BY DEF Phase
<1>3. j \in Nat /\ k \in Nat /\ j + k \in Nat \ {0}  BY <1>1, <1>2
<1>4. (j + k) * i = j * i + k * i  BY <1>3, Distributes
<1>5. k * i \in Nat /\ j * i \in Nat /\ (j + k) * i \in Nat  BY <1>3, Multiple
<1>6. d = s + (j + k) * i  BY <1>1, <1>2, <1>4, <1>5
<1>7. Phase(d, s, i) /\ d \in Nat  BY <1>3, <1>6, FirstDeadline
<1>8. d > now  BY DEF Deadlines
<1>9. QED  BY <1>7, <1>8

\* The expiry is in phase with the start, in the notation of Phase.
LEMMA InvPhase ==
  ASSUME Inv
  PROVE  interval # 0 => Phase(expiry, started, interval)
  BY DEF Inv, Phase

\* What is left to show of Inv when the types are clear.
LEMMA Conclude ==
  ASSUME TypeOK', RunningFires', interval' # 0, Phase(expiry', started', interval')
  PROVE  Inv'
  BY DEF Inv, Phase

\* Nothing of the phase changes.
LEMMA SamePhase ==
  ASSUME Inv, TypeOK', RunningFires', UNCHANGED <<interval, expiry, started>>
  PROVE  Inv'
<1>1. CASE interval = 0  BY <1>1 DEF Inv
<1>2. CASE interval # 0
  <2>1. Phase(expiry, started, interval)  BY <1>2, InvPhase
  <2>2. QED  BY <1>2, <2>1, Conclude
<1>3. QED  BY <1>1, <1>2

\* A wait until m intervals after now, counted from now.
LEMMA FromNow ==
  ASSUME now \in Nat, now' = now, NEW i \in Nat \ {0}, NEW m \in Nat \ {0},
         interval' = i, started' = now, expiry' = now + m * i, waits' = 1,
         running' \in BOOLEAN, queued' \in Nat
  PROVE  Inv' /\ expiry' > now
<1>1. now + m * i \in Nat /\ now + m * i > now /\ Phase(now + m * i, now, i)
  BY FirstDeadline
<1>2. TypeOK'  BY <1>1 DEF TypeOK
<1>3. RunningFires'  BY DEF RunningFires
<1>4. Phase(expiry', started', interval')  BY <1>1
<1>5. QED  BY <1>1, <1>2, <1>3, <1>4, Conclude

LEMMA InvStart ==
  ASSUME Inv, NEW i \in Intervals, Start(i)
  PROVE  Inv' /\ expiry' > now
<1>1. i \in Nat \ {0} /\ 1 * i = i  BY TimerAssumption
<1>2. now \in Nat /\ queued \in Nat  BY DEF Inv, TypeOK
<1>3. interval' = i /\ started' = now /\ expiry' = now + 1 * i /\ waits' = 1
  BY <1>1 DEF Start, StartWith, Wait
<1>4. running' \in BOOLEAN /\ queued' \in Nat /\ now' = now
  BY <1>2 DEF Start, StartWith
<1>5. QED  BY <1>1, <1>2, <1>3, <1>4, FromNow

LEMMA InvStartRejected == Inv /\ StartRejected => Inv'
  BY DEF Inv, TypeOK, RunningFires, StartRejected

LEMMA InvCancel == Inv /\ Cancel => Inv'
<1>1. SUFFICES ASSUME Inv, Cancel PROVE Inv'  OBVIOUS
<1>2. TypeOK' /\ RunningFires'
  BY <1>1 DEF Inv, TypeOK, RunningFires, Cancel, CancelWaits
<1>3. QED  BY <1>1, <1>2, SamePhase DEF Cancel, CancelWaits

LEMMA InvTick == Inv /\ Tick => Inv'
<1>1. SUFFICES ASSUME Inv, Tick PROVE Inv'  OBVIOUS
<1>2. TypeOK' /\ RunningFires'  BY <1>1 DEF Inv, TypeOK, RunningFires, Tick
<1>3. QED  BY <1>1, <1>2, SamePhase DEF Tick

\* The wait that made running true is over, its handler takes its place.
LEMMA InvExpire == Inv /\ Expire => Inv'
<1>1. SUFFICES ASSUME Inv, Expire PROVE Inv'  OBVIOUS
<1>2. TypeOK' /\ RunningFires'  BY <1>1 DEF Inv, TypeOK, RunningFires, Expire
<1>3. QED  BY <1>1, <1>2, SamePhase DEF Expire

\* The catch-up loop, whatever happens to running.
LEMMA InvCatchUp ==
  ASSUME Inv, NEW d \in Deadlines(expiry, interval), Wait(d), running' \in BOOLEAN,
         queued' \in Nat, UNCHANGED <<now, interval, started>>
  PROVE  Inv' /\ expiry' > now
<1>1. now \in Nat /\ interval \in Nat /\ expiry \in Nat /\ started \in Nat
  BY DEF Inv, TypeOK
<1>2. expiry' = d /\ waits' = 1 /\ d > now  BY DEF Wait, Deadlines
<1>3. RunningFires'  BY <1>2 DEF RunningFires
<1>4. CASE interval = 0
  <2>1. PICK k \in 1..(now + 1) : d = expiry + k * interval  BY DEF Deadlines
  <2>2. k * interval = 0  BY <1>1, <1>4, <2>1
  <2>3. d \in Nat  BY <1>1, <2>1, <2>2
  <2>4. TypeOK'  BY <1>1, <1>2, <2>3 DEF TypeOK
  <2>5. QED  BY <1>2, <1>3, <1>4, <2>4 DEF Inv
<1>5. CASE interval # 0
  <2>1. Phase(expiry, started, interval)  BY <1>5, InvPhase
  <2>2. d \in Nat /\ Phase(d, started, interval)  BY <1>1, <1>5, <2>1, NextDeadline
  <2>3. TypeOK'  BY <1>1, <1>2, <2>2 DEF TypeOK
  <2>4. QED  BY <1>2, <1>3, <1>5, <2>2, <2>3, Conclude
<1>6. QED  BY <1>4, <1>5

\* Each way the callback can end.
LEMMA InvCallback == Inv /\ Callback => Inv' /\ (expiry' # expiry => expiry' > now)
<1>1. SUFFICES ASSUME Inv, Callback
      PROVE  Inv' /\ (expiry' # expiry => expiry' > now)
  OBVIOUS
<1>2. queued \in Nat /\ queued > 0 /\ queued' = queued - 1 /\ now' = now /\ now \in Nat
  BY <1>1 DEF Inv, TypeOK, Callback
<1>3. queued' \in Nat  BY <1>2
<1>4. CASE Repeat
  <2>1. PICK d \in Deadlines(expiry, interval) : Wait(d)  BY <1>4 DEF Repeat
  <2>2. running' \in BOOLEAN  BY <1>1, <1>4 DEF Repeat, Inv, TypeOK
  <2>3. UNCHANGED <<now, interval, started>>  BY <1>2, <1>4 DEF Repeat
  <2>4. QED  BY <1>1, <1>3, <2>1, <2>2, <2>3, InvCatchUp
<1>5. CASE CancelAndRepeat
  <2>1. PICK d \in Deadlines(expiry, interval) : Wait(d)
    BY <1>5 DEF CancelAndRepeat
  <2>2. running' \in BOOLEAN  BY <1>5 DEF CancelAndRepeat
  <2>3. UNCHANGED <<now, interval, started>>  BY <1>2, <1>5 DEF CancelAndRepeat
  <2>4. QED  BY <1>1, <1>3, <2>1, <2>2, <2>3, InvCatchUp
<1>6. CASE Finish \/ CancelWaits
  <2>1. UNCHANGED <<interval, expiry, started>> /\ running' = FALSE /\ waits' \in {0, 1}
    <3>1. waits \in {0, 1}  BY <1>1 DEF Inv, TypeOK
    <3>2. QED  BY <1>6, <3>1 DEF Finish, CancelWaits
  <2>2. TypeOK'  BY <1>1, <1>2, <1>3, <2>1 DEF Inv, TypeOK
  <2>3. RunningFires'  BY <2>1 DEF RunningFires
  <2>4. QED  BY <1>1, <2>1, <2>2, <2>3, SamePhase
<1>7. ASSUME NEW i \in Intervals, StartAndRepeat(i)
      PROVE  Inv' /\ expiry' > now
  <2>1. i \in Nat \ {0}  BY TimerAssumption
  <2>2. /\ interval' = i /\ started' = now /\ expiry' = now + 2 * i
        /\ waits' = 1 /\ running' \in BOOLEAN
    BY <1>7 DEF StartAndRepeat, Wait
  <2>3. 2 \in Nat \ {0}  OBVIOUS
  <2>4. QED  BY <1>2, <1>3, <2>1, <2>2, <2>3, FromNow, Zenon
<1>8. ASSUME NEW i \in Intervals, StartAndFinish(i)
      PROVE  Inv' /\ expiry' > now
  <2>1. i \in Nat \ {0} /\ 1 * i = i  BY TimerAssumption
  <2>2. /\ interval' = i /\ started' = now /\ expiry' = now + 1 * i
        /\ waits' = 1 /\ running' \in BOOLEAN
    BY <1>8, <2>1 DEF StartAndFinish, Wait
  <2>3. QED  BY <1>2, <1>3, <2>1, <2>2, FromNow
<1>9. Finish \/ CancelWaits => expiry' = expiry  BY DEF Finish, CancelWaits
<1>10. QED  BY <1>1, <1>4, <1>5, <1>6, <1>7, <1>8, <1>9 DEF Callback

-----------------------------------------------------------------------------
LEMMA InvInit == Init => Inv
<1>1. SUFFICES ASSUME Init PROVE Inv  OBVIOUS
<1>2. running \in BOOLEAN /\ RunningFires  BY <1>1, Zenon DEF Init, RunningFires
<1>3. /\ now \in Nat /\ interval \in Nat /\ waits \in {0, 1}
      /\ expiry \in Nat /\ queued \in Nat /\ started \in Nat
  BY <1>1 DEF Init
<1>4. interval = 0  BY <1>1 DEF Init
<1>5. QED  BY <1>2, <1>3, <1>4, Zenon DEF Inv, TypeOK

LEMMA InvStep == Inv /\ [Next]_vars => Inv' /\ (expiry' # expiry => expiry' > now)
<1>1. SUFFICES ASSUME Inv, [Next]_vars
      PROVE  Inv' /\ (expiry' # expiry => expiry' > now)
  OBVIOUS
<1>2. CASE StartRejected  BY <1>1, <1>2, InvStartRejected DEF StartRejected
<1>3. CASE Cancel  BY <1>1, <1>3, InvCancel DEF Cancel, CancelWaits
<1>4. CASE Tick  BY <1>1, <1>4, InvTick DEF Tick
<1>5. CASE Expire  BY <1>1, <1>5, InvExpire DEF Expire
<1>6. CASE Callback  BY <1>1, <1>6, InvCallback
<1>7. CASE \E i \in Intervals : Start(i)  BY <1>1, <1>7, InvStart
<1>8. CASE UNCHANGED vars
  <2>1. TypeOK' /\ RunningFires'  BY <1>1, <1>8 DEF Inv, TypeOK, RunningFires, vars
  <2>2. QED  BY <1>1, <1>8, <2>1, SamePhase DEF vars
<1>9. QED
  BY <1>1, <1>2, <1>3, <1>4, <1>5, <1>6, <1>7, <1>8 DEF Next

\* The inductive invariant holds of every behaviour.
THEOREM TimerInvariance == Spec => []Inv
  BY InvInit, InvStep, PTL DEF Spec

\* The members keep their types and ranges; in particular at most one wait is armed.
THEOREM TimerTypeCorrect == Spec => []TypeOK
<1>1. Inv => TypeOK  BY DEF Inv
<1>2. QED  BY <1>1, TimerInvariance, PTL

\* A timer that says running() has a wait or a queued handler.
THEOREM TimerRunningFires == Spec => []RunningFires
<1>1. Inv => RunningFires  BY DEF Inv
<1>2. QED  BY <1>1, TimerInvariance, PTL

\* The deadlines are whole intervals from the last start.
THEOREM TimerNoDrift == Spec => []NoDrift
<1>1. Inv => NoDrift  BY DEF Inv, NoDrift
<1>2. QED  BY <1>1, TimerInvariance, PTL

\* No deadline is set in the past, however many were missed.
THEOREM DeadlinesInFuture == Spec => FutureDeadline
<1>1. Inv /\ [Next]_vars => [expiry' # expiry => expiry' > now]_vars
  BY InvStep
<1>2. QED  BY <1>1, TimerInvariance, PTL DEF Spec, FutureDeadline
=============================================================================
