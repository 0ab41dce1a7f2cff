-------------------------- MODULE StunTimerProofs --------------------------
(***************************************************************************)
(* Proofs about the STUN retransmission timer, for every set of initial    *)
(* timeouts, every number of retransmissions and every way the clock       *)
(* advances: the timeval arithmetic is exact, the deadlines follow the     *)
(* doubling schedule, and a timeout is reported only when it is due.       *)
(***************************************************************************)
EXTENDS StunTimer, Recursion

\* The delay has been doubled at every retransmission, of which there are never
\* more than max_retransmissions, and exactly as many at a timeout.
DelayDoubled ==
    /\ status # "idle" =>
          /\ timer.delay = initial * PowerOf2[timer.retransmissions]
          /\ timer.retransmissions <= timer.max_retransmissions
    /\ status = "timeout" => timer.retransmissions = timer.max_retransmissions

\* The conjunction that is inductive: types, the schedule of the deadline, the
\* fact that a timeout was due when it was reported, and the doubling.
IInv == TypeOK /\ DeadlineSchedule /\ TimeoutIsDue /\ DelayDoubled

-----------------------------------------------------------------------------
\* A clock reading split into seconds and microseconds loses nothing.
LEMMA GettimeExact ==
  ASSUME NEW t \in Nat
  PROVE  /\ stun_gettime(t) \in Timeval
         /\ stun_gettime(t).sec \in Nat
         /\ stun_gettime(t).usec \in Nat /\ stun_gettime(t).usec < 1000000
         /\ Micros(stun_gettime(t)) = t
BY SMT DEF stun_gettime, Timeval, Micros

\* add_delay adds exactly delay milliseconds and keeps tv_usec <= 1000000:
\* one turn of its carry loop is enough.
LEMMA AddDelayExact ==
  ASSUME NEW tv \in Timeval, NEW delay \in Nat
  PROVE  /\ add_delay(tv, delay) \in Timeval
         /\ Micros(add_delay(tv, delay)) = Micros(tv) + 1000 * delay
<1> DEFINE s == tv.sec + (delay \div 1000)
           u == tv.usec + (delay % 1000) * 1000
<1>1. /\ tv.sec \in Nat /\ tv.usec \in Nat /\ tv.usec <= 1000000
      /\ delay \div 1000 \in Nat /\ delay % 1000 \in Nat /\ delay % 1000 <= 999
      /\ delay = 1000 * (delay \div 1000) + (delay % 1000)
  BY SMT DEF Timeval
<1>2. s \in Nat /\ u \in Nat /\ u <= 1999000
  BY <1>1, SMT
<1>3. s * 1000000 + u = Micros(tv) + 1000 * delay
  <2> DEFINE a == delay \div 1000
             b == delay % 1000
  <2>1. a \in Nat /\ b \in Nat /\ delay = 1000 * a + b
    BY <1>1, SMT
  <2>2. s = tv.sec + a /\ u = tv.usec + b * 1000
    BY SMT
  <2> HIDE DEF a, b, s, u
  <2> QED
    BY <1>1, <2>1, <2>2, SMT DEF Micros
<1>4. add_delay(tv, delay) = IF u > 1000000
                             THEN [sec |-> s + 1, usec |-> u - 1000000]
                             ELSE [sec |-> s, usec |-> u]
  BY SMT DEF add_delay
<1> HIDE DEF s, u
<1>5. CASE u > 1000000
  <2>1. add_delay(tv, delay) = [sec |-> s + 1, usec |-> u - 1000000]
    BY <1>4, <1>5, SMT
  <2>2. s + 1 \in Nat /\ u - 1000000 \in Nat /\ u - 1000000 <= 1000000
    BY <1>2, <1>5, SMT
  <2>3. (s + 1) * 1000000 + (u - 1000000) = s * 1000000 + u
    BY <1>2, SMT
  <2> QED
    BY <1>3, <2>1, <2>2, <2>3, SMT DEF Micros, Timeval
<1>6. CASE ~(u > 1000000)
  <2>1. add_delay(tv, delay) = [sec |-> s, usec |-> u]
    BY <1>4, <1>6, SMT
  <2>2. u <= 1000000
    BY <1>2, <1>6, SMT
  <2> QED
    BY <1>2, <1>3, <2>1, <2>2, SMT DEF Micros, Timeval
<1> QED
  BY <1>5, <1>6, SMT

\* The remainder is a natural number, 0 once the deadline has passed, and
\* within a millisecond of the time left before that.
LEMMA RemainderExact ==
  ASSUME NEW tv \in Timeval, NEW t \in Nat
  PROVE  LET left == Micros(tv) - t
             r    == stun_timer_remainder(tv, t)
         IN  /\ r \in Nat
             /\ left <= 0 => r = 0
             /\ left > 0 => (1000 * r - left < 1000 /\ left - 1000 * r < 1000)
<1> DEFINE n == stun_gettime(t)
           d == tv.sec - n.sec
           e == tv.usec - n.usec
           r == stun_timer_remainder(tv, t)
<1>1. /\ n.sec \in Nat /\ n.usec \in Nat /\ n.usec < 1000000
      /\ n.sec * 1000000 + n.usec = t
  BY GettimeExact, SMT DEF Micros
<1>2. tv.sec \in Nat /\ tv.usec \in Nat /\ tv.usec <= 1000000
  BY SMT DEF Timeval
<1>3. r = IF n.sec > tv.sec \/ (d = 0 /\ n.usec >= tv.usec)
          THEN 0 ELSE d * 1000 + TruncMillis(e)
  BY SMT DEF stun_timer_remainder
<1>4. Micros(tv) - t = d * 1000000 + e
  BY <1>1, <1>2, SMT DEF Micros
<1>5. e \in Int /\ -999999 <= e /\ e <= 1000000 /\ d \in Int
  BY <1>1, <1>2, SMT
<1>6. /\ TruncMillis(e) \in Int /\ -999 <= TruncMillis(e) /\ TruncMillis(e) <= 1000
      /\ e >= 0 => (TruncMillis(e) >= 0 /\ 1000 * TruncMillis(e) <= e
                    /\ e < 1000 * TruncMillis(e) + 1000)
      /\ e < 0 => (TruncMillis(e) <= 0 /\ 1000 * TruncMillis(e) >= e
                   /\ e > 1000 * TruncMillis(e) - 1000)
  BY <1>5, SMT DEF TruncMillis
<1>7. (n.sec > tv.sec) <=> d < 0
  BY <1>1, <1>2, SMT
<1>8. (n.usec >= tv.usec) <=> e <= 0
  BY <1>1, <1>2, SMT
<1> HIDE DEF n, d, e, r
<1> DEFINE q == TruncMillis(e)
<1>9. q = TruncMillis(e)
  BY SMT
<1> HIDE DEF q
<1>10. CASE d < 0
  BY <1>3, <1>4, <1>5, <1>7, <1>10, SMT DEF r
<1>11. CASE d = 0
  BY <1>3, <1>4, <1>5, <1>6, <1>7, <1>8, <1>9, <1>11, SMT DEF r
<1>12. CASE d > 0
  BY <1>3, <1>4, <1>5, <1>6, <1>7, <1>9, <1>12, SMT DEF r
<1> QED
  BY <1>5, <1>10, <1>11, <1>12, SMT

\* PowerOf2 is the function its recursion says it is.
LEMMA PowerOf2Doubles ==
  /\ PowerOf2 \in [Nat -> Nat]
  /\ PowerOf2[0] = 1
  /\ \A k \in Nat : PowerOf2[k + 1] = 2 * PowerOf2[k]
<1> DEFINE G == [k \in Nat |-> [x \in Nat |-> 2 * x]]
<1>1. IsNatStep(G, Nat)
  BY DEF IsNatStep
<1>2. PICK g : NatIterates(g, Nat, 1, G)
  <2> HIDE DEF G
  <2> QED
    BY <1>1, NatRecursionExists
<1>3. g \in [Nat -> Nat] /\ g[0] = 1
  BY <1>2 DEF NatIterates
<1>4. ASSUME NEW k \in Nat \ {0} PROVE g[k] = 2 * g[k - 1]
  <2>1. k \in Nat /\ k - 1 \in Nat /\ g[k - 1] \in Nat
    BY <1>3
  <2>2. g[k] = G[k][g[k - 1]]
    BY <1>2 DEF NatIterates
  <2> QED
    BY <2>1, <2>2
<1>5. g = [k \in Nat |-> IF k = 0 THEN 1 ELSE 2 * g[k - 1]]
  BY <1>3, <1>4
<1>6. PowerOf2 = [k \in Nat |-> IF k = 0 THEN 1 ELSE 2 * PowerOf2[k - 1]]
  BY <1>5 DEF PowerOf2
<1>7. PowerOf2[0] = 1 /\ \A k \in Nat : PowerOf2[k + 1] = 2 * PowerOf2[k]
  <2>1. \A k \in Nat : k + 1 # 0 /\ k + 1 - 1 = k /\ k + 1 \in Nat
    OBVIOUS
  <2> QED
    BY <1>6, <2>1
<1>8. \A k \in Nat : k \in {n \in Nat : PowerOf2[n] \in Nat}
  <2> DEFINE T == {n \in Nat : PowerOf2[n] \in Nat}
  <2>1. 0 \in T /\ \A k \in Nat : k \in T => k + 1 \in T
    BY <1>7
  <2> HIDE DEF T
  <2> QED
    BY <2>1, NatSetInduction DEF T
<1> QED
  BY <1>6, <1>7, <1>8

-----------------------------------------------------------------------------
\* The initial state satisfies the inductive invariant.
LEMMA InitIInv == Init => IInv
BY SMT DEF Init, IInv, TypeOK, DeadlineSchedule, TimeoutIsDue, Timeval, DelayDoubled

\* Every step of a timer, its user and the clock preserves it.
LEMMA NextIInv == IInv /\ [Next]_vars => IInv'
<1> SUFFICES ASSUME IInv, [Next]_vars PROVE IInv'
  BY SMT
<1> USE DEF IInv
<1>1. /\ now \in Nat /\ start \in Nat /\ initial \in Nat
      /\ timer.deadline \in Timeval /\ timer.delay \in Nat
      /\ timer.retransmissions \in Nat /\ timer.max_retransmissions \in Nat
  BY SMT DEF TypeOK
<1>2. ASSUME NEW i \in InitialTimeouts, NEW m \in {0, MaxRetransmissions},
             stun_timer_start(i, m)
      PROVE  IInv'
  <2>1. i \in Nat /\ m \in Nat
    BY InitialTimeoutsAssumption, MaxRetransmissionsAssumption, SMT
  <2>2. /\ stun_gettime(now) \in Timeval
        /\ Micros(stun_gettime(now)) = now
    BY <1>1, GettimeExact, SMT
  <2> DEFINE dl == add_delay(stun_gettime(now), i)
  <2>3. dl \in Timeval /\ Micros(dl) = now + 1000 * i
    BY <2>1, <2>2, AddDelayExact, SMT
  <2>4. /\ timer' = [deadline |-> dl, delay |-> i, retransmissions |-> 0,
                     max_retransmissions |-> m]
        /\ status' = "running" /\ ret' = "none"
        /\ start' = now /\ initial' = i /\ now' = now
    BY <1>2, SMT DEF stun_timer_start
  <2> HIDE DEF dl
  <2>5. TypeOK'
    BY <1>1, <2>1, <2>3, <2>4, SMT DEF TypeOK
  <2>6. DeadlineSchedule'
    <3>1. timer'.deadline = dl /\ timer'.delay = i
      BY <2>4, SMT
    <3>2. Micros(dl) = now + 1000 * (2 * i - i)
      BY <1>1, <2>1, <2>3, SMT
    <3> QED
      BY <2>4, <3>1, <3>2, SMT DEF DeadlineSchedule, Micros
  <2>7. TimeoutIsDue'
    BY <2>4, SMT DEF TimeoutIsDue
  <2>8. DelayDoubled'
    <3>1. timer'.delay = i /\ timer'.retransmissions = 0 /\ timer'.max_retransmissions = m
      BY <2>4, SMT
    <3>2. i = i * PowerOf2[0]
      BY <2>1, PowerOf2Doubles, SMT
    <3> QED
      BY <2>1, <2>4, <3>1, <3>2, SMT DEF DelayDoubled
  <2> QED
    BY <2>5, <2>6, <2>7, <2>8, SMT
<1>3. CASE RefreshTimeout
  <2>1. /\ stun_timer_remainder(timer.deadline, now) = 0
        /\ status = "running" /\ status' = "timeout" /\ ret' = "TIMEOUT"
        /\ UNCHANGED <<now, timer, start, initial>>
    BY <1>3, SMT DEF RefreshTimeout
  <2>2. now + 1000 > Micros(timer.deadline)
    <3>1. Micros(timer.deadline) \in Int
      BY <1>1, SMT DEF Micros, Timeval
    <3>2. Micros(timer.deadline) - now > 0 => Micros(timer.deadline) - now < 1000
      BY <1>1, <2>1, <3>1, RemainderExact, SMT
    <3> QED
      BY <1>1, <3>1, <3>2, SMT
  <2>3. TypeOK'
    BY <2>1, SMT DEF TypeOK
  <2>4. DeadlineSchedule'
    BY <2>1, SMT DEF DeadlineSchedule, Micros
  <2>5. TimeoutIsDue'
    BY <2>1, <2>2, SMT DEF TimeoutIsDue, Micros
  <2>6. DelayDoubled'
    <3>1. timer.retransmissions >= timer.max_retransmissions
      BY <1>3, SMT DEF RefreshTimeout
    <3> QED
      BY <1>1, <2>1, <3>1, SMT DEF DelayDoubled
  <2> QED
    BY <2>3, <2>4, <2>5, <2>6, SMT
<1>4. CASE RefreshRetransmit
  <2> DEFINE dl == add_delay(timer.deadline, timer.delay * 2)
  <2>1. timer.delay * 2 \in Nat
    BY <1>1, SMT
  <2>2. dl \in Timeval /\ Micros(dl) = Micros(timer.deadline) + 1000 * (timer.delay * 2)
    <3>1. timer.deadline \in Timeval
      BY <1>1
    <3> DEFINE n == timer.delay * 2
    <3>2. n \in Nat
      BY <2>1
    <3> HIDE DEF n
    <3>3. /\ add_delay(timer.deadline, n) \in Timeval
          /\ Micros(add_delay(timer.deadline, n)) = Micros(timer.deadline) + 1000 * n
      BY <3>1, <3>2, AddDelayExact
    <3> QED
      BY <3>3 DEF n
  <2>3. /\ timer' = [timer EXCEPT !.deadline = dl, !.delay = timer.delay * 2,
                                  !.retransmissions = timer.retransmissions + 1]
        /\ status = "running" /\ status' = status /\ ret' = "RETRANSMIT"
        /\ UNCHANGED <<now, start, initial>>
    BY <1>4, SMT DEF RefreshRetransmit
  <2> HIDE DEF dl
  <2>4. TypeOK'
    <3>1. timer' \in [deadline : Timeval, delay : Nat,
                      retransmissions : Nat, max_retransmissions : Nat]
      <4>1. timer.retransmissions + 1 \in Nat
        BY <1>1, SMT
      <4>2. timer \in [deadline : Timeval, delay : Nat,
                       retransmissions : Nat, max_retransmissions : Nat]
        BY SMT DEF TypeOK
      <4> HIDE DEF IInv
      <4> QED
        BY <2>1, <2>2, <2>3, <4>1, <4>2, Zenon
    <3> QED
      BY <1>1, <2>3, <3>1, SMT DEF TypeOK
  <2>5. DeadlineSchedule'
    <3>1. timer'.deadline = dl /\ timer'.delay = timer.delay * 2
      BY <2>3, SMT DEF TypeOK
    <3>2. Micros(timer.deadline) = start + 1000 * (2 * timer.delay - initial)
      BY <2>3, SMT DEF DeadlineSchedule
    <3>3. Micros(dl) = start + 1000 * (2 * (timer.delay * 2) - initial)
      BY <1>1, <2>2, <3>2, SMT
    <3> QED
      BY <2>3, <3>1, <3>3, SMT DEF DeadlineSchedule, Micros
  <2>6. TimeoutIsDue'
    BY <2>3, SMT DEF TimeoutIsDue
  <2>7. DelayDoubled'
    <3> DEFINE k == timer.retransmissions
               p == PowerOf2[k]
    <3>1. k \in Nat /\ k < timer.max_retransmissions
      BY <1>1, <1>4, SMT DEF RefreshRetransmit
    <3>2. /\ timer'.delay = timer.delay * 2 /\ timer'.retransmissions = k + 1
          /\ timer'.max_retransmissions = timer.max_retransmissions
      BY <2>3, SMT DEF TypeOK
    <3>3. p \in Nat /\ PowerOf2[k + 1] = 2 * p
      BY <3>1, PowerOf2Doubles, SMT
    <3>4. timer.delay = initial * p
      BY <2>3, SMT DEF DelayDoubled
    <3> HIDE DEF p, k
    <3>5. timer.delay * 2 = initial * (2 * p)
      BY <1>1, <3>3, <3>4, SMT
    <3> QED
      BY <1>1, <2>3, <3>1, <3>2, <3>3, <3>5, SMT DEF DelayDoubled
  <2> QED
    BY <2>4, <2>5, <2>6, <2>7, SMT
<1>5. CASE RefreshSuccess
  BY <1>5, SMT DEF RefreshSuccess, TypeOK, DeadlineSchedule, TimeoutIsDue, Micros, DelayDoubled
<1>6. ASSUME NEW d \in ClockSteps, Clock(d) PROVE IInv'
  <2>1. /\ d \in Nat /\ now' = now + d
        /\ UNCHANGED <<timer, status, ret, start, initial>>
    BY <1>6, ClockStepsAssumption, SMT DEF Clock
  <2>2. TypeOK'
    BY <1>1, <2>1, SMT DEF TypeOK
  <2>3. DeadlineSchedule'
    BY <2>1, SMT DEF DeadlineSchedule, Micros
  <2>4. TimeoutIsDue'
    <3>1. Micros(timer.deadline)' = Micros(timer.deadline)
      BY <2>1, SMT DEF Micros
    <3>2. Micros(timer.deadline) \in Int
      BY <1>1, SMT DEF Micros, Timeval
    <3> QED
      BY <1>1, <2>1, <3>1, <3>2, SMT DEF TimeoutIsDue
  <2>5. DelayDoubled'
    BY <2>1, SMT DEF DelayDoubled
  <2> QED
    BY <2>2, <2>3, <2>4, <2>5, SMT
<1>7. CASE UNCHANGED vars
  BY <1>7, SMT DEF vars, TypeOK, DeadlineSchedule, TimeoutIsDue, Micros, DelayDoubled
<1> QED
  BY <1>2, <1>3, <1>4, <1>5, <1>6, <1>7, SMT
     DEF Next, StartTimer, stun_timer_refresh, stun_timer_start_reliable

\* The inductive invariant holds throughout.
THEOREM IInvHolds == Spec => []IInv
BY InitIInv, NextIInv, PTL DEF Spec

\* Type correctness: in particular tv_usec never exceeds 1000000, so the one
\* turn of add_delay's carry loop that the model takes is all the code takes.
THEOREM TypeCorrect == Spec => []TypeOK
BY IInvHolds, PTL DEF IInv

\* The deadline is always the start plus (2 * delay - initial) milliseconds,
\* however late stun_timer_refresh was called.
THEOREM DeadlineScheduleHolds == Spec => []DeadlineSchedule
BY IInvHolds, PTL DEF IInv

\* A timeout is never reported a millisecond or more before the last deadline.
THEOREM TimeoutIsDueHolds == Spec => []TimeoutIsDue
BY IInvHolds, PTL DEF IInv

\* A transaction is given up no earlier than initial_timeout * (2^(max + 1) - 1)
\* milliseconds after its start, less the millisecond of the remainder, and
\* only when every retransmission was made.
THEOREM NoEarlyTimeoutHolds == Spec => []NoEarlyTimeout
<1>1. IInv => NoEarlyTimeout
  <2> SUFFICES ASSUME IInv, status = "timeout"
               PROVE  /\ timer.retransmissions = timer.max_retransmissions
                      /\ now + 1000 > start + 1000 * initial *
                                        (PowerOf2[timer.max_retransmissions + 1] - 1)
    BY SMT DEF NoEarlyTimeout
  <2> DEFINE k == timer.max_retransmissions
             p == PowerOf2[k]
  <2>1. k \in Nat /\ initial \in Nat /\ start \in Nat /\ now \in Nat
    BY SMT DEF IInv, TypeOK
  <2>2. timer.retransmissions = k /\ timer.delay = initial * p
    BY SMT DEF IInv, DelayDoubled
  <2>3. p \in Nat /\ PowerOf2[k + 1] = 2 * p
    BY <2>1, PowerOf2Doubles, SMT
  <2>4. now + 1000 > start + 1000 * (2 * (initial * p) - initial)
    BY <2>2, SMT DEF IInv, TimeoutIsDue, DeadlineSchedule
  <2> HIDE DEF p, k
  <2>5. 1000 * (2 * (initial * p) - initial) = 1000 * initial * (2 * p - 1)
    BY <2>1, <2>3, SMT
  <2> QED
    BY <2>2, <2>3, <2>4, <2>5, SMT DEF k
<1> QED
  BY <1>1, IInvHolds, PTL

\* What stun_timer_remainder returns is always within a millisecond of the
\* truth.
THEOREM RemainderAccurateHolds == Spec => []RemainderAccurate
<1>1. IInv => RemainderAccurate
  <2> SUFFICES ASSUME IInv PROVE RemainderAccurate
    BY SMT
  <2>1. timer.deadline \in Timeval /\ now \in Nat
    BY SMT DEF IInv, TypeOK
  <2> QED
    BY <2>1, RemainderExact, SMT DEF RemainderAccurate
<1> QED
  BY <1>1, IInvHolds, PTL
=============================================================================
