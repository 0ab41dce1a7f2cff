------------------------------ MODULE StunTimer ------------------------------
(***************************************************************************)
(* The STUN retransmission timer (stun/usages/timer.c), used by every      *)
(* transaction of the agent: connectivity checks, keepalives, discovery,   *)
(* TURN refreshes and TURN permissions.                                    *)
(*                                                                         *)
(* A timer holds an absolute deadline as a struct timeval (seconds and     *)
(* microseconds), the current delay in milliseconds and a count of         *)
(* retransmissions.  The user of the timer calls stun_timer_refresh from a *)
(* main-loop callback, so the call may be late by any amount and the clock *)
(* may stand anywhere inside a millisecond when it comes.                  *)
(***************************************************************************)
EXTENDS Integers

CONSTANTS
    InitialTimeouts,      \* initial_timeout arguments, in milliseconds
    MaxRetransmissions,   \* max_retransmissions of an unreliable transport
    ClockSteps,           \* amounts, in microseconds, the clock advances by
    MaxTime               \* bound on the clock, in microseconds

\* stun_timer_start is called with an initial timeout of at least one
\* millisecond (the smallest in the code is 100, priv_compute_conncheck_timer)
ASSUME InitialTimeoutsAssumption == InitialTimeouts \subseteq (Nat \ {0})
ASSUME MaxRetransmissionsAssumption == MaxRetransmissions \in Nat
ASSUME ClockStepsAssumption == ClockSteps \subseteq (Nat \ {0})
ASSUME MaxTimeAssumption == MaxTime \in Nat

VARIABLES
    now,        \* the monotonic clock, in microseconds
    timer,      \* the StunTimer structure
    status,     \* "idle", "running" or, once refresh said so, "timeout"
    ret,        \* what the last stun_timer_refresh returned, or "none"
    start,      \* history: clock reading at the last stun_timer_start
    initial     \* history: its initial_timeout argument

vars == <<now, timer, status, ret, start, initial>>

-----------------------------------------------------------------------------
\* stun_gettime: a clock reading as a struct timeval
stun_gettime(t) == [sec |-> t \div 1000000, usec |-> t % 1000000]

\* A struct timeval back as microseconds (used to state properties)
Micros(tv) == tv.sec * 1000000 + tv.usec

\* add_delay: the loop leaves tv_usec = 1000000 alone, and one turn of it is
\* enough because tv_usec <= 1000000 and less than a second is added to it
add_delay(tv, delay) ==
    LET s == tv.sec + (delay \div 1000)
        u == tv.usec + (delay % 1000) * 1000
    IN  IF u > 1000000 THEN [sec |-> s + 1, usec |-> u - 1000000]
                       ELSE [sec |-> s, usec |-> u]

\* The C division by 1000 of a possibly negative number truncates to zero
TruncMillis(u) == IF u >= 0 THEN u \div 1000 ELSE -((-u) \div 1000)

\* Mutant: only the seconds are compared before the subtraction
remainder_no_usec_test(deadline, t) ==
    LET n == stun_gettime(t)
        d == deadline.sec - n.sec
    IN  IF n.sec > deadline.sec THEN 0
        ELSE d * 1000 + TruncMillis(deadline.usec - n.usec)

stun_timer_remainder(deadline, t) ==
    LET n == stun_gettime(t)
        d == deadline.sec - n.sec
    IN  IF n.sec > deadline.sec \/ (d = 0 /\ n.usec >= deadline.usec)
        THEN 0
        ELSE d * 1000 + TruncMillis(deadline.usec - n.usec)

-----------------------------------------------------------------------------
Init ==
    /\ now = 0
    /\ timer = [deadline |-> [sec |-> 0, usec |-> 0], delay |-> 0,
                retransmissions |-> 0, max_retransmissions |-> 0]
    /\ status = "idle"
    /\ ret = "none"
    /\ start = 0
    /\ initial = 0

\* stun_timer_start; a caller restarts a running timer too (the triggered
\* check of an in-progress pair does)
stun_timer_start(initial_timeout, max) ==
    /\ timer' = [deadline |-> add_delay(stun_gettime(now), initial_timeout),
                 delay |-> initial_timeout,
                 retransmissions |-> 0,
                 max_retransmissions |-> max]
    /\ status' = "running"
    /\ ret' = "none"
    /\ start' = now
    /\ initial' = initial_timeout
    /\ UNCHANGED now

\* stun_timer_start_reliable: a reliable transport never retransmits
stun_timer_start_reliable(initial_timeout) == stun_timer_start(initial_timeout, 0)

\* Mutant: gives up one retransmission early
timeout_one_early ==
    /\ status = "running"
    /\ stun_timer_remainder(timer.deadline, now) = 0
    /\ timer.retransmissions + 1 >= timer.max_retransmissions
    /\ ret' = "TIMEOUT"
    /\ status' = "timeout"
    /\ UNCHANGED <<now, timer, start, initial>>

\* Mutant: one retransmission more than there are is waited for
timeout_one_late ==
    /\ status = "running"
    /\ stun_timer_remainder(timer.deadline, now) = 0
    /\ timer.retransmissions > timer.max_retransmissions
    /\ ret' = "TIMEOUT"
    /\ status' = "timeout"
    /\ UNCHANGED <<now, timer, start, initial>>

\* stun_timer_refresh, its three returns
RefreshTimeout ==
    /\ status = "running"
    /\ stun_timer_remainder(timer.deadline, now) = 0
    /\ timer.retransmissions >= timer.max_retransmissions
    /\ ret' = "TIMEOUT"
    /\ status' = "timeout"
    /\ UNCHANGED <<now, timer, start, initial>>

\* Mutant: the next deadline counts from the late call, not from the old one
retransmit_from_now ==
    /\ status = "running"
    /\ stun_timer_remainder(timer.deadline, now) = 0
    /\ timer.retransmissions < timer.max_retransmissions
    /\ timer' = [timer EXCEPT !.deadline = add_delay(stun_gettime(now), timer.delay * 2),
                              !.delay = @ * 2,
                              !.retransmissions = @ + 1]
    /\ ret' = "RETRANSMIT"
    /\ UNCHANGED <<now, status, start, initial>>

RefreshRetransmit ==
    /\ status = "running"
    /\ stun_timer_remainder(timer.deadline, now) = 0
    /\ timer.retransmissions < timer.max_retransmissions
    /\ timer' = [timer EXCEPT !.deadline = add_delay(@, timer.delay * 2),
                              !.delay = @ * 2,
                              !.retransmissions = @ + 1]
    /\ ret' = "RETRANSMIT"
    /\ UNCHANGED <<now, status, start, initial>>

RefreshSuccess ==
    /\ status = "running"
    /\ stun_timer_remainder(timer.deadline, now) # 0
    /\ ret' = "SUCCESS"
    /\ UNCHANGED <<now, timer, status, start, initial>>

stun_timer_refresh == RefreshTimeout \/ RefreshRetransmit \/ RefreshSuccess

\* The monotonic clock between two calls
Clock(d) ==
    /\ now + d <= MaxTime
    /\ now' = now + d
    /\ UNCHANGED <<timer, status, ret, start, initial>>

\* a transaction starts its timer when it is first sent, restarts it at most
\* while it runs, and is gone after a timeout
StartTimer ==
    /\ status # "timeout"
    /\ \E i \in InitialTimeouts :
          stun_timer_start(i, MaxRetransmissions) \/ stun_timer_start_reliable(i)

Next == StartTimer \/ stun_timer_refresh \/ (\E d \in ClockSteps : Clock(d))

Spec == Init /\ [][Next]_vars

\* The main loop keeps calling refresh on a timer that runs
Fairness == WF_vars(RefreshTimeout \/ RefreshRetransmit)

FairSpec == Spec /\ Fairness

-----------------------------------------------------------------------------
\* What add_delay leaves in a struct timeval
Timeval == [sec : Nat, usec : {u \in Nat : u <= 1000000}]

\* The fields of the StunTimer structure; in every deadline add_delay leaves at
\* most 1000000 in tv_usec, although it carries only above that value.
TypeOK ==
    /\ now \in Nat
    /\ timer \in [deadline : Timeval, delay : Nat,
                  retransmissions : Nat, max_retransmissions : Nat]
    /\ status \in {"idle", "running", "timeout"}
    /\ ret \in {"none", "SUCCESS", "RETRANSMIT", "TIMEOUT"}
    /\ start \in Nat
    /\ initial \in Nat

\* The deadline of a timer is where the doubling says, whatever the lateness
\* of the refresh calls was: refresh k is due initial * (2^k - 1) milliseconds
\* after the start, and delay = initial * 2^(k-1), so the due time is
\* 2 * delay - initial (add_delay works on the old deadline, not on the clock,
\* and carries microseconds into seconds without losing any).
DeadlineSchedule ==
    status # "idle" =>
        Micros(timer.deadline) = start + 1000 * (2 * timer.delay - initial)

\* stun_timer_remainder is right to less than a millisecond of the real time
\* left, on either side of a change of second, and never reports 0 with a
\* millisecond or more to go.
RemainderAccurate ==
    status # "idle" =>
        LET left == Micros(timer.deadline) - now
            r    == stun_timer_remainder(timer.deadline, now)
        IN  /\ r \in Nat
            /\ left <= 0 => r = 0
            /\ left > 0 => (1000 * r - left < 1000 /\ left - 1000 * r < 1000)

\* 2^k
PowerOf2[k \in Nat] == IF k = 0 THEN 1 ELSE 2 * PowerOf2[k - 1]

\* A transaction is given up no earlier than the total time timer.h promises,
\* initial_timeout * (2^(max_retransmissions + 1) - 1), less the millisecond
\* the remainder truncates, and only with all the retransmissions used up.
NoEarlyTimeout ==
    status = "timeout" =>
        /\ timer.retransmissions = timer.max_retransmissions
        /\ now + 1000 > start + 1000 * initial *
                          (PowerOf2[timer.max_retransmissions + 1] - 1)

\* A timer reports a timeout only when its last deadline is less than a
\* millisecond away or past.
TimeoutIsDue == status = "timeout" => now + 1000 > Micros(timer.deadline)

\* The total time has passed since the last start
Overdue ==
    now >= start + 1000 * initial * (PowerOf2[timer.max_retransmissions + 1] - 1)

\* Late refresh calls do not stretch a transaction: once the total time has
\* passed, the refresh calls that are still owed run one after the other and
\* the timer reports a timeout, unless the transaction is started anew.
OverdueTimesOut ==
    (status = "running" /\ Overdue) ~> (status = "timeout" \/ ~Overdue)
=============================================================================
