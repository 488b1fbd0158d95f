-------------------------- MODULE EventLoopProofs --------------------------
(* What holds of the loop for any clock, any number of events and operations, *)
(* and any delays: the arithmetic on timers first, then the invariant.        *)
EXTENDS EventLoop, TLAPS

-----------------------------------------------------------------------------
(* Arithmetic *)
LEMMA Division ==
  ASSUME NEW a \in Nat, NEW b \in Nat \ {0}
  PROVE  /\ a \div b \in Nat
         /\ a % b \in 0..(b - 1)
         /\ a = b * (a \div b) + (a % b)
  BY SMT

LEMMA ExactDivision ==
  ASSUME NEW k \in Nat, NEW m \in Nat \ {0}
  PROVE  (k * m) \div m = k
  BY SMT

\* A second is a whole number of milliseconds.
LEMMA Units ==
  /\ NanosPerMilli \in Nat \ {0}
  /\ MillisPerSec \in Nat \ {0}
  /\ NanosPerSec \in Nat \ {0}
  /\ NanosPerSec = MillisPerSec * NanosPerMilli
<1>1. PICK k \in 1..NanosPerSec : NanosPerSec = k * NanosPerMilli
  BY TimespecAssumption
<1>2. NanosPerMilli \in Nat \ {0}
  BY TimespecAssumption
<1>3. k \in Nat \ {0}
  BY <1>1
<1>4. MillisPerSec = k
  BY <1>1, <1>2, <1>3, ExactDivision DEF MillisPerSec
<1>5. NanosPerSec \in Nat \ {0}
  BY <1>1, <1>2, <1>3
<1> QED
  BY <1>1, <1>2, <1>3, <1>4, <1>5

Timespecs == [tv_sec : Int, tv_nsec : Nat]

\* The clock read into a struct timespec stands for itself.
LEMMA CurrentTime ==
  ASSUME NEW n \in Nat
  PROVE  /\ FromNanos(n) \in Timespecs
         /\ FromNanos(n).tv_sec \in Nat
         /\ FromNanos(n).tv_nsec < NanosPerSec
         /\ Nanos(FromNanos(n)) = n
<1>1. /\ n \div NanosPerSec \in Nat
      /\ n % NanosPerSec \in 0..(NanosPerSec - 1)
      /\ n = NanosPerSec * (n \div NanosPerSec) + (n % NanosPerSec)
  BY Units, Division
<1> QED
  BY <1>1, Units DEF FromNanos, Timespec, Nanos, Timespecs

LEMMA Distribute ==
  ASSUME NEW d \in Int, NEW q \in Int, NEW m \in Int, NEW p \in Int, NEW s \in Int
  PROVE  (s + q) * (m * p) + (d - m * q) * p = s * (m * p) + d * p
  BY SMT

LEMMA Grows ==
  ASSUME NEW k \in Nat, NEW p \in Nat \ {0}
  PROVE  k <= k * p /\ k * p = p * k /\ k * p \in Nat
  BY SMT

LEMMA Monotone ==
  ASSUME NEW r \in Nat, NEW m \in Nat, NEW p \in Nat, r <= m - 1
  PROVE  r * p <= m * p - p /\ r * p \in Nat
  BY SMT

\* tu_modify_timer adds what it should, also to a timer that carries a borrow.
LEMMA ModifyMillis ==
  ASSUME NEW t \in Timespecs, t.tv_nsec < 2 * NanosPerSec, NEW d \in Nat
  PROVE  /\ modify_millis(t, d) \in Timespecs
         /\ modify_millis(t, d).tv_nsec < 2 * NanosPerSec
         /\ Nanos(modify_millis(t, d)) = Nanos(t) + d * NanosPerMilli
<1> DEFINE q == d \div MillisPerSec
           r == d - MillisPerSec * q
           s == t.tv_sec + q
           n == t.tv_nsec + r * NanosPerMilli
<1>1. q \in Nat /\ r \in 0..(MillisPerSec - 1)
  <2>1. /\ q \in Nat
        /\ d % MillisPerSec \in 0..(MillisPerSec - 1)
        /\ d = MillisPerSec * q + (d % MillisPerSec)
    BY Units, Division
  <2>2. MillisPerSec * q \in Nat
    BY <2>1, Units
  <2> HIDE DEF q
  <2> QED
    BY <2>1, <2>2, Units
<1>2. r * NanosPerMilli <= NanosPerSec - NanosPerMilli /\ r * NanosPerMilli \in Nat
  BY <1>1, Units, Monotone
<1>3. s * NanosPerSec + r * NanosPerMilli = t.tv_sec * NanosPerSec + d * NanosPerMilli
  <2>1. q \in Int /\ t.tv_sec \in Int /\ MillisPerSec \in Int /\ NanosPerMilli \in Int
    BY <1>1, Units DEF Timespecs
  <2> HIDE DEF q
  <2>2. (t.tv_sec + q) * (MillisPerSec * NanosPerMilli)
          + (d - MillisPerSec * q) * NanosPerMilli
        = t.tv_sec * (MillisPerSec * NanosPerMilli) + d * NanosPerMilli
    BY <2>1, Distribute
  <2> QED
    BY <2>2, Units
<1>4. n \in Nat /\ n < 3 * NanosPerSec /\ s \in Int
  BY <1>1, <1>2, Units DEF Timespecs
<1>5. modify_millis(t, d) =
        IF n >= NanosPerSec THEN Timespec(s + 1, n - NanosPerSec) ELSE Timespec(s, n)
  <2>1. CDiv(d, MillisPerSec) = q /\ CMod(d, MillisPerSec) = r
    BY DEF CDiv, CMod
  <2> HIDE DEF q, r
  <2>2. ~(n < 0)
    BY <1>4
  <2> QED
    BY <2>1, <2>2 DEF modify_millis
<1>6. (s + 1) * NanosPerSec = s * NanosPerSec + NanosPerSec
  BY <1>4, Units
<1> HIDE DEF q, r, s, n
<1>7. n \in Nat /\ s * NanosPerSec \in Int /\ (s + 1) * NanosPerSec \in Int
  BY <1>4, Units
<1>8. s * NanosPerSec + n = Nanos(t) + d * NanosPerMilli
  <2>1. t.tv_sec \in Int /\ t.tv_nsec \in Nat
    BY DEF Timespecs
  <2>2. n = t.tv_nsec + r * NanosPerMilli
    BY DEF n
  <2>3. t.tv_sec * NanosPerSec \in Int /\ d * NanosPerMilli \in Int
    BY <2>1, Units
  <2> QED
    BY <2>1, <2>2, <2>3, <1>2, <1>3, <1>7 DEF Nanos
<1>9. CASE n >= NanosPerSec
  BY <1>4, <1>5, <1>6, <1>7, <1>8, <1>9, Units DEF Timespec, Timespecs, Nanos
<1>10. CASE ~(n >= NanosPerSec)
  BY <1>4, <1>5, <1>7, <1>8, <1>10, Units DEF Timespec, Timespecs, Nanos
<1> QED
  BY <1>9, <1>10

\* The borrow of timer_subtract changes the fields, not the time.
LEMMA BorrowKeepsTime ==
  ASSUME NEW a \in Timespecs, NEW b \in Timespecs,
         a.tv_nsec < 2 * NanosPerSec, b.tv_nsec < NanosPerSec
  PROVE  /\ Borrowed(a, b) \in Timespecs
         /\ Borrowed(a, b).tv_nsec < 2 * NanosPerSec
         /\ Borrowed(a, b).tv_nsec >= b.tv_nsec
         /\ Nanos(Borrowed(a, b)) = Nanos(a)
<1>1. a.tv_sec \in Int /\ a.tv_nsec \in Nat /\ b.tv_nsec \in Nat /\ NanosPerSec \in Nat
  BY Units DEF Timespecs
<1>2. (a.tv_sec - 1) * NanosPerSec = a.tv_sec * NanosPerSec - NanosPerSec
  BY <1>1
<1>3. a.tv_sec * NanosPerSec \in Int
  BY <1>1
<1>4. CASE a.tv_nsec < b.tv_nsec
  BY <1>1, <1>2, <1>3, <1>4 DEF Borrowed, Timespec, Timespecs, Nanos
<1>5. CASE ~(a.tv_nsec < b.tv_nsec)
  BY <1>1, <1>5 DEF Borrowed, Timespecs, Nanos
<1> QED
  BY <1>4, <1>5

\* For a timer that has not expired timer_subtract returns no negative time and
\* none that is longer than what is left.
LEMMA TimeLeft ==
  ASSUME NEW a \in Timespecs, NEW b \in Timespecs, b.tv_sec \in Nat,
         a.tv_nsec < 2 * NanosPerSec, b.tv_nsec < NanosPerSec,
         ~timespec_gt(b, a)
  PROVE  /\ timer_subtract(a, b) \in Nat
         /\ timer_subtract(a, b) <= Nanos(a) - Nanos(b)
<1> DEFINE x == Borrowed(a, b)
           s == x.tv_sec - b.tv_sec
           n == x.tv_nsec - b.tv_nsec
<1>1. /\ x \in Timespecs /\ x.tv_nsec >= b.tv_nsec
      /\ Nanos(x) = Nanos(a)
  BY BorrowKeepsTime
<1>2. s \in Nat
  BY <1>1 DEF timespec_gt, Borrowed, Timespec, Timespecs
<1>3. n \in Nat
  BY <1>1 DEF Timespecs
<1>4. timer_subtract(a, b) = s * MillisPerSec + n \div NanosPerMilli
  BY <1>3, Units DEF timer_subtract, CDiv
<1>5. n \div NanosPerMilli \in Nat /\ n \div NanosPerMilli <= n
  <2> HIDE DEF n
  <2>1. /\ n \div NanosPerMilli \in Nat
        /\ n = NanosPerMilli * (n \div NanosPerMilli) + (n % NanosPerMilli)
        /\ n % NanosPerMilli \in 0..(NanosPerMilli - 1)
    BY <1>3, Units, Division
  <2>2. n \div NanosPerMilli <= (n \div NanosPerMilli) * NanosPerMilli
    BY <2>1, Units, Grows
  <2> QED
    BY <2>1, <2>2, <1>3, Units
<1>6. s * MillisPerSec \in Nat /\ s * MillisPerSec <= s * NanosPerSec
  <2> HIDE DEF s
  <2>1. MillisPerSec <= NanosPerSec
    BY Units, SMT
  <2> QED
    BY <2>1, <1>2, Units, SMT
<1>7. Nanos(a) - Nanos(b) = s * NanosPerSec + n
  <2>1. /\ x.tv_sec \in Int /\ x.tv_nsec \in Int
        /\ b.tv_sec \in Int /\ b.tv_nsec \in Int
    BY <1>1 DEF Timespecs
  <2>2. s * NanosPerSec = x.tv_sec * NanosPerSec - b.tv_sec * NanosPerSec
    BY <2>1, Units
  <2>3. Nanos(a) = x.tv_sec * NanosPerSec + x.tv_nsec
    BY <1>1 DEF Nanos
  <2>4. x.tv_sec * NanosPerSec \in Int /\ b.tv_sec * NanosPerSec \in Int
    BY <2>1, Units
  <2> QED
    BY <2>1, <2>2, <2>3, <2>4 DEF Nanos
<1>8. s * NanosPerSec \in Int
  BY <1>2, Units
<1> HIDE DEF s, n
<1> QED
  BY <1>3, <1>4, <1>5, <1>6, <1>7, <1>8

\* The comparison of the fields errs by less than a second.
LEMMA ExpiredWithinASecond ==
  ASSUME NEW a \in Timespecs, NEW b \in Timespecs,
         b.tv_nsec < 2 * NanosPerSec, timespec_gt(a, b)
  PROVE  Nanos(b) < Nanos(a) + NanosPerSec
<1>1. /\ a.tv_sec \in Int /\ a.tv_nsec \in Nat /\ b.tv_sec \in Int /\ b.tv_nsec \in Nat
      /\ NanosPerSec \in Nat
  BY Units DEF Timespecs
<1>2. CASE a.tv_sec > b.tv_sec
  <2>1. b.tv_sec * NanosPerSec <= (a.tv_sec - 1) * NanosPerSec
    BY <1>1, <1>2
  <2>2. (a.tv_sec - 1) * NanosPerSec = a.tv_sec * NanosPerSec - NanosPerSec
    BY <1>1
  <2>3. a.tv_sec * NanosPerSec \in Int /\ b.tv_sec * NanosPerSec \in Int
    BY <1>1
  <2> QED
    BY <2>1, <2>2, <2>3, <1>1 DEF Nanos
<1>3. CASE a.tv_sec = b.tv_sec /\ a.tv_nsec > b.tv_nsec
  <2>1. a.tv_sec * NanosPerSec \in Int
    BY <1>1
  <2> QED
    BY <2>1, <1>1, <1>3, Units DEF Nanos
<1> QED
  BY <1>2, <1>3 DEF timespec_gt

-----------------------------------------------------------------------------
(* The invariant *)
\* What the heap holds: a time whose nanoseconds carry one borrow at most, and
\* which is the time the timer is due.
TimerOK(i) ==
  timers[i] # NULL =>
    /\ timers[i] \in Timespecs
    /\ timers[i].tv_nsec < 2 * NanosPerSec
    /\ Nanos(timers[i]) = due[i]
    /\ due[i] <= MaxNow

TimersOK ==
  /\ timers \in [Ids -> Timespecs \cup {NULL}]
  /\ due \in [Ids -> Int]
  /\ \A i \in Ids : TimerOK(i)

\* Every operation is in one place.
Operations ==
  /\ pending + jobs <= asked
  /\ worker = "operate" => pending + jobs < asked

SleepOK ==
  /\ pc = "wait" /\ Armed # {} => sleep >= 0
  /\ SleepEndsForTimers

\* The loop overtakes a trigger only after the queue was drained in this turn.
OvertakenOK ==
  /\ overtaken \in {0, 1}
  /\ overtaken = 1 => pending > 0
  /\ pc \in {"timers", "peek", "wait", "epoll_wait", "signals", "dispatch"} => overtaken = 0

IInv == TypeOK /\ TimersOK /\ Operations /\ SleepOK /\ OvertakenOK

LEMMA InitInvariant == Init => IInv
<1> SUFFICES ASSUME Init PROVE IInv
  OBVIOUS
<1> USE EventLoopAssumption DEF Init
<1>1. TypeOK
  <2>1. 0 <= MaxNow /\ 0 <= MaxTimers /\ 0 <= MaxEvents /\ 0 <= MaxJobs
    OBVIOUS
  <2>2. pc \in LoopSteps /\ running \in BOOLEAN /\ pill \in BOOLEAN
    BY DEF LoopSteps
  <2>3. now \in 0..MaxNow /\ sleep \in -1..MaxNow
    BY <2>1
  <2>4. \A i \in Ids : timers[i] = NULL
    OBVIOUS
  <2>5. next_id \in 0..MaxTimers /\ events \in 0..MaxEvents /\ overtaken \in Nat
    BY <2>1
  <2>6. pending \in 0..MaxJobs /\ jobs \in 0..MaxJobs /\ asked \in 0..MaxJobs
    BY <2>1
  <2> QED
    BY <2>2, <2>3, <2>4, <2>5, <2>6 DEF TypeOK
<1>2. TimersOK
  BY DEF TimersOK, TimerOK
<1>3. Operations
  BY DEF Operations
<1>4. SleepOK /\ OvertakenOK
  BY DEF SleepOK, SleepEndsForTimers, OvertakenOK
<1> QED
  BY <1>1, <1>2, <1>3, <1>4 DEF IInv

Outcomes == [Ids -> {"waits", "fired", "removed", "dropped"}]
TimerFields == \A i \in Ids : timers[i] = NULL \/ timers[i] \in [tv_sec : Int, tv_nsec : Nat]

\* A timer that is set, moved or cleared, with the time it is due.
LEMMA OneTimer ==
  ASSUME IInv, NEW i \in Ids, NEW t \in Timespecs \cup {NULL}, NEW n \in Int,
         t # NULL => t.tv_nsec < 2 * NanosPerSec /\ Nanos(t) = n /\ n <= MaxNow,
         timers' = [timers EXCEPT ![i] = t], due' = [due EXCEPT ![i] = n]
  PROVE  TimersOK' /\ TimerFields'
<1>1. TimersOK'
  BY EventLoopAssumption DEF IInv, TimersOK, TimerOK
<1> QED
  BY <1>1 DEF TimersOK, TimerFields, Timespecs

LEMMA OutcomeTyped ==
  ASSUME NEW become \in Outcomes, NEW i \in Ids,
         NEW o \in {"waits", "fired", "removed", "dropped"}
  PROVE  [become EXCEPT ![i] = o] \in Outcomes
  BY DEF Outcomes

\* A timer is set for a time that is not past.
LEMMA SetKeeps ==
  ASSUME IInv, NEW become \in Outcomes, NEW d \in Delays, loop_add_timer_relative(d, become)
  PROVE  TimersOK' /\ TimerFields' /\ next_id' \in 0..MaxTimers
<1> USE EventLoopAssumption
<1>0. now \in Nat /\ next_id \in 0..MaxTimers /\ d \in Nat
  BY DEF IInv, TypeOK
<1>1. next_id \in Ids /\ next_id' \in 0..MaxTimers
  BY <1>0 DEF Ids, loop_add_timer_relative
<1>2. /\ Current \in Timespecs /\ Current.tv_nsec < 2 * NanosPerSec
      /\ Nanos(Current) = now
  BY <1>0, CurrentTime, Units DEF Current, Timespecs
<1>3. /\ modify_millis(Current, d) \in Timespecs
      /\ modify_millis(Current, d).tv_nsec < 2 * NanosPerSec
      /\ Nanos(modify_millis(Current, d)) = now + d * NanosPerMilli
  BY <1>0, <1>2, ModifyMillis
<1>4. now + d * NanosPerMilli \in Int /\ now + d * NanosPerMilli <= MaxNow
  BY <1>0, Units DEF loop_add_timer_relative
<1> QED
  BY <1>1, <1>3, <1>4, OneTimer DEF loop_add_timer_relative

\* A timer is moved from where it was, a borrow that it carries included.
LEMMA MoveKeeps ==
  ASSUME IInv, NEW become \in Outcomes, NEW i \in Armed, NEW d \in Delays,
         loop_update_timer_relative(i, d, become)
  PROVE  TimersOK' /\ TimerFields'
<1> USE EventLoopAssumption
<1>1. /\ i \in Ids /\ timers[i] \in Timespecs /\ timers[i].tv_nsec < 2 * NanosPerSec
      /\ Nanos(timers[i]) = due[i] /\ due[i] \in Int /\ d \in Nat
  BY DEF IInv, TimersOK, TimerOK, Armed
<1>2. /\ modify_millis(timers[i], d) \in Timespecs
      /\ modify_millis(timers[i], d).tv_nsec < 2 * NanosPerSec
      /\ Nanos(modify_millis(timers[i], d)) = due[i] + d * NanosPerMilli
  BY <1>1, ModifyMillis
<1>3. due[i] + d * NanosPerMilli \in Int /\ due[i] + d * NanosPerMilli <= MaxNow
  BY <1>1, Units DEF loop_update_timer_relative
<1>4. /\ timers' = [timers EXCEPT ![i] = modify_millis(timers[i], d)]
      /\ due' = [due EXCEPT ![i] = due[i] + d * NanosPerMilli]
  BY DEF loop_update_timer_relative
<1> HIDE DEF loop_update_timer_relative
<1> QED
  BY <1>1, <1>2, <1>3, <1>4, OneTimer

\* Whatever a callback does, the timers are due when it says, and every operation
\* it asks for is in one place.
LEMMA CallbackKeeps ==
  ASSUME IInv, NEW own, NEW become \in Outcomes, Callback(own, become)
  PROVE  /\ TimersOK' /\ TimerFields'
         /\ running' \in BOOLEAN /\ outcome' \in Outcomes
         /\ next_id' \in 0..MaxTimers
         /\ jobs' \in Nat /\ asked' \in 0..MaxJobs
         /\ \/ jobs' = jobs /\ asked' = asked
            \/ jobs' = jobs + 1 /\ asked' = asked + 1
<1> USE EventLoopAssumption
<1>0. /\ next_id \in 0..MaxTimers /\ jobs \in 0..MaxJobs /\ asked \in 0..MaxJobs
      /\ running \in BOOLEAN /\ TimersOK /\ TimerFields
  BY DEF IInv, TypeOK, TimerFields
<1>1. CASE \/ outcome' = become /\ UNCHANGED <<running, timers, next_id, due, jobs, asked>>
           \/ Submit(become) \/ Stop(become)
  <2>1. UNCHANGED <<timers, next_id, due>> /\ outcome' = become
    BY <1>1 DEF Submit, Stop
  <2>2. TimersOK' /\ TimerFields'
    BY <1>0, <2>1 DEF TimersOK, TimerOK, TimerFields
  <2>3. running' \in BOOLEAN
    BY <1>0, <1>1 DEF Submit, Stop
  <2> QED
    BY <1>0, <1>1, <2>1, <2>2, <2>3 DEF Submit, Stop
<1>2. ASSUME NEW d \in Delays, loop_add_timer_relative(d, become)
      PROVE  /\ TimersOK' /\ TimerFields' /\ next_id' \in 0..MaxTimers
             /\ outcome' \in Outcomes /\ UNCHANGED <<running, jobs, asked>>
  BY <1>2, SetKeeps DEF loop_add_timer_relative
<1>3. ASSUME NEW i \in Armed, NEW d \in Delays, loop_update_timer_relative(i, d, become)
      PROVE  /\ TimersOK' /\ TimerFields'
             /\ outcome' \in Outcomes /\ UNCHANGED <<running, next_id, jobs, asked>>
  BY <1>3, MoveKeeps, OutcomeTyped DEF loop_update_timer_relative, Armed
<1>4. ASSUME NEW i \in Armed, loop_remove_timer(i, become)
      PROVE  /\ TimersOK' /\ TimerFields'
             /\ outcome' \in Outcomes /\ UNCHANGED <<running, next_id, jobs, asked>>
  <2>1. i \in Ids /\ NULL \in Timespecs \cup {NULL} /\ 0 \in Int
    BY DEF Armed
  <2>2. /\ timers' = [timers EXCEPT ![i] = NULL] /\ due' = [due EXCEPT ![i] = 0]
        /\ outcome' = [become EXCEPT ![i] = "removed"]
        /\ UNCHANGED <<running, next_id, jobs, asked>>
    BY <1>4 DEF loop_remove_timer
  <2> QED
    BY <2>1, <2>2, OneTimer, OutcomeTyped
<1>5. CASE \E d \in Delays : loop_add_timer_relative(d, become)
  BY <1>0, <1>2, <1>5
<1>6. CASE \E i \in Armed, d \in Delays : loop_update_timer_relative(i, d, become)
  BY <1>0, <1>3, <1>6
<1>7. CASE \E i \in Armed \ {own} : loop_remove_timer(i, become)
  BY <1>0, <1>4, <1>7
<1> QED
  BY <1>1, <1>5, <1>6, <1>7 DEF Callback

\* Going to sleep on a timer that has not expired.
LEMMA SetSleepKeeps ==
  ASSUME IInv, NEW i \in Ids, SetSleep(i)
  PROVE  TimersOK' /\ TimerFields' /\ sleep' \in 0..MaxNow
<1> USE EventLoopAssumption
<1>1. /\ timers[i] \in Timespecs /\ timers[i].tv_nsec < 2 * NanosPerSec
      /\ Nanos(timers[i]) = due[i] /\ due[i] <= MaxNow
  BY DEF IInv, TimersOK, TimerOK, SetSleep, IsHead, Armed
<1>2. now \in Nat /\ ~timespec_gt(Current, timers[i])
  BY DEF IInv, TypeOK, SetSleep, Expired
<1>3. /\ Current \in Timespecs /\ Current.tv_sec \in Nat
      /\ Current.tv_nsec < NanosPerSec /\ Nanos(Current) = now
  BY <1>2, CurrentTime DEF Current
<1>4. /\ timer_subtract(timers[i], Current) \in Nat
      /\ timer_subtract(timers[i], Current) <= due[i] - now
  BY <1>1, <1>2, <1>3, TimeLeft
<1>5. due[i] \in Int
  BY DEF IInv, TimersOK
<1>6. sleep' \in 0..MaxNow
  BY <1>1, <1>2, <1>4, <1>5 DEF SetSleep
<1> DEFINE left == Borrowed(timers[i], Current)
<1>7. /\ left \in Timespecs /\ left.tv_nsec < 2 * NanosPerSec
      /\ Nanos(left) = due[i]
  BY <1>1, <1>3, BorrowKeepsTime
<1>8. timers' = [timers EXCEPT ![i] = left] /\ due' = due
  BY DEF SetSleep
<1> HIDE DEF left
<1>9. TimersOK'
  BY <1>1, <1>7, <1>8 DEF IInv, TimersOK, TimerOK
<1> QED
  BY <1>6, <1>9 DEF TimersOK, TimerFields, Timespecs

\* A timer that is expired still after its callback is cleared.
LEMMA AfterTimerKeeps ==
  ASSUME IInv, AfterTimer
  PROVE  TimersOK' /\ TimerFields' /\ outcome' \in Outcomes
<1>1. /\ id \in Ids /\ outcome \in Outcomes /\ TimersOK /\ TimerFields
      /\ NULL \in Timespecs \cup {NULL} /\ 0 \in Int
  BY DEF IInv, TypeOK, TimerFields, Outcomes, AfterTimer
<1>2. CASE Expired(id)
  <2>1. /\ timers' = [timers EXCEPT ![id] = NULL] /\ due' = [due EXCEPT ![id] = 0]
        /\ outcome' = [outcome EXCEPT ![id] = "dropped"] \/ outcome' = outcome
    BY <1>1, <1>2 DEF AfterTimer, Outcomes
  <2> QED
    BY <1>1, <2>1, OneTimer, OutcomeTyped
<1>3. CASE ~Expired(id)
  BY <1>1, <1>3 DEF AfterTimer, TimersOK, TimerOK, TimerFields
<1> QED
  BY <1>2, <1>3

-----------------------------------------------------------------------------
(* Every step keeps it *)
\* Most steps leave the timers alone.
LEMMA TimersStay ==
  ASSUME TimersOK, UNCHANGED <<timers, due>>
  PROVE  TimersOK'
  BY DEF TimersOK, TimerOK

LEMMA SumBound ==
  \A x, y, z \in Nat : x + y <= z => x <= z /\ y <= z
  OBVIOUS

LEMMA OperationsBound ==
  ASSUME Operations', pending' \in Nat, jobs' \in Nat, asked' \in Nat
  PROVE  pending' <= asked' /\ jobs' <= asked'
  BY SumBound DEF Operations

LEMMA CallbackCounts ==
  ASSUME IInv, pending' = pending \/ pending' = pending - 1, worker' = worker,
         \/ jobs' = jobs /\ asked' = asked
         \/ jobs' = jobs + 1 /\ asked' = asked + 1
  PROVE  Operations'
<1>1. pending \in Nat /\ jobs \in Nat /\ asked \in Nat
  BY DEF IInv, TypeOK
<1>2. CASE jobs' = jobs /\ asked' = asked
  BY <1>1, <1>2 DEF IInv, Operations
<1>3. CASE jobs' = jobs + 1 /\ asked' = asked + 1
  BY <1>1, <1>3 DEF IInv, Operations
<1> QED
  BY <1>2, <1>3

LEMMA LoopKeeps ==
  ASSUME IInv, Loop
  PROVE  IInv'
<1> USE EventLoopAssumption
<1> USE DEF IInv
<1>1. CASE Top
  <2> USE <1>1 DEF Top, loopvars, timervars, workervars
  <2>1. TypeOK'
    BY DEF TypeOK, LoopSteps
  <2>2. TimersOK'
    BY TimersStay
  <2>3. Operations' /\ SleepOK' /\ OvertakenOK'
    BY DEF Operations, SleepOK, SleepEndsForTimers, OvertakenOK, Armed
  <2> QED
    BY <2>1, <2>2, <2>3
<1>2. CASE RunPending
  <2> USE <1>2 DEF RunPending
  <2>1. /\ TimersOK' /\ TimerFields'
        /\ running' \in BOOLEAN /\ outcome' \in Outcomes
        /\ next_id' \in 0..MaxTimers
        /\ jobs' \in Nat /\ asked' \in 0..MaxJobs
        /\ \/ jobs' = jobs /\ asked' = asked
           \/ jobs' = jobs + 1 /\ asked' = asked + 1
    BY CallbackKeeps DEF TypeOK, Outcomes
  <2>2. Operations' /\ OvertakenOK' /\ SleepOK'
    <3>1. Operations'
      BY <2>1, CallbackCounts
    <3> QED
      BY <3>1 DEF SleepOK, SleepEndsForTimers, OvertakenOK
  <2>3. pending' \in 0..MaxJobs /\ jobs' \in 0..MaxJobs
    <3>1. pending \in 0..MaxJobs /\ pending' \in Nat
      BY DEF TypeOK
    <3>2. jobs' <= asked'
      BY <2>1, <2>2, <3>1, OperationsBound
    <3> QED
      BY <2>1, <3>1, <3>2
  <2>4. TypeOK'
    BY <2>1, <2>3 DEF TypeOK, TimerFields, Outcomes
  <2> QED
    BY <2>1, <2>2, <2>4
<1>3. CASE Drained
  <2> USE <1>3 DEF Drained, loopvars, timervars, workervars
  <2>1. TypeOK'
    BY DEF TypeOK, LoopSteps
  <2>2. TimersOK'
    BY TimersStay
  <2>3. Operations' /\ SleepOK' /\ OvertakenOK'
    BY DEF Operations, SleepOK, SleepEndsForTimers, OvertakenOK, Armed, TypeOK
  <2> QED
    BY <2>1, <2>2, <2>3
<1>4. CASE NoTimer
  <2> USE <1>4 DEF NoTimer, timervars, workervars
  <2>1. TypeOK'
    BY DEF TypeOK, LoopSteps
  <2>2. TimersOK'
    BY TimersStay
  <2>3. Operations' /\ SleepOK' /\ OvertakenOK'
    BY DEF Operations, SleepOK, SleepEndsForTimers, OvertakenOK, Armed
  <2> QED
    BY <2>1, <2>2, <2>3
<1>5. ASSUME NEW i \in Ids, FireTimer(i) PROVE IInv'
  <2> DEFINE become == [outcome EXCEPT ![i] = "fired"]
  <2>0. /\ Callback(i, become) /\ become \in Outcomes
        /\ pc = "timers" /\ pc' = "peek" /\ id' \in Ids
        /\ UNCHANGED <<now, sleep, deadline, event, signals_received, ready, pending, pill,
                       worker, events, overtaken>>
    BY <1>5 DEF FireTimer, TypeOK, Outcomes
  <2> HIDE DEF become
  <2>1. /\ TimersOK' /\ TimerFields'
        /\ running' \in BOOLEAN /\ outcome' \in Outcomes
        /\ next_id' \in 0..MaxTimers
        /\ jobs' \in Nat /\ asked' \in 0..MaxJobs
        /\ \/ jobs' = jobs /\ asked' = asked
           \/ jobs' = jobs + 1 /\ asked' = asked + 1
    BY <2>0, CallbackKeeps
  <2>2. Operations' /\ OvertakenOK' /\ SleepOK'
    <3>1. Operations'
      BY <2>0, <2>1, CallbackCounts
    <3> QED
      BY <2>0, <3>1 DEF SleepOK, SleepEndsForTimers, OvertakenOK
  <2>3. jobs' \in 0..MaxJobs
    BY <2>0, <2>1, <2>2, OperationsBound DEF TypeOK
  <2>4. TypeOK'
    BY <2>0, <2>1, <2>3 DEF TypeOK, TimerFields, Outcomes, LoopSteps
  <2> QED
    BY <2>1, <2>2, <2>4
<1>12. CASE AfterTimer
  <2>1. TimersOK' /\ TimerFields' /\ outcome' \in Outcomes
    BY <1>12, AfterTimerKeeps
  <2>2. /\ pc = "peek" /\ pc' = "timers" /\ id' = NULL
        /\ UNCHANGED <<now, running, next_id, sleep, deadline, event, signals_received, ready,
                       pending, workervars, events, overtaken>>
    BY <1>12 DEF AfterTimer
  <2>3. TypeOK'
    BY <2>1, <2>2 DEF TypeOK, workervars, LoopSteps, TimerFields, Outcomes
  <2>4. Operations' /\ SleepOK' /\ OvertakenOK'
    BY <2>2 DEF Operations, SleepOK, SleepEndsForTimers, OvertakenOK, workervars
  <2> QED
    BY <2>1, <2>3, <2>4
<1>6. ASSUME NEW i \in Ids, SetSleep(i) PROVE IInv'
  <2>1. TimersOK' /\ TimerFields' /\ sleep' \in 0..MaxNow
    BY <1>6, SetSleepKeeps
  <2>2. /\ pc = "timers" /\ pc' = "wait"
        /\ UNCHANGED <<now, running, next_id, id, due, outcome, deadline, event,
                       signals_received, ready, pending, workervars, events, overtaken>>
    BY <1>6 DEF SetSleep
  <2>3. TypeOK'
    BY <2>1, <2>2 DEF TypeOK, workervars, LoopSteps, TimerFields
  <2>4. Operations' /\ SleepOK' /\ OvertakenOK'
    BY <2>1, <2>2 DEF Operations, SleepOK, SleepEndsForTimers, OvertakenOK, workervars
  <2> QED
    BY <2>1, <2>3, <2>4
<1>7. CASE Wait
  <2> USE <1>7 DEF Wait, timervars, workervars
  <2>1. sleep >= 0 => now + sleep * NanosPerMilli \in Nat
    BY Units DEF TypeOK
  <2>2. deadline' = NULL \/ deadline' \in Nat
    BY <2>1 DEF TypeOK
  <2>3. TypeOK'
    BY <2>2 DEF TypeOK, LoopSteps
  <2>4. TimersOK'
    BY TimersStay
  <2>5. SleepOK'
    BY <2>1 DEF SleepOK, SleepEndsForTimers, Armed, TypeOK
  <2>6. Operations' /\ OvertakenOK'
    BY DEF Operations, OvertakenOK
  <2> QED
    BY <2>3, <2>4, <2>5, <2>6
<1>8. CASE Timeout \/ \E f \in Fds : ReturnReady(f)
  <2>1. /\ pc = "epoll_wait" /\ pc' = "signals" /\ deadline' = NULL
        /\ event' \in Fds \cup {NULL}
        /\ UNCHANGED <<now, running, timervars, sleep, signals_received, ready, pending,
                       workervars, events, overtaken>>
    BY <1>8 DEF Timeout, ReturnReady, Woken
  <2>2. TypeOK'
    BY <2>1 DEF TypeOK, LoopSteps, timervars, workervars
  <2>3. TimersOK'
    BY <2>1, TimersStay DEF timervars
  <2>4. Operations' /\ SleepOK' /\ OvertakenOK'
    BY <2>1 DEF Operations, SleepOK, SleepEndsForTimers, OvertakenOK, workervars
  <2> QED
    BY <2>2, <2>3, <2>4
<1>9. CASE RunSignals
  <2> USE <1>9 DEF RunSignals, timervars, workervars
  <2>1. TypeOK'
    BY DEF TypeOK, LoopSteps
  <2>2. TimersOK'
    BY TimersStay
  <2>3. Operations' /\ SleepOK' /\ OvertakenOK'
    BY DEF Operations, SleepOK, SleepEndsForTimers, OvertakenOK
  <2> QED
    BY <2>1, <2>2, <2>3
<1>10. CASE Dispatch
  <2> USE <1>10 DEF Dispatch, effects
  <2>1. CASE event = NULL
    <3> USE <2>1
    <3>1. TypeOK'
      BY DEF TypeOK, LoopSteps
    <3>2. TimersOK'
      BY TimersStay
    <3>3. Operations' /\ SleepOK' /\ OvertakenOK'
      BY DEF Operations, SleepOK, SleepEndsForTimers, OvertakenOK
    <3> QED
      BY <3>1, <3>2, <3>3
  <2>2. CASE event # NULL
    <3> USE <2>2
    <3>1. /\ TimersOK' /\ TimerFields'
          /\ running' \in BOOLEAN /\ outcome' \in Outcomes
          /\ next_id' \in 0..MaxTimers
          /\ jobs' \in Nat /\ asked' \in 0..MaxJobs
          /\ \/ jobs' = jobs /\ asked' = asked
             \/ jobs' = jobs + 1 /\ asked' = asked + 1
      BY CallbackKeeps DEF TypeOK, Outcomes
    <3>2. ready' \subseteq Fds
      BY DEF TypeOK
    <3>3. OvertakenOK'
      BY DEF TypeOK, OvertakenOK
    <3>4. Operations' /\ SleepOK'
      BY <3>1, CallbackCounts DEF SleepOK, SleepEndsForTimers
    <3>5. jobs' \in 0..MaxJobs
      BY <3>1, <3>4, OperationsBound DEF TypeOK
    <3>6. TypeOK'
      BY <3>1, <3>2, <3>3, <3>5 DEF TypeOK, OvertakenOK, LoopSteps, TimerFields, Outcomes
    <3> QED
      BY <3>1, <3>3, <3>4, <3>6
  <2> QED
    BY <2>1, <2>2
<1>11. CASE Restore \/ EnqueuePill \/ Join
  <2>1. /\ pc \in {"restore", "returned", "join"} /\ pc' \in {"returned", "join", "free"}
        /\ pill' \in BOOLEAN
        /\ UNCHANGED <<now, loopvars, signals_received, ready, pending, jobs, worker, asked,
                       events, overtaken>>
    BY <1>11 DEF Restore, EnqueuePill, Join, workervars, TypeOK
  <2> USE <2>1 DEF loopvars, timervars
  <2>2. TypeOK'
    BY DEF TypeOK, LoopSteps
  <2>3. TimersOK'
    BY TimersStay
  <2>4. Operations' /\ SleepOK' /\ OvertakenOK'
    BY DEF Operations, SleepOK, SleepEndsForTimers, OvertakenOK
  <2> QED
    BY <2>2, <2>3, <2>4
<1> QED
  BY <1>1, <1>2, <1>3, <1>4, <1>5, <1>6, <1>7, <1>8, <1>9, <1>10, <1>11, <1>12
  DEF Loop

\* A signal wakes the loop or ends the process, and touches nothing else.
LEMMA DeliverKeeps ==
  ASSUME IInv, NEW s \in {"SIGINT", "SIGUSR1"}, Deliver(s),
         UNCHANGED <<now, running, timervars, sleep, ready, pending, events, overtaken>>
  PROVE  /\ TimersOK' /\ SleepOK' /\ OvertakenOK'
         /\ pc' \in LoopSteps
         /\ event' \in Fds \cup {NULL} /\ (deadline' = NULL \/ deadline' \in Nat)
         /\ signals_received' \subseteq {"SIGINT", "SIGUSR1"}
         /\ IF pc' = "peek" THEN id' \in Ids ELSE id' = NULL
<1> USE DEF IInv, timervars
<1>1. TimersOK'
  BY TimersStay
<1>2. \/ pc' \in {"killed", "signals"} /\ pc \in {"returned", "join", "epoll_wait"}
      \/ UNCHANGED <<pc, deadline>>
  BY DEF Deliver, Woken
<1>3. pc' = "signals" => pc \in {"epoll_wait", "signals"}
  BY DEF Deliver, Woken
<1>4. SleepOK' /\ OvertakenOK'
  BY <1>2, <1>3 DEF SleepOK, SleepEndsForTimers, OvertakenOK, Armed
<1>5. /\ pc' \in LoopSteps
      /\ event' \in Fds \cup {NULL} /\ (deadline' = NULL \/ deadline' \in Nat)
      /\ signals_received' \subseteq {"SIGINT", "SIGUSR1"}
  BY DEF Deliver, Woken, TypeOK, LoopSteps
<1>6. IF pc' = "peek" THEN id' \in Ids ELSE id' = NULL
  <2>1. \/ pc \in {"returned", "join", "epoll_wait"} /\ pc' \in {"killed", "signals"}
        \/ pc' = pc
    BY DEF Deliver, Woken
  <2>2. (IF pc = "peek" THEN id \in Ids ELSE id = NULL) /\ id' = id
    BY DEF TypeOK
  <2> QED
    BY <2>1, <2>2
<1> QED
  BY <1>1, <1>4, <1>5, <1>6

LEMMA WorkerKeeps ==
  ASSUME IInv, Worker
  PROVE  IInv'
<1> USE EventLoopAssumption
<1> USE DEF IInv
<1>1. CASE TakeJob \/ Enqueue \/ CheckRunning
  <2>1. /\ UNCHANGED <<now, pc, loopvars, signals_received, ready, asked, events, overtaken>>
        /\ pill' \in BOOLEAN
        /\ worker' \in {"dequeue", "operate", "kill", "check", "gone"}
    BY <1>1 DEF TakeJob, Enqueue, CheckRunning, TypeOK
  <2>2. Operations' /\ pending' \in Nat /\ jobs' \in Nat /\ pending' >= pending
    BY <1>1, <2>1 DEF TakeJob, Enqueue, CheckRunning, TypeOK, Operations
  <2>3. pending' \in 0..MaxJobs /\ jobs' \in 0..MaxJobs
    <3>1. asked' \in 0..MaxJobs
      BY <2>1 DEF TypeOK
    <3>2. pending' <= asked' /\ jobs' <= asked'
      BY <2>2, <3>1, OperationsBound
    <3> QED
      BY <2>2, <3>1, <3>2
  <2>4. TypeOK'
    BY <2>1, <2>3 DEF TypeOK, loopvars, timervars
  <2>5. TimersOK'
    BY <2>1, TimersStay DEF loopvars, timervars
  <2>6. SleepOK'
    BY <2>1 DEF SleepOK, SleepEndsForTimers, Armed, loopvars, timervars
  <2>7. OvertakenOK'
    BY <2>1, <2>2 DEF OvertakenOK, TypeOK
  <2> QED
    BY <2>2, <2>4, <2>5, <2>6, <2>7
<1>2. CASE Kill
  <2> USE <1>2 DEF Kill, timervars
  <2>1. /\ TimersOK' /\ SleepOK' /\ OvertakenOK'
        /\ pc' \in LoopSteps
        /\ event' \in Fds \cup {NULL} /\ (deadline' = NULL \/ deadline' \in Nat)
        /\ signals_received' \subseteq {"SIGINT", "SIGUSR1"}
        /\ IF pc' = "peek" THEN id' \in Ids ELSE id' = NULL
    BY DeliverKeeps
  <2>2. TypeOK'
    BY <2>1 DEF TypeOK
  <2>3. Operations'
    BY DEF Operations
  <2> QED
    BY <2>1, <2>2, <2>3
<1> QED
  BY <1>1, <1>2 DEF Worker

LEMMA EnvironmentKeeps ==
  ASSUME IInv, Environment
  PROVE  IInv'
<1> USE EventLoopAssumption
<1> USE DEF IInv
<1>1. CASE Tick \/ \E f \in Fds : BecomeReady(f)
  <2>1. /\ UNCHANGED <<pc, loopvars, signals_received, pending, workervars, overtaken>>
        /\ now' \in 0..MaxNow /\ ready' \subseteq Fds /\ events' \in 0..MaxEvents
    BY <1>1 DEF Tick, BecomeReady, TypeOK
  <2> USE <2>1 DEF loopvars, timervars, workervars
  <2>2. TypeOK'
    BY DEF TypeOK
  <2>3. TimersOK'
    BY TimersStay
  <2>4. Operations' /\ SleepOK' /\ OvertakenOK'
    BY DEF Operations, SleepOK, SleepEndsForTimers, OvertakenOK, Armed
  <2> QED
    BY <2>2, <2>3, <2>4
<1>2. CASE Interrupt
  <2> USE <1>2 DEF Interrupt, timervars, workervars
  <2>1. /\ TimersOK' /\ SleepOK' /\ OvertakenOK'
        /\ pc' \in LoopSteps
        /\ event' \in Fds \cup {NULL} /\ (deadline' = NULL \/ deadline' \in Nat)
        /\ signals_received' \subseteq {"SIGINT", "SIGUSR1"}
        /\ IF pc' = "peek" THEN id' \in Ids ELSE id' = NULL
    BY DeliverKeeps
  <2>2. TypeOK'
    BY <2>1 DEF TypeOK
  <2>3. Operations'
    BY DEF Operations
  <2> QED
    BY <2>1, <2>2, <2>3
<1> QED
  BY <1>1, <1>2 DEF Environment

LEMMA Inductive == IInv /\ [Next]_vars => IInv'
<1> SUFFICES ASSUME IInv, [Next]_vars PROVE IInv'
  OBVIOUS
<1>1. CASE Next
  BY <1>1, LoopKeeps, WorkerKeeps, EnvironmentKeeps DEF Next
<1>2. CASE UNCHANGED vars
  <2> USE <1>2 DEF vars, loopvars, timervars, workervars, IInv
  <2>1. TypeOK'
    BY DEF TypeOK
  <2>2. TimersOK'
    BY TimersStay
  <2>3. Operations' /\ SleepOK' /\ OvertakenOK'
    BY DEF Operations, SleepOK, SleepEndsForTimers, OvertakenOK, Armed
  <2> QED
    BY <2>1, <2>2, <2>3
<1> QED
  BY <1>1, <1>2

\* However the clock, the clients, the signals and the database thread go on, the
\* invariant holds of loop_run and of the end of main.
THEOREM Invariance == Spec => []IInv
  BY InitInvariant, Inductive, PTL DEF Spec

\* Every variable keeps its type, and no sleep is longer than the clock's bound.
THEOREM TypeCorrect == Spec => []TypeOK
<1>1. IInv => TypeOK
  BY DEF IInv
<1> QED
  BY <1>1, Invariance, PTL

\* A trigger that is complete is overtaken by one event at most.
THEOREM TriggersNotStarved == Spec => []OvertakenAtMostOnce
<1>1. IInv => OvertakenAtMostOnce
  BY DEF IInv, OvertakenOK, OvertakenAtMostOnce
<1> QED
  BY <1>1, Invariance, PTL

\* A loop that sleeps with timers to come has a deadline.
THEOREM SleepCorrect == Spec => []SleepEndsForTimers
<1>1. IInv => SleepEndsForTimers
  BY DEF IInv, SleepOK
<1> QED
  BY <1>1, Invariance, PTL

\* The borrow left in the heap never changes the time a timer stands for.
THEOREM TimeCorrect == Spec => []TimeKept
<1>1. IInv => TimeKept
  BY DEF IInv, TimersOK, TimerOK, TimeKept, Armed
<1> QED
  BY <1>1, Invariance, PTL

\* loop.h promises a timer's callback when the time is up.  A timer whose borrow is in
\* its seconds fires too early, but by less than a second, for any second.
LessThanASecondEarly ==
  [][\A i \in Ids : Fires(i) => now + NanosPerSec > due[i]]_vars

LEMMA FiringFacts ==
  ASSUME IInv, [Next]_vars, NEW i \in Ids, Fires(i)
  PROVE  /\ timers[i] \in Timespecs /\ timers[i].tv_nsec < 2 * NanosPerSec
         /\ Nanos(timers[i]) = due[i] /\ due[i] \in Int
         /\ now \in Nat /\ timespec_gt(Current, timers[i])
         /\ Current \in Timespecs /\ Current.tv_nsec < NanosPerSec /\ Nanos(Current) = now
<1>1. PICK j \in Ids : FireTimer(j)
  <2>1. pc = "timers" /\ pc' = "peek"
    BY DEF Fires
  <2>2. ~UNCHANGED vars /\ ~Environment /\ ~Worker
    BY <2>1 DEF vars, Environment, Worker, Tick, Interrupt, BecomeReady, TakeJob, Enqueue,
                Kill, CheckRunning, Deliver, Woken
  <2>3. Loop
    BY <2>2 DEF Next
  <2> QED
    BY <2>1, <2>3 DEF Loop, Top, RunPending, Drained, NoTimer, SetSleep, AfterTimer, Wait,
                      Timeout, ReturnReady, Woken, RunSignals, Dispatch, Restore,
                      EnqueuePill, Join
<1>2. j = i
  BY <1>1 DEF Fires, FireTimer
<1>3. /\ timers[i] \in Timespecs /\ timers[i].tv_nsec < 2 * NanosPerSec
      /\ Nanos(timers[i]) = due[i] /\ due[i] \in Int
      /\ now \in Nat /\ timespec_gt(Current, timers[i])
  BY <1>1, <1>2 DEF IInv, TypeOK, TimersOK, TimerOK, FireTimer, IsHead, Armed, Expired
<1> QED
  BY <1>3, CurrentTime DEF Current

THEOREM EarlyByLessThanASecond == Spec => LessThanASecondEarly
<1>1. ASSUME IInv, [Next]_vars, NEW i \in Ids, Fires(i)
      PROVE  now + NanosPerSec > due[i]
  <2>1. due[i] < now + NanosPerSec
    BY <1>1, FiringFacts, ExpiredWithinASecond
  <2> QED
    BY <1>1, <2>1, FiringFacts, Units
<1>2. IInv /\ [Next]_vars
        => [\A i \in Ids : Fires(i) => now + NanosPerSec > due[i]]_vars
  BY <1>1
<1> QED
  BY <1>2, Invariance, PTL DEF Spec, LessThanASecondEarly

\* Of normal times the fields are compared as the times are.
LEMMA ComparesNormalTimes ==
  ASSUME NEW a \in Timespecs, NEW b \in Timespecs,
         a.tv_nsec < NanosPerSec, b.tv_nsec < NanosPerSec, timespec_gt(a, b)
  PROVE  Nanos(b) < Nanos(a)
<1>1. /\ a.tv_sec \in Int /\ a.tv_nsec \in Nat /\ b.tv_sec \in Int /\ b.tv_nsec \in Nat
      /\ NanosPerSec \in Nat
  BY Units DEF Timespecs
<1>2. CASE a.tv_sec > b.tv_sec
  <2>1. b.tv_sec * NanosPerSec <= (a.tv_sec - 1) * NanosPerSec
    BY <1>1, <1>2
  <2>2. (a.tv_sec - 1) * NanosPerSec = a.tv_sec * NanosPerSec - NanosPerSec
    BY <1>1
  <2>3. a.tv_sec * NanosPerSec \in Int /\ b.tv_sec * NanosPerSec \in Int
    BY <1>1
  <2> QED
    BY <2>1, <2>2, <2>3, <1>1 DEF Nanos
<1>3. CASE a.tv_sec = b.tv_sec /\ a.tv_nsec > b.tv_nsec
  <2>1. a.tv_sec * NanosPerSec \in Int
    BY <1>1
  <2> QED
    BY <2>1, <1>1, <1>3 DEF Nanos
<1> QED
  BY <1>2, <1>3 DEF timespec_gt

\* A timer that fires early carries a borrow: no other does, for any clock, whatever
\* callbacks set, move and remove.
THEOREM OnTime == Spec => OnTimeUnlessBorrowed
<1>1. ASSUME IInv, [Next]_vars, NEW i \in Ids, Fires(i), timers[i].tv_nsec < NanosPerSec
      PROVE  now > due[i]
  <2>1. due[i] < now
    BY <1>1, FiringFacts, ComparesNormalTimes
  <2> QED
    BY <1>1, <2>1, FiringFacts
<1>2. IInv /\ [Next]_vars
        => [\A i \in Ids : Fires(i) /\ timers[i].tv_nsec < NanosPerSec => now > due[i]]_vars
  BY <1>1
<1> QED
  BY <1>2, Invariance, PTL DEF Spec, OnTimeUnlessBorrowed
=============================================================================
