------------------------------ MODULE Timespec ------------------------------
(* The arithmetic of loop.c and time_heap.c on struct timespec, with smaller  *)
(* seconds and milliseconds than the real ones so that TLC sees the carries.  *)
EXTENDS Integers

CONSTANTS
  NanosPerSec,    \* 1000000000 in the code
  NanosPerMilli   \* 1000000 in the code

ASSUME TimespecAssumption ==
  /\ NanosPerMilli \in Nat \ {0}
  /\ \E k \in 1..NanosPerSec : NanosPerSec = k * NanosPerMilli

MillisPerSec == NanosPerSec \div NanosPerMilli

\* Division and remainder of C, which truncate towards zero.
CDiv(a, b) == IF a >= 0 THEN a \div b ELSE -((-a) \div b)
CMod(a, b) == a - b * CDiv(a, b)

Timespec(s, n) == [tv_sec |-> s, tv_nsec |-> n]
Nanos(t)       == t.tv_sec * NanosPerSec + t.tv_nsec
FromNanos(n)   == Timespec(n \div NanosPerSec, n % NanosPerSec)

\* Mutant: the nanoseconds count in different seconds, too.
timespec_gt_Fields(a, b) == a.tv_sec > b.tv_sec \/ a.tv_nsec > b.tv_nsec

\* Compares the fields in turn: only for normal ones is it the order of time.
timespec_gt(a, b) ==
  a.tv_sec > b.tv_sec \/ (a.tv_sec = b.tv_sec /\ a.tv_nsec > b.tv_nsec)

\* tu_modify_timer for TU_MILLISECONDS; the other units only add seconds.
modify_millis(t, time) ==
  LET s == t.tv_sec + CDiv(time, MillisPerSec)
      n == t.tv_nsec + CMod(time, MillisPerSec) * NanosPerMilli
  IN  IF n < 0 THEN Timespec(s - 1, n + NanosPerSec)
      ELSE IF n >= NanosPerSec THEN Timespec(s + 1, n - NanosPerSec)
      ELSE Timespec(s, n)

\* Mutant: the borrowed second is not added to the nanoseconds.
Borrowed_NoCarry(a, b) ==
  IF a.tv_nsec < b.tv_nsec THEN Timespec(a.tv_sec - 1, a.tv_nsec) ELSE a

\* timer_subtract writes the borrow into its first argument: what it leaves there ...
Borrowed(a, b) ==
  IF a.tv_nsec < b.tv_nsec THEN Timespec(a.tv_sec - 1, a.tv_nsec + NanosPerSec) ELSE a

\* ... and what it returns, in milliseconds.
timer_subtract(a, b) ==
  LET x == Borrowed(a, b)
  IN  (x.tv_sec - b.tv_sec) * MillisPerSec + CDiv(x.tv_nsec - b.tv_nsec, NanosPerMilli)
=============================================================================
