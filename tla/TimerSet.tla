------------------------------ MODULE TimerSet ------------------------------
(* What time_heap.h promises of the timers themselves: each has an id of its  *)
(* own and stays as it was given until an operation is asked for that very id. *)
(* Which timer is the earliest is not said here.                               *)
EXTENDS Integers

CONSTANTS Times   \* expiry times on CLOCK_MONOTONIC

VARIABLES
  timers,   \* the armed timers, records of an id and a time
  issued,   \* how many ids heap_add has returned
  asked     \* the id that the last operation was about, NoId for heap_extract

vars == <<timers, issued, asked>>

NoId == -1

Init == timers = {} /\ issued = 0 /\ asked = NoId

Add(t) ==
  /\ timers' = timers \cup {[id |-> issued, timer |-> t]}
  /\ issued' = issued + 1
  /\ asked' = issued

\* "Removes a timer by its ID": that one, and none if it is gone already.
Remove(id) ==
  /\ timers' = {x \in timers : x.id # id}
  /\ asked' = id
  /\ UNCHANGED issued

\* The caller names no timer: one goes.
Extract ==
  /\ \E x \in timers : timers' = timers \ {x}
  /\ asked' = NoId
  /\ UNCHANGED issued

\* "Updates the identified timer"
Update(id, t) ==
  /\ timers' = {IF x.id = id THEN [x EXCEPT !.timer = t] ELSE x : x \in timers}
  /\ asked' = id
  /\ UNCHANGED issued

Next ==
  \/ \E t \in Times : Add(t)
  \/ \E id \in 0..(issued - 1) : Remove(id) \/ \E t \in Times : Update(id, t)
  \/ Extract

Spec == Init /\ [][Next]_vars
=============================================================================
