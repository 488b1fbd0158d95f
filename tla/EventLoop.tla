----------------------------- MODULE EventLoop -----------------------------
(* loop_run of loop.c on the loop thread, the database thread as far as it    *)
(* calls loop_trigger_fd, and the end of main in server.c, which stops both.  *)
(* The two queues are counted, not listed: Queue shows that they are FIFOs.   *)
EXTENDS Timespec, FiniteSets

CONSTANTS
  Fds,          \* the descriptors that epoll watches
  Delays,       \* milliseconds by which callbacks set and move timers
  Effects,      \* what a callback may do; bound: one of these a callback
  MaxNow,       \* bound of the clock
  MaxTimers,    \* bound: timers ever set; the heap keeps 2 in order
  MaxEvents,    \* bound: times a descriptor becomes ready
  MaxJobs,      \* bound: operations ever given to the database thread
  MaySignal,    \* whether SIGINT may come
  NULL

ASSUME EventLoopAssumption ==
  /\ Delays \subseteq Nat /\ MaxNow \in Nat
  /\ Effects \subseteq {"set", "move", "remove", "submit", "stop"}
  /\ MaxTimers \in 0..2 /\ MaxEvents \in Nat /\ MaxJobs \in Nat
  /\ MaySignal \in BOOLEAN
  /\ NULL \notin Fds /\ NULL \notin Nat

VARIABLES
  now,        \* CLOCK_MONOTONIC in nanoseconds
  \* the loop
  pc, running,
  timers,     \* the heap: expiration times by id, NULL once removed
  next_id,
  id,         \* the timer whose callback has run, NULL once it is dealt with
  sleep,      \* argument of epoll_wait: milliseconds, or -1
  deadline,   \* when epoll_wait times out, NULL if never
  event,      \* the descriptor epoll_wait returned, or NULL
  signals_received,
  ready,      \* descriptors that epoll reports
  pending,    \* length of pending_fd_callbacks
  \* the database thread
  jobs,       \* operations in database_queue
  pill,       \* main has enqueued the NULL operation
  worker,
  \* history: how often the environment acted, when an armed timer really is due and
  \* what has become of each, and the events dispatched while the oldest complete trigger
  \* waits
  events, asked, due, outcome, overtaken

timervars  == <<timers, next_id, id, due, outcome>>
loopvars   == <<running, timervars, sleep, deadline, event>>
workervars == <<jobs, pill, worker, asked>>
\* What a callback may change.
effects    == <<running, timers, next_id, due, outcome, jobs, asked>>
vars       == <<now, pc, loopvars, signals_received, ready, pending, workervars,
                events, overtaken>>

Ids     == 0..(MaxTimers - 1)
Armed   == {i \in Ids : timers[i] # NULL}
Current == FromNanos(now)
Expired(i) == timespec_gt(Current, timers[i])

Init ==
  /\ now = 0
  /\ pc = "top" /\ running = TRUE
  /\ timers = [i \in Ids |-> NULL] /\ next_id = 0 /\ id = NULL
  /\ sleep = -1 /\ deadline = NULL /\ event = NULL
  /\ signals_received = {} /\ ready = {}
  /\ pending = 0
  /\ jobs = 0 /\ pill = FALSE /\ worker = "dequeue"
  /\ events = 0 /\ asked = 0
  /\ due = [i \in Ids |-> 0] /\ outcome = [i \in Ids |-> "waits"]
  /\ overtaken = 0

-----------------------------------------------------------------------------
(* What a callback may do to the loop.  own is the timer whose callback it    *)
(* is, or NULL, and become the outcomes but for what the callback does.       *)
loop_add_timer_relative(d, become) ==
  /\ "set" \in Effects /\ next_id < MaxTimers
  /\ now + d * NanosPerMilli < MaxNow
  /\ timers' = [timers EXCEPT ![next_id] = modify_millis(Current, d)]
  /\ due' = [due EXCEPT ![next_id] = now + d * NanosPerMilli]
  /\ next_id' = next_id + 1
  /\ outcome' = become
  /\ UNCHANGED <<running, jobs, asked>>

\* From the time the timer had, which may leave it in the past.
loop_update_timer_relative(i, d, become) ==
  /\ "move" \in Effects
  /\ due[i] + d * NanosPerMilli < MaxNow
  /\ timers' = [timers EXCEPT ![i] = modify_millis(@, d)]
  /\ due' = [due EXCEPT ![i] = @ + d * NanosPerMilli]
  /\ outcome' = [become EXCEPT ![i] = "waits"]
  /\ UNCHANGED <<running, next_id, jobs, asked>>

loop_remove_timer(i, become) ==
  /\ "remove" \in Effects
  /\ timers' = [timers EXCEPT ![i] = NULL]
  /\ due' = [due EXCEPT ![i] = 0]
  /\ outcome' = [become EXCEPT ![i] = "removed"]
  /\ UNCHANGED <<running, next_id, jobs, asked>>

\* The database thread is given an operation.
Submit(become) ==
  /\ "submit" \in Effects /\ asked < MaxJobs
  /\ asked' = asked + 1
  /\ jobs' = jobs + 1
  /\ outcome' = become
  /\ UNCHANGED <<running, timers, next_id, due>>

Stop(become) ==
  /\ "stop" \in Effects
  /\ running' = FALSE
  /\ outcome' = become
  /\ UNCHANGED <<timers, next_id, due, jobs, asked>>

Callback(own, become) ==
  \/ outcome' = become /\ UNCHANGED <<running, timers, next_id, due, jobs, asked>>
  \/ \E d \in Delays : loop_add_timer_relative(d, become)
  \/ \E i \in Armed, d \in Delays : loop_update_timer_relative(i, d, become)
  \/ \E i \in Armed \ {own} : loop_remove_timer(i, become)
  \/ Submit(become) \/ Stop(become)

-----------------------------------------------------------------------------
(* loop_run *)
Top ==
  /\ pc = "top"
  /\ pc' = IF running THEN "drain" ELSE "restore"
  /\ UNCHANGED <<now, loopvars, signals_received, ready, pending, workervars,
                 events, overtaken>>

RunPending ==
  /\ pc = "drain"
  /\ pending > 0
  /\ pending' = pending - 1
  /\ overtaken' = 0
  /\ Callback(NULL, outcome)
  /\ UNCHANGED <<now, pc, id, sleep, deadline, event, signals_received, ready, pill,
                 worker, events>>

\* Mutant: one turn of the loop leaves the rest of the queue to the next one.
Drained_Early ==
  /\ pc = "drain"
  /\ pc' = "timers"
  /\ UNCHANGED <<now, loopvars, signals_received, ready, pending, workervars,
                 events, overtaken>>

Drained ==
  /\ pc = "drain"
  /\ pending = 0
  /\ pc' = "timers"
  /\ UNCHANGED <<now, loopvars, signals_received, ready, pending, workervars,
                 events, overtaken>>

\* The timer on top of the heap: none is before it.
IsHead(i) == i \in Armed /\ \A j \in Armed : ~timespec_gt(timers[i], timers[j])

NoTimer ==
  /\ pc = "timers"
  /\ Armed = {}
  /\ sleep' = -1
  /\ pc' = "wait"
  /\ UNCHANGED <<now, running, timervars, deadline, event, signals_received, ready,
                 pending, workervars, events, overtaken>>

\* The callback of the timer on top, which may move that timer or another one.
FireTimer(i) ==
  /\ pc = "timers"
  /\ IsHead(i) /\ Expired(i)
  /\ pc' = "peek"
  /\ id' = i
  /\ Callback(i, [outcome EXCEPT ![i] = "fired"])
  /\ UNCHANGED <<now, sleep, deadline, event, signals_received, ready, pending, pill,
                 worker, events, overtaken>>

\* A timer that is expired still is removed, or again: a timer moved to a time that
\* is past never fires.
AfterTimer ==
  /\ pc = "peek"
  /\ pc' = "timers"
  /\ id' = NULL
  /\ IF Expired(id)
     THEN /\ timers' = [timers EXCEPT ![id] = NULL]
          /\ due' = [due EXCEPT ![id] = 0]
          /\ outcome' = [outcome EXCEPT ![id] = IF @ = "waits" THEN "dropped" ELSE @]
     ELSE UNCHANGED <<timers, due, outcome>>
  /\ UNCHANGED <<now, running, next_id, sleep, deadline, event, signals_received,
                 ready, pending, workervars, events, overtaken>>

\* Mutant: the loop goes to sleep although the timer on top has expired.
SetSleep_Expired(i) ==
  /\ pc = "timers"
  /\ IsHead(i)
  /\ sleep' = timer_subtract(timers[i], Current)
  /\ timers' = [timers EXCEPT ![i] = Borrowed(@, Current)]
  /\ pc' = "wait"
  /\ UNCHANGED <<now, running, next_id, id, due, outcome, deadline, event,
                 signals_received, ready, pending, workervars, events, overtaken>>

\* timer_subtract is given the timer in the heap, and changes it there.
SetSleep(i) ==
  /\ pc = "timers"
  /\ IsHead(i)
  /\ ~Expired(i)
  /\ sleep' = timer_subtract(timers[i], Current)
  /\ timers' = [timers EXCEPT ![i] = Borrowed(@, Current)]
  /\ pc' = "wait"
  /\ UNCHANGED <<now, running, next_id, id, due, outcome, deadline, event,
                 signals_received, ready, pending, workervars, events, overtaken>>

\* Mutant: epoll_wait is called although a callback has stopped the loop.
Wait_Always ==
  /\ pc = "wait"
  /\ event' = NULL
  /\ pc' = "epoll_wait"
  /\ deadline' = IF sleep < 0 THEN NULL ELSE now + sleep * NanosPerMilli
  /\ UNCHANGED <<now, running, timervars, sleep, signals_received, ready, pending,
                 workervars, events, overtaken>>

\* Mutant: a sleep of no milliseconds is taken for none at all.
Wait_ZeroForever ==
  /\ pc = "wait"
  /\ event' = NULL
  /\ IF running
     THEN /\ pc' = "epoll_wait"
          /\ deadline' = IF sleep <= 0 THEN NULL ELSE now + sleep * NanosPerMilli
     ELSE pc' = "signals" /\ UNCHANGED deadline
  /\ UNCHANGED <<now, running, timervars, sleep, signals_received, ready, pending,
                 workervars, events, overtaken>>

Wait ==
  /\ pc = "wait"
  /\ event' = NULL
  /\ IF running
     THEN /\ pc' = "epoll_wait"
          /\ deadline' = IF sleep < 0 THEN NULL ELSE now + sleep * NanosPerMilli
     ELSE pc' = "signals" /\ UNCHANGED deadline
  /\ UNCHANGED <<now, running, timervars, sleep, signals_received, ready, pending,
                 workervars, events, overtaken>>

Woken(f) ==
  /\ pc' = "signals"
  /\ event' = f
  /\ deadline' = NULL

ReturnReady(f) ==
  /\ pc = "epoll_wait"
  /\ f \in ready
  /\ Woken(f)
  /\ UNCHANGED <<now, running, timervars, sleep, signals_received, ready, pending,
                 workervars, events, overtaken>>

\* The clock at its bound stands for every later time.
Timeout ==
  /\ pc = "epoll_wait"
  /\ ready = {}
  /\ deadline # NULL
  /\ now >= deadline \/ now = MaxNow
  /\ Woken(NULL)
  /\ UNCHANGED <<now, running, timervars, sleep, signals_received, ready, pending,
                 workervars, events, overtaken>>

\* sigint_handler stops the loop, ignore_handler does nothing.
RunSignals ==
  /\ pc = "signals"
  /\ signals_received' = {}
  /\ running' = (running /\ "SIGINT" \notin signals_received)
  /\ pc' = "dispatch"
  /\ UNCHANGED <<now, timervars, sleep, deadline, event, ready, pending, workervars,
                 events, overtaken>>

\* The callback takes all there is to read, or leaves some: epoll is level-triggered.
Dispatch ==
  /\ pc = "dispatch"
  /\ pc' = "top"
  /\ event' = NULL
  /\ IF event = NULL
     THEN UNCHANGED <<ready, overtaken, effects>>
     ELSE /\ ready' \in {ready, ready \ {event}}
          /\ overtaken' =
               IF pending > 1 \/ (pending = 1 /\ worker # "kill") THEN overtaken + 1 ELSE overtaken
          /\ Callback(NULL, outcome)
  /\ UNCHANGED <<now, id, sleep, deadline, signals_received, pending, pill, worker,
                 events>>

\* After this a SIGUSR1 has its default action again.
Restore ==
  /\ pc = "restore"
  /\ pc' = "returned"
  /\ UNCHANGED <<now, loopvars, signals_received, ready, pending, workervars,
                 events, overtaken>>

-----------------------------------------------------------------------------
(* The end of main *)
EnqueuePill ==
  /\ pc = "returned"
  /\ pill' = TRUE
  /\ pc' = "join"
  /\ UNCHANGED <<now, loopvars, signals_received, ready, pending, jobs, worker, asked,
                 events, overtaken>>

\* queue_free of pending_fd_callbacks and of database_queue come after this.
Join ==
  /\ pc = "join"
  /\ worker = "gone"
  /\ pc' = "free"
  /\ UNCHANGED <<now, loopvars, signals_received, ready, pending, workervars,
                 events, overtaken>>

-----------------------------------------------------------------------------
(* database_thread and loop_trigger_fd *)
\* A signal runs signal_caught on the loop thread and ends its epoll_wait, if it
\* is in one; once loop_run has given the handlers back SIGUSR1 ends the process.
Deliver(s) ==
  IF pc \in {"returned", "join"} THEN
    pc' = "killed" /\ UNCHANGED <<signals_received, event, deadline>>
  ELSE
    /\ signals_received' = signals_received \cup {s}
    /\ IF pc = "epoll_wait" THEN Woken(NULL) ELSE UNCHANGED <<pc, event, deadline>>

TakeJob ==
  /\ worker = "dequeue"
  /\ IF jobs > 0
     THEN jobs' = jobs - 1 /\ worker' = "operate" /\ UNCHANGED pill
     ELSE pill /\ pill' = FALSE /\ worker' = "gone" /\ UNCHANGED jobs
  /\ UNCHANGED <<now, pc, loopvars, signals_received, ready, pending, asked,
                 events, overtaken>>

Enqueue ==
  /\ worker = "operate"
  /\ pending' = pending + 1
  /\ worker' = "kill"
  /\ UNCHANGED <<now, pc, loopvars, signals_received, ready, jobs, pill, asked,
                 events, overtaken>>

Kill ==
  /\ worker = "kill"
  /\ Deliver("SIGUSR1")
  /\ worker' = "check"
  /\ UNCHANGED <<now, running, timervars, sleep, ready, pending, jobs, pill, asked,
                 events, overtaken>>

CheckRunning ==
  /\ worker = "check"
  /\ worker' = IF running THEN "dequeue" ELSE "gone"
  /\ UNCHANGED <<now, pc, loopvars, signals_received, ready, pending, jobs, pill, asked,
                 events, overtaken>>

-----------------------------------------------------------------------------
(* The environment *)
Tick ==
  /\ now < MaxNow
  /\ now' = now + 1
  /\ UNCHANGED <<pc, loopvars, signals_received, ready, pending, workervars, events, overtaken>>

BecomeReady(f) ==
  /\ f \notin ready
  /\ events < MaxEvents
  /\ events' = events + 1
  /\ ready' = ready \cup {f}
  /\ UNCHANGED <<now, pc, loopvars, signals_received, pending, workervars, overtaken>>

Interrupt ==
  /\ MaySignal
  /\ running /\ "SIGINT" \notin signals_received
  /\ Deliver("SIGINT")
  /\ UNCHANGED <<now, running, timervars, sleep, ready, pending, workervars, events,
                 overtaken>>

-----------------------------------------------------------------------------
Alive == pc # "killed"

Loop ==
  \/ Top \/ RunPending \/ Drained \/ NoTimer
  \/ \E i \in Ids : FireTimer(i) \/ SetSleep(i)
  \/ AfterTimer
  \/ Wait \/ Timeout \/ \E f \in Fds : ReturnReady(f)
  \/ RunSignals \/ Dispatch \/ Restore \/ EnqueuePill \/ Join

Worker == Alive /\ (TakeJob \/ Enqueue \/ Kill \/ CheckRunning)

Environment == Alive /\ (Tick \/ Interrupt \/ \E f \in Fds : BecomeReady(f))

Next == Loop \/ Worker \/ Environment

Spec == Init /\ [][Next]_vars

\* The scheduler runs both threads and the clock goes on.  Nothing is promised
\* of the clients and the signals.
FairSpec == Spec /\ WF_vars(Loop) /\ WF_vars(Worker) /\ WF_vars(Alive /\ Tick)

-----------------------------------------------------------------------------
LoopSteps == {"top", "drain", "timers", "peek", "wait", "epoll_wait", "signals", "dispatch",
              "restore", "returned", "join", "free", "killed"}

TypeOK ==
  /\ now \in 0..MaxNow
  /\ pc \in LoopSteps
  /\ running \in BOOLEAN
  /\ next_id \in 0..MaxTimers
  /\ IF pc = "peek" THEN id \in Ids ELSE id = NULL
  /\ outcome \in [Ids -> {"waits", "fired", "removed", "dropped"}]
  /\ \A i \in Ids : timers[i] = NULL \/ timers[i] \in [tv_sec : Int, tv_nsec : Nat]
  /\ sleep \in -1..MaxNow
  /\ deadline = NULL \/ deadline \in Nat
  /\ event \in Fds \cup {NULL}
  /\ signals_received \subseteq {"SIGINT", "SIGUSR1"}
  /\ ready \subseteq Fds
  /\ pending \in 0..MaxJobs /\ jobs \in 0..MaxJobs /\ asked \in 0..MaxJobs
  /\ pill \in BOOLEAN
  /\ worker \in {"dequeue", "operate", "kill", "check", "gone"}
  /\ events \in 0..MaxEvents
  /\ overtaken \in Nat

\* Between the enqueue of a complete loop_trigger_fd and its callback the loop
\* dispatches at most one event (loop.c:316-327): a busy loop starves no answer.
OvertakenAtMostOnce == overtaken <= 1

\* A loop that sleeps with timers to come has a deadline: no timer depends on an
\* event or a trigger to be noticed, whatever callbacks set while it was awake.
SleepEndsForTimers == pc = "epoll_wait" /\ Armed # {} => deadline # NULL

\* However the events, signals, triggers and callbacks fall, a timer that is waited
\* for fires in the end while the loop runs (loop.h:109 "triggers the callback when
\* the time is up"), unless a callback removes it, or its own callback moves it to a
\* time already past: that one the loop drops unfired (loop.c:344), against loop.h.
TimersFire ==
  \A i \in Ids :
    timers[i] # NULL /\ outcome[i] = "waits"
      ~> outcome[i] \in {"fired", "removed", "dropped"} \/ ~running

\* Once any callback has stopped the loop, a timer's between two others or one that
\* runs just before the loop goes to sleep, loop_run returns without another event.
LoopReturns == ~running ~> pc \in {"returned", "join", "free", "killed"}

\* The borrow that timer_subtract leaves in the heap (loop.c:353) changes a
\* timer's fields but not the time they stand for.
TimeKept == \A i \in Armed : Nanos(timers[i]) = due[i]

\* No timer fires before it is due, whenever callbacks set, move or remove timers and
\* however often the loop wakes and goes back to sleep, except one that carries a
\* borrowed second: that one the comparison of the fields takes for past too early,
\* against loop.h:109.
Fires(i) == pc = "timers" /\ pc' = "peek" /\ id' = i
OnTimeUnlessBorrowed ==
  [][\A i \in Ids : Fires(i) /\ timers[i].tv_nsec < NanosPerSec => now > due[i]]_vars

\* "Interrupts the call to poll and queues an fd callback": the callback is run.
TriggersServed == pending > 0 /\ running ~> pending = 0 \/ ~running

\* main frees both queues when the database thread is gone, and queue_free asserts
\* that there is nothing left in either.
QueuesFreedEmpty == pc = "free" => pending = 0 /\ jobs = 0 /\ ~pill
=============================================================================
