-------------------------------- MODULE Fifo --------------------------------
(* What queue.h promises of a queue_t, without its nodes, lock or semaphore: *)
(* items come out in the order they went in, each to one caller.  The loop   *)
(* and the database thread rely on nothing else.                             *)
EXTENDS Sequences

CONSTANTS
  Threads,  \* the callers
  Values,   \* what is put in the queue: the void pointers of queue_enqueue
  NULL      \* what queue_try_dequeue returns when there is nothing to take

VARIABLES
  items,    \* the contents, oldest first
  got       \* got[t]: what the last take of thread t gave it

vars == <<items, got>>

Init ==
  /\ items = <<>>
  /\ got = [t \in Threads |-> NULL]

Put(v) ==
  /\ items' = Append(items, v)
  /\ UNCHANGED got

Take(t) ==
  /\ items # <<>>
  /\ items' = Tail(items)
  /\ got' = [got EXCEPT ![t] = Head(items)]

\* Only queue_try_dequeue may come back without an item, and only when there is none.
FindEmpty(t) ==
  /\ items = <<>>
  /\ got' = [got EXCEPT ![t] = NULL]
  /\ UNCHANGED items

Next ==
  \/ \E v \in Values : Put(v)
  \/ \E t \in Threads : Take(t) \/ FindEmpty(t)

Spec == Init /\ [][Next]_vars
=============================================================================
