-------------------------------- MODULE Queue --------------------------------
(* The thread-safe queue of queue.c: a linked list under a mutex, and a       *)
(* semaphore that counts what was put in it.  A step is one access to shared  *)
(* memory, or a few that no other thread can tell apart, so that the order    *)
(* link / unlock / sem_post and the order sem_wait / lock / read matter.      *)
EXTENDS Naturals, Sequences, FiniteSets

CONSTANTS
  Threads,
  Producers,  \* threads that call queue_enqueue
  Waiters,    \* threads that call queue_dequeue
  Pollers,    \* threads that call queue_try_dequeue
  Nodes,      \* the memory calloc hands out; free gives a node back
  Values,     \* the pointers put in the queue; NULL is one the server does put in
  NULL

ASSUME QueueAssumption ==
  /\ Producers \subseteq Threads
  /\ Waiters \subseteq Threads
  /\ Pollers \subseteq Threads
  /\ IsFiniteSet(Threads)
  /\ NULL \notin Nodes
  /\ NULL \notin Threads

VARIABLES
  \* queue_t and its nodes
  head, tail, lock, sem, next, data,
  live,   \* nodes between their calloc and their free
  \* a thread's call, where it is in it, and its local variables
  call, pc, node, succ, val, ret,
  \* history: the linked nodes, oldest first, and who has taken a semaphore
  \* token it has not yet answered for
  chain, token

shared  == <<head, tail, next, data, live>>
locals  == <<node, succ, val, ret>>
vars    == <<head, tail, lock, sem, next, data, live,
             call, pc, node, succ, val, ret, chain, token>>

Calls == {"none", "enqueue", "dequeue", "try_dequeue"}
Steps == {"idle", "wait", "lock", "link", "tail", "unlock", "post",
          "read", "unlink", "none", "free"}

-----------------------------------------------------------------------------
(* queue_new *)
Init ==
  /\ head = NULL /\ tail = NULL /\ lock = NULL /\ sem = 0
  /\ next = [n \in Nodes |-> NULL]
  /\ data = [n \in Nodes |-> NULL]
  /\ live = {}
  /\ call = [t \in Threads |-> "none"]
  /\ pc   = [t \in Threads |-> "idle"]
  /\ node = [t \in Threads |-> NULL]
  /\ succ = [t \in Threads |-> NULL]
  /\ val  = [t \in Threads |-> NULL]
  /\ ret  = [t \in Threads |-> NULL]
  /\ chain = <<>>
  /\ token = [t \in Threads |-> FALSE]

At(t, from)     == pc[t] = from
Goto(t, to)     == pc' = [pc EXCEPT ![t] = to]
Calling(t, c)   == call' = [call EXCEPT ![t] = c]

\* The call ends, and its local variables with it.
Return(t) ==
  /\ Goto(t, "idle")
  /\ Calling(t, "none")
  /\ node' = [node EXCEPT ![t] = NULL]
  /\ succ' = [succ EXCEPT ![t] = NULL]
  /\ val'  = [val  EXCEPT ![t] = NULL]

-----------------------------------------------------------------------------
(* Both kinds of call work between these two. *)
Acquire(t) ==
  /\ At(t, "lock")
  /\ lock = NULL
  /\ lock' = t
  /\ Goto(t, IF call[t] = "enqueue" THEN "link" ELSE "read")
  /\ UNCHANGED <<shared, sem, call, locals, chain, token>>

\* An enqueuer goes on to sem_post, a dequeuer to free its old head.
Release(t) ==
  /\ At(t, "unlock")
  /\ lock' = NULL
  /\ Goto(t, IF call[t] = "enqueue" THEN "post" ELSE "free")
  /\ UNCHANGED <<shared, sem, call, locals, chain, token>>

-----------------------------------------------------------------------------
(* queue_enqueue *)
Alloc(t, n, v) ==
  /\ At(t, "idle")
  /\ n \notin live
  /\ live' = live \cup {n}
  /\ next' = [next EXCEPT ![n] = NULL]
  /\ data' = [data EXCEPT ![n] = v]
  /\ node' = [node EXCEPT ![t] = n]
  /\ Calling(t, "enqueue")
  /\ Goto(t, "lock")
  /\ UNCHANGED <<head, tail, lock, sem, succ, val, ret, chain, token>>

\* Mutant: the newest item is put in front.
Link_AtHead(t) ==
  /\ At(t, "link")
  /\ head' = node[t]
  /\ next' = [next EXCEPT ![node[t]] = head]
  /\ chain' = <<node[t]>> \o chain
  /\ Goto(t, "tail")
  /\ UNCHANGED <<tail, data, live, lock, sem, call, locals, token>>

Link(t) ==
  /\ At(t, "link")
  /\ IF head = NULL
     THEN head' = node[t] /\ UNCHANGED next
     ELSE next' = [next EXCEPT ![tail] = node[t]] /\ UNCHANGED head
  /\ chain' = Append(chain, node[t])
  /\ Goto(t, "tail")
  /\ UNCHANGED <<tail, data, live, lock, sem, call, locals, token>>

\* Mutant: only the first node becomes the tail.
SetTail_First(t) ==
  /\ At(t, "tail")
  /\ tail' = IF tail = NULL THEN node[t] ELSE tail
  /\ Goto(t, "unlock")
  /\ UNCHANGED <<head, next, data, live, lock, sem, call, locals, chain, token>>

SetTail(t) ==
  /\ At(t, "tail")
  /\ tail' = node[t]
  /\ Goto(t, "unlock")
  /\ UNCHANGED <<head, next, data, live, lock, sem, call, locals, chain, token>>

\* Mutant: a semaphore that only says whether there is something in the queue.
Post_Binary(t) ==
  /\ At(t, "post")
  /\ sem' = 1
  /\ Return(t)
  /\ UNCHANGED <<shared, lock, ret, chain, token>>

Post(t) ==
  /\ At(t, "post")
  /\ sem' = sem + 1
  /\ Return(t)
  /\ UNCHANGED <<shared, lock, ret, chain, token>>

-----------------------------------------------------------------------------
(* queue_dequeue and queue_try_dequeue *)
Dequeue(t) ==
  /\ At(t, "idle")
  /\ Calling(t, "dequeue")
  /\ Goto(t, "wait")
  /\ UNCHANGED <<shared, lock, sem, locals, chain, token>>

SemWait(t) ==
  /\ At(t, "wait")
  /\ sem > 0
  /\ sem' = sem - 1
  /\ token' = [token EXCEPT ![t] = TRUE]
  /\ Goto(t, "lock")
  /\ UNCHANGED <<shared, lock, call, locals, chain>>

\* Mutant: a token is taken whether there is one or not.
TryDequeue_Below(t) ==
  /\ At(t, "idle")
  /\ sem' = sem - 1
  /\ token' = [token EXCEPT ![t] = sem > 0]
  /\ Calling(t, "try_dequeue")
  /\ Goto(t, "lock")
  /\ UNCHANGED <<shared, lock, locals, chain>>

\* sem_trywait, whose result is ignored: the list is looked at with or without a token.
TryDequeue(t) ==
  /\ At(t, "idle")
  /\ sem' = IF sem > 0 THEN sem - 1 ELSE sem
  /\ token' = [token EXCEPT ![t] = sem > 0]
  /\ Calling(t, "try_dequeue")
  /\ Goto(t, "lock")
  /\ UNCHANGED <<shared, lock, locals, chain>>

\* Mutant: the node is freed before the head has moved on.
ReadHead_Free(t) ==
  /\ At(t, "read")
  /\ head # NULL
  /\ node' = [node EXCEPT ![t] = head]
  /\ val'  = [val  EXCEPT ![t] = data[head]]
  /\ succ' = [succ EXCEPT ![t] = next[head]]
  /\ live' = live \ {head}
  /\ Goto(t, "unlink")
  /\ UNCHANGED <<head, tail, next, data, lock, sem, call, ret, chain, token>>

ReadHead(t) ==
  /\ At(t, "read")
  /\ head # NULL
  /\ node' = [node EXCEPT ![t] = head]
  /\ val'  = [val  EXCEPT ![t] = data[head]]
  /\ succ' = [succ EXCEPT ![t] = next[head]]
  /\ Goto(t, "unlink")
  /\ UNCHANGED <<shared, lock, sem, call, ret, chain, token>>

ReadEmpty(t) ==
  /\ At(t, "read")
  /\ head = NULL
  /\ token' = [token EXCEPT ![t] = FALSE]
  /\ Goto(t, "none")
  /\ UNCHANGED <<shared, lock, sem, call, locals, chain>>

Unlink(t) ==
  /\ At(t, "unlink")
  /\ head' = succ[t]
  /\ chain' = Tail(chain)
  /\ token' = [token EXCEPT ![t] = FALSE]
  /\ Goto(t, "unlock")
  /\ UNCHANGED <<tail, next, data, live, lock, sem, call, locals>>

Free(t) ==
  /\ At(t, "free")
  /\ live' = live \ {node[t]}
  /\ ret' = [ret EXCEPT ![t] = val[t]]
  /\ Return(t)
  /\ UNCHANGED <<head, tail, next, data, lock, sem, chain, token>>

\* A spurious token: queue_dequeue sleeps again.
Retry(t) ==
  /\ At(t, "none")
  /\ call[t] = "dequeue"
  /\ lock' = NULL
  /\ Goto(t, "wait")
  /\ UNCHANGED <<shared, sem, call, locals, chain, token>>

ReturnNull(t) ==
  /\ At(t, "none")
  /\ call[t] = "try_dequeue"
  /\ lock' = NULL
  /\ ret' = [ret EXCEPT ![t] = NULL]
  /\ Return(t)
  /\ UNCHANGED <<shared, sem, chain, token>>

-----------------------------------------------------------------------------
Enter(t) ==
  \/ t \in Producers /\ \E n \in Nodes, v \in Values : Alloc(t, n, v)
  \/ t \in Waiters /\ Dequeue(t)
  \/ t \in Pollers /\ TryDequeue(t)

Continue(t) ==
  \/ Acquire(t) \/ Release(t)
  \/ Link(t) \/ SetTail(t) \/ Post(t)
  \/ SemWait(t) \/ ReadHead(t) \/ ReadEmpty(t) \/ Unlink(t) \/ Free(t)
  \/ Retry(t) \/ ReturnNull(t)

Next == \E t \in Threads : Enter(t) \/ Continue(t)

Spec == Init /\ [][Next]_vars

\* A thread that is in a call goes on with it, a thread that contends for the
\* mutex or the semaphore gets it in the end, and the thread of queue_dequeue
\* (database_thread) calls it again.  Nobody has to put anything in.
Fairness ==
  \A t \in Threads :
    /\ SF_vars(Continue(t))
    /\ t \in Waiters => WF_vars(Dequeue(t))

FairSpec == Spec /\ Fairness

-----------------------------------------------------------------------------
TypeOK ==
  /\ head \in Nodes \cup {NULL} /\ tail \in Nodes \cup {NULL}
  /\ lock \in Threads \cup {NULL}
  /\ sem \in Nat
  /\ next \in [Nodes -> Nodes \cup {NULL}]
  /\ data \in [Nodes -> Values \cup {NULL}]
  /\ live \subseteq Nodes
  /\ call \in [Threads -> Calls]
  /\ pc \in [Threads -> Steps]
  /\ node \in [Threads -> Nodes \cup {NULL}]
  /\ succ \in [Threads -> Nodes \cup {NULL}]
  /\ val \in [Threads -> Values \cup {NULL}]
  /\ ret \in [Threads -> Values \cup {NULL}]
  /\ chain \in Seq(Nodes)
  /\ token \in [Threads -> BOOLEAN]

\* Between pthread_mutex_lock and pthread_mutex_unlock.
Critical == {"link", "tail", "unlock", "read", "unlink", "none"}

\* Two threads are never between queue.c's lock and unlock at once.
MutualExclusion ==
  \A t \in Threads : pc[t] \in Critical <=> lock = t

\* The pointers of queue_t and of its nodes spell the list that was enqueued,
\* at every step of every caller.  tail is the last node unless an enqueuer is
\* between its two writes (queue.c:22-27); when the list is empty tail dangles.
ListShape ==
  /\ head = IF chain = <<>> THEN NULL ELSE chain[1]
  /\ \A i \in 1..Len(chain) :
       next[chain[i]] = IF i = Len(chain) THEN NULL ELSE chain[i + 1]
  /\ chain # <<>> /\ (\A t \in Threads : pc[t] # "tail")
       => tail = chain[Len(chain)]

\* A node one thread alone knows: not linked yet, or unlinked and to be freed.
Private(t) ==
  \/ call[t] = "enqueue" /\ pc[t] \in {"lock", "link"}
  \/ call[t] # "enqueue" /\ pc[t] \in {"unlock", "free"}

\* No node is in the list twice, no part of the list is freed memory, and the
\* node a thread is about to link or to free (queue.c:19, 46) is nobody else's.
NoDanglingNode ==
  /\ \A i, j \in 1..Len(chain) : chain[i] = chain[j] => i = j
  /\ \A i \in 1..Len(chain) : chain[i] \in live
  /\ \A t \in Threads : Private(t) =>
       /\ node[t] \in live
       /\ \A i \in 1..Len(chain) : chain[i] # node[t]
       /\ \A u \in Threads \ {t} : Private(u) => node[u] # node[t]

\* What a thread read of the list is still so when it acts on it (queue.c:41-44
\* and 57-60), and the node an enqueuer brings ends the list when it is linked.
NoStaleRead ==
  \A t \in Threads :
    /\ At(t, "unlink") =>
         /\ chain # <<>>
         /\ node[t] = chain[1]
         /\ val[t] = data[node[t]] /\ succ[t] = next[node[t]]
    /\ At(t, "tail") => chain # <<>> /\ node[t] = chain[Len(chain)]
    /\ call[t] = "enqueue" /\ pc[t] \in {"lock", "link"} => next[node[t]] = NULL

\* Between the threads' steps the queue touches no memory that another thread holds,
\* has freed or has changed since it was read.
MemorySafe == MutualExclusion /\ NoDanglingNode /\ NoStaleRead

\* An enqueuer whose node is linked and not yet counted.
Unposted == {t \in Threads : \/ pc[t] \in {"tail", "post"}
                             \/ pc[t] = "unlock" /\ call[t] = "enqueue"}
Holders  == {t \in Threads : token[t]}

\* Every linked node has a token: in the semaphore, in the hands of an enqueuer
\* about to post it or of a dequeuer on its way to the list.  So nobody sleeps
\* in sem_wait (queue.c:35) while an item waits, although queue_try_dequeue
\* takes items without a token.
SemaphoreCovers ==
  Len(chain) <= sem + Cardinality(Unposted) + Cardinality(Holders)

\* The queue is a FIFO (queue.h): an item is put in when it is linked, and taken
\* when the head moves over it, though the caller has it only when it returns.
Given(t) ==
  IF pc[t] \in {"unlock", "free"} /\ call[t] # "enqueue" THEN val[t]
  ELSE IF pc[t] = "none" /\ call[t] = "try_dequeue" THEN NULL
  ELSE ret[t]

Contents == [i \in 1..Len(chain) |-> data[chain[i]]]
Results  == [t \in Threads |-> Given(t)]

Abstract == INSTANCE Fifo WITH items <- Contents, got <- Results

ImplementsFifo == Abstract!Spec

\* With the database thread calling queue_dequeue for ever, what was linked is
\* taken in the end: no wakeup of queue.c is lost.
EveryItemTaken ==
  \A n \in Nodes :
    (\E i \in 1..Len(chain) : chain[i] = n) ~> (\A i \in 1..Len(chain) : chain[i] # n)
=============================================================================
