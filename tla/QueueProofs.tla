----------------------------- MODULE QueueProofs -----------------------------
(* What holds of the queue for any threads, nodes and values: its invariants, *)
(* and that it implements Fifo.                                               *)
EXTENDS Queue, FiniteSetTheorems, SequenceTheorems, TLAPS

\* A call is only ever at a step of its own function.
CallAt ==
  \A t \in Threads :
    /\ pc[t] = "idle" <=> call[t] = "none"
    /\ pc[t] \in {"link", "tail", "post"} => call[t] = "enqueue"
    /\ pc[t] \in {"wait", "read", "unlink", "none", "free"} =>
         call[t] \in {"dequeue", "try_dequeue"}

\* The inductive invariant.
IInv ==
  /\ TypeOK
  /\ CallAt
  /\ MutualExclusion
  /\ ListShape
  /\ NoDanglingNode
  /\ NoStaleRead

-----------------------------------------------------------------------------
\* Appending a node to the list: what each position of the longer list holds.
LEMMA AppendFacts ==
  ASSUME NEW S, NEW s \in Seq(S), NEW e \in S
  PROVE  /\ Append(s, e) \in Seq(S)
         /\ Append(s, e) # <<>>
         /\ Len(Append(s, e)) = Len(s) + 1
         /\ Len(s) \in Nat
         /\ \A i \in 1..Len(s) : Append(s, e)[i] = s[i]
         /\ Append(s, e)[Len(s) + 1] = e
  OBVIOUS

\* Taking the head off the list: every other node moves one place forward.
LEMMA TailFacts ==
  ASSUME NEW S, NEW s \in Seq(S), s # <<>>
  PROVE  /\ Tail(s) \in Seq(S)
         /\ Len(Tail(s)) = Len(s) - 1
         /\ Len(s) \in Nat \ {0}
         /\ \A i \in 1..Len(Tail(s)) : Tail(s)[i] = s[i + 1]
         /\ Tail(s) = <<>> <=> Len(s) = 1
<1>1. Len(s) \in Nat \ {0}
  BY EmptySeq
<1>2. /\ Tail(s) \in Seq(S)
      /\ Len(Tail(s)) = Len(s) - 1
      /\ \A i \in 1..Len(Tail(s)) : Tail(s)[i] = s[i + 1]
  BY HeadTailProperties
<1>3. Tail(s) = <<>> <=> Len(Tail(s)) = 0
  BY <1>2, EmptySeq
<1> QED BY <1>1, <1>2, <1>3

-----------------------------------------------------------------------------
LEMMA InitIInv == Init => IInv
  BY QueueAssumption
  DEF Init, IInv, TypeOK, CallAt, MutualExclusion, ListShape, NoDanglingNode,
      NoStaleRead, Private, At, Critical, Calls, Steps

LEMMA AcquireIInv ==
  ASSUME IInv, NEW t \in Threads, Acquire(t)
  PROVE  IInv'
  BY QueueAssumption
  DEF Acquire, At, Goto, shared, locals,
      IInv, TypeOK, CallAt, MutualExclusion, ListShape, NoDanglingNode,
      NoStaleRead, Private, Critical, Calls, Steps

LEMMA ReleaseIInv ==
  ASSUME IInv, NEW t \in Threads, Release(t)
  PROVE  IInv'
  BY QueueAssumption
  DEF Release, At, Goto, shared, locals,
      IInv, TypeOK, CallAt, MutualExclusion, ListShape, NoDanglingNode,
      NoStaleRead, Private, Critical, Calls, Steps

LEMMA LinkIInv ==
  ASSUME IInv, NEW t \in Threads, Link(t)
  PROVE  IInv'
<1> USE QueueAssumption DEF Link, At, Goto, locals, IInv
<1>0. /\ node[t] \in Nodes
      /\ node[t] # NULL
      /\ next[node[t]] = NULL
      /\ call[t] = "enqueue"
      /\ lock = t
      /\ \A i \in 1..Len(chain) : chain[i] # node[t]
  BY DEF TypeOK, CallAt, NoDanglingNode, NoStaleRead, Private, Critical, MutualExclusion
<1>1. TypeOK'
  BY <1>0, AppendFacts DEF TypeOK, Steps
<1>2. CallAt'
  BY <1>0 DEF CallAt, TypeOK
<1>3. MutualExclusion'
  BY <1>0 DEF MutualExclusion, TypeOK, Critical
<1>4. ListShape'
  BY <1>0, AppendFacts DEF ListShape, TypeOK, NoDanglingNode, MutualExclusion, Critical
<1>5. NoDanglingNode'
  BY <1>0, AppendFacts DEF NoDanglingNode, TypeOK, Private
<1>6. NoStaleRead'
  <2>1. head # NULL => tail = chain[Len(chain)] /\ Len(chain) \in Nat \ {0}
    BY <1>0, EmptySeq DEF ListShape, TypeOK, MutualExclusion, Critical
  <2>2. \A u \in Threads : call[u] = "enqueue" /\ pc[u] \in {"lock", "link"} =>
          node[u] \in Nodes /\ (head # NULL => node[u] # tail)
    BY <2>1 DEF NoDanglingNode, Private, TypeOK
  <2>3. \A u \in Threads \ {t} : pc[u] \notin Critical
    BY <1>0 DEF MutualExclusion
  <2>4. \A u \in Threads : call'[u] = "enqueue" /\ pc'[u] \in {"lock", "link"} =>
          next'[node'[u]] = NULL
    BY <1>0, <2>2 DEF NoStaleRead, TypeOK
  <2>5. chain' # <<>> /\ node'[t] = chain'[Len(chain')]
    <3>1. chain \in Seq(Nodes) /\ chain' = Append(chain, node[t]) /\ node' = node
      BY DEF TypeOK
    <3>2. /\ Append(chain, node[t]) # <<>>
          /\ Len(Append(chain, node[t])) = Len(chain) + 1
          /\ Append(chain, node[t])[Len(chain) + 1] = node[t]
      BY <1>0, <3>1, AppendFacts
    <3> QED BY <3>1, <3>2
  <2> QED BY <1>0, <2>3, <2>4, <2>5 DEF NoStaleRead, TypeOK, Critical
<1> QED BY <1>1, <1>2, <1>3, <1>4, <1>5, <1>6

LEMMA AllocIInv ==
  ASSUME IInv, NEW t \in Threads, NEW n \in Nodes, NEW v \in Values, Alloc(t, n, v)
  PROVE  IInv'
<1> USE QueueAssumption DEF Alloc, At, Goto, Calling, IInv
<1>0. \A i \in 1..Len(chain) : chain[i] \in Nodes /\ chain[i] # n
  BY ElementOfSeq DEF TypeOK, NoDanglingNode
<1>1. TypeOK'
  BY DEF TypeOK, Steps, Calls
<1>2. CallAt'
  BY DEF CallAt, TypeOK
<1>3. MutualExclusion'
  BY DEF MutualExclusion, TypeOK, Critical
<1>4. ListShape'
  BY <1>0 DEF ListShape, TypeOK
<1>5. NoDanglingNode'
  BY <1>0 DEF NoDanglingNode, TypeOK, Private
<1>6. NoStaleRead'
  <2>1. \A u \in Threads \ {t} : At(u, "unlink") => node[u] # n /\ node[u] \in Nodes
    BY <1>0, EmptySeq DEF NoStaleRead, TypeOK
  <2>2. \A u \in Threads \ {t} : Private(u) => node[u] # n
    BY DEF NoDanglingNode
  <2> QED BY <2>1, <2>2 DEF NoStaleRead, TypeOK, Private
<1> QED BY <1>1, <1>2, <1>3, <1>4, <1>5, <1>6

LEMMA SetTailIInv ==
  ASSUME IInv, NEW t \in Threads, SetTail(t)
  PROVE  IInv'
<1> USE QueueAssumption DEF SetTail, At, Goto, locals, IInv
<1>0. call[t] = "enqueue" /\ lock = t /\ chain # <<>> /\ node[t] = chain[Len(chain)]
  BY DEF CallAt, MutualExclusion, Critical, NoStaleRead
<1>1. TypeOK'
  BY DEF TypeOK, Steps
<1>2. CallAt' /\ MutualExclusion'
  BY <1>0 DEF CallAt, MutualExclusion, TypeOK, Critical
<1>3. ListShape'
  BY <1>0 DEF ListShape, TypeOK
<1>4. NoDanglingNode' /\ NoStaleRead'
  BY <1>0 DEF NoDanglingNode, NoStaleRead, Private, TypeOK
<1> QED BY <1>1, <1>2, <1>3, <1>4

LEMMA PostIInv ==
  ASSUME IInv, NEW t \in Threads, Post(t)
  PROVE  IInv'
  BY QueueAssumption
  DEF Post, Return, At, Goto, Calling, shared,
      IInv, TypeOK, CallAt, MutualExclusion, ListShape, NoDanglingNode,
      NoStaleRead, Private, Critical, Calls, Steps

LEMMA DequeueIInv ==
  ASSUME IInv, NEW t \in Threads, Dequeue(t)
  PROVE  IInv'
  BY QueueAssumption
  DEF Dequeue, At, Goto, Calling, shared, locals,
      IInv, TypeOK, CallAt, MutualExclusion, ListShape, NoDanglingNode,
      NoStaleRead, Private, Critical, Calls, Steps

LEMMA SemWaitIInv ==
  ASSUME IInv, NEW t \in Threads, SemWait(t)
  PROVE  IInv'
  BY QueueAssumption
  DEF SemWait, At, Goto, shared, locals,
      IInv, TypeOK, CallAt, MutualExclusion, ListShape, NoDanglingNode,
      NoStaleRead, Private, Critical, Calls, Steps

LEMMA TryDequeueIInv ==
  ASSUME IInv, NEW t \in Threads, TryDequeue(t)
  PROVE  IInv'
  BY QueueAssumption
  DEF TryDequeue, At, Goto, Calling, shared, locals,
      IInv, TypeOK, CallAt, MutualExclusion, ListShape, NoDanglingNode,
      NoStaleRead, Private, Critical, Calls, Steps

LEMMA ReadHeadIInv ==
  ASSUME IInv, NEW t \in Threads, ReadHead(t)
  PROVE  IInv'
<1> USE QueueAssumption DEF ReadHead, At, Goto, shared, IInv
<1>0. chain # <<>> /\ head = chain[1] /\ head \in Nodes
  BY DEF ListShape, TypeOK
<1>1. TypeOK'
  BY <1>0 DEF TypeOK, Steps
<1>2. CallAt' /\ MutualExclusion'
  BY DEF CallAt, MutualExclusion, TypeOK, Critical
<1>3. ListShape'
  BY <1>0 DEF ListShape, TypeOK
<1>4. NoDanglingNode' /\ NoStaleRead'
  BY <1>0 DEF NoDanglingNode, NoStaleRead, Private, TypeOK, CallAt
<1> QED BY <1>1, <1>2, <1>3, <1>4

LEMMA ReadEmptyIInv ==
  ASSUME IInv, NEW t \in Threads, ReadEmpty(t)
  PROVE  IInv'
  BY QueueAssumption
  DEF ReadEmpty, At, Goto, shared, locals,
      IInv, TypeOK, CallAt, MutualExclusion, ListShape, NoDanglingNode,
      NoStaleRead, Private, Critical, Calls, Steps

LEMMA UnlinkIInv ==
  ASSUME IInv, NEW t \in Threads, Unlink(t)
  PROVE  IInv'
<1> USE QueueAssumption DEF Unlink, At, Goto, locals, IInv
<1>0. /\ call[t] \in {"dequeue", "try_dequeue"}
      /\ lock = t
      /\ chain # <<>>
      /\ node[t] = chain[1] /\ succ[t] = next[node[t]]
      /\ head' = succ[t] /\ tail' = tail /\ next' = next
      /\ pc[t] = "unlink"
  BY DEF CallAt, MutualExclusion, Critical, NoStaleRead
<1>1. /\ chain' \in Seq(Nodes)
      /\ Len(chain') = Len(chain) - 1
      /\ Len(chain) \in Nat \ {0}
      /\ \A i \in 1..Len(chain') : chain'[i] = chain[i + 1]
      /\ chain' = <<>> <=> Len(chain) = 1
  BY <1>0, TailFacts DEF TypeOK
<1>2. \A u \in Threads \ {t} : pc[u] \notin Critical
  BY <1>0 DEF MutualExclusion
<1>3. TypeOK'
  BY <1>1 DEF TypeOK, Steps
<1>4. CallAt' /\ MutualExclusion'
  BY <1>0 DEF CallAt, MutualExclusion, TypeOK, Critical
<1>5. ListShape'
  <2>0. ListShape
    OBVIOUS
  <2> HIDE DEF Unlink, IInv
  <2>1. head' = IF chain' = <<>> THEN NULL ELSE chain'[1]
    <3>1. head' = IF Len(chain) = 1 THEN NULL ELSE chain[2]
      BY <1>0, <1>1, <2>0 DEF ListShape
    <3>2. Len(chain) # 1 => chain'[1] = chain[2]
      <4>1. Len(chain) # 1 => 1 \in 1..Len(chain')
        BY <1>1
      <4> QED BY <1>1, <4>1
    <3> QED BY <1>1, <3>1, <3>2
  <2>2. ASSUME NEW i \in 1..Len(chain')
        PROVE  next'[chain'[i]] = IF i = Len(chain') THEN NULL ELSE chain'[i + 1]
    <3>1. i + 1 \in 1..Len(chain) /\ chain'[i] = chain[i + 1] /\ next' = next
      BY <1>0, <1>1
    <3>2. next[chain[i + 1]] = IF i + 1 = Len(chain) THEN NULL ELSE chain[i + 2]
      BY <2>0, <3>1 DEF ListShape
    <3>3. i # Len(chain') => chain'[i + 1] = chain[i + 2]
      <4>1. i # Len(chain') => i + 1 \in 1..Len(chain')
        BY <1>1
      <4>2. i # Len(chain') => chain'[i + 1] = chain[(i + 1) + 1]
        BY <1>1, <4>1
      <4>3. (i + 1) + 1 = i + 2
        OBVIOUS
      <4> QED BY <4>2, <4>3
    <3>4. i = Len(chain') <=> i + 1 = Len(chain)
      BY <1>1
    <3> QED BY <3>1, <3>2, <3>3, <3>4
  <2>3. chain' # <<>> => tail' = chain'[Len(chain')]
    <3>1. tail = chain[Len(chain)]
      BY <1>0, <1>2, <2>0 DEF ListShape, Critical
    <3> QED BY <1>0, <1>1, <3>1
  <2> QED BY <2>1, <2>2, <2>3 DEF ListShape
<1>6. NoDanglingNode'
  <2>1. \A i, j \in 1..Len(chain') : chain'[i] = chain'[j] => i = j
    BY <1>1 DEF NoDanglingNode
  <2>2. \A i \in 1..Len(chain') : chain'[i] \in live' /\ chain'[i] # node[t]
    BY <1>0, <1>1 DEF NoDanglingNode
  <2>3. node[t] \in live /\ \A u \in Threads \ {t} : Private(u) => node[u] # node[t]
    BY <1>0, <1>1 DEF NoDanglingNode
  <2>4. \A u \in Threads : Private(u)' => u = t \/ Private(u)
    BY DEF Private, TypeOK
  <2>5. \A u \in Threads : Private(u) => \A i \in 1..Len(chain') : chain'[i] # node[u]
    BY <1>1 DEF NoDanglingNode
  <2> QED BY <2>1, <2>2, <2>3, <2>4, <2>5 DEF NoDanglingNode
<1>7. NoStaleRead'
  BY <1>0, <1>2 DEF NoStaleRead, TypeOK, Critical
<1> QED BY <1>3, <1>4, <1>5, <1>6, <1>7

LEMMA FreeIInv ==
  ASSUME IInv, NEW t \in Threads, Free(t)
  PROVE  IInv'
<1> USE QueueAssumption DEF Free, Return, At, Goto, Calling, IInv
<1>0. call[t] \in {"dequeue", "try_dequeue"} /\ Private(t)
  BY DEF CallAt, Private
<1>1. TypeOK'
  BY DEF TypeOK, Steps, Calls
<1>2. CallAt' /\ MutualExclusion'
  BY DEF CallAt, MutualExclusion, TypeOK, Critical
<1>3. ListShape'
  BY DEF ListShape, TypeOK
<1>4. NoDanglingNode' /\ NoStaleRead'
  BY <1>0 DEF NoDanglingNode, NoStaleRead, Private, TypeOK
<1> QED BY <1>1, <1>2, <1>3, <1>4

LEMMA RetryIInv ==
  ASSUME IInv, NEW t \in Threads, Retry(t)
  PROVE  IInv'
  BY QueueAssumption
  DEF Retry, At, Goto, shared, locals,
      IInv, TypeOK, CallAt, MutualExclusion, ListShape, NoDanglingNode,
      NoStaleRead, Private, Critical, Calls, Steps

LEMMA ReturnNullIInv ==
  ASSUME IInv, NEW t \in Threads, ReturnNull(t)
  PROVE  IInv'
  BY QueueAssumption
  DEF ReturnNull, Return, At, Goto, Calling, shared,
      IInv, TypeOK, CallAt, MutualExclusion, ListShape, NoDanglingNode,
      NoStaleRead, Private, Critical, Calls, Steps

-----------------------------------------------------------------------------
LEMMA NextIInv == IInv /\ [Next]_vars => IInv'
<1> SUFFICES ASSUME IInv, [Next]_vars PROVE IInv'
  OBVIOUS
<1>1. CASE UNCHANGED vars
  BY <1>1 DEF vars, IInv, TypeOK, CallAt, MutualExclusion, ListShape,
              NoDanglingNode, NoStaleRead, Private, At
<1>2. ASSUME NEW t \in Threads, Enter(t) PROVE IInv'
  BY <1>2, AllocIInv, DequeueIInv, TryDequeueIInv DEF Enter
<1>3. ASSUME NEW t \in Threads, Continue(t) PROVE IInv'
  BY <1>3, AcquireIInv, ReleaseIInv, LinkIInv, SetTailIInv, PostIInv, SemWaitIInv,
     ReadHeadIInv, ReadEmptyIInv, UnlinkIInv, FreeIInv, RetryIInv, ReturnNullIInv
  DEF Continue
<1> QED BY <1>1, <1>2, <1>3 DEF Next

THEOREM Invariance == Spec => []IInv
  BY InitIInv, NextIInv, PTL DEF Spec

\* The state of the queue and of its callers always has its type (queue.h:7-17).
THEOREM TypeCorrect == Spec => []TypeOK
  BY Invariance, PTL DEF IInv

\* At every step the pointers spell the list of what was enqueued.
THEOREM ListCorrect == Spec => []ListShape
  BY Invariance, PTL DEF IInv

\* The mutex keeps the list accesses of queue.c:20-29, 36-45 and 53-62 apart, no
\* reachable node is freed memory, and what a caller read under the lock holds when
\* it unlinks.
THEOREM MemoryCorrect == Spec => []MemorySafe
  BY Invariance, PTL DEF IInv, MemorySafe

-----------------------------------------------------------------------------
(* The semaphore. *)

\* Only a dequeuer that has not looked at the list yet, or that is about to
\* unlink, has a token to answer for.
TokenAt ==
  \A t \in Threads : token[t] =>
    call[t] \in {"dequeue", "try_dequeue"} /\ pc[t] \in {"lock", "read", "unlink"}

LEMMA TokenAtInvariant == Spec => []TokenAt
<1>1. Init => TokenAt
  BY DEF Init, TokenAt
<1>2. IInv /\ TokenAt /\ [Next]_vars => TokenAt'
  BY DEF Next, Enter, Continue, vars, IInv, TypeOK, CallAt, TokenAt, Alloc, Dequeue,
         TryDequeue, Acquire, Release, Link, SetTail, Post, SemWait, ReadHead, ReadEmpty,
         Unlink, Free, Retry, ReturnNull, Return, At, Goto, Calling, shared, locals
<1> QED BY <1>1, <1>2, Invariance, PTL DEF Spec

\* The sets of threads that are counted are finite.
LEMMA FiniteCounts ==
  /\ IsFiniteSet(Unposted) /\ Cardinality(Unposted) \in Nat
  /\ IsFiniteSet(Holders)  /\ Cardinality(Holders) \in Nat
<1>1. Unposted \subseteq Threads /\ Holders \subseteq Threads
  BY DEF Unposted, Holders
<1>2. IsFiniteSet(Unposted) /\ IsFiniteSet(Holders)
  BY <1>1, QueueAssumption, FS_Subset
<1> QED BY <1>2, FS_CardinalityType

LEMMA SemaphoreStep == IInv /\ TokenAt /\ SemaphoreCovers /\ [Next]_vars => SemaphoreCovers'
<1> SUFFICES ASSUME IInv, TokenAt, SemaphoreCovers, [Next]_vars
             PROVE  SemaphoreCovers'
  OBVIOUS
<1>0. /\ Len(chain) \in Nat /\ chain \in Seq(Nodes) /\ sem \in Nat
      /\ pc \in [Threads -> Steps] /\ call \in [Threads -> Calls]
      /\ token \in [Threads -> BOOLEAN]
  BY DEF IInv, TypeOK
<1>1. ASSUME UNCHANGED <<chain, sem>>, Unposted' = Unposted, Holders' = Holders
      PROVE  SemaphoreCovers'
  BY <1>1 DEF SemaphoreCovers
<1>2. CASE UNCHANGED vars
  BY <1>2, <1>1 DEF vars, Unposted, Holders
<1>3. ASSUME NEW t \in Threads,
             Acquire(t) \/ Release(t) \/ SetTail(t) \/ ReadHead(t) \/ Free(t) \/ Retry(t)
               \/ ReturnNull(t) \/ Dequeue(t) \/ \E n \in Nodes, v \in Values : Alloc(t, n, v)
      PROVE  SemaphoreCovers'
  <2>1. UNCHANGED <<chain, sem, token>>
    BY <1>3 DEF Acquire, Release, SetTail, ReadHead, Free, Retry, ReturnNull, Dequeue, Alloc,
                shared, locals
  <2>2. Unposted' = Unposted
    BY <1>0, <1>3 DEF Acquire, Release, SetTail, ReadHead, Free, Retry, ReturnNull, Dequeue,
                Alloc, Unposted, At, Goto, Calling, Return, shared, locals, IInv, CallAt
  <2> QED BY <1>1, <2>1, <2>2 DEF Holders
<1>4. ASSUME NEW t \in Threads, Link(t) PROVE SemaphoreCovers'
  <2>1. Len(chain') = Len(chain) + 1
    <3>1. node[t] \in Nodes /\ chain' = Append(chain, node[t])
      BY <1>4 DEF IInv, TypeOK, CallAt, NoDanglingNode, Private, Link, At
    <3> QED BY <1>0, <3>1, AppendFacts
  <2>2. t \notin Unposted /\ Unposted' = Unposted \cup {t}
    BY <1>0, <1>4 DEF Link, At, Goto, Unposted, locals
  <2>3. Holders' = Holders /\ sem' = sem
    BY <1>4 DEF Link, Holders, locals
  <2>4. Cardinality(Unposted') = Cardinality(Unposted) + 1
    BY <2>2, FiniteCounts, FS_AddElement
  <2> QED BY <1>0, <2>1, <2>3, <2>4, FiniteCounts DEF SemaphoreCovers
<1>5. ASSUME NEW t \in Threads, Post(t) PROVE SemaphoreCovers'
  <2>1. t \in Unposted /\ Unposted' = Unposted \ {t}
    BY <1>0, <1>5 DEF Post, At, Goto, Calling, Return, Unposted, shared
  <2>2. Holders' = Holders /\ sem' = sem + 1 /\ chain' = chain
    BY <1>5 DEF Post, Holders, shared
  <2>3. Cardinality(Unposted') = Cardinality(Unposted) - 1
    BY <2>1, FiniteCounts, FS_RemoveElement
  <2> QED BY <1>0, <2>2, <2>3, FiniteCounts DEF SemaphoreCovers
<1>6. ASSUME NEW t \in Threads, SemWait(t) \/ TryDequeue(t) PROVE SemaphoreCovers'
  <2>1. t \notin Holders /\ chain' = chain
    BY <1>6 DEF SemWait, TryDequeue, At, Holders, TokenAt, shared
  <2>2. Unposted' = Unposted
    BY <1>0, <1>6 DEF SemWait, TryDequeue, At, Goto, Calling, Unposted, shared, locals,
                      IInv, CallAt
  <2>3. \/ sem' = sem /\ Holders' = Holders
        \/ sem' = sem - 1 /\ sem > 0 /\ Holders' = Holders \cup {t}
    <3>1. CASE sem > 0
      <4>1. sem' = sem - 1 /\ token' = [token EXCEPT ![t] = TRUE]
        BY <1>6, <3>1 DEF SemWait, TryDequeue
      <4> QED BY <1>0, <3>1, <4>1 DEF Holders
    <3>2. CASE ~ (sem > 0)
      <4>1. sem' = sem /\ token' = [token EXCEPT ![t] = sem > 0]
        BY <1>6, <3>2 DEF SemWait, TryDequeue
      <4>2. (sem > 0) = FALSE
        BY <3>2
      <4>3. token' = [token EXCEPT ![t] = FALSE]
        BY <4>1, <4>2, Zenon
      <4> QED BY <1>0, <2>1, <4>1, <4>3 DEF Holders
    <3> QED BY <3>1, <3>2
  <2>4. Cardinality(Holders \cup {t}) = Cardinality(Holders) + 1
    BY <2>1, FiniteCounts, FS_AddElement
  <2>5. /\ sem' + Cardinality(Holders') = sem + Cardinality(Holders)
        /\ sem' \in Int /\ Cardinality(Holders') \in Int
    <3>1. CASE sem' = sem /\ Holders' = Holders
      <4>1. Cardinality(Holders') = Cardinality(Holders)
        BY <3>1, Zenon
      <4> QED BY <1>0, <3>1, <4>1, FiniteCounts
    <3>2. CASE sem' = sem - 1 /\ sem > 0 /\ Holders' = Holders \cup {t}
      <4>1. Cardinality(Holders') = Cardinality(Holders) + 1
        BY <2>4, <3>2, Zenon
      <4>2. Cardinality(Holders) \in Nat
        BY FiniteCounts
      <4> QED BY <1>0, <3>2, <4>1, <4>2
    <3> QED BY <2>3, <3>1, <3>2
  <2> QED
    <3>1. /\ Len(chain') = Len(chain)
          /\ Cardinality(Unposted') = Cardinality(Unposted)
      BY <2>1, <2>2, Zenon
    <3> QED BY <1>0, <2>5, <3>1, FiniteCounts DEF SemaphoreCovers
<1>7. ASSUME NEW t \in Threads, ReadEmpty(t) \/ Unlink(t) PROVE SemaphoreCovers'
  <2>1. Len(chain') \in Nat /\ (Len(chain') = 0 \/ Len(chain') = Len(chain) - 1)
    <3>1. CASE ReadEmpty(t)
      <4>1. chain' = chain /\ (chain # <<>> => chain[1] = NULL)
        BY <3>1 DEF ReadEmpty, shared, IInv, ListShape
      <4>2. chain # <<>> => 1 \in 1..Len(chain) /\ chain[1] \in Nodes
        BY <1>0, EmptySeq, ElementOfSeq
      <4> QED BY <1>0, <4>1, <4>2, EmptySeq, QueueAssumption
    <3>2. CASE Unlink(t)
      <4>1. chain # <<>> /\ chain' = Tail(chain)
        BY <3>2 DEF Unlink, IInv, NoStaleRead
      <4> QED BY <1>0, <4>1, TailFacts
    <3> QED BY <1>7, <3>1, <3>2
  <2>2. Unposted' = Unposted /\ sem' = sem
    BY <1>0, <1>7 DEF ReadEmpty, Unlink, At, Goto, Unposted, shared, locals, IInv, CallAt
  <2>3. Holders' = Holders \ {t}
    BY <1>0, <1>7 DEF ReadEmpty, Unlink, Holders
  <2>4. /\ Cardinality(Holders') >= Cardinality(Holders) - 1
        /\ Cardinality(Holders') \in Nat
    <3>1. /\ IsFiniteSet(Holders \ {t})
          /\ Cardinality(Holders \ {t}) =
               IF t \in Holders THEN Cardinality(Holders) - 1 ELSE Cardinality(Holders)
      BY FiniteCounts, FS_RemoveElement
    <3>2. Cardinality(Holders \ {t}) \in Nat
      BY <3>1, FS_CardinalityType
    <3> QED BY <2>3, <3>1, <3>2, FiniteCounts
  <2> QED BY <1>0, <2>1, <2>2, <2>4, FiniteCounts DEF SemaphoreCovers
<1> QED BY <1>2, <1>3, <1>4, <1>5, <1>6, <1>7 DEF Next, Enter, Continue

\* No token is missing: a linked item always has one, held or still to be held.
THEOREM SemaphoreCorrect == Spec => []SemaphoreCovers
<1>1. Init => SemaphoreCovers
  <2>1. ASSUME Init PROVE Len(chain) = 0 /\ sem = 0
    BY <2>1, EmptySeq DEF Init
  <2> QED BY <2>1, FiniteCounts DEF SemaphoreCovers
<1> QED BY <1>1, SemaphoreStep, Invariance, TokenAtInvariant, PTL DEF Spec

-----------------------------------------------------------------------------
(* The queue implements Fifo. *)

\* A node holds an enqueued pointer from its calloc on.
KnownData == \A n \in live : data[n] \in Values

LEMMA KnownDataInvariant == Spec => []KnownData
<1>1. Init => KnownData
  BY DEF Init, KnownData
<1>2. IInv /\ KnownData /\ [Next]_vars => KnownData'
  BY DEF Next, Enter, Continue, vars, IInv, TypeOK, KnownData, Alloc, Dequeue,
         TryDequeue, Acquire, Release, Link, SetTail, Post, SemWait, ReadHead, ReadEmpty,
         Unlink, Free, Retry, ReturnNull, Return, At, Goto, Calling, shared, locals
<1> QED BY <1>1, <1>2, Invariance, PTL DEF Spec

\* Contents as a sequence.
LEMMA ContentsFacts ==
  ASSUME IInv, KnownData
  PROVE  /\ Contents \in Seq(Values)
         /\ Len(Contents) = Len(chain)
         /\ Len(chain) \in Nat
         /\ \A i \in 1..Len(chain) : Contents[i] = data[chain[i]]
         /\ Contents = <<>> <=> chain = <<>>
<1>1. Len(chain) \in Nat /\ (chain = <<>> <=> Len(chain) = 0)
  BY EmptySeq DEF IInv, TypeOK
<1>2. \A i \in 1..Len(chain) : data[chain[i]] \in Values
  BY DEF IInv, NoDanglingNode, KnownData
<1>3. Contents \in [1..Len(chain) -> Values]
  BY <1>2 DEF Contents
<1>4. Contents \in Seq(Values) /\ Len(Contents) = Len(chain)
  BY <1>1, <1>3
<1> QED BY <1>1, <1>3, <1>4, EmptySeq DEF Contents

\* The steps that move nothing in or out and return nothing map to stutters.
LEMMA QuietStep ==
  ASSUME IInv, NEW t \in Threads,
         \/ \E n \in Nodes, v \in Values : Alloc(t, n, v)
         \/ Dequeue(t) \/ TryDequeue(t) \/ Acquire(t) \/ Release(t) \/ SetTail(t) \/ Post(t)
         \/ SemWait(t) \/ ReadHead(t) \/ Free(t) \/ Retry(t) \/ ReturnNull(t)
         \/ ReadEmpty(t) /\ call[t] = "dequeue"
  PROVE  Contents' = Contents /\ Results' = Results
<1>1. chain' = chain /\ \A i \in 1..Len(chain) : data'[chain[i]] = data[chain[i]]
  <2>1. CASE \E n \in Nodes, v \in Values : Alloc(t, n, v)
    BY <2>1 DEF Alloc, IInv, TypeOK, NoDanglingNode
  <2>2. CASE ~ \E n \in Nodes, v \in Values : Alloc(t, n, v)
    BY <2>2 DEF Dequeue, TryDequeue, Acquire, Release, SetTail, Post, SemWait, ReadHead,
                Free, Retry, ReturnNull, ReadEmpty, shared, locals
  <2> QED BY <2>1, <2>2
<1>2. Contents' = Contents
  BY <1>1 DEF Contents
<1>3. \A u \in Threads : Given(u)' = Given(u)
  BY DEF Given, Alloc, Dequeue, TryDequeue, Acquire, Release, SetTail, Post, SemWait,
         ReadHead, Free, Retry, ReturnNull, ReadEmpty, Return, At, Goto, Calling,
         shared, locals, IInv, TypeOK, CallAt
<1> QED BY <1>2, <1>3 DEF Results

LEMMA LinkPuts ==
  ASSUME IInv, KnownData, NEW t \in Threads, Link(t)
  PROVE  \E v \in Values : Abstract!Put(v)
<1>1. /\ node[t] \in live /\ node[t] \in Nodes
      /\ chain' = Append(chain, node[t]) /\ data' = data /\ chain \in Seq(Nodes)
  BY DEF Link, At, IInv, TypeOK, CallAt, NoDanglingNode, Private
<1>2. /\ data[node[t]] \in Values
      /\ Contents \in Seq(Values) /\ Len(Contents) = Len(chain)
  BY <1>1, ContentsFacts DEF KnownData
<1>3. /\ Len(chain') = Len(chain) + 1
      /\ \A i \in 1..Len(chain) : chain'[i] = chain[i]
      /\ chain'[Len(chain) + 1] = node[t]
      /\ Len(chain) \in Nat
  BY <1>1, AppendFacts
<1>4. Contents' = Append(Contents, data[node[t]])
  <2>1. Contents' = [i \in 1..Len(chain) + 1 |-> data[chain'[i]]]
    BY <1>1, <1>3 DEF Contents
  <2>2. \A i \in 1..Len(chain) + 1 :
          data[chain'[i]] = IF i <= Len(chain) THEN Contents[i] ELSE data[node[t]]
    BY <1>3 DEF Contents
  <2>3. Append(Contents, data[node[t]]) =
          [i \in 1..Len(Contents) + 1 |->
             IF i = Len(Contents) + 1 THEN data[node[t]] ELSE Contents[i]]
    BY <1>2
  <2> QED BY <1>2, <1>3, <2>1, <2>2, <2>3
<1>5. Results' = Results
  <2>1. \A u \in Threads : Given(u)' = Given(u)
    BY DEF Given, Link, At, Goto, locals, IInv, TypeOK
  <2> QED BY <2>1 DEF Results
<1> QED BY <1>2, <1>4, <1>5 DEF Abstract!Put

LEMMA UnlinkTakes ==
  ASSUME IInv, KnownData, NEW t \in Threads, Unlink(t)
  PROVE  Abstract!Take(t)
<1>1. /\ chain # <<>> /\ chain \in Seq(Nodes) /\ chain' = Tail(chain) /\ data' = data
      /\ val[t] = data[chain[1]]
      /\ call[t] # "enqueue"
  BY DEF Unlink, At, IInv, TypeOK, NoStaleRead, CallAt
<1>2. /\ Contents \in Seq(Values) /\ Contents # <<>> /\ Len(Contents) = Len(chain)
      /\ \A i \in 1..Len(chain) : Contents[i] = data[chain[i]]
  BY <1>1, ContentsFacts
<1>3. /\ Len(chain') = Len(chain) - 1 /\ Len(chain) \in Nat \ {0}
      /\ \A i \in 1..Len(chain') : chain'[i] = chain[i + 1]
  BY <1>1, TailFacts
<1>4. Contents' = Tail(Contents)
  <2>1. Contents' = [i \in 1..Len(chain) - 1 |-> data[chain[i + 1]]]
    BY <1>1, <1>3 DEF Contents
  <2>2. Tail(Contents) = [i \in 1..Len(Contents) - 1 |-> Contents[i + 1]]
    <3>1. /\ Tail(Contents) \in Seq(Values)
          /\ Len(Tail(Contents)) = Len(Contents) - 1
          /\ \A i \in 1..Len(Contents) - 1 : Tail(Contents)[i] = Contents[i + 1]
      BY <1>2, TailFacts
    <3>2. Tail(Contents) \in [1..Len(Contents) - 1 -> Values]
      BY <3>1, LenProperties
    <3> QED BY <3>1, <3>2
  <2> QED BY <1>2, <1>3, <2>1, <2>2
<1>5. Head(Contents) = val[t]
  BY <1>1, <1>2, <1>3
<1>6. Results' = [Results EXCEPT ![t] = val[t]]
  <2>1. \A u \in Threads : Given(u)' = IF u = t THEN val[t] ELSE Given(u)
    BY <1>1 DEF Given, Unlink, At, Goto, locals, IInv, TypeOK
  <2> QED BY <2>1 DEF Results
<1> QED BY <1>2, <1>4, <1>5, <1>6 DEF Abstract!Take

LEMMA EmptyFound ==
  ASSUME IInv, KnownData, NEW t \in Threads, ReadEmpty(t), call[t] = "try_dequeue"
  PROVE  Abstract!FindEmpty(t)
<1>1. chain = <<>>
  <2>1. chain # <<>> => 1 \in 1..Len(chain) /\ chain[1] \in Nodes
    BY EmptySeq, ElementOfSeq DEF IInv, TypeOK
  <2> QED BY <2>1, QueueAssumption DEF ReadEmpty, IInv, ListShape
<1>2. Contents = <<>> /\ Contents' = Contents
  BY <1>1, ContentsFacts DEF Contents, ReadEmpty, shared
<1>3. Results' = [Results EXCEPT ![t] = NULL]
  <2>1. \A u \in Threads : Given(u)' = IF u = t THEN NULL ELSE Given(u)
    BY DEF Given, ReadEmpty, At, Goto, locals, IInv, TypeOK
  <2> QED BY <2>1 DEF Results
<1> QED BY <1>2, <1>3 DEF Abstract!FindEmpty

\* The queue of queue.c, threads interleaving at every shared access, is a FIFO
\* as queue.h says: linking a node puts its pointer in, unlinking takes it out,
\* and queue_try_dequeue returns NULL only if it saw an empty queue.
THEOREM QueueIsFifo == Spec => ImplementsFifo
<1>1. Init => Abstract!Init
  BY EmptySeq DEF Init, Abstract!Init, Contents, Results, Given
<1>2. IInv /\ KnownData /\ [Next]_vars => [Abstract!Next]_(Abstract!vars)
  <2> SUFFICES ASSUME IInv, KnownData, [Next]_vars
               PROVE  Abstract!Next \/ (Contents' = Contents /\ Results' = Results)
    BY DEF Abstract!vars
  <2>1. CASE UNCHANGED vars
    BY <2>1 DEF vars, Contents, Results, Given
  <2>2. ASSUME NEW t \in Threads, Enter(t)
        PROVE  Contents' = Contents /\ Results' = Results
    BY <2>2, QuietStep DEF Enter
  <2>3. ASSUME NEW t \in Threads, Continue(t)
        PROVE  Abstract!Next \/ (Contents' = Contents /\ Results' = Results)
    <3>1. CASE Link(t)
      BY <3>1, LinkPuts DEF Abstract!Next
    <3>2. CASE Unlink(t)
      BY <3>2, UnlinkTakes DEF Abstract!Next
    <3>3. CASE ReadEmpty(t)
      <4>1. call[t] \in {"dequeue", "try_dequeue"}
        BY <3>3 DEF ReadEmpty, At, IInv, CallAt
      <4> QED BY <3>3, <4>1, EmptyFound, QuietStep DEF Abstract!Next
    <3>4. CASE ~ (Link(t) \/ Unlink(t) \/ ReadEmpty(t))
      BY <2>3, <3>4, QuietStep DEF Continue
    <3> QED BY <3>1, <3>2, <3>3, <3>4
  <2> QED BY <2>1, <2>2, <2>3 DEF Next
<1> QED BY <1>1, <1>2, Invariance, KnownDataInvariant, PTL
        DEF Spec, ImplementsFifo, Abstract!Spec
=============================================================================
