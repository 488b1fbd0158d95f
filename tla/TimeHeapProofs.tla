--------------------------- MODULE TimeHeapProofs ---------------------------
(* What holds of the timers for any number of slots, ids and times.  Only the  *)
(* implementation of TimerSet asks callers to remove armed timers alone.       *)
EXTENDS TimeHeap, Lemmas

\* The first h slots have been used: two of them never share an id, whether their
\* timers are armed or gone, and the table, stale entries included, leads to them.
Known(h) ==
  /\ h \in total_elements..MaxTimers
  /\ \A i, j \in 0..(h - 1) : elements[i].id = elements[j].id => i = j
  /\ \A i \in 0..(h - 1) : elements[i].id < next_id
  /\ \A k \in Ids : hashtable[k] < h
  /\ pc # "idle" => index < h

IInv ==
  /\ TypeOK
  /\ \E h \in Nat : Known(h)
  /\ IndexConsistent
  /\ pc = "up" => index \in Used

LEMMA ParentFacts ==
  ASSUME NEW i \in Nat, i > 0
  PROVE  Parent(i) \in 0..(i - 1)
  BY DEF Parent

LEMMA InitIInv == Init => IInv
<1> SUFFICES ASSUME Init PROVE IInv
  OBVIOUS
<1>1. missorted \in BOOLEAN /\ misfilled \in BOOLEAN
  BY DEF Init
<1>2. Known(0)
  BY TimeHeapAssumption DEF Init, Known, SIZE_MAX
<1> QED BY <1>1, <1>2, TimeHeapAssumption
        DEF Init, IInv, TypeOK, IndexConsistent, Used, Slots, Ids, Elements, SIZE_MAX

\* Swapping two slots keeps the array well typed.
LEMMA SwapFacts ==
  ASSUME TypeOK, NEW i \in Slots, NEW j \in Slots
  PROVE  /\ timer_swp(i, j) \in [Slots -> Elements]
         /\ timer_swp(i, j)[i] = elements[j]
         /\ timer_swp(i, j)[j] = elements[i]
         /\ \A k \in Slots \ {i, j} : timer_swp(i, j)[k] = elements[k]
  BY DEF TypeOK, timer_swp

LEMMA UsedFacts ==
  ASSUME TypeOK
  PROVE  /\ Used \subseteq Slots
         /\ \A i \in Slots : elements[i] \in Elements /\ elements[i].id \in Ids
  BY TimeHeapAssumption DEF TypeOK, Used, Slots, Elements

LEMMA KnownFacts ==
  ASSUME TypeOK, NEW h \in Nat, Known(h)
  PROVE  /\ Used \subseteq 0..(h - 1) /\ 0..(h - 1) \subseteq Slots
         /\ total_elements \in Nat /\ total_elements <= h /\ h <= MaxTimers
         /\ \A i, j \in 0..(h - 1) : elements[i].id = elements[j].id => i = j
         /\ UniqueIds
<1>1. /\ Used \subseteq 0..(h - 1) /\ 0..(h - 1) \subseteq Slots
      /\ total_elements \in Nat /\ total_elements <= h /\ h <= MaxTimers
  BY TimeHeapAssumption DEF Known, TypeOK, Used, Slots
<1>2. UniqueIds
  BY <1>1 DEF Known, UniqueIds
<1> QED BY <1>1, <1>2 DEF Known

LEMMA AddIInv ==
  ASSUME IInv, NEW t \in Times, heap_add(t)
  PROVE  IInv'
<1> USE TimeHeapAssumption DEF heap_add
<1>1. TypeOK'
  BY DEF IInv, TypeOK, Slots, Ids, Elements, history
<1>2. PICK h \in Nat : Known(h)
  BY DEF IInv
<1>3. /\ \A i \in Slots \ {total_elements} : elements'[i] = elements[i]
      /\ Used' = Used \cup {total_elements} /\ total_elements \notin Used
      /\ elements'[total_elements].id = next_id
      /\ total_elements \in Slots /\ next_id \in Nat
  BY DEF IInv, TypeOK, Used, Slots
<1>4. \E g \in Nat : Known(g)'
  <2> DEFINE g == IF total_elements = h THEN h + 1 ELSE h
  <2>1. /\ g \in (total_elements + 1)..MaxTimers
        /\ 0..(g - 1) = 0..(h - 1) \cup {total_elements}
        /\ 0..(h - 1) \subseteq Slots /\ g >= h /\ g \in Nat
    BY <1>2, KnownFacts DEF IInv
  <2>2. \A i \in 0..(g - 1) : elements'[i].id < next_id' /\ (i # total_elements => i \in 0..(h - 1))
    BY <1>2, <1>3, <2>1, UsedFacts DEF Known, IInv, Ids
  <2>3. \A i, j \in 0..(g - 1) : elements'[i].id = elements'[j].id => i = j
    <3>1. \A i \in 0..(h - 1) \ {total_elements} : elements'[i] = elements[i] /\ elements[i].id # next_id
      BY <1>2, <1>3, <2>1, UsedFacts DEF Known, IInv, Ids
    <3> QED BY <1>2, <1>3, <2>1, <3>1 DEF Known
  <2>4. \A k \in Ids : hashtable'[k] < g
    BY <1>2, <2>1 DEF Known, IInv, TypeOK, Slots, SIZE_MAX
  <2>5. index' < g /\ g \in total_elements'..MaxTimers
    BY <1>3, <2>1 DEF IInv, TypeOK
  <2> QED BY <2>1, <2>2, <2>3, <2>4, <2>5 DEF Known
<1>5. IndexConsistent'
  BY <1>3, UsedFacts DEF IInv, IndexConsistent
<1>6. pc' = "up" => index' \in Used'
  BY <1>3
<1> QED BY <1>1, <1>4, <1>5, <1>6 DEF IInv

\* Removing whatever lies in a slot that was used: past the end it is a timer that
\* is gone, and then the last timer goes.
LEMMA RemoveIndexFacts ==
  ASSUME IInv, total_elements > 0, NEW h \in Nat, Known(h), NEW i \in 0..(h - 1),
         heap_remove_index(i)
  PROVE  LET last == total_elements - 1 IN
         /\ i \in Slots /\ last \in Slots /\ last \in Used /\ last \in 0..(h - 1)
         /\ Used' = Used \ {last} /\ Used \subseteq Slots /\ 0..(h - 1) \subseteq Slots
         /\ elements'[i] = elements[last] /\ elements'[last] = elements[i]
         /\ \A k \in Slots \ {i, last} : elements'[k] = elements[k]
         /\ elements' \in [Slots -> Elements]
         /\ total_elements' = last
<1> DEFINE last == total_elements - 1
<1>1. /\ i \in Slots /\ last \in Slots /\ last \in Used /\ last \in 0..(h - 1)
      /\ Used' = Used \ {last} /\ Used \subseteq Slots /\ 0..(h - 1) \subseteq Slots
      /\ elements' = timer_swp(i, last) /\ total_elements' = last
  BY KnownFacts, UsedFacts DEF IInv, TypeOK, Used, heap_remove_index
<1> QED BY <1>1, SwapFacts DEF IInv

LEMMA RemoveIndexIInv ==
  ASSUME IInv, pc = "idle", total_elements > 0, NEW h \in Nat, Known(h),
         NEW i \in 0..(h - 1), heap_remove_index(i), asked' \in Ids \cup {NoId}
  PROVE  IInv'
<1> USE TimeHeapAssumption
<1> DEFINE last == total_elements - 1
<1>1. /\ i \in Slots /\ last \in Slots /\ last \in Used /\ last \in 0..(h - 1)
      /\ Used' = Used \ {last} /\ Used \subseteq Slots /\ 0..(h - 1) \subseteq Slots
      /\ elements'[i] = elements[last] /\ elements'[last] = elements[i]
      /\ \A k \in Slots \ {i, last} : elements'[k] = elements[k]
      /\ elements' \in [Slots -> Elements]
      /\ total_elements' = last
  BY RemoveIndexFacts
<1>2. TypeOK'
  <2>1. hashtable' \in [Ids -> Slots \cup {SIZE_MAX}]
    BY <1>1, UsedFacts DEF heap_remove_index, IInv, TypeOK, thash_remove
  <2>2. misfilled' \in BOOLEAN /\ missorted' \in BOOLEAN
    BY DEF heap_remove_index, IInv, TypeOK
  <2> QED BY <1>1, <2>1, <2>2 DEF heap_remove_index, IInv, TypeOK
<1>3. Known(h)'
  <2>1. h \in total_elements'..MaxTimers
    BY <1>1, KnownFacts DEF IInv
  <2>2. \A j, k \in 0..(h - 1) : elements'[j].id = elements'[k].id => j = k
    BY <1>1 DEF Known
  <2>3. \A j \in 0..(h - 1) : elements'[j].id < next_id'
    BY <1>1 DEF Known, heap_remove_index
  <2>4. \A k \in Ids : hashtable'[k] < h
    BY DEF Known, heap_remove_index, thash_remove, IInv, TypeOK, SIZE_MAX
  <2>5. index' < h
    BY DEF heap_remove_index
  <2> QED BY <2>1, <2>2, <2>3, <2>4, <2>5 DEF Known
<1>4. IndexConsistent'
  <2> SUFFICES ASSUME NEW k \in Used', k # i
               PROVE  hashtable'[elements'[k].id] = k
    BY DEF IndexConsistent, heap_remove_index
  <2>1. k \in Used /\ k \in Slots /\ k \in 0..(h - 1) /\ elements'[k] = elements[k]
    BY <1>1, KnownFacts DEF IInv
  <2>2. hashtable[elements[k].id] = k /\ elements[k].id # elements[i].id
    BY <2>1 DEF IInv, IndexConsistent, Known
  <2> QED BY <2>1, <2>2, <1>1, UsedFacts DEF heap_remove_index, thash_remove, IInv, TypeOK
<1>5. pc' # "up"
  BY DEF heap_remove_index
<1> QED BY <1>2, <1>3, <1>4, <1>5 DEF IInv

\* The table leads to the timer.
LEMMA TableFacts ==
  ASSUME IInv, pc = "idle", NEW id \in Armed
  PROVE  thash_get(id) \in Used /\ elements[thash_get(id)].id = id /\ id \in Ids
<1>1. PICK i \in Used : elements[i].id = id
  BY DEF Armed
<1> QED BY <1>1, UsedFacts DEF IInv, IndexConsistent, thash_get

LEMMA UpdateIInv ==
  ASSUME IInv, NEW id \in Armed, NEW t \in Times, heap_update(id, t)
  PROVE  IInv'
<1> USE TimeHeapAssumption
<1> DEFINE i == thash_get(id)
<1>0. PICK h \in Nat : Known(h)
  BY DEF IInv
<1>1. /\ pc = "idle" /\ i \in Used /\ i \in Slots /\ i \in 0..(h - 1)
      /\ elements[i].id = id /\ 0..(h - 1) \subseteq Slots
  BY <1>0, TableFacts, UsedFacts, KnownFacts DEF heap_update, IInv
<1>2. /\ elements' = [elements EXCEPT ![i] = [elements[i] EXCEPT !.timer = t]]
      /\ \/ index' = i /\ pc' \in {"up", "down"}
         \/ index' = index /\ pc' = "idle"
      /\ asked' = id
      /\ UNCHANGED <<total_elements, hashtable, next_id, history>>
  BY <1>1 DEF heap_update
<1>3. /\ elements' \in [Slots -> Elements]
      /\ \A k \in Slots : elements'[k].id = elements[k].id
  BY <1>1, <1>2, UsedFacts DEF IInv, TypeOK, Elements
<1>4. TypeOK'
  <2>1. id \in Ids
    BY TableFacts DEF heap_update
  <2> QED BY <1>1, <1>2, <1>3, <2>1 DEF IInv, TypeOK, history
<1>5. Used' = Used /\ Used \subseteq Slots
  BY <1>2, UsedFacts DEF Used, IInv
<1>6. IndexConsistent' /\ (pc' = "up" => index' \in Used')
  BY <1>1, <1>2, <1>3, <1>5 DEF IInv, IndexConsistent
<1>7. Known(h)'
  BY <1>0, <1>1, <1>2, <1>3 DEF Known
<1> QED BY <1>4, <1>6, <1>7 DEF IInv

\* One turn of a sifting loop: the timers at index and c change places.
LEMMA SwapIInv ==
  ASSUME IInv, pc \in {"up", "down"}, index \in Used, NEW c \in Used, c # index,
         hashtable' = thash_add(elements[c].id, index),
         elements' = timer_swp(index, c), index' = c,
         UNCHANGED <<total_elements, next_id, pc, asked>>,
         missorted' \in BOOLEAN, misfilled' = misfilled
  PROVE  IInv'
<1>0. PICK h \in Nat : Known(h)
  BY DEF IInv
<1>1. /\ Used' = Used /\ Used \subseteq 0..(h - 1) /\ 0..(h - 1) \subseteq Slots
      /\ c \in 0..(h - 1) /\ index \in 0..(h - 1) /\ Used \subseteq Slots
      /\ c \in Slots /\ index \in Slots
      /\ UniqueIds
      /\ \A k \in Slots : elements[k].id \in Ids
  BY <1>0, KnownFacts, UsedFacts DEF IInv, Used
<1>2. /\ elements'[index] = elements[c] /\ elements'[c] = elements[index]
      /\ \A k \in Slots \ {index, c} : elements'[k] = elements[k]
      /\ elements' \in [Slots -> Elements]
  BY <1>1, SwapFacts DEF IInv
<1>3. TypeOK'
  BY <1>1, <1>2 DEF IInv, TypeOK, thash_add
<1>4. Known(h)'
  <2>1. \A j, k \in 0..(h - 1) : elements'[j].id = elements'[k].id => j = k
    BY <1>0, <1>1, <1>2 DEF Known
  <2>2. \A j \in 0..(h - 1) : elements'[j].id < next_id'
    BY <1>0, <1>1, <1>2 DEF Known
  <2>3. \A k \in Ids : hashtable'[k] < h
    BY <1>0, <1>1 DEF Known, thash_add, IInv, TypeOK
  <2> QED BY <1>0, <1>1, <2>1, <2>2, <2>3 DEF Known
<1>5. IndexConsistent'
  <2> SUFFICES ASSUME NEW k \in Used, k # c
               PROVE  hashtable'[elements'[k].id] = k
    BY <1>1 DEF IndexConsistent
  <2>1. CASE k = index
    BY <2>1, <1>1, <1>2 DEF thash_add, IInv, TypeOK
  <2>2. CASE k # index
    <3>1. elements'[k] = elements[k] /\ elements[k].id # elements[c].id
      BY <2>2, <1>1, <1>2 DEF UniqueIds
    <3>2. hashtable[elements[k].id] = k
      BY <2>2 DEF IInv, IndexConsistent
    <3> QED BY <3>1, <3>2, <1>1 DEF thash_add, IInv, TypeOK
  <2> QED BY <2>1, <2>2
<1> QED BY <1>1, <1>3, <1>4, <1>5 DEF IInv

\* Where the loops swap to.
LEMMA SiftUpFacts ==
  ASSUME IInv, SiftUp
  PROVE  index \in Used /\ Parent(index) \in Used /\ Parent(index) # index
  BY ParentFacts, TimeHeapAssumption DEF SiftUp, Rises, IInv, TypeOK, Used, Slots

LEMMA SiftDownFacts ==
  ASSUME IInv, NEW c \in Slots, SinksTo(c)
  PROVE  index \in Used /\ c \in Used /\ c # index
  BY TimeHeapAssumption DEF SinksTo, Left, Right, IInv, TypeOK, Used, Slots

LEMMA SettleIInv ==
  ASSUME IInv, SettleUp \/ SettleDown
  PROVE  IInv'
<1>0. PICK h \in Nat : Known(h)
  BY DEF IInv
<1>1. /\ hashtable' = thash_add(elements[index].id, index)
      /\ pc' = "idle" /\ index' = 0 /\ pc # "idle"
      /\ elements' = elements /\ total_elements' = total_elements /\ next_id' = next_id
      /\ missorted' = missorted /\ misfilled' = misfilled /\ asked' = asked
  BY DEF SettleUp, SettleDown, history
<1>2. /\ Used' = Used /\ Used \subseteq Slots /\ index \in Slots
      /\ index \in 0..(h - 1) /\ Used \subseteq 0..(h - 1)
      /\ \A k \in Slots : elements[k].id \in Ids
  BY <1>0, <1>1, KnownFacts, UsedFacts DEF IInv, Used, TypeOK, Known, Slots
<1>3. TypeOK'
  BY <1>1, <1>2, TimeHeapAssumption DEF IInv, TypeOK, thash_add, Slots
<1>4. Known(h)'
  <2>1. \A k \in Ids : hashtable'[k] < h
    BY <1>0, <1>1, <1>2 DEF Known, thash_add, IInv, TypeOK
  <2> QED BY <1>0, <1>1, <2>1 DEF Known
<1>5. IndexConsistent'
  <2> SUFFICES ASSUME NEW k \in Used
               PROVE  hashtable'[elements[k].id] = k
    BY <1>1, <1>2 DEF IndexConsistent
  <2>1. CASE k = index
    BY <2>1, <1>1, <1>2 DEF thash_add, IInv, TypeOK
  <2>2. CASE k # index
    <3>1. elements[k].id # elements[index].id
      BY <1>0, <1>2, <2>2 DEF Known
    <3>2. hashtable[elements[k].id] = k
      BY <2>2 DEF IInv, IndexConsistent
    <3> QED BY <3>1, <3>2, <1>1, <1>2 DEF thash_add, IInv, TypeOK
  <2> QED BY <2>1, <2>2
<1> QED BY <1>1, <1>3, <1>4, <1>5 DEF IInv

\* A removal, of the timer on top, by an armed timer's id or by a stale one, takes
\* a slot that has been used.
Removal == \/ heap_extract
           \/ \E id \in Removable : heap_remove(id)

LEMMA RemovableFacts ==
  ASSUME IInv, NEW id \in Removable
  PROVE  id \in Ids /\ total_elements > 0
<1>1. total_elements \in Nat /\ next_id \in 0..MaxIds /\ MaxIds \in Nat
  BY TimeHeapAssumption DEF IInv, TypeOK
<1>2. CASE id \in Armed
  <2>1. PICK i \in Used : elements[i].id = id
    BY <1>2 DEF Armed
  <2> QED BY <1>1, <2>1, UsedFacts DEF IInv, Used
<1>3. CASE id \notin Armed
  BY <1>1, <1>3 DEF Removable, Ids
<1> QED BY <1>2, <1>3

LEMMA RemovalFacts ==
  ASSUME IInv, Removal, NEW h \in Nat, Known(h)
  PROVE  /\ pc = "idle" /\ total_elements > 0 /\ asked' \in Ids \cup {NoId}
         /\ \E i \in 0..(h - 1) : heap_remove_index(i)
<1>0. Used \subseteq 0..(h - 1) /\ total_elements \in Nat
  BY KnownFacts DEF IInv
<1>1. CASE heap_extract
  BY <1>0, <1>1 DEF heap_extract, Used
<1>2. CASE \E id \in Removable : heap_remove(id)
  <2>1. PICK id \in Removable : heap_remove(id)
    BY <1>2
  <2>2. id \in Ids /\ total_elements > 0
    BY <1>0, <2>1, RemovableFacts
  <2>3. thash_get(id) \in Slots /\ thash_get(id) < h /\ pc = "idle"
    BY <2>1, <2>2 DEF heap_remove, thash_get, IInv, TypeOK, Known
  <2> QED BY <2>1, <2>2, <2>3 DEF heap_remove, Slots
<1> QED BY <1>1, <1>2 DEF Removal

LEMMA NextIInv == IInv /\ [Next]_vars => IInv'
<1> SUFFICES ASSUME IInv, [Next]_vars PROVE IInv'
  OBVIOUS
<1>1. CASE UNCHANGED vars
  BY <1>1 DEF vars, history, IInv, TypeOK, Known, IndexConsistent, Used
<1>2. CASE \E t \in Times : heap_add(t)
  BY <1>2, AddIInv
<1>3. CASE Removal
  BY <1>3, RemovalFacts, RemoveIndexIInv DEF IInv
<1>4. CASE \E id \in Armed, t \in Times : heap_update(id, t)
  BY <1>4, UpdateIInv
<1>5. CASE SiftUp
  <2>1. missorted' \in BOOLEAN /\ misfilled' = misfilled
    BY <1>5 DEF SiftUp, IInv, TypeOK, history
  <2> QED BY <1>5, <2>1, SiftUpFacts, SwapIInv DEF SiftUp
<1>6. CASE SiftDown
  BY <1>6, SiftDownFacts, SwapIInv DEF SiftDown
<1>7. CASE SettleUp \/ SettleDown
  BY <1>7, SettleIInv
<1> QED BY <1>1, <1>2, <1>3, <1>4, <1>5, <1>6, <1>7 DEF Next, Removal

THEOREM Invariance == Spec => []IInv
  BY InitIInv, NextIInv, PTL DEF Spec

\* The types of the array and the table; no slot outside the array is touched,
\* though a stale id leads to slots past the end.
THEOREM TypeCorrect == Spec => []TypeOK
  BY Invariance, PTL DEF IInv

\* Two timers never share an id, and the hash table always leads from an armed
\* timer's id to its slot, whatever stale entries it holds beside.
THEOREM TableCorrect == Spec => []TableConsistent
<1>1. IInv => TableConsistent
  BY KnownFacts DEF IInv, TableConsistent
<1> QED BY <1>1, Invariance, PTL

-----------------------------------------------------------------------------
(* The heap implements TimerSet. *)

\* Swapping armed timers, or storing a slot in the table, arms and disarms nothing.
LEMMA SiftingStutters ==
  ASSUME IInv, SiftUp \/ SettleUp \/ SiftDown \/ SettleDown
  PROVE  ArmedTimers' = ArmedTimers /\ next_id' = next_id /\ asked' = asked
<1>1. ASSUME NEW c \in Used, index \in Used,
             elements' = timer_swp(index, c), total_elements' = total_elements
      PROVE  ArmedTimers' = ArmedTimers
  <2>1. Used' = Used /\ Used \subseteq Slots
    BY <1>1, UsedFacts DEF Used, IInv
  <2>2. /\ elements'[index] = elements[c] /\ elements'[c] = elements[index]
        /\ \A k \in Slots \ {index, c} : elements'[k] = elements[k]
    BY <1>1, <2>1, SwapFacts DEF IInv
  <2> QED BY <1>1, <2>1, <2>2 DEF ArmedTimers
<1>2. CASE SiftUp
  BY <1>1, <1>2, SiftUpFacts DEF SiftUp
<1>3. CASE SiftDown
  BY <1>1, <1>3, SiftDownFacts DEF SiftDown
<1>4. CASE SettleUp \/ SettleDown
  BY <1>4 DEF SettleUp, SettleDown, ArmedTimers, Used
<1> QED BY <1>2, <1>3, <1>4

LEMMA AddAdds ==
  ASSUME IInv, NEW t \in Times, heap_add(t)
  PROVE  Abstract!Add(t)
<1>1. /\ \A i \in Used : elements'[i] = elements[i]
      /\ Used' = Used \cup {total_elements}
      /\ elements'[total_elements] = [id |-> next_id, timer |-> t]
  BY TimeHeapAssumption DEF heap_add, IInv, TypeOK, Used, Slots
<1> QED BY <1>1 DEF Abstract!Add, ArmedTimers, heap_add

\* The timer in the slot goes and no other.
LEMMA RemoveRemoves ==
  ASSUME IInv, NEW i \in Used, heap_remove_index(i)
  PROVE  /\ ArmedTimers' = ArmedTimers \ {elements[i]}
         /\ elements[i] \in ArmedTimers
         /\ \A x \in ArmedTimers : x.id = elements[i].id => x = elements[i]
         /\ next_id' = next_id
<1> DEFINE last == total_elements - 1
<1>0. PICK h \in Nat : Known(h)
  BY DEF IInv
<1>1. total_elements > 0 /\ i \in 0..(h - 1)
  BY <1>0, KnownFacts DEF IInv, Used
<1>2. /\ i \in Slots /\ last \in Slots /\ last \in Used
      /\ Used' = Used \ {last} /\ Used \subseteq Slots
      /\ elements'[i] = elements[last] /\ elements'[last] = elements[i]
      /\ \A k \in Slots \ {i, last} : elements'[k] = elements[k]
  BY <1>0, <1>1, RemoveIndexFacts
<1>3. \A k \in Used : elements[k].id = elements[i].id => k = i
  BY <1>0, KnownFacts DEF IInv, UniqueIds
<1>4. ArmedTimers' = ArmedTimers \ {elements[i]}
  BY <1>2, <1>3 DEF ArmedTimers
<1> QED BY <1>3, <1>4 DEF ArmedTimers, heap_remove_index

\* The table leads from the id asked for to its timer, which is the one that goes.
LEMMA RemoveById ==
  ASSUME IInv, NEW id \in Armed, heap_remove(id)
  PROVE  Abstract!Remove(id)
<1>1. thash_get(id) \in Used /\ elements[thash_get(id)].id = id
  BY TableFacts DEF heap_remove
<1>2. heap_remove_index(thash_get(id)) /\ asked' = id
  BY DEF heap_remove
<1> DEFINE y == elements[thash_get(id)]
<1>3. /\ ArmedTimers' = ArmedTimers \ {y} /\ y.id = id
      /\ \A x \in ArmedTimers : x.id = id => x = y
      /\ next_id' = next_id
  BY <1>1, <1>2, RemoveRemoves
<1> HIDE DEF y
<1>4. ArmedTimers' = {x \in ArmedTimers : x.id # id}
  BY <1>3
<1> QED BY <1>2, <1>3, <1>4 DEF Abstract!Remove

LEMMA ExtractExtracts ==
  ASSUME IInv, heap_extract
  PROVE  Abstract!Extract
<1>1. 0 \in Used /\ heap_remove_index(0) /\ asked' = NoId
  BY DEF heap_extract, Used, IInv, TypeOK
<1> QED BY <1>1, RemoveRemoves DEF Abstract!Extract, Abstract!NoId, NoId

LEMMA UpdateUpdates ==
  ASSUME IInv, NEW id \in Armed, NEW t \in Times, heap_update(id, t)
  PROVE  Abstract!Update(id, t)
<1> DEFINE i == thash_get(id)
           new(x) == IF x.id = id THEN [x EXCEPT !.timer = t] ELSE x
<1>1. i \in Used /\ Used \subseteq Slots /\ elements[i].id = id
  BY TableFacts, UsedFacts DEF heap_update, IInv
<1>2. /\ elements' = [elements EXCEPT ![i] = [elements[i] EXCEPT !.timer = t]]
      /\ Used' = Used /\ next_id' = next_id /\ asked' = id
  BY DEF heap_update, Used
<1>3. \A k \in Used : elements'[k] = new(elements[k])
  <2>1. \A k \in Used : elements[k].id = id => k = i
    BY <1>1, KnownFacts DEF IInv, UniqueIds
  <2> QED BY <1>1, <1>2, <2>1 DEF IInv, TypeOK
<1> HIDE DEF i, new
<1>4. ArmedTimers' = {new(x) : x \in ArmedTimers}
  BY <1>2, <1>3 DEF ArmedTimers
<1> QED BY <1>2, <1>4 DEF Abstract!Update, new

LEMMA ArmedWasIssued ==
  ASSUME IInv, NEW id \in Armed
  PROVE  id \in 0..(next_id - 1)
<1>1. PICK i \in Used : elements[i].id = id
  BY DEF Armed
<1>2. elements[i].id < next_id
  BY KnownFacts DEF IInv, UniqueIds
<1> QED BY <1>1, <1>2, UsedFacts DEF IInv, TypeOK, Ids

\* For callers that remove armed timers only, time_heap.c keeps the timers
\* time_heap.h promises: heap_add arms one more under a fresh id, heap_remove and
\* heap_update take away and change the very timer they are asked for, heap_extract
\* takes one, and however the loops sift them no timer is lost or doubled.
THEOREM HeapIsTimerSet ==
  ASSUME "remove_stale" \notin Ops
  PROVE  Spec => ImplementsTimerSet
<1>1. Init => Abstract!Init
  BY DEF Init, Abstract!Init, ArmedTimers, Used, Abstract!NoId, NoId
<1>2. IInv /\ [Next]_vars => [Abstract!Next]_(Abstract!vars)
  <2> SUFFICES ASSUME IInv, [Next]_vars
               PROVE  \/ Abstract!Next
                      \/ ArmedTimers' = ArmedTimers /\ next_id' = next_id /\ asked' = asked
    BY DEF Abstract!vars
  <2>1. CASE UNCHANGED vars
    BY <2>1 DEF vars, ArmedTimers, Used
  <2>2. CASE \E t \in Times : heap_add(t)
    BY <2>2, AddAdds DEF Abstract!Next
  <2>3. CASE \E id \in Removable : heap_remove(id)
    BY <2>3, RemoveById, ArmedWasIssued DEF Removable, Abstract!Next
  <2>4. CASE heap_extract
    BY <2>4, ExtractExtracts DEF Abstract!Next
  <2>5. CASE \E id \in Armed, t \in Times : heap_update(id, t)
    BY <2>5, UpdateUpdates, ArmedWasIssued DEF Abstract!Next
  <2>6. CASE SiftUp \/ SettleUp \/ SiftDown \/ SettleDown
    BY <2>6, SiftingStutters
  <2> QED BY <2>1, <2>2, <2>3, <2>4, <2>5, <2>6 DEF Next
<1> QED BY <1>1, <1>2, Invariance, PTL DEF Spec, ImplementsTimerSet, Abstract!Spec

-----------------------------------------------------------------------------
(* The order of the heap: two choices of the code are all that spoils it. *)

InOrder(i) == ~timer_gt(Parent(i), i)

\* While a timer is sifted it may be out of order with the one above it, going up,
\* or with those below, going down; these are in order with the one above it.
OrderInv ==
  /\ \A i \in Used \ {0} : InOrder(i) \/ (pc = "up" /\ i = index)
                                      \/ (pc = "down" /\ Parent(i) = index)
  /\ pc # "idle" /\ index # 0 =>
       \A i \in Used \ {0} : Parent(i) = index => ~timer_gt(Parent(index), i)

Spoilt == missorted \/ misfilled

LEMMA ChildFacts ==
  ASSUME NEW i \in Nat
  PROVE  /\ Left(i) \in Nat /\ Right(i) \in Nat
         /\ Left(i) > i /\ Right(i) > i /\ Left(i) # Right(i)
         /\ Parent(Left(i)) = i /\ Parent(Right(i)) = i
         /\ \A j \in Nat \ {0} : Parent(j) = i => j = Left(i) \/ j = Right(i)
  BY DEF Left, Right, Parent

\* What the steps' proofs need of the shape of the tree and the types.
LEMMA TreeFacts ==
  ASSUME IInv
  PROVE  /\ Used \subseteq Slots /\ index \in Slots /\ Slots \subseteq Nat
         /\ \A i \in Slots : elements[i].timer \in Nat
         /\ \A i \in Used \ {0} : /\ Parent(i) \in Used /\ Parent(i) < i
                                  /\ \A j \in Nat : j < i => j \in Used
         /\ \A i \in Slots \ {0} : Parent(i) \in Slots /\ Parent(i) < i
<1> USE TimeHeapAssumption
<1>1. /\ Used \subseteq Slots /\ index \in Slots /\ Slots \subseteq Nat
      /\ \A i \in Slots : elements[i].timer \in Nat
  <2>1. TypeOK /\ Slots \subseteq Nat
    BY DEF IInv, Slots
  <2>2. \A i \in Slots : elements[i].timer \in Times
    BY <2>1, UsedFacts DEF Elements
  <2> QED BY <2>1, <2>2, UsedFacts DEF TypeOK
<1>2. \A i \in Slots \ {0} : Parent(i) \in 0..(i - 1)
  BY <1>1, ParentFacts
<1>3. ASSUME NEW i \in Used \ {0}
      PROVE  Parent(i) \in Used /\ Parent(i) < i /\ \A j \in Nat : j < i => j \in Used
  <2>1. i \in Nat /\ i < total_elements /\ total_elements \in Nat
    BY DEF IInv, TypeOK, Used
  <2>2. Parent(i) \in 0..(i - 1)
    BY <1>1, <1>2, <1>3
  <2> QED BY <2>1, <2>2 DEF Used
<1>4. ASSUME NEW i \in Slots \ {0} PROVE Parent(i) \in Slots /\ Parent(i) < i
  BY <1>2, <1>4 DEF Slots
<1> QED BY <1>1, <1>3, <1>4

LEMMA AddOrder ==
  ASSUME IInv, OrderInv, NEW t \in Times, heap_add(t)
  PROVE  OrderInv'
<1>1. /\ pc = "idle" /\ pc' = "up" /\ index' = total_elements
      /\ Used' = Used \cup {total_elements} /\ total_elements \notin Used
      /\ \A i \in Used : elements'[i] = elements[i] /\ i < total_elements
  BY TimeHeapAssumption DEF heap_add, IInv, TypeOK, Used, Slots
<1>2. \A i \in Used \ {0} : InOrder(i)'
  BY <1>1, TreeFacts DEF OrderInv, InOrder, timer_gt
<1>3. \A i \in Used' \ {0} : Parent(i) # total_elements
  <2>1. \A i \in Used \ {0} : Parent(i) # total_elements
    BY <1>1, TreeFacts
  <2>2. total_elements # 0 => Parent(total_elements) # total_elements
    BY ParentFacts DEF IInv, TypeOK
  <2> QED BY <1>1, <2>1, <2>2
<1> QED BY <1>1, <1>2, <1>3 DEF OrderInv

\* Without a gap filled wrongly the timer that comes to the slot is in order with
\* the one above it.
LEMMA RemoveOrder ==
  ASSUME IInv, OrderInv, Removal, ~misfilled'
  PROVE  OrderInv'
<1> DEFINE last == total_elements - 1
<1>0. PICK h \in Nat : Known(h)
  BY DEF IInv
<1>1. PICK i \in 0..(h - 1) : heap_remove_index(i)
  BY <1>0, RemovalFacts
<1>2. /\ pc = "idle" /\ total_elements > 0 /\ total_elements \in Nat
  BY <1>0, RemovalFacts DEF IInv, TypeOK
<1>3. /\ i \in Slots /\ last \in Slots /\ last \in Used
      /\ Used' = Used \ {last}
      /\ elements'[i] = elements[last]
      /\ \A k \in Slots \ {i, last} : elements'[k] = elements[k]
  BY <1>0, <1>1, <1>2, RemoveIndexFacts
<1>4. /\ pc' = "down" /\ index' = i
      /\ i \in 1..(last - 1) => ~timer_gt(Parent(i), last)
  BY <1>1 DEF heap_remove_index
<1>5. \A j \in Used' : j \in Used /\ j < last /\ j \in Slots /\ j \in Nat
  BY <1>2, <1>3, TreeFacts DEF Used
<1>6. \A j \in Used \ {0} : InOrder(j)
  BY <1>2 DEF OrderInv
<1>7. ASSUME NEW j \in Used' \ {0}, Parent(j) # i
      PROVE  InOrder(j)'
  <2>0. j \in Used \ {0} /\ j < last /\ j \in Nat /\ last \in Nat
    BY <1>2, <1>5, <1>7
  <2>1. Parent(j) \in Slots \ {i, last}
    <3>1. Parent(j) \in Slots /\ Parent(j) < j /\ Parent(j) \in Nat
      BY <2>0, TreeFacts
    <3> QED BY <1>7, <2>0, <3>1
  <2>2. elements'[Parent(j)] = elements[Parent(j)]
    BY <1>3, <2>1
  <2>3. CASE j = i
    <3>1. ~timer_gt(Parent(i), last)
      BY <1>2, <1>4, <1>5, <1>7, <2>3
    <3> QED BY <1>3, <2>2, <2>3, <3>1 DEF InOrder, timer_gt
  <2>4. CASE j # i
    <3>1. elements'[j] = elements[j]
      BY <1>3, <1>5, <2>4
    <3> QED BY <1>5, <1>6, <1>7, <2>2, <3>1 DEF InOrder, timer_gt
  <2> QED BY <2>3, <2>4
<1>8. ASSUME i # 0, NEW j \in Used' \ {0}, Parent(j) = i
      PROVE  ~timer_gt(Parent(i), j)'
  <2>0. /\ j \in Used \ {0} /\ j < last /\ i \in Used \ {0} /\ i < j
        /\ i \in Nat /\ j \in Nat /\ last \in Nat
    BY <1>2, <1>3, <1>5, <1>8, TreeFacts
  <2>1. /\ Parent(i) < i /\ Parent(i) \in Used /\ Parent(i) \in Slots /\ j \in Slots
        /\ Parent(i) \in Nat
    BY <2>0, TreeFacts
  <2>2. elements'[j] = elements[j] /\ elements'[Parent(i)] = elements[Parent(i)]
    BY <1>3, <2>0, <2>1
  <2>3. ~timer_gt(Parent(i), i) /\ ~timer_gt(i, j)
    BY <1>6, <1>8, <2>0 DEF InOrder
  <2>4. /\ elements[i].timer \in Nat /\ elements[j].timer \in Nat
        /\ elements[Parent(i)].timer \in Nat
    BY <2>0, <2>1, TreeFacts
  <2> QED BY <2>2, <2>3, <2>4 DEF timer_gt
<1> QED BY <1>4, <1>7, <1>8 DEF OrderInv

LEMMA UpdateOrder ==
  ASSUME IInv, OrderInv, NEW id \in Armed, NEW t \in Times, heap_update(id, t)
  PROVE  OrderInv'
<1>0. pc = "idle" /\ thash_get(id) \in Used
  BY TableFacts DEF heap_update
<1> PICK i \in Used : i = thash_get(id)
  BY <1>0
<1>1. pc = "idle" /\ i \in Used /\ i \in Slots /\ Used' = Used
  BY <1>0, UsedFacts DEF heap_update, IInv, Used
<1>2. /\ elements' = [elements EXCEPT ![i].timer = t]
      /\ \/ /\ i > 0 /\ elements[Parent(i)].timer > t
            /\ pc' = "up" /\ index' = i
         \/ /\ ~ (i > 0 /\ elements[Parent(i)].timer > t)
            /\ \/ pc' = "down" /\ index' = i
               \/ pc' = "idle" /\ FALSE \in EntersSecondLoop(i, t)
  <2>1. PICK enters \in EntersSecondLoop(i, t) :
          \/ i > 0 /\ elements[Parent(i)].timer > t
          \/ IF enters THEN pc' = "down" /\ index' = i ELSE pc' = pc
    <3>1. FALSE \in EntersSecondLoop(i, t) \/ TRUE \in EntersSecondLoop(i, t)
      BY DEF EntersSecondLoop
    <3> QED BY <3>1 DEF heap_update
  <2>2. enters \in BOOLEAN
    BY <2>1 DEF EntersSecondLoop
  <2> QED BY <1>1, <2>1, <2>2 DEF heap_update
<1>3. /\ elements'[i].timer = t /\ t \in Nat
      /\ \A k \in Slots \ {i} : elements'[k] = elements[k]
  BY <1>1, <1>2, TimeHeapAssumption DEF IInv, TypeOK, Elements
<1>4. \A j \in Used \ {0} : InOrder(j)
  BY <1>1 DEF OrderInv
<1>5. ASSUME NEW j \in Used \ {0}, j # i, Parent(j) # i
      PROVE  InOrder(j)'
  BY <1>3, <1>4, <1>5, TreeFacts DEF InOrder, timer_gt
<1>6. ASSUME i # 0, pc' # "up"
      PROVE  InOrder(i)'
  <2>1. /\ i > 0 /\ i \in Used \ {0} /\ Parent(i) \in Slots \ {i}
        /\ elements[Parent(i)].timer \in Nat
    BY <1>1, <1>6, TreeFacts
  <2>2. ~ (elements[Parent(i)].timer > t)
    BY <1>2, <1>6, <2>1
  <2> QED BY <1>3, <2>1, <2>2 DEF InOrder, timer_gt
<1>7. ASSUME i # 0, NEW j \in Used \ {0}, Parent(j) = i
      PROVE  ~timer_gt(Parent(i), j)'
  <2>1. /\ i \in Used \ {0} /\ j # i /\ Parent(i) # i
        /\ Parent(i) \in Used /\ j \in Slots /\ Parent(i) \in Slots
    BY <1>1, <1>7, TreeFacts
  <2>2. ~timer_gt(Parent(i), i) /\ ~timer_gt(i, j)
    BY <1>4, <1>7, <2>1 DEF InOrder
  <2>3. /\ elements[i].timer \in Nat /\ elements[j].timer \in Nat
        /\ elements[Parent(i)].timer \in Nat
    BY <1>1, <2>1, TreeFacts
  <2>4. elements'[j] = elements[j] /\ elements'[Parent(i)] = elements[Parent(i)]
    BY <1>3, <2>1
  <2> QED BY <2>2, <2>3, <2>4 DEF timer_gt
<1>8. ASSUME NEW j \in Used \ {0}, Parent(j) = i, pc' = "up"
      PROVE  InOrder(j)'
  <2>1. /\ i # 0 /\ i \in Used \ {0} /\ elements[Parent(i)].timer > t
    BY <1>1, <1>2, <1>8, TreeFacts
  <2>2. ~timer_gt(Parent(i), j)'
    BY <1>7, <1>8, <2>1
  <2>3. /\ Parent(i) \in Slots \ {i} /\ j \in Slots \ {i}
        /\ elements[Parent(i)].timer \in Nat /\ elements[j].timer \in Nat
    BY <1>8, <2>1, TreeFacts
  <2>4. elements'[Parent(i)] = elements[Parent(i)] /\ elements'[j] = elements[j]
    BY <1>3, <2>3
  <2> QED BY <1>3, <1>8, <2>1, <2>2, <2>3, <2>4 DEF InOrder, timer_gt
\* Without the second loop no child is earlier.
<1>9. ASSUME NEW j \in Used \ {0}, Parent(j) = i, pc' = "idle"
      PROVE  InOrder(j)'
  <2>1. /\ i \in Nat /\ j \in Nat /\ j \in Slots \ {i} /\ elements[j].timer \in Nat
        /\ j \in {Left(i), Right(i)}
    BY <1>1, <1>9, ChildFacts, TreeFacts
  <2>2. FALSE \in EntersSecondLoop(i, t)
    BY <1>2, <1>9
  <2>3. ~ (t > elements[j].timer)
    BY <1>9, <2>1, <2>2 DEF EntersSecondLoop
  <2> QED BY <1>3, <1>9, <2>1, <2>3 DEF InOrder, timer_gt
<1> QED BY <1>1, <1>2, <1>5, <1>6, <1>7, <1>8, <1>9 DEF OrderInv

LEMMA SiftUpOrder ==
  ASSUME IInv, OrderInv, SiftUp
  PROVE  OrderInv'
<1> PICK p \in Used : p = Parent(index)
  BY SiftUpFacts
<1>1. /\ pc = "up" /\ pc' = "up" /\ index \in Used \ {0} /\ p < index
      /\ Used' = Used /\ index' = p
      /\ ~timer_gt(index, p)
      /\ elements' = timer_swp(index, p)
  BY SiftUpFacts, TreeFacts DEF SiftUp, Rises, Used
<1>2. /\ elements'[index] = elements[p] /\ elements'[p] = elements[index]
      /\ \A k \in Slots \ {index, p} : elements'[k] = elements[k]
  BY <1>1, SwapFacts, TreeFacts DEF IInv
<1>3. \A j \in Used \ {0} : j # index => InOrder(j)
  BY <1>1 DEF OrderInv
<1>4. ASSUME NEW j \in Used \ {0}, j # p PROVE InOrder(j)'
  <2>0. /\ j \in Slots /\ Parent(j) \in Slots /\ Parent(j) # j
        /\ elements[j].timer \in Nat /\ elements[Parent(j)].timer \in Nat
        /\ elements[index].timer \in Nat /\ elements[p].timer \in Nat
    BY <1>1, <1>4, TreeFacts
  <2>1. CASE j = index
    BY <1>1, <1>2, <2>0, <2>1 DEF InOrder, timer_gt
  <2>2. CASE j # index /\ Parent(j) = index
    <3>1. ~timer_gt(p, j)
      BY <1>1, <1>4, <2>2 DEF OrderInv
    <3> QED BY <1>2, <1>4, <2>0, <2>2, <3>1 DEF InOrder, timer_gt
  <2>3. CASE j # index /\ Parent(j) = p
    <3>1. ~timer_gt(p, j)
      BY <1>3, <1>4, <2>3 DEF InOrder
    <3>2. elements'[j] = elements[j] /\ elements'[Parent(j)] = elements[index]
      BY <1>2, <1>4, <2>0, <2>3
    <3> QED BY <1>1, <2>0, <3>1, <3>2 DEF InOrder, timer_gt
  <2>4. CASE j # index /\ Parent(j) \notin {index, p}
    <3>1. ~timer_gt(Parent(j), j)
      BY <1>3, <1>4, <2>4 DEF InOrder
    <3>2. elements'[j] = elements[j] /\ elements'[Parent(j)] = elements[Parent(j)]
      BY <1>2, <1>4, <2>0, <2>4
    <3> QED BY <3>1, <3>2 DEF InOrder, timer_gt
  <2> QED BY <2>1, <2>2, <2>3, <2>4
<1>5. ASSUME p # 0, NEW j \in Used \ {0}, Parent(j) = p
      PROVE  ~timer_gt(Parent(p), j)'
  <2>1. /\ p \in Used \ {0} /\ Parent(p) \in Slots /\ Parent(p) < p /\ p < j
        /\ index \in Nat /\ j \in Nat /\ p \in Nat /\ Parent(p) \in Nat
        /\ j \in Slots
    BY <1>1, <1>5, TreeFacts
  <2>2. ~timer_gt(Parent(p), p) /\ (j # index => ~timer_gt(p, j))
    BY <1>1, <1>3, <1>5, <2>1 DEF InOrder
  <2>3. elements'[Parent(p)] = elements[Parent(p)]
    BY <1>1, <1>2, <2>1
  <2>4. j = index => elements'[j] = elements[p]
    BY <1>2
  <2>5. j # index => elements'[j] = elements[j]
    BY <1>2, <2>1
  <2>6. /\ elements[p].timer \in Nat /\ elements[Parent(p)].timer \in Nat
        /\ elements[j].timer \in Nat
    BY <2>1, TreeFacts
  <2> QED BY <2>2, <2>3, <2>4, <2>5, <2>6 DEF timer_gt
<1> QED BY <1>1, <1>4, <1>5 DEF OrderInv

\* Without a right child put above an earlier left one.
LEMMA SiftDownOrder ==
  ASSUME IInv, OrderInv, SiftDown, ~missorted'
  PROVE  OrderInv'
<1> PICK c \in Slots :
       /\ SinksTo(c)
       /\ elements' = timer_swp(index, c)
       /\ index' = c
       /\ missorted' = (missorted \/ (c = Right(index) /\ timer_gt(c, Left(index))))
  BY DEF SiftDown
<1>0. /\ index \in Used /\ c \in Used /\ c # index /\ index \in Nat
      /\ c \in {Left(index), Right(index)}
  BY SiftDownFacts, TreeFacts DEF SinksTo
<1>1. /\ Parent(c) = index /\ index < c /\ c # 0
      /\ pc = "down" /\ pc' = "down" /\ Used' = Used
      /\ timer_gt(index, c)
  BY <1>0, ChildFacts DEF SiftDown, SinksTo, Used
<1>2. /\ elements'[index] = elements[c] /\ elements'[c] = elements[index]
      /\ \A k \in Slots \ {index, c} : elements'[k] = elements[k]
  <2>1. TypeOK /\ index \in Slots
    BY TreeFacts DEF IInv
  <2>2. elements' = timer_swp(index, c)
    OBVIOUS
  <2> QED BY <2>1, <2>2, SwapFacts
<1>3. \A j \in Used \ {0} : Parent(j) # index => InOrder(j)
  BY <1>1 DEF OrderInv
\* The other child is not earlier.
<1>4. ASSUME NEW j \in Used \ {0}, Parent(j) = index, j # c
      PROVE  ~timer_gt(c, j)
  <2>1. j \in Nat /\ j < total_elements /\ j \in {Left(index), Right(index)}
    BY <1>0, <1>4, ChildFacts, TreeFacts DEF IInv, TypeOK, Used
  <2>2. CASE c = Right(index)
    BY <1>4, <2>1, <2>2
  <2>3. CASE c = Left(index)
    <3>1. j = Right(index) /\ c # Right(index)
      BY <1>0, <1>4, <2>1, <2>3, ChildFacts
    <3>2. ~timer_gt(index, j)
      BY <2>1, <3>1 DEF SinksTo
    <3>3. /\ elements[index].timer \in Nat /\ elements[j].timer \in Nat
          /\ elements[c].timer \in Nat
      BY <1>0, <1>4, TreeFacts
    <3> QED BY <1>1, <3>2, <3>3 DEF timer_gt
  <2> QED BY <1>0, <2>2, <2>3
<1>5. ASSUME NEW j \in Used \ {0}, Parent(j) # c
      PROVE  InOrder(j)'
  <2>0. /\ j \in Slots /\ Parent(j) \in Slots /\ Parent(j) # j
        /\ elements[index].timer \in Nat /\ elements[c].timer \in Nat
    BY <1>0, <1>5, TreeFacts
  <2>1. CASE j = index
    <3>1. ~timer_gt(Parent(index), c)
      BY <1>0, <1>1, <1>5, <2>1 DEF OrderInv
    <3> QED BY <1>2, <1>5, <2>0, <2>1, <3>1 DEF InOrder, timer_gt
  <2>2. CASE j = c
    BY <1>1, <1>2, <2>0, <2>2 DEF InOrder, timer_gt
  <2>3. CASE j \notin {index, c} /\ Parent(j) = index
    <3>1. ~timer_gt(c, j)
      BY <1>4, <2>3
    <3> QED BY <1>2, <2>0, <2>3, <3>1 DEF InOrder, timer_gt
  <2>4. CASE j \notin {index, c} /\ Parent(j) # index
    <3>1. ~timer_gt(Parent(j), j)
      BY <1>3, <2>4 DEF InOrder
    <3>2. elements'[j] = elements[j] /\ elements'[Parent(j)] = elements[Parent(j)]
      BY <1>2, <1>5, <2>0, <2>4
    <3> QED BY <3>1, <3>2 DEF InOrder, timer_gt
  <2> QED BY <2>1, <2>2, <2>3, <2>4
<1>6. ASSUME NEW j \in Used \ {0}, Parent(j) = c
      PROVE  ~timer_gt(Parent(c), j)'
  <2>1. j \in Slots /\ c < j /\ j \in Nat /\ c \in Nat
    BY <1>6, TreeFacts
  <2>2. elements'[j] = elements[j] /\ elements'[Parent(c)] = elements[c]
    BY <1>0, <1>1, <1>2, <2>1
  <2>3. ~timer_gt(c, j)
    BY <1>0, <1>3, <1>6 DEF InOrder
  <2> QED BY <2>2, <2>3 DEF timer_gt
<1> QED BY <1>1, <1>5, <1>6 DEF OrderInv

LEMMA SettleOrder ==
  ASSUME IInv, OrderInv, SettleUp \/ SettleDown
  PROVE  OrderInv'
<1>1. /\ pc' = "idle" /\ Used' = Used /\ elements' = elements
  BY DEF SettleUp, SettleDown, Used
<1>2. \A j \in Used \ {0} : InOrder(j)
  <2>1. CASE SettleUp
    <3>1. pc = "up" /\ ~Rises /\ index \in Used
      BY <2>1 DEF SettleUp, IInv
    <3>2. ASSUME index # 0 PROVE InOrder(index)
      <4>1. /\ index > 0 /\ Parent(index) \in Slots
            /\ elements[index].timer \in Nat /\ elements[Parent(index)].timer \in Nat
        BY <3>1, <3>2, TreeFacts
      <4>2. timer_gt(index, Parent(index))
        BY <3>1, <4>1 DEF Rises
      <4> QED BY <4>1, <4>2 DEF InOrder, timer_gt
    <3> QED BY <3>1, <3>2 DEF OrderInv
  <2>2. CASE SettleDown
    <3>1. pc = "down" /\ \A c \in Slots : ~SinksTo(c)
      BY <2>2 DEF SettleDown
    <3>2. ASSUME NEW j \in Used \ {0}, Parent(j) = index
          PROVE  InOrder(j)
      <4>1. /\ index \in Nat /\ j \in Slots /\ j < total_elements
            /\ j \in {Left(index), Right(index)}
            /\ Left(index) # Right(index)
        BY <3>2, ChildFacts, TreeFacts DEF IInv, TypeOK, Used
      <4>2. CASE j = Right(index)
        BY <3>1, <3>2, <4>1, <4>2 DEF SinksTo, InOrder
      <4>3. CASE j = Left(index)
        <5>1. ~ (Right(index) < total_elements /\ timer_gt(index, Right(index)))
          <6> SUFFICES ASSUME Right(index) < total_elements, timer_gt(index, Right(index))
                       PROVE  FALSE
            OBVIOUS
          <6>1. Right(index) \in Slots
            BY <4>1, ChildFacts, TreeFacts DEF IInv, TypeOK, Used
          <6> QED BY <3>1, <6>1 DEF SinksTo
        <5> QED BY <3>1, <3>2, <4>1, <4>3, <5>1 DEF SinksTo, InOrder
      <4> QED BY <4>1, <4>2, <4>3
    <3> QED BY <3>1, <3>2 DEF OrderInv
  <2> QED BY <2>1, <2>2
<1> QED BY <1>1, <1>2 DEF OrderInv, InOrder, timer_gt

\* Once spoilt, the order is not spoken of again.
LEMMA SpoiltStays ==
  ASSUME IInv, [Next]_vars
  PROVE  (missorted => missorted') /\ (misfilled => misfilled')
<1>1. CASE UNCHANGED vars
  BY <1>1 DEF vars, history
<1>2. CASE \E t \in Times : heap_add(t)
  BY <1>2 DEF heap_add, history
<1>3. CASE Removal
  <2>1. PICK h \in Nat : Known(h)
    BY DEF IInv
  <2>2. PICK i \in 0..(h - 1) : heap_remove_index(i)
    BY <1>3, <2>1, RemovalFacts
  <2> QED BY <2>2 DEF heap_remove_index
<1>4. CASE \E id \in Armed, t \in Times : heap_update(id, t)
  BY <1>4 DEF heap_update, history
<1>5. CASE SiftUp \/ SettleUp \/ SettleDown
  BY <1>5 DEF SiftUp, SettleUp, SettleDown, history
<1>6. CASE SiftDown
  BY <1>6 DEF SiftDown
<1> QED BY <1>1, <1>2, <1>3, <1>4, <1>5, <1>6 DEF Next, Removal

LEMMA OrderStep ==
  ASSUME IInv, Spoilt \/ OrderInv, [Next]_vars
  PROVE  (Spoilt \/ OrderInv)'
<1> SUFFICES ASSUME ~Spoilt' PROVE OrderInv'
  OBVIOUS
<1>0. OrderInv /\ ~missorted' /\ ~misfilled'
  BY SpoiltStays DEF Spoilt
<1>1. CASE UNCHANGED vars
  BY <1>0, <1>1 DEF vars, OrderInv, InOrder, timer_gt, Used
<1>2. CASE \E t \in Times : heap_add(t)
  BY <1>0, <1>2, AddOrder
<1>3. CASE Removal
  BY <1>0, <1>3, RemoveOrder
<1>4. CASE \E id \in Armed, t \in Times : heap_update(id, t)
  BY <1>0, <1>4, UpdateOrder
<1>5. CASE SiftUp
  BY <1>0, <1>5, SiftUpOrder
<1>6. CASE SiftDown
  BY <1>0, <1>6, SiftDownOrder
<1>7. CASE SettleUp \/ SettleDown
  BY <1>0, <1>7, SettleOrder
<1> QED BY <1>1, <1>2, <1>3, <1>4, <1>5, <1>6, <1>7 DEF Next, Removal

LEMMA OrderInvariance == Spec => [](IInv /\ (Spoilt \/ OrderInv))
<1>1. Init => Spoilt \/ OrderInv
  BY DEF Init, OrderInv, Used
<1>2. IInv /\ (Spoilt \/ OrderInv) /\ [Next]_vars => (Spoilt \/ OrderInv)'
  BY OrderStep
<1> QED BY <1>1, <1>2, Invariance, PTL DEF Spec

\* Through any additions, removals and updates of any number of timers no timer is
\* earlier than the one above it, unless heap_remove_index put a right child above
\* an earlier left one, or filled a gap with a timer that it should have sifted up.
THEOREM OrderKept == Spec => []HeapOrdered
<1>1. Spoilt \/ OrderInv => HeapOrdered
  BY DEF Spoilt, OrderInv, HeapOrdered, InOrder
<1> QED BY <1>1, OrderInvariance, PTL

\* Then the timer on top, which the loop sleeps by and fires, is the earliest one,
\* as time_heap.h promises.
HeadEarliest ==
  pc = "idle" /\ ~missorted /\ ~misfilled => \A i \in Used : ~timer_gt(0, i)

LEMMA OrderedHead == IInv /\ HeapOrdered => HeadEarliest
<1> SUFFICES ASSUME IInv, HeapOrdered, pc = "idle", ~missorted, ~misfilled
             PROVE  \A i \in Used : ~timer_gt(0, i)
  BY DEF HeadEarliest
<1> DEFINE Early == {i \in Used : timer_gt(0, i)}
<1> SUFFICES ASSUME Early # {} PROVE FALSE
  OBVIOUS
<1>1. Early \subseteq Nat
  BY TreeFacts
<1>2. PICK i \in Early : \A j \in Early : i <= j
  BY <1>1, LeastNumber
<1>3. i # 0
  BY TreeFacts DEF timer_gt
<1>4. /\ i \in Used \ {0} /\ timer_gt(0, i) /\ i \in Nat
      /\ Parent(i) \in Used /\ Parent(i) < i /\ Parent(i) \in Nat /\ 0 \in Used
  BY <1>3, TreeFacts
<1>5. ~timer_gt(Parent(i), i)
  BY <1>4 DEF HeapOrdered
<1>6. ~timer_gt(0, Parent(i))
  BY <1>2, <1>4
<1>7. /\ elements[0].timer \in Nat /\ elements[i].timer \in Nat
      /\ elements[Parent(i)].timer \in Nat
  BY <1>4, TreeFacts
<1> QED BY <1>4, <1>5, <1>6, <1>7 DEF timer_gt

THEOREM HeadIsEarliest == Spec => []HeadEarliest
  BY OrderedHead, OrderKept, Invariance, PTL

\* Only a removal from the middle fills a gap wrongly.
LEMMA MisfilledBy ==
  ASSUME IInv, [Next]_vars, misfilled' # misfilled
  PROVE  /\ Removal
         /\ pc = "idle" /\ missorted' = missorted /\ ~misfilled
         /\ \E i \in Slots : /\ heap_remove_index(i)
                             /\ i \in 1..(total_elements - 2)
                             /\ timer_gt(Parent(i), total_elements - 1)
<1>1. Removal
  <2>1. ~UNCHANGED vars /\ ~(\E t \in Times : heap_add(t))
        /\ ~(\E id \in Armed, t \in Times : heap_update(id, t))
        /\ ~SiftUp /\ ~SettleUp /\ ~SiftDown /\ ~SettleDown
    BY DEF vars, history, heap_add, heap_update, SiftUp, SettleUp, SiftDown, SettleDown
  <2> QED BY <2>1 DEF Next, Removal
<1>2. PICK h \in Nat : Known(h)
  BY DEF IInv
<1>3. PICK i \in 0..(h - 1) : heap_remove_index(i)
  BY <1>1, <1>2, RemovalFacts
<1>4. i \in Slots /\ total_elements \in Nat /\ pc = "idle"
  BY <1>1, <1>2, KnownFacts, RemovalFacts DEF IInv
<1>5. /\ missorted' = missorted
      /\ misfilled' = (misfilled \/ (i \in 1..(total_elements - 2)
                                      /\ timer_gt(Parent(i), total_elements - 1)))
  BY <1>3, <1>4 DEF heap_remove_index
<1>6. misfilled \in BOOLEAN
  BY DEF IInv, TypeOK
<1> QED BY <1>1, <1>3, <1>4, <1>5, <1>6

\* Up to five timers in order never have a gap filled wrongly: the last one is in
\* order with what is above every gap.  A sixth timer can be too early for a gap
\* under another parent.
THEOREM FiveAreFilled ==
  ASSUME MaxTimers <= 5
  PROVE  Spec => [](misfilled => missorted)
<1>1. Init => (misfilled => missorted)
  BY DEF Init
<1>2. ASSUME IInv, Spoilt \/ OrderInv, misfilled => missorted, [Next]_vars
      PROVE  (misfilled => missorted)'
  <2>1. missorted => missorted'
    BY <1>2, SpoiltStays
  <2> SUFFICES ASSUME misfilled' # misfilled, ~missorted PROVE FALSE
    BY <1>2, <2>1 DEF IInv, TypeOK
  <2> DEFINE last == total_elements - 1
  <2>2. PICK i \in 1..(last - 1) : timer_gt(Parent(i), last)
    BY <1>2, MisfilledBy DEF IInv, TypeOK
  <2>3. OrderInv /\ pc = "idle"
    BY <1>2, MisfilledBy DEF Spoilt
  <2>4. \A j \in 1..last : j \in Used \ {0} /\ InOrder(j) /\ elements[j].timer \in Nat
    <3>1. 1..last \subseteq Used \ {0}
      BY <1>2 DEF IInv, TypeOK, Used
    <3> QED BY <1>2, <2>3, <3>1, TreeFacts DEF OrderInv
  <2>5. last \in 2..4 /\ i \in 1..3 /\ 0 \in Slots /\ elements[0].timer \in Nat
    <3>1. last \in 2..4 /\ i \in 1..3
      BY <1>2, <2>2, TimeHeapAssumption DEF IInv, TypeOK
    <3>2. 0 \in Slots
      BY TimeHeapAssumption DEF Slots
    <3> QED BY <1>2, <3>1, <3>2, TreeFacts
  <2>6. /\ Parent(1) = 0 /\ Parent(2) = 0 /\ Parent(3) = 1 /\ Parent(4) = 1
    BY DEF Parent
  <2>7. ~timer_gt(0, 1) /\ ~timer_gt(0, 2)
        /\ (last >= 3 => ~timer_gt(1, 3)) /\ (last = 4 => ~timer_gt(1, 4))
    <3>1. ~timer_gt(Parent(1), 1) /\ ~timer_gt(Parent(2), 2)
      BY <2>4, <2>5 DEF InOrder
    <3>2. last >= 3 => ~timer_gt(Parent(3), 3)
      BY <2>4, <2>5 DEF InOrder
    <3>3. last = 4 => ~timer_gt(Parent(4), 4)
      BY <2>4, <2>5 DEF InOrder
    <3> QED BY <2>6, <3>1, <3>2, <3>3
  <2>8. CASE last = 2
    BY <2>2, <2>6, <2>7, <2>8
  <2>9. CASE last = 3
    <3>1. i \in {1, 2} /\ timer_gt(0, 3)
      BY <2>2, <2>6, <2>9
    <3> QED BY <2>4, <2>5, <2>7, <2>9, <3>1 DEF timer_gt
  <2>10. CASE last = 4
    <3>1. CASE i = 3
      BY <2>2, <2>6, <2>7, <2>10, <3>1
    <3>2. CASE i # 3
      <4>1. timer_gt(0, 4)
        BY <2>2, <2>5, <2>6, <2>10, <3>2
      <4> QED BY <2>4, <2>5, <2>7, <2>10, <4>1 DEF timer_gt
    <3> QED BY <3>1, <3>2
  <2> QED BY <2>5, <2>8, <2>9, <2>10
<1> QED BY <1>1, <1>2, OrderInvariance, PTL DEF Spec

\* Timers that only expire leave no gap but the one on top, which any timer may
\* fill: then a right child put above an earlier left one is all that can go wrong.
THEOREM ExpiryFillsTheTop ==
  ASSUME "remove" \notin Ops, "remove_stale" \notin Ops
  PROVE  Spec => []~misfilled
<1>1. Init => ~misfilled
  BY DEF Init
<1>2. ASSUME IInv, ~misfilled, [Next]_vars
      PROVE  ~misfilled'
  <2> SUFFICES ASSUME misfilled' # misfilled PROVE FALSE
    BY <1>2
  <2>1. Removal /\ ~UNCHANGED vars
    BY <1>2, MisfilledBy DEF vars, history
  <2>2. pc = "idle" /\ pc' = "down" /\ total_elements' # total_elements
    <3>1. PICK i \in Slots : heap_remove_index(i)
      BY <1>2, MisfilledBy
    <3> QED BY <1>2, <3>1, MisfilledBy DEF heap_remove_index, IInv, TypeOK
  <2>3. heap_extract
    BY <1>2, <2>1, <2>2 DEF Next, heap_add, heap_update, SiftUp, SettleUp, SiftDown, SettleDown
  <2>4. misfilled' = (misfilled \/ (0 \in 1..(total_elements - 1 - 1)
                                     /\ timer_gt(Parent(0), total_elements - 1)))
    BY <2>3 DEF heap_extract, heap_remove_index
  <2>5. 0 \notin 1..(total_elements - 1 - 1) /\ misfilled = FALSE
    BY <1>2 DEF IInv, TypeOK
  <2> QED BY <2>4, <2>5
<1> QED BY <1>1, <1>2, Invariance, PTL DEF Spec

\* Adding timers in any order, equal ones too, keeps every parent first without
\* reserve: what spoils the order is in the loop that sifts down.
THEOREM AddKeepsOrder ==
  ASSUME Ops = {"add"}
  PROVE  Spec => [](HeapOrdered /\ ~missorted /\ ~misfilled)
<1> DEFINE Rising == pc \in {"idle", "up"} /\ ~missorted /\ ~misfilled
<1>1. Init => Rising
  BY DEF Init
<1>2. Rising /\ [Next]_vars => Rising'
  <2> SUFFICES ASSUME Rising, [Next]_vars PROVE Rising'
    OBVIOUS
  <2>1. CASE UNCHANGED vars
    BY <2>1 DEF vars, history
  <2>2. CASE \E t \in Times : heap_add(t)
    BY <2>2 DEF heap_add, history
  <2>3. CASE SiftUp \/ SettleUp
    BY <2>3 DEF SiftUp, SettleUp, history
  <2>4. ~SiftDown /\ ~SettleDown
    BY DEF SiftDown, SettleDown
  <2> QED BY <2>1, <2>2, <2>3, <2>4 DEF Next
<1> QED BY <1>1, <1>2, OrderKept, PTL DEF Spec
=============================================================================
