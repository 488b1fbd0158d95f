------------------------------ MODULE TimeHeap ------------------------------
(* The timers of the loop, time_heap.c: a binary heap in an array and a hash  *)
(* table from a timer's id to its slot.  An operation is its first action and *)
(* one action for every turn of its sifting loop; only the loop thread calls  *)
(* it, so nothing comes in between.                                           *)
EXTENDS Integers

CONSTANTS
  Times,      \* expiry times, in the order of timespec_gt
  MaxTimers,  \* bound: slots of the array (the code reallocates it)
  MaxIds,     \* bound: ids that heap_add hands out
  Ops         \* which operations the callers use

ASSUME TimeHeapAssumption ==
  /\ Times \subseteq Nat /\ 0 \in Times
  /\ MaxTimers \in Nat \ {0}
  /\ MaxIds \in Nat \ {0}
  /\ Ops \subseteq {"add", "remove", "remove_stale", "extract", "update"}

Slots    == 0..(MaxTimers - 1)
Ids      == 0..(MaxIds - 1)
SIZE_MAX == -1     \* what thash_get returns for an id that is not in the table
Elements == [id : Ids, timer : Times]

VARIABLES
  elements,        \* the array, the slots past the end included
  total_elements,
  hashtable,       \* the slot of an id, or SIZE_MAX
  next_id,
  pc,              \* "idle", or the loop that runs: "up" or "down"
  index,           \* the local variable of that loop
  missorted,       \* history: a sift down put a right child above an earlier left one
  misfilled,       \* history: a removal put the last timer below a later one
  asked            \* history: the id that the last operation was about, or NoId

history == <<missorted, misfilled>>
vars    == <<elements, total_elements, hashtable, next_id, pc, index, history, asked>>

NoId == -1

Parent(i) == (i - 1) \div 2
Left(i)   == 2 * i + 1
Right(i)  == 2 * i + 2

timer_gt(i, j)   == elements[i].timer > elements[j].timer
timer_swp(i, j)  == [elements EXCEPT ![i] = elements[j], ![j] = elements[i]]
thash_add_Count(k, v) == [hashtable EXCEPT ![k] = v + 1]       \* mutant: not the slot
thash_add(k, v)  == [hashtable EXCEPT ![k] = v]
thash_remove(k)  == [hashtable EXCEPT ![k] = SIZE_MAX]
thash_get(k)     == hashtable[k]

Used  == 0..(total_elements - 1)
Armed == {elements[i].id : i \in Used}

-----------------------------------------------------------------------------
(* heap_create *)
Init ==
  /\ elements = [i \in Slots |-> [id |-> 0, timer |-> 0]]
  /\ total_elements = 0
  /\ hashtable = [k \in Ids |-> SIZE_MAX]
  /\ next_id = 0
  /\ pc = "idle"
  /\ index = 0
  /\ missorted = FALSE /\ misfilled = FALSE
  /\ asked = NoId

heap_add(t) ==
  /\ pc = "idle"
  /\ total_elements < MaxTimers /\ next_id < MaxIds
  /\ elements' = [elements EXCEPT ![total_elements] = [id |-> next_id, timer |-> t]]
  /\ index' = total_elements
  /\ next_id' = next_id + 1
  /\ asked' = next_id
  /\ total_elements' = total_elements + 1
  /\ pc' = "up"
  /\ UNCHANGED <<hashtable, history>>

(* The loop of heap_add and the first loop of heap_update: equals swap too. *)
Rises_StopsAtOne == index > 1 /\ ~timer_gt(index, Parent(index))   \* mutant
Rises == index > 0 /\ ~timer_gt(index, Parent(index))

\* Mutant: the table is not told that the parent has moved.
SiftUp_NoIndex ==
  /\ pc = "up"
  /\ Rises
  /\ elements' = timer_swp(index, Parent(index))
  /\ index' = Parent(index)
  /\ UNCHANGED <<total_elements, next_id, pc, hashtable, history, asked>>

SiftUp ==
  /\ pc = "up"
  /\ Rises
  /\ hashtable' = thash_add(elements[Parent(index)].id, index)
  /\ elements' = timer_swp(index, Parent(index))
  /\ index' = Parent(index)
  /\ UNCHANGED <<total_elements, next_id, pc, history, asked>>

SettleUp ==
  /\ pc = "up"
  /\ ~Rises
  /\ hashtable' = thash_add(elements[index].id, index)
  /\ pc' = "idle"
  /\ index' = 0
  /\ UNCHANGED <<elements, total_elements, next_id, history, asked>>

(* The loop of heap_remove_index and the second one of heap_update: the right *)
(* child is looked at first, and the left one only if the right one stays.    *)
SinksTo(c) ==
  /\ c < total_elements /\ timer_gt(index, c)
  /\ \/ c = Right(index)
     \/ c = Left(index) /\ ~ (Right(index) < total_elements /\ timer_gt(index, Right(index)))

SiftDown ==
  /\ pc = "down"
  /\ \E c \in Slots :
       /\ SinksTo(c)
       /\ hashtable' = thash_add(elements[c].id, index)
       /\ elements' = timer_swp(index, c)
       /\ index' = c
       /\ missorted' = (missorted \/ (c = Right(index) /\ timer_gt(c, Left(index))))
  /\ UNCHANGED <<total_elements, next_id, pc, misfilled, asked>>

\* The slot may be past the end here: that puts a removed id back in the table.
SettleDown ==
  /\ pc = "down"
  /\ \A c \in Slots : ~SinksTo(c)
  /\ hashtable' = thash_add(elements[index].id, index)
  /\ pc' = "idle"
  /\ index' = 0
  /\ UNCHANGED <<elements, total_elements, next_id, history, asked>>

\* The slot of the timer that goes is filled with the last one, which is sifted
\* down and never up.
heap_remove_index(i) ==
  LET last == total_elements - 1 IN
  /\ hashtable' = thash_remove(elements[i].id)
  /\ elements' = timer_swp(i, last)
  /\ total_elements' = last
  /\ index' = i
  /\ pc' = "down"
  /\ misfilled' = (misfilled \/ (i \in 1..(last - 1) /\ timer_gt(Parent(i), last)))
  /\ UNCHANGED <<next_id, missorted>>

\* For an id that is not in the table the code returns at once: no step.
heap_remove(id) ==
  /\ pc = "idle"
  /\ thash_get(id) # SIZE_MAX
  /\ heap_remove_index(thash_get(id))
  /\ asked' = id

heap_extract ==
  /\ pc = "idle"
  /\ total_elements > 0
  /\ heap_remove_index(0)
  /\ asked' = NoId

\* The second loop is entered if a child is earlier, wherever the child is: past the
\* end the comparison reads a slot that is not used, or memory that is not the
\* array's, and may find anything.
EntersSecondLoop(i, t) ==
  LET children == {Right(i), Left(i)}
      earlier  == \E c \in children \cap Used : t > elements[c].timer
  IN  IF children \subseteq Used THEN {earlier} ELSE {earlier, TRUE}

heap_update(id, t) ==
  LET i == thash_get(id) IN
  /\ pc = "idle"
  /\ elements' = [elements EXCEPT ![i].timer = t]
  /\ \/ /\ i > 0 /\ elements[Parent(i)].timer > t
        /\ pc' = "up" /\ index' = i
     \/ /\ ~ (i > 0 /\ elements[Parent(i)].timer > t)
        /\ \E enters \in EntersSecondLoop(i, t) :
             IF enters THEN pc' = "down" /\ index' = i
                       ELSE UNCHANGED <<pc, index>>
  /\ asked' = id
  /\ UNCHANGED <<total_elements, hashtable, next_id, history>>

-----------------------------------------------------------------------------
\* Callers remove timers they know to be armed, or, with "remove_stale", any id they
\* were ever given, as long as a timer is left: with none left total_elements would
\* wrap below zero, and what the swap reads then is not modelled.
Removable ==
  IF "remove_stale" \in Ops /\ total_elements > 0 THEN 0..(next_id - 1) ELSE Armed

Next ==
  \/ "add" \in Ops /\ \E t \in Times : heap_add(t)
  \/ "remove" \in Ops /\ \E id \in Removable : heap_remove(id)
  \/ "extract" \in Ops /\ heap_extract
  \/ "update" \in Ops /\ \E id \in Armed, t \in Times : heap_update(id, t)
  \/ SiftUp \/ SettleUp \/ SiftDown \/ SettleDown

Spec == Init /\ [][Next]_vars

-----------------------------------------------------------------------------
TypeOK ==
  /\ elements \in [Slots -> Elements]
  /\ total_elements \in 0..MaxTimers
  /\ hashtable \in [Ids -> Slots \cup {SIZE_MAX}]
  /\ next_id \in 0..MaxIds
  /\ pc \in {"idle", "up", "down"}
  /\ index \in Slots
  /\ missorted \in BOOLEAN /\ misfilled \in BOOLEAN
  /\ asked \in Ids \cup {NoId}

\* No two timers share an id, and no id was not handed out.
UniqueIds ==
  /\ \A i, j \in Used : elements[i].id = elements[j].id => i = j
  /\ \A i \in Used : elements[i].id < next_id

\* Through every swap the table leads from an id to the slot of its timer; only
\* the timer that is being sifted has its entry brought up to date at the end.
IndexConsistent ==
  \A i \in Used : (pc # "idle" /\ i = index) \/ hashtable[elements[i].id] = i

\* A timer's id finds it and no other, for whichever operation comes next.
TableConsistent == UniqueIds /\ IndexConsistent

\* For callers that remove and update armed timers only, the timers are kept as
\* TimerSet says: every operation is about the timer whose id it is given (through
\* whatever the table and its stale entries say), and none is lost, doubled or changed
\* by an operation on another one, by a swap or by what lies past the end.
ArmedTimers == {elements[i] : i \in Used}
Abstract == INSTANCE TimerSet WITH timers <- ArmedTimers, issued <- next_id
ImplementsTimerSet == Abstract!Spec

\* No timer is earlier than its parent, unless a sift down once put a right child
\* above an earlier left one, or the timer that filled a gap had to rise: these
\* two choices are all that spoils the order.
HeapOrdered ==
  pc = "idle" /\ ~missorted /\ ~misfilled => \A i \in Used \ {0} : ~timer_gt(Parent(i), i)
=============================================================================
