# A TLA+ model of the clashkissez chess server

The server is one event loop thread, which owns every connection, handler, timer
and table, and one database thread, which performs MongoDB operations. They meet in
two queues and one signal. Messages are small and handlers run to completion;
what is hard is what happens between two callbacks, between two threads, and in the
timer heap that the loop sleeps by. This directory models that core, checks it with
TLC on small instances and proves the main invariants with TLAPS for all of them.

Paths below are relative to the repository: `src/` holds the C sources, `include/`
the headers.

## The system

| Part | State it keeps | Operations | Meets |
|---|---|---|---|
| Queue (`src/queue.c`) | list with `head` and `tail`, mutex, semaphore | enqueue, dequeue (waits), try_dequeue, free | both threads |
| Timer heap (`src/time_heap.c`) | array heap, table from id to slot, `next_id` | add, remove, extract, update, peek | loop |
| Time arithmetic (`src/loop.c`, `src/time_heap.c`) | none | compare, add milliseconds, subtract | heap, loop |
| Event loop (`src/loop.c`) | `running`, `fd_map`, `sig_map`, `timer_map`, heap, `pending_fd_callbacks`, `signals_received` | add/remove fd, signal, timer; `loop_run`; `loop_trigger_fd` from another thread | callbacks of all other parts; `SIGUSR1` |
| Database thread (`src/database.c`) | operation being performed; the collections | QUERY, INSERT (UPDATE, DELETE without callers) | `database_queue` in, `loop_trigger_fd` out |
| Requests (`src/handlers.c`, `src/contexts.c`, `src/message_handler.c`, `src/server.c`) | `connection_contexts`, a read and a write buffer per connection, `request_ctx_t` per request | accept, read, write, dispatch by message type, queue a reply or an error | loop, handlers |
| Accounts (`src/register_request_handler.c`, `src/login_request_handler.c`) | `session_tokens`; collection `users` | register, login, each over callbacks | database thread |
| Invitations (`src/game_invite_handler.c`, `src/resolve_game_invite_handler.c`) | `active_games`, a 30 s timer per game | invite (two queries, then an insert or a game in memory), accept, decline, time out | database thread, timers, subscriptions |
| Subscriptions (`src/vector.c`, `src/contexts.c`, the subscribe handlers) | five tables from user to a vector of descriptors | subscribe, notify all, drop the gone | connections |
| Shutdown (`src/server.c`) | | SIGINT or SIGTERM, end of the loop, NULL operation, join, frees | everything |

### What makes it hard, and what makes each part correct

* **Queue.** Two producers and a consumer interleave between the lock, the semaphore
  and the free. It is correct if it is a FIFO, never touches a freed node, and an item
  is never left without a token while a consumer waits.
* **Heap.** Ids, slots and table entries move with every swap of every sifting turn.
  Correct if an operation is about the timer whose id it is given and about no other,
  none is lost or doubled, and the earliest one is on top.
* **Loop.** A signal may come at any step. Correct if every trigger is served, no timer
  is early or forgotten, no work starves other work, and a stop is obeyed.
* **Shutdown.** The database thread may be anywhere. Correct if both threads end and
  nothing is left behind.
* **Accounts.** Between two callbacks of a request other requests run and connections
  end. Correct if every request is answered exactly once, to its sender, names are
  unique, and a token stands for a user who exists.
* **Connections.** TCP cuts the stream anywhere, writes are short, answers come at any time.
  Correct if messages are handled whole and in order, every queued byte is written once, and
  the loop waits for what there is to do and nothing else.
* **Invitations.** A game, its timer, its entry in `active_games` and the request that asked
  for it end at different times, and the table's keys are freed at once. Correct if every
  request is answered once, nobody is told of a game that does not come to be without the
  sender learning of it, the sender is who the client is, and an invitation ends once.
* **Subscriptions.** Vectors hold descriptor numbers, which outlive connections and are given
  out again, and are cut while they are walked. Correct if a walk ends, tells every
  subscriber that is there, and nobody who has nothing to do with a subscription.

## Modules

| Module | Stands for | Notes |
|---|---|---|
| `Fifo` | what `queue.h` promises | abstract: items put, taken, or found missing |
| `Queue` | `queue.c`, one action per access to shared memory | implements `Fifo` |
| `QueueProofs` | | theorems about `Queue` |
| `TimerSet` | what `time_heap.h` promises of the timers, order apart | abstract: a set of timers with ids |
| `TimeHeap` | `time_heap.c`, one action per operation and per sifting turn | implements `TimerSet` |
| `TimeHeapProofs` | | theorems about `TimeHeap` |
| `Timespec` | `timespec_gt`, `tu_modify_timer`, `timer_subtract` | operators only |
| `EventLoop` | `loop_run`, `loop_trigger_fd`, the threads around it, the end of `main` | extends `Timespec` |
| `EventLoopProofs` | | theorems about `Timespec` and `EventLoop` |
| `Requests` | connections, contexts, the life of a request | extended by the handlers' modules |
| `Lemmas` | | least numbers, and queues of operations: for several proofs |
| `AccountService` | what registration and login promise | abstract: a request is registered, granted or refused at once |
| `Accounts` | the two handlers, their callbacks, the `users` collection | extends `Requests`, implements `AccountService` |
| `AccountsProofs` | | theorems about `Accounts` |
| `InviteService` | what invitations promise their players | abstract: asked for, told, granted or refused, and what becomes of a game |
| `Invites` | `game_invite_handler.c`, `resolve_game_invite_handler.c`, `active_games`, the timers of short games | extends `Requests`, implements `InviteService` |
| `MCInvites` | | which user is on which connection, for TLC |
| `InvitesProofs` | | theorems about `Invites` |
| `Subscriptions` | `add_subscription`, the walks over subscribers, `vector.c` | connections are a table of descriptors, a descriptor is its bytes |
| `MCSubscriptions` | | the descriptors for TLC |
| `SubscriptionsProofs` | | theorems about `Subscriptions` |
| `Connection` | `read_handler`, `write_handler`, the buffers, the events waited for | one connection, byte by byte |
| `MCConnection` | | lengths of the packets for TLC |
| `ConnectionProofs` | | theorems about `Connection` |

A definition named `X_Something` next to a definition `X` is a faulty variant of it.
No specification uses it; replacing `X` by it shows that a property can fail.

### Queue

A thread's `pc` names the place in the function it is in, `call` the function. The
mutex is `lock` (its owner), the semaphore `sem`. `next`, `data` and `live` are the
memory of the nodes; `head` and `tail` are the pointers, and `tail` keeps pointing at a
freed node when the list runs empty, as in the code. `node`, `succ`, `val`, `ret` are the
local variables. `chain` and `token` are history: the nodes linked in, and which threads
took a token of the semaphore and have not taken an item for it. `Link` and `SetTail` are
apart because the code writes two pointers; both are under the lock.

Three roles follow from the server: threads that enqueue, one that waits in
`queue_dequeue` (the database thread) and one that polls with `queue_try_dequeue` (the
loop). NULL is a value like others: `main` enqueues it.

### TimeHeap and TimerSet

`elements` is the array with the slots past the end, since `heap_update` compares with
children there and `heap_remove_index` leaves a removed element there. An operation
starts with `pc = "idle"`, then `SiftUp`/`SettleUp` or `SiftDown`/`SettleDown` run its loop.
Only the loop thread uses the heap, so no other operation comes in between; the steps
are apart so that each swap is checked. Times are natural numbers, the order of
`timespec_gt` on normal times (`Timespec` has the real fields). `asked` is history: the id that the
last operation was about; through it `TimerSet` says of `Remove` and `Update` which timer they are about.
`EntersSecondLoop` is the comparison of `heap_update` with both children, which looks past the end of the heap
(`time_heap.c:203`) and may find anything there.

`Ops` says what callers do. With "remove" they remove armed timers, as the server does: `loop.c:346` is its
only removal, behind a look at the timer in `loop.c:344`. With "remove_stale" they remove any id they were
ever given, while a timer is left; then `heap_remove` may take out another timer, as a table entry
of a removed id may come back (`SettleDown`), which is against "Removes a timer by its ID"
(`include/time_heap.h:39`). Of such callers only the theorems `TypeCorrect` and `TableCorrect` speak. With no timer left
`total_elements` would wrap, and what the swap touches then is not modelled (`Removable`).

Two histories say what spoilt the order: `missorted`, that a sift down
put a right child above an earlier left one; `misfilled`, that a removal filled its gap with a timer
earlier than the one above the gap, which `heap_remove_index` never sifts up.

### EventLoop

`pc` walks through `loop_run`: `top` (while), `drain` (pending callbacks), `timers`
(`TIMER_CHECK`), `peek` (the look at the timer whose callback has run), `wait` (computed sleep), `epoll_wait`, `signals`, `dispatch`; then
`restore`, `returned`, `join`, `free` in `main`. `now` is `CLOCK_MONOTONIC` and may
advance between any two steps. The two queues are counters here, as `Queue` shows them
to be FIFOs, and the heap is a function from ids to times that is searched for a least
element. That is what the heap gives for two timers, and `EventLoopAssumption` allows no more:
with three, `heap_update` may already leave a later timer on top. `worker` is the
database thread: take an operation, perform it, enqueue the result and send the signal in
two steps, look at `running`. `Deliver` is what a signal does wherever the loop happens
to be, the end of the process after `loop_run` gave the handlers back included.

`Callback` is what a callback may do, be it a trigger's, a descriptor's or a timer's: nothing, set a timer, move
one, remove one (not its own, which the loop looks up afterwards without a check), give the database thread an
operation, or stop the loop as `test/timer_test.c:29` does; one of these, a bound. `outcome` is history: what
has become of a timer. "dropped" is the timer that its own callback moved to a time that is past as well: `AfterTimer`
removes it, and it never fires.

### Requests and Accounts

`owner` maps the addresses where `malloc` may put a `connection_ctx_t` to the connection
that has it; a request keeps the address (`ctx`), and `origin` remembers whose request it
was. Writing through a freed address sets `crashed`, and nothing goes on after that; when
the address has another owner by then, the answer goes there. Handlers and callbacks
run whole on the loop thread, so they are one action each. The database thread takes an
operation, may fail it (an insert that failed may have been done), and gives the result
back in order. Result and document are what callbacks look at: no result, none, or the
first document. `Patient` restricts the clients to those that stay until they are answered
and send no invalid packet while they wait; without it the origin of a request may be gone.

`AccountService` has no queues, operations, contexts or connections. Its `asked` are the requests without
their addresses, `done` those whose context is freed or was never kept, `members` the documents of the
collection in no order, `sessions` the tokens. A step of `Accounts` is one of its steps or none: a packet is
`Ask`, the insert is `Register`, the callback that answers is `Grant` or `Refuse`, and lookups and the
second operation's start do not show. It does not promise that names are unique, as the code does not
keep that: it promises that a registration finds no member who was answered when it came in.

### Invites

A game has the number of the request that asked for it, and users stand for their oids, tokens and
names. `oid` is the user that a `connection_ctx_t` acts for, set by its first token;
`user_document` is the user a request acts for. `games` is the state of a request's `game_t`
("none" until a short game is stored), `active_games` says which games the table has an entry of,
`timers` which timers run, `stored` what is in the collection. `told` and `granted` are history: the
notifications sent, and the requests that got a GameInviteReply.

The key of a game in the table is `notif_sid`, which the same callback frees. khash compares
keys, so a look-up compares with memory that may hold anything since, the string
looked up included: `str_hash_get` gives nothing or any entry, `str_hash_remove` removes nothing or any, and
`str_hash_add` may fall on an entry that is there. Which game a client names in its answer therefore
does not matter, and requests to answer carry only the verdict. Using a game after `game_free` is
`UseAfterFree`, which sets `crashed`. Fields of a request that are missing are read uninitialized
(`time_control_sender` and the like), so the model lets the game go either way, to memory or to the
collection. A context that `resolve_game_invite_handler` leaves allocated is never looked at again
and is not in `allocated`.

`InviteService` knows who asked for an invitation and for whom (`Invitations`: the user whose client sent
the request, whichever context that client had), who waits for a reply (`allocated`), `games`, `told` and
`granted`. It promises that the other player is told at most once and by the true sender, before the
sender hears that the invitation is out; that nobody is told of a request that was refused; and that both
players hear of every acceptance, end and time-out, of a game that is not over. The look-ups, the insert,
the table with its freed keys and the timers do not show in it.

### Subscriptions

`contexts` is `connection_contexts` for a set of descriptors that are given out again after a
`close`; `vectors` is one of the five tables, which are alike and share their code. `walker` and `i` are
a walk (`vector_queue_write`, or one of the three loops written out in `game_invite_handler.c`), one action
per entry. No other action comes in between: a walk runs whole on the loop thread, and the
steps are apart so that each removal is checked. `i` is a `size_t` that is decremented from 0 and
incremented again; the two are one step here, which leaves it alone.

A descriptor is an `int` of four bytes, the lowest first (the machine is little-endian), because
`int_vector_remove_index` moves `count - index` bytes where it should move as many ints: `Moves` says which bytes those are.
What is left may be an entry twice, or a number made of the bytes of two descriptors, which `contexts` then looks up
like any other. `misplaced` is history: the users from whose vector a removal has left anything
but the vector without the entry, which is what `include/vector.h:43` says ("Removes a value from the vector at the given index").

### Connection

The bytes the client sends are numbered, and so are the bytes the server queues, so that a
buffer's contents say which bytes it has and in which order; `arrived`, `taken`, `promised` and
`written` count them. `Send` lets any number of bytes arrive and `Leave` shuts or resets the
client's side. `Read` is one call of `read_handler` with a `read` that gives any number of the bytes
asked for, and all that follows: `message_handler`, the handler of the message, the answer it
queues, the removal of the packet. `Handler` is what the handlers of the message types have in
common: refuse, answer, ask the database thread, or neither. `Answer` is a callback
of that thread's operation, `Notify` an answer on behalf of another connection. `watch` is what
`loop_add_fd` last told epoll. The descriptor is in the hands of one connection only, and packets fit
their buffer.

## Runs

The name of a run is its `.cfg`. "V" marks a run that TLC is to refute.

| Run | Question | Bounds and why they are enough |
|---|---|---|
| `MCQueue` | Is the queue a FIFO under every interleaving, with whole memory and no lost token? | 3 threads, one in each role and both producers at once; 2 nodes, so that one is freed and used again; 2 values to see the order |
| `MCTimeHeap` | Do ids, slots and table agree, is the heap a `TimerSet`, and does it lose its order only by a wrong choice of child? | 4 timers: two levels with both children and a left grandchild (filling a gap wrongly takes six, see `FiveAreFilled`); 4 ids, so that slots and table entries of removed timers are met again; 3 times with ties; callers remove and update armed timers |
| `MCEventLoop` | Are triggers, timers and sleeps right whatever comes when and whatever callbacks do, do timers fire, does the loop stop? | 2 timers, 2 events, one operation, SIGINT, callbacks with any one effect, a second of 3 ns and delays of 2 and 3: borrows, early timers, dropped timers, timers set and removed by another's callback and stops before `epoll_wait` all occur, and a trigger is overtaken once |
| `MCEventLoopTrigger` V | Is every trigger served? | two operations, two events |
| `MCEventLoopFreed` V | Are the queues empty when they are freed? | two operations, SIGINT |
| `MCAccounts` | Is every request answered once, as by a service that knows no overlap, whatever fails? | 2 connections, 3 requests for one name: two registrations overlap and a third request comes later; 2 passwords |
| `MCAccountsNames` V | Are names unique? | 2 requests |
| `MCAccountsOrigin` V | Do answers go to where the request came from? | 3 connections, so that an address is used again |
| `MCConnection` | Are packets cut and answers written rightly, whatever TCP does? | 4 packets, one empty with another after it, a header of 2 bytes: it and every message of 2 may be cut; 2-byte answers may be written in part; 2 notices, which may come after the refusal |
| `MCInvites` | Does every invitation get its one answer and come to an end, and do players hear what the service promises? | 2 users on 2 connections that get the same address, so that a request may find another's context there; 3 requests: two invitations and an answer, or one and two answers |
| `MCInvitesAccepted` V | Does a game that was accepted go on? | 2 connections at once, 2 requests |
| `MCSubscriptions` | Does a walk end and leave nothing closed, and, where no removal has spoilt the vector, miss nobody and tell no stranger? | the descriptors 1, 256 and 257: two differ in the byte that moves, two in the next one, and the third is made of the others; 4 connections, so that one is used again; vectors of 3, the fewest that are spoilt even with descriptors that differ in the first byte only; 1 user, as vectors share nothing but descriptors |

`MaxNow`, `MaxTimers`, `MaxEvents`, `MaxJobs` (EventLoop), `MaxTimers`, `MaxIds` (TimeHeap),
`MaxConns`, `MaxRequests` (Requests), `N`, `MaxNotices` (Connection), `MaxConns`, `MaxEntries` (Subscriptions) are bounds of the models, not of the code. At
`MaxNow` the clock stands for every later time: timers are due before it, and a sleep that
is longer ends there. Deadlock is checked for the queue alone: the other systems
come to rest when their bounds are used up, or after shutdown. `MCInvites` has one address, as two with three
requests are beyond a run; the theorems about `Invites` cover any number.

### What the passing runs show

* `ImplementsFifo`, `EveryItemTaken`: the queue is a FIFO, and a consumer that waits gets
  each item though `queue_try_dequeue` takes items without tokens.
* `SemaphoreCovers`: tokens, threads holding one and producers that have yet to post are
  never fewer than the items: why nobody sleeps beside an item.
* `MemorySafe` (mutual exclusion, no freed node in use, no stale read), `ListShape`: the
  unlocked `free` and the dangling `tail` are harmless.
* `ImplementsTimerSet`, `TableConsistent`: for callers that remove and update armed timers only, every operation is
  about the timer whose id it is given, although removal leaves stale entries in the table and `heap_update` compares with slots past the end. `HeapOrdered`: the order is lost in two ways only. A sift down
  prefers the right child to an earlier left one (`time_heap.c:79`); or a gap is filled with a timer that
  should rise (`time_heap.c:71`), which no four timers show, and the proof shows to be all there is for more.
  `include/time_heap.h:72` promises the smallest timer: both contradict it, and the property exempts both by name.
* `OvertakenAtMostOnce`: between a complete trigger and its callback at most one event is
  dispatched. Timers are not counted: callbacks that set timers faster than the loop runs them keep it at them.
* `SleepEndsForTimers`, `TimersFire`: no timer is forgotten, whichever callback sets, moves or removes it and when. One is
  lost, and named in the property: the timer that its own callback moves to another past time
  (`loop.c:344-347`), against "triggers the callback when the time is up" (`include/loop.h:109`).
* `TimeKept`, `OnTimeUnlessBorrowed`: the borrow that a sleep leaves in the heap (`loop.c:258-261`) changes no timer's time, and a
  timer without one is never early. One with a borrow is: its seconds are one too few for `timespec_gt`, and it
  fires up to a second before its time (`EarlyByLessThanASecond`), against `include/loop.h:109` again.
* `LoopReturns`: once a callback has stopped the loop, a timer's that runs just before the sleep included,
  `loop_run` returns without waiting for anything. It does not say that a SIGINT is noticed at once: one
  that arrives between the last look at `running` and `epoll_wait` waits for the next event, as the
  trigger of `TriggersServed` does.
* `OneAnswer`, `EveryRequestAnswered`: no error path of the two handlers forgets to answer or answers twice.
* `ImplementsAccountService`, `TakenNamesRefused`: whatever else runs between two callbacks of a request, and
  whichever operation fails, a session is given once, for a name and a password that a stored user has,
  and to a registration for the very user it stored; a request that was refused leads to nothing later.
* `Framed`, `PacketsHandled`: however the stream is cut, messages are handled whole, in order
  and in the end. `OutputKept`, `OutputSettles`: short writes lose nothing, all that is queued for a client
  that stays is written while its connection is open, and one that is to be closed is.
* `WatchedWhileOwing`: no answer is forgotten and the loop does not spin on a writable descriptor.
* `ServerClosesClean`: a connection is ended after what it is owed is written, with one exception: an
  empty packet is refused but stays in the read buffer (`message_handler.c:19`), so the client's next byte makes
  `read_handler` ask for 0 bytes, take the 0 it gets for the end, and end the connection before the error
  is written (`Emptied`).
* `OneAnswer`, `InvitesSettle` of `Invites`: through two look-ups and an insert that may each fail, a
  request to invite is answered once, and no short game stays pending.
* `InvitesAreReal`: the invited player is told before the insert is done; a game that then does not come
  to be is one whose sender got an error.
* `ImplementsInviteService`: what the players hear agrees with what became of the invitation. A request
  keeps the user it came from, though its connection may be gone and another's context in its place; a
  notice is about the game it names, though look-ups by freed keys may find another; nothing is heard
  of a game after its end.
* `OnlyAnswersBreak`: the freed keys, the timers and the frees of games do no harm while nobody answers an
  invitation. Whatever breaks, an answer broke it.
* `ToldForSubscriber`: whatever removals cut in two, a vector holds bytes of its subscribers' descriptors and no others. Where
  none has spoilt the vector, who is told has subscribed, or has the descriptor of a subscriber
  that is gone (`handlers.c:31` keeps numbers, not connections). Where one has, anybody may be told whose
  descriptor is made of such bytes: with the subscribers 1 and 256, 257.
* `WalkComplete`, `WalksEnd`: a walk ends and leaves nothing closed in the vector, and where no removal has spoilt
  it, it misses no open subscriber. A spoilt vector is against `include/vector.h:43`; both properties name
  it (`misplaced`).

### What the refuted runs show

Each has a finding in `PROJECT.json` with the line of the repository it contradicts.

1. `TriggersServed`: a trigger between the last look at the queue and `epoll_wait` is not
   noticed until the next event.
2. `QueuesFreedEmpty`: shutdown may free queues that are not empty, which asserts.
3. `UniqueNames`: overlapping registrations get the same name.
4. `AnswersGoToOrigin` without `Patient`: an answer may reach another connection.
5. `AcceptedPlays`: 30 s after an invitation its timer ends the game though it was accepted, and
   frees it. A second use of the freed game, by a later answer, is what `OnlyAnswersBreak` speaks of.

### Fairness

* `Queue`: strong fairness of each thread's steps inside a call (`Continue(t)`): it goes on, and one
  that finds the mutex or the semaphore free again and again gets it, as futexes do in practice.
  Weak fairness of `Dequeue(t)` for a waiter: `database_thread` calls it in a loop. Nobody has to
  put anything in.
* `EventLoop`: weak fairness of the loop thread, of the database thread and of the clock: the
  scheduler runs both. Nothing of clients, signals and descriptors.
* `Accounts`: weak fairness of both threads. Nothing of clients.
* `Invites`: the same, and weak fairness of each `Timer(g)`: the loop fires a timer that is due
  (`TimersFire` of `EventLoop`). Nothing of clients, who need not answer.
* `Subscriptions`: weak fairness of a walk's steps, which are turns of one loop. Nothing else.
* `Connection`: weak fairness of `Read \/ ReadEnd` and of `write_handler`: the loop dispatches a
  descriptor that stays ready, and a client that stays takes what is written to it. A client
  that does not would block the loop in `write`, since sockets are blocking; that is left out.
  Weak fairness of `Answer`: the database thread gets to each operation. Nothing of `Send`, `Leave`
  and `Notify`.

## Proofs

All theorems are for every value of the constants under the named assumptions.

* **`QueueProofs`**. `IInv` is the type invariant, `ListShape`, the three parts of `MemorySafe` and `CallAt`, which ties a thread's step to the function it
  is in. The list and memory conjuncts need each other: an append is safe because `tail`
  is the end of a list of live nodes, which unlinking and freeing keep because the freed
  node is private by then. `SemaphoreCovers` is a count, kept by every step given
  that a token is held only between `SemWait` and `Unlink`. `QueueIsFifo` maps `Link` to `Put`,
  `Unlink` to `Take` and the empty look to `FindEmpty`.
* **`TimeHeapProofs`**. `IInv`, `TypeCorrect`, `TableCorrect` and `OrderKept` are for all operations, removals of ids whose timers are gone (while one is left) included;
  `HeapIsTimerSet` is for callers that remove armed timers only, as it is false for the others. `IInv` says that
  ids are unique and below `next_id` in every slot used so far, those past the end included, that the table leads to
  no other slots (`Known`), and that it is right for every timer but the one being sifted. So a stale id finds the
  slot of another timer or one past the end. `HeapIsTimerSet` maps each operation's first step to the step of `TimerSet` for the same id
  and every swap to a stutter. `OrderKept` needs `OrderInv` on top: while a timer is sifted, every other pair is in order, and so are
  its children with its parent. It is for any number of timers, so it reaches the six that a wrongly
  filled gap takes; `FiveAreFilled` says that fewer do not show it, `ExpiryFillsTheTop` that timers which only expire do not, and
  `AddKeepsOrder` that additions alone spoil nothing. `HeadIsEarliest` follows from the order by taking
  the least slot that is earlier than the top (`LeastNumber`).
* **`EventLoopProofs`**. First the arithmetic, for any second that is a whole number of
  milliseconds: `ModifyMillis`, `BorrowKeepsTime`, `TimeLeft` (a sleep is neither negative nor too
  long), `ExpiredWithinASecond` and `ComparesNormalTimes`. `IInv` adds to the type invariant that a timer's nanoseconds
  carry one borrow at most and its time is the due one, that every operation is in one
  place, that a sleep computed for a timer is not negative, and that a trigger is overtaken
  only after the queue was drained in this turn. `CallbackKeeps` says that no effect of a callback, one that removes or
  moves another timer included, breaks it. `EarlyByLessThanASecond` and `OnTime` say what a firing timer's fields tell of its time: with
  a borrow less than a second is missing, without one nothing is.
* **`AccountsProofs`**. `IInv` has six parts. `Types`. `OneOperation`: a request has one operation
  under way, in one queue, exactly as long as its context lives and it is not answered.
  `SinceAnswered` and `LetThrough`: a registration that may still insert, or has inserted, found no
  user of its name among those answered when it came in. `Evidence`: results and tokens are of
  users in the collection. `Home`: with patient clients the origin of a live request is there. The
  first three give `NamesRefused`, `Home` gives `AnswersReachOrigin`, and
  `AnsweredOnce` follows from `OneOperation` over the lemma `CountOnce`. `Truthful`, inductive on top of it, says that
  results and users have the names and passwords of their requests, and that a registration
  whose user is stored has nothing but its last callback to come. It gives `SessionsAreEarned`, and with `IInv` each step of
  `AccountsImplementService`: `AskRefines`, `DatabaseRefines`, `EndsRefines`. `Placed`, on top of `IInv` too, says that a connection has one
  context and that its requests point at it; `StraysComeOfLeaving` follows, which needs no `Patient`.
* **`InvitesProofs`**. `IInv` has `Types`, `GameTypes` and `OneOperation` as above (`Lemmas` has those they
  share), and: `Acting`, a context acts for nobody but the user of the connection that
  has it now, and an allocated request for the user who sent it, which is inductive although
  contexts are given out again because the request copied the user; `Games` and `Told`, every game and every
  notification goes back to such a request and a named player; `Evidence` and `Real`, results of operations show
  stored games, and who was told of one has it, or the request is under way, or answered; `Freed` and
  `Home`, a freed game with a running timer, or a crash, is preceded by an answer. There is one lemma per
  handler, callback and thread, over `NewRequest`, `CallbackFacts`, `InvitedTold` and `GameEnds`, which say what they
  have in common. `Acting`, `Games`, `Told` give `SendersCorrect`; `Real` gives `InvitesMade`; `OneOperation` gives `AnsweredOnce`;
  `Home` gives `BreaksAreAnswered`, under `Patient`, as a client that leaves before its answer lets the request use
  a freed context without any answer to an invitation; `BreaksAreCaused` says for all clients that it
  takes the one or the other. `ToldOnce`, inductive on top of `IInv`, says that nothing was told of a request before its
  last operation, that then its invited player was, and that it has no game yet; `InvitesImplementService` follows, with one lemma
  per handler, callback and thread (`AskServes`, `AnswerServes`, `ResolveServes`, `GoOnServes`, `DatabaseServes`, `TimerServes`).
* **`SubscriptionsProofs`**, for descriptors of any bytes. `IInv` is the type invariant, the two parts of `ToldForSubscriber`, `Walked`
  (what is behind the index was told), `Kept` and `Entries` (where nothing is `misplaced` an open subscriber has an entry, and every entry
  is a subscriber's) and `Latest` (of the connections with one descriptor the last may be open, which is why who is told without having
  subscribed came later). `RemoveFacts` says that each byte a removal leaves was that byte of an entry, and that entries before
  the index stay; `RemoveAtFacts` what it should leave. `RemovedRightly` says when the two are the same: at most one entry behind the
  index, which differs from it in the first byte only. `SmallVectorsStayWhole` follows.
* **`ConnectionProofs`**. `IInv` is the type invariant, `Framed`, `OutputKept` and `WatchedWhileOwing`. The
  lemmas are about `Bytes`: what appending to and dropping from a stretch of a stream gives, and
  that the first bytes of a packet tell its length. `Framed` is inductive because the count for the
  next read never reaches past the end of the packet. `ClosesClean` then follows: `read` returns 0 to
  a client that stays only if it was asked for 0 bytes, which happens only for an empty packet. Where packets
  start is a recursive function of their lengths; that it increases (`StartFacts`, `StartOrder`) is proved by taking the least
  packet for which it does not.

Only checked by TLC: liveness (`EveryItemTaken`, `TimersFire`, `LoopReturns`, `EveryRequestAnswered`,
`PacketsHandled`, `OutputSettles`, `InvitesSettle`, `WalksEnd`), which is beyond the prover, and of course the
refuted properties. Every safety property that a run checks is a theorem, and so are the four refinements.

## Not modelled, and why

* What becomes of a game after it was accepted, and answers to games in the collection: the code has
  TODOs there and changes nothing.
* The composition of `Invites` with `Subscriptions`: `told` of the one is a `Notify` of the other, and neither
  reads the other's state.
* `int_vector_pop` and `int_vector_remove` (no callers), the capacity of a vector.
* `loop_pause_timer`, `loop_unpause_timer`: nothing in the server calls them. Timers are not moved back in time.
* A timer callback that removes its own timer: `heap_peek_by_id` would then read the array at `SIZE_MAX`. Callbacks that do more
  than one thing.
* `heap_remove` of an id whose timer is gone when no timer is left, which makes `total_elements` wrap; `heap_update`
  of such an id.
* `fd_map` against the kernel's epoll set where a descriptor is used again, the capacities of the
  buffers, and lengths near 2^32: `Connection` has one connection whose packets fit.
* The memory of an operation (`database_operation_t`), which the database thread still reads
  after it has handed it over: a hazard without a property so far.
* Hash tables (khash), cryptography, random numbers, BSON, the generated message
  classes, start-up: libraries or straight-line code.
* UPDATE and DELETE of the database thread, the branch of `register_request_finish` for
  an insert that counts no document, `USERS`/`GAMES` dispatch: without callers or unreachable.

## Plan

Done in this order: `Queue`, `TimeHeap`, `EventLoop`, `Requests` with `Accounts`, `Connection`, `Invites`,
`Subscriptions`, and the proofs of each. Left:

1. `PausedTimers`: pause and unpause over `Timespec`, against "remaining time is kept", and the 32-bit
   milliseconds of `loop.c:209`.
2. `Connection` with a descriptor that is used again: `fd_map` against the kernel's epoll set
   (`loop.c:125`), and the width of `message_length` (`handlers.c:88`).
3. The memory of a database operation, shared by the two threads (`database.c:155`), as a composition of `Queue`
   and the database thread.
4. `EventLoop` over the heap itself, for three timers and more, where the one on top need not be the
   earliest.
