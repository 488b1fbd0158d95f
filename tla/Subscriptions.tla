---------------------------- MODULE Subscriptions ----------------------------
(* The subscriptions to one kind of event: handlers.c:add_subscription, the    *)
(* int vectors of vector.c and the walks that tell the subscribers.  The five  *)
(* tables of server_ctx are alike: from a user to a vector of descriptors,     *)
(* which the table connection_contexts turns into connections.  An int is its   *)
(* bytes, the lowest first: a removal may cut a descriptor in two.              *)
EXTENDS Integers, SequencesExt

CONSTANTS
  Users,
  Bytes,       \* the values of a byte
  Fds,         \* the descriptors that the kernel gives to connections
  MaxConns,    \* bound: connections ever accepted
  MaxEntries,  \* bound: the entries of a vector
  NULL

Width  == 4     \* sizeof(int)
Values == [1..Width -> Bytes]

ASSUME SubscriptionsAssumption ==
  /\ 0 \in Bytes
  /\ Fds \subseteq Values
  /\ MaxConns \in Nat /\ MaxEntries \in Nat
  /\ NULL \notin Nat /\ NULL \notin Users

VARIABLES
  contexts,    \* connection_contexts: the connection that a value leads to, or NULL
  vectors,     \* a user's vector; an absent one and an empty one are told alike
  walker,      \* the user whose vector a handler walks, or NULL
  i,           \* where it is
  fd_of,       \* history: the descriptor of every connection ever accepted
  subscribed,  \* history: the connections that subscribed for a user
  told,        \* history: the connections told in the walk
  misplaced    \* history: users of whose vector a removal spoilt the others

cvars == <<contexts, fd_of>>
vars  == <<cvars, vectors, walker, i, subscribed, told, misplaced>>

Conns == 1..Len(fd_of)
Open(c) == contexts[fd_of[c]] = c

Init ==
  /\ contexts = [fd \in Values |-> NULL]
  /\ vectors = [u \in Users |-> <<>>]
  /\ walker = NULL /\ i = 0
  /\ fd_of = <<>>
  /\ subscribed = [u \in Users |-> {}]
  /\ told = {} /\ misplaced = {}

-----------------------------------------------------------------------------
(* vector.c, with indices from 0 *)
\* Mutant: the count is taken up before the value is stored, behind it.
int_vector_append_Early(vector, value) == Append(vector, [b \in 1..Width |-> 0])

int_vector_append(vector, value) == Append(vector, value)

\* memmove is given as many bytes as there are ints behind the index: only that many
\* bytes of them move down, and the rest stays as it was.
Moves(j, b, index, bytes) == j > index /\ (j - 1 - index) * Width + (b - 1) < bytes

\* Mutant: the count is not taken down.
remove_index_Counted(vector, index) ==
  [j \in 1..Len(vector) |->
     [b \in 1..Width |->
        IF j < Len(vector) /\ Moves(j, b, index, Len(vector) - 1 - index)
        THEN vector[j + 1][b] ELSE vector[j][b]]]

int_vector_remove_index(vector, index) ==
  LET count == Len(vector) - 1 IN
  [j \in 1..count |->
     [b \in 1..Width |->
        IF Moves(j, b, index, count - index) THEN vector[j + 1][b] ELSE vector[j][b]]]

-----------------------------------------------------------------------------
(* A walk runs whole on the loop thread: no connection comes or goes in it. *)
accept_connection_cb(fd) ==
  /\ walker = NULL
  /\ contexts[fd] = NULL
  /\ Len(fd_of) < MaxConns
  /\ fd_of' = Append(fd_of, fd)
  /\ contexts' = [contexts EXCEPT ![fd] = Len(fd_of) + 1]
  /\ UNCHANGED <<vectors, walker, i, subscribed, told, misplaced>>

clean_up(fd) ==
  /\ walker = NULL
  /\ contexts[fd] # NULL
  /\ contexts' = [contexts EXCEPT ![fd] = NULL]
  /\ UNCHANGED <<fd_of, vectors, walker, i, subscribed, told, misplaced>>

\* A client may hold the tokens of several users; with nobody's it gets an error.
add_subscription(c, u) ==
  /\ vectors' = [vectors EXCEPT ![u] = int_vector_append(@, fd_of[c])]
  /\ subscribed' = [subscribed EXCEPT ![u] = @ \cup {c}]

subscribe_handler(c, u) ==
  /\ walker = NULL
  /\ Open(c)
  /\ Len(vectors[u]) < MaxEntries
  /\ add_subscription(c, u)
  /\ UNCHANGED <<cvars, walker, i, told, misplaced>>

\* An event for user u: vector_queue_write, or one of the loops written out in
\* game_start_timer_short and game_invite_get_invitee_document_and_notify.
Notify(u) ==
  /\ walker = NULL
  /\ walker' = u /\ i' = 0 /\ told' = {}
  /\ UNCHANGED <<cvars, vectors, subscribed, misplaced>>

RemoveEntry(u) ==
  LET removed == int_vector_remove_index(vectors[u], i) IN
  /\ vectors' = [vectors EXCEPT ![u] = removed]
  /\ misplaced' = IF removed = RemoveAt(vectors[u], i + 1) THEN misplaced ELSE misplaced \cup {u}

\* Mutant: i is not taken up again.
Drop_Back(u) == RemoveEntry(u) /\ i' = i - 1 /\ UNCHANGED told

\* Mutant: i goes on to the entry after the one that took the removed one's place.
Drop_Skip(u) == RemoveEntry(u) /\ i' = i + 1 /\ UNCHANGED told

\* i, a size_t, is taken down from 0 to its maximum and up again: it stays.
Drop(u) == RemoveEntry(u) /\ UNCHANGED <<i, told>>

Tell(fd) ==
  /\ told' = told \cup {contexts[fd]}
  /\ i' = i + 1
  /\ UNCHANGED <<vectors, misplaced>>

vector_queue_write ==
  /\ walker # NULL
  /\ i < Len(vectors[walker])
  /\ LET fd == vectors[walker][i + 1] IN
       \/ contexts[fd] = NULL /\ Drop(walker)
       \/ contexts[fd] # NULL /\ Tell(fd)
  /\ UNCHANGED <<cvars, walker, subscribed>>

Done == walker # NULL /\ i >= Len(vectors[walker])

Return ==
  /\ Done
  /\ walker' = NULL /\ i' = 0 /\ told' = {}
  /\ UNCHANGED <<cvars, vectors, subscribed, misplaced>>

-----------------------------------------------------------------------------
Next ==
  \/ \E fd \in Fds : accept_connection_cb(fd) \/ clean_up(fd)
  \/ \E c \in Conns, u \in Users : subscribe_handler(c, u)
  \/ \E u \in Users : Notify(u)
  \/ vector_queue_write
  \/ Return

Spec == Init /\ [][Next]_vars

\* The loop thread runs: a walk that can go on does.
FairSpec == Spec /\ WF_vars(vector_queue_write \/ Return)

-----------------------------------------------------------------------------
TypeOK ==
  /\ fd_of \in Seq(Fds) /\ Len(fd_of) <= MaxConns
  /\ contexts \in [Values -> Conns \cup {NULL}]
  /\ \A fd \in Values : contexts[fd] # NULL => fd_of[contexts[fd]] = fd
  /\ vectors \in [Users -> Seq(Values)]
  /\ \A u \in Users : Len(vectors[u]) <= MaxEntries
  /\ walker \in Users \cup {NULL}
  /\ i \in 0..MaxEntries
  /\ subscribed \in [Users -> SUBSET Conns]
  /\ told \subseteq Conns
  /\ misplaced \subseteq Users

\* Every byte of a user's vector is that byte of a subscriber's descriptor, whatever
\* removals have cut it into.  Where none has spoilt it, who is told has subscribed, or
\* came later and was given the descriptor of a subscriber that is gone.  Where one has
\* (vector.c:53, against vector.h:43 "Removes a value from the vector at the given
\* index"), anybody may be told whose descriptor is made of such bytes.
ToldForSubscriber ==
  /\ \A u \in Users : \A j \in 1..Len(vectors[u]), b \in 1..Width :
       vectors[u][j][b] \in {fd_of[c][b] : c \in subscribed[u]}
  /\ walker # NULL /\ walker \notin misplaced =>
       \A c \in told : \E d \in subscribed[walker] :
         d = c \/ (d < c /\ fd_of[d] = fd_of[c] /\ ~Open(d))

\* After a walk, which removes entries of the vector under it, the vector holds open
\* descriptors only: it does not grow with the connections that were.  Every open
\* connection that subscribed has been told, unless a removal has spoilt the vector.
WalkComplete ==
  Done => /\ \A j \in 1..Len(vectors[walker]) : contexts[vectors[walker][j]] # NULL
          /\ walker \notin misplaced => \A c \in subscribed[walker] : Open(c) => c \in told

\* Every walk ends, though it takes its index back over what it removes.
WalksEnd == walker # NULL ~> walker = NULL
=============================================================================
