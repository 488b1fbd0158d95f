------------------------- MODULE SubscriptionsProofs -------------------------
(* What holds of subscriptions for any number of users, descriptors,           *)
(* connections and entries of a vector.                                        *)
EXTENDS Subscriptions, SequenceTheorems, TLAPS

\* Behind the index of a walk there are only connections that were told.
Walked ==
  walker # NULL =>
    /\ i <= Len(vectors[walker])
    /\ \A j \in 1..i : contexts[vectors[walker][j]] \in told

\* An open connection that subscribed has an entry, where nothing was misplaced.
Kept ==
  \A u \in Users : u \notin misplaced =>
    \A c \in subscribed[u] : Open(c) =>
      \E j \in 1..Len(vectors[u]) : vectors[u][j] = fd_of[c]

\* There every entry is a subscriber's.
Entries ==
  \A u \in Users : u \notin misplaced =>
    \A j \in 1..Len(vectors[u]) : \E c \in subscribed[u] : vectors[u][j] = fd_of[c]

\* Of the connections with one descriptor only the last may be open.
Latest ==
  \A c, d \in Conns : Open(c) /\ fd_of[d] = fd_of[c] => d <= c

\* The two parts of ToldForSubscriber.
BytesOf(u, b) == {fd_of[c][b] : c \in subscribed[u]}
BytesKept ==
  \A u \in Users : \A j \in 1..Len(vectors[u]), b \in 1..Width : vectors[u][j][b] \in BytesOf(u, b)
Subscribed(c) ==
  \E d \in subscribed[walker] : d = c \/ (d < c /\ fd_of[d] = fd_of[c] /\ ~Open(d))
ToldRightly == walker # NULL /\ walker \notin misplaced => \A c \in told : Subscribed(c)

IInv == TypeOK /\ BytesKept /\ ToldRightly /\ Walked /\ Kept /\ Entries /\ Latest

-----------------------------------------------------------------------------
(* The vector *)

\* What "removes a value from the vector at the given index" asks for.
LEMMA RemoveAtFacts ==
  ASSUME NEW S, NEW s \in Seq(S), NEW k \in 0..(Len(s) - 1)
  PROVE  /\ RemoveAt(s, k + 1) \in Seq(S)
         /\ Len(RemoveAt(s, k + 1)) = Len(s) - 1
         /\ \A j \in 1..(Len(s) - 1) : RemoveAt(s, k + 1)[j] = IF j <= k THEN s[j] ELSE s[j + 1]
<1> DEFINE n == Len(s)
           a == SubSeq(s, 1, k)
           z == SubSeq(s, k + 2, n)
<1>1. n \in Nat /\ k \in Nat /\ k + 1 <= n /\ (k + 1) - 1 = k /\ (k + 1) + 1 = k + 2
  OBVIOUS
<1>2. RemoveAt(s, k + 1) = a \o z
  BY <1>1 DEF RemoveAt
<1>3. a \in Seq(S) /\ Len(a) = k /\ \A j \in 1..k : a[j] = s[j]
  BY <1>1
<1>4. z \in Seq(S) /\ Len(z) = n - 1 - k /\ \A j \in 1..(n - 1 - k) : z[j] = s[j + k + 1]
  <2>1. \A j \in (k + 2)..n : s[j] \in S
    BY <1>1
  <2>2. /\ n - (k + 2) + 1 = n - 1 - k /\ (k + 2 <= n \/ n - 1 - k = 0) /\ k + 2 \in Int /\ n \in Int
        /\ \A j \in 1..(n - 1 - k) : (k + 2) + j - 1 = j + k + 1
    BY <1>1
  <2> HIDE DEF n
  <2>3. /\ z \in Seq(S) /\ Len(z) = IF k + 2 <= n THEN n - (k + 2) + 1 ELSE 0
        /\ \A j \in 1..(n - (k + 2) + 1) : z[j] = s[(k + 2) + j - 1]
    BY <2>1, <2>2, SubSeqProperties
  <2> QED BY <1>1, <2>2, <2>3
<1> HIDE DEF n, a, z
<1>5. /\ a \o z \in Seq(S) /\ Len(a \o z) = n - 1
      /\ \A j \in 1..(n - 1) : (a \o z)[j] = IF j <= k THEN a[j] ELSE z[j - k]
  <2>1. Len(a) + Len(z) = n - 1
    BY <1>1, <1>3, <1>4
  <2>2. /\ a \o z \in Seq(S) /\ Len(a \o z) = Len(a) + Len(z)
        /\ \A j \in 1..(Len(a) + Len(z)) :
             (a \o z)[j] = IF j <= Len(a) THEN a[j] ELSE z[j - Len(a)]
    <3>1. a \in Seq(S) /\ z \in Seq(S)
      BY <1>3, <1>4
    <3> QED BY ONLY <3>1, ConcatProperties, Zenon
  <2>3. Len(a) = k
    BY <1>3
  <2> QED BY ONLY <2>1, <2>2, <2>3
<1>6. ASSUME NEW j \in 1..(n - 1) PROVE (a \o z)[j] = IF j <= k THEN s[j] ELSE s[j + 1]
  <2>1. CASE j <= k
    <3>1. j \in 1..k
      BY <1>1, <2>1
    <3> QED BY <1>3, <1>5, <2>1, <3>1
  <2>2. CASE j > k
    <3>1. j - k \in 1..(n - 1 - k) /\ (j - k) + k + 1 = j + 1 /\ ~(j <= k)
      BY <1>1, <2>2
    <3>2. (a \o z)[j] = z[j - k]
      BY <1>5, <3>1
    <3> QED BY <1>4, <3>1, <3>2
  <2>3. j <= k \/ j > k
    BY <1>1
  <2> QED BY ONLY <2>1, <2>2, <2>3
<1> QED BY <1>2, <1>5, <1>6 DEF n

\* What int_vector_remove_index does: there is one entry less, every byte is one that
\* was there or in the next entry, and those before the index stay.
LEMMA RemoveFacts ==
  ASSUME NEW s \in Seq(Values), NEW k \in 0..(Len(s) - 1)
  PROVE  LET t == int_vector_remove_index(s, k) IN
         /\ t \in Seq(Values) /\ Len(t) = Len(s) - 1
         /\ \A j \in 1..Len(t), b \in 1..Width :
              \E m \in 1..Len(s) : t[j][b] = s[m][b]
         /\ \A j \in 1..k : t[j] = s[j]
<1> DEFINE t == int_vector_remove_index(s, k)
           entry(j) == [b \in 1..Width |->
                          IF Moves(j, b, k, Len(s) - 1 - k) THEN s[j + 1][b] ELSE s[j][b]]
<1>1. /\ Len(s) \in Nat /\ Len(s) >= 1
      /\ \A j \in 1..Len(s) : s[j] \in [1..Width -> Bytes]
  BY DEF Values
<1>2. t = [j \in 1..(Len(s) - 1) |-> entry(j)]
  BY DEF int_vector_remove_index
<1>3. \A j \in 1..(Len(s) - 1) : j \in 1..Len(s) /\ j + 1 \in 1..Len(s)
  BY <1>1
<1>4. \A j \in 1..(Len(s) - 1) : entry(j) \in Values
  BY <1>1, <1>3 DEF Values
<1>5. \A j \in 1..k : entry(j) = s[j]
  <2> SUFFICES ASSUME NEW j \in 1..k PROVE entry(j) = s[j]
    OBVIOUS
  <2>1. s[j] \in [1..Width -> Bytes]
    BY <1>1
  <2>2. \A b \in 1..Width : ~Moves(j, b, k, Len(s) - 1 - k)
    BY DEF Moves
  <2> QED BY <2>1, <2>2
<1>6. \A j \in 1..(Len(s) - 1), b \in 1..Width : entry(j)[b] = s[j][b] \/ entry(j)[b] = s[j + 1][b]
  OBVIOUS
<1> HIDE DEF t, entry
<1>7. t \in Seq(Values) /\ Len(t) = Len(s) - 1
  BY <1>1, <1>2, <1>4
<1>8. \A j \in 1..k : t[j] = s[j]
  BY <1>1, <1>2, <1>5
<1>9. \A j \in 1..Len(t), b \in 1..Width : \E m \in 1..Len(s) : t[j][b] = s[m][b]
  <2> SUFFICES ASSUME NEW j \in 1..(Len(s) - 1), NEW b \in 1..Width
               PROVE  \E m \in 1..Len(s) : t[j][b] = s[m][b]
    BY <1>7
  <2>1. t[j] = entry(j)
    BY <1>2
  <2>2. t[j][b] = s[j][b] \/ t[j][b] = s[j + 1][b]
    BY <1>6, <2>1
  <2> QED BY <1>3, <2>2
<1> QED BY <1>7, <1>8, <1>9 DEF t

\* The last entry is removed rightly, and one with a single other behind it, if the
\* two differ in no byte but the first.
LEMMA RemovedRightly ==
  ASSUME NEW s \in Seq(Values), NEW k \in 0..(Len(s) - 1), Len(s) - 1 - k <= 1,
         k + 2 = Len(s) => \A b \in 2..Width : s[k + 1][b] = s[k + 2][b]
  PROVE  int_vector_remove_index(s, k) = RemoveAt(s, k + 1)
<1> DEFINE t == int_vector_remove_index(s, k)
           r == RemoveAt(s, k + 1)
<1>1. Len(s) \in Nat /\ k \in Nat /\ Width = 4
  BY DEF Width
<1>2. t \in Seq(Values) /\ Len(t) = Len(s) - 1 /\ \A j \in 1..k : t[j] = s[j]
  BY RemoveFacts
<1>3. /\ r \in Seq(Values) /\ Len(r) = Len(s) - 1
      /\ \A j \in 1..(Len(s) - 1) : r[j] = IF j <= k THEN s[j] ELSE s[j + 1]
  BY RemoveAtFacts
<1>4. ASSUME k + 2 = Len(s) PROVE t[k + 1] = s[k + 2]
  <2>1. t[k + 1] = [b \in 1..Width |-> IF Moves(k + 1, b, k, 1) THEN s[k + 2][b] ELSE s[k + 1][b]]
    <3>1. Len(s) - 1 = k + 1 /\ Len(s) - 1 - k = 1 /\ k + 1 + 1 = k + 2 /\ k + 1 \in 1..(k + 1)
      BY <1>1, <1>4
    <3> QED BY <3>1 DEF int_vector_remove_index
  <2>2. \A b \in 1..Width : Moves(k + 1, b, k, 1) <=> b = 1
    BY <1>1 DEF Moves
  <2>3. \A b \in 1..Width : (IF Moves(k + 1, b, k, 1) THEN s[k + 2][b] ELSE s[k + 1][b]) = s[k + 2][b]
    <3>1. \A b \in 1..Width : b = 1 \/ b \in 2..Width
      BY <1>1
    <3> QED BY <1>4, <2>2, <3>1
  <2>4. s[k + 2] \in [1..Width -> Bytes]
    BY <1>1, <1>4 DEF Values
  <2> QED BY <2>1, <2>3, <2>4
<1>5. \A j \in 1..(Len(s) - 1) : t[j] = r[j]
  BY <1>1, <1>2, <1>3, <1>4
<1> QED BY <1>1, <1>2, <1>3, <1>5

-----------------------------------------------------------------------------
LEMMA InitIInv == Init => IInv
<1> SUFFICES ASSUME Init PROVE IInv
  OBVIOUS
<1>1. Conns = {}
  BY DEF Init, Conns
<1>2. TypeOK
  BY <1>1, SubscriptionsAssumption DEF Init, TypeOK
<1>3. BytesKept /\ ToldRightly /\ Walked /\ Kept /\ Entries /\ Latest
  BY <1>1 DEF Init, BytesKept, ToldRightly, Walked, Kept, Entries, Latest
<1> QED BY <1>2, <1>3 DEF IInv

\* A subscriber's number is a connection's, and its descriptor a value.
LEMMA Subscribers ==
  ASSUME IInv, NEW u \in Users, NEW c \in subscribed[u]
  PROVE  /\ c \in Conns /\ c \in Nat /\ c # NULL
         /\ fd_of[c] \in Fds /\ fd_of[c] \in Values
  BY SubscriptionsAssumption DEF IInv, TypeOK, Conns

\* A new connection changes neither who the others are nor where they are.
LEMMA AcceptIInv ==
  ASSUME IInv, NEW fd \in Fds, accept_connection_cb(fd)
  PROVE  IInv'
<1> DEFINE n == Len(fd_of) + 1
<1>1. /\ fd_of' \in Seq(Fds) /\ Len(fd_of') = n /\ fd_of'[n] = fd
      /\ Conns' = Conns \cup {n} /\ n \notin Conns /\ n \in Nat /\ n # NULL
      /\ \A c \in Conns : fd_of'[c] = fd_of[c] /\ fd_of[c] \in Fds /\ c < n /\ c \in Nat
  BY SubscriptionsAssumption DEF IInv, TypeOK, accept_connection_cb, Conns
<1>2. /\ fd \in Values /\ contexts[fd] = NULL /\ contexts' = [contexts EXCEPT ![fd] = n]
      /\ contexts \in [Values -> Conns \cup {NULL}]
      /\ UNCHANGED <<vectors, walker, i, subscribed, told, misplaced>> /\ walker = NULL
  BY SubscriptionsAssumption DEF IInv, TypeOK, accept_connection_cb
<1>3. TypeOK'
  <2>1. contexts' \in [Values -> Conns' \cup {NULL}]
    BY <1>1, <1>2
  <2>2. \A e \in Values : contexts'[e] # NULL => fd_of'[contexts'[e]] = e
    BY <1>1, <1>2 DEF IInv, TypeOK
  <2>3. Len(fd_of') <= MaxConns
    BY <1>1, SubscriptionsAssumption DEF IInv, TypeOK, accept_connection_cb
  <2> QED BY <1>1, <1>2, <2>1, <2>2, <2>3 DEF IInv, TypeOK
<1>4. \A u \in Users : \A c \in subscribed[u] : fd_of'[c] = fd_of[c]
  BY <1>1, Subscribers
<1>5. BytesKept'
  <2>1. \A u \in Users : \A b \in 1..Width : BytesOf(u, b)' = BytesOf(u, b)
    BY <1>2, <1>4 DEF BytesOf
  <2> QED BY <1>2, <2>1 DEF IInv, BytesKept
<1>6. ToldRightly' /\ Walked' /\ Entries'
  BY <1>2, <1>4 DEF IInv, ToldRightly, Walked, Entries
<1>7. \A c \in Conns : Open(c)' <=> Open(c)
  BY <1>1, <1>2, SubscriptionsAssumption DEF Open
<1>8. Kept'
  <2> SUFFICES ASSUME NEW u \in Users, u \notin misplaced, NEW c \in subscribed[u], Open(c)'
               PROVE  \E j \in 1..Len(vectors[u]) : vectors[u][j] = fd_of'[c]
    BY <1>2 DEF Kept
  <2>1. Open(c)
    BY <1>7, Subscribers
  <2> QED BY <1>4, <2>1 DEF IInv, Kept
<1>9. Latest'
  <2> SUFFICES ASSUME NEW c \in Conns', NEW d \in Conns', Open(c)', fd_of'[d] = fd_of'[c]
               PROVE  d <= c
    BY DEF Latest
  <2>1. CASE c = n
    BY <1>1, <2>1
  <2>2. CASE c \in Conns /\ d \in Conns
    BY <1>1, <1>7, <2>2 DEF IInv, Latest
  <2>3. CASE c \in Conns /\ d = n
    <3>1. contexts'[fd] = c /\ contexts'[fd] = n
      BY <1>1, <1>2, <2>3 DEF Open
    <3> QED BY <1>1, <2>3, <3>1
  <2> QED BY <1>1, <2>1, <2>2, <2>3
<1> QED BY <1>3, <1>5, <1>6, <1>8, <1>9 DEF IInv

LEMMA CleanUpIInv ==
  ASSUME IInv, NEW fd \in Fds, clean_up(fd)
  PROVE  IInv'
<1>1. /\ contexts' = [contexts EXCEPT ![fd] = NULL] /\ walker = NULL
      /\ UNCHANGED <<fd_of, vectors, walker, i, subscribed, told, misplaced>>
  BY DEF clean_up
<1>2. TypeOK'
  BY <1>1 DEF IInv, TypeOK, Conns
<1>3. BytesKept' /\ ToldRightly' /\ Walked' /\ Entries'
  BY <1>1 DEF IInv, BytesKept, BytesOf, ToldRightly, Walked, Entries
<1>4. \A c \in Conns : Open(c)' => Open(c)
  BY <1>1, SubscriptionsAssumption DEF Open, IInv, TypeOK, Conns
<1>5. Kept'
  <2> SUFFICES ASSUME NEW u \in Users, u \notin misplaced, NEW c \in subscribed[u], Open(c)'
               PROVE  \E j \in 1..Len(vectors[u]) : vectors[u][j] = fd_of[c]
    BY <1>1 DEF Kept
  <2>1. Open(c)
    BY <1>4, Subscribers
  <2> QED BY <2>1 DEF IInv, Kept
<1>6. Latest'
  BY <1>1, <1>4 DEF IInv, Latest, Conns
<1> QED BY <1>2, <1>3, <1>5, <1>6 DEF IInv

LEMMA SubscribeIInv ==
  ASSUME IInv, NEW c \in Conns, NEW u \in Users, subscribe_handler(c, u)
  PROVE  IInv'
<1> USE DEF subscribe_handler, add_subscription, int_vector_append
<1>1. /\ fd_of[c] \in Values /\ vectors[u] \in Seq(Values) /\ Len(vectors[u]) \in Nat
      /\ vectors'[u] = Append(vectors[u], fd_of[c])
      /\ \A v \in Users \ {u} : vectors'[v] = vectors[v]
      /\ vectors' \in [Users -> Seq(Values)]
  BY SubscriptionsAssumption DEF IInv, TypeOK, Conns
<1>2. /\ Len(vectors'[u]) = Len(vectors[u]) + 1
      /\ vectors'[u][Len(vectors[u]) + 1] = fd_of[c]
      /\ \A j \in 1..Len(vectors[u]) : vectors'[u][j] = vectors[u][j]
      /\ \A j \in 1..Len(vectors'[u]) : j \in 1..Len(vectors[u]) \/ j = Len(vectors[u]) + 1
  BY <1>1
<1>3. /\ subscribed'[u] = subscribed[u] \cup {c}
      /\ \A v \in Users \ {u} : subscribed'[v] = subscribed[v]
      /\ subscribed' \in [Users -> SUBSET Conns]
  BY DEF IInv, TypeOK
<1>4. UNCHANGED <<contexts, fd_of, walker, i, told, misplaced>> /\ walker = NULL
  BY DEF cvars
<1> HIDE DEF subscribe_handler, add_subscription, int_vector_append
<1>5. TypeOK'
  <2>1. \A v \in Users : Len(vectors'[v]) <= MaxEntries
    <3> TAKE v \in Users
    <3>1. CASE v = u
      BY <1>1, <1>2, <3>1, SubscriptionsAssumption DEF subscribe_handler
    <3>2. CASE v # u
      BY <1>1, <3>2 DEF IInv, TypeOK
    <3> QED BY <3>1, <3>2
  <2> QED BY <1>1, <1>3, <1>4, <2>1 DEF IInv, TypeOK, Conns
<1>6. BytesKept'
  <2>0. \A v \in Users : \A j \in 1..Len(vectors[v]), b \in 1..Width :
          \E d \in subscribed[v] : vectors[v][j][b] = fd_of[d][b]
    BY DEF IInv, BytesKept, BytesOf
  <2> SUFFICES ASSUME NEW v \in Users, NEW j \in 1..Len(vectors'[v]), NEW b \in 1..Width
               PROVE  \E d \in subscribed'[v] : vectors'[v][j][b] = fd_of[d][b]
    BY <1>4 DEF BytesKept, BytesOf
  <2>1. CASE v # u
    <3>1. vectors'[v] = vectors[v] /\ subscribed'[v] = subscribed[v]
      BY <1>1, <1>3, <2>1
    <3>2. j \in 1..Len(vectors[v])
      BY <3>1
    <3>3. \E d \in subscribed[v] : vectors[v][j][b] = fd_of[d][b]
      BY <2>0, <3>2
    <3> QED BY ONLY <3>1, <3>3
  <2>2. CASE v = u /\ j = Len(vectors[u]) + 1
    BY <1>2, <1>3, <2>2
  <2>3. CASE v = u /\ j \in 1..Len(vectors[u])
    BY <1>2, <1>3, <2>0, <2>3
  <2> QED BY <1>2, <2>1, <2>2, <2>3
<1>7. ToldRightly' /\ Walked' /\ Latest'
  BY <1>4 DEF IInv, ToldRightly, Walked, Latest, Open, Conns
<1>8. Kept'
  <2> SUFFICES ASSUME NEW v \in Users, v \notin misplaced, NEW d \in subscribed'[v], Open(d)
               PROVE  \E j \in 1..Len(vectors'[v]) : vectors'[v][j] = fd_of[d]
    BY <1>4 DEF Kept, Open
  <2>1. CASE v = u /\ d = c
    BY <1>1, <1>2, <2>1
  <2>2. CASE v # u
    <3>1. vectors'[v] = vectors[v] /\ subscribed'[v] = subscribed[v]
      BY <1>1, <1>3, <2>2
    <3> QED BY <3>1 DEF IInv, Kept
  <2>3. CASE v = u /\ d # c
    <3>1. PICK j \in 1..Len(vectors[u]) : vectors[u][j] = fd_of[d]
      BY <1>3, <2>3 DEF IInv, Kept
    <3> QED BY <1>1, <1>2, <2>3, <3>1
  <2> QED BY <2>1, <2>2, <2>3
<1>9. Entries'
  <2> SUFFICES ASSUME NEW v \in Users, v \notin misplaced, NEW j \in 1..Len(vectors'[v])
               PROVE  \E d \in subscribed'[v] : vectors'[v][j] = fd_of[d]
    BY <1>4 DEF Entries
  <2>1. CASE v # u
    <3>1. vectors'[v] = vectors[v] /\ subscribed'[v] = subscribed[v]
      BY <1>1, <1>3, <2>1
    <3> QED BY <3>1 DEF IInv, Entries
  <2>2. CASE v = u /\ j = Len(vectors[u]) + 1
    BY <1>2, <1>3, <2>2
  <2>3. CASE v = u /\ j \in 1..Len(vectors[u])
    BY <1>2, <1>3, <2>3 DEF IInv, Entries
  <2> QED BY <1>2, <2>1, <2>2, <2>3
<1> QED BY <1>5, <1>6, <1>7, <1>8, <1>9 DEF IInv

\* The beginning and the end of a walk.
LEMMA WalkBoundsIInv ==
  ASSUME IInv, walker' \in Users \cup {NULL}, i' = 0, told' = {},
         UNCHANGED <<cvars, vectors, subscribed, misplaced>>
  PROVE  IInv'
<1> USE DEF cvars
<1>1. TypeOK'
  BY SubscriptionsAssumption DEF IInv, TypeOK, Conns
<1>2. BytesKept' /\ ToldRightly'
  BY DEF IInv, BytesKept, BytesOf, ToldRightly
<1>3. Walked'
  BY DEF IInv, TypeOK, Walked
<1>4. Kept' /\ Entries' /\ Latest'
  BY DEF IInv, Kept, Entries, Latest, Open, Conns
<1> QED BY <1>1, <1>2, <1>3, <1>4 DEF IInv

-----------------------------------------------------------------------------
(* The step of a walk *)

\* Where a walk is when it goes on.
LEMMA WalkFacts ==
  ASSUME IInv, walker # NULL, i < Len(vectors[walker])
  PROVE  /\ walker \in Users /\ vectors[walker] \in Seq(Values)
         /\ i \in 0..(Len(vectors[walker]) - 1)
         /\ vectors[walker][i + 1] \in Values
  BY SubscriptionsAssumption DEF IInv, TypeOK

LEMMA DropIInv ==
  ASSUME IInv, walker # NULL, i < Len(vectors[walker]),
         contexts[vectors[walker][i + 1]] = NULL, Drop(walker),
         UNCHANGED <<cvars, walker, subscribed>>
  PROVE  IInv'
<1> DEFINE s == vectors[walker]
           t == int_vector_remove_index(s, i)
<1>1. /\ walker \in Users /\ s \in Seq(Values) /\ i \in 0..(Len(s) - 1)
      /\ s[i + 1] \in Values /\ Len(s) \in Nat
  BY WalkFacts
<1>2. /\ t \in Seq(Values) /\ Len(t) = Len(s) - 1
      /\ \A j \in 1..Len(t), b \in 1..Width : \E m \in 1..Len(s) : t[j][b] = s[m][b]
      /\ \A j \in 1..i : t[j] = s[j]
  BY <1>1, RemoveFacts
<1>3. /\ vectors'[walker] = t
      /\ \A u \in Users \ {walker} : vectors'[u] = vectors[u]
      /\ vectors' \in [Users -> Seq(Values)]
  BY <1>1, <1>2 DEF IInv, TypeOK, Drop, RemoveEntry
<1>4. /\ misplaced' \subseteq Users /\ misplaced \subseteq misplaced'
      /\ \A u \in Users : u \notin misplaced' => u \notin misplaced
      /\ walker \notin misplaced' => t = RemoveAt(s, i + 1)
  BY <1>1 DEF IInv, TypeOK, Drop, RemoveEntry
<1>5. UNCHANGED <<contexts, fd_of, walker, i, told, subscribed>>
  BY DEF cvars, Drop
<1> HIDE DEF t
<1>6. TypeOK'
  <2>1. \A u \in Users : Len(vectors'[u]) <= MaxEntries
    <3> TAKE u \in Users
    <3>1. CASE u = walker
      <4>1. Len(s) <= MaxEntries
        BY <1>1 DEF IInv, TypeOK
      <4> QED BY <1>1, <1>2, <1>3, <3>1, <4>1, SubscriptionsAssumption
    <3>2. CASE u # walker
      BY <1>3, <3>2 DEF IInv, TypeOK
    <3> QED BY <3>1, <3>2
  <2> QED BY <1>3, <1>4, <1>5, <2>1 DEF IInv, TypeOK, Conns
<1>7. BytesKept'
  <2> SUFFICES ASSUME NEW u \in Users, NEW j \in 1..Len(vectors'[u]), NEW b \in 1..Width
               PROVE  vectors'[u][j][b] \in BytesOf(u, b)
    BY <1>5 DEF BytesKept, BytesOf
  <2>1. CASE u = walker
    <3>1. PICK m \in 1..Len(s) : t[j][b] = s[m][b]
      BY <1>2, <1>3, <2>1
    <3> QED BY <1>3, <2>1, <3>1 DEF IInv, BytesKept
  <2>2. CASE u # walker
    BY <1>3, <2>2 DEF IInv, BytesKept
  <2> QED BY <2>1, <2>2
<1>8. ToldRightly' /\ Latest'
  BY <1>1, <1>4, <1>5 DEF IInv, ToldRightly, Subscribed, Latest, Open, Conns
<1>9. Walked'
  <2>1. i <= Len(t)
    BY <1>1, <1>2
  <2>2. \A j \in 1..i : contexts[t[j]] \in told
    BY <1>2 DEF IInv, Walked
  <2> QED BY <1>3, <1>5, <2>1, <2>2 DEF Walked
\* Where nothing was misplaced the vector is what it should be.
<1>10. ASSUME walker \notin misplaced'
       PROVE  \A j \in 1..(Len(s) - 1) : t[j] = IF j <= i THEN s[j] ELSE s[j + 1]
  BY <1>1, <1>4, <1>10, RemoveAtFacts
<1>11. Kept'
  <2> SUFFICES ASSUME NEW u \in Users, u \notin misplaced', NEW c \in subscribed[u], Open(c)
               PROVE  \E j \in 1..Len(vectors'[u]) : vectors'[u][j] = fd_of[c]
    BY <1>5 DEF Kept, Open
  <2>1. PICK m \in 1..Len(vectors[u]) : vectors[u][m] = fd_of[c]
    BY <1>4 DEF IInv, Kept
  <2>2. CASE u # walker
    BY <1>3, <2>1, <2>2
  <2>3. CASE u = walker
    <3>1. m # i + 1
      BY <2>1, <2>3, Subscribers DEF Open
    <3>2. CASE m <= i
      <4>1. m \in 1..(Len(s) - 1) /\ t[m] = s[m]
        BY <1>1, <1>2, <2>3, <3>2
      <4> QED BY <1>2, <1>3, <2>1, <2>3, <4>1
    <3>3. CASE m > i + 1
      <4>1. m - 1 \in 1..(Len(s) - 1) /\ ~(m - 1 <= i) /\ (m - 1) + 1 = m
        BY <1>1, <2>3, <3>3
      <4>2. t[m - 1] = s[m]
        BY <1>10, <2>3, <4>1
      <4> QED BY <1>2, <1>3, <2>1, <2>3, <4>1, <4>2
    <3> QED BY <1>1, <3>1, <3>2, <3>3
  <2> QED BY <2>2, <2>3
<1>12. Entries'
  <2> SUFFICES ASSUME NEW u \in Users, u \notin misplaced', NEW j \in 1..Len(vectors'[u])
               PROVE  \E c \in subscribed[u] : vectors'[u][j] = fd_of[c]
    BY <1>5 DEF Entries
  <2>1. CASE u # walker
    BY <1>3, <1>4, <2>1 DEF IInv, Entries
  <2>2. CASE u = walker
    <3>1. j \in 1..(Len(s) - 1) /\ j \in 1..Len(s) /\ j + 1 \in 1..Len(s)
      BY <1>1, <1>2, <1>3, <2>2
    <3>2. t[j] = s[j] \/ t[j] = s[j + 1]
      BY <1>10, <2>2, <3>1
    <3>3. \A m \in 1..Len(s) : \E c \in subscribed[u] : s[m] = fd_of[c]
      BY <1>4, <2>2 DEF IInv, Entries
    <3> QED BY <1>3, <2>2, <3>1, <3>2, <3>3
  <2> QED BY <2>1, <2>2
<1> QED BY <1>6, <1>7, <1>8, <1>9, <1>11, <1>12 DEF IInv

LEMMA TellIInv ==
  ASSUME IInv, walker # NULL, i < Len(vectors[walker]),
         contexts[vectors[walker][i + 1]] # NULL, Tell(vectors[walker][i + 1]),
         UNCHANGED <<cvars, walker, subscribed>>
  PROVE  IInv'
<1> DEFINE fd == vectors[walker][i + 1]
           c == contexts[fd]
<1>1. /\ walker \in Users /\ vectors[walker] \in Seq(Values)
      /\ i \in 0..(Len(vectors[walker]) - 1) /\ fd \in Values
  BY WalkFacts
<1>2. c \in Conns /\ fd_of[c] = fd /\ Open(c) /\ c \in Nat
  BY <1>1 DEF IInv, TypeOK, Open, Conns
<1>3. told' = told \cup {c} /\ i' = i + 1 /\ i' <= Len(vectors[walker])
  BY <1>1 DEF Tell
<1>4. UNCHANGED <<contexts, fd_of, walker, subscribed, vectors, misplaced>>
  BY DEF Tell, cvars
<1>5. TypeOK'
  <2>1. i' \in 0..MaxEntries
    BY <1>1, <1>3, SubscriptionsAssumption DEF IInv, TypeOK
  <2> QED BY <1>2, <1>3, <1>4, <2>1 DEF IInv, TypeOK, Conns
<1>6. ToldRightly'
  <2> SUFFICES ASSUME walker \notin misplaced, NEW e \in told \cup {c} PROVE Subscribed(e)
    BY <1>3, <1>4 DEF ToldRightly, Subscribed, Open
  <2>1. CASE e \in told
    BY <2>1 DEF IInv, ToldRightly
  <2>2. CASE e = c
    <3>1. PICK d \in subscribed[walker] : fd_of[d] = fd
      BY <1>1 DEF IInv, Entries
    <3>2. d \in Conns /\ d \in Nat /\ d <= c
      BY <1>1, <1>2, <3>1, Subscribers DEF IInv, Latest
    <3>3. d # c => ~Open(d)
      BY <3>1 DEF Open
    <3> QED BY <1>2, <2>2, <3>1, <3>2, <3>3 DEF Subscribed
  <2> QED BY <2>1, <2>2
<1>7. Walked'
  <2>1. \A j \in 1..i' : j \in 1..i \/ j = i + 1
    BY <1>1, <1>3
  <2>2. \A j \in 1..i' : contexts[vectors[walker][j]] \in told'
    BY <1>3, <2>1 DEF IInv, Walked
  <2> QED BY <1>3, <1>4, <2>2 DEF Walked
<1>8. BytesKept' /\ Kept' /\ Entries' /\ Latest'
  BY <1>4 DEF IInv, BytesKept, BytesOf, Kept, Entries, Latest, Open, Conns
<1> QED BY <1>5, <1>6, <1>7, <1>8 DEF IInv

-----------------------------------------------------------------------------
LEMMA NextIInv == IInv /\ [Next]_vars => IInv'
<1> SUFFICES ASSUME IInv, [Next]_vars PROVE IInv'
  OBVIOUS
<1>1. CASE UNCHANGED vars
  <2> USE <1>1 DEF vars, cvars
  <2>1. TypeOK'
    BY DEF IInv, TypeOK, Conns
  <2>2. BytesKept' /\ ToldRightly' /\ Walked'
    BY DEF IInv, BytesKept, BytesOf, ToldRightly, Subscribed, Walked, Open
  <2>3. Kept' /\ Entries' /\ Latest'
    BY DEF IInv, Kept, Entries, Latest, Open, Conns
  <2> QED BY <2>1, <2>2, <2>3 DEF IInv
<1>2. ASSUME NEW fd \in Fds, accept_connection_cb(fd) \/ clean_up(fd) PROVE IInv'
  BY <1>2, AcceptIInv, CleanUpIInv
<1>3. ASSUME NEW c \in Conns, NEW u \in Users, subscribe_handler(c, u) PROVE IInv'
  BY <1>3, SubscribeIInv
<1>4. ASSUME NEW u \in Users, Notify(u) PROVE IInv'
  BY <1>4, WalkBoundsIInv DEF Notify
<1>5. CASE vector_queue_write
  BY <1>5, DropIInv, TellIInv DEF vector_queue_write
<1>6. CASE Return
  BY <1>6, WalkBoundsIInv DEF Return
<1> QED BY <1>1, <1>2, <1>3, <1>4, <1>5, <1>6 DEF Next

THEOREM Invariance == Spec => []IInv
  BY InitIInv, NextIInv, PTL DEF Spec

\* Tables, vectors and walks have their types: connection_contexts leads from a
\* descriptor to a connection that has it, and no walk leaves its vector.
THEOREM TypeCorrect == Spec => []TypeOK
  BY Invariance, PTL DEF IInv

\* Whatever the descriptors and however many, a vector holds bytes of its subscribers'
\* descriptors, and where no removal has spoilt it only a subscriber is told, or who
\* came after one that is gone and was given its descriptor (handlers.c:31).
THEOREM NotificationsFollowSubscriptions == Spec => []ToldForSubscriber
<1>1. IInv => ToldForSubscriber
  BY DEF IInv, ToldForSubscriber, BytesKept, BytesOf, ToldRightly, Subscribed
<1> QED BY <1>1, Invariance, PTL

\* A walk that removes what it walks over (contexts.c:40-50) leaves nothing closed, and
\* misses nobody in a vector that no removal has spoilt.
THEOREM WalksAreComplete == Spec => []WalkComplete
<1>1. IInv => WalkComplete
  <2> SUFFICES ASSUME IInv, Done PROVE WalkComplete
    BY DEF WalkComplete
  <2> DEFINE s == vectors[walker]
  <2>1. walker \in Users /\ i = Len(s)
    BY DEF IInv, TypeOK, Walked, Done
  <2>2. \A j \in 1..Len(s) : contexts[s[j]] \in told
    BY <2>1 DEF IInv, Walked, Done
  <2>3. NULL \notin told
    <3>1. told \subseteq Nat
      BY DEF IInv, TypeOK, Conns
    <3> QED BY <3>1, SubscriptionsAssumption
  <2>4. ASSUME walker \notin misplaced, NEW c \in subscribed[walker], Open(c)
        PROVE  c \in told
    <3>1. PICK j \in 1..Len(s) : s[j] = fd_of[c]
      BY <2>1, <2>4 DEF IInv, Kept
    <3> QED BY <2>2, <2>4, <3>1 DEF Open
  <2> QED BY <2>2, <2>3, <2>4 DEF WalkComplete
<1> QED BY <1>1, Invariance, PTL

\* At most two entries, and descriptors that differ in their first byte only.
Small == MaxEntries <= 2 /\ \A x, y \in Fds : \A b \in 2..Width : x[b] = y[b]
Whole == Small => misplaced = {}

\* When no removal spoils a vector: there are at most two entries, and the descriptors
\* differ in their first byte only, as all below 256 do.  Three entries are too many,
\* and so are two whose descriptors differ in another byte.
THEOREM SmallVectorsStayWhole == Spec => []Whole
<1>1. Init => Whole
  BY DEF Init, Whole
<1>2. IInv /\ Whole /\ [Next]_vars => Whole'
  <2> SUFFICES ASSUME IInv, Small, misplaced = {}, [Next]_vars PROVE misplaced' = {}
    BY DEF Whole
  <2> USE DEF Small
  <2>1. CASE ~vector_queue_write \/ UNCHANGED misplaced
    BY <2>1 DEF Next, vars, accept_connection_cb, clean_up, subscribe_handler, Notify, Return
  <2>2. CASE vector_queue_write /\ misplaced' # misplaced
    <3> DEFINE s == vectors[walker]
    <3>1. /\ walker # NULL /\ i < Len(s) /\ Drop(walker)
      BY <2>2 DEF vector_queue_write, Tell
    <3>2. /\ walker \in Users /\ s \in Seq(Values) /\ i \in 0..(Len(s) - 1)
      BY <3>1, WalkFacts
    <3>3. Len(s) <= 2 /\ Len(s) \in Nat
      BY <3>2, SubscriptionsAssumption DEF IInv, TypeOK
    <3>4. ASSUME i + 2 = Len(s) PROVE \A b \in 2..Width : s[i + 1][b] = s[i + 2][b]
      <4> TAKE b \in 2..Width
      <4>1. b \in 1..Width /\ i + 1 \in 1..Len(s) /\ i + 2 \in 1..Len(s)
        BY <3>2, <3>4 DEF Width
      <4>2. PICK c \in subscribed[walker] : s[i + 1][b] = fd_of[c][b]
        BY <3>2, <4>1 DEF IInv, BytesKept, BytesOf
      <4>3. PICK d \in subscribed[walker] : s[i + 2][b] = fd_of[d][b]
        BY <3>2, <4>1 DEF IInv, BytesKept, BytesOf
      <4>4. fd_of[c] \in Fds /\ fd_of[d] \in Fds
        BY <3>2, Subscribers
      <4> QED BY <4>2, <4>3, <4>4
    <3>5. int_vector_remove_index(s, i) = RemoveAt(s, i + 1)
      BY <3>2, <3>3, <3>4, RemovedRightly
    <3> QED BY <3>1, <3>5 DEF Drop, RemoveEntry
  <2> QED BY <2>1, <2>2
<1> QED BY <1>1, <1>2, Invariance, PTL DEF Spec
=============================================================================
