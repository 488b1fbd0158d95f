-------------------------- MODULE ConnectionProofs --------------------------
(* Theorems about Connection, for every length of the header, every sequence  *)
(* of packets and every way the stream is cut into reads and writes.          *)
EXTENDS Connection, Lemmas

IInv == TypeOK /\ Framed /\ OutputKept /\ WatchedWhileOwing

-----------------------------------------------------------------------------
(* Stretches of the stream *)

LEMMA BytesFacts ==
  ASSUME NEW a \in Nat, NEW n \in Nat
  PROVE  /\ Bytes(a, n) \in Seq(Nat)
         /\ Len(Bytes(a, n)) = n
         /\ \A j \in 1..n : Bytes(a, n)[j] = a + j
         /\ Bytes(a, n) = <<>> <=> n = 0
<1>1. /\ Bytes(a, n) \in Seq(Nat) /\ Len(Bytes(a, n)) = n
      /\ \A j \in 1..n : Bytes(a, n)[j] = a + j
  BY DEF Bytes
<1>2. Bytes(a, n) = <<>> => Len(Bytes(a, n)) = 0
  OBVIOUS
<1>3. n = 0 => Bytes(a, n) = <<>>
  BY <1>1, EmptySeq
<1> QED BY <1>1, <1>2, <1>3

LEMMA BytesConcat ==
  ASSUME NEW a \in Nat, NEW n \in Nat, NEW m \in Nat
  PROVE  Bytes(a, n) \o Bytes(a + n, m) = Bytes(a, n + m)
<1> DEFINE s == Bytes(a, n)  t == Bytes(a + n, m)  u == Bytes(a, n + m)
<1>1. s \in Seq(Nat) /\ Len(s) = n /\ \A j \in 1..n : s[j] = a + j
  BY BytesFacts
<1>2. a + n \in Nat /\ n + m \in Nat
  OBVIOUS
<1>3. t \in Seq(Nat) /\ Len(t) = m /\ \A j \in 1..m : t[j] = a + n + j
  BY BytesFacts, <1>2
<1>4. u \in Seq(Nat) /\ Len(u) = n + m /\ \A j \in 1..(n + m) : u[j] = a + j
  BY BytesFacts, <1>2
<1> HIDE DEF s, t, u
<1>5. /\ s \o t \in Seq(Nat) /\ Len(s \o t) = n + m
      /\ \A j \in 1..(n + m) : (s \o t)[j] = IF j <= n THEN s[j] ELSE t[j - n]
  BY <1>1, <1>3, ConcatProperties
<1>6. ASSUME NEW j \in 1..(n + m) PROVE (s \o t)[j] = u[j]
  <2>1. CASE j <= n
    BY <2>1, <1>1, <1>4, <1>5
  <2>2. CASE ~ (j <= n)
    <3>1. j - n \in 1..m /\ a + n + (j - n) = a + j
      BY <2>2
    <3> QED BY <2>2, <3>1, <1>3, <1>4, <1>5
  <2> QED BY <2>1, <2>2
<1>7. s \o t = u
  BY <1>4, <1>5, <1>6, SeqEqual
<1> QED BY <1>7 DEF s, t, u

LEMMA BytesSub ==
  ASSUME NEW a \in Nat, NEW n \in Nat, NEW k \in Nat, NEW m \in Nat, k + m <= n
  PROVE  SubSeq(Bytes(a, n), k + 1, k + m) = Bytes(a + k, m)
<1> DEFINE s == Bytes(a, n)  t == SubSeq(s, k + 1, k + m)  u == Bytes(a + k, m)
<1>1. s \in Seq(Nat) /\ Len(s) = n /\ \A j \in 1..n : s[j] = a + j
  BY BytesFacts
<1>2. a + k \in Nat
  OBVIOUS
<1>3. u \in Seq(Nat) /\ Len(u) = m /\ \A j \in 1..m : u[j] = a + k + j
  BY BytesFacts, <1>2
<1>4. t \in Seq(Nat) /\ Len(t) = m /\ \A j \in 1..m : t[j] = s[k + j]
  <2>1. k + 1 \in Int /\ k + m \in Int
    OBVIOUS
  <2>2. \A j \in (k + 1)..(k + m) : s[j] \in Nat
    BY <1>1
  <2> HIDE DEF s
  <2>3. /\ t \in Seq(Nat)
        /\ Len(t) = IF k + 1 <= k + m THEN k + m - (k + 1) + 1 ELSE 0
        /\ \A j \in 1..(k + m - (k + 1) + 1) : t[j] = s[k + 1 + j - 1]
    BY <2>1, <2>2, SubSeqProperties
  <2> HIDE DEF t
  <2>4. Len(t) = m
    BY <2>3
  <2>5. ASSUME NEW j \in 1..m PROVE t[j] = s[k + j]
    <3>1. j \in 1..(k + m - (k + 1) + 1) /\ k + 1 + j - 1 = k + j
      OBVIOUS
    <3> QED BY <2>3, <3>1
  <2> QED BY <2>3, <2>4, <2>5
<1>5. ASSUME NEW j \in 1..m PROVE t[j] = u[j]
  <2>1. k + j \in 1..n /\ a + (k + j) = a + k + j
    OBVIOUS
  <2> HIDE DEF t, u, s
  <2> QED BY <2>1, <1>1, <1>3, <1>4
<1> HIDE DEF t, u
<1>6. t = u
  BY <1>3, <1>4, <1>5, SeqEqual
<1> QED BY <1>6 DEF t, u

LEMMA BytesDrop ==
  ASSUME NEW a \in Nat, NEW n \in Nat, NEW k \in 0..n
  PROVE  Drop(Bytes(a, n), k) = Bytes(a + k, n - k)
<1>1. n - k \in Nat /\ k \in Nat /\ k + (n - k) = n
  OBVIOUS
<1>2. \A m \in Nat : k + m <= n => SubSeq(Bytes(a, n), k + 1, k + m) = Bytes(a + k, m)
  BY <1>1, BytesSub
<1>3. Len(Bytes(a, n)) = n
  BY BytesFacts
<1> QED BY <1>1, <1>2, <1>3 DEF Drop

-----------------------------------------------------------------------------
(* Packets and their headers *)

\* The sums of the packets' bytes exist and increase: both by induction.
PacketsEnd(f, n) ==
  /\ f \in [1..n -> Nat] /\ f[1] = 0
  /\ \A i \in 1..(n - 1) : f[i + 1] = f[i] + HEADER + Length[i]

LEMMA StartExists ==
  ASSUME NEW n \in 1..(N + 1)
  PROVE  \E f : PacketsEnd(f, n)
<1> DEFINE Missing == {k \in 1..(N + 1) : ~ \E f : PacketsEnd(f, k)}
<1> SUFFICES ASSUME Missing # {} PROVE FALSE
  OBVIOUS
<1>1. N \in Nat /\ HEADER \in Nat /\ Length \in [1..N -> Nat]
  BY ConnectionAssumption
<1>2. PICK k \in Missing : \A j \in Missing : k <= j
  <2>1. Missing \subseteq Nat
    BY <1>1
  <2> HIDE DEF Missing
  <2> QED BY <2>1, LeastNumber
<1>3. k \in 1..(N + 1) /\ ~ \E f : PacketsEnd(f, k)
  BY <1>2
<1>4. CASE k = 1
  <2>1. PacketsEnd([i \in 1..1 |-> 0], 1)
    BY DEF PacketsEnd
  <2> QED BY <1>3, <1>4, <2>1
<1>5. CASE k # 1
  <2>1. k - 1 \in 1..N /\ k - 1 \in 1..(N + 1) /\ ~ (k <= k - 1)
    BY <1>1, <1>3, <1>5
  <2>2. PICK f : PacketsEnd(f, k - 1)
    BY <1>2, <2>1
  <2> DEFINE g == [i \in 1..k |-> IF i = k THEN f[k - 1] + HEADER + Length[k - 1] ELSE f[i]]
  <2>3. f \in [1..(k - 1) -> Nat] /\ f[1] = 0
        /\ \A i \in 1..(k - 1 - 1) : f[i + 1] = f[i] + HEADER + Length[i]
    BY <2>2 DEF PacketsEnd
  <2>4. f[k - 1] \in Nat /\ Length[k - 1] \in Nat
    BY <1>1, <2>1, <2>3
  <2>5. g \in [1..k -> Nat]
    BY <1>1, <1>3, <2>3, <2>4
  <2>6. g[1] = 0 /\ g[k] = f[k - 1] + HEADER + Length[k - 1] /\ g[k - 1] = f[k - 1]
    BY <1>3, <1>5, <2>1, <2>3
  <2>7. ASSUME NEW i \in 1..(k - 1)
        PROVE  g[i + 1] = g[i] + HEADER + Length[i]
    <3>1. CASE i = k - 1
      BY <2>6, <3>1, <1>3
    <3>2. CASE i # k - 1
      <4>1. i \in 1..(k - 1 - 1) /\ i + 1 \in 1..k /\ i + 1 # k /\ i \in 1..k /\ i # k
        BY <1>1, <1>3, <2>7, <3>2
      <4>2. g[i + 1] = f[i + 1] /\ g[i] = f[i]
        BY <4>1
      <4> QED BY <2>3, <4>1, <4>2
    <3> QED BY <3>1, <3>2
  <2>8. PacketsEnd(g, k)
    <3> HIDE DEF g
    <3> QED BY <2>5, <2>6, <2>7 DEF PacketsEnd
  <2> QED BY <1>3, <2>8
<1> QED BY <1>4, <1>5

\* Start is that function: the equations leave no other.
LEMMA StartFacts ==
  /\ Start \in [1..(N + 1) -> Nat] /\ Start[1] = 0
  /\ \A i \in 1..N : Start[i + 1] = Start[i] + HEADER + Length[i]
<1> DEFINE Sums(f) == f = [i \in 1..(N + 1) |->
                            IF i = 1 THEN 0 ELSE f[i - 1] + HEADER + Length[i - 1]]
<1>1. N \in Nat /\ HEADER \in Nat /\ Length \in [1..N -> Nat]
  BY ConnectionAssumption
<1>2. PICK f : PacketsEnd(f, N + 1)
  BY <1>1, StartExists
<1>3. /\ f \in [1..(N + 1) -> Nat] /\ f[1] = 0
      /\ \A i \in 1..N : f[i + 1] = f[i] + HEADER + Length[i]
  BY <1>1, <1>2 DEF PacketsEnd
<1>4. ASSUME NEW i \in 1..(N + 1)
      PROVE  f[i] = IF i = 1 THEN 0 ELSE f[i - 1] + HEADER + Length[i - 1]
  <2>1. CASE i = 1
    BY <1>3, <2>1
  <2>2. CASE i # 1
    <3>1. i - 1 \in 1..N /\ (i - 1) + 1 = i
      BY <1>1, <2>2
    <3>2. f[(i - 1) + 1] = f[i - 1] + HEADER + Length[i - 1]
      BY <1>3, <3>1
    <3> QED BY <2>2, <3>1, <3>2
  <2> QED BY <2>1, <2>2
<1>5. Sums(f)
  BY <1>3, <1>4
<1>6. Sums(Start)
  <2>1. Start = CHOOSE g : Sums(g)
    BY DEF Start
  <2> HIDE DEF Sums
  <2> QED BY <1>5, <2>1
<1>7. Start = [i \in 1..(N + 1) |-> Start[i]]
      /\ \A i \in 1..(N + 1) :
           Start[i] = IF i = 1 THEN 0 ELSE Start[i - 1] + HEADER + Length[i - 1]
  <2> DEFINE st == Start
  <2>1. st = [i \in 1..(N + 1) |->
                IF i = 1 THEN 0 ELSE st[i - 1] + HEADER + Length[i - 1]]
    BY <1>6
  <2> HIDE DEF st
  <2>2. st = [i \in 1..(N + 1) |-> st[i]]
        /\ \A i \in 1..(N + 1) :
             st[i] = IF i = 1 THEN 0 ELSE st[i - 1] + HEADER + Length[i - 1]
    BY <2>1
  <2> QED BY <2>2 DEF st
<1>8. \A i \in 1..(N + 1) : Start[i] = f[i]
  <2> DEFINE Other == {i \in 1..(N + 1) : Start[i] # f[i]}
  <2> SUFFICES ASSUME Other # {} PROVE FALSE
    OBVIOUS
  <2>1. PICK i \in Other : \A j \in Other : i <= j
    <3>1. Other \subseteq Nat
      BY <1>1
    <3> HIDE DEF Other
    <3> QED BY <3>1, LeastNumber
  <2>2. i \in 1..(N + 1) /\ Start[i] # f[i]
    BY <2>1
  <2>3. i # 1
    BY <1>3, <1>7, <2>2
  <2>4. i - 1 \in 1..(N + 1) /\ ~ (i <= i - 1)
    BY <1>1, <2>2, <2>3
  <2>5. Start[i - 1] = f[i - 1]
    BY <2>1, <2>4
  <2> QED BY <1>4, <1>7, <2>2, <2>3, <2>5
<1>9. Start = f
  BY <1>3, <1>7, <1>8
<1> QED BY <1>3, <1>9

LEMMA StartOrder ==
  ASSUME NEW i \in 1..(N + 1), NEW j \in 1..(N + 1), i < j
  PROVE  Start[i] < Start[j] /\ Start[i] \in Nat /\ Start[j] \in Nat
<1>1. N \in Nat /\ HEADER \in Nat \ {0} /\ Length \in [1..N -> Nat]
  BY ConnectionAssumption
<1>2. Start[i] \in Nat /\ Start[j] \in Nat
  BY StartFacts
<1> DEFINE Later == {k \in 1..(N + 1) : i < k /\ ~ (Start[i] < Start[k])}
<1>3. Later = {}
  <2> SUFFICES ASSUME Later # {} PROVE FALSE
    OBVIOUS
  <2>1. PICK k \in Later : \A l \in Later : k <= l
    <3>1. Later \subseteq Nat
      BY <1>1
    <3> HIDE DEF Later
    <3> QED BY <3>1, LeastNumber
  <2>2. k \in 1..(N + 1) /\ i < k /\ ~ (Start[i] < Start[k])
    BY <2>1
  <2>3. /\ k - 1 \in 1..N /\ k - 1 \in 1..(N + 1) /\ (k - 1) + 1 = k
        /\ ~ (k <= k - 1) /\ (i = k - 1 \/ i < k - 1)
    BY <1>1, <2>2
  <2>4. Start[k] = Start[k - 1] + HEADER + Length[k - 1] /\ Start[k - 1] \in Nat
        /\ Length[k - 1] \in Nat
    <3>1. Start[(k - 1) + 1] = Start[k - 1] + HEADER + Length[k - 1]
      BY <2>3, StartFacts
    <3> QED BY <1>1, <2>3, <3>1, StartFacts
  <2>5. ~ (i < k - 1) \/ Start[i] < Start[k - 1]
    BY <2>1, <2>3
  <2>6. i = k - 1 => Start[i] = Start[k - 1]
    OBVIOUS
  <2> QED BY <1>1, <1>2, <2>2, <2>3, <2>4, <2>5, <2>6
<1> QED BY <1>2, <1>3

LEMMA PacketFacts ==
  ASSUME NEW i \in 1..N
  PROVE  /\ Start[i] \in Nat /\ Length[i] \in Nat /\ HEADER \in Nat \ {0}
         /\ i + 1 \in 1..(N + 1) /\ Start[i + 1] = Start[i] + HEADER + Length[i]
         /\ Start[i + 1] <= Start[N + 1] /\ Start[N + 1] \in Nat
<1>1. N \in Nat /\ i \in 1..(N + 1) /\ i + 1 \in 1..(N + 1) /\ N + 1 \in 1..(N + 1)
  BY ConnectionAssumption
<1>2. Start[i] \in Nat /\ Start[i + 1] \in Nat /\ Start[N + 1] \in Nat /\ Length[i] \in Nat
  BY <1>1, ConnectionAssumption, StartFacts
<1>3. Start[i + 1] <= Start[N + 1]
  <2>1. CASE i + 1 < N + 1
    BY <2>1, <1>1, <1>2, StartOrder
  <2>2. CASE i = N
    BY <2>2, <1>2
  <2> QED BY <2>1, <2>2, <1>1
<1>4. Start[i + 1] = Start[i] + HEADER + Length[i] /\ HEADER \in Nat \ {0}
  BY ConnectionAssumption, StartFacts
<1> QED BY <1>1, <1>2, <1>3, <1>4

\* A buffer that begins with a packet's header has that packet's length in front.
LEMMA HeaderRead ==
  ASSUME NEW i \in 1..N, NEW n \in Nat, HEADER <= n
  PROVE  message_length(Bytes(Start[i], n)) = {Length[i]}
<1> DEFINE buffer == Bytes(Start[i], n)
           Headed == {p \in 1..N : \A j \in 1..HEADER :
                                 j <= Len(buffer) /\ buffer[j] = Start[p] + j}
<1>1. /\ Start[i] \in Nat /\ HEADER \in Nat \ {0} /\ Len(buffer) = n
      /\ \A j \in 1..n : buffer[j] = Start[i] + j
  BY PacketFacts, BytesFacts
<1> HIDE DEF buffer
<1>2. i \in Headed
  BY <1>1
<1>3. ASSUME NEW p \in Headed PROVE p = i
  <2>1. 1 \in 1..HEADER /\ 1 \in 1..n
    BY <1>1
  <2>2. buffer[1] = Start[p] + 1 /\ buffer[1] = Start[i] + 1 /\ p \in 1..N
    BY <1>1, <1>3, <2>1
  <2>3. Start[p] = Start[i]
    BY <2>2, <1>1, PacketFacts
  <2>4. N \in Nat /\ p \in 1..(N + 1) /\ i \in 1..(N + 1)
    BY <2>2, ConnectionAssumption
  <2>5. ~ (p < i) /\ ~ (i < p)
    BY <2>3, <2>4, StartOrder
  <2> QED BY <2>4, <2>5
<1>4. Headed = {i}
  BY <1>2, <1>3
<1>5. message_length(buffer) = {Length[p] : p \in IF Headed = {} THEN 1..N ELSE Headed}
  BY DEF message_length
<1> HIDE DEF Headed
<1>6. message_length(buffer) = {Length[p] : p \in {i}}
  BY <1>4, <1>5
<1> QED BY <1>6 DEF buffer

-----------------------------------------------------------------------------
LEMMA InitIInv == Init => IInv
<1> SUFFICES ASSUME Init PROVE IInv
  OBVIOUS
<1>1. /\ <<>> \in Seq(Nat) /\ <<>> \in Seq(Seq(Nat)) /\ Len(<<>>) = 0
      /\ Bytes(0, 0) = <<>>
  BY EmptySeq, BytesFacts
<1>2. N \in Nat /\ 1 \in 1..(N + 1) /\ N + 1 \in 1..(N + 1)
  BY ConnectionAssumption
<1>3. Start[1] = 0 /\ Start[N + 1] \in Nat
  BY <1>2, StartFacts
<1>4. close_connection \in BOOLEAN /\ live \in BOOLEAN
  BY DEF Init
<1>5. TypeOK
  BY <1>1, <1>3, <1>4, ConnectionAssumption, StartFacts DEF Init, TypeOK
<1>6. N > 0 => Start[2] = HEADER + Length[1] /\ HEADER + Length[1] > 0
  <2> SUFFICES ASSUME N > 0 PROVE Start[2] = HEADER + Length[1] /\ HEADER + Length[1] > 0
    OBVIOUS
  <2>1. 1 \in 1..N /\ 1 + 1 = 2
    BY <1>2
  <2> QED BY <1>3, <2>1, PacketFacts
<1>7. Framed
  BY <1>1, <1>2, <1>3, <1>6 DEF Init, Framed, Emptied
<1>8. OutputKept /\ WatchedWhileOwing
  BY <1>1 DEF Init, OutputKept, WatchedWhileOwing
<1> QED BY <1>5, <1>7, <1>8 DEF IInv

\* What an answer does to the output of a live connection.
LEMMA QueueWriteFacts ==
  ASSUME IInv, live, connection_ctx_queue_write
  PROVE  /\ promised' \in Nat /\ written <= promised'
         /\ write_buffer' = Bytes(written, promised' - written)
         /\ write_buffer' \in Seq(Nat) /\ write_buffer' # <<>>
         /\ watch' = "read_write"
<1> DEFINE n == promised - written
<1>1. /\ written \in Nat /\ promised \in Nat /\ n \in Nat /\ written + n = promised
      /\ AnswerBytes \in Nat \ {0} /\ write_buffer = Bytes(written, n)
  BY ConnectionAssumption DEF IInv, TypeOK, OutputKept
<1>2. /\ write_buffer' = Bytes(written, n) \o Bytes(written + n, AnswerBytes)
      /\ promised' = promised + AnswerBytes /\ watch' = "read_write"
  BY <1>1 DEF connection_ctx_queue_write, loop_add_fd
<1>3. promised' - written = n + AnswerBytes
  BY <1>1, <1>2
<1>4. n + AnswerBytes \in Nat /\ n + AnswerBytes # 0
  BY <1>1
<1> HIDE DEF n
<1>5. write_buffer' = Bytes(written, n + AnswerBytes)
  BY <1>1, <1>2, BytesConcat
<1>6. Bytes(written, n + AnswerBytes) \in Seq(Nat) /\ Bytes(written, n + AnswerBytes) # <<>>
  BY <1>1, <1>4, BytesFacts
<1>7. \A x : x = promised + AnswerBytes => x \in Nat /\ written <= x
  BY <1>1
<1> QED BY <1>2, <1>3, <1>5, <1>6, <1>7, Zenon

-----------------------------------------------------------------------------
(* Framed as a predicate of the values it is about: the facts about reads that *)
(* follow do not speak of steps.                                               *)
FramedAt(h, t, c, rb) ==
  LET k == Len(h)
      e == Len(h) > 0 /\ Length[Len(h)] = 0
  IN /\ \A i \in 1..k : h[i] = Message(i)
     /\ e => t = Start[k + 1] /\ c /\ rb = Bytes(Start[k], HEADER)
     /\ ~e => /\ Start[k + 1] <= t /\ (k < N => t < Start[k + 2])
              /\ rb = Bytes(Start[k + 1], t - Start[k + 1])

LEMMA FramedIsFramedAt ==
  /\ Framed <=> FramedAt(handled, taken, close_connection, read_buffer)
  /\ Framed' <=> FramedAt(handled', taken', close_connection', read_buffer')
<1>1. Framed <=> FramedAt(handled, taken, close_connection, read_buffer)
  BY DEF Framed, FramedAt, Emptied
<1>2. Framed' <=> FramedAt(handled', taken', close_connection', read_buffer')
  BY DEF Framed, FramedAt, Emptied
<1> QED BY <1>1, <1>2

\* A read that is asked for by bytes_to_read stays within the packet.
LEMMA ReadFacts ==
  ASSUME IInv, NEW m \in message_length(read_buffer), NEW n \in 1..(arrived - taken),
         n <= bytes_to_read(m)
  PROVE  \E k \in Nat, total \in Nat \ {0} :
           /\ k = Len(handled) /\ k + 1 \in 1..N /\ ~Emptied
           /\ Start[k + 1] + total = taken + n
           /\ total <= HEADER + Length[k + 1]
           /\ read_buffer \o Bytes(taken, n) = Bytes(Start[k + 1], total)
<1>k. PICK k \in Nat : k = Len(handled)
  BY LenProperties DEF IInv, TypeOK
<1>1. /\ k <= N /\ N \in Nat /\ taken \in Nat /\ arrived \in Nat /\ n \in Nat
      /\ taken + n <= arrived /\ arrived <= Start[N + 1] /\ HEADER \in Nat \ {0}
      /\ n # 0 /\ Start[N + 1] \in Nat
  <2>1. N + 1 \in 1..(N + 1) /\ N \in Nat /\ HEADER \in Nat \ {0}
    BY ConnectionAssumption
  <2>2. Start[N + 1] \in Nat
    BY <2>1, StartFacts
  <2> QED BY <1>k, <2>1, <2>2 DEF IInv, TypeOK
<1>2. ~Emptied
  <2> SUFFICES ASSUME Emptied PROVE FALSE
    OBVIOUS
  <2>1. k \in 1..N /\ Length[k] = 0 /\ read_buffer = Bytes(Start[k], HEADER)
    BY <1>k, <1>1 DEF Emptied, IInv, Framed
  <2>2. m = Length[k]
    BY <1>1, <2>1, HeaderRead
  <2>3. Len(read_buffer) = HEADER
    BY <1>1, <2>1, BytesFacts, PacketFacts
  <2> QED BY <1>1, <2>1, <2>2, <2>3 DEF bytes_to_read
<1>3. /\ Start[k + 1] <= taken /\ (k < N => taken < Start[k + 2])
      /\ read_buffer = Bytes(Start[k + 1], taken - Start[k + 1])
  BY <1>k, <1>2 DEF IInv, Framed
<1>4. k + 1 \in 1..N
  <2>1. k # N
    BY <1>1, <1>3
  <2> QED BY <1>1, <2>1
<1>5. PICK S \in Nat, L \in Nat : S = Start[k + 1] /\ L = Length[k + 1]
  BY <1>4, PacketFacts
<1>6. PICK before \in Nat : S + before = taken /\ before = taken - S
  BY <1>1, <1>3, <1>5
<1>7. read_buffer = Bytes(S, before) /\ Len(read_buffer) = before
  <2>1. read_buffer = Bytes(S, before)
    BY <1>3, <1>5, <1>6, Zenon
  <2> QED BY <2>1, BytesFacts
<1>8. before + n <= HEADER + L
  <2>1. CASE before < HEADER
    <3>1. n <= HEADER - before
      BY <2>1, <1>7 DEF bytes_to_read
    <3> QED BY <3>1, <1>1
  <2>2. CASE ~ (before < HEADER)
    <3>1. HEADER <= before
      BY <2>2, <1>1
    <3>2. message_length(Bytes(Start[k + 1], before)) = {Length[k + 1]}
      BY <3>1, <1>4, HeaderRead
    <3>3. m = L
      BY <3>2, <1>5, <1>7
    <3>4. n <= L - (before - HEADER)
      BY <2>2, <3>3, <1>7 DEF bytes_to_read
    <3> QED BY <3>4, <1>1
  <2> QED BY <2>1, <2>2
<1>9. read_buffer \o Bytes(taken, n) = Bytes(S, before + n)
  <2>1. Bytes(S, before) \o Bytes(S + before, n) = Bytes(S, before + n)
    BY <1>1, BytesConcat
  <2> QED BY <2>1, <1>6, <1>7, Zenon
<1>10. S + (before + n) = taken + n /\ before + n \in Nat \ {0}
  BY <1>1, <1>6
<1> QED BY <1>k, <1>2, <1>4, <1>5, <1>8, <1>9, <1>10

\* A buffer that is not complete is still the beginning of the packet ...
LEMMA StillFramed ==
  ASSUME NEW h \in Seq(Seq(Nat)), NEW t, NEW c, NEW rb, FramedAt(h, t, c, rb),
         NEW k \in Nat, k = Len(h), k + 1 \in 1..N, ~ (k > 0 /\ Length[k] = 0),
         NEW total \in Nat, total < HEADER + Length[k + 1]
  PROVE  FramedAt(h, Start[k + 1] + total, c, Bytes(Start[k + 1], total))
<1>1. /\ Start[k + 1] \in Nat /\ Length[k + 1] \in Nat /\ HEADER \in Nat
      /\ Start[(k + 1) + 1] = Start[k + 1] + HEADER + Length[k + 1]
      /\ (k + 1) + 1 = k + 2
  <2>1. /\ Start[k + 1] \in Nat /\ Length[k + 1] \in Nat /\ HEADER \in Nat \ {0}
        /\ Start[(k + 1) + 1] = Start[k + 1] + HEADER + Length[k + 1]
    BY PacketFacts
  <2>2. (k + 1) + 1 = k + 2
    OBVIOUS
  <2> QED BY <2>1, <2>2
<1> PICK t2 : t2 = Start[k + 1] + total
  OBVIOUS
<1>2. Start[k + 1] <= t2 /\ t2 < Start[k + 2] /\ t2 - Start[k + 1] = total
  BY <1>1
<1>3. FramedAt(h, t2, c, Bytes(Start[k + 1], total))
  BY <1>2 DEF FramedAt
<1> QED BY <1>3

\* ... and a complete one is the packet.
LEMMA NextFramed ==
  ASSUME NEW h \in Seq(Seq(Nat)), NEW t, NEW c, NEW rb, FramedAt(h, t, c, rb),
         NEW k \in Nat, k = Len(h), k + 1 \in 1..N,
         NEW c2, NEW rb2,
         \/ Length[k + 1] = 0 /\ c2 /\ rb2 = Bytes(Start[k + 1], HEADER)
         \/ Length[k + 1] # 0 /\ rb2 = <<>>
  PROVE  FramedAt(Append(h, Message(k + 1)), Start[k + 1] + HEADER + Length[k + 1], c2, rb2)
<1>1. /\ Start[k + 1] \in Nat /\ Length[k + 1] \in Nat /\ HEADER \in Nat \ {0}
      /\ Start[(k + 1) + 1] = Start[k + 1] + HEADER + Length[k + 1]
      /\ (k + 1) + 1 = k + 2 /\ N \in Nat
  <2>1. /\ Start[k + 1] \in Nat /\ Length[k + 1] \in Nat /\ HEADER \in Nat \ {0}
        /\ Start[(k + 1) + 1] = Start[k + 1] + HEADER + Length[k + 1]
    BY PacketFacts
  <2>2. (k + 1) + 1 = k + 2
    OBVIOUS
  <2> QED BY <2>1, <2>2, ConnectionAssumption, StartFacts
<1>2. Message(k + 1) \in Seq(Nat)
  <2>1. Start[k + 1] + HEADER \in Nat
    BY <1>1
  <2> QED BY <2>1, <1>1, BytesFacts DEF Message
<1>3. PICK h2 : h2 = Append(h, Message(k + 1))
  OBVIOUS
<1>4. /\ Len(h2) = k + 1 /\ h2[k + 1] = Message(k + 1)
      /\ \A i \in 1..k : h2[i] = h[i]
  BY <1>2, <1>3, AppendProperties
<1>5. \A i \in 1..(k + 1) : h2[i] = Message(i)
  <2>1. \A i \in 1..k : h[i] = Message(i)
    BY DEF FramedAt
  <2>2. \A i \in 1..(k + 1) : i \in 1..k \/ i = k + 1
    OBVIOUS
  <2> QED BY <2>1, <2>2, <1>4, Zenon
<1>6. PICK t2 : t2 = Start[k + 1] + HEADER + Length[k + 1]
  OBVIOUS
<1>7. t2 = Start[k + 2] /\ t2 \in Nat
  BY <1>1, <1>6
<1>8. k + 1 < N => t2 < Start[(k + 1) + 2]
  <2> SUFFICES ASSUME k + 1 < N PROVE t2 < Start[(k + 1) + 2]
    OBVIOUS
  <2>1. k + 2 \in 1..(N + 1) /\ (k + 1) + 2 \in 1..(N + 1) /\ k + 2 < (k + 1) + 2
    BY <1>1
  <2> QED BY <2>1, <1>7, StartOrder
<1>9. Bytes(t2, 0) = <<>>
  BY <1>7, BytesFacts
<1>10. FramedAt(h2, t2, c2, rb2)
  <2>1. Len(h2) > 0
    BY <1>4
  <2>2. CASE Length[k + 1] = 0
    <3>1. c2 /\ rb2 = Bytes(Start[k + 1], HEADER)
      BY <2>2
    <3> QED BY <2>1, <2>2, <3>1, <1>1, <1>4, <1>5, <1>7 DEF FramedAt
  <2>3. CASE Length[k + 1] # 0
    <3>1. rb2 = <<>>
      BY <2>3
    <3>2. t2 - Start[(k + 1) + 1] = 0 /\ Start[(k + 1) + 1] = t2
      BY <1>1, <1>7
    <3> QED BY <2>1, <2>3, <3>1, <3>2, <1>1, <1>4, <1>5, <1>7, <1>8, <1>9 DEF FramedAt
  <2> QED BY <2>2, <2>3
<1> QED BY <1>3, <1>6, <1>10

-----------------------------------------------------------------------------
(* The steps *)

\* A callback that answers, or does not, leaves the output of a live connection
\* as it should be.
LEMMA OutputStep ==
  ASSUME IInv, live, UNCHANGED <<live, written>>, Queued \/ connection_ctx_queue_write
  PROVE  /\ OutputKept' /\ WatchedWhileOwing'
         /\ promised' \in Nat /\ write_buffer' \in Seq(Nat)
         /\ watch' \in {"read", "read_write", "none"}
<1>1. CASE Queued
  BY <1>1 DEF Queued, IInv, TypeOK, OutputKept, WatchedWhileOwing
<1>2. CASE connection_ctx_queue_write
  <2>1. /\ promised' \in Nat /\ written <= promised'
        /\ write_buffer' = Bytes(written, promised' - written)
        /\ write_buffer' \in Seq(Nat) /\ write_buffer' # <<>> /\ watch' = "read_write"
    BY <1>2, QueueWriteFacts
  <2>2. written' = written /\ live'
    OBVIOUS
  <2>3. OutputKept'
    BY <2>1, <2>2, Zenon DEF OutputKept
  <2>4. WatchedWhileOwing'
    BY <2>1, <2>2, Zenon DEF WatchedWhileOwing
  <2> QED BY <2>1, <2>3, <2>4
<1> QED BY <1>1, <1>2

LEMMA WatchedIsLive ==
  ASSUME IInv, watch # "none"
  PROVE  live
  BY Zenon DEF IInv, WatchedWhileOwing

LEMMA IncompleteIInv ==
  ASSUME IInv, live, NEW k \in Nat, k = Len(handled), k + 1 \in 1..N, ~Emptied,
         NEW total \in Nat, total < HEADER + Length[k + 1],
         taken' = Start[k + 1] + total, taken' \in 0..arrived,
         read_buffer' = Bytes(Start[k + 1], total), Queued,
         UNCHANGED <<arrived, peer, live, notices, written, close_connection, waiting,
                     handled>>
  PROVE  IInv'
<1>1. Framed'
  <2>1. /\ FramedAt(handled, taken, close_connection, read_buffer)
        /\ handled \in Seq(Seq(Nat)) /\ ~ (k > 0 /\ Length[k] = 0)
    BY FramedIsFramedAt DEF IInv, TypeOK, Emptied
  <2>2. FramedAt(handled, Start[k + 1] + total, close_connection,
                 Bytes(Start[k + 1], total))
    BY <2>1, StillFramed
  <2>3. FramedAt(handled', taken', close_connection', read_buffer')
    BY <2>2, Zenon
  <2> QED BY <2>3, FramedIsFramedAt
<1>2. OutputKept' /\ WatchedWhileOwing'
  BY OutputStep
<1>3. TypeOK'
  <2>1. read_buffer' \in Seq(Nat)
    BY PacketFacts, BytesFacts
  <2> QED BY <2>1 DEF IInv, TypeOK, Queued
<1> QED BY <1>1, <1>2, <1>3 DEF IInv

LEMMA PacketCut ==
  ASSUME NEW S \in Nat, NEW L \in Nat
  PROVE  /\ SubSeq(Bytes(S, HEADER + L), HEADER + 1, HEADER + L) = Bytes(S + HEADER, L)
         /\ Rest(Bytes(S, HEADER + L), L) = <<>>
         /\ Bytes(S, HEADER + L) \in Seq(Nat)
         /\ HEADER \in Nat \ {0} /\ N \in Nat /\ (L = 0 => HEADER + L = HEADER)
         /\ S + HEADER \in Nat
<1>1. HEADER \in Nat \ {0} /\ N \in Nat
  BY ConnectionAssumption
<1>2. /\ HEADER + L \in Nat /\ HEADER + L \in 0..(HEADER + L)
      /\ (HEADER + L) - (HEADER + L) = 0 /\ S + (HEADER + L) \in Nat
      /\ (L = 0 => HEADER + L = HEADER)
  BY <1>1
<1>3. SubSeq(Bytes(S, HEADER + L), HEADER + 1, HEADER + L) = Bytes(S + HEADER, L)
  BY <1>1, <1>2, BytesSub
<1> PICK n \in Nat : n = HEADER + L
  BY <1>2
<1>4. Drop(Bytes(S, n), n) = Bytes(S + n, n - n)
  BY BytesDrop
<1>5. n - n = 0 /\ S + n \in Nat
  OBVIOUS
<1>6. Drop(Bytes(S, n), n) = <<>>
  BY <1>4, <1>5, BytesFacts
<1>7. S + HEADER \in Nat
  BY <1>1
<1> QED BY <1>1, <1>2, <1>3, <1>6, <1>7, BytesFacts DEF Rest

LEMMA MessageIInv ==
  ASSUME IInv, live, NEW k \in Nat, k = Len(handled), k + 1 \in 1..N,
         NEW S \in Nat, S = Start[k + 1], NEW L \in Nat, L = Length[k + 1],
         taken' = S + HEADER + L, taken' \in 0..arrived,
         message_handler(Bytes(S, HEADER + L), L),
         UNCHANGED <<arrived, peer, live, notices, written>>
  PROVE  IInv'
<1> DEFINE buffer == Bytes(S, HEADER + L)
<1>1. /\ SubSeq(buffer, HEADER + 1, HEADER + L) = Bytes(S + HEADER, L)
      /\ Rest(buffer, L) = <<>> /\ buffer \in Seq(Nat)
      /\ HEADER \in Nat \ {0} /\ N \in Nat /\ (L = 0 => HEADER + L = HEADER)
  BY PacketCut
<1>2. SubSeq(buffer, HEADER + 1, HEADER + L) = Message(k + 1)
  BY <1>1, Zenon DEF Message
<1>3. handled' = Append(handled, Message(k + 1))
  BY <1>2 DEF message_handler
<1>4. /\ handled \in Seq(Seq(Nat)) /\ Message(k + 1) \in Seq(Nat)
      /\ FramedAt(handled, taken, close_connection, read_buffer)
  <2>1. S + HEADER \in Nat
    BY PacketCut
  <2> QED BY <2>1, BytesFacts, FramedIsFramedAt DEF IInv, TypeOK, Message
<1>5. handled' \in Seq(Seq(Nat)) /\ Len(handled') = k + 1
  <2>1. /\ Append(handled, Message(k + 1)) \in Seq(Seq(Nat))
        /\ Len(Append(handled, Message(k + 1))) = k + 1
    BY <1>4, AppendProperties
  <2> QED BY <2>1, <1>3, Zenon
<1>6. \/ L = 0 /\ invalid_packet_handler /\ read_buffer' = buffer
      \/ L # 0 /\ Handler(k + 1) /\ read_buffer' = <<>>
  <2>1. CASE L = 0
    BY <2>1 DEF message_handler
  <2>2. CASE L # 0
    BY <2>2, <1>1 DEF message_handler
  <2> QED BY <2>1, <2>2
<1>7. /\ Queued \/ connection_ctx_queue_write
      /\ close_connection' \in BOOLEAN /\ (L = 0 => close_connection')
      /\ waiting' \subseteq 1..(k + 1)
  <2>1. waiting \subseteq 1..(k + 1) /\ k + 1 \in 1..(k + 1) /\ close_connection \in BOOLEAN
    BY DEF IInv, TypeOK
  <2>2. CASE invalid_packet_handler
    BY <2>1, <2>2 DEF invalid_packet_handler
  <2>3. CASE L # 0 /\ Handler(k + 1)
    BY <2>1, <2>2, <2>3 DEF Handler
  <2> QED BY <1>6, <2>2, <2>3
<1>8. OutputKept' /\ WatchedWhileOwing' /\ promised' \in Nat /\ write_buffer' \in Seq(Nat)
      /\ watch' \in {"read", "read_write", "none"}
  BY <1>7, OutputStep
<1>9. Framed'
  <2>1. /\ \A c2, rb2 :
              \/ L = 0 /\ c2 /\ rb2 = Bytes(S, HEADER)
              \/ L # 0 /\ rb2 = <<>>
              => FramedAt(Append(handled, Message(k + 1)), S + HEADER + L, c2, rb2)
    BY <1>4, NextFramed
  <2>2. \/ L = 0 /\ close_connection' /\ read_buffer' = Bytes(S, HEADER)
        \/ L # 0 /\ read_buffer' = <<>>
    BY <1>1, <1>6, <1>7, Zenon
  <2>3. FramedAt(Append(handled, Message(k + 1)), S + HEADER + L, close_connection',
                 read_buffer')
    BY <2>1, <2>2, Zenon
  <2>4. FramedAt(handled', taken', close_connection', read_buffer')
    BY <2>3, <1>3, Zenon
  <2> QED BY <2>4, FramedIsFramedAt
<1>10. TypeOK'
  <2>1. read_buffer' \in Seq(Nat)
    BY <1>6, <1>1, EmptySeq, Zenon
  <2>2. Len(handled') <= N /\ waiting' \subseteq 1..Len(handled')
    BY <1>1, <1>5, <1>7
  <2>3. live' \in BOOLEAN /\ close_connection' \in BOOLEAN
    BY <1>7
  <2> QED BY <2>1, <2>2, <2>3, <1>5, <1>8 DEF IInv, TypeOK
<1> QED BY <1>8, <1>9, <1>10 DEF IInv

LEMMA ReadIInv ==
  ASSUME IInv, Read
  PROVE  IInv'
<1>1. live /\ UNCHANGED <<arrived, peer, live, notices, written>>
  BY WatchedIsLive DEF Read, Readable
<1>2. PICK m \in message_length(read_buffer), n \in 1..(arrived - taken) :
        LET buffer == read_buffer \o Bytes(taken, n) IN
        /\ n <= bytes_to_read(m)
        /\ taken' = taken + n
        /\ \E q \in message_length(buffer) :
             \/ /\ ~Complete(buffer, q)
                /\ read_buffer' = buffer
                /\ Queued /\ UNCHANGED <<close_connection, waiting, handled>>
             \/ /\ Complete(buffer, q)
                /\ message_handler(buffer, q)
  BY DEF Read
<1>3. PICK k \in Nat, total \in Nat \ {0} :
        /\ k = Len(handled) /\ k + 1 \in 1..N /\ ~Emptied
        /\ Start[k + 1] + total = taken + n
        /\ total <= HEADER + Length[k + 1]
        /\ read_buffer \o Bytes(taken, n) = Bytes(Start[k + 1], total)
  BY <1>2, ReadFacts
<1>4. PICK S \in Nat, L \in Nat : S = Start[k + 1] /\ L = Length[k + 1]
  BY <1>3, PacketFacts
<1>5. PICK q \in message_length(Bytes(S, total)) :
        \/ /\ ~Complete(Bytes(S, total), q)
           /\ read_buffer' = Bytes(S, total)
           /\ Queued /\ UNCHANGED <<close_connection, waiting, handled>>
        \/ /\ Complete(Bytes(S, total), q)
           /\ message_handler(Bytes(S, total), q)
  BY <1>2, <1>3, <1>4, Zenon
<1>6. taken' = S + total /\ taken' \in 0..arrived
  <2>1. taken' = S + total
    BY <1>2, <1>3, <1>4, Zenon
  <2>2. taken + n \in 0..arrived
    BY DEF IInv, TypeOK
  <2> QED BY <2>1, <2>2, <1>2, Zenon
<1>7. Len(Bytes(S, total)) = total /\ HEADER \in Nat
  BY BytesFacts, ConnectionAssumption
<1>8. HEADER <= total => q = L
  BY <1>3, <1>4, <1>5, HeaderRead
<1>9. CASE ~Complete(Bytes(S, total), q)
  <2>1. total < HEADER + L
    BY <1>7, <1>8, <1>9 DEF Complete
  <2>2. read_buffer' = Bytes(S, total) /\ Queued
        /\ UNCHANGED <<close_connection, waiting, handled>>
    BY <1>5, <1>9
  <2> QED BY <2>1, <2>2, <1>1, <1>3, <1>4, <1>6, IncompleteIInv
<1>10. CASE Complete(Bytes(S, total), q)
  <2>1. total = HEADER + L /\ q = L
    BY <1>3, <1>4, <1>7, <1>8, <1>10 DEF Complete
  <2>2. message_handler(Bytes(S, HEADER + L), L)
    BY <2>1, <1>5, <1>10
  <2>3. S + (HEADER + L) = S + HEADER + L
    BY <1>7
  <2>4. taken' = S + HEADER + L
    BY <2>1, <2>3, <1>6, Zenon
  <2> QED BY <2>2, <2>4, <1>1, <1>3, <1>4, <1>6, MessageIInv
<1> QED BY <1>9, <1>10

\* What a step that reads nothing does not disturb.
LEMMA FramedKept ==
  ASSUME Framed, UNCHANGED <<taken, handled, close_connection, read_buffer>>
  PROVE  Framed'
  BY DEF Framed, Emptied

LEMMA ClientIInv ==
  ASSUME IInv, Send \/ Leave
  PROVE  IInv'
<1>1. UNCHANGED <<taken, live, read_buffer, write_buffer, close_connection, watch, waiting,
                  notices, handled, promised, written>>
  BY DEF Send, Leave
<1>2. Framed' /\ OutputKept' /\ WatchedWhileOwing'
  BY <1>1, FramedKept DEF IInv, OutputKept, WatchedWhileOwing
<1>3. arrived' \in 0..Start[N + 1] /\ taken \in 0..arrived'
  <2>1. arrived \in 0..Start[N + 1] /\ taken \in 0..arrived /\ Start[N + 1] \in Nat
    <3>1. N + 1 \in 1..(N + 1)
      BY ConnectionAssumption
    <3> QED BY <3>1, StartFacts DEF IInv, TypeOK
  <2>2. CASE Send
    BY <2>1, <2>2 DEF Send
  <2>3. CASE Leave
    BY <2>1, <2>3 DEF Leave
  <2> QED BY <2>2, <2>3
<1>4. peer' \in {"open", "shut", "reset"}
  BY DEF IInv, TypeOK, Send, Leave
<1>5. TypeOK'
  BY <1>1, <1>3, <1>4 DEF IInv, TypeOK
<1> QED BY <1>2, <1>5 DEF IInv

LEMMA ReadEndIInv ==
  ASSUME IInv, ReadEnd
  PROVE  IInv'
<1>1. /\ UNCHANGED <<arrived, peer, taken, read_buffer, write_buffer, close_connection,
                     waiting, notices, handled, promised, written>>
      /\ live' = FALSE /\ watch' = "none"
  BY DEF ReadEnd, clean_up
<1>2. Framed' /\ OutputKept' /\ WatchedWhileOwing'
  BY <1>1, FramedKept DEF IInv, OutputKept, WatchedWhileOwing
<1>3. TypeOK'
  BY <1>1 DEF IInv, TypeOK
<1> QED BY <1>2, <1>3 DEF IInv

LEMMA WriteFacts ==
  ASSUME IInv, live, NEW k \in 1..Len(write_buffer)
  PROVE  /\ written + k \in Nat /\ written + k <= promised
         /\ Unwritten(k) = Bytes(written + k, promised - (written + k))
         /\ Unwritten(k) \in Seq(Nat)
         /\ (Unwritten(k) = <<>> => written + k = promised)
<1>1. PICK n \in Nat : n = promised - written
  BY DEF IInv, TypeOK, OutputKept
<1>2. written \in Nat /\ promised \in Nat /\ write_buffer = Bytes(written, n)
  BY <1>1 DEF IInv, TypeOK, OutputKept
<1>3. k \in 1..n
  BY <1>2, BytesFacts
<1>4. PICK w \in Nat : w = written + k
  BY <1>2, <1>3
<1>5. promised - w = n - k /\ n - k \in Nat /\ w <= promised /\ (n - k = 0 => w = promised)
  BY <1>1, <1>2, <1>3, <1>4
<1>6. Unwritten(k) = Bytes(w, n - k)
  <2>1. k \in 0..n
    BY <1>3
  <2> QED BY <2>1, <1>2, <1>4, BytesDrop DEF Unwritten
<1> QED BY <1>4, <1>5, <1>6, BytesFacts

LEMMA WriteIInv ==
  ASSUME IInv, write_handler
  PROVE  IInv' /\ (~live' => close_connection /\ written' = promised)
<1>1. /\ live /\ Written
      /\ UNCHANGED <<arrived, peer, taken, read_buffer, close_connection, waiting, notices,
                     handled, promised>>
  BY WatchedIsLive DEF write_handler
<1>2. PICK k \in 1..Len(write_buffer) : write_buffer' = Unwritten(k) /\ written' = written + k
  BY DEF write_handler
<1>3. \A w, b : w = written + k /\ b = Unwritten(k)
        => /\ w \in Nat /\ w <= promised /\ b = Bytes(w, promised - w) /\ b \in Seq(Nat)
           /\ (b = <<>> => w = promised)
  BY <1>1, WriteFacts
<1>4. /\ written' \in Nat /\ written' <= promised
      /\ write_buffer' = Bytes(written', promised - written')
      /\ write_buffer' \in Seq(Nat) /\ (write_buffer' = <<>> => written' = promised)
  BY <1>2, <1>3, Zenon
<1>5. OutputKept'
  BY <1>1, <1>4, Zenon DEF OutputKept
<1>6. /\ WatchedWhileOwing' /\ live' \in BOOLEAN /\ watch' \in {"read", "read_write", "none"}
      /\ (~live' => close_connection /\ written' = promised)
  <2>1. CASE write_buffer' # <<>> /\ UNCHANGED <<live, watch>>
    BY <2>1, <1>1 DEF write_handler, WatchedWhileOwing
  <2>2. CASE write_buffer' = <<>> /\ close_connection /\ clean_up
    BY <2>2, <1>4 DEF clean_up, WatchedWhileOwing
  <2>3. CASE write_buffer' = <<>> /\ loop_add_fd("read") /\ UNCHANGED live
    BY <2>3, <1>1 DEF loop_add_fd, WatchedWhileOwing
  <2> QED BY <2>1, <2>2, <2>3, <1>1 DEF Written
<1>7. Framed'
  BY <1>1, FramedKept DEF IInv
<1>8. TypeOK'
  BY <1>1, <1>4, <1>6 DEF IInv, TypeOK
<1> QED BY <1>5, <1>6, <1>7, <1>8 DEF IInv

LEMMA AnswerIInv ==
  ASSUME IInv, Answer \/ Notify
  PROVE  IInv'
<1>1. /\ live /\ connection_ctx_queue_write
      /\ UNCHANGED <<arrived, peer, taken, live, read_buffer, close_connection, handled,
                     written>>
  BY DEF Answer, Notify
<1>2. OutputKept' /\ WatchedWhileOwing' /\ promised' \in Nat /\ write_buffer' \in Seq(Nat)
      /\ watch' \in {"read", "read_write", "none"}
  BY <1>1, OutputStep
<1>3. Framed'
  BY <1>1, FramedKept DEF IInv
<1>4. waiting' \subseteq 1..Len(handled) /\ notices' \in 0..MaxNotices
  <2>1. waiting \subseteq 1..Len(handled) /\ notices \in 0..MaxNotices /\ MaxNotices \in Nat
    BY ConnectionAssumption DEF IInv, TypeOK
  <2>2. CASE Answer
    BY <2>1, <2>2 DEF Answer
  <2>3. CASE Notify
    BY <2>1, <2>3 DEF Notify
  <2> QED BY <2>2, <2>3
<1>5. TypeOK'
  BY <1>1, <1>2, <1>4 DEF IInv, TypeOK
<1> QED BY <1>2, <1>3, <1>5 DEF IInv

-----------------------------------------------------------------------------
THEOREM Invariance == Spec => []IInv
<1>1. IInv /\ [Next]_vars => IInv'
  <2> SUFFICES ASSUME IInv, [Next]_vars PROVE IInv'
    OBVIOUS
  <2>1. CASE UNCHANGED vars
    <3>1. Framed'
      BY <2>1, FramedKept DEF IInv, vars
    <3> QED BY <2>1, <3>1 DEF vars, IInv, TypeOK, OutputKept, WatchedWhileOwing
  <2> QED BY <2>1, ClientIInv, ReadIInv, ReadEndIInv, WriteIInv, AnswerIInv DEF Next
<1> QED BY <1>1, InitIInv, PTL DEF Spec

\* Buffers and counters keep their types, and never more messages are handled than
\* the client sent packets.
THEOREM TypeCorrect == Spec => []TypeOK
  BY Invariance, PTL DEF IInv

\* read_handler cuts the stream at the packets' ends, for any lengths, empty ones
\* included, and any sizes of the reads.
THEOREM FramingCorrect == Spec => []Framed
  BY Invariance, PTL DEF IInv

\* No byte that a callback queued is lost, doubled or moved by short writes.
THEOREM OutputCorrect == Spec => []OutputKept
  BY Invariance, PTL DEF IInv

\* The epoll set asks for EPOLLOUT just as long as the write buffer holds bytes.
THEOREM WatchCorrect == Spec => []WatchedWhileOwing
  BY Invariance, PTL DEF IInv

\* The server ends the connection of a client that stays only when it is to be
\* closed, and with all bytes written unless it was an empty packet.
THEOREM ClosesClean == Spec => ServerClosesClean
<1>1. IInv /\ [Next]_vars
        => [live /\ ~live' /\ peer = "open"
              => close_connection /\ (written' = promised \/ Emptied)]_vars
  <2> SUFFICES ASSUME IInv, Next, live, ~live', peer = "open"
               PROVE  close_connection /\ (written' = promised \/ Emptied)
    OBVIOUS
  <2>1. CASE ReadEnd
    <3>0. arrived # taken
      <4>1. taken \in Nat /\ arrived \in Nat /\ arrived > taken
        <5>1. N + 1 \in 1..(N + 1)
          BY ConnectionAssumption
        <5>2. Start[N + 1] \in Nat
          BY <5>1, StartFacts
        <5>3. arrived > taken
          BY <2>1 DEF ReadEnd, Readable
        <5> QED BY <5>2, <5>3 DEF IInv, TypeOK
      <4> QED BY <4>1
    <3>1. PICK m \in message_length(read_buffer) : bytes_to_read(m) = 0
      <4>1. peer # "reset"
        OBVIOUS
      <4> QED BY <2>1, <3>0, <4>1 DEF ReadEnd
    <3>2. CASE Emptied
      BY <3>2 DEF IInv, Framed
    <3>3. CASE ~Emptied
      <4>1. PICK k \in Nat : k = Len(handled) /\ k <= N /\ taken \in Nat /\ arrived \in Nat
                              /\ taken < arrived /\ arrived <= Start[N + 1]
        <5>1. N + 1 \in 1..(N + 1)
          BY ConnectionAssumption
        <5>2. Start[N + 1] \in Nat
          BY <5>1, StartFacts
        <5> QED BY <5>2, <3>0, LenProperties DEF IInv, TypeOK
      <4>2. /\ Start[k + 1] <= taken /\ (k < N => taken < Start[k + 2])
            /\ read_buffer = Bytes(Start[k + 1], taken - Start[k + 1])
        BY <3>3, <4>1 DEF IInv, Framed
      <4> HIDE DEF Emptied
      <4>3. N \in Nat /\ k + 1 \in 1..(N + 1)
        BY <4>1, ConnectionAssumption
      <4>4. Start[k + 1] \in Nat
        BY <4>3, StartFacts
      <4>5. k # N
        BY <4>1, <4>2, <4>4
      <4>6. k + 1 \in 1..N
        BY <4>1, <4>3, <4>5
      <4>7. PICK S \in Nat, L \in Nat : /\ S = Start[k + 1] /\ L = Length[k + 1]
                                      /\ Start[(k + 1) + 1] = S + HEADER + L
        BY <4>6, PacketFacts
      <4>8. PICK n \in Nat : n = taken - S /\ S + n = taken
        BY <4>1, <4>2, <4>7
      <4>9. read_buffer = Bytes(S, n) /\ Len(read_buffer) = n
        <5>1. read_buffer = Bytes(S, n)
          BY <4>2, <4>7, <4>8, Zenon
        <5> QED BY <5>1, BytesFacts
      <4>10. HEADER \in Nat
        BY ConnectionAssumption
      <4>11. n < HEADER + L
        <5>1. k < N /\ k + 2 = (k + 1) + 1
          BY <4>1, <4>3, <4>5
        <5>2. taken < S + HEADER + L
          BY <5>1, <4>2, <4>7
        <5> QED BY <5>2, <4>8, <4>10
      <4>12. HEADER <= n => m = L
        BY <4>6, <4>7, <4>9, HeaderRead
      <4>13. CASE n < HEADER
        BY <3>1, <4>9, <4>10, <4>13 DEF bytes_to_read
      <4>14. CASE ~ (n < HEADER)
        <5>1. m = L
          BY <4>10, <4>12, <4>14
        <5>2. L - (n - HEADER) = 0
          BY <3>1, <4>9, <4>14, <5>1 DEF bytes_to_read
        <5> QED BY <5>2, <4>10, <4>11
      <4> QED BY <4>13, <4>14
    <3> QED BY <3>2, <3>3
  <2>2. CASE write_handler
    BY <2>2, WriteIInv
  <2>3. ~ (Send \/ Leave \/ Read \/ Answer \/ Notify)
    BY DEF Send, Leave, Read, Answer, Notify
  <2> QED BY <2>1, <2>2, <2>3 DEF Next
<1> QED BY <1>1, Invariance, PTL DEF Spec, ServerClosesClean
=============================================================================
