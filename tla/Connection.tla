----------------------------- MODULE Connection -----------------------------
(* One connection from accept to its end: read_handler cuts the byte stream   *)
(* into packets, handlers queue answers, write_handler sends them, and        *)
(* loop_add_fd says which events the loop waits for.  A byte the client sends *)
(* is its number in the stream, so that a message shows which bytes it has;   *)
(* the same goes for the bytes the server queues.  Every callback runs whole. *)
EXTENDS Integers, Sequences

CONSTANTS
  HEADER,       \* bytes of a packet's length, sizeof(uint32_t)
  N,            \* bound: packets the client sends
  Length,       \* the lengths of their messages
  AnswerBytes,  \* bytes of an answer
  MaxNotices    \* bound: answers on behalf of other connections

ASSUME ConnectionAssumption ==
  /\ HEADER \in Nat \ {0} /\ N \in Nat /\ AnswerBytes \in Nat \ {0} /\ MaxNotices \in Nat
  /\ Length \in [1..N -> Nat]

\* The bytes of the stream before each packet, and before its end.
Start[i \in 1..(N + 1)] ==
  IF i = 1 THEN 0 ELSE Start[i - 1] + HEADER + Length[i - 1]

VARIABLES
  arrived,           \* bytes of the stream that have reached the socket
  peer,              \* the client: "open", "shut" (sends no more) or "reset"
  taken,             \* bytes read from the socket
  live,              \* whether the connection_ctx_t exists
  read_buffer,       \* its first total_bytes_read bytes
  write_buffer,      \* its first bytes_to_write bytes
  close_connection,
  watch,             \* events of the descriptor in the epoll set, or "none"
  waiting,           \* packets whose request is with the database thread
  notices,           \* answers on behalf of other connections so far
  handled,           \* history: the messages given to message_handler
  promised,          \* history: bytes queued so far
  written            \* history: bytes written so far

vars == <<arrived, peer, taken, live, read_buffer, write_buffer, close_connection,
          watch, waiting, notices, handled, promised, written>>

Bytes(a, n) == [j \in 1..n |-> a + j]        \* the n bytes after the first a
Message(i)  == Bytes(Start[i] + HEADER, Length[i])
Drop(s, k)  == SubSeq(s, k + 1, Len(s))

(* accept_connection_cb *)
Init ==
  /\ arrived = 0 /\ taken = 0 /\ peer = "open"
  /\ live = TRUE
  /\ read_buffer = <<>> /\ write_buffer = <<>>
  /\ close_connection = FALSE
  /\ watch = "read"
  /\ waiting = {} /\ notices = 0
  /\ handled = <<>> /\ promised = 0 /\ written = 0

-----------------------------------------------------------------------------
(* The client *)
Send ==
  /\ peer = "open"
  /\ arrived' \in (arrived + 1)..Start[N + 1]
  /\ UNCHANGED <<peer, taken, live, read_buffer, write_buffer, close_connection,
                 watch, waiting, notices, handled, promised, written>>

Leave ==
  /\ peer # "reset"
  /\ peer' \in {"shut", "reset"} \ {peer}
  /\ UNCHANGED <<arrived, taken, live, read_buffer, write_buffer, close_connection,
                 watch, waiting, notices, handled, promised, written>>

-----------------------------------------------------------------------------
loop_add_fd(events) == watch' = events

\* What be32toh makes of the first bytes: a packet's length, or any length when
\* they are not the header of one.
message_length(buffer) ==
  LET Headed == {i \in 1..N : \A j \in 1..HEADER :
                               j <= Len(buffer) /\ buffer[j] = Start[i] + j}
  IN {Length[i] : i \in IF Headed = {} THEN 1..N ELSE Headed}

\* Mutant: the loop is not told to wait for the descriptor to be writable.
connection_ctx_queue_write_Unwatched ==
  /\ write_buffer' = write_buffer \o Bytes(promised, AnswerBytes)
  /\ promised' = promised + AnswerBytes
  /\ UNCHANGED watch

connection_ctx_queue_write ==
  /\ write_buffer' = write_buffer \o Bytes(promised, AnswerBytes)
  /\ promised' = promised + AnswerBytes
  /\ loop_add_fd("read_write")

Queued == UNCHANGED <<write_buffer, promised, watch>>

invalid_packet_handler ==
  /\ connection_ctx_queue_write
  /\ close_connection' = TRUE
  /\ UNCHANGED waiting

\* The handlers of the message types: one answers at once, asks the database
\* thread, or does neither (a subscription); default refuses the packet.
Handler(i) ==
  \/ invalid_packet_handler
  \/ connection_ctx_queue_write /\ UNCHANGED <<close_connection, waiting>>
  \/ waiting' = waiting \cup {i} /\ Queued /\ UNCHANGED close_connection
  \/ Queued /\ UNCHANGED <<close_connection, waiting>>

\* Mutant: the bytes of the length are forgotten.
Rest_NoHeader(buffer, m) == Drop(buffer, m)
Rest(buffer, m)          == Drop(buffer, HEADER + m)

message_handler(buffer, m) ==
  /\ handled' = Append(handled, SubSeq(buffer, HEADER + 1, HEADER + m))
  /\ \/ m = 0 /\ invalid_packet_handler /\ read_buffer' = buffer
     \/ m # 0 /\ Handler(Len(handled) + 1) /\ read_buffer' = Rest(buffer, m)

\* Mutant: as many bytes as there are, where there is room for them.
bytes_to_read_All(m) == Start[N + 1]

bytes_to_read(m) ==
  IF Len(read_buffer) < HEADER THEN HEADER - Len(read_buffer)
  ELSE m - (Len(read_buffer) - HEADER)

\* Mutant: the descriptor stays in the epoll set.
clean_up_Watched ==
  /\ live' = FALSE
  /\ UNCHANGED watch

clean_up ==
  /\ live' = FALSE
  /\ watch' = "none"

Complete(buffer, m) == Len(buffer) >= HEADER /\ Len(buffer) >= m + HEADER

\* epoll_wait reports input also when the client has gone.
Readable == watch # "none" /\ (arrived > taken \/ peer # "open")

\* read takes some of the bytes asked for, as many as are there at most.
Read ==
  /\ Readable /\ peer # "reset"
  /\ \E m \in message_length(read_buffer), k \in 1..(arrived - taken) :
       LET buffer == read_buffer \o Bytes(taken, k) IN
       /\ k <= bytes_to_read(m)
       /\ taken' = taken + k
       /\ \E n \in message_length(buffer) :
            \/ /\ ~Complete(buffer, n)
               /\ read_buffer' = buffer
               /\ Queued /\ UNCHANGED <<close_connection, waiting, handled>>
            \/ /\ Complete(buffer, n)
               /\ message_handler(buffer, n)
  /\ UNCHANGED <<arrived, peer, live, notices, written>>

\* It returns 0 at the end of the input, and when it is asked for 0 bytes; it
\* fails, and EPOLLERR is reported, when the client has reset the connection.
ReadEnd ==
  /\ Readable
  /\ \/ peer = "reset"
     \/ arrived = taken
     \/ \E m \in message_length(read_buffer) : bytes_to_read(m) = 0
  /\ clean_up
  /\ UNCHANGED <<arrived, peer, taken, read_buffer, write_buffer, close_connection,
                 waiting, notices, handled, promised, written>>

\* Mutant: without the memmove.
Unwritten_Front(k) == SubSeq(write_buffer, 1, Len(write_buffer) - k)
Unwritten(k)       == Drop(write_buffer, k)

\* Mutant: a connection that is to be closed is closed after the first write.
Written_Hasty ==
  \/ /\ close_connection
     /\ clean_up
  \/ /\ ~close_connection /\ write_buffer' # <<>>
     /\ UNCHANGED <<live, watch>>
  \/ /\ ~close_connection /\ write_buffer' = <<>>
     /\ loop_add_fd("read")
     /\ UNCHANGED live

Written ==
  \/ /\ write_buffer' # <<>>
     /\ UNCHANGED <<live, watch>>
  \/ /\ write_buffer' = <<>> /\ close_connection
     /\ clean_up
  \/ /\ write_buffer' = <<>> /\ ~close_connection
     /\ loop_add_fd("read")
     /\ UNCHANGED live

\* The loop looks at EPOLLIN first, so there is nothing to read.  write takes
\* some of the bytes.
write_handler ==
  /\ watch = "read_write" /\ ~Readable
  /\ \E k \in 1..Len(write_buffer) :
       /\ write_buffer' = Unwritten(k)
       /\ written' = written + k
  /\ Written
  /\ UNCHANGED <<arrived, peer, taken, read_buffer, close_connection, waiting,
                 notices, handled, promised>>

\* A callback of the database thread's operation answers a request; what it
\* does after the end of the connection is for Requests to say.
Answer ==
  /\ live
  /\ \E i \in waiting : waiting' = waiting \ {i}
  /\ connection_ctx_queue_write
  /\ UNCHANGED <<arrived, peer, taken, live, read_buffer, close_connection, notices,
                 handled, written>>

\* vector_queue_write, for a message to another connection's request.
Notify ==
  /\ live /\ notices < MaxNotices
  /\ notices' = notices + 1
  /\ connection_ctx_queue_write
  /\ UNCHANGED <<arrived, peer, taken, live, read_buffer, close_connection, waiting,
                 handled, written>>

Next == Send \/ Leave \/ Read \/ ReadEnd \/ write_handler \/ Answer \/ Notify

Spec == Init /\ [][Next]_vars

\* The loop dispatches what is ready, the database thread answers, and a client
\* that stays takes what is written to it.
FairSpec ==
  /\ Spec
  /\ WF_vars(Read \/ ReadEnd) /\ WF_vars(write_handler) /\ WF_vars(Answer)

-----------------------------------------------------------------------------
TypeOK ==
  /\ arrived \in 0..Start[N + 1] /\ taken \in 0..arrived
  /\ peer \in {"open", "shut", "reset"}
  /\ live \in BOOLEAN /\ close_connection \in BOOLEAN
  /\ watch \in {"read", "read_write", "none"}
  /\ read_buffer \in Seq(Nat) /\ write_buffer \in Seq(Nat)
  /\ handled \in Seq(Seq(Nat)) /\ Len(handled) <= N
  /\ waiting \subseteq 1..Len(handled)
  /\ notices \in 0..MaxNotices
  /\ promised \in Nat /\ written \in Nat

\* However the stream is cut into segments and reads, message_handler gets the
\* client's messages, whole and in order, and what is left in the read buffer is
\* the beginning of the next packet.  Only an empty packet is never taken out, and
\* then the connection is to be closed.
Emptied == Len(handled) > 0 /\ Length[Len(handled)] = 0

Framed ==
  LET k == Len(handled) IN
  /\ \A i \in 1..k : handled[i] = Message(i)
  /\ Emptied => /\ taken = Start[k + 1] /\ close_connection
                /\ read_buffer = Bytes(Start[k], HEADER)
  /\ ~Emptied => /\ Start[k + 1] <= taken /\ (k < N => taken < Start[k + 2])
                 /\ read_buffer = Bytes(Start[k + 1], taken - Start[k + 1])

\* Of the bytes that were queued, by whichever callback, those that are not
\* written are in the write buffer, in order.
OutputKept ==
  /\ written <= promised
  /\ live => write_buffer = Bytes(written, promised - written)

\* The loop waits for a live connection's input, and for its descriptor to be
\* writable just as long as there is something to write: no answer is forgotten,
\* the loop does not spin, and no event reaches a context that was freed.
WatchedWhileOwing ==
  watch = IF ~live THEN "none" ELSE IF write_buffer = <<>> THEN "read" ELSE "read_write"

\* The server ends the connection of a client that is still there only after
\* close_connection was set, and either everything was written or the packet that
\* was refused is an empty one.
ServerClosesClean ==
  [][live /\ ~live' /\ peer = "open"
       => close_connection /\ (written' = promised \/ Emptied)]_vars

\* A packet that has come in whole is handled, however the reads cut it.
PacketsHandled == \A i \in 1..N : arrived >= Start[i + 1] ~> Len(handled) >= i \/ ~live

\* Bytes that were queued are written, if the connection does not end first, and a
\* connection that is to be closed is closed.
OutputSettles ==
  /\ \A n \in 1..(AnswerBytes * (N + MaxNotices)) : promised >= n ~> written >= n \/ ~live
  /\ close_connection ~> ~live
=============================================================================
