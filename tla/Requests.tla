------------------------------ MODULE Requests ------------------------------
(* What the request handlers share: connections and their contexts, the life  *)
(* of a request from the packet to its answer, and the way to the database    *)
(* thread and back.  A handler and a callback run whole on the loop thread;   *)
(* between them the database thread works and connections come and go.        *)
EXTENDS Naturals, Sequences, FiniteSets

CONSTANTS
  Addresses,    \* where a connection_ctx_t may lie: free gives one back to malloc
  MaxConns,     \* bound: connections ever accepted
  MaxRequests,  \* bound: requests ever read
  Patient,      \* whether a client leaves only when it has all its answers
  NULL

ASSUME RequestsAssumption ==
  /\ MaxConns \in Nat /\ MaxRequests \in Nat
  /\ Patient \in BOOLEAN
  /\ NULL \notin Nat /\ NULL # <<>>

VARIABLES
  owner,      \* the connection whose context lies at an address, or NULL
  closing,    \* connections with close_connection set
  requests,   \* the requests read so far, oldest first
  allocated,  \* those whose request_ctx_t is not freed
  jobs,       \* database_queue
  pending,    \* pending_fd_callbacks: database_result_handler with its operation
  crashed,    \* a freed context was used
  accepted,   \* history: connections accepted so far
  answers     \* history: the connections that answers to a request were written to

rvars == <<owner, closing, requests, allocated, jobs, pending, crashed, accepted, answers>>

RequestIds == 1..MaxRequests

RequestsInit ==
  /\ owner = [a \in Addresses |-> NULL]
  /\ closing = {}
  /\ requests = <<>> /\ allocated = {}
  /\ jobs = <<>> /\ pending = <<>>
  /\ crashed = FALSE
  /\ accepted = 0
  /\ answers = [r \in RequestIds |-> <<>>]

-----------------------------------------------------------------------------
(* Connections *)
Origin(r)   == requests[r].origin
Answered(r) == answers[r] # <<>>
Waiting(c)  == \E r \in allocated : Origin(r) = c

accept_connection_cb(a) ==
  /\ owner[a] = NULL
  /\ accepted < MaxConns
  /\ owner' = [owner EXCEPT ![a] = accepted + 1]
  /\ accepted' = accepted + 1
  /\ UNCHANGED <<closing, requests, allocated, jobs, pending, crashed, answers>>

\* read_handler and write_handler end a connection alike, at the end of the
\* input, on an error, or when the last byte of a closing one is written.
clean_up(a) ==
  /\ owner[a] # NULL
  /\ Patient => ~Waiting(owner[a])
  /\ owner' = [owner EXCEPT ![a] = NULL]
  /\ UNCHANGED <<closing, requests, allocated, jobs, pending, crashed, accepted, answers>>

-----------------------------------------------------------------------------
(* Requests *)
\* Mutant: the answer is written without looking where the request came from.
queue_write_Latest(r) ==
  /\ answers' = [answers EXCEPT ![r] = Append(@, accepted)]
  /\ UNCHANGED crashed

\* An answer goes to whatever connection has its context where the request's was.
queue_write(r) ==
  LET c == owner[requests[r].ctx] IN
  IF c = NULL
  THEN crashed' = TRUE /\ UNCHANGED answers
  ELSE /\ answers' = [answers EXCEPT ![r] = Append(@, c)]
       /\ UNCHANGED crashed

\* The request gets its reply or its error, and its context is freed.
Resolve(r) ==
  /\ queue_write(r)
  /\ allocated' = allocated \ {r}

database_operation(r, operation, cb) ==
  jobs' = Append(jobs, [req |-> r, operation |-> operation, cb |-> cb])

\* message_handler for the packet that is complete in the read buffer at a: its
\* contents are the handler's own.
message_handler(a, body) ==
  /\ owner[a] # NULL
  /\ Len(requests) < MaxRequests
  /\ Patient => owner[a] \notin closing
  /\ requests' = Append(requests,
       [ctx |-> a, origin |-> owner[a], body |-> body,
        since |-> {r \in 1..Len(requests) : Answered(r)}])
  /\ UNCHANGED <<owner, pending, accepted>>

\* invalid_packet_handler, for a request that lacks a field.
invalid_packet_handler(a) ==
  /\ owner[a] # NULL
  /\ Patient => ~Waiting(owner[a])
  /\ closing' = closing \cup {owner[a]}
  /\ answers' = [answers EXCEPT ![Len(requests) + 1] = <<owner[a]>>]
  /\ UNCHANGED <<allocated, jobs, crashed>>
=============================================================================
