------------------------------ MODULE Accounts ------------------------------
(* Registration and login: register_request_handler.c, login_request_handler.c *)
(* and the users collection as database_thread works on it.  The server looks  *)
(* a name up and inserts the user in two operations, a callback in between.    *)
EXTENDS Requests

CONSTANTS
  Usernames,
  Passwords

VARIABLES
  users,          \* the documents of the collection, in the order of insertion
  session_tokens  \* tokens given out, with the user each stands for

vars == <<rvars, users, session_tokens>>

\* An oid and a token are made for a request and for no other: its number stands
\* for both.
Document_Plain(r) == [oid |-> r, username |-> requests[r].body.username]   \* mutant
Document(r) == [oid |-> r, username |-> requests[r].body.username,
                password |-> requests[r].body.password]
Token(r, oid) == [token |-> r, oid |-> oid]

Bodies == [kind : {"register", "login"}, username : Usernames, password : Passwords]

Init ==
  /\ RequestsInit
  /\ users = <<>>
  /\ session_tokens = {}

-----------------------------------------------------------------------------
(* The handlers: both look the name up first. *)
Lookup(r, cb) ==
  /\ database_operation(r, "QUERY", cb)
  /\ allocated' = allocated \cup {r}
  /\ UNCHANGED <<closing, answers, crashed>>

request_handler(a, body) ==
  /\ message_handler(a, body)
  /\ \/ Lookup(Len(requests) + 1, body.kind)
     \/ invalid_packet_handler(a)
  /\ UNCHANGED <<users, session_tokens>>

-----------------------------------------------------------------------------
(* database_thread *)
\* An operation may fail, and an insert that fails may have been done.  A query
\* keeps no order, and of its documents the callbacks look at the first only.
Found(name) == {d \in 1..Len(users) : users[d].username = name}

Database ==
  /\ ~crashed
  /\ jobs # <<>>
  /\ jobs' = Tail(jobs)
  /\ LET r == Head(jobs).req
         Done(result) == pending' = Append(pending, [req |-> r, cb |-> Head(jobs).cb,
                                                     result |-> result])
     IN  \/ Done(NULL) /\ UNCHANGED users
         \/ /\ Head(jobs).operation = "QUERY"
            /\ \/ Found(requests[r].body.username) = {} /\ Done(<<>>)
               \/ \E d \in Found(requests[r].body.username) : Done(<<users[d]>>)
            /\ UNCHANGED users
         \/ /\ Head(jobs).operation = "INSERT"
            /\ users' = Append(users, Document(r))
            /\ Done(NULL) \/ Done(<<>>)
  /\ UNCHANGED <<owner, closing, requests, allocated, crashed, accepted, answers,
                 session_tokens>>

-----------------------------------------------------------------------------
(* The callbacks *)
Callback(cb) ==
  /\ pending # <<>> /\ Head(pending).cb = cb
  /\ pending' = Tail(pending)
  /\ UNCHANGED <<owner, closing, requests, accepted, users>>

\* Mutant: a name that is taken is inserted again.
register_request_continue_Unchecked ==
  /\ Callback("register")
  /\ LET r == Head(pending).req
     IN  IF Head(pending).result = NULL
         THEN Resolve(r) /\ UNCHANGED jobs
         ELSE /\ database_operation(r, "INSERT", "inserted")
              /\ UNCHANGED <<answers, crashed, allocated>>
  /\ UNCHANGED session_tokens

\* Mutant: the error path goes on to the insert.
register_request_continue_NoReturn ==
  /\ Callback("register")
  /\ LET r == Head(pending).req
     IN  /\ IF Head(pending).result # <<>>
            THEN Resolve(r)
            ELSE UNCHANGED <<answers, crashed, allocated>>
         /\ database_operation(r, "INSERT", "inserted")
  /\ UNCHANGED session_tokens

\* Without a result, or with one that has a document, the answer is an error.
register_request_continue ==
  /\ Callback("register")
  /\ LET r == Head(pending).req
     IN  IF Head(pending).result # <<>>
         THEN Resolve(r) /\ UNCHANGED jobs
         ELSE /\ database_operation(r, "INSERT", "inserted")
              /\ UNCHANGED <<answers, crashed, allocated>>
  /\ UNCHANGED session_tokens

\* Mutant: the token is given out whether the insert succeeded or not.
register_request_finish_Always ==
  /\ Callback("inserted")
  /\ LET r == Head(pending).req
     IN  Resolve(r) /\ session_tokens' = session_tokens \cup {Token(r, r)}
  /\ UNCHANGED jobs

\* The branch for a result that counts no inserted document is left out: an insert
\* that succeeds has inserted one.
register_request_finish ==
  /\ Callback("inserted")
  /\ LET r == Head(pending).req
     IN  /\ Resolve(r)
         /\ IF Head(pending).result = NULL
            THEN UNCHANGED session_tokens
            ELSE session_tokens' = session_tokens \cup {Token(r, r)}
  /\ UNCHANGED jobs

PasswordMatches(r, results) ==
  results # <<>> /\ results[1].password = requests[r].body.password

\* Mutant: a wrong password is not answered.
login_request_finish_Silent ==
  /\ Callback("login")
  /\ LET r == Head(pending).req
         results == Head(pending).result
     IN  IF results # NULL /\ PasswordMatches(r, results)
         THEN Resolve(r) /\ session_tokens' = session_tokens \cup {Token(r, results[1].oid)}
         ELSE UNCHANGED <<answers, crashed, allocated, session_tokens>>
  /\ UNCHANGED jobs

login_request_finish ==
  /\ Callback("login")
  /\ LET r == Head(pending).req
         results == Head(pending).result
     IN  /\ Resolve(r)
         /\ IF results # NULL /\ PasswordMatches(r, results)
            THEN session_tokens' = session_tokens \cup {Token(r, results[1].oid)}
            ELSE UNCHANGED session_tokens
  /\ UNCHANGED jobs

-----------------------------------------------------------------------------
Loop ==
  ~crashed /\ (register_request_continue \/ register_request_finish \/ login_request_finish)

Clients ==
  /\ ~crashed
  /\ \/ /\ \E a \in Addresses : accept_connection_cb(a) \/ clean_up(a)
        /\ UNCHANGED <<users, session_tokens>>
     \/ \E a \in Addresses, body \in Bodies : request_handler(a, body)

Next == Loop \/ Database \/ Clients

Spec == Init /\ [][Next]_vars

\* Both threads go on; clients do as they please.
FairSpec == Spec /\ WF_vars(Loop) /\ WF_vars(Database)

-----------------------------------------------------------------------------
Documents == [oid : RequestIds, username : Usernames, password : Passwords]

TypeOK ==
  /\ owner \in [Addresses -> (1..MaxConns) \cup {NULL}]
  /\ closing \subseteq 1..MaxConns
  /\ Len(requests) <= MaxRequests
  /\ \A r \in 1..Len(requests) :
       requests[r] \in [ctx : Addresses, origin : 1..MaxConns, body : Bodies,
                        since : SUBSET RequestIds]
  /\ allocated \subseteq RequestIds
  /\ \A j \in 1..Len(jobs) :
       jobs[j] \in [req : RequestIds, operation : {"QUERY", "INSERT"},
                    cb : {"register", "login", "inserted"}]
  /\ \A i \in 1..Len(pending) : pending[i].result \in {NULL, <<>>} \cup {<<d>> : d \in Documents}
  /\ users \in Seq(Documents)
  /\ session_tokens \subseteq [token : RequestIds, oid : RequestIds]
  /\ crashed \in BOOLEAN
  /\ accepted \in 0..MaxConns

Served(r) ==
    Cardinality({j \in 1..Len(jobs) : jobs[j].req = r})
  + Cardinality({i \in 1..Len(pending) : pending[i].req = r})
  + Len(answers[r])

\* A request goes through its operations one after the other and is answered once,
\* and its context is kept until then: no error path of a handler answers twice,
\* forgets to, or goes on with a freed context (handler_utilities.h:49-88).
OneAnswer ==
  ~crashed => \A r \in 1..Len(requests) :
    /\ Served(r) = 1
    /\ r \in allocated <=> ~Answered(r)

\* However the two threads interleave and operations fail, each request is served
\* as by one that registers, grants or refuses at once: no session without the
\* name and the password of a user who is stored, no second user or session for a
\* request, none once it is refused (register_request_handler.c:34-127,
\* login_request_handler.c:38-118).
Asked    == [r \in 1..Len(requests) |->
               [body |-> requests[r].body, since |-> requests[r].since]]
Resolved == 1..Len(requests) \ allocated
Members  == {users[d] : d \in 1..Len(users)}

Abstract == INSTANCE AccountService WITH
  asked <- Asked, done <- Resolved, members <- Members, sessions <- session_tokens

ImplementsAccountService == Abstract!Spec

\* A name that was registered when a request to register it came in is not given
\* out again: only registrations that overlap can both get it.
TakenNamesRefused ==
  \A d, e \in 1..Len(users) :
    d # e /\ users[d].username = users[e].username
      => users[d].oid \notin requests[users[e].oid].since

\* "check to see if it already exists in our database": no two users share a name.
UniqueNames ==
  \A d, e \in 1..Len(users) : users[d].username = users[e].username => d = e

\* "written out to the requests originating fd": an answer never goes to another
\* connection than the one its request came from.
AnswersGoToOrigin ==
  \A r \in 1..Len(requests) : \A i \in 1..Len(answers[r]) : answers[r][i] = Origin(r)

\* Every request is answered, however operations fail.
EveryRequestAnswered ==
  \A r \in RequestIds : r \in allocated ~> r \notin allocated
=============================================================================
