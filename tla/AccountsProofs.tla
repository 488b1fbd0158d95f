--------------------------- MODULE AccountsProofs ---------------------------
(* What holds of registration and login for any number of connections,        *)
(* requests, names and passwords.                                             *)
EXTENDS Accounts, Lemmas, FiniteSetTheorems, TLAPS

Results  == {NULL, <<>>} \cup {<<d>> : d \in Documents}
Request  == [ctx : Addresses, origin : 1..MaxConns, body : Bodies, since : SUBSET RequestIds]
Job      == [req : RequestIds, operation : {"QUERY", "INSERT"},
             cb : {"register", "login", "inserted"}]
Finished == [req : RequestIds, cb : {"register", "login", "inserted"}, result : Results]

Types ==
  /\ owner \in [Addresses -> (1..MaxConns) \cup {NULL}]
  /\ accepted \in 0..MaxConns /\ closing \subseteq 1..MaxConns
  /\ allocated \subseteq RequestIds /\ crashed \in BOOLEAN
  /\ session_tokens \subseteq [token : RequestIds, oid : RequestIds]
  /\ requests \in Seq(Request) /\ Len(requests) <= MaxRequests
  /\ users \in Seq(Documents)
  /\ jobs \in Seq(Job)
  /\ pending \in Seq(Finished)
  /\ answers \in [RequestIds -> Seq(1..MaxConns)]

\* A request that is allocated has one operation under way; one that is not has
\* none, and has its one answer.
OneOperation ==
  /\ Once(jobs) /\ Once(pending)
  /\ \A r \in RequestIds : ~ (In(jobs, r) /\ In(pending, r))
  /\ \A r \in RequestIds : r \in allocated <=> In(jobs, r) \/ In(pending, r)
  /\ allocated \subseteq 1..Len(requests)
  /\ \A r \in 1..Len(requests) : r \in allocated <=> answers[r] = <<>>
  /\ \A r \in RequestIds : Len(answers[r]) <= 1
  /\ \A r \in RequestIds : r \notin 1..Len(requests) => answers[r] = <<>>

\* What was answered when a request came in still is.
SinceAnswered ==
  \A r \in 1..Len(requests) : requests[r].since \subseteq {s \in 1..Len(requests) : Answered(s)}

\* No user of a registration's name was there when it came in.
Clear(r) ==
  \A u \in Elems(users) : u.username = requests[r].body.username => u.oid \notin requests[r].since

\* That is so for a registration that was let through, is to be, or is done.
LetThrough ==
  /\ \A j \in Elems(jobs) : j.operation = "INSERT" => Clear(j.req)
  /\ \A p \in Elems(pending) : p.result = <<>> => Clear(p.req)
  /\ \A u \in Elems(users) : /\ Clear(u.oid)
                             /\ u.oid \in 1..Len(requests)
                             /\ u.username = requests[u.oid].body.username

IsUser(id) == \E u \in Elems(users) : u.oid = id

\* A result that leads to a token shows its user.
Evidence ==
  /\ \A j \in Elems(jobs) : j.cb = "inserted" <=> j.operation = "INSERT"
  /\ \A p \in Elems(pending) : p.cb = "inserted" /\ p.result # NULL => IsUser(p.req)
  /\ \A p \in Elems(pending) :
       p.cb # "inserted" /\ p.result \notin {NULL, <<>>} => p.result[1] \in Elems(users)
  /\ \A t \in session_tokens : IsUser(t.oid)

\* A session is for a user whose name and password its request gave.
SessionsEarned ==
  \A t \in session_tokens : \E u \in Elems(users) :
    /\ u.oid = t.oid
    /\ u.username = requests[t.token].body.username
    /\ u.password = requests[t.token].body.password

\* Operations, results, users and sessions say what their requests asked for, and
\* a request to register that has its user has done its lookup and its insert.
Truthful ==
  /\ \A x \in Elems(jobs) \cup Elems(pending) :
       x.cb = "login" <=> requests[x.req].body.kind = "login"
  /\ \A p \in Elems(pending) :
       p.cb # "inserted" /\ p.result \notin {NULL, <<>>}
         => p.result[1].username = requests[p.req].body.username
  /\ \A u \in Elems(users) :
       /\ u.password = requests[u.oid].body.password
       /\ ~In(jobs, u.oid)
       /\ \A p \in Elems(pending) : p.req = u.oid => p.cb = "inserted"
  /\ \A t \in session_tokens : t.token \in 1..Len(requests)
  /\ SessionsEarned

\* Patient clients are where their requests came from until they are answered.
Home ==
  Patient =>
    /\ ~crashed
    /\ \A r \in allocated : owner[requests[r].ctx] = Origin(r)
    /\ AnswersGoToOrigin

\* The inductive invariant.
IInv ==
  /\ Types
  /\ ~crashed => OneOperation
  /\ SinceAnswered
  /\ LetThrough
  /\ Evidence
  /\ Home

-----------------------------------------------------------------------------
LEMMA TypesTypeOK == Types => TypeOK
<1> SUFFICES ASSUME Types PROVE TypeOK
  OBVIOUS
<1>1. /\ \A r \in 1..Len(requests) : requests[r] \in Request
      /\ \A j \in 1..Len(jobs) : jobs[j] \in Job
      /\ \A i \in 1..Len(pending) : pending[i] \in Finished
  BY SeqFacts DEF Types
<1>2. \A i \in 1..Len(pending) : pending[i].result \in Results
  BY <1>1 DEF Finished
<1> QED BY <1>1, <1>2 DEF TypeOK, Types, Request, Job, Results

\* An operation under way belongs to a request that waits for its answer.
LEMMA UnderWay ==
  ASSUME IInv, ~crashed
  PROVE  /\ \A j \in Elems(jobs) : j \in Job /\ j.req \in allocated
         /\ \A p \in Elems(pending) : p \in Finished /\ p.req \in allocated
         /\ \A r \in allocated : /\ r \in 1..Len(requests) /\ r \in RequestIds
                                 /\ requests[r] \in Request
                                 /\ answers[r] = <<>>
         /\ Len(requests) \in Nat /\ 1..Len(requests) \subseteq RequestIds
<1>1. /\ \A j \in Elems(jobs) : j \in Job /\ j.req \in RequestIds
      /\ \A p \in Elems(pending) : p \in Finished /\ p.req \in RequestIds
  <2>1. Elems(jobs) \subseteq Job /\ Elems(pending) \subseteq Finished
    BY SeqFacts DEF IInv, Types
  <2> QED BY <2>1 DEF Job, Finished
<1>2. /\ \A r \in 1..Len(requests) : requests[r] \in Request
      /\ Len(requests) \in Nat
  <2>1. requests \in Seq(Request)
    BY DEF IInv, Types
  <2> QED BY <2>1, SeqFacts
<1>3. 1..Len(requests) \subseteq RequestIds
  BY <1>2, RequestsAssumption DEF IInv, Types, RequestIds
<1> QED BY <1>1, <1>2, <1>3 DEF IInv, OneOperation, In

LEMMA InitIInv == Init => IInv
<1> SUFFICES ASSUME Init PROVE IInv
  OBVIOUS
<1> USE RequestsAssumption DEF Init, RequestsInit
<1>1. Types
  <2>1. /\ answers \in [RequestIds -> Seq(1..MaxConns)]
        /\ requests \in Seq(Request) /\ jobs \in Seq(Job) /\ pending \in Seq(Finished)
        /\ users \in Seq(Documents)
    OBVIOUS
  <2>2. owner \in [Addresses -> (1..MaxConns) \cup {NULL}] /\ accepted \in 0..MaxConns
    OBVIOUS
  <2>3. Len(requests) <= MaxRequests
    OBVIOUS
  <2>4. /\ closing \subseteq 1..MaxConns /\ allocated \subseteq RequestIds
        /\ session_tokens \subseteq [token : RequestIds, oid : RequestIds]
        /\ crashed \in BOOLEAN
    OBVIOUS
  <2> QED BY <2>1, <2>2, <2>3, <2>4, Zenon DEF Types
<1>2. OneOperation
  BY DEF OneOperation, Once, In, Elems, RequestIds
<1>3. SinceAnswered
  BY DEF SinceAnswered
<1>4. LetThrough
  BY DEF LetThrough, Elems
<1>5. Evidence
  BY DEF Evidence, Elems
<1>6. Home
  BY DEF Home, AnswersGoToOrigin
<1> QED BY <1>1, <1>2, <1>3, <1>4, <1>5, <1>6 DEF IInv

\* What only the requests, the answers and the queues say outlives any connection.
LEMMA ConnectionIInv ==
  ASSUME IInv, ~crashed, NEW a \in Addresses, accept_connection_cb(a) \/ clean_up(a),
         UNCHANGED <<users, session_tokens>>
  PROVE  IInv'
<1> USE RequestsAssumption DEF accept_connection_cb, clean_up, IInv
<1>1. Types'
  <2>1. owner' \in [Addresses -> (1..MaxConns) \cup {NULL}] /\ accepted' \in 0..MaxConns
    <3>1. CASE accept_connection_cb(a)
      <4>1. accepted + 1 \in 1..MaxConns
        BY <3>1 DEF Types
      <4> QED BY <3>1, <4>1 DEF Types
    <3>2. CASE clean_up(a)
      BY <3>2 DEF Types
    <3> QED BY <3>1, <3>2
  <2> QED BY <2>1 DEF Types
<1>2. OneOperation'
  BY DEF OneOperation
<1>3. SinceAnswered'
  BY DEF SinceAnswered, Answered
<1>4. LetThrough'
  BY DEF LetThrough, Clear
<1>5. Evidence'
  BY DEF Evidence, IsUser
<1>6. Home'
  <2> SUFFICES ASSUME Patient
               PROVE  /\ \A r \in allocated : owner'[requests[r].ctx] = Origin(r)
                      /\ AnswersGoToOrigin'
    BY DEF Home, Origin
  <2>1. AnswersGoToOrigin'
    BY DEF Home, AnswersGoToOrigin, Origin
  <2>2. ASSUME NEW r \in allocated PROVE owner'[requests[r].ctx] = Origin(r)
    <3>1. /\ owner[requests[r].ctx] = Origin(r)
          /\ r \in 1..Len(requests) /\ Origin(r) \in 1..MaxConns
          /\ requests[r].ctx \in Addresses
          /\ owner \in [Addresses -> (1..MaxConns) \cup {NULL}]
      BY UnderWay DEF Home, Types, Request, Origin
    <3>2. requests[r].ctx # a
      BY <3>1 DEF Waiting, Origin
    <3> QED BY <3>1, <3>2
  <2> QED BY <2>1, <2>2
<1> QED BY <1>1, <1>2, <1>3, <1>4, <1>5, <1>6

\* The request and the lookup it starts.
LEMMA LookupIInv ==
  ASSUME IInv, ~crashed, NEW a \in Addresses, NEW body \in Bodies,
         message_handler(a, body), Lookup(Len(requests) + 1, body.kind),
         UNCHANGED <<users, session_tokens>>
  PROVE  IInv'
<1> DEFINE new == Len(requests) + 1
           req == [ctx |-> a, origin |-> owner[a], body |-> body,
                   since |-> {r \in 1..Len(requests) : Answered(r)}]
           job == [req |-> new, operation |-> "QUERY", cb |-> body.kind]
<1> USE RequestsAssumption DEF IInv
<1>1. /\ requests' = Append(requests, req) /\ jobs' = Append(jobs, job)
      /\ allocated' = allocated \cup {new}
      /\ owner[a] # NULL /\ Len(requests) < MaxRequests
      /\ UNCHANGED <<owner, pending, accepted, closing, answers, crashed, users, session_tokens>>
  BY DEF message_handler, Lookup, database_operation
<1>2. requests \in Seq(Request) /\ Len(requests) \in Nat /\ new \in RequestIds
  BY <1>1 DEF Types, RequestIds
<1>3. req \in Request /\ job \in Job
  BY <1>1, <1>2 DEF Types, Request, Job, Bodies, RequestIds
<1>4. /\ requests' \in Seq(Request)
      /\ Len(requests') = new
      /\ \A r \in 1..Len(requests) : requests'[r] = requests[r]
      /\ requests'[new] = req
  <2> HIDE DEF req
  <2> QED BY <1>1, <1>2, <1>3, AppendFacts
<1>5. /\ jobs' \in Seq(Job)
      /\ Elems(jobs') = Elems(jobs) \cup {job}
      /\ \A r : In(jobs', r) <=> In(jobs, r) \/ r = new
      /\ Once(jobs) /\ ~In(jobs, new) => Once(jobs')
  <2>1. job.req = new /\ jobs \in Seq(Job)
    BY DEF Types
  <2> HIDE DEF job
  <2> QED BY <1>1, <1>3, <2>1, PutFacts
<1>6. new \notin 1..Len(requests) /\ 1..Len(requests') = (1..Len(requests)) \cup {new}
  BY <1>2, <1>4
<1> HIDE DEF req
<1>7. Types'
  BY <1>1, <1>2, <1>4, <1>5 DEF Types
<1>8. OneOperation'
  BY <1>1, <1>2, <1>5, <1>6 DEF OneOperation
<1>9. SinceAnswered'
  BY <1>1, <1>2, <1>4, <1>6 DEF SinceAnswered, Answered, req
<1>10. \A r \in 1..Len(requests) : Clear(r) => Clear(r)'
  BY <1>1, <1>4 DEF Clear
<1>11. LetThrough'
  BY <1>1, <1>4, <1>5, <1>6, <1>10, UnderWay DEF LetThrough
<1>12. Evidence'
  BY <1>1, <1>3, <1>5 DEF Evidence, IsUser, Bodies
<1>13. Home'
  <2>1. answers[new] = <<>> /\ \A r \in allocated : r \in 1..Len(requests)
    BY <1>2, <1>6 DEF OneOperation
  <2>2. requests'[new].ctx = a /\ requests'[new].origin = owner[a]
    BY <1>4 DEF req
  <2> QED BY <1>1, <1>4, <1>6, <2>1, <2>2 DEF Home, Origin, AnswersGoToOrigin
<1> QED BY <1>7, <1>8, <1>9, <1>11, <1>12, <1>13

\* A request that lacks a field is answered at once.
LEMMA RefusalIInv ==
  ASSUME IInv, ~crashed, NEW a \in Addresses, NEW body \in Bodies,
         message_handler(a, body), invalid_packet_handler(a),
         UNCHANGED <<users, session_tokens>>
  PROVE  IInv'
<1> DEFINE new == Len(requests) + 1
           req == [ctx |-> a, origin |-> owner[a], body |-> body,
                   since |-> {r \in 1..Len(requests) : Answered(r)}]
<1> USE RequestsAssumption DEF IInv
<1>1. /\ requests' = Append(requests, req)
      /\ answers' = [answers EXCEPT ![new] = <<owner[a]>>]
      /\ closing' = closing \cup {owner[a]}
      /\ owner[a] # NULL /\ Len(requests) < MaxRequests
      /\ UNCHANGED <<owner, pending, accepted, jobs, allocated, crashed, users, session_tokens>>
  BY DEF message_handler, invalid_packet_handler
<1>2. /\ requests \in Seq(Request) /\ Len(requests) \in Nat /\ new \in RequestIds
      /\ owner[a] \in 1..MaxConns
  BY <1>1 DEF Types, RequestIds
<1>3. req \in Request
  BY <1>1, <1>2 DEF Types, Request, RequestIds
<1>4. /\ requests' \in Seq(Request)
      /\ Len(requests') = new
      /\ \A r \in 1..Len(requests) : requests'[r] = requests[r]
      /\ requests'[new] = req
  <2> HIDE DEF req
  <2> QED BY <1>1, <1>2, <1>3, AppendFacts
<1>5. new \notin 1..Len(requests) /\ 1..Len(requests') = (1..Len(requests)) \cup {new}
  BY <1>2, <1>4
<1>6. /\ <<owner[a]>> \in Seq(1..MaxConns) /\ <<owner[a]>> # <<>>
      /\ Len(<<owner[a]>>) = 1 /\ <<owner[a]>>[1] = owner[a]
  BY <1>2
<1>7. /\ answers' \in [RequestIds -> Seq(1..MaxConns)]
      /\ answers'[new] = <<owner[a]>>
      /\ \A r \in RequestIds : r # new => answers'[r] = answers[r]
  BY <1>1, <1>2, <1>6 DEF Types
<1>8. new \notin allocated
  BY <1>5, UnderWay
<1> HIDE DEF req
<1>9. Types'
  <2>1. closing' \subseteq 1..MaxConns
    BY <1>1, <1>2 DEF Types
  <2>2. Len(requests') <= MaxRequests
    BY <1>1, <1>2, <1>4
  <2> QED BY <1>1, <1>4, <1>7, <2>1, <2>2 DEF Types
<1>10. OneOperation'
  <2>1. \A r \in 1..Len(requests)' : r \in allocated' <=> answers'[r] = <<>>
    BY <1>1, <1>5, <1>6, <1>7, <1>8, UnderWay DEF OneOperation
  <2>2. /\ \A r \in RequestIds : Len(answers'[r]) <= 1
        /\ \A r \in RequestIds : r \notin 1..Len(requests') => answers'[r] = <<>>
    <3>1. Len(answers'[new]) <= 1 /\ new \in 1..Len(requests')
      BY <1>5, <1>6, <1>7
    <3>2. \A r \in RequestIds : r # new => answers'[r] = answers[r]
      BY <1>7
    <3>3. /\ \A r \in RequestIds : Len(answers[r]) <= 1
          /\ \A r \in RequestIds : r \notin 1..Len(requests) => answers[r] = <<>>
      BY DEF OneOperation
    <3> QED BY <1>5, <3>1, <3>2, <3>3
  <2>3. allocated' \subseteq 1..Len(requests')
    BY <1>1, <1>5, UnderWay
  <2> QED BY <1>1, <2>1, <2>2, <2>3 DEF OneOperation
<1>11. SinceAnswered'
  <2>1. \A s \in 1..Len(requests) : Answered(s) => Answered(s)'
    BY <1>5, <1>7, UnderWay DEF Answered
  <2> QED BY <1>4, <1>5, <2>1 DEF SinceAnswered, req
<1>12. \A r \in 1..Len(requests) : Clear(r) => Clear(r)'
  BY <1>1, <1>4 DEF Clear
<1>13. LetThrough'
  BY <1>1, <1>4, <1>5, <1>12, UnderWay DEF LetThrough
<1>14. Evidence'
  BY <1>1 DEF Evidence, IsUser
<1>15. Home'
  <2> SUFFICES ASSUME Patient PROVE Home'
    BY DEF Home
  <2>1. \A r \in allocated : owner'[requests'[r].ctx] = Origin(r)'
    BY <1>1, <1>4, UnderWay DEF Home, Origin
  <2>2. \A r \in 1..Len(requests) : \A i \in 1..Len(answers'[r]) : answers'[r][i] = Origin(r)'
    <3>1. \A r \in 1..Len(requests) : answers'[r] = answers[r] /\ requests'[r] = requests[r]
      BY <1>4, <1>5, <1>7, UnderWay
    <3> QED BY <3>1 DEF Home, AnswersGoToOrigin, Origin
  <2>3. \A i \in 1..Len(answers'[new]) : answers'[new][i] = requests'[new].origin
    <3>1. requests'[new].origin = owner[a]
      BY <1>4 DEF req
    <3>2. \A i \in 1..Len(<<owner[a]>>) : <<owner[a]>>[i] = owner[a]
      BY <1>6
    <3> QED BY <1>7, <3>1, <3>2
  <2>4. ASSUME NEW r \in 1..Len(requests')
        PROVE  \A i \in 1..Len(answers'[r]) : answers'[r][i] = Origin(r)'
    BY <1>5, <2>2, <2>3 DEF Origin
  <2>5. AnswersGoToOrigin'
    BY <2>4 DEF AnswersGoToOrigin
  <2> QED BY <1>1, <2>1, <2>5 DEF Home
<1> QED BY <1>9, <1>10, <1>11, <1>13, <1>14, <1>15

\* What a step of the database thread does: the first operation of the one queue
\* becomes the last of the other, and an insert may add its user.
Does(job, fin) ==
  /\ fin.req = job.req /\ fin.cb = job.cb
  /\ pending' \in Seq(Finished)
  /\ Elems(pending') = Elems(pending) \cup {fin}
  /\ \A q : In(pending', q) <=> In(pending, q) \/ q = job.req
  /\ Once(pending')
  /\ users' \in Seq(Documents)
  /\ \/ users' = users
     \/ job.operation = "INSERT" /\ Elems(users') = Elems(users) \cup {Document(job.req)}
  /\ job.operation = "QUERY" =>
       \/ fin.result = NULL
       \/ fin.result = <<>> /\ Found(requests[job.req].body.username) = {}
       \/ \E u \in Elems(users) : /\ u.username = requests[job.req].body.username
                                  /\ fin.result # <<>> /\ fin.result[1] = u
  /\ job.operation = "INSERT" =>
       fin.result = NULL \/ (fin.result = <<>> /\ Document(job.req) \in Elems(users'))

LEMMA DatabaseFacts ==
  ASSUME IInv, Database, NEW job, job = Head(jobs), NEW r, r = job.req
  PROVE  /\ ~crashed
         /\ UNCHANGED <<owner, closing, requests, allocated, crashed, accepted, answers,
                        session_tokens>>
         /\ jobs' \in Seq(Job)
         /\ job \in Job /\ job \in Elems(jobs)
         /\ Elems(jobs') \subseteq Elems(jobs)
         /\ Once(jobs') /\ ~In(jobs', r)
         /\ \A q : q # r => (In(jobs', q) <=> In(jobs, q))
         /\ r \in allocated /\ r \in 1..Len(requests) /\ r \in RequestIds
         /\ requests[r] \in Request /\ answers[r] = <<>>
         /\ In(jobs, r) /\ ~In(pending, r)
         /\ Document(r) \in Documents /\ Document(r).oid = r
         /\ Document(r).username = requests[r].body.username
         /\ Document(r).password = requests[r].body.password
         /\ \E fin \in Finished : Does(job, fin)
<1> DEFINE doc == Document(r)
           done(result) == [req |-> r, cb |-> job.cb, result |-> result]
<1> USE RequestsAssumption DEF IInv
<1>1. /\ ~crashed /\ jobs # <<>> /\ jobs' = Tail(jobs)
      /\ UNCHANGED <<owner, closing, requests, allocated, crashed, accepted, answers,
                     session_tokens>>
  BY DEF Database
<1>2. /\ jobs' \in Seq(Job)
      /\ job \in Job /\ job \in Elems(jobs)
      /\ Elems(jobs') \subseteq Elems(jobs)
      /\ Once(jobs') /\ ~In(jobs', r)
      /\ \A q : q # r => (In(jobs', q) <=> In(jobs, q))
  BY <1>1, TakeFacts DEF Types, OneOperation
<1>3. /\ r \in allocated /\ r \in 1..Len(requests) /\ r \in RequestIds
      /\ requests[r] \in Request /\ answers[r] = <<>> /\ requests[r].body \in Bodies
      /\ job.cb \in {"register", "login", "inserted"}
      /\ job.operation \in {"QUERY", "INSERT"}
      /\ In(jobs, r) /\ ~In(pending, r)
  BY <1>1, <1>2, UnderWay DEF OneOperation, In, Job, Request
<1>4. /\ doc \in Documents /\ doc.oid = r
      /\ doc.username = requests[r].body.username /\ doc.password = requests[r].body.password
  BY <1>3 DEF Document, Documents, Bodies
<1>5. \/ pending' = Append(pending, done(NULL)) /\ users' = users
      \/ /\ job.operation = "QUERY" /\ users' = users
         /\ \/ /\ Found(requests[r].body.username) = {}
               /\ pending' = Append(pending, done(<<>>))
            \/ \E u \in Elems(users) : /\ u.username = requests[r].body.username
                                       /\ pending' = Append(pending, done(<<u>>))
      \/ /\ job.operation = "INSERT"
         /\ users' = Append(users, doc)
         /\ pending' = Append(pending, done(NULL)) \/ pending' = Append(pending, done(<<>>))
  BY DEF Database, Found, Elems
<1> HIDE DEF doc
<1>6. /\ users' \in Seq(Documents)
      /\ users' # users => job.operation = "INSERT" /\ Elems(users') = Elems(users) \cup {doc}
      /\ users' = Append(users, doc) => doc \in Elems(users')
  <2>1. CASE users' = users
    BY <1>4, <2>1, PutFacts DEF Types
  <2>2. CASE job.operation = "INSERT" /\ users' = Append(users, doc)
    BY <1>4, <2>2, PutFacts DEF Types
  <2> QED BY <1>5, <2>1, <2>2
<1>7. PICK result \in Results :
        /\ pending' = Append(pending, done(result))
        /\ job.operation = "QUERY" =>
             \/ result = NULL
             \/ result = <<>> /\ Found(requests[r].body.username) = {}
             \/ \E u \in Elems(users) : /\ u.username = requests[r].body.username
                                        /\ result # <<>> /\ result[1] = u
        /\ job.operation = "INSERT" => result = NULL \/ (result = <<>> /\ doc \in Elems(users'))
  <2>1. ASSUME NEW u \in Elems(users)
        PROVE  <<u>> \in Results /\ <<u>> # <<>> /\ <<u>>[1] = u
    <3>1. u \in Documents
      BY SeqFacts DEF Types
    <3> QED BY <3>1 DEF Results
  <2>2. NULL \in Results /\ <<>> \in Results
    BY DEF Results
  <2> HIDE DEF done
  <2>3. CASE pending' = Append(pending, done(NULL))
    BY <2>2, <2>3
  <2>4. CASE /\ job.operation = "QUERY" /\ Found(requests[r].body.username) = {}
             /\ pending' = Append(pending, done(<<>>))
    BY <2>2, <2>4
  <2>5. CASE /\ job.operation = "QUERY"
             /\ \E u \in Elems(users) : /\ u.username = requests[r].body.username
                                        /\ pending' = Append(pending, done(<<u>>))
    BY <2>1, <2>5
  <2>6. CASE /\ job.operation = "INSERT" /\ users' = Append(users, doc)
             /\ pending' = Append(pending, done(<<>>))
    BY <1>6, <2>2, <2>6
  <2> QED BY <1>5, <2>3, <2>4, <2>5, <2>6
<1> DEFINE fin == done(result)
<1>8. fin \in Finished /\ fin.req = r /\ fin.cb = job.cb /\ fin.result = result
  BY <1>3, <1>7 DEF Finished
<1>9. /\ pending' \in Seq(Finished)
      /\ Elems(pending') = Elems(pending) \cup {fin}
      /\ \A q : In(pending', q) <=> In(pending, q) \/ q = r
      /\ Once(pending')
  <2>1. pending' = Append(pending, fin) /\ pending \in Seq(Finished) /\ Once(pending)
    BY <1>1, <1>7 DEF Types, OneOperation
  <2> HIDE DEF fin
  <2> QED BY <1>3, <1>8, <2>1, PutFacts
<1> HIDE DEF fin
<1>10. Does(job, fin)
  BY <1>6, <1>7, <1>8, <1>9 DEF Does, doc
<1> QED BY <1>1, <1>2, <1>3, <1>4, <1>8, <1>10 DEF doc

LEMMA DatabaseIInv ==
  ASSUME IInv, Database
  PROVE  IInv'
<1> USE RequestsAssumption DEF IInv
<1>job. PICK job : job = Head(jobs)
  OBVIOUS
<1>r. PICK r : r = job.req
  OBVIOUS
<1>doc. PICK doc : doc = Document(r)
  OBVIOUS
<1>1. /\ ~crashed
      /\ UNCHANGED <<owner, closing, requests, allocated, crashed, accepted, answers,
                     session_tokens>>
      /\ jobs' \in Seq(Job)
      /\ job \in Job /\ job \in Elems(jobs)
      /\ Elems(jobs') \subseteq Elems(jobs)
      /\ Once(jobs') /\ ~In(jobs', r)
      /\ \A q : q # r => (In(jobs', q) <=> In(jobs, q))
      /\ r \in allocated /\ r \in 1..Len(requests) /\ r \in RequestIds
      /\ requests[r] \in Request /\ answers[r] = <<>>
      /\ In(jobs, r) /\ ~In(pending, r)
      /\ doc \in Documents /\ doc.oid = r /\ doc.username = requests[r].body.username
  BY <1>job, <1>r, <1>doc, DatabaseFacts
<1>2. PICK fin \in Finished : Does(job, fin)
  BY <1>job, <1>r, DatabaseFacts
<1>3. /\ fin.req = r /\ fin.cb = job.cb
      /\ pending' \in Seq(Finished)
      /\ Elems(pending') = Elems(pending) \cup {fin}
      /\ \A q : In(pending', q) <=> In(pending, q) \/ q = r
      /\ Once(pending')
  BY <1>r, <1>2 DEF Does
<1>4. /\ users' \in Seq(Documents)
      /\ users' = users \/ (job.operation = "INSERT" /\ Elems(users') = Elems(users) \cup {doc})
      /\ Elems(users) \subseteq Elems(users')
  BY <1>r, <1>doc, <1>2 DEF Does
<1>5. /\ job.operation = "QUERY" =>
           \/ fin.result = NULL
           \/ fin.result = <<>> /\ Found(requests[r].body.username) = {}
           \/ fin.result # <<>> /\ fin.result[1] \in Elems(users)
      /\ job.operation = "INSERT" => fin.result = NULL \/ (fin.result = <<>> /\ doc \in Elems(users'))
      /\ job.operation \in {"QUERY", "INSERT"}
  BY <1>r, <1>doc, <1>1, <1>2 DEF Does, Job
<1>6. Types'
  BY <1>1, <1>3, <1>4 DEF Types
<1>7. OneOperation'
  BY <1>1, <1>3 DEF OneOperation
<1>8. SinceAnswered'
  BY <1>1 DEF SinceAnswered, Answered
<1>9. ASSUME NEW q \in 1..Len(requests), Clear(q) PROVE Clear(q)'
  \* The new user's request is not answered, so it was not when another came in.
  <2>1. r \notin requests[q].since
    BY <1>1 DEF SinceAnswered, Answered
  <2> QED BY <1>1, <1>4, <1>9, <2>1 DEF Clear
<1>10. fin.result = <<>> => Clear(r)
  <2>1. CASE job.operation = "QUERY" /\ Found(requests[r].body.username) = {}
    BY <2>1 DEF Clear, Found, Elems
  <2>2. CASE job.operation = "INSERT"
    BY <1>1, <1>r, <2>2 DEF LetThrough
  <2> QED BY <1>5, <2>1, <2>2
<1>11. LetThrough'
  <2>1. \A j \in Elems(jobs') : j.operation = "INSERT" => Clear(j.req)'
    BY <1>1, <1>9, UnderWay DEF LetThrough
  <2>2. \A p \in Elems(pending') : p.result = <<>> => Clear(p.req)'
    BY <1>1, <1>3, <1>9, <1>10, UnderWay DEF LetThrough
  <2>3. ASSUME NEW u \in Elems(users')
        PROVE  /\ Clear(u.oid)'
               /\ u.oid \in 1..Len(requests)
               /\ u.username = requests[u.oid].body.username
    <3>1. CASE u \in Elems(users)
      BY <1>9, <3>1 DEF LetThrough
    <3>2. CASE u = doc /\ job.operation = "INSERT"
      BY <1>1, <1>r, <1>9, <3>2 DEF LetThrough
    <3> QED BY <1>4, <3>1, <3>2
  <2> QED BY <1>1, <2>1, <2>2, <2>3 DEF LetThrough
<1>12. Evidence'
  <2>1. \A id : IsUser(id) => IsUser(id)'
    BY <1>4 DEF IsUser
  <2>2. /\ \A j \in Elems(jobs') : j.cb = "inserted" <=> j.operation = "INSERT"
        /\ job.cb = "inserted" <=> job.operation = "INSERT"
    BY <1>1 DEF Evidence
  <2>3. ASSUME NEW p \in Elems(pending')
        PROVE  /\ p.cb = "inserted" /\ p.result # NULL => IsUser(p.req)'
               /\ p.cb # "inserted" /\ p.result \notin {NULL, <<>>} => p.result[1] \in Elems(users')
    <3>1. CASE p \in Elems(pending)
      BY <1>4, <2>1, <3>1 DEF Evidence
    <3>2. CASE p = fin
      <4>1. p.cb = "inserted" /\ p.result # NULL => IsUser(p.req)'
        BY <1>1, <1>3, <1>5, <2>2, <3>2 DEF IsUser
      <4>2. p.cb # "inserted" /\ p.result \notin {NULL, <<>>} => p.result[1] \in Elems(users')
        BY <1>3, <1>4, <1>5, <2>2, <3>2
      <4> QED BY <4>1, <4>2
    <3> QED BY <1>3, <3>1, <3>2
  <2> QED BY <1>1, <2>1, <2>2, <2>3 DEF Evidence
<1>13. Home'
  BY <1>1 DEF Home, AnswersGoToOrigin, Origin
<1> QED BY <1>6, <1>7, <1>8, <1>11, <1>12, <1>13

\* The result a callback gets, and the queue it leaves.
LEMMA CallbackFacts ==
  ASSUME IInv, ~crashed, NEW cb, Callback(cb), NEW r, r = Head(pending).req
  PROVE  /\ UNCHANGED <<owner, closing, requests, accepted, users>>
         /\ Head(pending) \in Elems(pending) /\ Head(pending) \in Finished
         /\ Head(pending).cb = cb
         /\ pending' \in Seq(Finished)
         /\ Elems(pending') \subseteq Elems(pending)
         /\ Once(pending') /\ ~In(pending', r)
         /\ \A q : q # r => (In(pending', q) <=> In(pending, q))
         /\ r \in allocated /\ r \in RequestIds /\ r \in 1..Len(requests)
         /\ requests[r] \in Request /\ answers[r] = <<>>
         /\ In(pending, r) /\ ~In(jobs, r)
<1>1. /\ pending # <<>> /\ pending' = Tail(pending) /\ Head(pending).cb = cb
      /\ UNCHANGED <<owner, closing, requests, accepted, users>>
  BY DEF Callback
<1>2. pending \in Seq(Finished) /\ Once(pending)
  BY DEF IInv, Types, OneOperation
<1>3. /\ Head(pending) \in Elems(pending) /\ Head(pending) \in Finished
      /\ pending' \in Seq(Finished)
      /\ Elems(pending') \subseteq Elems(pending)
      /\ Once(pending') /\ ~In(pending', r)
      /\ \A q : q # r => (In(pending', q) <=> In(pending, q))
  BY <1>1, <1>2, TakeFacts
<1>4. /\ r \in allocated /\ r \in RequestIds /\ r \in 1..Len(requests)
      /\ requests[r] \in Request /\ answers[r] = <<>>
  BY <1>3, UnderWay
<1>5. In(pending, r) /\ ~In(jobs, r)
  BY <1>3, <1>4 DEF In, IInv, OneOperation
<1> QED BY <1>1, <1>3, <1>4, <1>5

\* The request is answered, to the connection that has its context now.
LEMMA ResolveIInv ==
  ASSUME IInv, ~crashed, NEW cb, Callback(cb), NEW r, r = Head(pending).req,
         Resolve(r), UNCHANGED jobs,
         session_tokens' \subseteq [token : RequestIds, oid : RequestIds],
         \A t \in session_tokens' : IsUser(t.oid)
  PROVE  IInv'
<1> USE RequestsAssumption DEF IInv
<1> DEFINE c == owner[requests[r].ctx]
<1>1. /\ UNCHANGED <<owner, closing, requests, accepted, users>>
      /\ pending' \in Seq(Finished)
      /\ Elems(pending') \subseteq Elems(pending)
      /\ Once(pending') /\ ~In(pending', r)
      /\ \A q : q # r => (In(pending', q) <=> In(pending, q))
      /\ r \in allocated /\ r \in RequestIds /\ r \in 1..Len(requests)
      /\ requests[r] \in Request /\ answers[r] = <<>>
      /\ ~In(jobs, r)
  BY CallbackFacts
<1>2. /\ allocated' = allocated \ {r}
      /\ \/ c = NULL /\ crashed' = TRUE /\ answers' = answers
         \/ c # NULL /\ crashed' = crashed /\ answers' = [answers EXCEPT ![r] = Append(@, c)]
  BY DEF Resolve, queue_write
<1>3. c \in (1..MaxConns) \cup {NULL} /\ answers \in [RequestIds -> Seq(1..MaxConns)]
  BY <1>1 DEF Types, Request
<1> HIDE DEF c
<1>4. c # NULL => /\ crashed' = crashed
                  /\ answers' \in [RequestIds -> Seq(1..MaxConns)]
                  /\ Len(answers'[r]) = 1 /\ answers'[r][1] = c
                  /\ \A q \in RequestIds : q # r => answers'[q] = answers[q]
  <2> SUFFICES ASSUME c # NULL
               PROVE  /\ answers' \in [RequestIds -> Seq(1..MaxConns)]
                      /\ Len(answers'[r]) = 1 /\ answers'[r][1] = c
                      /\ \A q \in RequestIds : q # r => answers'[q] = answers[q]
    BY <1>2
  <2>1. answers' = [answers EXCEPT ![r] = Append(<<>>, c)]
    BY <1>1, <1>2
  <2>2. /\ Append(<<>>, c) \in Seq(1..MaxConns)
        /\ Len(Append(<<>>, c)) = 1 /\ Append(<<>>, c)[1] = c
    BY <1>3
  <2> QED BY <1>1, <1>3, <2>1, <2>2
<1>5. Types'
  BY <1>1, <1>2, <1>3, <1>4 DEF Types
<1>6. ~crashed' => OneOperation'
  <2> SUFFICES ASSUME c # NULL PROVE OneOperation'
    BY <1>2
  <2>1. answers'[r] # <<>>
    BY <1>4
  <2>2. \A q \in 1..Len(requests) : q \in RequestIds
    BY UnderWay
  <2>3. \A q \in 1..Len(requests) : q \in allocated' <=> answers'[q] = <<>>
    BY <1>2, <1>4, <2>1, <2>2 DEF OneOperation
  <2>4. /\ \A q \in RequestIds : Len(answers'[q]) <= 1
        /\ \A q \in RequestIds : q \notin 1..Len(requests) => answers'[q] = <<>>
    <3>1. \A q \in RequestIds : q # r => answers'[q] = answers[q]
      BY <1>4
    <3>2. \A n : n = 1 => n <= 1
      OBVIOUS
    <3>3. Len(answers'[r]) <= 1
      BY <1>4, <3>2, Zenon
    <3> QED BY <1>1, <3>1, <3>3 DEF OneOperation
  <2>5. \A q \in RequestIds : q \in allocated' <=> In(jobs', q) \/ In(pending', q)
    BY <1>1, <1>2 DEF OneOperation
  <2>6. /\ Once(jobs') /\ allocated' \subseteq 1..Len(requests)
        /\ \A q \in RequestIds : ~ (In(jobs', q) /\ In(pending', q))
    BY <1>1, <1>2 DEF OneOperation
  <2> QED BY <1>1, <2>3, <2>4, <2>5, <2>6 DEF OneOperation
<1>7. SinceAnswered'
  <2>1. \A s \in 1..Len(requests) : Answered(s) => Answered(s)'
    BY <1>1, <1>2, <1>4, UnderWay DEF Answered
  <2> QED BY <1>1, <2>1 DEF SinceAnswered
<1>8. LetThrough'
  BY <1>1 DEF LetThrough, Clear
<1>9. Evidence'
  BY <1>1 DEF Evidence, IsUser
<1>10. Home'
  <2> SUFFICES ASSUME Patient PROVE Home'
    BY DEF Home
  <2>1. c = Origin(r) /\ c # NULL
    BY <1>1 DEF Home, Origin, Request, c
  <2>2. \A q \in allocated' : owner'[requests'[q].ctx] = Origin(q)'
    BY <1>1, <1>2 DEF Home, Origin
  <2>3. ASSUME NEW q \in 1..Len(requests), NEW i \in 1..Len(answers'[q])
        PROVE  answers'[q][i] = requests[q].origin
    <3>1. CASE q = r
      BY <1>4, <2>1, <2>3, <3>1 DEF Origin
    <3>2. CASE q # r
      <4>1. q \in RequestIds
        BY UnderWay
      <4>2. answers'[q] = answers[q]
        BY <1>4, <2>1, <3>2, <4>1
      <4>3. i \in 1..Len(answers[q])
        BY <2>3, <4>2
      <4>4. AnswersGoToOrigin
        BY DEF Home
      <4>5. answers[q][i] = requests[q].origin
        BY <4>3, <4>4 DEF AnswersGoToOrigin, Origin
      <4> QED BY <4>2, <4>5
    <3> QED BY <3>1, <3>2
  <2>4. AnswersGoToOrigin'
    BY <1>1, <2>3 DEF AnswersGoToOrigin, Origin
  <2> QED BY <1>4, <2>1, <2>2, <2>4 DEF Home
<1> QED BY <1>5, <1>6, <1>7, <1>8, <1>9, <1>10

\* The registration goes on to its insert.
LEMMA GoOnIInv ==
  ASSUME IInv, ~crashed, Callback("register"), Head(pending).result = <<>>,
         NEW r, r = Head(pending).req, database_operation(r, "INSERT", "inserted"),
         UNCHANGED <<answers, crashed, allocated, session_tokens>>
  PROVE  IInv'
<1> USE DEF IInv
<1> DEFINE job == [req |-> r, operation |-> "INSERT", cb |-> "inserted"]
<1>1. /\ UNCHANGED <<owner, closing, requests, accepted, users>>
      /\ Head(pending) \in Elems(pending)
      /\ pending' \in Seq(Finished)
      /\ Elems(pending') \subseteq Elems(pending)
      /\ Once(pending') /\ ~In(pending', r)
      /\ \A q : q # r => (In(pending', q) <=> In(pending, q))
      /\ r \in allocated /\ r \in RequestIds
      /\ In(pending, r) /\ ~In(jobs, r)
  BY CallbackFacts
<1>2. job \in Job /\ job.req = r /\ jobs' = Append(jobs, job) /\ jobs \in Seq(Job) /\ Once(jobs)
  BY <1>1 DEF Job, database_operation, Types, OneOperation
<1>3. job.operation = "INSERT" /\ job.cb = "inserted"
  OBVIOUS
<1> HIDE DEF job
<1>4. /\ jobs' \in Seq(Job)
      /\ Elems(jobs') = Elems(jobs) \cup {job}
      /\ \A q : In(jobs', q) <=> In(jobs, q) \/ q = r
      /\ Once(jobs')
  BY <1>1, <1>2, PutFacts
<1>5. Types'
  BY <1>1, <1>4 DEF Types
<1>6. OneOperation'
  BY <1>1, <1>4 DEF OneOperation
<1>7. SinceAnswered'
  BY <1>1 DEF SinceAnswered, Answered
<1>8. Clear(r)
  BY <1>1 DEF LetThrough
<1>9. LetThrough'
  BY <1>1, <1>2, <1>4, <1>8 DEF LetThrough, Clear
<1>10. Evidence'
  BY <1>1, <1>3, <1>4 DEF Evidence, IsUser
<1>11. Home'
  BY <1>1 DEF Home, AnswersGoToOrigin, Origin
<1> QED BY <1>5, <1>6, <1>7, <1>9, <1>10, <1>11

LEMMA NextIInv == IInv /\ [Next]_vars => IInv'
<1> SUFFICES ASSUME IInv, [Next]_vars PROVE IInv'
  OBVIOUS
<1>1. CASE UNCHANGED vars
  BY <1>1 DEF vars, rvars, IInv, Types, OneOperation, SinceAnswered, Answered, LetThrough,
              Clear, Evidence, IsUser, Home, AnswersGoToOrigin, Origin
<1>2. CASE Database
  BY <1>2, DatabaseIInv
<1>3. CASE Clients
  <2>1. CASE /\ \E a \in Addresses : accept_connection_cb(a) \/ clean_up(a)
             /\ UNCHANGED <<users, session_tokens>>
    BY <1>3, <2>1, ConnectionIInv DEF Clients
  <2>2. CASE \E a \in Addresses, body \in Bodies : request_handler(a, body)
    BY <1>3, <2>2, LookupIInv, RefusalIInv DEF Clients, request_handler
  <2> QED BY <1>3, <2>1, <2>2 DEF Clients
<1>4. ASSUME NEW cb, Callback(cb), ~crashed, Resolve(Head(pending).req), UNCHANGED jobs,
             \/ session_tokens' = session_tokens
             \/ \E id : /\ IsUser(id)
                        /\ session_tokens' = session_tokens \cup {Token(Head(pending).req, id)}
      PROVE  IInv'
  <2>1. Head(pending).req \in RequestIds
    BY <1>4, CallbackFacts
  <2>2. \A id : IsUser(id) => id \in RequestIds
    <3>1. Elems(users) \subseteq Documents
      BY SeqFacts DEF IInv, Types
    <3> QED BY <3>1 DEF IsUser, Documents
  <2>3. /\ session_tokens' \subseteq [token : RequestIds, oid : RequestIds]
        /\ \A t \in session_tokens' : IsUser(t.oid)
    BY <1>4, <2>1, <2>2 DEF Token, IInv, Types, Evidence
  <2> QED BY <1>4, <2>3, ResolveIInv
<1>5. CASE ~crashed /\ register_request_continue
  <2>1. CASE Head(pending).result = <<>>
    BY <1>5, <2>1, GoOnIInv DEF register_request_continue
  <2>2. CASE Head(pending).result # <<>>
    BY <1>4, <1>5, <2>2 DEF register_request_continue
  <2> QED BY <2>1, <2>2
<1>6. CASE ~crashed /\ register_request_finish
  <2>1. /\ Callback("inserted") /\ Resolve(Head(pending).req) /\ UNCHANGED jobs
        /\ \/ session_tokens' = session_tokens
           \/ /\ Head(pending).result # NULL
              /\ session_tokens' = session_tokens \cup {Token(Head(pending).req, Head(pending).req)}
    BY <1>6 DEF register_request_finish
  <2>2. Head(pending).result # NULL => IsUser(Head(pending).req)
    BY <1>6, <2>1, CallbackFacts DEF IInv, Evidence
  <2> QED BY <1>4, <1>6, <2>1, <2>2
<1>7. CASE ~crashed /\ login_request_finish
  <2> DEFINE result == Head(pending).result
  <2>1. /\ Callback("login") /\ Resolve(Head(pending).req) /\ UNCHANGED jobs
        /\ \/ session_tokens' = session_tokens
           \/ /\ result \notin {NULL, <<>>}
              /\ session_tokens' = session_tokens \cup {Token(Head(pending).req, result[1].oid)}
    BY <1>7 DEF login_request_finish, PasswordMatches
  <2>2. Head(pending) \in Elems(pending) /\ Head(pending).cb = "login"
    BY <1>7, <2>1, CallbackFacts
  <2>3. result \notin {NULL, <<>>} => IsUser(result[1].oid)
    BY <2>2 DEF IInv, Evidence, IsUser
  <2> HIDE DEF result
  <2> QED BY <1>4, <1>7, <2>1, <2>3
<1> QED BY <1>1, <1>2, <1>3, <1>5, <1>6, <1>7 DEF Next, Loop

-----------------------------------------------------------------------------
(* What operations, results, users and sessions say is what was asked. *)
LEMMA AskFacts ==
  ASSUME IInv, ~crashed, NEW a \in Addresses, NEW body \in Bodies, message_handler(a, body),
         NEW new, new = Len(requests) + 1
  PROVE  /\ new \in RequestIds /\ new \notin 1..Len(requests)
         /\ Len(requests') = new /\ 1..new = (1..Len(requests)) \cup {new}
         /\ \A r \in 1..Len(requests) : requests'[r] = requests[r]
         /\ requests'[new].ctx = a /\ requests'[new].origin = owner[a]
         /\ requests'[new].body = body
         /\ requests'[new].since = {r \in 1..Len(requests) : Answered(r)}
<1> DEFINE req == [ctx |-> a, origin |-> owner[a], body |-> body,
                   since |-> {r \in 1..Len(requests) : Answered(r)}]
<1> USE RequestsAssumption DEF IInv
<1>1. requests' = Append(requests, req) /\ owner[a] # NULL /\ Len(requests) < MaxRequests
  BY DEF message_handler
<1>2. requests \in Seq(Request) /\ Len(requests) \in Nat /\ new \in RequestIds
  BY <1>1 DEF Types, RequestIds
<1>3. req \in Request /\ req.body = body /\ req.ctx = a /\ req.origin = owner[a]
      /\ req.since = {r \in 1..Len(requests) : Answered(r)}
  BY <1>1, <1>2 DEF Types, Request, RequestIds
<1> HIDE DEF req
<1>4. /\ Len(requests') = new
      /\ \A r \in 1..Len(requests) : requests'[r] = requests[r]
      /\ requests'[new] = req
  BY <1>1, <1>2, <1>3, AppendFacts
<1>5. new \notin 1..Len(requests) /\ 1..new = (1..Len(requests)) \cup {new}
  BY <1>2
<1> QED BY <1>2, <1>3, <1>4, <1>5

LEMMA InitTruthful == Init => Truthful
  BY DEF Init, RequestsInit, Truthful, SessionsEarned, Elems

\* A new request has no user and no session; its lookup calls its handler back.
LEMMA AskTruthful ==
  ASSUME IInv, Truthful, ~crashed, NEW a \in Addresses, NEW body \in Bodies,
         request_handler(a, body)
  PROVE  Truthful'
<1> USE DEF Truthful
<1>new. PICK new : new = Len(requests) + 1
  OBVIOUS
<1>1. message_handler(a, body) /\ UNCHANGED <<users, session_tokens, pending>>
  BY DEF request_handler, message_handler
<1>2. /\ new \notin 1..Len(requests) /\ Len(requests') = new
      /\ 1..new = (1..Len(requests)) \cup {new}
      /\ \A r \in 1..Len(requests) : requests'[r] = requests[r]
      /\ requests'[new].body = body
  BY <1>1, <1>new, AskFacts
<1>3. /\ \A x \in Elems(jobs) \cup Elems(pending) : x.req \in 1..Len(requests)
      /\ \A u \in Elems(users) : u.oid \in 1..Len(requests)
      /\ new \in RequestIds
  BY <1>1, <1>new, UnderWay, AskFacts DEF IInv, LetThrough
<1>4. \/ Elems(jobs') = Elems(jobs)
      \/ \E x : Elems(jobs') = Elems(jobs) \cup {x} /\ x.req = new /\ x.cb = body.kind
  <2>1. CASE jobs' = jobs
    BY <2>1 DEF Elems
  <2>2. CASE Lookup(new, body.kind)
    <3> DEFINE job == [req |-> new, operation |-> "QUERY", cb |-> body.kind]
    <3>1. job \in Job /\ job.req = new /\ job.cb = body.kind
      BY <1>3 DEF Job, Bodies
    <3>2. jobs \in Seq(Job) /\ jobs' = Append(jobs, job)
      BY <2>2 DEF IInv, Types, Lookup, database_operation
    <3> HIDE DEF job
    <3>3. Elems(jobs') = Elems(jobs) \cup {job}
      BY <3>1, <3>2, PutFacts
    <3> QED BY <3>1, <3>3
  <2>3. jobs' = jobs \/ Lookup(new, body.kind)
    BY <1>new DEF request_handler, invalid_packet_handler
  <2> QED BY <2>1, <2>2, <2>3
<1>5. \A x \in Elems(jobs') \cup Elems(pending') :
        x.cb = "login" <=> requests'[x.req].body.kind = "login"
  BY <1>1, <1>2, <1>3, <1>4
<1>6. \A p \in Elems(pending') :
        p.cb # "inserted" /\ p.result \notin {NULL, <<>>}
          => p.result[1].username = requests'[p.req].body.username
  BY <1>1, <1>2, <1>3
<1>7. \A u \in Elems(users') :
        /\ u.password = requests'[u.oid].body.password
        /\ ~In(jobs', u.oid)
        /\ \A p \in Elems(pending') : p.req = u.oid => p.cb = "inserted"
  BY <1>1, <1>2, <1>3, <1>4 DEF In
<1>8. (\A t \in session_tokens' : t.token \in 1..Len(requests')) /\ SessionsEarned'
  BY <1>1, <1>2 DEF SessionsEarned
<1> QED BY <1>5, <1>6, <1>7, <1>8

\* The lookup finds users of the name only; the insert comes once for a request.
LEMMA DatabaseTruthful ==
  ASSUME IInv, Truthful, Database
  PROVE  Truthful'
<1> USE DEF Truthful
<1>job. PICK job : job = Head(jobs)
  OBVIOUS
<1>r. PICK r : r = job.req
  OBVIOUS
<1>doc. PICK doc : doc = Document(r)
  OBVIOUS
<1>1. /\ UNCHANGED <<requests, session_tokens>>
      /\ job \in Job /\ job \in Elems(jobs)
      /\ Elems(jobs') \subseteq Elems(jobs)
      /\ ~In(jobs', r) /\ \A q : q # r => (In(jobs', q) <=> In(jobs, q))
      /\ In(jobs, r) /\ ~In(pending, r)
      /\ doc.oid = r /\ doc.password = requests[r].body.password
  BY <1>job, <1>r, <1>doc, DatabaseFacts
<1>2. PICK fin \in Finished : Does(job, fin)
  BY <1>job, <1>r, DatabaseFacts
<1>3. fin.req = r /\ fin.cb = job.cb /\ Elems(pending') = Elems(pending) \cup {fin}
  BY <1>r, <1>2 DEF Does
<1>4. users' = users \/ (job.operation = "INSERT" /\ Elems(users') = Elems(users) \cup {doc})
  BY <1>r, <1>doc, <1>2 DEF Does
<1>5. /\ job.cb = "inserted" <=> job.operation = "INSERT"
      /\ job.operation \in {"QUERY", "INSERT"}
  BY <1>1 DEF IInv, Evidence, Job
<1>6. \A x \in Elems(jobs') \cup Elems(pending') :
        x.cb = "login" <=> requests'[x.req].body.kind = "login"
  BY <1>1, <1>3, <1>r
<1>7. ASSUME NEW p \in Elems(pending'), p.cb # "inserted", p.result \notin {NULL, <<>>}
      PROVE  p.result[1].username = requests'[p.req].body.username
  <2>1. CASE p \in Elems(pending)
    BY <1>1, <1>7, <2>1
  <2>2. CASE p = fin
    BY <1>1, <1>2, <1>3, <1>5, <1>7, <1>r, <2>2 DEF Does
  <2> QED BY <1>3, <2>1, <2>2
<1>8. ASSUME NEW u \in Elems(users')
      PROVE  /\ u.password = requests'[u.oid].body.password
             /\ ~In(jobs', u.oid)
             /\ \A p \in Elems(pending') : p.req = u.oid => p.cb = "inserted"
  <2>1. CASE u \in Elems(users)
    <3>1. u.oid # r
      BY <1>1, <2>1
    <3> QED BY <1>1, <1>3, <2>1, <3>1
  <2>2. CASE u = doc /\ job.operation = "INSERT"
    <3>1. \A p \in Elems(pending) : p.req # r
      BY <1>1 DEF In
    <3> QED BY <1>1, <1>3, <1>5, <2>2, <3>1
  <2> QED BY <1>4, <2>1, <2>2
<1>9. (\A t \in session_tokens' : t.token \in 1..Len(requests')) /\ SessionsEarned'
  <2>1. Elems(users) \subseteq Elems(users')
    BY <1>4
  <2> QED BY <1>1, <2>1 DEF SessionsEarned
<1> QED BY <1>6, <1>7, <1>8, <1>9

\* The user that a session for request r may be given for.
Earns(r, u) ==
  /\ u \in Elems(users)
  /\ u.username = requests[r].body.username
  /\ u.password = requests[r].body.password
  /\ requests[r].body.kind = "register" => u.oid = r

\* The end of a callback that answers: with a session or without.
Ends(r) ==
  /\ Resolve(r) /\ UNCHANGED jobs
  /\ \/ session_tokens' = session_tokens
     \/ \E u : Earns(r, u) /\ session_tokens' = session_tokens \cup {Token(r, u.oid)}

LEMMA EndsTruthful ==
  ASSUME IInv, Truthful, ~crashed, NEW cb, Callback(cb), NEW r, r = Head(pending).req, Ends(r)
  PROVE  Truthful'
<1> USE DEF Truthful
<1>1. /\ UNCHANGED <<requests, users, jobs>>
      /\ Elems(pending') \subseteq Elems(pending)
      /\ r \in 1..Len(requests)
  BY CallbackFacts DEF Ends
<1>2. (\A t \in session_tokens' : t.token \in 1..Len(requests')) /\ SessionsEarned'
  BY <1>1 DEF Ends, Earns, Token, SessionsEarned
<1> QED BY <1>1, <1>2

\* A registration goes on to its insert while it has no user.
LEMMA GoOnTruthful ==
  ASSUME IInv, Truthful, ~crashed, Callback("register"), NEW r, r = Head(pending).req,
         database_operation(r, "INSERT", "inserted"), UNCHANGED session_tokens
  PROVE  Truthful'
<1> USE DEF Truthful
<1> DEFINE job == [req |-> r, operation |-> "INSERT", cb |-> "inserted"]
<1>1. /\ UNCHANGED <<requests, users>>
      /\ Head(pending) \in Elems(pending) /\ Head(pending).cb = "register"
      /\ Elems(pending') \subseteq Elems(pending)
      /\ r \in RequestIds
  BY CallbackFacts
<1>2. job \in Job /\ job.req = r /\ job.cb = "inserted" /\ jobs' = Append(jobs, job)
      /\ jobs \in Seq(Job)
  BY <1>1 DEF Job, database_operation, IInv, Types
<1> HIDE DEF job
<1>3. Elems(jobs') = Elems(jobs) \cup {job} /\ \A q : In(jobs', q) <=> In(jobs, q) \/ q = r
  BY <1>2, PutFacts
<1>4. \A x \in Elems(jobs') \cup Elems(pending') :
        x.cb = "login" <=> requests'[x.req].body.kind = "login"
  BY <1>1, <1>2, <1>3
<1>5. \A u \in Elems(users') :
        /\ u.password = requests'[u.oid].body.password
        /\ ~In(jobs', u.oid)
        /\ \A p \in Elems(pending') : p.req = u.oid => p.cb = "inserted"
  BY <1>1, <1>3
<1>6. SessionsEarned'
  BY <1>1 DEF SessionsEarned
<1> QED BY <1>1, <1>4, <1>5, <1>6

\* Every way out of a callback: the answer, or the insert.
LEMMA LoopCases ==
  ASSUME IInv, Truthful, Loop
  PROVE  /\ ~crashed
         /\ \E cb, r : /\ Callback(cb) /\ r = Head(pending).req
                       /\ \/ Ends(r)
                          \/ /\ cb = "register" /\ database_operation(r, "INSERT", "inserted")
                             /\ UNCHANGED <<answers, crashed, allocated, session_tokens>>
<1>0. ~crashed
  BY DEF Loop
<1>r. PICK r : r = Head(pending).req
  OBVIOUS
<1>res. PICK result : result = Head(pending).result
  OBVIOUS
<1>1. ASSUME NEW cb, Callback(cb)
      PROVE  /\ Head(pending) \in Elems(pending) /\ Head(pending).cb = cb
             /\ requests[r].body.kind \in {"register", "login"}
             /\ cb = "login" <=> requests[r].body.kind = "login"
             /\ r \in 1..Len(requests)
  <2>1. /\ Head(pending) \in Elems(pending) /\ Head(pending).cb = cb
        /\ requests[r] \in Request /\ r \in 1..Len(requests)
    BY <1>0, <1>1, <1>r, CallbackFacts
  <2> QED BY <1>r, <2>1 DEF Truthful, Request, Bodies
<1>2. CASE register_request_continue
  BY <1>0, <1>2, <1>r DEF register_request_continue, Ends
<1>3. CASE register_request_finish
  <2>1. /\ Callback("inserted") /\ Resolve(r) /\ UNCHANGED jobs
        /\ \/ session_tokens' = session_tokens
           \/ result # NULL /\ session_tokens' = session_tokens \cup {Token(r, r)}
    BY <1>3, <1>r, <1>res DEF register_request_finish
  <2>2. result # NULL => \E u : Earns(r, u) /\ u.oid = r
    <3> SUFFICES ASSUME result # NULL PROVE \E u : Earns(r, u) /\ u.oid = r
      OBVIOUS
    <3>1. PICK u \in Elems(users) : u.oid = r
      BY <1>1, <1>r, <1>res, <2>1 DEF IInv, Evidence, IsUser
    <3>2. u.username = requests[r].body.username /\ u.password = requests[r].body.password
      BY <3>1 DEF IInv, LetThrough, Truthful
    <3> QED BY <3>1, <3>2 DEF Earns
  <2> QED BY <1>0, <1>r, <2>1, <2>2 DEF Ends
<1>4. CASE login_request_finish
  <2>1. /\ Callback("login") /\ Resolve(r) /\ UNCHANGED jobs
        /\ \/ session_tokens' = session_tokens
           \/ /\ result \notin {NULL, <<>>} /\ result[1].password = requests[r].body.password
              /\ session_tokens' = session_tokens \cup {Token(r, result[1].oid)}
    BY <1>4, <1>r, <1>res DEF login_request_finish, PasswordMatches
  <2>2. result \notin {NULL, <<>>} /\ result[1].password = requests[r].body.password
          => Earns(r, result[1])
    BY <1>1, <1>r, <1>res, <2>1 DEF IInv, Evidence, Truthful, Earns
  <2> QED BY <1>0, <1>r, <2>1, <2>2 DEF Ends
<1> QED BY <1>0, <1>2, <1>3, <1>4 DEF Loop

LEMMA NextTruthful == IInv /\ Truthful /\ [Next]_vars => Truthful'
<1> SUFFICES ASSUME IInv, Truthful, [Next]_vars PROVE Truthful'
  OBVIOUS
<1>1. CASE UNCHANGED <<requests, jobs, pending, users, session_tokens>>
  BY <1>1 DEF Truthful, SessionsEarned
<1>2. CASE Loop
  BY <1>2, LoopCases, EndsTruthful, GoOnTruthful
<1>3. CASE Database
  BY <1>3, DatabaseTruthful
<1>4. CASE Clients
  <2>1. CASE /\ \E a \in Addresses : accept_connection_cb(a) \/ clean_up(a)
             /\ UNCHANGED <<users, session_tokens>>
    BY <1>1, <2>1 DEF accept_connection_cb, clean_up
  <2> QED BY <1>4, <2>1, AskTruthful DEF Clients
<1> QED BY <1>1, <1>2, <1>3, <1>4 DEF Next, vars, rvars

-----------------------------------------------------------------------------
THEOREM Invariance == Spec => []IInv
  BY InitIInv, NextIInv, PTL DEF Spec

\* The tables, the queues and the answers keep their types.
THEOREM TypeCorrect == Spec => []TypeOK
  BY Invariance, TypesTypeOK, PTL DEF IInv

\* A name that was taken when a registration came in is not given to it.
THEOREM NamesRefused == Spec => []TakenNamesRefused
<1>1. IInv => TakenNamesRefused
  <2> SUFFICES ASSUME IInv, NEW d \in 1..Len(users), NEW e \in 1..Len(users),
                      users[d].username = users[e].username
               PROVE  users[d].oid \notin requests[users[e].oid].since
    BY DEF TakenNamesRefused
  <2>1. users[d] \in Elems(users) /\ users[e] \in Elems(users)
    BY DEF Elems
  <2> QED BY <2>1 DEF IInv, LetThrough, Clear
<1> QED BY <1>1, Invariance, PTL

\* With patient clients an answer goes nowhere but to where its request came from.
THEOREM AnswersReachOrigin ==
  ASSUME Patient
  PROVE  Spec => []AnswersGoToOrigin
<1>1. IInv => AnswersGoToOrigin
  BY DEF IInv, Home
<1> QED BY <1>1, Invariance, PTL

\* A queue in which a request is once at most holds it once if at all.
LEMMA CountOnce ==
  ASSUME NEW S, NEW s \in Seq(S), Once(s), NEW r
  PROVE  Cardinality({i \in 1..Len(s) : s[i].req = r}) = IF In(s, r) THEN 1 ELSE 0
<1> DEFINE places == {i \in 1..Len(s) : s[i].req = r}
<1>1. CASE In(s, r)
  <2>1. PICK i \in 1..Len(s) : s[i].req = r
    BY <1>1 DEF In, Elems
  <2>2. places = {i}
    BY <2>1 DEF Once
  <2> QED BY <1>1, <2>2, FS_Singleton
<1>2. CASE ~In(s, r)
  <2>1. places = {}
    BY <1>2 DEF In, Elems
  <2> QED BY <1>2, <2>1, FS_EmptySet
<1> QED BY <1>1, <1>2

\* Every request has one operation under way or has its one answer, never both,
\* and its context lives exactly as long as it waits.
THEOREM AnsweredOnce == Spec => []OneAnswer
<1>1. IInv => OneAnswer
  <2> SUFFICES ASSUME IInv, ~crashed, NEW r \in 1..Len(requests)
               PROVE  Served(r) = 1 /\ (r \in allocated <=> ~Answered(r))
    BY DEF OneAnswer
  <2>1. /\ r \in RequestIds /\ jobs \in Seq(Job) /\ pending \in Seq(Finished)
        /\ answers[r] \in Seq(1..MaxConns)
    BY UnderWay DEF IInv, Types
  <2>2. OneOperation
    BY DEF IInv
  <2>3. r \in allocated <=> ~Answered(r)
    BY <2>2 DEF OneOperation, Answered
  <2>4. Len(answers[r]) = IF r \in allocated THEN 0 ELSE 1
    BY <2>1, <2>2, EmptySeq DEF OneOperation
  <2>5. /\ Cardinality({j \in 1..Len(jobs) : jobs[j].req = r}) = IF In(jobs, r) THEN 1 ELSE 0
        /\ Cardinality({i \in 1..Len(pending) : pending[i].req = r})
             = IF In(pending, r) THEN 1 ELSE 0
    BY <2>1, <2>2, CountOnce DEF OneOperation
  <2>6. /\ r \in allocated <=> In(jobs, r) \/ In(pending, r)
        /\ ~ (In(jobs, r) /\ In(pending, r))
    BY <2>1, <2>2 DEF OneOperation
  <2> QED BY <2>3, <2>4, <2>5, <2>6 DEF Served
<1> QED BY <1>1, Invariance, PTL

\* A session is for a user whose name and password its request gave, whichever
\* operations failed.
THEOREM SessionsAreEarned == Spec => []SessionsEarned
<1>1. IInv /\ Truthful /\ [Next]_vars => Truthful'
  BY NextTruthful
<1>2. Truthful => SessionsEarned
  BY DEF Truthful
<1> QED BY <1>1, <1>2, InitTruthful, Invariance, PTL DEF Spec

-----------------------------------------------------------------------------
(* Accounts implements AccountService. *)
Mapped == [body : Bodies, since : SUBSET RequestIds]

LEMMA AskedFacts ==
  ASSUME IInv
  PROVE  /\ Asked \in Seq(Mapped) /\ Len(Asked) = Len(requests)
         /\ \A r \in 1..Len(requests) : /\ Asked[r].body = requests[r].body
                                        /\ Asked[r].since = requests[r].since
<1>1. Len(requests) \in Nat /\ \A r \in 1..Len(requests) : requests[r] \in Request
  BY SeqFacts DEF IInv, Types
<1>2. \A r \in 1..Len(requests) :
        [body |-> requests[r].body, since |-> requests[r].since] \in Mapped
  BY <1>1 DEF Request, Mapped
<1> QED BY <1>1, <1>2 DEF Asked

\* A request under way is open, and the members of its name are its users.
LEMMA OpenFacts ==
  ASSUME IInv, ~crashed, NEW r \in allocated
  PROVE  /\ r \in Abstract!Open
         /\ Abstract!Named(r) = {u \in Elems(users) : u.username = requests[r].body.username}
         /\ Asked[r].body = requests[r].body /\ Asked[r].since = requests[r].since
<1>1. r \in 1..Len(requests)
  BY UnderWay
<1>2. Members = Elems(users)
  BY DEF Members, Elems
<1> QED BY <1>1, <1>2, AskedFacts DEF Abstract!Open, Abstract!Named, Resolved

\* A packet is a request; one that lacks a field is refused at once.
LEMMA AskRefines ==
  ASSUME IInv, ~crashed, NEW a \in Addresses, NEW body \in Bodies, request_handler(a, body)
  PROVE  Abstract!Ask(body)
<1>new. PICK new : new = Len(requests) + 1
  OBVIOUS
<1> DEFINE rec == [body |-> body, since |-> Resolved]
<1>1. message_handler(a, body) /\ UNCHANGED <<users, session_tokens>>
  BY DEF request_handler
<1>2. /\ new \in RequestIds /\ new \notin 1..Len(requests)
      /\ Len(requests') = new /\ 1..new = (1..Len(requests)) \cup {new}
      /\ \A r \in 1..Len(requests) : requests'[r] = requests[r]
      /\ requests'[new].body = body
      /\ requests'[new].since = {r \in 1..Len(requests) : Answered(r)}
  BY <1>1, <1>new, AskFacts
<1>3. /\ Len(requests) \in Nat /\ 1..Len(requests) \subseteq RequestIds
      /\ allocated \subseteq 1..Len(requests)
  BY UnderWay
<1>4. requests'[new].since = Resolved
  BY <1>2 DEF Answered, Resolved, IInv, OneOperation
<1>5. Asked' = Append(Asked, rec)
  <2>1. rec \in Mapped
    BY <1>3 DEF Mapped, Resolved
  <2>2. /\ Asked \in Seq(Mapped) /\ Len(Asked) = Len(requests)
        /\ \A r \in 1..Len(requests) :
             Asked[r] = [body |-> requests[r].body, since |-> requests[r].since]
    BY AskedFacts DEF Asked
  <2>3. /\ Append(Asked, rec) \in Seq(Mapped) /\ Len(Append(Asked, rec)) = new
        /\ \A r \in 1..Len(requests) : Append(Asked, rec)[r] = Asked[r]
        /\ Append(Asked, rec)[new] = rec
    <3> HIDE DEF rec
    <3> QED BY <1>new, <2>1, <2>2, AppendFacts
  <2>4. /\ \A r \in 1..new : Asked'[r] = Append(Asked, rec)[r]
        /\ Asked' = [r \in 1..new |-> Asked'[r]]
    <3>1. Asked' = [r \in 1..new |->
                      [body |-> requests'[r].body, since |-> requests'[r].since]]
      BY <1>2 DEF Asked
    <3> QED BY <1>2, <1>4, <2>2, <2>3, <3>1
  <2>5. Asked' \in Seq(Mapped) /\ Len(Asked') = new
    <3>1. new \in Nat
      BY <1>3, <1>new
    <3>2. \A r \in 1..new : Asked'[r] \in Mapped
      BY <2>3, <2>4
    <3> DEFINE asked == Asked'
    <3>3. asked = [r \in 1..new |-> asked[r]] /\ \A r \in 1..new : asked[r] \in Mapped
      BY <2>4, <3>2
    <3> HIDE DEF asked
    <3>4. asked \in Seq(Mapped) /\ Len(asked) = new
      BY <3>1, <3>3
    <3> QED BY <3>4 DEF asked
  <2> HIDE DEF rec
  <2> QED BY <2>3, <2>4, <2>5, SeqEqual
<1>6. Resolved' \in {Resolved, Resolved \cup {new}}
  <2>1. allocated' = allocated \cup {new} \/ allocated' = allocated
    BY <1>new DEF request_handler, Lookup, invalid_packet_handler
  <2> QED BY <1>2, <1>3, <2>1 DEF Resolved
<1>7. Len(Asked) = Len(requests)
  BY AskedFacts
<1> QED BY <1>1, <1>5, <1>6, <1>7, <1>new DEF Abstract!Ask, Members

\* An insert that takes place registers its user, whatever its result will be.
LEMMA DatabaseRefines ==
  ASSUME IInv, Truthful, Database
  PROVE  (\E r \in Abstract!Open : Abstract!Register(r)) \/ UNCHANGED Abstract!vars
<1>job. PICK job : job = Head(jobs)
  OBVIOUS
<1>r. PICK r : r = job.req
  OBVIOUS
<1>1. /\ ~crashed /\ UNCHANGED <<requests, allocated, session_tokens>>
      /\ job \in Job /\ job \in Elems(jobs)
      /\ r \in allocated /\ In(jobs, r)
      /\ requests[r] \in Request
  BY <1>job, <1>r, DatabaseFacts
<1>2. PICK fin \in Finished : Does(job, fin)
  BY <1>job, <1>r, DatabaseFacts
<1>3. Asked' = Asked /\ Resolved' = Resolved
  BY <1>1 DEF Asked, Resolved
<1>4. CASE users' = users
  <2>1. Members' = Members
    BY <1>4 DEF Members
  <2> QED BY <1>1, <1>3, <2>1 DEF Abstract!vars
<1>5. CASE job.operation = "INSERT" /\ Elems(users') = Elems(users) \cup {Document(r)}
  <2>1. requests[r].body.kind = "register"
    <3>1. job.cb = "inserted"
      BY <1>1, <1>5 DEF IInv, Evidence
    <3> QED BY <1>1, <1>r, <3>1 DEF Truthful, Request, Bodies
  <2>2. \A u \in Elems(users) :
          u.username = requests[r].body.username => u.oid # r /\ u.oid \notin requests[r].since
    BY <1>1, <1>5, <1>r DEF Truthful, IInv, LetThrough, Clear
  <2>3. Members' = Members \cup {Document(r)}
    <3>1. Members = Elems(users) /\ Members' = Elems(users')
      BY DEF Members, Elems
    <3> QED BY <1>5, <3>1
  <2>4. /\ r \in Abstract!Open
        /\ Abstract!Named(r) = {u \in Elems(users) : u.username = requests[r].body.username}
        /\ Asked[r].body = requests[r].body /\ Asked[r].since = requests[r].since
    BY <1>1, OpenFacts
  <2>5. Abstract!Register(r)
    BY <1>1, <1>3, <2>1, <2>2, <2>3, <2>4 DEF Abstract!Register, Document
  <2> QED BY <2>4, <2>5
<1> QED BY <1>2, <1>4, <1>5, <1>r DEF Does

\* A callback that answers grants the request or refuses it.
LEMMA EndsRefines ==
  ASSUME IInv, ~crashed, NEW cb, Callback(cb), NEW r, r = Head(pending).req, Ends(r)
  PROVE  r \in Abstract!Open /\ (Abstract!Grant(r) \/ Abstract!Refuse(r))
<1>1. UNCHANGED <<requests, users>> /\ r \in allocated /\ r \in 1..Len(requests)
  BY CallbackFacts
<1>2. /\ r \in Abstract!Open
      /\ Abstract!Named(r) = {u \in Elems(users) : u.username = requests[r].body.username}
      /\ Asked[r].body = requests[r].body
  BY <1>1, OpenFacts
<1>3. Asked' = Asked /\ Members' = Members
  BY <1>1 DEF Asked, Members
<1>4. Resolved' = Resolved \cup {r}
  BY <1>1 DEF Resolved, Ends, Resolve
<1>5. CASE session_tokens' = session_tokens
  BY <1>2, <1>3, <1>4, <1>5 DEF Abstract!Refuse
<1>6. CASE \E u : Earns(r, u) /\ session_tokens' = session_tokens \cup {Token(r, u.oid)}
  BY <1>2, <1>3, <1>4, <1>6 DEF Abstract!Grant, Earns, Token
<1> QED BY <1>2, <1>5, <1>6 DEF Ends

\* Registration and login serve every request as AccountService does: the lookup,
\* the insert and the callbacks of other requests between them never show.
THEOREM AccountsImplementService == Spec => ImplementsAccountService
<1>1. Init => Abstract!Init
  <2> SUFFICES ASSUME Init PROVE Abstract!Init
    OBVIOUS
  <2>1. requests = <<>> /\ users = <<>> /\ session_tokens = {} /\ 1..Len(<<>>) = {}
    BY DEF Init, RequestsInit
  <2>2. Asked = <<>> /\ Resolved = {} /\ Members = {}
    BY <2>1 DEF Asked, Resolved, Members
  <2> QED BY <2>1, <2>2 DEF Abstract!Init
<1>2. IInv /\ Truthful /\ [Next]_vars => [Abstract!Next]_Abstract!vars
  <2> SUFFICES ASSUME IInv, Truthful, [Next]_vars
               PROVE  Abstract!Next \/ UNCHANGED Abstract!vars
    OBVIOUS
  <2>1. CASE UNCHANGED <<requests, allocated, users, session_tokens>>
    BY <2>1 DEF Abstract!vars, Asked, Resolved, Members
  <2>2. CASE Loop
    <3>1. ~crashed
      BY <2>2, LoopCases
    <3>2. PICK cb, r : /\ Callback(cb) /\ r = Head(pending).req
                       /\ \/ Ends(r)
                          \/ UNCHANGED <<allocated, session_tokens>>
      BY <2>2, LoopCases
    <3>3. CASE Ends(r)
      BY <3>1, <3>2, <3>3, EndsRefines DEF Abstract!Next
    <3>4. CASE UNCHANGED <<allocated, session_tokens>>
      BY <2>1, <3>2, <3>4 DEF Callback
    <3> QED BY <3>2, <3>3, <3>4
  <2>3. CASE Database
    BY <2>3, DatabaseRefines DEF Abstract!Next
  <2>4. CASE Clients
    <3>1. CASE /\ \E a \in Addresses : accept_connection_cb(a) \/ clean_up(a)
               /\ UNCHANGED <<users, session_tokens>>
      BY <2>1, <3>1 DEF accept_connection_cb, clean_up
    <3>2. CASE \E a \in Addresses, body \in Bodies : request_handler(a, body)
      BY <2>4, <3>2, AskRefines DEF Clients, Abstract!Next
    <3> QED BY <2>4, <3>1, <3>2 DEF Clients
  <2> QED BY <2>1, <2>2, <2>3, <2>4 DEF Next, vars, rvars
<1>3. IInv /\ Truthful /\ [Next]_vars => Truthful'
  BY NextTruthful
<1> QED BY <1>1, <1>2, <1>3, InitTruthful, Invariance, PTL
        DEF Spec, ImplementsAccountService, Abstract!Spec

-----------------------------------------------------------------------------
(* Clients that leave before their answer *)
Gone(r) == \A a \in Addresses : owner[a] # Origin(r)

\* An answer that reaches another connection, and the use of a freed context, come
\* of a client that left.
StraysFollowEnds ==
  /\ \A r \in 1..Len(requests) : \A i \in 1..Len(answers[r]) :
       answers[r][i] = Origin(r) \/ Gone(r)
  /\ crashed => \E r \in 1..Len(requests) : Gone(r)

\* A connection has one context, and a request points at that of its own as long as
\* the connection lasts: numbers of connections are not given out again.
Placed ==
  /\ \A a, b \in Addresses : owner[a] # NULL /\ owner[a] = owner[b] => a = b
  /\ \A a \in Addresses : owner[a] # NULL => owner[a] <= accepted
  /\ \A r \in 1..Len(requests) :
       /\ Origin(r) \in 1..accepted
       /\ \A a \in Addresses : owner[a] = Origin(r) => a = requests[r].ctx

Followed == Placed /\ StraysFollowEnds

\* What is gone stays gone when connections come and go.
LEMMA ConnectionFollowed ==
  ASSUME IInv, Followed, NEW a \in Addresses, accept_connection_cb(a) \/ clean_up(a)
  PROVE  Followed'
<1> USE RequestsAssumption DEF IInv, Types, Followed, Placed
<1>1. /\ UNCHANGED <<requests, answers, crashed>>
      /\ owner \in [Addresses -> (1..MaxConns) \cup {NULL}] /\ accepted \in Nat
      /\ \/ owner' = [owner EXCEPT ![a] = accepted + 1] /\ accepted' = accepted + 1
         \/ owner' = [owner EXCEPT ![a] = NULL] /\ accepted' = accepted
  BY DEF accept_connection_cb, clean_up
<1>2. \A r \in 1..Len(requests) : Origin(r)' = Origin(r) /\ Origin(r) \in 1..accepted
  BY <1>1 DEF Origin
<1>3. CASE owner' = [owner EXCEPT ![a] = accepted + 1] /\ accepted' = accepted + 1
  <2>1. \A b \in Addresses : /\ owner'[b] = IF b = a THEN accepted + 1 ELSE owner[b]
                             /\ owner[b] \in Nat => owner[b] <= accepted
                             /\ owner[b] \in Nat \/ owner[b] = NULL
    BY <1>1, <1>3
  <2>2. Placed'
    BY <1>1, <1>2, <1>3, <2>1
  <2>3. \A r \in 1..Len(requests) : Gone(r) => Gone(r)'
    BY <1>2, <2>1 DEF Gone
  <2> QED BY <1>1, <1>2, <2>2, <2>3 DEF StraysFollowEnds
<1>4. CASE owner' = [owner EXCEPT ![a] = NULL] /\ accepted' = accepted
  <2>1. \A b \in Addresses : owner'[b] = IF b = a THEN NULL ELSE owner[b]
    BY <1>1, <1>4
  <2>2. \A r \in 1..Len(requests) : Origin(r) # NULL
    BY <1>1, <1>2
  <2>3. Placed'
    BY <1>1, <1>2, <1>4, <2>1, <2>2
  <2>4. \A r \in 1..Len(requests) : Gone(r) => Gone(r)'
    BY <1>2, <2>1, <2>2 DEF Gone
  <2> QED BY <1>1, <1>2, <2>3, <2>4 DEF StraysFollowEnds
<1> QED BY <1>1, <1>3, <1>4

\* A request comes from the connection that has its context.
LEMMA AskFollowed ==
  ASSUME IInv, ~crashed, Followed, NEW a \in Addresses, NEW body \in Bodies,
         request_handler(a, body)
  PROVE  Followed'
<1>new. PICK new : new = Len(requests) + 1
  OBVIOUS
<1>1. /\ message_handler(a, body) /\ owner[a] # NULL /\ UNCHANGED <<owner, accepted>>
      /\ crashed' = crashed
      /\ answers' = answers \/ answers' = [answers EXCEPT ![new] = <<owner[a]>>]
  BY <1>new DEF request_handler, message_handler, Lookup, invalid_packet_handler
<1>2. /\ new \in RequestIds /\ new \notin 1..Len(requests)
      /\ 1..Len(requests') = (1..Len(requests)) \cup {new}
      /\ \A r \in 1..Len(requests) : requests'[r] = requests[r]
      /\ requests'[new].ctx = a /\ requests'[new].origin = owner[a]
  BY <1>1, <1>new, AskFacts
<1>3. ASSUME NEW r \in 1..Len(requests)
      PROVE  /\ Origin(r)' = Origin(r) /\ answers'[r] = answers[r]
             /\ Gone(r) => Gone(r)'
  <2>1. Origin(r)' = Origin(r)
    BY <1>2 DEF Origin
  <2>2. answers'[r] = answers[r]
    BY <1>1, <1>2, UnderWay DEF IInv, Types
  <2> QED BY <1>1, <2>1, <2>2 DEF Gone
<1>4. owner[a] \in 1..accepted /\ Origin(new)' = owner[a]
  BY <1>1, <1>2, RequestsAssumption DEF Origin, Followed, Placed, IInv, Types
<1>5. Placed'
  BY <1>1, <1>2, <1>3, <1>4 DEF Followed, Placed
<1>6. \A i \in 1..Len(answers'[new]) : answers'[new][i] = owner[a]
  <2>1. answers[new] = <<>> /\ answers \in [RequestIds -> Seq(1..MaxConns)]
    BY <1>2 DEF IInv, Types, OneOperation
  <2>2. Len(<<owner[a]>>) = 1 /\ <<owner[a]>>[1] = owner[a] /\ Len(<<>>) = 0
    OBVIOUS
  <2>3. answers'[new] = <<>> \/ answers'[new] = <<owner[a]>>
    BY <1>1, <1>2, <2>1
  <2> QED BY <2>2, <2>3
<1>7. StraysFollowEnds'
  BY <1>1, <1>2, <1>3, <1>4, <1>6 DEF Followed, StraysFollowEnds
<1> QED BY <1>5, <1>7 DEF Followed

\* Whoever has the context now, if it is not the connection that asked, that is gone.
LEMMA ResolveFollowed ==
  ASSUME IInv, ~crashed, Followed, NEW cb, Callback(cb), NEW r, r = Head(pending).req,
         Resolve(r)
  PROVE  Followed'
<1> DEFINE c == owner[requests[r].ctx]
<1>1. /\ UNCHANGED <<owner, requests, accepted>>
      /\ r \in RequestIds /\ r \in 1..Len(requests)
      /\ requests[r] \in Request /\ answers[r] = <<>>
  BY CallbackFacts
<1>2. \/ c = NULL /\ crashed' = TRUE /\ answers' = answers
      \/ c # NULL /\ crashed' = crashed /\ answers' = [answers EXCEPT ![r] = Append(@, c)]
  BY DEF Resolve, queue_write
<1>3. c = Origin(r) \/ Gone(r)
  BY <1>1 DEF Followed, Placed, Gone, Request
<1>4. Origin(r) # NULL
  BY <1>1, RequestsAssumption DEF Request, Origin
<1> HIDE DEF c
<1>5. /\ Placed'
      /\ \A q : Origin(q)' = Origin(q)
      /\ \A q : Gone(q) => Gone(q)'
  <2>1. \A q : Origin(q)' = Origin(q)
    BY <1>1 DEF Origin
  <2>2. Placed'
    BY <1>1, <2>1 DEF Followed, Placed
  <2>3. ASSUME NEW q, Gone(q) PROVE Gone(q)'
    BY <1>1, <2>1, <2>3 DEF Gone
  <2> QED BY <2>1, <2>2, <2>3
<1>6. CASE c = NULL /\ crashed' = TRUE /\ answers' = answers
  BY <1>1, <1>3, <1>4, <1>5, <1>6 DEF Followed, StraysFollowEnds
<1>7. CASE c # NULL /\ crashed' = crashed /\ answers' = [answers EXCEPT ![r] = Append(@, c)]
  <2>1. /\ answers'[r] = Append(<<>>, c)
        /\ \A q \in 1..Len(requests) : q # r => answers'[q] = answers[q]
    BY <1>1, <1>7 DEF IInv, Types
  <2>2. \A i \in 1..Len(Append(<<>>, c)) : Append(<<>>, c)[i] = c
    OBVIOUS
  <2> QED BY <1>1, <1>3, <1>5, <1>7, <2>1, <2>2 DEF Followed, StraysFollowEnds
<1> QED BY <1>2, <1>6, <1>7

\* No answer goes astray and no freed context is used, however the connections'
\* memory is used again, but for a client that left.
THEOREM StraysComeOfLeaving == Spec => []StraysFollowEnds
<1>1. Init => Followed
  BY RequestsAssumption
     DEF Init, RequestsInit, Followed, Placed, StraysFollowEnds
<1>2. IInv /\ Truthful /\ Followed /\ [Next]_vars => Followed'
  <2> SUFFICES ASSUME IInv, Truthful, Followed, [Next]_vars PROVE Followed'
    OBVIOUS
  <2>1. CASE UNCHANGED <<owner, requests, accepted, answers, crashed>>
    BY <2>1 DEF Followed, Placed, StraysFollowEnds, Gone, Origin
  <2>2. CASE Loop
    <3>1. ~crashed
      BY <2>2, LoopCases
    <3>2. PICK cb, r : /\ Callback(cb) /\ r = Head(pending).req
                       /\ Resolve(r) \/ UNCHANGED <<answers, crashed>>
      BY <2>2, LoopCases DEF Ends
    <3>3. CASE UNCHANGED <<answers, crashed>>
      BY <2>1, <3>2, <3>3 DEF Callback
    <3> QED BY <3>1, <3>2, <3>3, ResolveFollowed
  <2>3. CASE Database
    BY <2>1, <2>3 DEF Database
  <2>4. CASE Clients
    BY <2>4, ConnectionFollowed, AskFollowed DEF Clients
  <2> QED BY <2>1, <2>2, <2>3, <2>4 DEF Next, vars, rvars
<1>3. IInv /\ Truthful /\ [Next]_vars => Truthful'
  BY NextTruthful
<1>4. Followed => StraysFollowEnds
  BY DEF Followed
<1> QED BY <1>1, <1>2, <1>3, <1>4, InitTruthful, Invariance, PTL DEF Spec
=============================================================================
