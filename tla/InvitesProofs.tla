---------------------------- MODULE InvitesProofs ----------------------------
(* What holds of invitations for any number of connections, requests, games    *)
(* and users.                                                                  *)
EXTENDS Invites, Lemmas, TLAPS

Results  == {NULL, <<>>} \cup {<<u>> : u \in Users}
Request  == [ctx : Addresses, origin : 1..MaxConns, body : Bodies, since : SUBSET RequestIds]
Job      == [req : RequestIds, operation : {"QUERY", "INSERT"},
             cb : {"user", "invitee", "inserted"}]
Finished == [req : RequestIds, cb : {"user", "invitee", "inserted"}, result : Results]
Notices  == [what : {"invite", "accept", "decline", "timeout"}, game : RequestIds, to : Users]

Types ==
  /\ owner \in [Addresses -> (1..MaxConns) \cup {NULL}]
  /\ accepted \in 0..MaxConns
  /\ allocated \subseteq RequestIds /\ crashed \in BOOLEAN
  /\ requests \in Seq(Request) /\ Len(requests) <= MaxRequests
  /\ jobs \in Seq(Job)
  /\ pending \in Seq(Finished)
  /\ answers \in [RequestIds -> Seq(1..MaxConns)]
  /\ oid \in [Addresses -> Users \cup {NULL}]
  /\ user_document \in [RequestIds -> Users \cup {NULL}]

GameTypes ==
  /\ games \in [RequestIds -> {"none", "pending", "playing", "freed"}]
  /\ timers \subseteq RequestIds /\ active_games \subseteq RequestIds
  /\ stored \subseteq RequestIds /\ granted \subseteq RequestIds
  /\ told \subseteq Notices

\* A request to invite that is allocated has one operation under way and waits for
\* its answer; one that is not has none, and has its one answer.
OneOperation ==
  /\ Once(jobs) /\ Once(pending)
  /\ \A r \in RequestIds : ~ (In(jobs, r) /\ In(pending, r))
  /\ \A r \in RequestIds : r \in allocated <=> In(jobs, r) \/ In(pending, r)
  /\ \A r \in 1..Len(requests) : Asked(r) => (r \in allocated <=> answers[r] = <<>>)
  /\ \A r \in RequestIds : Len(answers[r]) <= 1
  /\ \A r \in RequestIds : r \notin 1..Len(requests) => answers[r] = <<>>

\* A request to invite, made for the user whose client sent it.
Sent(r) == r \in 1..Len(requests) /\ Asked(r) /\ user_document[r] = UserOf[Origin(r)]

\* A context acts for nobody but the user of the connection that has it now.
Acting ==
  /\ \A a \in Addresses : owner[a] # NULL => oid[a] \in {NULL, UserOf[owner[a]]}
  /\ \A r \in allocated : Sent(r)

Evidence ==
  /\ \A p \in Elems(pending) : p.cb = "inserted" /\ p.result # NULL => p.req \in stored
  /\ \A p \in Elems(pending) :
       p.cb = "invitee" /\ p.result \notin {NULL, <<>>} =>
         p.result[1] = requests[p.req].body.name /\ p.result[1] \in Users

\* What a game is made from, and that the table and the timers have no other.
Invitation(g) == Sent(g) /\ requests[g].body.name \in Users
Games ==
  /\ \A g \in RequestIds : games[g] # "none" => Invitation(g)
  /\ \A g \in active_games \cup timers : games[g] # "none"

Told ==
  \A n \in told : /\ Invitation(n.game)
                  /\ n.to \in Players(n.game)
                  /\ n.what = "invite" => n.to = requests[n.game].body.name

Made(g) == g \in stored \/ games[g] # "none"
Real ==
  /\ \A r \in granted : Made(r)
  /\ \A n \in told : \/ crashed \/ Made(n.game)
                     \/ In(jobs, n.game) \/ In(pending, n.game) \/ Answered(n.game)

\* A game whose timer runs has been freed by nothing but an answer.
Spoken == \E r \in 1..Len(requests) : ~Asked(r)
Freed  == (\E g \in timers : games[g] = "freed") => Spoken

\* Patient clients are where their requests came from until they are answered.
Home ==
  Patient => /\ \A r \in allocated : owner[requests[r].ctx] = Origin(r)
             /\ crashed => Spoken /\ \E g \in RequestIds : games[g] = "freed"

\* The inductive invariant.
IInv ==
  /\ Types
  /\ GameTypes
  /\ ~crashed => OneOperation
  /\ Acting
  /\ Evidence
  /\ Games
  /\ Told
  /\ Real
  /\ Freed
  /\ Home

-----------------------------------------------------------------------------
LEMMA BodyFacts ==
  ASSUME NEW b \in Bodies, b.kind = "invite"
  PROVE  b.name \in Users \cup {NULL}
  BY DEF Bodies

LEMMA TypesTypeOK == Types /\ GameTypes => TypeOK
<1> SUFFICES ASSUME Types, GameTypes PROVE TypeOK
  OBVIOUS
<1>1. /\ \A r \in 1..Len(requests) : requests[r] \in Request
      /\ \A j \in 1..Len(jobs) : jobs[j] \in Job
      /\ \A i \in 1..Len(pending) : pending[i] \in Finished
  BY SeqFacts DEF Types
<1>2. \A i \in 1..Len(pending) : pending[i].result \in Results
  BY <1>1 DEF Finished
<1> QED BY <1>1, <1>2 DEF TypeOK, Types, GameTypes, Request, Job, Results, Notices

\* An operation under way belongs to a request that waits for its answer.
LEMMA Waits ==
  ASSUME IInv, ~crashed
  PROVE  /\ \A j \in Elems(jobs) : j \in Job /\ j.req \in allocated
         /\ \A p \in Elems(pending) : p \in Finished /\ p.req \in allocated
         /\ \A r \in allocated : /\ r \in 1..Len(requests) /\ r \in RequestIds
                                 /\ requests[r] \in Request
                                 /\ Asked(r)
                                 /\ answers[r] = <<>>
         /\ Len(requests) \in Nat /\ 1..Len(requests) \subseteq RequestIds
<1>1. /\ \A j \in Elems(jobs) : j \in Job /\ j.req \in RequestIds
      /\ \A p \in Elems(pending) : p \in Finished /\ p.req \in RequestIds
  <2>1. Elems(jobs) \subseteq Job /\ Elems(pending) \subseteq Finished
    BY SeqFacts DEF IInv, Types
  <2> QED BY <2>1 DEF Job, Finished
<1>2. /\ \A r \in 1..Len(requests) : requests[r] \in Request
      /\ Len(requests) \in Nat
  <2>1. requests \in Seq(Request)
    BY DEF IInv, Types
  <2> QED BY <2>1, SeqFacts
<1>3. 1..Len(requests) \subseteq RequestIds
  BY <1>2, RequestsAssumption DEF IInv, Types, RequestIds
<1>4. \A r \in allocated : Sent(r)
  BY DEF IInv, Acting
<1> QED BY <1>1, <1>2, <1>3, <1>4 DEF IInv, OneOperation, In, Sent

LEMMA InitIInv == Init => IInv
<1> SUFFICES ASSUME Init PROVE IInv
  OBVIOUS
<1> USE RequestsAssumption DEF Init, RequestsInit
<1>1. Types
  <2>1. /\ answers \in [RequestIds -> Seq(1..MaxConns)]
        /\ requests \in Seq(Request) /\ jobs \in Seq(Job) /\ pending \in Seq(Finished)
    OBVIOUS
  <2>2. owner \in [Addresses -> (1..MaxConns) \cup {NULL}] /\ accepted \in 0..MaxConns
    OBVIOUS
  <2>3. Len(requests) <= MaxRequests
    OBVIOUS
  <2>4. /\ allocated \subseteq RequestIds /\ crashed \in BOOLEAN
        /\ oid \in [Addresses -> Users \cup {NULL}]
        /\ user_document \in [RequestIds -> Users \cup {NULL}]
    OBVIOUS
  <2> QED BY <2>1, <2>2, <2>3, <2>4, Zenon DEF Types
<1>2. GameTypes
  BY DEF GameTypes
<1>3. OneOperation
  BY DEF OneOperation, Once, In, Elems, RequestIds
<1>4. Acting /\ Evidence
  BY DEF Acting, Evidence, Elems
<1>5. Games /\ Told /\ Real /\ Freed
  BY DEF Games, Told, Real, Freed
<1>6. Home
  BY DEF Home
<1> QED BY <1>1, <1>2, <1>3, <1>4, <1>5, <1>6 DEF IInv

-----------------------------------------------------------------------------
(* What is so of a request stays so *)
Grows ==
  /\ 1..Len(requests) \subseteq 1..Len(requests')
  /\ \A r \in 1..Len(requests) : /\ requests'[r] = requests[r]
                                 /\ user_document'[r] = user_document[r]

LEMMA GrowsFacts ==
  ASSUME Grows
  PROVE  /\ \A r : Sent(r) => Sent(r)'
         /\ \A r : Invitation(r) => Invitation(r)' /\ Players(r)' = Players(r)
         /\ Spoken => Spoken'
<1>1. ASSUME NEW r, Sent(r) PROVE Sent(r)'
  BY <1>1 DEF Grows, Sent, Asked, Origin
<1>2. ASSUME NEW r, Invitation(r) PROVE Invitation(r)' /\ Players(r)' = Players(r)
  BY <1>1, <1>2 DEF Grows, Invitation, Players, Sent
<1>3. ASSUME Spoken PROVE Spoken'
  BY <1>3 DEF Grows, Spoken, Asked
<1> QED BY <1>1, <1>2, <1>3

\* The games are left alone.
LEMMA GamesKept ==
  ASSUME IInv, Grows, UNCHANGED <<games, active_games, timers>>
  PROVE  Games' /\ Freed' /\ (told' = told => Told')
<1>1. Games'
  BY GrowsFacts DEF IInv, Games
<1>2. Freed'
  BY GrowsFacts DEF IInv, Freed
<1>3. told' = told => Told'
  BY GrowsFacts DEF IInv, Told, Grows, Invitation, Sent
<1> QED BY <1>1, <1>2, <1>3

\* An answer or the timer changes a game, and its players are told.
LEMMA GameEnds ==
  ASSUME IInv, Grows, NEW g \in RequestIds, games[g] # "none",
         NEW what \in {"accept", "decline", "timeout"}, NEW s \in {"playing", "freed"},
         told' = told \cup NoticeAll(what, g),
         games' = [games EXCEPT ![g] = s],
         active_games' \subseteq active_games, timers' \subseteq timers,
         UNCHANGED <<stored, granted>>,
         Spoken' \/ g \notin timers'
  PROVE  GameTypes' /\ Games' /\ Told' /\ Freed' /\ (\A q \in RequestIds : Made(q) => Made(q)')
         /\ \A n \in told' : n \in told \/ n.game = g
<1>1. /\ games' \in [RequestIds -> {"none", "pending", "playing", "freed"}]
      /\ games'[g] = s /\ s # "none"
      /\ \A q \in RequestIds : q # g => games'[q] = games[q]
  BY DEF IInv, GameTypes
<1>2. Invitation(g) /\ Players(g) \subseteq Users
  <2>1. Invitation(g)
    BY DEF IInv, Games
  <2>2. user_document[g] \in Users
    <3>1. requests[g] \in Request
      BY <2>1, SeqFacts DEF Invitation, Sent, IInv, Types
    <3> QED BY <2>1, <3>1, InvitesAssumption DEF Invitation, Sent, Origin, Request
  <2> QED BY <2>1, <2>2 DEF Invitation, Players
<1>3. \A n \in NoticeAll(what, g) : /\ n \in Notices /\ n.game = g
                                    /\ n.what = what /\ n.to \in Players(g)
  BY <1>2 DEF NoticeAll, Notice, Notices
<1>4. GameTypes'
  BY <1>1, <1>3 DEF IInv, GameTypes
<1>5. Games'
  BY <1>1, <1>2, GrowsFacts DEF IInv, Games
<1>6. Told'
  <2>1. ASSUME NEW n \in told
        PROVE  /\ Invitation(n.game)' /\ n.to \in Players(n.game)'
               /\ n.what = "invite" => n.to = requests'[n.game].body.name
    BY GrowsFacts DEF IInv, Told, Grows, Invitation, Sent
  <2>2. ASSUME NEW n \in NoticeAll(what, g)
        PROVE  /\ Invitation(n.game)' /\ n.to \in Players(n.game)'
               /\ n.what # "invite"
    BY <1>2, <1>3, GrowsFacts
  <2> QED BY <2>1, <2>2 DEF Told
<1>7. Freed'
  BY <1>1, GrowsFacts DEF IInv, Freed, GameTypes
<1>8. \A q \in RequestIds : Made(q) => Made(q)'
  BY <1>1 DEF Made
<1> QED BY <1>3, <1>4, <1>5, <1>6, <1>7, <1>8

-----------------------------------------------------------------------------
(* Connections *)
LEMMA ConnectionIInv ==
  ASSUME IInv, ~crashed, NEW a \in Addresses, Connect(a) \/ (clean_up(a) /\ UNCHANGED oid),
         UNCHANGED <<gvars, user_document, stored, granted>>
  PROVE  IInv'
<1> USE RequestsAssumption DEF IInv
<1>1. /\ UNCHANGED <<requests, allocated, jobs, pending, crashed, answers>>
      /\ UNCHANGED <<games, active_games, timers, told, user_document, stored, granted>>
      /\ \/ /\ owner' = [owner EXCEPT ![a] = accepted + 1] /\ owner[a] = NULL
            /\ accepted < MaxConns /\ accepted' = accepted + 1
            /\ oid' = [oid EXCEPT ![a] = NULL]
         \/ /\ owner' = [owner EXCEPT ![a] = NULL] /\ oid' = oid /\ accepted' = accepted
            /\ Patient => ~Waiting(owner[a])
  BY DEF Connect, accept_connection_cb, clean_up, gvars
<1>2. Types'
  <2>1. owner' \in [Addresses -> (1..MaxConns) \cup {NULL}] /\ accepted' \in 0..MaxConns
    <3>1. CASE accepted < MaxConns /\ accepted' = accepted + 1
               /\ owner' = [owner EXCEPT ![a] = accepted + 1]
      <4>1. accepted + 1 \in 1..MaxConns
        BY <3>1 DEF Types
      <4> QED BY <3>1, <4>1 DEF Types
    <3>2. CASE accepted' = accepted /\ owner' = [owner EXCEPT ![a] = NULL]
      BY <3>2 DEF Types
    <3> QED BY <1>1, <3>1, <3>2
  <2>2. oid' \in [Addresses -> Users \cup {NULL}]
    BY <1>1 DEF Types
  <2> QED BY <1>1, <2>1, <2>2 DEF Types
<1>3. GameTypes'
  BY <1>1 DEF GameTypes
<1>4. OneOperation'
  BY <1>1 DEF OneOperation, Asked
<1>5. Grows
  BY <1>1 DEF Grows
<1>6. Acting'
  BY <1>1, <1>5, GrowsFacts DEF Acting, Types
<1>7. Evidence'
  BY <1>1 DEF Evidence
<1>8. Games' /\ Freed' /\ Told'
  BY <1>1, <1>5, GamesKept
<1>9. Real'
  BY <1>1 DEF Real, Made, Answered
<1>10. Home'
  <2> SUFFICES ASSUME Patient, NEW r \in allocated
               PROVE  owner'[requests[r].ctx] = Origin(r)
    BY <1>1 DEF Home, Origin
  <2>1. /\ owner[requests[r].ctx] = Origin(r)
        /\ Origin(r) \in 1..MaxConns
        /\ requests[r].ctx \in Addresses
        /\ owner \in [Addresses -> (1..MaxConns) \cup {NULL}]
    BY Waits DEF Home, Types, Request, Origin
  <2>2. requests[r].ctx # a
    BY <1>1, <2>1 DEF Waiting, Origin
  <2> QED BY <1>1, <2>1, <2>2
<1> QED BY <1>2, <1>3, <1>4, <1>6, <1>7, <1>8, <1>9, <1>10

-----------------------------------------------------------------------------
(* Requests *)
\* The packet of a new request, and what it brings with it whatever its handler does.
Opens(a, body, new, user) ==
  /\ message_handler(a, body)
  /\ new = Len(requests) + 1
  /\ oid' = [oid EXCEPT ![a] = user]
  /\ user_document' = [user_document EXCEPT ![new] = user]

Opened(a, body, new, user) ==
  /\ UNCHANGED <<owner, pending, accepted>>
  /\ requests' \in Seq(Request) /\ Len(requests') <= MaxRequests
  /\ new \in RequestIds
  /\ new \notin 1..Len(requests) /\ 1..Len(requests') = (1..Len(requests)) \cup {new}
  /\ requests'[new].ctx = a /\ requests'[new].origin = owner[a]
  /\ requests'[new].body = body /\ owner[a] \in 1..MaxConns
  /\ \A r \in 1..Len(requests) : requests'[r] = requests[r]
  /\ Grows
  /\ oid' \in [Addresses -> Users \cup {NULL}]
  /\ user_document' \in [RequestIds -> Users \cup {NULL}]
  /\ user_document'[new] = user /\ user \in {NULL, UserOf[owner[a]]}
  /\ \A b \in Addresses : owner[b] # NULL => oid'[b] \in {NULL, UserOf[owner[b]]}
  /\ answers[new] = <<>> /\ new \notin allocated
  /\ stored' = stored => Evidence'

LEMMA NewRequest ==
  ASSUME IInv, ~crashed, NEW a \in Addresses, NEW body \in Bodies, NEW new,
         NEW user \in Session(a), Opens(a, body, new, user)
  PROVE  Opened(a, body, new, user)
<1> DEFINE req == [ctx |-> a, origin |-> owner[a], body |-> body,
                   since |-> {r \in 1..Len(requests) : Answered(r)}]
<1> USE RequestsAssumption DEF IInv
<1>1. /\ requests' = Append(requests, req)
      /\ owner[a] # NULL /\ Len(requests) < MaxRequests
      /\ UNCHANGED <<owner, pending, accepted>>
      /\ new = Len(requests) + 1
      /\ oid' = [oid EXCEPT ![a] = user]
      /\ user_document' = [user_document EXCEPT ![new] = user]
  BY DEF message_handler, Opens
<1>2. /\ requests \in Seq(Request) /\ Len(requests) \in Nat /\ new \in RequestIds
      /\ owner[a] \in 1..MaxConns
  BY <1>1 DEF Types, RequestIds
<1>3. req \in Request /\ req.ctx = a /\ req.origin = owner[a] /\ req.body = body
  BY <1>1, <1>2 DEF Request, RequestIds
<1> HIDE DEF req
<1>4. /\ requests' \in Seq(Request)
      /\ Len(requests') = new
      /\ \A r \in 1..Len(requests) : requests'[r] = requests[r]
      /\ requests'[new] = req
  BY <1>1, <1>2, <1>3, AppendFacts
<1>5. new \notin 1..Len(requests) /\ 1..Len(requests') = (1..Len(requests)) \cup {new}
  BY <1>1, <1>2, <1>4
<1>6. user \in {NULL, UserOf[owner[a]]} /\ user \in Users \cup {NULL}
  BY <1>2, InvitesAssumption DEF Session, Acting
<1>7. /\ oid' \in [Addresses -> Users \cup {NULL}]
      /\ user_document' \in [RequestIds -> Users \cup {NULL}]
      /\ user_document'[new] = user
      /\ \A r \in 1..Len(requests) : user_document'[r] = user_document[r]
  BY <1>1, <1>2, <1>5, <1>6, Waits DEF Types
<1>8. Grows
  BY <1>4, <1>5, <1>7 DEF Grows
<1>9. \A b \in Addresses : owner[b] # NULL => oid'[b] \in {NULL, UserOf[owner[b]]}
  BY <1>1, <1>6 DEF Acting, Types
<1>10. answers[new] = <<>> /\ new \notin allocated
  BY <1>2, <1>5, Waits DEF OneOperation
<1>11. stored' = stored => Evidence'
  BY <1>1, <1>4, Waits DEF Evidence
<1>12. Len(requests') <= MaxRequests
  BY <1>1, <1>2, <1>4
<1> QED
  BY <1>1, <1>2, <1>3, <1>4, <1>5, <1>6, <1>7, <1>8, <1>9, <1>10, <1>11, <1>12 DEF Opened

\* A request whose token is nobody's is answered at once.
LEMMA ErrorIInv ==
  ASSUME IInv, ~crashed, NEW a \in Addresses, NEW body \in Bodies, NEW new,
         NEW user \in Session(a), Opens(a, body, new, user),
         queue_error(new, a), UNCHANGED <<gvars, stored, granted>>
  PROVE  IInv'
<1> USE DEF IInv
<1>1. /\ UNCHANGED <<allocated, jobs, crashed, stored, granted>>
      /\ UNCHANGED <<games, active_games, timers, told>>
      /\ answers' = [answers EXCEPT ![new] = <<owner[a]>>]
  BY DEF queue_error, gvars
<1>2. Opened(a, body, new, user)
  BY NewRequest
<1> USE DEF Opened
<1>3. /\ answers' \in [RequestIds -> Seq(1..MaxConns)]
      /\ answers'[new] # <<>> /\ Len(answers'[new]) = 1
      /\ \A r \in RequestIds : r # new => answers'[r] = answers[r]
  <2>1. <<owner[a]>> \in Seq(1..MaxConns) /\ <<owner[a]>> # <<>> /\ Len(<<owner[a]>>) = 1
    BY <1>2
  <2> QED BY <1>1, <1>2, <2>1 DEF Types
<1>4. Types'
  BY <1>1, <1>2, <1>3 DEF Types
<1>5. GameTypes'
  BY <1>1 DEF GameTypes
<1>6. OneOperation'
  <2>1. \A r \in 1..Len(requests') : Asked(r)' => (r \in allocated' <=> answers'[r] = <<>>)
    BY <1>1, <1>2, <1>3, Waits DEF OneOperation, Asked
  <2>2. \A n : n = 1 => n <= 1
    OBVIOUS
  <2>3. \A r \in RequestIds : Len(answers'[r]) <= 1
    BY <1>3, <2>2 DEF OneOperation
  <2>4. \A r \in RequestIds : r \notin 1..Len(requests') => answers'[r] = <<>>
    BY <1>2, <1>3 DEF OneOperation
  <2> QED BY <1>1, <1>2, <2>1, <2>3, <2>4 DEF OneOperation
<1>7. Acting'
  BY <1>1, <1>2, GrowsFacts DEF Acting
<1>8. Games' /\ Freed' /\ Told'
  BY <1>1, <1>2, GamesKept
<1>9. Real'
  <2>1. \A n \in told : n.game \in RequestIds
    BY DEF GameTypes, Notices
  <2>2. \A q \in RequestIds : Answered(q) => Answered(q)'
    BY <1>3 DEF Answered
  <2> QED BY <1>1, <1>2, <2>1, <2>2 DEF Real, Made
<1>10. Home'
  BY <1>1, <1>2, GrowsFacts, Waits DEF Home, Origin
<1> QED BY <1>2, <1>4, <1>5, <1>6, <1>7, <1>8, <1>9, <1>10

\* An invitation starts with a look-up of the user who sent it.
LEMMA LookupIInv ==
  ASSUME IInv, ~crashed, NEW a \in Addresses, NEW body \in Bodies, NEW new,
         NEW user \in Session(a), Opens(a, body, new, user), user # NULL,
         body.kind = "invite", database_operation(new, "QUERY", "user"),
         allocated' = allocated \cup {new},
         UNCHANGED <<answers, crashed, gvars, stored, granted>>
  PROVE  IInv'
<1> DEFINE job == [req |-> new, operation |-> "QUERY", cb |-> "user"]
<1>1. /\ UNCHANGED <<answers, crashed, stored, granted>>
      /\ UNCHANGED <<games, active_games, timers, told>>
      /\ jobs' = Append(jobs, job)
  BY DEF database_operation, gvars
<1>2. Opened(a, body, new, user)
  BY NewRequest
<1> USE DEF IInv, Opened
<1>3. job \in Job /\ job.req = new /\ jobs \in Seq(Job)
  BY <1>2 DEF Job, Types
<1> HIDE DEF job
<1>4. /\ jobs' \in Seq(Job)
      /\ \A r : In(jobs', r) <=> In(jobs, r) \/ r = new
      /\ Once(jobs) /\ ~In(jobs, new) => Once(jobs')
  BY <1>1, <1>3, PutFacts
<1>5. Types'
  BY <1>1, <1>2, <1>4 DEF Types
<1>6. GameTypes'
  BY <1>1 DEF GameTypes
<1>7. OneOperation'
  <2>1. \A r \in 1..Len(requests') : Asked(r)' => (r \in allocated' <=> answers'[r] = <<>>)
    BY <1>1, <1>2, Waits DEF OneOperation, Asked
  <2> QED BY <1>1, <1>2, <1>4, <2>1 DEF OneOperation
<1>8. Acting'
  <2>1. Sent(new)'
    BY <1>2 DEF Sent, Asked, Origin
  <2> QED BY <1>2, <2>1, GrowsFacts DEF Acting
<1>9. Games' /\ Freed' /\ Told'
  BY <1>1, <1>2, GamesKept
<1>10. Real'
  BY <1>1, <1>2, <1>4 DEF Real, Made, Answered
<1>11. Home'
  BY <1>1, <1>2, GrowsFacts, Waits DEF Home, Origin
<1> QED BY <1>2, <1>5, <1>6, <1>7, <1>8, <1>9, <1>10, <1>11

\* An answer to an invitation changes the game that it finds, if it finds one.
LEMMA AnswerIInv ==
  ASSUME IInv, ~crashed, NEW a \in Addresses, NEW body \in Bodies, NEW new,
         NEW user \in Session(a), Opens(a, body, new, user), body.kind = "resolve",
         Verdict(body), UNCHANGED <<answers, allocated, jobs, stored, granted>>
  PROVE  IInv'
<1>1. Opened(a, body, new, user)
  BY NewRequest
<1>2. Spoken' /\ ~Asked(new)' /\ Grows
  BY <1>1 DEF Opened, Spoken, Asked
<1>3. /\ GameTypes' /\ Games' /\ Told' /\ Freed'
      /\ \A q \in RequestIds : Made(q) => Made(q)'
      /\ \A n \in told' : n \in told \/ Made(n.game)'
      /\ \/ crashed' = crashed
         \/ crashed' = TRUE /\ \E g \in RequestIds : games'[g] = "freed"
  <2>1. CASE UNCHANGED gvars /\ \/ crashed' = crashed
                                \/ /\ crashed' = TRUE
                                   /\ \E g \in active_games : games[g] = "freed"
    <3>1. UNCHANGED <<games, active_games, timers, told>>
      BY <2>1 DEF gvars
    <3>2. Games' /\ Told' /\ Freed'
      BY <1>2, <3>1, GamesKept
    <3>3. GameTypes' /\ active_games \subseteq RequestIds
      BY <3>1 DEF GameTypes, IInv
    <3> QED BY <2>1, <3>1, <3>2, <3>3 DEF Made
  <2>2. ASSUME NEW g \in active_games, crashed' = crashed, timers' = timers,
               Accept(g) \/ Decline(g)
        PROVE  /\ GameTypes' /\ Games' /\ Told' /\ Freed'
               /\ \A q \in RequestIds : Made(q) => Made(q)'
               /\ \A n \in told' : n \in told \/ Made(n.game)'
    <3>1. PICK what \in {"accept", "decline", "timeout"}, s \in {"playing", "freed"} :
            /\ told' = told \cup NoticeAll(what, g)
            /\ games' = [games EXCEPT ![g] = s]
      BY <2>2 DEF Accept, Decline
    <3>2. active_games' \subseteq active_games
      BY <2>2 DEF Accept, Decline, str_hash_remove, Unlinked
    <3>3. g \in RequestIds /\ games[g] # "none"
      BY DEF IInv, GameTypes, Games
    <3>4. /\ GameTypes' /\ Games' /\ Told' /\ Freed'
          /\ \A q \in RequestIds : Made(q) => Made(q)'
          /\ \A n \in told' : n \in told \/ n.game = g
      BY <1>2, <2>2, <3>1, <3>2, <3>3, GameEnds
    <3> QED BY <3>3, <3>4 DEF Made
  <2> QED BY <2>1, <2>2 DEF Verdict, str_hash_get, UseAfterFree
<1> USE DEF IInv, Opened
<1>4. Types'
  BY <1>1, <1>3 DEF Types
<1>5. OneOperation'
  BY <1>1, <1>2, Waits DEF OneOperation, Asked
<1>6. Acting'
  BY <1>1, GrowsFacts DEF Acting
<1>7. Real'
  <2>1. \A n \in told : n.game \in RequestIds
    BY DEF GameTypes, Notices
  <2> QED BY <1>1, <1>3, <2>1 DEF Real, Answered, GameTypes
<1>8. Home'
  BY <1>1, <1>2, <1>3, Waits DEF Home, Origin
<1> QED BY <1>1, <1>3, <1>4, <1>5, <1>6, <1>7, <1>8

-----------------------------------------------------------------------------
(* The database thread and the callbacks *)
\* The first operation of the one queue becomes the last of the other.
LEMMA DatabaseIInv ==
  ASSUME IInv, Database
  PROVE  IInv'
<1> DEFINE job == Head(jobs)
           r == job.req
           done(result) == [req |-> r, cb |-> job.cb, result |-> result]
<1> USE DEF IInv
<1>1. /\ ~crashed /\ jobs # <<>> /\ jobs' = Tail(jobs)
      /\ UNCHANGED <<owner, requests, allocated, crashed, accepted, answers, oid,
                     user_document, granted>>
      /\ UNCHANGED <<games, active_games, timers, told>>
  BY DEF Database, gvars
<1>2. /\ jobs' \in Seq(Job)
      /\ job \in Job /\ job \in Elems(jobs)
      /\ Elems(jobs') \subseteq Elems(jobs)
      /\ Once(jobs') /\ ~In(jobs', r)
      /\ \A q : q # r => (In(jobs', q) <=> In(jobs, q))
  BY <1>1, TakeFacts DEF Types, OneOperation
<1>3. /\ r \in allocated /\ r \in RequestIds /\ requests[r] \in Request /\ Asked(r)
      /\ user_document[r] = UserOf[Origin(r)]
      /\ job.cb \in {"user", "invitee", "inserted"}
      /\ In(jobs, r) /\ ~In(pending, r)
  <2>1. r \in allocated /\ r \in RequestIds /\ requests[r] \in Request /\ Asked(r)
    BY <1>1, <1>2, Waits
  <2>2. user_document[r] = UserOf[Origin(r)]
    BY <2>1 DEF Acting, Sent
  <2>3. In(jobs, r)
    BY <1>2 DEF In
  <2> QED BY <1>1, <1>2, <2>1, <2>2, <2>3 DEF OneOperation, Job
<1>4. /\ user_document[r] \in Users
      /\ requests[r].body.name \in Users \cup {NULL}
  <2>1. Origin(r) \in 1..MaxConns /\ requests[r].body \in Bodies
    BY <1>3 DEF Request, Origin
  <2> QED BY <1>3, <2>1, BodyFacts, InvitesAssumption DEF Asked
<1>5. PICK result \in Results :
        /\ pending' = Append(pending, done(result))
        /\ job.cb = "inserted" /\ result # NULL => r \in stored'
        /\ job.cb = "invitee" /\ result \notin {NULL, <<>>} =>
             result[1] = requests[r].body.name /\ result[1] \in Users
  <2>1. CASE pending' = Append(pending, done(NULL))
    BY <2>1 DEF Results
  <2>2. CASE job.cb = "user" /\ pending' = Append(pending, done(<<user_document[r]>>))
    BY <1>4, <2>2 DEF Results
  <2>3. CASE /\ job.cb = "invitee"
             /\ pending' = Append(pending, done(IF requests[r].body.name = NULL THEN <<>>
                                                ELSE <<requests[r].body.name>>))
    <3> DEFINE name   == requests[r].body.name
               result == IF name = NULL THEN <<>> ELSE <<name>>
    <3>1. /\ result \in Results
          /\ result \notin {NULL, <<>>} => result[1] = name /\ name \in Users
      BY <1>4 DEF Results
    <3>2. job.cb # "inserted" /\ pending' = Append(pending, done(result))
      BY <2>3
    <3> HIDE DEF result, done
    <3> QED BY <3>1, <3>2
  <2>4. CASE r \in stored' /\ pending' = Append(pending, done(<<>>))
    BY <2>4 DEF Results
  <2> QED BY <2>1, <2>2, <2>3, <2>4 DEF Database
<1>6. stored \subseteq stored' /\ stored' \subseteq stored \cup {r}
  BY DEF Database
<1> DEFINE fin == done(result)
<1>7. fin \in Finished /\ fin.req = r /\ fin.cb = job.cb /\ fin.result = result
  BY <1>3, <1>5 DEF Finished
<1>8. /\ pending' \in Seq(Finished)
      /\ Elems(pending') = Elems(pending) \cup {fin}
      /\ \A q : In(pending', q) <=> In(pending, q) \/ q = r
      /\ Once(pending')
  <2>1. pending' = Append(pending, fin) /\ pending \in Seq(Finished) /\ Once(pending)
    BY <1>1, <1>5 DEF Types, OneOperation
  <2> HIDE DEF fin
  <2> QED BY <1>3, <1>7, <2>1, PutFacts
<1> HIDE DEF fin
<1>9. Types'
  BY <1>1, <1>2, <1>8 DEF Types
<1>10. GameTypes'
  BY <1>1, <1>3, <1>6 DEF GameTypes
<1>11. OneOperation'
  BY <1>1, <1>2, <1>3, <1>8 DEF OneOperation, Asked
<1>12. Grows
  BY <1>1 DEF Grows
<1>13. Acting'
  BY <1>1, <1>12, GrowsFacts DEF Acting
<1>14. Evidence'
  BY <1>1, <1>5, <1>6, <1>7, <1>8 DEF Evidence
<1>15. Games' /\ Freed' /\ Told'
  BY <1>1, <1>12, GamesKept
<1>16. Real'
  BY <1>1, <1>2, <1>6, <1>8 DEF Real, Made, Answered
<1>17. Home'
  BY <1>1 DEF Home, Origin, Spoken, Asked
<1> QED BY <1>9, <1>10, <1>11, <1>13, <1>14, <1>15, <1>16, <1>17

\* The result a callback gets, and the queue it leaves.
LEMMA CallbackFacts ==
  ASSUME IInv, ~crashed, NEW cb, Callback(cb), NEW r, r = Head(pending).req
  PROVE  /\ UNCHANGED <<owner, requests, accepted, oid, user_document, stored>>
         /\ Head(pending) \in Elems(pending) /\ Head(pending) \in Finished
         /\ Head(pending).cb = cb
         /\ pending' \in Seq(Finished)
         /\ Elems(pending') \subseteq Elems(pending)
         /\ Once(pending') /\ ~In(pending', r)
         /\ \A q : q # r => (In(pending', q) <=> In(pending, q))
         /\ r \in allocated /\ r \in RequestIds /\ r \in 1..Len(requests)
         /\ requests[r] \in Request /\ answers[r] = <<>> /\ Sent(r)
         /\ In(pending, r) /\ ~In(jobs, r)
         /\ Grows /\ Evidence'
<1>1. /\ pending # <<>> /\ pending' = Tail(pending) /\ Head(pending).cb = cb
      /\ UNCHANGED <<owner, requests, accepted, oid, user_document, stored>>
  BY DEF Callback
<1>2. pending \in Seq(Finished) /\ Once(pending)
  BY DEF IInv, Types, OneOperation
<1>3. /\ Head(pending) \in Elems(pending) /\ Head(pending) \in Finished
      /\ pending' \in Seq(Finished)
      /\ Elems(pending') \subseteq Elems(pending)
      /\ Once(pending') /\ ~In(pending', r)
      /\ \A q : q # r => (In(pending', q) <=> In(pending, q))
  BY <1>1, <1>2, TakeFacts
<1>4. /\ r \in allocated /\ r \in RequestIds /\ r \in 1..Len(requests)
      /\ requests[r] \in Request /\ answers[r] = <<>> /\ Sent(r)
  BY <1>3, Waits DEF IInv, Acting
<1>5. In(pending, r) /\ ~In(jobs, r)
  BY <1>3, <1>4 DEF In, IInv, OneOperation
<1>6. Grows /\ Evidence'
  BY <1>1, <1>3 DEF Grows, IInv, Evidence
<1> QED BY <1>1, <1>3, <1>4, <1>5, <1>6

\* The player who is invited is told.
LEMMA InvitedTold ==
  ASSUME IInv, Grows, NEW r \in RequestIds, Invitation(r),
         told' = told \cup {Notice("invite", r, requests[r].body.name)}
  PROVE  /\ Told' /\ told' \subseteq Notices
         /\ \A n \in told' : n \in told \/ n.game = r
<1> DEFINE new == Notice("invite", r, requests[r].body.name)
<1>1. /\ new \in Notices /\ new.game = r /\ new.to = requests[r].body.name
      /\ requests'[r].body.name = requests[r].body.name
  BY DEF Notice, Notices, Invitation, Sent, Grows
<1> HIDE DEF new
<1>2. ASSUME NEW n \in told
      PROVE  /\ Invitation(n.game)' /\ n.to \in Players(n.game)'
             /\ n.what = "invite" => n.to = requests'[n.game].body.name
  BY GrowsFacts DEF IInv, Told, Grows, Invitation, Sent
<1>3. /\ Invitation(r)' /\ new.to \in Players(r)'
  BY <1>1, GrowsFacts DEF Players
<1>4. told' = told \cup {new}
  BY DEF new
<1> QED BY <1>1, <1>2, <1>3, <1>4 DEF Told, IInv, GameTypes

\* The request goes on to its next operation.
LEMMA GoOnIInv ==
  ASSUME IInv, ~crashed, NEW cb, Callback(cb), NEW r, r = Head(pending).req,
         NEW operation \in {"QUERY", "INSERT"}, NEW next \in {"invitee", "inserted"},
         database_operation(r, operation, next),
         UNCHANGED <<answers, crashed, allocated, games, active_games, timers, granted>>,
         \/ told' = told
         \/ /\ requests[r].body.name \in Users
            /\ told' = told \cup {Notice("invite", r, requests[r].body.name)}
  PROVE  IInv'
<1> DEFINE job == [req |-> r, operation |-> operation, cb |-> next]
<1>1. /\ UNCHANGED <<owner, requests, accepted, oid, user_document, stored>>
      /\ pending' \in Seq(Finished)
      /\ Elems(pending') \subseteq Elems(pending)
      /\ Once(pending') /\ ~In(pending', r)
      /\ \A q : q # r => (In(pending', q) <=> In(pending, q))
      /\ r \in allocated /\ r \in RequestIds
      /\ Sent(r) /\ In(pending, r) /\ ~In(jobs, r)
      /\ Grows /\ Evidence'
  BY CallbackFacts
<1> USE DEF IInv
<1>2. job \in Job /\ job.req = r /\ jobs' = Append(jobs, job) /\ jobs \in Seq(Job) /\ Once(jobs)
  BY <1>1 DEF Job, database_operation, Types, OneOperation
<1> HIDE DEF job
<1>3. /\ jobs' \in Seq(Job)
      /\ \A q : In(jobs', q) <=> In(jobs, q) \/ q = r
      /\ Once(jobs')
  BY <1>1, <1>2, PutFacts
<1>4. Games' /\ Freed' /\ (told' = told => Told')
  BY <1>1, GamesKept
<1>5. Told' /\ told' \subseteq Notices /\ \A n \in told' : n \in told \/ n.game = r
  <2>1. CASE told' = told
    BY <1>4, <2>1 DEF GameTypes
  <2>2. CASE /\ requests[r].body.name \in Users
             /\ told' = told \cup {Notice("invite", r, requests[r].body.name)}
    BY <1>1, <2>2, InvitedTold DEF Invitation
  <2> QED BY <2>1, <2>2
<1>6. Types'
  BY <1>1, <1>3 DEF Types
<1>7. GameTypes'
  BY <1>1, <1>5 DEF GameTypes
<1>8. OneOperation'
  BY <1>1, <1>3 DEF OneOperation, Asked
<1>9. Acting'
  BY <1>1, GrowsFacts DEF Acting
<1>10. Real'
  BY <1>1, <1>3, <1>5 DEF Real, Made, Answered
<1>11. Home'
  BY <1>1 DEF Home, Origin, Spoken, Asked
<1> QED BY <1>1, <1>4, <1>5, <1>6, <1>7, <1>8, <1>9, <1>10, <1>11

\* The request gets its reply or an error, and the game may have been made.
LEMMA ResolveIInv ==
  ASSUME IInv, ~crashed, NEW cb, Callback(cb), NEW r, r = Head(pending).req,
         Resolve(r), UNCHANGED jobs,
         \/ UNCHANGED <<games, active_games, timers, told>> /\ granted' = granted
         \/ /\ UNCHANGED <<games, active_games, timers, told>> /\ r \in stored
            /\ granted' = granted \cup {r}
         \/ /\ requests[r].body.name \in Users
            /\ told' = told \cup {Notice("invite", r, requests[r].body.name)}
            /\ store_game_in_memory(r)
            /\ granted' = granted \cup {r}
  PROVE  IInv'
<1> DEFINE c == owner[requests[r].ctx]
<1>1. /\ UNCHANGED <<owner, requests, accepted, oid, user_document, stored>>
      /\ pending' \in Seq(Finished)
      /\ Once(pending') /\ ~In(pending', r)
      /\ \A q : q # r => (In(pending', q) <=> In(pending, q))
      /\ r \in allocated /\ r \in RequestIds /\ r \in 1..Len(requests)
      /\ requests[r] \in Request /\ answers[r] = <<>> /\ Sent(r)
      /\ ~In(jobs, r)
      /\ Grows /\ Evidence'
  BY CallbackFacts
<1> USE RequestsAssumption DEF IInv
<1>2. /\ allocated' = allocated \ {r}
      /\ \/ c = NULL /\ crashed' = TRUE /\ answers' = answers
         \/ c # NULL /\ crashed' = crashed /\ answers' = [answers EXCEPT ![r] = Append(@, c)]
  BY DEF Resolve, queue_write
<1>3. c \in (1..MaxConns) \cup {NULL} /\ answers \in [RequestIds -> Seq(1..MaxConns)]
  BY <1>1 DEF Types, Request
<1>4. Patient => c = Origin(r) /\ c # NULL
  BY <1>1 DEF Home, Origin, Request
<1> HIDE DEF c
<1>5. c # NULL => /\ crashed' = crashed
                  /\ answers' \in [RequestIds -> Seq(1..MaxConns)]
                  /\ Len(answers'[r]) = 1 /\ answers'[r][1] = c
                  /\ \A q \in RequestIds : q # r => answers'[q] = answers[q]
  <2> SUFFICES ASSUME c # NULL
               PROVE  /\ answers' \in [RequestIds -> Seq(1..MaxConns)]
                      /\ Len(answers'[r]) = 1 /\ answers'[r][1] = c
                      /\ \A q \in RequestIds : q # r => answers'[q] = answers[q]
    BY <1>2
  <2>1. answers' = [answers EXCEPT ![r] = Append(<<>>, c)]
    BY <1>1, <1>2
  <2>2. /\ Append(<<>>, c) \in Seq(1..MaxConns)
        /\ Len(Append(<<>>, c)) = 1 /\ Append(<<>>, c)[1] = c
    BY <1>3
  <2> QED BY <1>1, <1>3, <2>1, <2>2
<1>6. Types'
  BY <1>1, <1>2, <1>3, <1>5 DEF Types
<1>7. c # NULL => answers'[r] # <<>>
  BY <1>5
<1>8. ~crashed' => OneOperation'
  <2> SUFFICES ASSUME c # NULL PROVE OneOperation'
    BY <1>2
  <2>1. \A q \in 1..Len(requests) : Asked(q) => (q \in allocated' <=> answers'[q] = <<>>)
    BY <1>2, <1>5, <1>7, Waits DEF OneOperation
  <2>2. \A n : n = 1 => n <= 1
    OBVIOUS
  <2>3. Len(answers'[r]) <= 1
    BY <1>5, <2>2, Zenon
  <2>4. /\ \A q \in RequestIds : Len(answers'[q]) <= 1
        /\ \A q \in RequestIds : q \notin 1..Len(requests) => answers'[q] = <<>>
    BY <1>1, <1>5, <2>3 DEF OneOperation
  <2> QED BY <1>1, <1>2, <2>1, <2>4 DEF OneOperation, Asked
<1>9. Acting'
  BY <1>1, <1>2, GrowsFacts DEF Acting
<1>10. /\ GameTypes' /\ Games' /\ Told' /\ Freed'
       /\ \A q \in RequestIds : Made(q) => Made(q)'
       /\ \A q \in granted' : q \in granted \/ Made(q)'
       /\ \A n \in told' : n \in told \/ Made(n.game)'
  <2>1. CASE /\ UNCHANGED <<games, active_games, timers, told>>
             /\ granted' = granted \/ (r \in stored /\ granted' = granted \cup {r})
    <3>1. Games' /\ Told' /\ Freed'
      BY <1>1, <2>1, GamesKept
    <3> QED BY <1>1, <2>1, <3>1 DEF GameTypes, Made
  <2>2. CASE /\ requests[r].body.name \in Users
             /\ told' = told \cup {Notice("invite", r, requests[r].body.name)}
             /\ store_game_in_memory(r)
             /\ granted' = granted \cup {r}
    <3>1. /\ games' \in [RequestIds -> {"none", "pending", "playing", "freed"}]
          /\ games'[r] = "pending"
          /\ \A q \in RequestIds : q # r => games'[q] = games[q]
          /\ timers' = timers \cup {r} /\ active_games' \subseteq active_games \cup {r}
      BY <1>1, <2>2 DEF store_game_in_memory, str_hash_add, Unlinked, GameTypes
    <3>2. /\ Told' /\ told' \subseteq Notices
          /\ \A n \in told' : n \in told \/ n.game = r
      BY <1>1, <2>2, InvitedTold DEF Invitation
    <3>3. GameTypes'
      BY <1>1, <2>2, <3>1, <3>2 DEF GameTypes
    <3>4. Invitation(r)
      BY <1>1, <2>2 DEF Invitation
    <3>5. Games'
      <4>1. \A q \in RequestIds : games'[q] # "none" => Invitation(q)'
        <5>1. \A q \in RequestIds : games'[q] # "none" => Invitation(q)
          BY <3>1, <3>4 DEF Games
        <5> QED BY <1>1, <5>1, GrowsFacts
      <4>2. \A q \in active_games' \cup timers' : games'[q] # "none"
        BY <3>1 DEF Games, GameTypes
      <4> QED BY <4>1, <4>2 DEF Games
    <3>6. Freed'
      BY <1>1, <3>1, GrowsFacts DEF Freed, GameTypes
    <3>7. Made(r)' /\ \A q \in RequestIds : Made(q) => Made(q)'
      BY <1>1, <3>1 DEF Made
    <3> QED BY <2>2, <3>2, <3>3, <3>5, <3>6, <3>7
  <2> QED BY <2>1, <2>2
<1>11. Real'
  <2>1. \A r_1 \in granted' : Made(r_1)'
    BY <1>10 DEF Real, GameTypes
  <2>2. ASSUME NEW n \in told
        PROVE  \/ crashed' \/ Made(n.game)'
               \/ In(jobs', n.game) \/ In(pending', n.game) \/ Answered(n.game)'
    <3>1. n.game \in RequestIds
      BY DEF GameTypes, Notices
    <3>2. CASE c = NULL
      BY <1>2, <3>2
    <3>3. CASE c # NULL
      BY <1>1, <1>5, <1>7, <1>10, <3>1, <3>3 DEF Real, Answered
    <3> QED BY <3>2, <3>3
  <2> QED BY <1>10, <2>1, <2>2 DEF Real
<1>12. Home'
  BY <1>1, <1>2, <1>4 DEF Home, Origin
<1> QED BY <1>1, <1>6, <1>8, <1>9, <1>10, <1>11, <1>12

-----------------------------------------------------------------------------
(* The timer of a short game *)
LEMMA TimerIInv ==
  ASSUME IInv, NEW g \in RequestIds, Timer(g)
  PROVE  IInv'
<1> USE DEF IInv
<1>1. /\ ~crashed /\ g \in timers
      /\ UNCHANGED <<owner, requests, allocated, jobs, pending, accepted, answers, oid,
                     user_document, stored, granted>>
      /\ \/ games[g] = "freed" /\ UseAfterFree
         \/ games[g] # "freed" /\ Timeout(g) /\ timers' = timers \ {g} /\ crashed' = crashed
  BY DEF Timer, game_start_timer_short
<1>2. Grows
  BY <1>1 DEF Grows
<1>3. /\ GameTypes' /\ Games' /\ Told' /\ Freed'
      /\ \A q \in RequestIds : Made(q) => Made(q)'
      /\ \A n \in told' : n \in told \/ Made(n.game)'
      /\ crashed' \in BOOLEAN
      /\ crashed' => Spoken /\ games' = games /\ games[g] = "freed"
  <2>1. CASE games[g] = "freed" /\ UseAfterFree
    <3>1. crashed' = TRUE /\ UNCHANGED <<games, active_games, timers, told>>
      BY <2>1 DEF UseAfterFree, gvars
    <3>2. Games' /\ Told' /\ Freed'
      BY <1>2, <3>1, GamesKept
    <3> QED BY <1>1, <2>1, <3>1, <3>2 DEF GameTypes, Made, Freed
  <2>2. CASE games[g] # "freed" /\ Timeout(g) /\ timers' = timers \ {g} /\ crashed' = crashed
    <3>1. /\ told' = told \cup NoticeAll("timeout", g)
          /\ games' = [games EXCEPT ![g] = "freed"]
          /\ active_games' \subseteq active_games
      BY <2>2 DEF Timeout, str_hash_remove, Unlinked
    <3>2. games[g] # "none"
      BY <1>1 DEF Games
    <3>3. timers' \subseteq timers /\ g \notin timers'
      BY <2>2
    <3>4. /\ GameTypes' /\ Games' /\ Told' /\ Freed'
          /\ \A q \in RequestIds : Made(q) => Made(q)'
          /\ \A n \in told' : n \in told \/ n.game = g
      BY <1>1, <1>2, <3>1, <3>2, <3>3, GameEnds
    <3>5. Made(g)'
      BY <3>2, <3>4 DEF Made
    <3>6. crashed' = FALSE
      BY <1>1, <2>2 DEF Types
    <3> QED BY <3>4, <3>5, <3>6
  <2> QED BY <1>1, <2>1, <2>2
<1>4. Types'
  BY <1>1, <1>3 DEF Types
<1>5. OneOperation'
  BY <1>1 DEF OneOperation, Asked
<1>6. Acting'
  BY <1>1, <1>2, GrowsFacts DEF Acting
<1>7. Evidence'
  BY <1>1 DEF Evidence
<1>8. Real'
  <2>1. \A n \in told : n.game \in RequestIds
    BY DEF GameTypes, Notices
  <2> QED BY <1>1, <1>3, <2>1 DEF Real, Answered, GameTypes
<1>9. Home'
  BY <1>1, <1>2, <1>3, GrowsFacts DEF Home, Origin
<1> QED BY <1>3, <1>4, <1>5, <1>6, <1>7, <1>8, <1>9

-----------------------------------------------------------------------------
LEMMA NextIInv == IInv /\ [Next]_vars => IInv'
<1> SUFFICES ASSUME IInv, [Next]_vars PROVE IInv'
  OBVIOUS
<1>1. CASE UNCHANGED vars
  BY <1>1 DEF vars, rvars, gvars, IInv, Types, GameTypes, OneOperation, Acting, Sent, Evidence,
              Games, Invitation, Told, Players, Real, Made, Answered, Freed, Spoken, Home,
              Asked, Origin
<1>2. CASE Database
  BY <1>2, DatabaseIInv
<1>3. CASE \E g \in RequestIds : Timer(g)
  BY <1>3, TimerIInv
<1>4. CASE Clients
  <2>1. ~crashed
    BY <1>4 DEF Clients
  <2>2. ASSUME NEW a \in Addresses, NEW body \in Bodies, body.kind = "invite",
               game_invite_handler(a, body)
        PROVE  IInv'
    <3> DEFINE new == Len(requests) + 1
    <3>1. PICK user \in Session(a) :
            /\ Opens(a, body, new, user)
            /\ \/ user = NULL /\ queue_error(new, a)
               \/ /\ user # NULL
                  /\ database_operation(new, "QUERY", "user")
                  /\ allocated' = allocated \cup {new}
                  /\ UNCHANGED <<closing, answers, crashed>>
            /\ UNCHANGED <<gvars, stored, granted>>
      BY <2>2 DEF game_invite_handler, Opens
    <3> HIDE DEF new
    <3> QED BY <2>1, <2>2, <3>1, ErrorIInv, LookupIInv
  <2>3. ASSUME NEW a \in Addresses, NEW body \in Bodies, body.kind = "resolve",
               resolve_game_invite_handler(a, body)
        PROVE  IInv'
    <3> DEFINE new == Len(requests) + 1
    <3>1. PICK user \in Session(a) :
            /\ Opens(a, body, new, user)
            /\ \/ queue_error(new, a) /\ UNCHANGED gvars
               \/ /\ user # NULL /\ Verdict(body)
                  /\ UNCHANGED <<closing, answers, allocated, jobs>>
            /\ UNCHANGED <<stored, granted>>
      BY <2>3 DEF resolve_game_invite_handler, Opens
    <3> HIDE DEF new
    <3> QED BY <2>1, <2>3, <3>1, ErrorIInv, AnswerIInv
  <2>4. ASSUME NEW a \in Addresses, Connect(a) \/ (clean_up(a) /\ UNCHANGED oid),
               UNCHANGED <<gvars, user_document, stored, granted>>
        PROVE  IInv'
    BY <2>1, <2>4, ConnectionIInv
  <2> QED BY <1>4, <2>2, <2>3, <2>4 DEF Clients
<1>5. CASE ~crashed /\ game_invite_get_user_document
  <2>1. Callback("user") /\ UNCHANGED <<games, active_games, timers, told, granted>>
    BY <1>5 DEF game_invite_get_user_document, gvars
  <2>2. CASE Resolve(Head(pending).req) /\ UNCHANGED jobs
    BY <1>5, <2>1, <2>2, ResolveIInv
  <2>3. CASE /\ database_operation(Head(pending).req, "QUERY", "invitee")
             /\ UNCHANGED <<answers, crashed, allocated>>
    BY <1>5, <2>1, <2>3, GoOnIInv
  <2> QED BY <1>5, <2>2, <2>3 DEF game_invite_get_user_document
<1>6. CASE ~crashed /\ game_invite_get_invitee_document_and_notify
  <2> DEFINE r == Head(pending).req
  <2>1. Callback("invitee")
    BY <1>6 DEF game_invite_get_invitee_document_and_notify
  <2>2. CASE Resolve(r) /\ UNCHANGED <<jobs, gvars, granted>>
    <3>1. UNCHANGED <<games, active_games, timers, told>>
      BY <2>2 DEF gvars
    <3> HIDE DEF r
    <3> QED BY <1>6, <2>1, <2>2, <3>1, ResolveIInv DEF r
  <2>3. CASE Head(pending).result \notin {NULL, <<>>}
    <3>1. /\ requests[r].body.name \in Users
          /\ Head(pending).result[1] = requests[r].body.name
      BY <1>6, <2>1, <2>3, CallbackFacts DEF IInv, Evidence
    <3>2. told' = told \cup {Notice("invite", r, requests[r].body.name)}
      BY <1>6, <2>3, <3>1 DEF game_invite_get_invitee_document_and_notify
    <3>3. CASE /\ database_operation(r, "INSERT", "inserted")
               /\ UNCHANGED <<answers, crashed, allocated, games, active_games, timers, granted>>
      BY <1>6, <2>1, <3>1, <3>2, <3>3, GoOnIInv
    <3>4. CASE /\ store_game_in_memory(r) /\ Resolve(r)
               /\ granted' = granted \cup {r} /\ UNCHANGED jobs
      BY <1>6, <2>1, <3>1, <3>2, <3>4, ResolveIInv
    <3> QED BY <1>6, <2>3, <3>3, <3>4 DEF game_invite_get_invitee_document_and_notify
  <2> QED BY <1>6, <2>2, <2>3 DEF game_invite_get_invitee_document_and_notify
<1>7. CASE ~crashed /\ game_invite_reply
  <2>1. /\ Callback("inserted") /\ Resolve(Head(pending).req) /\ UNCHANGED jobs
        /\ UNCHANGED <<games, active_games, timers, told>>
        /\ \/ granted' = granted
           \/ /\ Head(pending).result # NULL
              /\ granted' = granted \cup {Head(pending).req}
    BY <1>7 DEF game_invite_reply, gvars
  <2>2. Head(pending).result # NULL => Head(pending).req \in stored
    BY <1>7, <2>1, CallbackFacts DEF IInv, Evidence
  <2> QED BY <1>7, <2>1, <2>2, ResolveIInv
<1> QED BY <1>1, <1>2, <1>3, <1>4, <1>5, <1>6, <1>7 DEF Next, Loop

THEOREM Invariance == Spec => []IInv
  BY InitIInv, NextIInv, PTL DEF Spec

\* The tables, the queues, the games and the notifications keep their types.
THEOREM TypeCorrect == Spec => []TypeOK
  BY Invariance, TypesTypeOK, PTL DEF IInv

\* A request to invite has one operation under way or its one answer, never both.
THEOREM AnsweredOnce == Spec => []OneAnswer
<1>1. IInv => OneAnswer
  <2> SUFFICES ASSUME IInv, ~crashed, NEW r \in 1..Len(requests)
               PROVE  /\ Len(answers[r]) <= 1
                      /\ r \in allocated <=> UnderWay(r)
                      /\ Asked(r) => (r \in allocated <=> ~Answered(r))
    BY DEF OneAnswer
  <2>1. r \in RequestIds
    BY Waits
  <2>2. UnderWay(r) <=> In(jobs, r) \/ In(pending, r)
    BY DEF UnderWay, In, Elems
  <2> QED BY <2>1, <2>2 DEF IInv, OneOperation, Answered
<1> QED BY <1>1, Invariance, PTL

\* Who gets a GameInviteReply has a game; who is told of one has one, or it is being
\* made, or could not be made and then the sender knows.
THEOREM InvitesMade == Spec => []InvitesAreReal
<1>1. IInv => InvitesAreReal
  <2> SUFFICES ASSUME IInv PROVE InvitesAreReal
    OBVIOUS
  <2>1. \A r : In(jobs, r) \/ In(pending, r) => UnderWay(r)
    BY DEF UnderWay, In, Elems
  <2>2. \A r \in granted : r \in stored \/ games[r] # "none"
    BY DEF IInv, Real, Made
  <2>3. \A n \in told : \/ n.game \in stored \/ games[n.game] # "none"
                        \/ UnderWay(n.game) \/ crashed
                        \/ Answered(n.game) /\ n.game \notin granted
    BY <2>1, <2>2 DEF IInv, Real, Made
  <2> QED BY <2>2, <2>3 DEF InvitesAreReal
<1> QED BY <1>1, Invariance, PTL

\* The sender named in a notification is the user whose client asked, and the other
\* is the one that the request named.
InviterIsSender ==
  \A n \in told : /\ user_document[n.game] = UserOf[Origin(n.game)]
                  /\ n.to \in {UserOf[Origin(n.game)], requests[n.game].body.name}
                  /\ n.what = "invite" => n.to = requests[n.game].body.name

\* A game is between the user whose client asked for it and the one it named,
\* wherever the contexts of connections come to lie.
THEOREM SendersCorrect == Spec => []InviterIsSender
<1>1. IInv => InviterIsSender
  BY DEF IInv, Told, Invitation, Sent, Players, InviterIsSender
<1> QED BY <1>1, Invariance, PTL

\* With patient clients, no game is used after it was freed unless it was answered.
THEOREM BreaksAreAnswered ==
  ASSUME Patient
  PROVE  Spec => []OnlyAnswersBreak
<1>1. IInv => OnlyAnswersBreak
  BY DEF IInv, Home, Spoken, OnlyAnswersBreak
<1> QED BY <1>1, Invariance, PTL
-----------------------------------------------------------------------------
(* InviteService *)
\* Nothing was told of a request that has not come to its last operation; then the
\* other player was told.  No request under way has a game yet.
Begun(x) ==
  /\ games[x.req] = "none"
  /\ x.cb # "inserted" => \A n \in told : n.game # x.req
  /\ x.cb = "inserted" => /\ requests[x.req].body.name \in Users
                          /\ Notice("invite", x.req, requests[x.req].body.name) \in told

\* Inductive on top of IInv.
ToldOnce == ~crashed => \A x \in Elems(jobs) \cup Elems(pending) : Begun(x)

\* What a step does to another's game changes nothing for an operation under way.
LEMMA BegunKept ==
  ASSUME IInv, ~crashed, ToldOnce, Grows, NEW x \in Elems(jobs) \cup Elems(pending), NEW g,
         x.req # g, told \subseteq told', \A n \in told' : n \in told \/ n.game = g,
         games'[x.req] = games[x.req]
  PROVE  Begun(x)'
<1>1. x.req \in 1..Len(requests)
  BY Waits
<1>2. requests'[x.req] = requests[x.req] /\ Begun(x)
  BY <1>1 DEF Grows, ToldOnce
<1> QED BY <1>2 DEF Begun, Notice

\* The invitation that a request asks for.
Asks(r) == [game |-> r, from |-> UserOf[Origin(r)], to |-> requests[r].body.name]

LEMMA AsksFacts ==
  ASSUME NEW r, Sent(r)
  PROVE  /\ Asks(r) \in Invitations
         /\ Asks(r).game = r /\ Asks(r).from = user_document[r]
         /\ Asks(r).to = requests[r].body.name
         /\ \A what, u : Abstract!Notice(what, Asks(r), u) = Notice(what, r, u)
         /\ \A what : Abstract!Both(what, Asks(r)) = NoticeAll(what, r)
<1>1. Asks(r) \in Invitations
  BY DEF Asks, Invitations, Sent
<1>2. /\ Asks(r).game = r /\ Asks(r).from = user_document[r]
      /\ Asks(r).to = requests[r].body.name
  BY DEF Asks, Sent
<1>3. \A what, u : Abstract!Notice(what, Asks(r), u) = Notice(what, r, u)
  BY <1>2 DEF Abstract!Notice, Notice
<1>4. \A what : Abstract!Both(what, Asks(r)) = NoticeAll(what, r)
  BY <1>2, <1>3 DEF Abstract!Both, NoticeAll, Players
<1> QED BY <1>1, <1>2, <1>3, <1>4

\* The step is one of the service's, or none, and keeps ToldOnce.
Serves == ToldOnce' /\ (Abstract!Next \/ UNCHANGED Abstract!vars)

\* A request to invite is asked for; it is refused at once or waits.
LEMMA AskServes ==
  ASSUME IInv, ToldOnce, ~crashed, NEW a \in Addresses, NEW body \in Bodies,
         body.kind = "invite", game_invite_handler(a, body)
  PROVE  Serves
<1>new. PICK new : new = Len(requests) + 1
  OBVIOUS
<1>1. PICK user \in Session(a) :
        /\ Opens(a, body, new, user)
        /\ \/ user = NULL /\ queue_error(new, a)
           \/ /\ user # NULL
              /\ database_operation(new, "QUERY", "user")
              /\ allocated' = allocated \cup {new}
              /\ UNCHANGED <<closing, answers, crashed>>
        /\ UNCHANGED <<gvars, stored, granted>>
  BY <1>new DEF game_invite_handler, Opens
<1>2. Opened(a, body, new, user)
  BY <1>1, NewRequest
<1>3. UNCHANGED <<games, active_games, timers, told, pending, crashed, granted>>
  BY <1>1, <1>2 DEF gvars, queue_error, Opened
<1>4. requests \in Seq(Request) /\ Len(requests) \in Nat /\ owner[a] \in 1..MaxConns
  BY <1>2, Waits DEF IInv, Types, Opened
<1>5. ToldOnce'
  <2>1. /\ games[new] = "none" /\ \A n \in told : n.game # new
    BY <1>2 DEF Opened, IInv, Games, Told, Invitation, Sent
  <2>2. ASSUME NEW x \in Elems(jobs) \cup Elems(pending) PROVE Begun(x)'
    <3>1. x.req # new
      BY <1>2, Waits DEF Opened
    <3> QED BY <1>2, <1>3, <3>1, BegunKept DEF Opened
  <2>3. CASE jobs' = jobs
    BY <1>3, <2>2, <2>3 DEF ToldOnce
  <2>4. CASE database_operation(new, "QUERY", "user")
    <3>1. PICK job \in Job : /\ job.req = new /\ job.cb = "user"
                             /\ jobs' = Append(jobs, job)
      BY <1>2, <2>4 DEF database_operation, Job, Opened
    <3>2. Elems(jobs') = Elems(jobs) \cup {job}
      BY <3>1, PutFacts DEF IInv, Types
    <3>3. Begun(job)'
      BY <1>3, <2>1, <3>1 DEF Begun
    <3> QED BY <1>3, <2>2, <3>2, <3>3 DEF ToldOnce
  <2> QED BY <1>1, <2>3, <2>4 DEF queue_error
<1>6. PICK i : i = [game |-> new, from |-> UserOf[owner[a]], to |-> body.name]
  OBVIOUS
<1>7. /\ i \in [game : RequestIds, from : Users, to : Users \cup {NULL}] /\ i.game = new
      /\ \A j \in Invitations : j.game # i.game
  BY <1>2, <1>4, <1>6, BodyFacts, InvitesAssumption DEF Opened, Invitations
<1>8. Invitations' = Invitations \cup {i}
  BY <1>2, <1>6 DEF Opened, Invitations, Asked, Origin
<1>9. allocated' \in {allocated, allocated \cup {i.game}}
  BY <1>1, <1>7 DEF queue_error
<1>10. Abstract!Ask(i)
  BY <1>3, <1>7, <1>8, <1>9 DEF Abstract!Ask
<1> QED BY <1>5, <1>7, <1>10 DEF Serves, Abstract!Next

\* An answer or the timer of a game that is not over: the players hear of it.
LEMMA GoesServes ==
  ASSUME IInv, ToldOnce, ~crashed, Grows, Invitations' = Invitations,
         NEW g \in RequestIds, games[g] \notin {"none", "freed"},
         NEW what, NEW s,
         \/ what = "accept" /\ s = "playing"
         \/ what \in {"decline", "timeout"} /\ s = "freed",
         told' = told \cup NoticeAll(what, g),
         games' = [games EXCEPT ![g] = s],
         UNCHANGED <<jobs, pending, allocated, granted>>
  PROVE  Serves
<1>1. games \in [RequestIds -> {"none", "pending", "playing", "freed"}]
  BY DEF IInv, GameTypes
<1>2. \A n \in told' : n \in told \/ n.game = g
  BY DEF NoticeAll, Notice
<1>3. ToldOnce'
  <2>1. ASSUME NEW x \in Elems(jobs) \cup Elems(pending) PROVE Begun(x)'
    <3>1. x.req # g
      BY DEF ToldOnce, Begun
    <3>2. games'[x.req] = games[x.req]
      BY <1>1, <3>1
    <3> QED BY <1>2, <3>1, <3>2, BegunKept
  <2> QED BY <2>1 DEF ToldOnce
<1>4. Sent(g)
  BY DEF IInv, Games, Invitation
<1>5. Abstract!Goes(Asks(g), what, s)
  BY <1>1, <1>4, AsksFacts DEF Abstract!Goes
<1>6. Asks(g) \in Invitations
  BY <1>4, AsksFacts
<1>7. Abstract!Next
  BY <1>5, <1>6 DEF Abstract!Next
<1> QED BY <1>3, <1>7 DEF Serves

\* Nothing that the service has changes, nor the operations under way.
LEMMA QuietServes ==
  ASSUME IInv, ToldOnce, ~crashed, Grows, Invitations' = Invitations,
         UNCHANGED <<jobs, pending, allocated, games, told, granted>>
  PROVE  Serves
<1>1. \A x \in Elems(jobs) \cup Elems(pending) : x.req \in 1..Len(requests)
  BY Waits
<1>2. ToldOnce'
  BY <1>1 DEF ToldOnce, Begun, Notice, Grows
<1>3. UNCHANGED Abstract!vars
  BY DEF Abstract!vars
<1> QED BY <1>2, <1>3 DEF Serves

\* An answer to an invitation is not itself one.
LEMMA AnswerServes ==
  ASSUME IInv, ToldOnce, ~crashed, NEW a \in Addresses, NEW body \in Bodies,
         body.kind = "resolve", resolve_game_invite_handler(a, body)
  PROVE  Serves
<1>new. PICK new : new = Len(requests) + 1
  OBVIOUS
<1>1. PICK user \in Session(a) :
        /\ Opens(a, body, new, user)
        /\ \/ queue_error(new, a) /\ UNCHANGED gvars
           \/ user # NULL /\ Verdict(body) /\ UNCHANGED <<closing, answers, allocated, jobs>>
        /\ UNCHANGED <<stored, granted>>
  BY <1>new DEF resolve_game_invite_handler, Opens
<1>2. Opened(a, body, new, user)
  BY <1>1, NewRequest
<1>3. /\ Grows /\ UNCHANGED <<pending, allocated, jobs, granted>>
  BY <1>1, <1>2 DEF Opened, queue_error
<1>4. Invitations' = Invitations
  BY <1>2 DEF Opened, Invitations, Asked, Origin
<1>5. CASE UNCHANGED <<games, told>>
  BY <1>3, <1>4, <1>5, QuietServes
<1>6. ASSUME NEW g \in active_games, games[g] # "freed", Accept(g) \/ Decline(g)
      PROVE  Serves
  <2>1. g \in RequestIds /\ games[g] \notin {"none", "freed"}
    BY <1>6 DEF IInv, GameTypes, Games
  <2>2. CASE Accept(g)
    BY <1>3, <1>4, <2>1, <2>2, GoesServes DEF Accept
  <2>3. CASE Decline(g)
    BY <1>3, <1>4, <2>1, <2>3, GoesServes DEF Decline
  <2> QED BY <1>6, <2>2, <2>3
<1>7. CASE Verdict(body)
  <2>1. CASE UNCHANGED gvars
    BY <1>5, <2>1 DEF gvars
  <2>2. CASE \E g \in active_games : games[g] # "freed" /\ (Accept(g) \/ Decline(g))
    BY <1>6, <2>2
  <2> QED BY <1>7, <2>1, <2>2 DEF Verdict, str_hash_get, UseAfterFree
<1> QED BY <1>1, <1>5, <1>7 DEF gvars

LEMMA TimerServes ==
  ASSUME IInv, ToldOnce, NEW g \in RequestIds, Timer(g)
  PROVE  Serves
<1>1. /\ ~crashed /\ g \in timers /\ UNCHANGED <<requests, jobs, pending, allocated, granted>>
      /\ user_document' = user_document
      /\ \/ games[g] = "freed" /\ UseAfterFree
         \/ games[g] # "freed" /\ Timeout(g)
  BY DEF Timer, game_start_timer_short
<1>2. Grows /\ Invitations' = Invitations
  BY <1>1 DEF Grows, Invitations, Asked, Origin
<1>3. CASE UseAfterFree
  BY <1>1, <1>2, <1>3, QuietServes DEF UseAfterFree, gvars
<1>4. CASE games[g] # "freed" /\ Timeout(g)
  <2>1. games[g] \notin {"none", "freed"}
    BY <1>1, <1>4 DEF IInv, Games
  <2> QED BY <1>1, <1>2, <1>4, <2>1, GoesServes DEF Timeout
<1> QED BY <1>1, <1>3, <1>4

\* An operation takes its place in the other queue.
LEMMA DatabaseServes ==
  ASSUME IInv, ToldOnce, Database
  PROVE  Serves
<1>job. PICK job : job = Head(jobs)
  OBVIOUS
<1>1. /\ ~crashed /\ jobs # <<>> /\ jobs' = Tail(jobs)
      /\ UNCHANGED <<requests, allocated, crashed, user_document, granted, games, told>>
      /\ \E result : pending' = Append(pending, [req |-> job.req, cb |-> job.cb,
                                                 result |-> result])
  BY <1>job DEF Database, gvars
<1>2. job \in Elems(jobs) /\ Elems(jobs') \subseteq Elems(jobs)
  BY <1>job, <1>1, TakeFacts DEF IInv, Types
<1>3. PICK fin : fin.req = job.req /\ fin.cb = job.cb /\ pending' = Append(pending, fin)
  <2>1. PICK result : pending' = Append(pending, [req |-> job.req, cb |-> job.cb,
                                                  result |-> result])
    BY <1>1
  <2> QED BY <2>1
<1>4. Elems(pending') = Elems(pending) \cup {fin}
  <2>1. pending \in Seq(Finished \cup {fin})
    BY DEF IInv, Types
  <2> QED BY <1>3, <2>1, PutFacts
<1>5. Begun(fin) <=> Begun(job)
  BY <1>3 DEF Begun
<1>6. ToldOnce'
  BY <1>1, <1>2, <1>4, <1>5 DEF ToldOnce, Begun, Notice
<1>7. UNCHANGED Abstract!vars
  BY <1>1 DEF Abstract!vars, Invitations, Asked, Origin
<1> QED BY <1>6, <1>7 DEF Serves

-----------------------------------------------------------------------------
(* The callbacks *)
\* What a callback finds, and that it does not touch what others have under way.
LEMMA CallbackServes ==
  ASSUME IInv, ToldOnce, ~crashed, NEW cb, Callback(cb), NEW r, r = Head(pending).req
  PROVE  /\ r \in RequestIds /\ Sent(r) /\ r \in allocated
         /\ Grows /\ Invitations' = Invitations /\ UNCHANGED requests
         /\ games[r] = "none"
         /\ cb # "inserted" => \A n \in told : n.game # r
         /\ cb = "inserted" => Notice("invite", r, requests[r].body.name) \in told
         /\ \A x \in Elems(jobs) \cup Elems(pending') :
              /\ x \in Elems(jobs) \cup Elems(pending)
              /\ x.req # r
<1>1. /\ Head(pending) \in Elems(pending) /\ Head(pending).cb = cb
      /\ Elems(pending') \subseteq Elems(pending)
      /\ ~In(pending', r) /\ ~In(jobs, r) /\ r \in RequestIds /\ r \in allocated
      /\ UNCHANGED requests
      /\ Grows /\ Sent(r)
  BY CallbackFacts
<1>2. Begun(Head(pending))
  BY <1>1 DEF ToldOnce
<1>3. Invitations' = Invitations
  BY <1>1 DEF Invitations, Asked, Origin
<1> QED BY <1>1, <1>2, <1>3 DEF Begun, In

\* The request is answered: it is granted, with the game that it brings, or refused.
LEMMA ResolveServes ==
  ASSUME IInv, ToldOnce, ~crashed, NEW cb, Callback(cb), NEW r, r = Head(pending).req,
         allocated' = allocated \ {r}, jobs' = jobs,
         \/ UNCHANGED <<games, told, granted>>
         \/ /\ cb = "inserted" /\ UNCHANGED <<games, told>>
            /\ granted' = granted \cup {r}
         \/ /\ cb = "invitee" /\ requests[r].body.name \in Users
            /\ told' = told \cup {Notice("invite", r, requests[r].body.name)}
            /\ games' = [games EXCEPT ![r] = "pending"]
            /\ granted' = granted \cup {r}
  PROVE  Serves
<1>1. /\ r \in RequestIds /\ Sent(r) /\ r \in allocated
      /\ Grows /\ Invitations' = Invitations
      /\ cb # "inserted" => \A n \in told : n.game # r
      /\ cb = "inserted" => Notice("invite", r, requests[r].body.name) \in told
      /\ \A x \in Elems(jobs) \cup Elems(pending') :
           x \in Elems(jobs) \cup Elems(pending) /\ x.req # r
  BY CallbackServes
<1>2. /\ Asks(r) \in Invitations
      /\ Asks(r).game = r /\ Asks(r).to = requests[r].body.name
      /\ Abstract!Notice("invite", Asks(r), Asks(r).to)
           = Notice("invite", r, requests[r].body.name)
  BY <1>1, AsksFacts
<1>3. ToldOnce'
  <2>1. /\ told \subseteq told' /\ \A n \in told' : n \in told \/ n.game = r
        /\ \A q \in RequestIds : q # r => games'[q] = games[q]
    BY DEF Notice, IInv, GameTypes
  <2>2. ASSUME NEW x \in Elems(jobs) \cup Elems(pending') PROVE Begun(x)'
    <3>1. x \in Elems(jobs) \cup Elems(pending) /\ x.req # r /\ x.req \in RequestIds
      BY <1>1, Waits
    <3> QED BY <1>1, <2>1, <3>1, BegunKept
  <2> QED BY <2>2 DEF ToldOnce
<1>4. CASE UNCHANGED <<games, told, granted>>
  BY <1>1, <1>2, <1>3, <1>4 DEF Serves, Abstract!Next, Abstract!Refuse
<1>5. CASE /\ cb = "inserted" /\ UNCHANGED <<games, told>>
           /\ granted' = granted \cup {r}
  BY <1>1, <1>2, <1>3, <1>5 DEF Serves, Abstract!Next, Abstract!Grant
<1>6. CASE /\ cb = "invitee" /\ requests[r].body.name \in Users
           /\ told' = told \cup {Notice("invite", r, requests[r].body.name)}
           /\ games' = [games EXCEPT ![r] = "pending"]
           /\ granted' = granted \cup {r}
  <2>1. requests[r].body.name # NULL
    BY <1>6, InvitesAssumption
  <2>2. Abstract!Invite(Asks(r))
    BY <1>1, <1>2, <1>6, <2>1 DEF Abstract!Invite
  <2> QED BY <1>2, <1>3, <2>2, Zenon DEF Serves, Abstract!Next
<1> QED BY <1>4, <1>5, <1>6

\* The request goes on to its next operation; before the last the player is told.
LEMMA GoOnServes ==
  ASSUME IInv, ToldOnce, ~crashed, NEW cb, Callback(cb), NEW r, r = Head(pending).req,
         NEW operation \in {"QUERY", "INSERT"}, NEW next \in {"invitee", "inserted"},
         database_operation(r, operation, next), cb # "inserted",
         UNCHANGED <<allocated, games, granted>>,
         \/ next = "invitee" /\ told' = told
         \/ /\ next = "inserted" /\ requests[r].body.name \in Users
            /\ told' = told \cup {Notice("invite", r, requests[r].body.name)}
  PROVE  Serves
<1>1. /\ r \in RequestIds /\ Sent(r) /\ r \in allocated
      /\ Grows /\ Invitations' = Invitations /\ requests' = requests
      /\ games[r] = "none" /\ \A n \in told : n.game # r
      /\ \A x \in Elems(jobs) \cup Elems(pending') :
           x \in Elems(jobs) \cup Elems(pending) /\ x.req # r
  BY CallbackServes
<1>2. /\ Asks(r) \in Invitations
      /\ Asks(r).game = r /\ Asks(r).to = requests[r].body.name
      /\ Abstract!Notice("invite", Asks(r), Asks(r).to)
           = Notice("invite", r, requests[r].body.name)
  BY <1>1, AsksFacts
<1>3. PICK job \in Job : job.req = r /\ job.cb = next /\ jobs' = Append(jobs, job)
  BY <1>1 DEF database_operation, Job
<1>4. Elems(jobs') = Elems(jobs) \cup {job}
  BY <1>3, PutFacts DEF IInv, Types
<1>5. ToldOnce'
  <2>1. told \subseteq told' /\ \A n \in told' : n \in told \/ n.game = r
    BY DEF Notice
  <2>2. ASSUME NEW x \in Elems(jobs) \cup Elems(pending') PROVE Begun(x)'
    <3>1. x \in Elems(jobs) \cup Elems(pending) /\ x.req # r
      BY <1>1
    <3> QED BY <1>1, <2>1, <3>1, BegunKept
  <2>3. Begun(job)'
    BY <1>1, <1>3 DEF Begun, Notice
  <2> QED BY <1>4, <2>2, <2>3 DEF ToldOnce
<1>6. CASE told' = told
  BY <1>1, <1>5, <1>6 DEF Serves, Abstract!vars
<1>7. CASE /\ requests[r].body.name \in Users
           /\ told' = told \cup {Notice("invite", r, requests[r].body.name)}
  <2>1. requests[r].body.name # NULL
    BY <1>7, InvitesAssumption
  <2>2. Abstract!Invite(Asks(r))
    BY <1>1, <1>2, <1>7, <2>1 DEF Abstract!Invite
  <2> QED BY <1>2, <1>5, <2>2, Zenon DEF Serves, Abstract!Next
<1> QED BY <1>6, <1>7

LEMMA LoopServes ==
  ASSUME IInv, ToldOnce, Loop
  PROVE  Serves
<1>r. PICK r : r = Head(pending).req
  OBVIOUS
<1>0. ~crashed
  BY DEF Loop
<1>1. CASE game_invite_get_user_document
  <2>1. Callback("user") /\ UNCHANGED <<games, told, granted>>
    BY <1>1 DEF game_invite_get_user_document, gvars
  <2>2. CASE Resolve(r) /\ UNCHANGED jobs
    BY <1>r, <1>0, <2>1, <2>2, ResolveServes DEF Resolve
  <2>3. CASE database_operation(r, "QUERY", "invitee") /\ UNCHANGED allocated
    BY <1>r, <1>0, <2>1, <2>3, GoOnServes
  <2> QED BY <1>r, <1>1, <2>2, <2>3 DEF game_invite_get_user_document
<1>2. CASE game_invite_get_invitee_document_and_notify
  <2>1. Callback("invitee")
    BY <1>2 DEF game_invite_get_invitee_document_and_notify
  <2>2. CASE Resolve(r) /\ UNCHANGED <<jobs, gvars, granted>>
    BY <1>r, <1>0, <2>1, <2>2, ResolveServes DEF Resolve, gvars
  <2>3. CASE Head(pending).result \notin {NULL, <<>>}
    <3>1. /\ requests[r].body.name \in Users
          /\ Head(pending).result[1] = requests[r].body.name
      BY <1>r, <1>0, <2>1, <2>3, CallbackFacts DEF IInv, Evidence
    <3>2. told' = told \cup {Notice("invite", r, requests[r].body.name)}
      BY <1>r, <1>2, <2>3, <3>1 DEF game_invite_get_invitee_document_and_notify
    <3>3. CASE database_operation(r, "INSERT", "inserted")
               /\ UNCHANGED <<allocated, games, granted>>
      BY <1>r, <1>0, <2>1, <3>1, <3>2, <3>3, GoOnServes
    <3>4. CASE /\ store_game_in_memory(r) /\ Resolve(r)
               /\ granted' = granted \cup {r} /\ UNCHANGED jobs
      BY <1>r, <1>0, <2>1, <3>1, <3>2, <3>4, ResolveServes DEF Resolve, store_game_in_memory
    <3> QED BY <1>r, <1>2, <2>3, <3>3, <3>4 DEF game_invite_get_invitee_document_and_notify
  <2> QED BY <1>r, <1>2, <2>2, <2>3 DEF game_invite_get_invitee_document_and_notify
<1>3. CASE game_invite_reply
  <2>1. /\ Callback("inserted") /\ allocated' = allocated \ {r} /\ jobs' = jobs
        /\ UNCHANGED <<games, told>>
        /\ granted' = granted \/ granted' = granted \cup {r}
    BY <1>r, <1>3 DEF game_invite_reply, gvars, Resolve
  <2> QED BY <1>r, <1>0, <2>1, ResolveServes
<1> QED BY <1>1, <1>2, <1>3 DEF Loop

LEMMA NextServes ==
  ASSUME IInv, ToldOnce, [Next]_vars
  PROVE  Serves
<1>1. CASE UNCHANGED vars
  <2>1. /\ UNCHANGED <<requests, jobs, pending, allocated, crashed>>
        /\ UNCHANGED <<games, told, granted, user_document>>
    BY <1>1 DEF vars, rvars, gvars
  <2>2. ToldOnce'
    BY <2>1 DEF ToldOnce, Begun, Notice
  <2>3. UNCHANGED Abstract!vars
    BY <2>1 DEF Abstract!vars, Invitations, Asked, Origin
  <2> QED BY <2>2, <2>3 DEF Serves
<1>2. CASE Clients
  <2>1. ~crashed
    BY <1>2 DEF Clients
  <2>2. ASSUME NEW a \in Addresses, Connect(a) \/ clean_up(a),
               UNCHANGED <<gvars, user_document, granted>>
        PROVE  Serves
    <3>1. UNCHANGED <<requests, jobs, pending, allocated, games, told, granted>>
      BY <2>2 DEF Connect, accept_connection_cb, clean_up, gvars
    <3>2. Grows /\ Invitations' = Invitations
      BY <2>2, <3>1 DEF Grows, Invitations, Asked, Origin
    <3> QED BY <2>1, <3>1, <3>2, QuietServes
  <2> QED BY <1>2, <2>1, <2>2, AskServes, AnswerServes DEF Clients
<1> QED BY <1>1, <1>2, LoopServes, DatabaseServes, TimerServes DEF Next

\* Invitations serve their players as InviteService does: the look-ups, the insert,
\* the contexts and the table of games never show.
THEOREM InvitesImplementService == Spec => ImplementsInviteService
<1>1. Init => ToldOnce /\ Abstract!Init
  <2> SUFFICES ASSUME Init PROVE ToldOnce /\ Abstract!Init
    OBVIOUS
  <2>1. requests = <<>> /\ jobs = <<>> /\ pending = <<>> /\ allocated = {}
    BY DEF Init, RequestsInit
  <2>2. Invitations = {}
    BY <2>1 DEF Invitations
  <2> QED BY <2>1, <2>2 DEF Init, ToldOnce, Elems, Abstract!Init
<1>2. IInv /\ ToldOnce /\ [Next]_vars => ToldOnce' /\ [Abstract!Next]_Abstract!vars
  BY NextServes DEF Serves
<1> QED BY <1>1, <1>2, Invariance, PTL DEF Spec, ImplementsInviteService, Abstract!Spec

-----------------------------------------------------------------------------
(* Clients that leave before their answer *)
Gone(r) == \A a \in Addresses : owner[a] # Origin(r)

\* An answer that reaches another connection comes of a client that left, and so
\* does the use of freed memory, unless a game was freed and somebody answered an
\* invitation.
BreaksHaveCauses ==
  /\ \A r \in 1..Len(requests) : \A i \in 1..Len(answers[r]) :
       answers[r][i] = Origin(r) \/ Gone(r)
  /\ crashed => \/ \E r \in 1..Len(requests) : Gone(r)
                \/ Spoken /\ \E g \in RequestIds : games[g] = "freed"

\* As in AccountsProofs: a request points at the context of its own connection as
\* long as the connection lasts.
Placed ==
  /\ \A a, b \in Addresses : owner[a] # NULL /\ owner[a] = owner[b] => a = b
  /\ \A a \in Addresses : owner[a] # NULL => owner[a] <= accepted
  /\ \A r \in 1..Len(requests) :
       /\ Origin(r) \in 1..accepted
       /\ \A a \in Addresses : owner[a] = Origin(r) => a = requests[r].ctx

Followed == Placed /\ BreaksHaveCauses

LEMMA ConnectionFollowed ==
  ASSUME IInv, ~crashed, Followed, NEW a \in Addresses, Connect(a) \/ clean_up(a),
         UNCHANGED gvars
  PROVE  Followed'
<1> USE RequestsAssumption DEF IInv, Types, Followed, Placed
<1>1. /\ UNCHANGED <<requests, answers, crashed>> /\ UNCHANGED games
      /\ owner \in [Addresses -> (1..MaxConns) \cup {NULL}] /\ accepted \in Nat
      /\ \/ owner' = [owner EXCEPT ![a] = accepted + 1] /\ accepted' = accepted + 1
         \/ owner' = [owner EXCEPT ![a] = NULL] /\ accepted' = accepted
  BY DEF Connect, accept_connection_cb, clean_up, gvars
<1>2. PICK c : /\ owner' = [owner EXCEPT ![a] = c]
               /\ \/ c = accepted + 1 /\ accepted' = accepted + 1
                  \/ c = NULL /\ accepted' = accepted
  <2>1. CASE owner' = [owner EXCEPT ![a] = accepted + 1] /\ accepted' = accepted + 1
    BY <2>1
  <2>2. CASE owner' = [owner EXCEPT ![a] = NULL] /\ accepted' = accepted
    BY <2>2
  <2> QED BY <1>1, <2>1, <2>2
<1>3. ASSUME NEW r \in 1..Len(requests)
      PROVE  /\ Origin(r)' = Origin(r) /\ Origin(r) \in 1..accepted
             /\ Origin(r) # c /\ Origin(r) # NULL
  <2>1. Origin(r)' = Origin(r) /\ Origin(r) \in 1..accepted
    BY <1>1 DEF Origin
  <2> QED BY <1>1, <1>2, <2>1
<1>4. \A b \in Addresses : /\ owner'[b] = IF b = a THEN c ELSE owner[b]
                           /\ owner[b] \in Nat => owner[b] <= accepted
                           /\ owner[b] \in Nat \/ owner[b] = NULL
  BY <1>1, <1>2
<1>5. Placed'
  BY <1>1, <1>2, <1>3, <1>4
<1>6. \A r \in 1..Len(requests) : Gone(r) => Gone(r)'
  BY <1>3, <1>4 DEF Gone
<1>7. BreaksHaveCauses'
  BY <1>1, <1>3, <1>6 DEF BreaksHaveCauses, Spoken, Asked
<1> QED BY <1>5, <1>7

\* A request comes from the connection that has its context; if it is an answer to
\* an invitation it may use a game that was freed.
LEMMA AskFollowed ==
  ASSUME IInv, ~crashed, Followed, NEW a \in Addresses, NEW body \in Bodies, NEW new,
         NEW user \in Session(a), Opens(a, body, new, user),
         answers' = answers \/ queue_error(new, a),
         \/ crashed' = crashed
         \/ Spoken' /\ \E g \in RequestIds : games'[g] = "freed"
  PROVE  Followed'
<1>1. Opened(a, body, new, user)
  BY NewRequest
<1>2. /\ new \in RequestIds /\ new \notin 1..Len(requests)
      /\ 1..Len(requests') = (1..Len(requests)) \cup {new}
      /\ \A r \in 1..Len(requests) : requests'[r] = requests[r]
      /\ requests'[new].ctx = a /\ requests'[new].origin = owner[a]
      /\ owner[a] \in 1..MaxConns /\ answers[new] = <<>>
      /\ UNCHANGED <<owner, accepted>>
      /\ answers' = answers \/ answers' = [answers EXCEPT ![new] = <<owner[a]>>]
  BY <1>1 DEF Opened, queue_error
<1>3. ASSUME NEW r \in 1..Len(requests)
      PROVE  /\ Origin(r)' = Origin(r) /\ answers'[r] = answers[r]
             /\ Gone(r) => Gone(r)'
  <2>1. Origin(r)' = Origin(r)
    BY <1>2 DEF Origin
  <2>2. answers'[r] = answers[r]
    BY <1>2, Waits DEF IInv, Types
  <2> QED BY <1>2, <2>1, <2>2 DEF Gone
<1>4. owner[a] \in 1..accepted /\ Origin(new)' = owner[a]
  BY <1>2, RequestsAssumption DEF Origin, Followed, Placed, IInv, Types
<1>5. Placed'
  <2>1. ASSUME NEW r \in 1..Len(requests')
        PROVE  /\ Origin(r)' \in 1..accepted
               /\ \A b \in Addresses : owner[b] = Origin(r)' => b = requests'[r].ctx
    <3>1. CASE r = new
      BY <1>2, <1>4, <3>1, RequestsAssumption DEF Followed, Placed
    <3>2. CASE r # new
      BY <1>2, <1>3, <3>2 DEF Followed, Placed
    <3> QED BY <3>1, <3>2
  <2> QED BY <1>2, <2>1 DEF Followed, Placed
<1>6. \A i \in 1..Len(answers'[new]) : answers'[new][i] = owner[a]
  <2>1. Len(<<owner[a]>>) = 1 /\ <<owner[a]>>[1] = owner[a] /\ Len(<<>>) = 0
    OBVIOUS
  <2>2. answers'[new] = <<>> \/ answers'[new] = <<owner[a]>>
    BY <1>2 DEF IInv, Types
  <2> QED BY <2>1, <2>2
<1>7. BreaksHaveCauses'
  BY <1>2, <1>3, <1>4, <1>6 DEF Followed, BreaksHaveCauses
<1> QED BY <1>5, <1>7 DEF Followed

\* Whoever has the context now, if it is not the connection that asked, that is gone.
LEMMA ResolveFollowed ==
  ASSUME IInv, ~crashed, Followed, NEW cb, Callback(cb), NEW r, r = Head(pending).req,
         Resolve(r)
  PROVE  Followed'
<1> DEFINE c == owner[requests[r].ctx]
<1>1. /\ UNCHANGED <<owner, requests, accepted>>
      /\ r \in RequestIds /\ r \in 1..Len(requests)
      /\ requests[r] \in Request /\ answers[r] = <<>>
  BY CallbackFacts
<1>2. \/ c = NULL /\ crashed' = TRUE /\ answers' = answers
      \/ c # NULL /\ crashed' = crashed /\ answers' = [answers EXCEPT ![r] = Append(@, c)]
  BY DEF Resolve, queue_write
<1>3. c = Origin(r) \/ Gone(r)
  BY <1>1 DEF Followed, Placed, Gone, Request
<1>4. Origin(r) # NULL
  BY <1>1, RequestsAssumption DEF Request, Origin
<1> HIDE DEF c
<1>5. /\ Placed'
      /\ \A q : Origin(q)' = Origin(q)
      /\ \A q : Gone(q) => Gone(q)'
  <2>1. \A q : Origin(q)' = Origin(q)
    BY <1>1 DEF Origin
  <2>2. Placed'
    BY <1>1, <2>1 DEF Followed, Placed
  <2>3. ASSUME NEW q, Gone(q) PROVE Gone(q)'
    BY <1>1, <2>1, <2>3 DEF Gone
  <2> QED BY <2>1, <2>2, <2>3
<1>6. CASE c = NULL /\ crashed' = TRUE /\ answers' = answers
  BY <1>1, <1>3, <1>4, <1>5, <1>6 DEF Followed, BreaksHaveCauses
<1>7. CASE c # NULL /\ crashed' = crashed /\ answers' = [answers EXCEPT ![r] = Append(@, c)]
  <2>1. /\ answers'[r] = Append(<<>>, c)
        /\ \A q \in 1..Len(requests) : q # r => answers'[q] = answers[q]
    BY <1>1, <1>7, Waits DEF IInv, Types
  <2>2. \A i \in 1..Len(Append(<<>>, c)) : Append(<<>>, c)[i] = c
    OBVIOUS
  <2> QED BY <1>1, <1>3, <1>5, <1>7, <2>1, <2>2 DEF Followed, BreaksHaveCauses
<1> QED BY <1>2, <1>6, <1>7

\* A game that is used after it was freed has a timer that should not run, or an
\* answer found it.
LEMMA NextFollowed ==
  ASSUME IInv, Followed, [Next]_vars
  PROVE  Followed'
<1>1. CASE UNCHANGED <<owner, requests, accepted, answers, crashed, games>>
  BY <1>1 DEF Followed, Placed, BreaksHaveCauses, Gone, Origin, Spoken, Asked
<1>2. CASE ~crashed /\ UNCHANGED <<owner, requests, accepted, answers>>
           /\ \/ crashed' = crashed
              \/ Spoken /\ \E g \in RequestIds : games'[g] = "freed"
  BY <1>2 DEF Followed, Placed, BreaksHaveCauses, Gone, Origin, Spoken, Asked
<1>3. CASE Loop
  <2>1. PICK cb : ~crashed /\ Callback(cb)
    BY <1>3 DEF Loop, game_invite_get_user_document,
                game_invite_get_invitee_document_and_notify, game_invite_reply
  <2>2. Resolve(Head(pending).req) \/ UNCHANGED <<answers, crashed>>
    BY <1>3 DEF Loop, game_invite_get_user_document,
                game_invite_get_invitee_document_and_notify, game_invite_reply
  <2>3. CASE UNCHANGED <<answers, crashed>>
    BY <1>2, <2>1, <2>3 DEF Callback
  <2> QED BY <2>1, <2>2, <2>3, ResolveFollowed
<1>4. CASE Database
  BY <1>2, <1>4 DEF Database
<1>5. CASE \E g \in RequestIds : Timer(g)
  BY <1>2, <1>5 DEF Timer, game_start_timer_short, UseAfterFree, gvars, IInv, Freed
<1>6. CASE Clients
  <2>0. ~crashed
    BY <1>6 DEF Clients
  <2>1. ASSUME NEW a \in Addresses, NEW body \in Bodies, game_invite_handler(a, body)
        PROVE  Followed'
    <3>new. PICK new : new = Len(requests) + 1
      OBVIOUS
    <3>1. PICK user \in Session(a) :
            /\ Opens(a, body, new, user)
            /\ queue_error(new, a) \/ UNCHANGED <<answers, crashed>>
      BY <2>1, <3>new DEF game_invite_handler, Opens
    <3>2. crashed' = crashed /\ (answers' = answers \/ queue_error(new, a))
      BY <3>1 DEF queue_error
    <3> QED BY <2>0, <3>1, <3>2, AskFollowed
  <2>2. ASSUME NEW a \in Addresses, NEW body \in Bodies, body.kind = "resolve",
               resolve_game_invite_handler(a, body)
        PROVE  Followed'
    <3>new. PICK new : new = Len(requests) + 1
      OBVIOUS
    <3>1. PICK user \in Session(a) :
            /\ Opens(a, body, new, user)
            /\ queue_error(new, a) \/ (Verdict(body) /\ answers' = answers)
      BY <2>2, <3>new DEF resolve_game_invite_handler, Opens
    <3>2. Opened(a, body, new, user)
      BY <2>0, <3>1, NewRequest
    <3>3. Spoken'
      BY <2>2, <3>2 DEF Opened, Spoken, Asked
    <3>4. CASE queue_error(new, a)
      <4>1. crashed' = crashed
        BY <3>4 DEF queue_error
      <4> QED BY <2>0, <3>1, <3>4, <4>1, AskFollowed
    <3>5. CASE Verdict(body) /\ answers' = answers
      <4>1. crashed' = crashed \/ \E g \in RequestIds : games'[g] = "freed"
        BY <3>5 DEF Verdict, str_hash_get, UseAfterFree, gvars, IInv, GameTypes
      <4> QED BY <2>0, <3>1, <3>3, <3>5, <4>1, AskFollowed
    <3> QED BY <3>1, <3>4, <3>5
  <2> QED BY <1>6, <2>0, <2>1, <2>2, ConnectionFollowed DEF Clients
<1> QED BY <1>1, <1>3, <1>4, <1>5, <1>6 DEF Next, vars, rvars, gvars

\* Whoever breaks off, and however contexts and games are freed: strays come of
\* clients that left, crashes of them or of answers to invitations.
THEOREM BreaksAreCaused == Spec => []BreaksHaveCauses
<1>1. Init => Followed
  BY RequestsAssumption DEF Init, RequestsInit, Followed, Placed, BreaksHaveCauses
<1>2. IInv /\ Followed /\ [Next]_vars => Followed'
  BY NextFollowed
<1>3. Followed => BreaksHaveCauses
  BY DEF Followed
<1> QED BY <1>1, <1>2, <1>3, Invariance, PTL DEF Spec
=============================================================================
