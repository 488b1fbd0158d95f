------------------------------- MODULE Invites -------------------------------
(* Invitations to a game: game_invite_handler.c with its three callbacks and   *)
(* the timer of a short game, and resolve_game_invite_handler.c.  A game has   *)
(* the number of the request that asked for it; users stand for their oids,    *)
(* tokens and names.  Whom a notification reaches is for Subscriptions to say. *)
EXTENDS Requests

CONSTANTS
  Users,   \* those in the collection, all logged in
  UserOf   \* whose token the client of a connection sends

ASSUME InvitesAssumption ==
  /\ UserOf \in [1..MaxConns -> Users]
  /\ NULL \notin Users

VARIABLES
  oid,            \* connection_ctx->oid: the user that a context acts for
  user_document,  \* the user that a request acts for
  games,          \* a request's game_t: "none", "pending", "playing" or "freed"
  active_games,   \* the games that the table has an entry of
  timers,         \* the games whose 30 seconds run
  stored,         \* the games in the collection
  told,           \* history: the notifications to a user's subscribers
  granted         \* history: the requests answered with a GameInviteReply

gvars == <<games, active_games, timers, told>>
vars  == <<rvars, gvars, oid, user_document, stored, granted>>

\* A name is NULL when it is missing or nobody's.  Which game a client answers does
\* not decide which one the table gives: see str_hash_get.
Bodies ==
       [kind : {"invite"}, name : Users \cup {NULL}]
  \cup [kind : {"resolve"}, accepted_status : BOOLEAN]

Init ==
  /\ RequestsInit
  /\ oid = [a \in Addresses |-> NULL]
  /\ user_document = [r \in RequestIds |-> NULL]
  /\ games = [r \in RequestIds |-> "none"]
  /\ active_games = {} /\ timers = {} /\ stored = {}
  /\ told = {} /\ granted = {}

Notice(what, g, user) == [what |-> what, game |-> g, to |-> user]
Players_Late(g)       == {oid[requests[g].ctx], requests[g].body.name}  \* mutant
Players(g)            == {user_document[g], requests[g].body.name}
NoticeAll(what, g)    == {Notice(what, g, u) : u \in Players(g)}

-----------------------------------------------------------------------------
(* Connections *)
\* Mutant: the context keeps what malloc finds there.
Connect_Unset(a) == accept_connection_cb(a) /\ UNCHANGED oid
Connect(a)       == accept_connection_cb(a) /\ oid' = [oid EXCEPT ![a] = NULL]

\* VALIDATE_SESSION_TOKEN: only the first token on a connection is looked at; it is
\* its user's, or it is missing or nobody's.
Session(a) == IF oid[a] # NULL THEN {oid[a]} ELSE {UserOf[owner[a]], NULL}

queue_error(r, a) ==
  /\ answers' = [answers EXCEPT ![r] = <<owner[a]>>]
  /\ UNCHANGED <<closing, crashed, allocated, jobs>>

-----------------------------------------------------------------------------
(* The table of games *)
\* The keys of the table are strings that game_invite_get_invitee_document_and_notify
\* frees.  A look-up compares with what lies there since, and that may be the very
\* string looked up: it finds nothing, or an entry, whosever that is.
str_hash_get    == {NULL} \cup active_games
Unlinked        == {active_games} \cup {active_games \ {g} : g \in active_games}
str_hash_remove == active_games' \in Unlinked
str_hash_add(g) == active_games' \in {rest \cup {g} : rest \in Unlinked}

\* A game that was freed before is used.
UseAfterFree == crashed' = TRUE /\ UNCHANGED gvars

Timeout(g) ==
  /\ told' = told \cup NoticeAll("timeout", g)
  /\ str_hash_remove
  /\ games' = [games EXCEPT ![g] = "freed"]

\* Mutant: the timer is a repeating one.
game_start_timer_short_Repeated(g) ==
  /\ g \in timers
  /\ \/ games[g] = "freed" /\ UseAfterFree
     \/ games[g] # "freed" /\ Timeout(g) /\ UNCHANGED <<timers, crashed>>
  /\ UNCHANGED <<owner, closing, requests, allocated, jobs, pending, accepted, answers,
                 oid, user_document, stored, granted>>

game_start_timer_short(g) ==
  /\ g \in timers
  /\ \/ games[g] = "freed" /\ UseAfterFree
     \/ /\ games[g] # "freed"
        /\ Timeout(g)
        /\ timers' = timers \ {g}
        /\ UNCHANGED crashed
  /\ UNCHANGED <<owner, closing, requests, allocated, jobs, pending, accepted, answers,
                 oid, user_document, stored, granted>>

-----------------------------------------------------------------------------
(* game_invite_handler *)
game_invite_handler(a, body) ==
  LET r == Len(requests) + 1 IN
  \E user \in Session(a) :
      /\ message_handler(a, body)
      /\ oid' = [oid EXCEPT ![a] = user]
      /\ user_document' = [user_document EXCEPT ![r] = user]
      /\ \/ user = NULL /\ queue_error(r, a)
         \/ /\ user # NULL
            /\ database_operation(r, "QUERY", "user")
            /\ allocated' = allocated \cup {r}
            /\ UNCHANGED <<closing, answers, crashed>>
      /\ UNCHANGED <<gvars, stored, granted>>

Callback(cb) ==
  /\ pending # <<>> /\ Head(pending).cb = cb
  /\ pending' = Tail(pending)
  /\ UNCHANGED <<owner, closing, requests, accepted, oid, user_document, stored>>

\* Mutant: the error path goes on to the second query.
game_invite_get_user_document_NoReturn ==
  /\ Callback("user")
  /\ LET r == Head(pending).req
     IN  /\ IF Head(pending).result = NULL THEN Resolve(r)
            ELSE UNCHANGED <<answers, crashed, allocated>>
         /\ database_operation(r, "QUERY", "invitee")
  /\ UNCHANGED <<gvars, granted>>

game_invite_get_user_document ==
  /\ Callback("user")
  /\ LET r == Head(pending).req
     IN  \/ /\ \/ Head(pending).result \in {NULL, <<>>}
               \/ requests[r].body.name = NULL
            /\ Resolve(r)
            /\ UNCHANGED jobs
         \/ /\ Head(pending).result \notin {NULL, <<>>}
            /\ database_operation(r, "QUERY", "invitee")
            /\ UNCHANGED <<answers, crashed, allocated>>
  /\ UNCHANGED <<gvars, granted>>

\* Mutant: nobody ends the invitation if nobody answers it.
store_game_in_memory_Untimed(r) ==
  /\ games' = [games EXCEPT ![r] = "pending"]
  /\ str_hash_add(r)
  /\ UNCHANGED timers

\* The game is put into the table and its timer is set.
store_game_in_memory(r) ==
  /\ games' = [games EXCEPT ![r] = "pending"]
  /\ str_hash_add(r)
  /\ timers' = timers \cup {r}

\* The time controls, which nothing else looks at, decide where the game goes.
game_invite_get_invitee_document_and_notify ==
  /\ Callback("invitee")
  /\ LET r      == Head(pending).req
         result == Head(pending).result
     IN  \/ /\ result \in {NULL, <<>>}
            /\ Resolve(r)
            /\ UNCHANGED <<jobs, gvars, granted>>
         \/ /\ result \notin {NULL, <<>>}
            /\ told' = told \cup {Notice("invite", r, result[1])}
            /\ \/ /\ database_operation(r, "INSERT", "inserted")
                  /\ UNCHANGED <<answers, crashed, allocated, games, active_games, timers,
                                 granted>>
               \/ /\ store_game_in_memory(r)
                  /\ Resolve(r)
                  /\ granted' = granted \cup {r}
                  /\ UNCHANGED jobs

\* Mutant: the result is not looked at.
game_invite_reply_Blind ==
  /\ Callback("inserted")
  /\ Resolve(Head(pending).req)
  /\ granted' = granted \cup {Head(pending).req}
  /\ UNCHANGED <<jobs, gvars>>

game_invite_reply ==
  /\ Callback("inserted")
  /\ Resolve(Head(pending).req)
  /\ granted' = IF Head(pending).result = NULL THEN granted
                ELSE granted \cup {Head(pending).req}
  /\ UNCHANGED <<jobs, gvars>>

-----------------------------------------------------------------------------
(* resolve_game_invite_handler *)
Accept(g) ==
  /\ games' = [games EXCEPT ![g] = "playing"]
  /\ told' = told \cup NoticeAll("accept", g)
  /\ UNCHANGED active_games

Decline(g) ==
  /\ told' = told \cup NoticeAll("decline", g)
  /\ str_hash_remove
  /\ games' = [games EXCEPT ![g] = "freed"]

\* The request is neither answered nor is its context freed: nothing looks at it
\* again, so it is not in allocated.
Verdict(body) ==
  \E g \in str_hash_get :
    \/ g = NULL /\ UNCHANGED <<gvars, crashed>>
    \/ g # NULL /\ games[g] = "freed" /\ UseAfterFree
    \/ /\ g # NULL /\ games[g] # "freed"
       /\ IF body.accepted_status THEN Accept(g) ELSE Decline(g)
       /\ UNCHANGED <<timers, crashed>>

\* The fields other than the token may be missing.
resolve_game_invite_handler(a, body) ==
  LET r == Len(requests) + 1 IN
  \E user \in Session(a) :
      /\ message_handler(a, body)
      /\ oid' = [oid EXCEPT ![a] = user]
      /\ user_document' = [user_document EXCEPT ![r] = user]
      /\ \/ queue_error(r, a) /\ UNCHANGED gvars
         \/ user # NULL /\ Verdict(body) /\ UNCHANGED <<closing, answers, allocated, jobs>>
      /\ UNCHANGED <<stored, granted>>

-----------------------------------------------------------------------------
(* database_thread, as in Accounts; the users do not change here. *)
Database ==
  /\ ~crashed
  /\ jobs # <<>>
  /\ jobs' = Tail(jobs)
  /\ LET r == Head(jobs).req
         Done(result) == pending' = Append(pending, [req |-> r, cb |-> Head(jobs).cb,
                                                     result |-> result])
     IN  \/ Done(NULL) /\ UNCHANGED stored
         \/ /\ Head(jobs).cb = "user" /\ Done(<<user_document[r]>>)
            /\ UNCHANGED stored
         \/ /\ Head(jobs).cb = "invitee"
            /\ Done(IF requests[r].body.name = NULL THEN <<>> ELSE <<requests[r].body.name>>)
            /\ UNCHANGED stored
         \/ /\ Head(jobs).operation = "INSERT"
            /\ stored' = stored \cup {r}
            /\ Done(NULL) \/ Done(<<>>)
  /\ UNCHANGED <<owner, closing, requests, allocated, crashed, accepted, answers,
                 gvars, oid, user_document, granted>>

-----------------------------------------------------------------------------
Loop ==
  /\ ~crashed
  /\ \/ game_invite_get_user_document
     \/ game_invite_get_invitee_document_and_notify
     \/ game_invite_reply

Timer(g) == ~crashed /\ game_start_timer_short(g)

Clients ==
  /\ ~crashed
  /\ \E a \in Addresses :
       \/ Connect(a) /\ UNCHANGED <<gvars, user_document, stored, granted>>
       \/ clean_up(a) /\ UNCHANGED <<gvars, oid, user_document, stored, granted>>
       \/ \E body \in Bodies :
            /\ owner[a] # NULL
            /\ \/ body.kind = "invite" /\ game_invite_handler(a, body)
               \/ body.kind = "resolve" /\ resolve_game_invite_handler(a, body)

Next == Loop \/ Database \/ Clients \/ \E g \in RequestIds : Timer(g)

Spec == Init /\ [][Next]_vars

\* Both threads go on, and a timer fires when its time has come.  Clients do as
\* they please.
FairSpec ==
  Spec /\ WF_vars(Loop) /\ WF_vars(Database) /\ \A g \in RequestIds : WF_vars(Timer(g))

-----------------------------------------------------------------------------
TypeOK ==
  /\ owner \in [Addresses -> (1..MaxConns) \cup {NULL}]
  /\ Len(requests) <= MaxRequests
  /\ \A r \in 1..Len(requests) :
       requests[r] \in [ctx : Addresses, origin : 1..MaxConns, body : Bodies,
                        since : SUBSET RequestIds]
  /\ allocated \subseteq RequestIds
  /\ \A j \in 1..Len(jobs) :
       jobs[j] \in [req : RequestIds, operation : {"QUERY", "INSERT"},
                    cb : {"user", "invitee", "inserted"}]
  /\ \A i \in 1..Len(pending) :
       pending[i].result \in {NULL, <<>>} \cup {<<u>> : u \in Users}
  /\ oid \in [Addresses -> Users \cup {NULL}]
  /\ user_document \in [RequestIds -> Users \cup {NULL}]
  /\ games \in [RequestIds -> {"none", "pending", "playing", "freed"}]
  /\ timers \subseteq RequestIds
  /\ active_games \subseteq RequestIds /\ stored \subseteq RequestIds
  /\ granted \subseteq RequestIds
  /\ told \subseteq [what : {"invite", "accept", "decline", "timeout"}, game : RequestIds,
                     to : Users]
  /\ crashed \in BOOLEAN

Asked(r)    == requests[r].body.kind = "invite"
UnderWay(r) == \/ \E j \in 1..Len(jobs) : jobs[j].req = r
               \/ \E i \in 1..Len(pending) : pending[i].req = r

\* Through its three operations a request to invite has one of them under way, or
\* it has its one answer and its context is freed: the game's reply or an error.
OneAnswer ==
  ~crashed => \A r \in 1..Len(requests) :
    /\ Len(answers[r]) <= 1
    /\ r \in allocated <=> UnderWay(r)
    /\ Asked(r) => (r \in allocated <=> ~Answered(r))

\* Who gets a GameInviteReply has a game, in memory or in the collection.  Who is
\* told of an invitation can answer it, or its insert is under way or has failed,
\* and then the one who sent it got an error, or the program crashed on the way.
InvitesAreReal ==
  LET Real(g) == g \in stored \/ games[g] # "none" IN
  /\ \A r \in granted : Real(r)
  /\ \A n \in told : \/ Real(n.game) \/ UnderWay(n.game) \/ crashed
                     \/ Answered(n.game) /\ n.game \notin granted

\* The two players can go by what they are told, whatever fails and whoever has the
\* connection's context by then: the sender is the user whose client asked, the
\* other is told once, nobody of a refused request, and nothing more is heard of a
\* game that is over (game_invite_handler.c:69-262).
Invitations ==
  {[game |-> r, from |-> UserOf[Origin(r)], to |-> requests[r].body.name] :
     r \in {q \in 1..Len(requests) : Asked(q)}}

Abstract == INSTANCE InviteService WITH
  Ids <- RequestIds, Nobody <- NULL, invites <- Invitations, waiting <- allocated

ImplementsInviteService == Abstract!Spec

\* Games that nobody answers are freed once and not used again: a game that is
\* used after it was freed has been answered.
OnlyAnswersBreak ==
  crashed => /\ \E g \in RequestIds : games[g] = "freed"
             /\ \E r \in 1..Len(requests) : ~Asked(r)

\* Every request to invite is answered, and no invitation to a short game stays
\* open: somebody answers it or its timer ends it.
InvitesSettle ==
  \A r \in RequestIds :
    /\ r \in allocated ~> r \notin allocated \/ crashed
    /\ games[r] = "pending" ~> games[r] # "pending" \/ crashed

\* "If they accept we start a game": a game that was accepted goes on until another
\* answer to its invitation comes in; the invitation's timer does not end it.
AcceptedPlays ==
  [][\A g \in RequestIds : games[g] = "playing" =>
       games'[g] = "playing" \/ Len(requests') > Len(requests)]_vars
=============================================================================
