--------------------------- MODULE AccountService ---------------------------
(* What registration and login promise: requests are registered, granted or   *)
(* refused one at a time, on a set of members, as if nothing could fail or    *)
(* come between.                                                              *)
EXTENDS Naturals, Sequences

CONSTANT Bodies   \* what a request may ask: its kind, a username and a password

VARIABLES
  asked,     \* the requests so far, with those that were done when each was asked
  done,      \* the requests that were granted or refused
  members,   \* the registered users
  sessions   \* the sessions granted, each to a request and for a user

vars == <<asked, done, members, sessions>>

Init == asked = <<>> /\ done = {} /\ members = {} /\ sessions = {}

\* A request may be refused as soon as it is asked.
Ask(body) ==
  /\ asked' = Append(asked, [body |-> body, since |-> done])
  /\ done' \in {done, done \cup {Len(asked) + 1}}
  /\ UNCHANGED <<members, sessions>>

Open     == 1..Len(asked) \ done
Named(r) == {m \in members : m.username = asked[r].body.username}

\* A name is open to every registration that overlaps with the one that gets it.
Register(r) ==
  /\ asked[r].body.kind = "register"
  /\ \A m \in Named(r) : m.oid # r /\ m.oid \notin asked[r].since
  /\ members' = members \cup {[oid |-> r, username |-> asked[r].body.username,
                               password |-> asked[r].body.password]}
  /\ UNCHANGED <<asked, done, sessions>>

\* A session is for the user that the request registered, or for one whose name
\* and password it gives.
Grant(r) ==
  /\ \E m \in Named(r) :
       /\ m.password = asked[r].body.password
       /\ asked[r].body.kind = "register" => m.oid = r
       /\ sessions' = sessions \cup {[token |-> r, oid |-> m.oid]}
  /\ done' = done \cup {r}
  /\ UNCHANGED <<asked, members>>

\* Whatever was asked, the database may fail; a user may stay without a session.
Refuse(r) ==
  /\ done' = done \cup {r}
  /\ UNCHANGED <<asked, members, sessions>>

Next ==
  \/ \E body \in Bodies : Ask(body)
  \/ \E r \in Open : Register(r) \/ Grant(r) \/ Refuse(r)

Spec == Init /\ [][Next]_vars
=============================================================================
