---------------------------- MODULE InviteService ----------------------------
(* What invitations promise their players: who asks for one is answered, who  *)
(* is invited is told once and by whom, and the two hear alike what becomes of *)
(* the game until it is over, and nothing after.                              *)
CONSTANTS
  Ids,
  Users,
  Nobody   \* whom a name stands for that is no user's

VARIABLES
  invites,  \* the invitations asked for: from whom, for whom
  waiting,  \* those whose sender has no reply yet
  games,    \* a short game: "none", "pending", "playing" or "freed"
  told,     \* what was told to whom
  granted   \* those whose sender was told that the invitation is out

vars == <<invites, waiting, games, told, granted>>

Init ==
  /\ invites = {} /\ waiting = {}
  /\ games = [g \in Ids |-> "none"]
  /\ told = {} /\ granted = {}

Notice(what, i, user) == [what |-> what, game |-> i.game, to |-> user]
Both(what, i) == {Notice(what, i, user) : user \in {i.from, i.to}}

\* A request may be refused as soon as it is made.
Ask(i) ==
  /\ \A j \in invites : j.game # i.game
  /\ invites' = invites \cup {i}
  /\ waiting' \in {waiting, waiting \cup {i.game}}
  /\ UNCHANGED <<games, told, granted>>

\* The other player is told once, of a short game, which is there at once, or of
\* one whose sender has yet to hear whether it came to be.
Invite(i) ==
  /\ i.game \in waiting /\ i.to # Nobody
  /\ \A n \in told : n.game # i.game
  /\ told' = told \cup {Notice("invite", i, i.to)}
  /\ \/ UNCHANGED <<waiting, games, granted>>
     \/ /\ games' = [games EXCEPT ![i.game] = "pending"]
        /\ granted' = granted \cup {i.game}
        /\ waiting' = waiting \ {i.game}
  /\ UNCHANGED invites

\* Nobody is told that an invitation is out before the other player has it.
Grant(i) ==
  /\ i.game \in waiting /\ Notice("invite", i, i.to) \in told
  /\ granted' = granted \cup {i.game}
  /\ waiting' = waiting \ {i.game}
  /\ UNCHANGED <<invites, games, told>>

Refuse(i) ==
  /\ i.game \in waiting
  /\ waiting' = waiting \ {i.game}
  /\ UNCHANGED <<invites, games, told, granted>>

\* A game is accepted, declined or timed out while it is not over, and its time
\* may be up though it was accepted.
Goes(i, what, on) ==
  /\ games[i.game] \in {"pending", "playing"}
  /\ games' = [games EXCEPT ![i.game] = on]
  /\ told' = told \cup Both(what, i)
  /\ UNCHANGED <<invites, waiting, granted>>

Next ==
  \/ \E i \in [game : Ids, from : Users, to : Users \cup {Nobody}] : Ask(i)
  \/ \E i \in invites : \/ Invite(i) \/ Grant(i) \/ Refuse(i)
                        \/ Goes(i, "accept", "playing")
                        \/ Goes(i, "decline", "freed")
                        \/ Goes(i, "timeout", "freed")

Spec == Init /\ [][Next]_vars
=============================================================================
