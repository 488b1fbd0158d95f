------------------------------ MODULE MCInvites ------------------------------
(* The first connection is one user's, the second another's. *)
EXTENDS Invites

CONSTANTS u1, u2

MCUserOf == [c \in 1..MaxConns |-> IF c = 1 THEN u1 ELSE u2]
=============================================================================
