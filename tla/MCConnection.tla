---------------------------- MODULE MCConnection ----------------------------
(* Packets with messages of 1, 2, 0 and 1 bytes: an empty one with a packet   *)
(* after it.                                                                  *)
EXTENDS Connection

MCLength == <<1, 2, 0, 1>>
=============================================================================
