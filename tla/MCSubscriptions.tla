--------------------------- MODULE MCSubscriptions ---------------------------
(* The descriptors 1, 256 and 257: two that differ in the byte a removal      *)
(* moves, two that differ in the next one, and one that is made of the others. *)
EXTENDS Subscriptions

MCFds == {<<1, 0, 0, 0>>, <<0, 1, 0, 0>>, <<1, 1, 0, 0>>}
=============================================================================
