------------------------------ MODULE MCVoodoo ------------------------------
(* What clients send, and what the linker put after the table of operands. *)
EXTENDS VoodooProperties

\* Single bytes, so that commands arrive in pieces, and a byte that is no
\* action; and all in one, so that several commands arrive together.
Pieces == {<<KEEPALIVE>>, <<SWITCH_ON>>, <<AUTO_ON_TIME>>, <<ACTION_RANGE>>,
           <<AUTO_OFF_TIME, 1, 11>>}

\* Whole commands only.
Commands == {<<KEEPALIVE>>, <<SWITCH_ON, 9, 0>>}

\* Keepalives, one at a time or three at once.
KeepalivesOnly == {<<KEEPALIVE>>, <<KEEPALIVE, KEEPALIVE, KEEPALIVE>>}

PastTableBytes == [c \in 11..14 |-> 3]
=============================================================================
