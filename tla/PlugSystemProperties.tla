------------------------ MODULE PlugSystemProperties ------------------------
(* What the plug and its command server promise together.                  *)
EXTENDS PlugSystem, FiniteSets

\* The positions in the stream at which its commands begin, from 0: each but
\* the first is where the one before it ends, and the last ends the stream.
Begins(stream, starts) ==
    starts \cup {Len(stream)} =
        {0} \cup {p + Server!CommandLength(stream[p + 1]) : p \in starts}

\* The command at position p of the stream is answered: a keepalive, or a call
\* with operands in range, as the function that is called casts them.
Answered(stream, p) ==
    LET action == stream[p + 1] IN
    \/ action = Server!KEEPALIVE
    \/ /\ action \in {Server!SWITCH_ON, Server!SWITCH_OFF}
       /\ (stream[p + 2] + stream[p + 3] * 256) % WORD <= MAX_ONE_TIME_ON_OFF_TIMER
    \/ /\ action \in {Server!AUTO_ON_TIME, Server!AUTO_OFF_TIME}
       /\ stream[p + 2] % BYTE <= MAX_AUTO_OFF_ON_TIME

\* n is the number of commands in the stream that are answered.
Accounted(stream, n) ==
    \E starts \in SUBSET (0..Len(stream) - 1) :
        /\ Begins(stream, starts)
        /\ n = Cardinality({p \in starts : Answered(stream, p)})

(* A client is answered truthfully: one byte for each keepalive and for    *)
(* each call with operands in range, none for the others, and none of this *)
(* depends on what the cloud asks for at the same time, or gets wrong on   *)
(* the other thread, whose errno is its own.                               *)
AcksTrue == loop # "call" => Accounted(consumed, acks)

(* _loop returns, and with it the timer thread is free for every other     *)
(* timer, although the commands of a client make it wait for mutexes that  *)
(* cloud calls and one-shot switches take as well.                         *)
LoopReturns == loop # "idle" ~> loop = "idle"
=============================================================================
