-------------------------- MODULE VoodooProperties --------------------------
(* What voodoospark.cpp promises to its clients.                           *)
EXTENDS Voodoo

(* The types and bounds; the one that could fail is the buffer's: the      *)
(* bytes read never outnumber MAX_DATA_BYTES, however many reads, leftover *)
(* bytes and half-received commands come together before it is emptied.    *)
TypeOK ==
    /\ client \in {"none", "open", "closed"}
    /\ inbox \in Seq(Byte) /\ sent \in Seq(Byte) /\ consumed \in Seq(Byte)
    /\ buffer \in Seq(Byte) /\ Len(buffer) <= MAX_DATA_BYTES
    /\ waiting \in BOOLEAN /\ isConnected \in BOOLEAN
    /\ sessions \in 0..MaxSessions
    /\ silence \in 0..KEEPALIVE_TIMEOUT
    /\ pc \in {"idle", "process", "call"}
    /\ acks \in Nat
    /\ quietFor \in 0..Patience /\ sinceLoop \in 0..Lateness + 1

(* No byte of a session is lost, invented, repeated or reordered, and none *)
(* comes from an earlier client: what commands consumed, what is buffered  *)
(* and what is still in the socket make up what this client sent.          *)
StreamIntegrity == consumed \o buffer \o inbox = sent

\* A set of positions in the stream closed under "a command follows here".
ClosedUnderCommands(ends) ==
    \A p \in ends :
        p < Len(sent) /\ sent[p + 1] < ACTION_RANGE =>
            LET q == p + CommandLength(sent[p + 1])
            IN  q <= Len(sent) => q \in ends

(* The server stays in step with the client's framing: what was consumed   *)
(* ends where a command of the stream ends, counted from its first byte,   *)
(* so that no operand is ever taken for an action.                         *)
InStep ==
    \A ends \in SUBSET (0..Len(sent)) :
        0 \in ends /\ ClosedUnderCommands(ends) => Len(consumed) \in ends

Server == INSTANCE CommandStream WITH
              Length    <- [action \in 0..ACTION_RANGE - 1 |-> CommandLength(action)],
              Questions <- {KEEPALIVE},
              stream    <- sent,
              done      <- Len(consumed),
              calling   <- pc = "call",
              answers   <- acks

(* _loop and processInput, with their buffer, partial reads, timeouts and  *)
(* resets, are to the client a server of commands: whole ones, one at a    *)
(* time, in order, each executed once and answered at most once.           *)
ServesCommands == Server!Spec

(* A session whose buffer starts with a byte that is no action can execute *)
(* nothing any more, keepalives included; it is closed in the end, which   *)
(* makes room for another client.                                          *)
StuckSessionEnds ==
    (pc = "idle" /\ isConnected /\ buffer # <<>> /\ buffer[1] >= ACTION_RANGE)
        ~> ~isConnected

(* "Number of Seconds not received keepalives takeoff client": a client is *)
(* dropped only when none of its keepalives arrived for Patience seconds,  *)
(* or when _loop has not run for more than Lateness seconds.  It holds for *)
(* a client that sends only keepalives when Patience + Lateness is not     *)
(* more than KEEPALIVE_TIMEOUT.  The timeout itself is too much to wait:   *)
(* _loop looks at the time of the last keepalive before it reads the one   *)
(* that has arrived since it last ran.                                     *)
LiveClientKept == [][PollExpire => Lapsed \/ sinceLoop > Lateness]_vars

----------------------------------------------------------------------------
(* What comments say of the buffer, and the code does not do.              *)

(* "If there were leftover bytes available, call processInput. This        *)
(* mechanism will continue until the buffer is exhausted": between two     *)
(* runs of _loop the buffer holds no whole command.                        *)
LeftoversProcessed == pc = "idle" => ~StartsCommand(buffer)
=============================================================================
