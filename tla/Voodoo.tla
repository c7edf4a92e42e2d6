------------------------------- MODULE Voodoo -------------------------------
(***************************************************************************)
(* The TCP command server of voodoospark.cpp.  The 1 s timer t_voodootimer *)
(* runs _loop on the timer thread: it takes one client at a time, drops a  *)
(* client that was silent for KEEPALIVE_TIMEOUT seconds, moves bytes from  *)
(* the socket to the buffer, and lets processInput consume whole commands. *)
(*                                                                         *)
(* The seconds are those of Time.local(), which _loop reads; they pass     *)
(* whatever it does.  Its timer has a period of its own and shares its     *)
(* thread with other callbacks: between two seconds _loop runs once, often *)
(* or not at all.                                                          *)
(*                                                                         *)
(* hasAction and bytesExpecting hold a value only within one activation of *)
(* processInput and are not variables here; bytesRead is Len(buffer).  The *)
(* functions a command calls belong to SmartPlug: here such a call returns *)
(* whatever it likes.                                                      *)
(***************************************************************************)
EXTENDS Integers, Sequences

CONSTANTS
    MAX_DATA_BYTES,      \* size of the buffer, 128
    KEEPALIVE_TIMEOUT,   \* seconds, 15
    PastTable,           \* the bytes that follow bytesToExpectByAction
    Segments,            \* what a client writes at once
    Patience,            \* seconds between keepalives that count as a lapse
    Lateness,            \* seconds between two runs of _loop, at most, that
                         \* do not count as a late run
    MaxSent,             \* bound: bytes a client sends in one session
    MaxSessions          \* bound: clients that connect

KEEPALIVE     == 0
SWITCH_ON     == 1
SWITCH_OFF    == 2
AUTO_ON_TIME  == 6
AUTO_OFF_TIME == 7
ACTION_RANGE  == 15

Byte == 0..255

ASSUME VoodooAssumption ==
    /\ MAX_DATA_BYTES \in Nat \ {0}
    /\ KEEPALIVE_TIMEOUT \in Nat \ {0}
    /\ PastTable \in [11..14 -> Byte]
    /\ Segments \subseteq Seq(Byte) \ {<<>>}
    /\ Patience \in Nat /\ Lateness \in Nat
    /\ MaxSent \in Nat /\ MaxSessions \in Nat

VARIABLES
    client,       \* the TCPClient: "none", "open", or "closed" by the peer
    inbox,        \* bytes that arrived for it and were not read
    waiting,      \* another connection waits for server.available()
    sessions,     \* bound: connections so far
    isConnected,
    buffer,       \* its first bytesRead bytes
    silence,      \* Time.local() - lastKeepaliveTime, up to KEEPALIVE_TIMEOUT
    pc,           \* where _loop is: "idle", "process", "call"
    acks,         \* zero bytes written to this client
    sent,         \* history: the bytes this client sent
    consumed,     \* history: the bytes its executed commands had
    quietFor,     \* history: seconds since it sent a KEEPALIVE; Patience
                  \* from then on when it once sent none for that long
    sinceLoop     \* history: seconds since _loop began its last run for it

vars == <<client, inbox, waiting, sessions, isConnected, buffer, silence, pc,
          acks, sent, consumed, quietFor, sinceLoop>>

network == <<client, inbox, waiting, sessions>>
history == <<sent, consumed, quietFor, sinceLoop>>

Sooner(m, n) == IF m < n THEN m ELSE n

Init ==
    /\ client = "none" /\ inbox = <<>> /\ waiting = FALSE /\ sessions = 0
    /\ isConnected = FALSE /\ buffer = <<>> /\ silence = 0
    /\ pc = "idle"
    /\ acks = 0 /\ sent = <<>> /\ consumed = <<>>
    /\ quietFor = 0 /\ sinceLoop = 0

----------------------------------------------------------------------------
(* The clients and the network.                                            *)

Connect ==
    /\ ~waiting /\ sessions < MaxSessions
    /\ waiting' = TRUE /\ sessions' = sessions + 1
    /\ UNCHANGED <<client, inbox, isConnected, buffer, silence, pc, acks, history>>

Lapsed == quietFor = Patience

\* A client writes; its bytes arrive in order.
Send(segment) ==
    /\ client = "open"
    /\ Len(sent) + Len(segment) <= MaxSent
    /\ inbox' = inbox \o segment
    /\ sent' = sent \o segment
    /\ quietFor' = IF segment[1] = KEEPALIVE /\ ~Lapsed THEN 0 ELSE quietFor
    /\ UNCHANGED <<client, waiting, sessions, isConnected, buffer, silence,
                   pc, acks, consumed, sinceLoop>>

PeerClose ==
    /\ client = "open"
    /\ client' = "closed"
    /\ UNCHANGED <<inbox, waiting, sessions, isConnected, buffer, silence,
                   pc, acks, history>>

\* client.connected(): a closed connection counts until its bytes are read.
Connected == client = "open" \/ (client = "closed" /\ inbox # <<>>)

\* Power is lost or the device resets: connections, buffer and locals are gone.
Reset ==
    /\ client' = "none" /\ inbox' = <<>> /\ waiting' = FALSE
    /\ isConnected' = FALSE /\ buffer' = <<>> /\ silence' = 0
    /\ pc' = "idle"
    /\ acks' = 0 /\ sent' = <<>> /\ consumed' = <<>>
    /\ quietFor' = 0 /\ sinceLoop' = 0
    /\ UNCHANGED sessions

\* A second of Time.local() passes, wherever _loop is.  The counters stop at
\* the values from which on they make no difference.
Second ==
    /\ silence' = IF isConnected THEN Sooner(silence + 1, KEEPALIVE_TIMEOUT)
                                 ELSE silence
    /\ quietFor' = IF client = "open"
                   THEN Sooner(quietFor + 1, Patience) ELSE quietFor
    /\ sinceLoop' = IF isConnected THEN Sooner(sinceLoop + 1, Lateness + 1)
                                   ELSE sinceLoop
    /\ UNCHANGED <<network, isConnected, buffer, pc, acks, sent, consumed>>

----------------------------------------------------------------------------
(* _loop                                                                   *)

\* Wrong variant: restore() without bytesRead = 0.
UnrestoredBuffer == buffer

RestoredBuffer == <<>>     \* restore(): bytesRead = 0

\* No client: forget the last one and take the next, if one waits.
PollAccept ==
    /\ pc = "idle"
    /\ ~Connected
    /\ isConnected' = FALSE
    /\ buffer' = IF isConnected THEN RestoredBuffer ELSE buffer
    /\ client' = IF waiting THEN "open" ELSE "none"
    /\ waiting' = FALSE
    /\ sent' = <<>> /\ consumed' = <<>> /\ acks' = 0
    /\ quietFor' = 0 /\ sinceLoop' = 0
    /\ UNCHANGED <<inbox, sessions, silence, pc>>

\* Wrong variants: a second too early; a client is spared whose bytes wait
\* for the rest of a command.
EarlyExpired  == isConnected /\ silence >= KEEPALIVE_TIMEOUT - 1
SparedExpired == isConnected /\ silence >= KEEPALIVE_TIMEOUT /\ buffer = <<>>

Expired == isConnected /\ silence >= KEEPALIVE_TIMEOUT

\* flush() and stop() discard what was not read; restore().
PollExpire ==
    /\ pc = "idle"
    /\ Connected /\ Expired
    /\ client' = "none" /\ inbox' = <<>>
    /\ isConnected' = FALSE
    /\ buffer' = RestoredBuffer
    /\ sent' = <<>> /\ consumed' = <<>> /\ acks' = 0
    /\ sinceLoop' = 0
    /\ UNCHANGED <<waiting, sessions, silence, pc, quietFor>>

\* The loop tests i < MAX_DATA_BYTES - bytesRead while both i and bytesRead
\* grow: it ends after half of the room that was left, rounded up.
Room(n) == (MAX_DATA_BYTES - n + 1) \div 2

\* Wrong variant: the bytes already there are forgotten.
ReceivedPastEnd(available, n) == Sooner(available, MAX_DATA_BYTES)

Received(available, n) == Sooner(available, Room(n))

\* The buffer _loop appends to: restore() comes first in a new session.
Kept == IF isConnected THEN buffer ELSE RestoredBuffer

PollRead ==
    /\ pc = "idle"
    /\ Connected /\ ~Expired
    /\ isConnected' = TRUE
    /\ silence' = IF isConnected THEN silence ELSE 0
    /\ LET received == Received(Len(inbox), Len(Kept))
       IN  /\ buffer' = Kept \o SubSeq(inbox, 1, received)
           /\ inbox' = SubSeq(inbox, received + 1, Len(inbox))
    /\ pc' = IF inbox # <<>> THEN "process" ELSE "idle"
    /\ sinceLoop' = 0
    /\ UNCHANGED <<client, waiting, sessions, acks, sent, consumed, quietFor>>

----------------------------------------------------------------------------
(* processInput, one command at a time.                                    *)

\* bytesToExpectByAction has eleven entries; 11 to 14 pass the range test.
Operands(action) ==
    CASE action \in {SWITCH_ON, SWITCH_OFF}       -> 2
      [] action \in {AUTO_ON_TIME, AUTO_OFF_TIME} -> 1
      [] action \in 11..14                        -> PastTable[action]
      [] OTHER                                    -> 0

CommandLength(action) == 1 + Operands(action)

\* Wrong variant: any byte is an action.
StartsAnything(bytes) == bytes # <<>> /\ CommandLength(bytes[1]) <= Len(bytes)

StartsCommand(bytes) ==
    /\ bytes # <<>>
    /\ bytes[1] < ACTION_RANGE
    /\ CommandLength(bytes[1]) <= Len(bytes)

\* Wrong variant: the operands stay in the buffer.
RestWithOperands(bytes) == Tail(bytes)

\* cacheBuffer moves the bytes after the command to the front.
Rest(bytes) == SubSeq(bytes, CommandLength(bytes[1]) + 1, Len(bytes))

\* if (byteCount > 2) processInput();
Continue(byteCount) == IF byteCount > 2 THEN "process" ELSE "idle"

Calls == {SWITCH_ON, SWITCH_OFF, AUTO_ON_TIME, AUTO_OFF_TIME}

\* Not enough bytes, or a first byte that is not an action.
ProcessNothing ==
    /\ pc = "process"
    /\ ~StartsCommand(buffer)
    /\ pc' = "idle"
    /\ UNCHANGED <<network, isConnected, buffer, silence, acks, history>>

ProcessCommand ==
    /\ pc = "process"
    /\ StartsCommand(buffer)
    /\ buffer' = Rest(buffer)
    /\ consumed' = consumed \o SubSeq(buffer, 1, CommandLength(buffer[1]))
    /\ silence' = IF buffer[1] = KEEPALIVE THEN 0 ELSE silence
    /\ acks' = IF buffer[1] = KEEPALIVE THEN acks + 1 ELSE acks
    /\ pc' = IF buffer[1] \in Calls THEN "call" ELSE Continue(Len(Rest(buffer)))
    /\ UNCHANGED <<network, isConnected, sent, quietFor, sinceLoop>>

\* f_switch_on and the others: 0 is acknowledged, -1 and -2 are not.
CallReturns(accepted) ==
    /\ pc = "call"
    /\ acks' = IF accepted THEN acks + 1 ELSE acks
    /\ pc' = Continue(Len(buffer))
    /\ UNCHANGED <<network, isConnected, buffer, silence, history>>

----------------------------------------------------------------------------
Loop == PollAccept \/ PollExpire \/ PollRead

ProcessInput == \/ ProcessNothing \/ ProcessCommand
                \/ \E accepted \in BOOLEAN : CallReturns(accepted)

Network == Connect \/ PeerClose \/ \E segment \in Segments : Send(segment)

Next == Network \/ Second \/ Loop \/ ProcessInput \/ Reset

Spec == Init /\ [][Next]_vars

\* Seconds pass, the timer runs _loop again and again, late or not, and
\* _loop gets done with what it reads, calls included (CallsReturn of
\* SmartPlugProperties).
Fairness == WF_vars(Second) /\ WF_vars(Loop) /\ WF_vars(ProcessInput)

FairSpec == Spec /\ Fairness
=============================================================================
