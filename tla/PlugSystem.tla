----------------------------- MODULE PlugSystem -----------------------------
(***************************************************************************)
(* The firmware after setup(): the plug of SmartPlug and the command       *)
(* server of Voodoo, which share the timer thread.  _loop runs when no     *)
(* other callback does, a command of a client is a call on that thread,    *)
(* and _loop waits for it as it waits for the mutexes the application      *)
(* thread holds.  Cloud calls come on the application thread all the time. *)
(***************************************************************************)
EXTENDS SmartPlug, Sequences

CONSTANTS
    MAX_DATA_BYTES, KEEPALIVE_TIMEOUT, PastTable, Segments, Patience, Lateness,
    MaxSent, MaxSessions,   \* of Voodoo
    CloudTexts              \* the arguments of cloud calls

VARIABLES
    client, inbox, waiting, sessions, isConnected, buffer, silence, acks,
    sent, consumed, quietFor, sinceLoop,
    loop,       \* where _loop is, Voodoo's pc
    cached,     \* the command processInput works on
    outcome     \* its call: "none" yet, or to return "accepted" or "refused"

Server == INSTANCE Voodoo WITH pc <- loop

ASSUME ServerAssumption ==
    /\ MAX_DATA_BYTES \in Nat \ {0} /\ KEEPALIVE_TIMEOUT \in Nat \ {0}
    /\ PastTable \in [11..14 -> Server!Byte]
    /\ Segments \subseteq Seq(Server!Byte) \ {<<>>}
    /\ Patience \in Nat /\ Lateness \in Nat
    /\ MaxSent \in Nat /\ MaxSessions \in Nat

ASSUME CloudAssumption == Requesters = Thread /\ CloudTexts \subseteq Texts

\* What the operands of a client's command can ask for.
ASSUME ClientAssumption ==
    \A low, high \in Server!Byte : Numeral(low + high * 256) \in Texts

server == <<client, inbox, waiting, sessions, isConnected, buffer, silence,
            loop, acks, sent, consumed, quietFor, sinceLoop>>
glue   == <<cached, outcome>>
system == <<vars, server, glue>>

SystemInit == Init /\ Server!Init /\ cached = <<>> /\ outcome = "none"

----------------------------------------------------------------------------
\* The uint16_t of cached[1] and cached[2], which C counts from 0.
\* Wrong variant: the high byte first.
HighFirst(command) == command[2] * 256 + command[3]
Delay(command) == command[2] + command[3] * 256

\* f_switch_on and the others, as far as their return code is settled.
Switches(d) ==
    /\ cached[1] = IF d = "on" THEN Server!SWITCH_ON ELSE Server!SWITCH_OFF
    /\ LET text == Numeral(Delay(cached)) IN
       \/ SwitchRequest("timer", d, text) /\ outcome' = "accepted"
       \/ /\ SwitchResult(text, ErrnoAfter(text, errno["timer"])) # 0
          /\ RefuseRequest("timer", text) /\ outcome' = "refused"

SetsTime(d) ==
    /\ cached[1] = IF d = "on" THEN Server!AUTO_ON_TIME ELSE Server!AUTO_OFF_TIME
    /\ LET text == Numeral(cached[2]) IN
       \/ AutoRequest("timer", d, text) /\ outcome' = "accepted"
       \/ /\ AutoResult(text, ErrnoAfter(text, errno["timer"])) # 0
          /\ RefuseRequest("timer", text) /\ outcome' = "refused"

StartCall ==
    /\ loop = "call" /\ outcome = "none"
    /\ \E d \in Dir : Switches(d) \/ SetsTime(d)
    /\ UNCHANGED <<server, cached>>

\* The function has returned: the answer, and memset(&cached[0], 0, 64).
EndCall ==
    /\ outcome # "none" /\ pc["timer"] = "idle"
    /\ Server!CallReturns(outcome = "accepted")
    /\ cached' = <<>> /\ outcome' = "none"
    /\ UNCHANGED vars

\* cacheBuffer keeps the command it takes from the buffer.
Process ==
    /\ \/ Server!ProcessNothing /\ UNCHANGED cached
       \/ /\ Server!ProcessCommand
          /\ cached' = IF loop' = "call"
                       THEN SubSeq(buffer, 1, Server!CommandLength(buffer[1]))
                       ELSE <<>>
    /\ UNCHANGED <<vars, outcome>>

\* _loop is a timer callback like the plug's.
RunLoop ==
    /\ pc["timer"] = "idle"
    /\ Server!Loop
    /\ UNCHANGED <<vars, glue>>

Environment ==
    /\ Server!Network \/ Server!Second
    /\ UNCHANGED <<vars, glue>>

----------------------------------------------------------------------------
CloudCall ==
    /\ \E text \in CloudTexts :
          \/ \E d \in Dir : SwitchRequest("app", d, text) \/ AutoRequest("app", d, text)
          \/ RefuseRequest("app", text)
    /\ UNCHANGED <<server, glue>>

Proceed(t) ==
    /\ Locking(t) \/ Working(t)
    /\ UNCHANGED <<server, glue>>

RunTimer(d) ==
    /\ loop = "idle"
    /\ Expire(d)
    /\ UNCHANGED <<server, glue>>

Minute == Tick /\ UNCHANGED <<server, glue>>

PowerLoss ==
    /\ Reboot /\ Server!Reset
    /\ cached' = <<>> /\ outcome' = "none"

SystemNext ==
    \/ Environment \/ RunLoop \/ Process \/ StartCall \/ EndCall
    \/ CloudCall \/ \E t \in Thread : Proceed(t)
    \/ \E d \in Dir : RunTimer(d)
    \/ Minute \/ PowerLoss

SystemSpec == SystemInit /\ [][SystemNext]_system

(***************************************************************************)
(* Fairness.  A thread goes on with what it does; a mutex that is free     *)
(* again and again is given in the end to a thread that waits for it.      *)
(***************************************************************************)
SystemFairness ==
    /\ WF_system(Process) /\ WF_system(StartCall) /\ WF_system(EndCall)
    /\ \A t \in Thread :
          /\ WF_system(Working(t) /\ UNCHANGED <<server, glue>>)
          /\ SF_system(Locking(t) /\ UNCHANGED <<server, glue>>)

FairSystemSpec == SystemSpec /\ SystemFairness
=============================================================================
