-------------------------- MODULE PlugSystemProofs --------------------------
(* Each half of the firmware works in the whole as it does alone: what is  *)
(* proved of the plug and of the command server holds of the two together. *)
EXTENDS PlugSystemProperties, SmartPlugRefinement, SequenceTheorems,
        LeastNumber

(* What the server hands to a call is a whole command, cut from a buffer   *)
(* of bytes: the call's argument is a number that a request can have.      *)
BytesInv ==
    /\ inbox \in Seq(Server!Byte)
    /\ buffer \in Seq(Server!Byte) /\ Len(buffer) <= MAX_DATA_BYTES

CachedInv ==
    loop = "call" =>
        /\ cached \in Seq(Server!Byte)
        /\ cached # <<>> /\ Len(cached) = Server!CommandLength(cached[1])

SystemInv == BytesInv /\ CachedInv

----------------------------------------------------------------------------
(* A step of the firmware is one of the server, or none.                   *)
LEMMA ServerMoves == [SystemNext]_system => [Server!Next]_Server!vars
<1> SUFFICES ASSUME [SystemNext]_system
             PROVE  Server!Next \/ UNCHANGED Server!vars
  OBVIOUS
<1>1. (Environment \/ RunLoop \/ Process) => Server!Next
  BY DEF Environment, RunLoop, Process, Server!Next, Server!ProcessInput
<1>2. EndCall => Server!Next
  BY DEF EndCall, Server!Next, Server!ProcessInput
<1>3. PowerLoss => Server!Next
  BY DEF PowerLoss, Server!Next
<1>4. UNCHANGED server => UNCHANGED Server!vars
  BY DEF server, Server!vars
<1>5. ASSUME \/ StartCall \/ CloudCall \/ Minute
             \/ \E t \in Thread : Proceed(t)
             \/ \E d \in Dir : RunTimer(d)
             \/ UNCHANGED system
      PROVE  UNCHANGED server
  BY <1>5 DEF StartCall, CloudCall, Minute, Proceed, RunTimer, system
<1>6. QED  BY <1>1, <1>2, <1>3, <1>4, <1>5 DEF SystemNext

(* The whole firmware runs the server of Voodoo, whatever a call returns:  *)
(* a call is answered as some call could be, and nothing else that happens *)
(* on the plug reaches a connection, the buffer or the commands in it.     *)
THEOREM ServerPart == SystemSpec => Server!Spec
<1>1. SystemInit => Server!Init
  BY DEF SystemInit
<1>2. QED  BY <1>1, ServerMoves, PTL DEF SystemSpec, Server!Spec

----------------------------------------------------------------------------
(* The bytes of the server, and the command it hands over.                 *)
LEMMA SystemConstants ==
    /\ MAX_DATA_BYTES \in Nat
    /\ Segments \subseteq Seq(Server!Byte)
    /\ PastTable \in [11..14 -> Server!Byte]
BY ServerAssumption

LEMMA Pieces ==
    ASSUME NEW s \in Seq(Server!Byte), NEW k \in 0..Len(s)
    PROVE  /\ SubSeq(s, 1, k) \in Seq(Server!Byte) /\ Len(SubSeq(s, 1, k)) = k
           /\ SubSeq(s, k + 1, Len(s)) \in Seq(Server!Byte)
           /\ Len(SubSeq(s, k + 1, Len(s))) = Len(s) - k
<1>1. Len(s) \in Nat /\ \A i \in 1..Len(s) : s[i] \in Server!Byte
  BY LenProperties, ElementOfSeq
<1>2. QED  BY <1>1, SubSeqProperties

LEMMA LengthOfCommand ==
    ASSUME NEW action \in Server!Byte
    PROVE  /\ Server!CommandLength(action) \in Nat \ {0}
           /\ action \in {Server!SWITCH_ON, Server!SWITCH_OFF} =>
                 Server!CommandLength(action) = 3
           /\ action \in {Server!AUTO_ON_TIME, Server!AUTO_OFF_TIME} =>
                 Server!CommandLength(action) = 2
<1> USE DEF Server!SWITCH_ON, Server!SWITCH_OFF, Server!AUTO_ON_TIME,
            Server!AUTO_OFF_TIME
<1>1. CASE action \in 11..14
  <2>1. PastTable[action] \in Server!Byte
    BY <1>1, SystemConstants
  <2>2. Server!Operands(action) = PastTable[action]
    BY <1>1 DEF Server!Operands
  <2>3. QED  BY <1>1, <2>1, <2>2 DEF Server!CommandLength, Server!Byte
<1>2. CASE action \notin 11..14
  BY <1>2 DEF Server!CommandLength, Server!Operands
<1>3. QED  BY <1>1, <1>2

LEMMA ReadStep == BytesInv /\ Server!PollRead => BytesInv'
<1> SUFFICES ASSUME BytesInv, Server!PollRead
             PROVE  BytesInv'
  OBVIOUS
<1> DEFINE n == Server!Received(Len(inbox), Len(Server!Kept))
<1>1. Server!Kept \in Seq(Server!Byte) /\ Len(Server!Kept) <= MAX_DATA_BYTES
  BY SystemConstants DEF BytesInv, Server!Kept, Server!RestoredBuffer
<1>2. /\ n \in 0..Len(inbox)
      /\ Len(Server!Kept) + n <= MAX_DATA_BYTES
  <2>1. Len(inbox) \in Nat /\ Len(Server!Kept) \in Nat
    BY <1>1, LenProperties DEF BytesInv
  <2>2. QED  BY <2>1, <1>1, SystemConstants
             DEF Server!Received, Server!Room, Server!Sooner
<1>3. /\ buffer' = Server!Kept \o SubSeq(inbox, 1, n)
      /\ inbox' = SubSeq(inbox, n + 1, Len(inbox))
  BY DEF Server!PollRead
<1> HIDE DEF n
<1>4. /\ SubSeq(inbox, 1, n) \in Seq(Server!Byte) /\ Len(SubSeq(inbox, 1, n)) = n
      /\ inbox' \in Seq(Server!Byte)
  BY <1>2, <1>3, Pieces DEF BytesInv
<1>5. /\ buffer' \in Seq(Server!Byte)
      /\ Len(buffer') = Len(Server!Kept) + n
  BY <1>1, <1>3, <1>4, ConcatProperties
<1>6. QED  BY <1>2, <1>4, <1>5 DEF BytesInv

LEMMA CommandStep ==
    BytesInv /\ Server!ProcessCommand =>
        /\ BytesInv'
        /\ LET command == SubSeq(buffer, 1, Server!CommandLength(buffer[1])) IN
           /\ command \in Seq(Server!Byte)
           /\ command # <<>> /\ Len(command) = Server!CommandLength(command[1])
<1> SUFFICES ASSUME BytesInv, Server!ProcessCommand
             PROVE  /\ BytesInv'
                    /\ LET command == SubSeq(buffer, 1, Server!CommandLength(buffer[1]))
                       IN /\ command \in Seq(Server!Byte)
                          /\ command # <<>>
                          /\ Len(command) = Server!CommandLength(command[1])
  OBVIOUS
<1> DEFINE k == Server!CommandLength(buffer[1])
<1>1. buffer \in Seq(Server!Byte) /\ buffer # <<>> /\ k <= Len(buffer)
  BY DEF BytesInv, Server!ProcessCommand, Server!StartsCommand
<1>2. buffer[1] \in Server!Byte /\ Len(buffer) \in Nat
  BY <1>1, LenProperties, EmptySeq, ElementOfSeq
<1>3. k \in Nat \ {0}
  BY <1>2, LengthOfCommand
<1>4. buffer' = SubSeq(buffer, k + 1, Len(buffer)) /\ inbox' = inbox
  BY DEF Server!ProcessCommand, Server!Rest, Server!network
<1> HIDE DEF k
<1>5. k \in 0..Len(buffer)
  BY <1>1, <1>2, <1>3
<1>6. BytesInv'
  BY <1>1, <1>2, <1>3, <1>4, <1>5, Pieces, SystemConstants DEF BytesInv
<1>7. SubSeq(buffer, 1, k) \in Seq(Server!Byte) /\ Len(SubSeq(buffer, 1, k)) = k
  BY <1>1, <1>5, Pieces
<1>8. SubSeq(buffer, 1, k)[1] = buffer[1] /\ SubSeq(buffer, 1, k) # <<>>
  BY <1>1, <1>2, <1>3, <1>7, SubSeqProperties
<1>9. QED  BY <1>6, <1>7, <1>8 DEF k

LEMMA SystemInvStep == SystemInv /\ [SystemNext]_system => SystemInv'
<1> SUFFICES ASSUME SystemInv, [SystemNext]_system
             PROVE  SystemInv'
  OBVIOUS
<1> USE DEF SystemInv
<1>1. CASE Environment
  <2>1. CachedInv'
    BY <1>1 DEF Environment, CachedInv, Server!Network, Server!Connect,
                Server!PeerClose, Server!Send, Server!Second, glue
  <2>2. buffer' = buffer
    BY <1>1 DEF Environment, Server!Network, Server!Connect,
                Server!PeerClose, Server!Send, Server!Second
  <2>3. inbox' = inbox \/ \E segment \in Segments : inbox' = inbox \o segment
    BY <1>1 DEF Environment, Server!Network, Server!Connect, Server!network,
                Server!PeerClose, Server!Send, Server!Second
  <2>4. inbox' \in Seq(Server!Byte)
    BY <2>3, SystemConstants, ConcatProperties DEF BytesInv
  <2>5. QED  BY <2>1, <2>2, <2>4 DEF BytesInv
<1>2. CASE RunLoop
  <2>1. loop' # "call"
    BY <1>2 DEF RunLoop, Server!Loop, Server!PollAccept, Server!PollExpire,
                Server!PollRead
  <2>2. CASE Server!PollRead
    BY <2>1, <2>2, ReadStep DEF CachedInv
  <2>3. CASE Server!PollAccept \/ Server!PollExpire
    <3>1. /\ inbox' \in {inbox, <<>>}
          /\ buffer' \in {buffer, <<>>}
      BY <2>3 DEF Server!PollAccept, Server!PollExpire, Server!RestoredBuffer
    <3>2. <<>> \in Seq(Server!Byte) /\ Len(<<>>) = 0
      OBVIOUS
    <3>3. BytesInv'
      <4>1. inbox' \in Seq(Server!Byte)
        BY <3>1, <3>2 DEF BytesInv
      <4>2. buffer' \in Seq(Server!Byte)
        BY <3>1, <3>2 DEF BytesInv
      <4>3. Len(buffer') <= MAX_DATA_BYTES
        BY <3>1, <3>2, SystemConstants DEF BytesInv
      <4>4. QED  BY <4>1, <4>2, <4>3 DEF BytesInv
    <3>4. QED  BY <2>1, <3>3 DEF CachedInv
  <2>4. QED  BY <1>2, <2>2, <2>3 DEF RunLoop, Server!Loop
<1>3. CASE Process
  <2>1. CASE Server!ProcessNothing
    BY <2>1, SystemConstants
       DEF BytesInv, CachedInv, Server!ProcessNothing, Server!network
  <2>2. CASE Server!ProcessCommand /\ cached' = IF loop' = "call"
                 THEN SubSeq(buffer, 1, Server!CommandLength(buffer[1])) ELSE <<>>
    BY <2>2, CommandStep DEF CachedInv
  <2>3. QED  BY <1>3, <2>1, <2>2 DEF Process
<1>4. CASE EndCall
  <2>1. loop' # "call" /\ inbox' = inbox /\ buffer' = buffer
    BY <1>4 DEF EndCall, Server!CallReturns, Server!Continue, Server!network
  <2>2. QED  BY <2>1 DEF BytesInv, CachedInv
<1>5. CASE PowerLoss
  <2>1. loop' # "call" /\ inbox' = <<>> /\ buffer' = <<>>
    BY <1>5 DEF PowerLoss, Server!Reset
  <2>2. QED  BY <2>1, SystemConstants DEF BytesInv, CachedInv
<1>6. CASE \/ StartCall \/ CloudCall \/ Minute
           \/ \E t \in Thread : Proceed(t)
           \/ \E d \in Dir : RunTimer(d)
           \/ UNCHANGED system
  <2>1. UNCHANGED <<inbox, buffer, loop, cached>>
    BY <1>6 DEF StartCall, CloudCall, Minute, Proceed, RunTimer, system, server,
                glue
  <2>2. QED  BY <2>1 DEF BytesInv, CachedInv
<1>7. QED  BY <1>1, <1>2, <1>3, <1>4, <1>5, <1>6 DEF SystemNext

LEMMA SystemInvariance == SystemSpec => []SystemInv
<1>1. SystemInit => SystemInv
  BY SystemConstants
     DEF SystemInit, SystemInv, BytesInv, CachedInv, Server!Init
<1>2. QED  BY <1>1, SystemInvStep, PTL DEF SystemSpec

----------------------------------------------------------------------------
(* The argument of a client's call is one the plug knows.                  *)
LEMMA ClientNumbers ==
    ASSUME NEW low \in Server!Byte, NEW high \in Server!Byte
    PROVE  /\ Numeral(low) \in Texts
           /\ Numeral(low + high * 256) \in Texts
<1>1. 0 \in Server!Byte /\ low + 0 * 256 = low
  BY DEF Server!Byte
<1>2. Numeral(low + 0 * 256) \in Texts
  BY <1>1, ClientAssumption
<1>3. Numeral(low) \in Texts
  BY <1>1, <1>2
<1>4. QED  BY <1>3, ClientAssumption

LEMMA ClientTexts ==
    ASSUME SystemInv, loop = "call", NEW d \in Dir
    PROVE  /\ Switches(d) => Numeral(Delay(cached)) \in Texts
           /\ SetsTime(d) => Numeral(cached[2]) \in Texts
<1>1. /\ cached \in Seq(Server!Byte) /\ cached # <<>>
      /\ Len(cached) = Server!CommandLength(cached[1])
      /\ \A i \in 1..Len(cached) : cached[i] \in Server!Byte
      /\ Len(cached) \in Nat /\ cached[1] \in Server!Byte
  <2>1. cached \in Seq(Server!Byte) /\ cached # <<>>
        /\ Len(cached) = Server!CommandLength(cached[1])
    BY DEF SystemInv, CachedInv
  <2>2. QED  BY <2>1, LenProperties, EmptySeq, ElementOfSeq
<1>2. ASSUME Switches(d)
      PROVE  Numeral(Delay(cached)) \in Texts
  <2>1. cached[1] \in {Server!SWITCH_ON, Server!SWITCH_OFF}
    BY <1>2 DEF Switches
  <2>2. Len(cached) = 3
    BY <1>1, <2>1, LengthOfCommand
  <2>3. cached[2] \in Server!Byte /\ cached[3] \in Server!Byte
    BY <1>1, <2>2
  <2>4. QED  BY <2>3, ClientNumbers DEF Delay
<1>3. ASSUME SetsTime(d)
      PROVE  Numeral(cached[2]) \in Texts
  <2>1. cached[1] \in {Server!AUTO_ON_TIME, Server!AUTO_OFF_TIME}
    BY <1>3 DEF SetsTime
  <2>2. Len(cached) = 2
    BY <1>1, <2>1, LengthOfCommand
  <2>3. cached[2] \in Server!Byte
    BY <1>1, <2>2
  <2>4. QED  BY <2>3, ClientNumbers
<1>4. QED  BY <1>2, <1>3

(* A step of the firmware is one of the plug, or none.                     *)
LEMMA PlugSteps == SystemInv /\ [SystemNext]_system => [Next]_vars
<1> SUFFICES ASSUME SystemInv, [SystemNext]_system
             PROVE  Next \/ UNCHANGED vars
  OBVIOUS
<1>1. CASE StartCall
  <2>1. PICK d \in Dir : Switches(d) \/ SetsTime(d)
    BY <1>1 DEF StartCall
  <2>2. "timer" \in Requesters /\ loop = "call"
    BY <1>1, CloudAssumption DEF StartCall, Thread
  <2>3. Request
    <3>1. CASE Switches(d)
      <4>1. Numeral(Delay(cached)) \in Texts
        BY <2>2, <3>1, ClientTexts
      <4>2. \/ SwitchRequest("timer", d, Numeral(Delay(cached)))
            \/ RefuseRequest("timer", Numeral(Delay(cached)))
        BY <3>1 DEF Switches
      <4>3. QED  BY <2>2, <4>1, <4>2 DEF Request
    <3>2. CASE SetsTime(d)
      <4>1. Numeral(cached[2]) \in Texts
        BY <2>2, <3>2, ClientTexts
      <4>2. \/ AutoRequest("timer", d, Numeral(cached[2]))
            \/ RefuseRequest("timer", Numeral(cached[2]))
        BY <3>2 DEF SetsTime
      <4>3. QED  BY <2>2, <4>1, <4>2 DEF Request
    <3>3. QED  BY <2>1, <3>1, <3>2
  <2>4. QED  BY <2>3 DEF Next
<1>2. CASE CloudCall
  <2>1. "app" \in Requesters /\ CloudTexts \subseteq Texts
    BY CloudAssumption DEF Thread
  <2>2. QED  BY <1>2, <2>1 DEF CloudCall, Request, Next
<1>3. CASE \E t \in Thread : Proceed(t)
  BY <1>3 DEF Proceed, Next
<1>4. CASE \E d \in Dir : RunTimer(d)
  BY <1>4 DEF RunTimer, Next
<1>5. CASE Minute \/ PowerLoss
  BY <1>5 DEF Minute, PowerLoss, Next
<1>6. CASE Environment \/ RunLoop \/ Process \/ EndCall \/ UNCHANGED system
  BY <1>6 DEF Environment, RunLoop, Process, EndCall, system
<1>7. QED  BY <1>1, <1>2, <1>3, <1>4, <1>5, <1>6 DEF SystemNext

(* The whole firmware runs the plug of SmartPlug: a client's commands and  *)
(* the cloud's calls are all the requests the plug sees, so that what is   *)
(* proved for every request holds when they come from both.                *)
THEOREM PlugPart == SystemSpec => Spec
<1>1. SystemInit => Init
  BY DEF SystemInit
<1>2. QED  BY <1>1, SystemInvariance, PlugSteps, PTL DEF SystemSpec, Spec

(* With a client and the cloud at work together, the automatic timer of    *)
(* the present level is pending between calls.                             *)
THEOREM SystemArmed == SystemSpec => []AutoArmed
BY PlugPart, AutoTimerPending

(* ... and to the user the plug is still one socket.                       *)
THEOREM SystemIsSocket == SystemSpec => IsSocket
BY PlugPart, SocketImplemented
----------------------------------------------------------------------------
(* The answers.  While a call runs, those to the commands before it are    *)
(* given; what the call is going to return depends on its operands only,   *)
(* because nothing sets errno on the timer thread.                         *)
ErrnoClear == DOMAIN errno = Thread /\ errno["timer"] = FALSE

OutcomeInv ==
    /\ outcome \in {"none", "accepted", "refused"}
    /\ outcome # "none" => loop = "call"
    /\ outcome = "accepted" => Answered(cached, 0)
    /\ outcome = "refused" => ~Answered(cached, 0)

AccountInv ==
    IF loop = "call"
    THEN /\ cached[1] \in Server!Calls
         /\ \E before \in Seq(Server!Byte) :
               consumed = before \o cached /\ Accounted(before, acks)
    ELSE consumed \in Seq(Server!Byte) /\ Accounted(consumed, acks)

AcksInv == ErrnoClear /\ OutcomeInv /\ AccountInv

(* A command is answered by what its own bytes are, wherever it stands.    *)
LEMMA AnswerOfCommand ==
    ASSUME NEW stream, NEW command, NEW p \in Nat, NEW q \in Nat,
           command[p + 1] \in Server!Byte,
           \A i \in 1..Server!CommandLength(command[p + 1]) :
               stream[q + i] = command[p + i]
    PROVE  Answered(stream, q) <=> Answered(command, p)
<1> DEFINE action == command[p + 1]
<1>1. stream[q + 1] = action
  BY LengthOfCommand
<1>2. CASE action \in {Server!SWITCH_ON, Server!SWITCH_OFF}
  <2>1. stream[q + 2] = command[p + 2] /\ stream[q + 3] = command[p + 3]
    BY <1>2, LengthOfCommand
  <2>2. QED  BY <1>1, <1>2, <2>1 DEF Answered
<1>3. CASE action \in {Server!AUTO_ON_TIME, Server!AUTO_OFF_TIME}
  <2>1. stream[q + 2] = command[p + 2]
    BY <1>3, LengthOfCommand
  <2>2. QED  BY <1>1, <1>3, <2>1 DEF Answered, Server!SWITCH_ON,
                Server!SWITCH_OFF, Server!AUTO_ON_TIME, Server!AUTO_OFF_TIME
<1>4. QED  BY <1>1, <1>2, <1>3 DEF Answered

(* A whole command more in the stream, and its answer in the account.      *)
LEMMA OneCommandMore ==
    ASSUME NEW stream \in Seq(Server!Byte), NEW command \in Seq(Server!Byte),
           command # <<>>, Len(command) = Server!CommandLength(command[1]),
           NEW n, Accounted(stream, n)
    PROVE  /\ n \in Nat
           /\ Accounted(stream \o command,
                        IF Answered(command, 0) THEN n + 1 ELSE n)
<1> DEFINE all == stream \o command
           m   == Len(stream)
           k   == Len(command)
           length(p) == Server!CommandLength(stream[p + 1])
<1>1. PICK starts \in SUBSET (0..m - 1) :
         /\ Begins(stream, starts)
         /\ n = Cardinality({p \in starts : Answered(stream, p)})
  BY DEF Accounted
<1>2. /\ m \in Nat /\ k \in Nat \ {0} /\ command[1] \in Server!Byte
      /\ \A i \in 1..m : stream[i] \in Server!Byte
  BY LenProperties, EmptySeq, ElementOfSeq
<1>3. /\ all \in Seq(Server!Byte) /\ Len(all) = m + k
      /\ \A i \in 1..m : all[i] = stream[i]
      /\ \A i \in 1..k : all[m + i] = command[i]
  BY <1>2, ConcatProperties
<1>4. k = Server!CommandLength(command[1])
  OBVIOUS
<1> HIDE DEF all, m, k
<1>5. all[m + 1] = command[1] /\ 0 \in Nat /\ command[0 + 1] = command[1]
  <2>1. 1 \in 1..k
    BY <1>2
  <2>2. QED  BY <1>3, <2>1
<1>6. \A p \in starts : /\ p \in 0..m - 1
                        /\ length(p) \in Nat \ {0}
                        /\ p + length(p) <= m
  <2> SUFFICES ASSUME NEW p \in starts
               PROVE  /\ p \in 0..m - 1 /\ length(p) \in Nat \ {0}
                      /\ p + length(p) <= m
    OBVIOUS
  <2>1. p \in 0..m - 1 /\ length(p) \in Nat \ {0}
    BY <1>2, LengthOfCommand
  <2>2. p + length(p) \in starts \cup {m}
    BY <1>1 DEF Begins, m
  <2>3. QED  BY <1>2, <2>1, <2>2
<1> DEFINE more == starts \cup {m}
<1>7. more \in SUBSET (0..Len(all) - 1)
  BY <1>2, <1>3, <1>6
<1>8. Begins(all, more)
  <2>1. \A p \in starts : Server!CommandLength(all[p + 1]) = length(p)
    <3>1. \A p \in starts : p + 1 \in 1..m
      BY <1>2, <1>6
    <3>2. \A p \in starts : all[p + 1] = stream[p + 1]
      BY <1>3, <3>1
    <3>3. QED  BY <3>2
  <2>2. Server!CommandLength(all[m + 1]) = k
    BY <1>4, <1>5
  <2>3. starts \cup {m} = {0} \cup {p + length(p) : p \in starts}
    BY <1>1 DEF Begins, m
  <2>4. {p + Server!CommandLength(all[p + 1]) : p \in more}
            = {p + length(p) : p \in starts} \cup {m + k}
    BY <2>1, <2>2
  <2>5. more \cup {m + k} = {0} \cup ({p + length(p) : p \in starts} \cup {m + k})
    BY <2>3
  <2>6. QED  BY <1>3, <2>4, <2>5 DEF Begins
<1>9. Answered(all, m) <=> Answered(command, 0)
  <2>1. \A i \in 1..Server!CommandLength(command[0 + 1]) : all[m + i] = command[0 + i]
    BY <1>2, <1>3, <1>4, <1>5
  <2>2. QED  BY <1>2, <1>5, <2>1, AnswerOfCommand
<1>10. \A p \in starts : Answered(all, p) <=> Answered(stream, p)
  <2> SUFFICES ASSUME NEW p \in starts
               PROVE  Answered(all, p) <=> Answered(stream, p)
    OBVIOUS
  <2>1. p \in Nat /\ stream[p + 1] \in Server!Byte
    BY <1>2, <1>6
  <2>2. \A i \in 1..length(p) : all[p + i] = stream[p + i]
    BY <1>2, <1>3, <1>6
  <2>3. QED  BY <2>1, <2>2, AnswerOfCommand
<1> DEFINE old == {p \in starts : Answered(stream, p)}
           new == {p \in more : Answered(all, p)}
<1>11. IsFiniteSet(old) /\ n = Cardinality(old) /\ n \in Nat /\ m \notin old
  <2>1. IsFiniteSet(0..m - 1)
    BY <1>2, FS_Interval
  <2>2. IsFiniteSet(old)
    BY <2>1, FS_Subset
  <2>3. QED  BY <1>1, <1>6, <1>2, <2>2, FS_CardinalityType
<1>12. new = IF Answered(command, 0) THEN old \cup {m} ELSE old
  BY <1>9, <1>10
<1>13. Cardinality(new) = IF Answered(command, 0) THEN n + 1 ELSE n
  <2> HIDE DEF old, new
  <2>1. QED  BY <1>11, <1>12, FS_AddElement
<1>14. QED  BY <1>7, <1>8, <1>11, <1>13 DEF Accounted, all

(* A stream has one division into commands, so that Accounted says of one  *)
(* number at most that it is the number of answers.                        *)
LEMMA FramingUnique ==
    ASSUME NEW stream \in Seq(Server!Byte),
           NEW A \in SUBSET (0..Len(stream) - 1), Begins(stream, A),
           NEW B \in SUBSET (0..Len(stream) - 1), Begins(stream, B)
    PROVE  A \subseteq B
<1> DEFINE m == Len(stream)
           length(p) == Server!CommandLength(stream[p + 1])
<1>1. m \in Nat /\ \A i \in 1..m : stream[i] \in Server!Byte
  BY LenProperties, ElementOfSeq
<1>2. \A p \in 0..m - 1 : length(p) \in Nat \ {0}
  BY <1>1, LengthOfCommand
<1>3. /\ A \cup {m} = {0} \cup {p + length(p) : p \in A}
      /\ B \cup {m} = {0} \cup {p + length(p) : p \in B}
  BY DEF Begins
<1> HIDE DEF m, length
<1>4. A \subseteq 0..m - 1 /\ B \subseteq 0..m - 1
  BY DEF m
<1>5. SUFFICES ASSUME A \ B # {}
               PROVE  FALSE
  OBVIOUS
<1>6. PICK a \in A \ B : \A b \in A \ B : a <= b
  <2>1. A \ B \subseteq Nat
    BY <1>1, <1>4
  <2>2. \E a \in A \ B : \A b \in A \ B : a <= b
    BY <1>5, <2>1, LeastElement
  <2>3. QED  BY <2>2
<1>7. a # m /\ a \in Nat
  BY <1>1, <1>4
<1>8. a # 0
  BY <1>3, <1>6, <1>7
<1>9. PICK p \in A : a = p + length(p)
  BY <1>3, <1>8
<1>10. p \in Nat /\ p < a
  BY <1>1, <1>2, <1>4, <1>9
<1>11. p \in B
  BY <1>6, <1>7, <1>10
<1>12. QED  BY <1>3, <1>7, <1>9, <1>11

(* How many answers a stream of commands is due is settled by the stream.  *)
LEMMA AccountUnique ==
    \A stream \in Seq(Server!Byte) : \A m, n :
        Accounted(stream, m) /\ Accounted(stream, n) => m = n
<1> SUFFICES ASSUME NEW stream \in Seq(Server!Byte), NEW m, NEW n,
                    Accounted(stream, m), Accounted(stream, n)
             PROVE  m = n
  OBVIOUS
<1>1. PICK A \in SUBSET (0..Len(stream) - 1) :
         Begins(stream, A) /\ m = Cardinality({p \in A : Answered(stream, p)})
  BY DEF Accounted
<1>2. PICK B \in SUBSET (0..Len(stream) - 1) :
         Begins(stream, B) /\ n = Cardinality({p \in B : Answered(stream, p)})
  BY DEF Accounted
<1>3. A = B
  BY <1>1, <1>2, FramingUnique
<1>4. QED  BY <1>1, <1>2, <1>3

(* A stream without commands has nothing to answer.                        *)
LEMMA EmptyAccount ==
    <<>> \in Seq(Server!Byte) /\ Accounted(<<>>, 0)
<1>1. Begins(<<>>, {})
  BY DEF Begins
<1>2. {p \in {} : Answered(<<>>, p)} = {}
  OBVIOUS
<1>3. QED  BY <1>1, <1>2, FS_EmptySet DEF Accounted

LEMMA CommandHead ==
    BytesInv /\ Server!ProcessCommand =>
        SubSeq(buffer, 1, Server!CommandLength(buffer[1]))[1] = buffer[1]
<1> SUFFICES ASSUME BytesInv, Server!ProcessCommand
             PROVE  SubSeq(buffer, 1, Server!CommandLength(buffer[1]))[1] = buffer[1]
  OBVIOUS
<1> DEFINE k == Server!CommandLength(buffer[1])
<1>1. /\ buffer \in Seq(Server!Byte) /\ buffer # <<>> /\ k <= Len(buffer)
      /\ buffer[1] \in Server!Byte /\ Len(buffer) \in Nat
      /\ \A i \in 1..Len(buffer) : buffer[i] \in Server!Byte
  BY LenProperties, EmptySeq, ElementOfSeq
     DEF BytesInv, Server!ProcessCommand, Server!StartsCommand
<1>2. k \in Nat \ {0}
  BY <1>1, LengthOfCommand
<1> HIDE DEF k
<1>3. QED  BY <1>1, <1>2, SubSeqProperties DEF k

(* Nothing sets errno on the timer thread: a client's operands are numbers *)
(* in strtol's range, and the cloud's arguments are read on the other.     *)
LEMMA ErrnoStep == SystemInv /\ ErrnoClear /\ [SystemNext]_system => ErrnoClear'
<1> SUFFICES ASSUME ErrnoClear, [SystemNext]_system
             PROVE  ErrnoClear'
  OBVIOUS
<1> USE DEF ErrnoClear
<1>1. CASE StartCall
  <2>1. PICK n : errno' = [errno EXCEPT !["timer"] = ErrnoAfter(Numeral(n), @)]
    BY <1>1 DEF StartCall, Switches, SetsTime, SwitchRequest, AutoRequest,
                RefuseRequest
  <2>2. QED  BY <2>1 DEF ErrnoAfter, Numeral, Thread
<1>2. CASE CloudCall
  <2>1. PICK text : errno' = [errno EXCEPT !["app"] = ErrnoAfter(text, @)]
    BY <1>2 DEF CloudCall, SwitchRequest, AutoRequest, RefuseRequest
  <2>2. QED  BY <2>1
<1>3. CASE \E t \in Thread : Proceed(t)
  <2>1. errno' = errno
    BY <1>3 DEF Proceed, Locking, Working, LockSocket, LockAuto, LockPersist,
                ArmSwitch, WritePin, StopAuto, UnlockSocket, StartAuto, PutEeprom,
                SetTime, CheckPin, Return, call
  <2>2. QED  BY <2>1
<1>4. CASE \E d \in Dir : RunTimer(d)
  BY <1>4 DEF RunTimer, Expire, ExpireAuto, ExpireSwitch, Fire
<1>5. CASE PowerLoss
  BY <1>5 DEF PowerLoss, Reboot, NoErrno, Thread
<1>6. CASE \/ Environment \/ RunLoop \/ Process \/ EndCall \/ Minute
           \/ UNCHANGED system
  BY <1>6 DEF Environment, RunLoop, Process, EndCall, Minute, Tick, system, vars,
              call
<1>7. QED  BY <1>1, <1>2, <1>3, <1>4, <1>5, <1>6 DEF SystemNext

(* What a call is going to return is settled by its operands.              *)
LEMMA OutcomeOfCall ==
    ASSUME SystemInv, AcksInv, StartCall
    PROVE  /\ outcome' \in {"accepted", "refused"}
           /\ outcome' = "accepted" <=> Answered(cached, 0)
<1> USE DEF AcksInv
<1>1. cached[0 + 1] = cached[1] /\ cached[0 + 2] = cached[2] /\ cached[0 + 3] = cached[3]
  OBVIOUS
<1>2. PICK d \in Dir : loop = "call" /\ (Switches(d) \/ SetsTime(d))
  BY DEF StartCall
<1>3. \A n : ErrnoAfter(Numeral(n), errno["timer"]) = FALSE
  BY DEF ErrnoClear, ErrnoAfter, Numeral
<1>4. CASE Switches(d)
  <2> DEFINE text == Numeral(Delay(cached))
  <2>1. cached[1] \in {Server!SWITCH_ON, Server!SWITCH_OFF}
    BY <1>4 DEF Switches
  <2>2. Answered(cached, 0) <=> Delay(cached) % WORD <= MAX_ONE_TIME_ON_OFF_TIMER
    BY <1>1, <2>1 DEF Answered, Delay, Server!KEEPALIVE, Server!SWITCH_ON,
          Server!SWITCH_OFF, Server!AUTO_ON_TIME, Server!AUTO_OFF_TIME
  <2>3. Delay(cached) % WORD \in Int /\ MAX_ONE_TIME_ON_OFF_TIMER \in Int
    <3>1. text \in Text
      BY <1>2, <1>4, ClientTexts, RequestAssumption
    <3>2. Delay(cached) \in Int
      BY <3>1 DEF Text, Numeral
    <3>3. QED  BY <3>2, WidthAssumption
  <2>4. SwitchResult(text, FALSE) = 0 <=> Delay(cached) % WORD <= MAX_ONE_TIME_ON_OFF_TIMER
    BY <2>3 DEF SwitchResult, Result, Seconds, Numeral
  <2>5. \/ SwitchResult(text, FALSE) = 0 /\ outcome' = "accepted"
        \/ SwitchResult(text, FALSE) # 0 /\ outcome' = "refused"
    BY <1>3, <1>4 DEF Switches, SwitchRequest
  <2>6. QED  BY <2>2, <2>4, <2>5
<1>5. CASE SetsTime(d)
  <2> DEFINE text == Numeral(cached[2])
  <2>1. cached[1] \in {Server!AUTO_ON_TIME, Server!AUTO_OFF_TIME}
    BY <1>5 DEF SetsTime
  <2>2. Answered(cached, 0) <=> cached[2] % BYTE <= MAX_AUTO_OFF_ON_TIME
    BY <1>1, <2>1 DEF Answered, Server!KEEPALIVE, Server!SWITCH_ON,
          Server!SWITCH_OFF, Server!AUTO_ON_TIME, Server!AUTO_OFF_TIME
  <2>3. cached[2] % BYTE \in Int /\ MAX_AUTO_OFF_ON_TIME \in Int
    <3>1. text \in Text
      BY <1>2, <1>5, ClientTexts, RequestAssumption
    <3>2. cached[2] \in Int
      BY <3>1 DEF Text, Numeral
    <3>3. QED  BY <3>2, WidthAssumption
  <2>4. AutoResult(text, FALSE) = 0 <=> cached[2] % BYTE <= MAX_AUTO_OFF_ON_TIME
    BY <2>3 DEF AutoResult, Result, Minutes, Numeral
  <2>5. \/ AutoResult(text, FALSE) = 0 /\ outcome' = "accepted"
        \/ AutoResult(text, FALSE) # 0 /\ outcome' = "refused"
    BY <1>3, <1>5 DEF SetsTime, AutoRequest
  <2>6. QED  BY <2>2, <2>4, <2>5
<1>6. QED  BY <1>2, <1>4, <1>5

(* The account is kept: a command enters it when it is taken from the      *)
(* buffer or, if it is a call, when its answer is given.                   *)
LEMMA AcksStep == SystemInv /\ AcksInv /\ [SystemNext]_system => AcksInv'
<1> SUFFICES ASSUME SystemInv, AcksInv, [SystemNext]_system
             PROVE  OutcomeInv' /\ AccountInv'
  BY ErrnoStep DEF AcksInv
<1> USE DEF AcksInv
<1>1. CASE UNCHANGED <<loop, cached, outcome, consumed, acks>>
  BY <1>1 DEF OutcomeInv, AccountInv
<1>2. CASE RunLoop
  <2>1. loop = "idle" /\ outcome = "none" /\ outcome' = outcome /\ cached' = cached
        /\ loop' # "call"
    BY <1>2 DEF RunLoop, glue, OutcomeInv, Server!Loop, Server!PollAccept,
                Server!PollExpire, Server!PollRead
  <2>2. OutcomeInv'
    BY <2>1 DEF OutcomeInv
  <2>3. CASE Server!PollRead
    <3>1. consumed' = consumed /\ acks' = acks
      BY <2>3 DEF Server!PollRead, Server!history
    <3>2. QED  BY <2>1, <2>2, <3>1 DEF AccountInv
  <2>4. CASE Server!PollAccept \/ Server!PollExpire
    <3>1. consumed' = <<>> /\ acks' = 0
      BY <2>4 DEF Server!PollAccept, Server!PollExpire
    <3>2. QED  BY <2>1, <2>2, <3>1, EmptyAccount DEF AccountInv
  <2>5. QED  BY <1>2, <2>3, <2>4 DEF RunLoop, Server!Loop
<1>3. CASE Process /\ Server!ProcessNothing
  <2>1. /\ loop # "call" /\ loop' # "call" /\ consumed' = consumed /\ acks' = acks
        /\ outcome' = outcome
    BY <1>3 DEF Process, Server!ProcessNothing, Server!history
  <2>2. QED  BY <2>1 DEF OutcomeInv, AccountInv
<1>4. CASE Process /\ Server!ProcessCommand
  <2> DEFINE command == SubSeq(buffer, 1, Server!CommandLength(buffer[1]))
  <2>1. /\ command \in Seq(Server!Byte) /\ command # <<>>
        /\ Len(command) = Server!CommandLength(command[1])
        /\ command[1] = buffer[1]
    BY <1>4, CommandStep, CommandHead DEF SystemInv
  <2>2. /\ loop = "process" /\ outcome = "none" /\ outcome' = "none"
        /\ consumed' = consumed \o command
        /\ acks' = IF buffer[1] = Server!KEEPALIVE THEN acks + 1 ELSE acks
        /\ loop' = IF buffer[1] \in Server!Calls THEN "call"
                   ELSE Server!Continue(Len(Server!Rest(buffer)))
        /\ cached' = IF loop' = "call" THEN command ELSE <<>>
    BY <1>4 DEF Process, OutcomeInv, Server!ProcessCommand, Server!ProcessNothing,
                Server!StartsCommand
  <2>3. consumed \in Seq(Server!Byte) /\ Accounted(consumed, acks)
    BY <2>2 DEF AccountInv
  <2>4. OutcomeInv'
    BY <2>2 DEF OutcomeInv
  <2> HIDE DEF command
  <2>5. CASE buffer[1] \in Server!Calls
    <3>1. loop' = "call" /\ acks' = acks /\ cached' = command
      BY <2>2, <2>5 DEF Server!Calls, Server!KEEPALIVE, Server!SWITCH_ON,
            Server!SWITCH_OFF, Server!AUTO_ON_TIME, Server!AUTO_OFF_TIME
    <3>2. QED  BY <2>1, <2>2, <2>3, <2>4, <2>5, <3>1 DEF AccountInv
  <2>6. CASE buffer[1] \notin Server!Calls
    <3>1. loop' # "call"
      BY <2>2, <2>6 DEF Server!Continue
    <3>2. Answered(command, 0) <=> buffer[1] = Server!KEEPALIVE
      BY <2>1, <2>6 DEF Answered, Server!Calls
    <3>3. consumed' \in Seq(Server!Byte)
      BY <2>1, <2>2, <2>3, ConcatProperties
    <3>4. Accounted(consumed', acks')
      BY <2>1, <2>2, <2>3, <3>2, OneCommandMore
    <3>5. QED  BY <2>4, <3>1, <3>3, <3>4 DEF AccountInv
  <2>7. QED  BY <2>5, <2>6
<1>5. CASE StartCall
  <2>1. loop = "call" /\ UNCHANGED <<loop, cached, consumed, acks>>
    BY <1>5 DEF StartCall, server
  <2>2. OutcomeInv'
    <3>1. Answered(cached, 0)' <=> Answered(cached, 0)
      BY <2>1 DEF Answered
    <3>2. QED  BY <1>5, <2>1, <3>1, OutcomeOfCall DEF OutcomeInv
  <2>3. QED  BY <2>1, <2>2 DEF AccountInv
<1>6. CASE EndCall
  <2>1. /\ loop = "call" /\ loop' # "call" /\ consumed' = consumed
        /\ acks' = IF outcome = "accepted" THEN acks + 1 ELSE acks
        /\ outcome' = "none" /\ outcome \in {"accepted", "refused"}
    BY <1>6 DEF EndCall, OutcomeInv, Server!CallReturns, Server!history,
                Server!Continue
  <2>2. PICK before \in Seq(Server!Byte) :
           consumed = before \o cached /\ Accounted(before, acks)
    BY <2>1 DEF AccountInv
  <2>3. /\ cached \in Seq(Server!Byte) /\ cached # <<>>
        /\ Len(cached) = Server!CommandLength(cached[1])
    BY <2>1 DEF SystemInv, CachedInv
  <2>4. outcome = "accepted" <=> Answered(cached, 0)
    BY <2>1 DEF OutcomeInv
  <2>5. consumed \in Seq(Server!Byte)
    BY <2>2, <2>3, ConcatProperties
  <2>6. Accounted(consumed', acks')
    BY <2>1, <2>2, <2>3, <2>4, OneCommandMore
  <2>7. QED  BY <2>1, <2>5, <2>6 DEF OutcomeInv, AccountInv
<1>7. CASE PowerLoss
  <2>1. loop' # "call" /\ consumed' = <<>> /\ acks' = 0 /\ outcome' = "none"
    BY <1>7 DEF PowerLoss, Server!Reset
  <2>2. QED  BY <2>1, EmptyAccount DEF OutcomeInv, AccountInv
<1>8. CASE \/ Environment \/ CloudCall \/ Minute
           \/ \E t \in Thread : Proceed(t)
           \/ \E d \in Dir : RunTimer(d)
           \/ UNCHANGED system
  <2>1. UNCHANGED <<loop, cached, outcome, consumed, acks>>
    BY <1>8 DEF Environment, Server!Network, Server!Connect, Server!PeerClose,
          Server!Send, Server!Second, Server!history, CloudCall, Minute, Proceed,
          RunTimer, system, server, glue
  <2>2. QED  BY <1>1, <2>1
<1>9. QED  BY <1>2, <1>3, <1>4, <1>5, <1>6, <1>7, <1>8 DEF SystemNext, Process

(* Every reachable state satisfies AcksInv.                                *)
LEMMA AcksInvariance == SystemSpec => []AcksInv
<1>1. SystemInit => AcksInv
  <2> SUFFICES ASSUME SystemInit PROVE AcksInv
    OBVIOUS
  <2>1. /\ loop = "idle" /\ consumed = <<>> /\ acks = 0 /\ outcome = "none"
        /\ errno = NoErrno
    BY DEF SystemInit, Init, Server!Init
  <2>2. ErrnoClear
    BY <2>1 DEF ErrnoClear, NoErrno, Thread
  <2>3. OutcomeInv /\ AccountInv
    BY <2>1, EmptyAccount DEF OutcomeInv, AccountInv
  <2>4. QED  BY <2>2, <2>3 DEF AcksInv
<1>2. QED  BY <1>1, AcksStep, SystemInvariance, PTL DEF SystemSpec

(* A client of the whole firmware gets one byte for each keepalive and for *)
(* each call in range, and none for the others, whatever the cloud asks    *)
(* for on the other thread and however the two calls interleave.           *)
THEOREM AnswersTruthful == SystemSpec => []AcksTrue
<1>1. AcksInv => AcksTrue
  BY DEF AcksInv, AccountInv, AcksTrue
<1>2. QED  BY <1>1, AcksInvariance, PTL

(* Between two commands the client can tell from its own bytes alone how   *)
(* many answers it has: that number, and no other, fits what was consumed, *)
(* so that an answer that is missing means a call that was refused.        *)
THEOREM AnswersExact ==
    SystemSpec => [](loop # "call" => \A n : Accounted(consumed, n) <=> n = acks)
<1>1. AcksInv => (loop # "call" => \A n : Accounted(consumed, n) <=> n = acks)
  <2> SUFFICES ASSUME AcksInv, loop # "call", NEW n
               PROVE  Accounted(consumed, n) <=> n = acks
    OBVIOUS
  <2>1. consumed \in Seq(Server!Byte) /\ Accounted(consumed, acks)
    BY DEF AcksInv, AccountInv
  <2>2. QED  BY <2>1, AccountUnique
<1>2. QED  BY <1>1, AcksInvariance, PTL
=============================================================================
