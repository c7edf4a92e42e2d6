---------------------------- MODULE VoodooProofs ----------------------------
(* The command server keeps every client's byte stream whole and stays in  *)
(* step with its commands, for every buffer size, timeout and client.      *)
EXTENDS VoodooProperties, SequenceTheorems, TLAPS

(* Sessions do not overlap: without a client nothing is left in the        *)
(* socket, and before the first run of _loop for a client the buffer of    *)
(* the last one is empty.                                                  *)
SessionInv ==
    /\ ~isConnected => buffer = <<>>
    /\ client = "none" => inbox = <<>>

VoodooInv == TypeOK /\ SessionInv /\ StreamIntegrity /\ InStep

----------------------------------------------------------------------------
(* The numbers among the constants.                                        *)
LEMMA NumberConstants ==
    /\ MAX_DATA_BYTES \in Nat \ {0} /\ KEEPALIVE_TIMEOUT \in Nat \ {0}
    /\ Patience \in Nat /\ Lateness \in Nat /\ MaxSessions \in Nat
BY VoodooAssumption

(* A stream cut in two: both parts are streams and give it back.           *)
LEMMA Cut ==
    ASSUME NEW s \in Seq(Byte), NEW k \in 0..Len(s)
    PROVE  /\ SubSeq(s, 1, k) \in Seq(Byte) /\ Len(SubSeq(s, 1, k)) = k
           /\ SubSeq(s, k + 1, Len(s)) \in Seq(Byte)
           /\ Len(SubSeq(s, k + 1, Len(s))) = Len(s) - k
           /\ SubSeq(s, 1, k) \o SubSeq(s, k + 1, Len(s)) = s
<1>1. Len(s) \in Nat /\ \A i \in 1..Len(s) : s[i] \in Byte
  BY LenProperties, ElementOfSeq
<1>2. SubSeq(s, 1, k) \in Seq(Byte) /\ Len(SubSeq(s, 1, k)) = k
  BY <1>1, SubSeqProperties
<1>3. /\ SubSeq(s, k + 1, Len(s)) \in Seq(Byte)
      /\ Len(SubSeq(s, k + 1, Len(s))) = Len(s) - k
  BY <1>1, SubSeqProperties
<1>4. SubSeq(s, 1, k) \o SubSeq(s, k + 1, Len(s)) = SubSeq(s, 1, Len(s))
  <2>1. 1 \in 1..Len(s) + 1 /\ k \in 1 - 1..Len(s) /\ Len(s) \in k..Len(s)
    BY <1>1
  <2>2. QED  BY <2>1, ConcatAdjacentSubSeq
<1>5. QED  BY <1>2, <1>3, <1>4, SubSeqFull

(* The groupings of four parts of a stream that the proof goes between.    *)
Regroups(a, b, c, d) ==
    /\ ((a \o b) \o c) \o d = (a \o b) \o (c \o d)
    /\ (a \o (b \o c)) \o d = (a \o b) \o (c \o d)

LEMMA Regrouping ==
    ASSUME NEW a \in Seq(Byte), NEW b \in Seq(Byte), NEW c \in Seq(Byte),
           NEW d \in Seq(Byte)
    PROVE  Regroups(a, b, c, d)
<1>1. (a \o b) \o c = a \o (b \o c)
  BY ConcatAssociative, SMTT(30)
<1>2. a \o b \in Seq(Byte)
  BY ConcatProperties
<1>3. ((a \o b) \o c) \o d = (a \o b) \o (c \o d)
  BY <1>2, ConcatAssociative, SMTT(30)
<1>4. QED  BY <1>1, <1>3 DEF Regroups

(* A stream in three parts stays the same when bytes of the third are moved *)
(* to the second, and when bytes of the second are moved to the first.     *)
LEMMA ReadKeepsStream ==
    ASSUME NEW c \in Seq(Byte), NEW b \in Seq(Byte), NEW i \in Seq(Byte),
           NEW k \in 0..Len(i)
    PROVE  (c \o (b \o SubSeq(i, 1, k))) \o SubSeq(i, k + 1, Len(i))
             = (c \o b) \o i
<1>1. PICK x \in Seq(Byte) : x = SubSeq(i, 1, k)
  BY Cut
<1>2. PICK y \in Seq(Byte) : y = SubSeq(i, k + 1, Len(i))
  BY Cut
<1>3. x \o y = i
  BY <1>1, <1>2, Cut
<1>4. Regroups(c, b, x, y)
  BY Regrouping
<1>5. QED  BY <1>1, <1>2, <1>3, <1>4 DEF Regroups

LEMMA ConsumeKeepsStream ==
    ASSUME NEW c \in Seq(Byte), NEW b \in Seq(Byte), NEW i \in Seq(Byte),
           NEW k \in 0..Len(b)
    PROVE  ((c \o SubSeq(b, 1, k)) \o SubSeq(b, k + 1, Len(b))) \o i
             = (c \o b) \o i
<1>1. PICK x \in Seq(Byte) : x = SubSeq(b, 1, k)
  BY Cut
<1>2. PICK y \in Seq(Byte) : y = SubSeq(b, k + 1, Len(b))
  BY Cut
<1>3. x \o y = b
  BY <1>1, <1>2, Cut
<1>4. Regroups(c, x, y, i)
  BY Regrouping
<1>5. QED  BY <1>1, <1>2, <1>3, <1>4 DEF Regroups

(* A read takes no more than there is, and no more than fits.              *)
LEMMA ReceivedFits ==
    ASSUME NEW available \in Nat, NEW n \in 0..MAX_DATA_BYTES
    PROVE  /\ Received(available, n) \in 0..available
           /\ n + Received(available, n) <= MAX_DATA_BYTES
<1>1. MAX_DATA_BYTES - n \in Nat /\ MAX_DATA_BYTES \in Nat /\ n \in Nat
  BY VoodooAssumption
<1>2. Room(n) \in Nat /\ Room(n) <= MAX_DATA_BYTES - n
  BY <1>1 DEF Room
<1>3. QED  BY <1>1, <1>2 DEF Received, Sooner

(* Every command has at least its action byte.                             *)
LEMMA CommandLengthType ==
    ASSUME NEW action \in Byte
    PROVE  CommandLength(action) \in Nat \ {0}
<1>1. CASE action \in 11..14
  <2>1. PastTable[action] \in Byte
    BY <1>1, VoodooAssumption
  <2>2. Operands(action) = PastTable[action]
    BY <1>1 DEF Operands, SWITCH_ON, SWITCH_OFF, AUTO_ON_TIME, AUTO_OFF_TIME
  <2>3. QED  BY <2>1, <2>2 DEF CommandLength, Byte
<1>2. CASE action \notin 11..14
  <2>1. Operands(action) \in {0, 1, 2}
    BY <1>2 DEF Operands, SWITCH_ON, SWITCH_OFF, AUTO_ON_TIME, AUTO_OFF_TIME
  <2>2. QED  BY <2>1 DEF CommandLength
<1>3. QED  BY <1>1, <1>2

(* What a whole command at the front of the buffer looks like.             *)
LEMMA CommandInBuffer ==
    ASSUME buffer \in Seq(Byte), StartsCommand(buffer)
    PROVE  /\ buffer[1] \in Byte
           /\ CommandLength(buffer[1]) \in 1..Len(buffer)
<1>1. Len(buffer) \in Nat \ {0}
  BY EmptySeq DEF StartsCommand
<1>2. buffer[1] \in Byte
  BY <1>1, ElementOfSeq
<1>3. QED  BY <1>1, <1>2, CommandLengthType DEF StartsCommand

----------------------------------------------------------------------------
(* Types and bounds.                                                       *)
LEMMA TypeStep == TypeOK /\ [Next]_vars => TypeOK'
<1> SUFFICES ASSUME TypeOK, [Next]_vars PROVE TypeOK'
  OBVIOUS
<1> USE DEF network, history
<1>1. /\ consumed \in Seq(Byte) /\ buffer \in Seq(Byte) /\ inbox \in Seq(Byte)
      /\ sent \in Seq(Byte) /\ Len(inbox) \in Nat
      /\ Len(buffer) \in 0..MAX_DATA_BYTES
  BY LenProperties, NumberConstants DEF TypeOK
<1>2. <<>> \in Seq(Byte) /\ Len(<<>>) <= MAX_DATA_BYTES
  BY EmptySeq, NumberConstants
<1>3. Kept \in Seq(Byte) /\ Len(Kept) \in 0..MAX_DATA_BYTES
  BY <1>1, EmptySeq, NumberConstants DEF Kept, RestoredBuffer
<1>4. ASSUME Connect PROVE TypeOK'
  BY <1>4, NumberConstants DEF Connect, TypeOK
<1>5. ASSUME NEW segment \in Segments, Send(segment) PROVE TypeOK'
  <2>1. segment \in Seq(Byte)
    BY VoodooAssumption
  <2>2. inbox \o segment \in Seq(Byte) /\ sent \o segment \in Seq(Byte)
    BY <1>1, <2>1, ConcatProperties
  <2>3. inbox' \in Seq(Byte) /\ sent' \in Seq(Byte)
    BY <1>5, <2>2 DEF Send
  <2>4. quietFor' \in 0..Patience
    BY <1>5, NumberConstants DEF Send, TypeOK
  <2>5. UNCHANGED <<client, waiting, sessions, isConnected, buffer, silence,
                    pc, acks, consumed, sinceLoop>>
    BY <1>5 DEF Send
  <2>6. QED  BY <2>3, <2>4, <2>5 DEF TypeOK
<1>6. ASSUME PeerClose PROVE TypeOK'
  BY <1>6 DEF PeerClose, TypeOK
<1>7. ASSUME Second PROVE TypeOK'
  BY <1>7, NumberConstants DEF Second, Sooner, TypeOK
<1>8. ASSUME PollAccept PROVE TypeOK'
  <2>1. /\ buffer' \in Seq(Byte) /\ Len(buffer') <= MAX_DATA_BYTES
        /\ sent' \in Seq(Byte) /\ consumed' \in Seq(Byte)
    BY <1>2, <1>8 DEF PollAccept, RestoredBuffer, TypeOK
  <2>2. client' \in {"none", "open", "closed"} /\ waiting' \in BOOLEAN
    BY <1>8 DEF PollAccept
  <2>3. quietFor' \in 0..Patience /\ sinceLoop' \in 0..Lateness + 1
    BY <1>8, NumberConstants DEF PollAccept
  <2>4. /\ isConnected' = FALSE /\ acks' = 0
        /\ UNCHANGED <<inbox, sessions, silence, pc>>
    BY <1>8 DEF PollAccept
  <2>5. QED  BY <2>1, <2>2, <2>3, <2>4 DEF TypeOK
<1>9. ASSUME PollExpire PROVE TypeOK'
  <2>1. /\ buffer' \in Seq(Byte) /\ Len(buffer') <= MAX_DATA_BYTES
        /\ sent' \in Seq(Byte) /\ consumed' \in Seq(Byte)
        /\ inbox' \in Seq(Byte)
    BY <1>2, <1>9 DEF PollExpire, RestoredBuffer
  <2>2. /\ client' = "none" /\ isConnected' = FALSE /\ acks' = 0
        /\ UNCHANGED <<waiting, sessions, silence, pc, quietFor>>
    BY <1>9 DEF PollExpire
  <2>3. sinceLoop' \in 0..Lateness + 1
    BY <1>9, NumberConstants DEF PollExpire
  <2>4. QED  BY <2>1, <2>2, <2>3 DEF TypeOK
<1>10. ASSUME PollRead PROVE TypeOK'
  <2>1. PICK r \in 0..Len(inbox) :
               /\ r = Received(Len(inbox), Len(Kept))
               /\ Len(Kept) + r <= MAX_DATA_BYTES
    BY <1>1, <1>3, ReceivedFits
  <2>2. PICK taken \in Seq(Byte) :
               Len(taken) = r /\ taken = SubSeq(inbox, 1, r)
    BY <1>1, Cut
  <2>3. inbox' \in Seq(Byte)
    BY <1>1, <1>10, <2>1, Cut DEF PollRead
  <2>4. buffer' = Kept \o taken
    BY <1>10, <2>1, <2>2 DEF PollRead
  <2>5. buffer' \in Seq(Byte) /\ Len(buffer') <= MAX_DATA_BYTES
    BY <1>3, <2>1, <2>2, <2>4, ConcatProperties
  <2>6. /\ silence' \in 0..KEEPALIVE_TIMEOUT /\ pc' \in {"idle", "process"}
        /\ isConnected' = TRUE /\ sinceLoop' \in 0..Lateness + 1
        /\ UNCHANGED <<client, waiting, sessions, acks, sent, consumed, quietFor>>
    BY <1>10, NumberConstants DEF PollRead, TypeOK
  <2>7. QED  BY <2>3, <2>5, <2>6 DEF TypeOK
<1>11. ASSUME ProcessNothing PROVE TypeOK'
  BY <1>11 DEF ProcessNothing, TypeOK
<1>12. ASSUME ProcessCommand PROVE TypeOK'
  <2>1. PICK n \in 1..Len(buffer) : n = CommandLength(buffer[1])
    BY <1>1, <1>12, CommandInBuffer DEF ProcessCommand
  <2>2. /\ buffer' = SubSeq(buffer, n + 1, Len(buffer))
        /\ consumed' = consumed \o SubSeq(buffer, 1, n)
    BY <1>12, <2>1 DEF ProcessCommand, Rest
  <2>3. buffer' \in Seq(Byte) /\ Len(buffer') = Len(buffer) - n
    BY <1>1, <2>2, Cut
  <2>4. Len(buffer') <= MAX_DATA_BYTES
    BY <1>1, <2>3, NumberConstants
  <2>5. SubSeq(buffer, 1, n) \in Seq(Byte)
    BY <1>1, Cut
  <2>6. consumed' \in Seq(Byte)
    BY <1>1, <2>2, <2>5, ConcatProperties
  <2>7. /\ silence' \in 0..KEEPALIVE_TIMEOUT /\ acks' \in Nat
        /\ pc' \in {"idle", "process", "call"}
        /\ UNCHANGED <<network, isConnected, sent, quietFor, sinceLoop>>
    BY <1>12, NumberConstants DEF ProcessCommand, Continue, TypeOK
  <2>8. QED  BY <2>3, <2>4, <2>6, <2>7 DEF TypeOK
<1>13. ASSUME NEW accepted \in BOOLEAN, CallReturns(accepted) PROVE TypeOK'
  BY <1>13 DEF CallReturns, Continue, TypeOK
<1>14. CASE UNCHANGED vars
  BY <1>14 DEF vars, TypeOK
<1>15. ASSUME Reset PROVE TypeOK'
  <2>1. /\ buffer' \in Seq(Byte) /\ Len(buffer') <= MAX_DATA_BYTES
        /\ sent' \in Seq(Byte) /\ consumed' \in Seq(Byte)
        /\ inbox' \in Seq(Byte)
    BY <1>2, <1>15 DEF Reset
  <2>2. /\ silence' \in 0..KEEPALIVE_TIMEOUT /\ quietFor' \in 0..Patience
        /\ sinceLoop' \in 0..Lateness + 1
    BY <1>15, NumberConstants DEF Reset
  <2>3. /\ client' = "none" /\ waiting' = FALSE /\ isConnected' = FALSE
        /\ pc' = "idle" /\ acks' = 0
        /\ UNCHANGED sessions
    BY <1>15 DEF Reset
  <2>4. QED  BY <2>1, <2>2, <2>3 DEF TypeOK
<1>16. QED
  BY <1>4, <1>5, <1>6, <1>7, <1>8, <1>9, <1>10, <1>11, <1>12, <1>13, <1>14,
     <1>15
  DEF Next, Network, Loop, ProcessInput

(* A session starts with an empty buffer and ends with an empty socket.    *)
LEMMA SessionStep == TypeOK /\ SessionInv /\ [Next]_vars => SessionInv'
<1> SUFFICES ASSUME TypeOK, SessionInv, [Next]_vars PROVE SessionInv'
  OBVIOUS
<1> USE DEF SessionInv, network, history
<1>1. ASSUME NEW segment \in Segments, Send(segment) PROVE SessionInv'
  BY <1>1 DEF Send
<1>2. ASSUME PollAccept PROVE SessionInv'
  BY <1>2 DEF PollAccept, Connected, RestoredBuffer, TypeOK
<1>3. ASSUME PollExpire PROVE SessionInv'
  BY <1>3 DEF PollExpire, RestoredBuffer
<1>4. ASSUME PollRead PROVE SessionInv'
  BY <1>4 DEF PollRead, Connected
<1>5. ASSUME ProcessCommand PROVE SessionInv'
  BY <1>5 DEF ProcessCommand, StartsCommand
<1>6. CASE \/ Connect \/ PeerClose \/ Second \/ ProcessNothing
           \/ \E accepted \in BOOLEAN : CallReturns(accepted)
           \/ Reset \/ UNCHANGED vars
  BY <1>6
  DEF Connect, PeerClose, Second, ProcessNothing, CallReturns, Reset, vars
<1>7. QED
  BY <1>1, <1>2, <1>3, <1>4, <1>5, <1>6 DEF Next, Network, Loop, ProcessInput

(* Bytes only move from the socket to the buffer to the commands, and all  *)
(* three are emptied together with what was sent.                          *)
LEMMA StreamStep ==
    TypeOK /\ SessionInv /\ StreamIntegrity /\ [Next]_vars => StreamIntegrity'
<1> SUFFICES ASSUME TypeOK, SessionInv, StreamIntegrity, [Next]_vars
             PROVE  StreamIntegrity'
  OBVIOUS
<1> USE DEF StreamIntegrity, network, history
<1>1. /\ consumed \in Seq(Byte) /\ buffer \in Seq(Byte) /\ inbox \in Seq(Byte)
  BY DEF TypeOK
<1>0. /\ Len(inbox) \in Nat /\ Len(buffer) \in 0..MAX_DATA_BYTES
  BY LenProperties, NumberConstants DEF TypeOK
<1>2. ASSUME NEW segment \in Segments, Send(segment) PROVE StreamIntegrity'
  <2>1. PICK s \in Seq(Byte) : s = segment
    BY VoodooAssumption
  <2>2. /\ inbox' = inbox \o s /\ sent' = sent \o s
        /\ UNCHANGED <<consumed, buffer>>
    BY <1>2, <2>1 DEF Send
  <2>3. Regroups(consumed, buffer, inbox, s)
    BY <1>1, Regrouping
  <2>4. QED  BY <2>2, <2>3 DEF Regroups
<1>3. ASSUME PollAccept PROVE StreamIntegrity'
  <2>1. inbox = <<>> /\ buffer' = <<>>
    BY <1>3 DEF PollAccept, Connected, SessionInv, RestoredBuffer, TypeOK
  <2>2. inbox' = <<>> /\ consumed' = <<>> /\ sent' = <<>>
    BY <1>3, <2>1 DEF PollAccept
  <2>3. QED  BY <2>1, <2>2, EmptySeq, ConcatEmptySeq
<1>4. ASSUME PollExpire \/ Reset PROVE StreamIntegrity'
  BY <1>4, EmptySeq, ConcatEmptySeq DEF PollExpire, Reset, RestoredBuffer
<1>5. ASSUME PollRead PROVE StreamIntegrity'
  <2>1. Kept = buffer
    BY DEF Kept, RestoredBuffer, SessionInv
  <2>2. PICK r \in 0..Len(inbox) : r = Received(Len(inbox), Len(Kept))
    BY <1>0, <2>1, ReceivedFits
  <2>3. /\ buffer' = buffer \o SubSeq(inbox, 1, r)
        /\ inbox' = SubSeq(inbox, r + 1, Len(inbox))
        /\ UNCHANGED <<consumed, sent>>
    BY <1>5, <2>1, <2>2 DEF PollRead
  <2>4. (consumed \o buffer') \o inbox' = (consumed \o buffer) \o inbox
    BY <1>1, <2>3, ReadKeepsStream
  <2>5. QED  BY <2>3, <2>4 DEF StreamIntegrity
<1>6. ASSUME ProcessCommand PROVE StreamIntegrity'
  <2>1. PICK n \in 0..Len(buffer) : n = CommandLength(buffer[1])
    BY <1>0, <1>1, <1>6, CommandInBuffer DEF ProcessCommand
  <2>2. /\ consumed' = consumed \o SubSeq(buffer, 1, n)
        /\ buffer' = SubSeq(buffer, n + 1, Len(buffer))
        /\ UNCHANGED <<inbox, sent>>
    BY <1>6, <2>1 DEF ProcessCommand, Rest
  <2>3. QED  BY <1>1, <2>2, ConsumeKeepsStream
<1>7. CASE \/ Connect \/ PeerClose \/ Second \/ ProcessNothing
           \/ \E accepted \in BOOLEAN : CallReturns(accepted)
           \/ UNCHANGED vars
  BY <1>7 DEF Connect, PeerClose, Second, ProcessNothing, CallReturns, vars
<1>8. QED
  BY <1>2, <1>3, <1>4, <1>5, <1>6, <1>7 DEF Next, Network, Loop, ProcessInput

(* What a new segment adds to the stream leaves the earlier bytes alone.   *)
LEMMA Extended ==
    ASSUME NEW s \in Seq(Byte), NEW t \in Seq(Byte)
    PROVE  /\ s \o t \in Seq(Byte) /\ Len(s) \in Nat /\ Len(t) \in Nat
           /\ Len(s \o t) = Len(s) + Len(t)
           /\ \A p \in 0..Len(s) : p < Len(s) => (s \o t)[p + 1] = s[p + 1]
<1>1. Len(s) \in Nat /\ Len(t) \in Nat
  BY LenProperties
<1>2. s \o t \in Seq(Byte) /\ Len(s \o t) = Len(s) + Len(t)
  BY ConcatProperties
<1>3. ASSUME NEW p \in 0..Len(s), p < Len(s)
      PROVE  (s \o t)[p + 1] = s[p + 1]
  BY <1>1, <1>3, ConcatProperties
<1>4. QED  BY <1>1, <1>2, <1>3

(* The first buffered byte, seen in the stream the client sent.            *)
LEMMA NextInStream ==
    ASSUME NEW c \in Seq(Byte), NEW b \in Seq(Byte), NEW i \in Seq(Byte),
           b # <<>>
    PROVE  /\ Len((c \o b) \o i) = Len(c) + Len(b) + Len(i)
           /\ ((c \o b) \o i)[Len(c) + 1] = b[1]
<1>1. Len(c) \in Nat /\ Len(b) \in Nat \ {0} /\ Len(i) \in Nat
  BY LenProperties, EmptySeq
<1>2. c \o b \in Seq(Byte) /\ Len(c \o b) = Len(c) + Len(b)
  BY ConcatProperties
<1>3. (c \o b)[Len(c) + 1] = b[1]
  <2>1. Len(c) + 1 \in 1..Len(c) + Len(b) /\ ~(Len(c) + 1 <= Len(c))
    BY <1>1
  <2>2. (Len(c) + 1) - Len(c) = 1
    BY <1>1
  <2>3. QED  BY <2>1, <2>2, ConcatProperties
<1>4. Len((c \o b) \o i) = Len(c) + Len(b) + Len(i)
  BY <1>1, <1>2, ConcatProperties
<1>5. ((c \o b) \o i)[Len(c) + 1] = (c \o b)[Len(c) + 1]
  BY <1>1, <1>2, Extended
<1>6. QED  BY <1>3, <1>4, <1>5

(* Only whole commands leave the buffer, and what is sent later does not   *)
(* change where the earlier commands end.                                  *)
LEMMA InStepStep ==
    TypeOK /\ SessionInv /\ StreamIntegrity /\ InStep /\ [Next]_vars => InStep'
<1> SUFFICES ASSUME TypeOK, SessionInv, StreamIntegrity, InStep, [Next]_vars,
                    NEW E \in SUBSET (0..Len(sent')),
                    0 \in E, ClosedUnderCommands(E)'
             PROVE  Len(consumed') \in E
  BY DEF InStep
<1> USE DEF network, history
<1>1. /\ consumed \in Seq(Byte) /\ buffer \in Seq(Byte) /\ inbox \in Seq(Byte)
      /\ sent \in Seq(Byte)
  BY DEF TypeOK
<1>2. /\ Len(consumed) \in Nat /\ Len(buffer) \in Nat /\ Len(inbox) \in Nat
      /\ Len(sent) \in Nat
  BY <1>1, LenProperties
<1>3. ASSUME UNCHANGED <<sent, consumed>> PROVE Len(consumed') \in E
  BY <1>3 DEF InStep, ClosedUnderCommands
<1>4. ASSUME NEW segment \in Segments, Send(segment)
      PROVE  Len(consumed') \in E
  <2> DEFINE F == E \cap (0..Len(sent))
  <2>1. PICK s \in Seq(Byte) : s = segment
    BY VoodooAssumption
  <2>2. sent' = sent \o s /\ consumed' = consumed
    BY <1>4, <2>1 DEF Send
  <2>3. /\ Len(sent') = Len(sent) + Len(s) /\ Len(s) \in Nat
        /\ \A p \in 0..Len(sent) : p < Len(sent) => sent'[p + 1] = sent[p + 1]
    BY <1>1, <2>2, Extended
  <2>4. ASSUME NEW p \in F, p < Len(sent), sent[p + 1] < ACTION_RANGE,
               p + CommandLength(sent[p + 1]) <= Len(sent)
        PROVE  p + CommandLength(sent[p + 1]) \in F
    <3>1. sent'[p + 1] = sent[p + 1] /\ p \in 0..Len(sent) /\ p \in E
      BY <2>3, <2>4
    <3>2. sent[p + 1] \in Byte
      BY <1>1, <1>2, <2>4, <3>1, ElementOfSeq
    <3>3. CommandLength(sent[p + 1]) \in Nat
      BY <3>2, CommandLengthType
    <3>4. /\ p < Len(sent')
          /\ p + CommandLength(sent[p + 1]) <= Len(sent')
          /\ p + CommandLength(sent[p + 1]) \in 0..Len(sent)
      BY <1>2, <2>3, <2>4, <3>1, <3>3
    <3>5. p + CommandLength(sent[p + 1]) \in E
      BY <2>4, <3>1, <3>4 DEF ClosedUnderCommands, CommandLength, Operands
    <3>6. QED  BY <3>4, <3>5
  <2>5. 0 \in F
    BY <1>2
  <2>6. ClosedUnderCommands(F)
    BY <2>4 DEF ClosedUnderCommands
  <2>7. Len(consumed) \in F
    BY <2>5, <2>6 DEF InStep
  <2>8. QED  BY <2>2, <2>7
<1>5. ASSUME PollAccept \/ PollExpire \/ Reset PROVE Len(consumed') \in E
  <2>1. consumed' = <<>>
    BY <1>5 DEF PollAccept, PollExpire, Reset
  <2>2. QED  BY <2>1, EmptySeq
<1>6. ASSUME ProcessCommand PROVE Len(consumed') \in E
  <2>1. PICK n \in 1..Len(buffer) : n = CommandLength(buffer[1])
    BY <1>1, <1>2, <1>6, CommandInBuffer DEF ProcessCommand
  <2>2. /\ sent' = sent /\ buffer # <<>> /\ buffer[1] < ACTION_RANGE
        /\ consumed' = consumed \o SubSeq(buffer, 1, n)
    BY <1>6, <2>1 DEF ProcessCommand, StartsCommand
  <2>3. Len(consumed') = Len(consumed) + n
    <3>0. n \in 0..Len(buffer)
      BY <1>2
    <3>1. PICK x \in Seq(Byte) : x = SubSeq(buffer, 1, n) /\ Len(x) = n
      BY <1>1, <3>0, Cut
    <3>2. QED  BY <1>1, <2>2, <3>1, ConcatProperties
  <2>4. /\ Len(sent) = Len(consumed) + Len(buffer) + Len(inbox)
        /\ sent[Len(consumed) + 1] = buffer[1]
    BY <1>1, <2>2, NextInStream DEF StreamIntegrity
  <2>5. ClosedUnderCommands(E)
    BY <2>2 DEF ClosedUnderCommands
  <2>6. Len(consumed) \in E
    BY <2>2, <2>5 DEF InStep
  <2>7. Len(consumed) < Len(sent) /\ Len(consumed) + n <= Len(sent)
    BY <1>2, <2>1, <2>4
  <2>8. QED  BY <2>1, <2>2, <2>3, <2>4, <2>5, <2>6, <2>7 DEF ClosedUnderCommands
<1>7. CASE \/ Connect \/ PeerClose \/ Second \/ PollRead \/ ProcessNothing
           \/ \E accepted \in BOOLEAN : CallReturns(accepted)
           \/ UNCHANGED vars
  <2>1. UNCHANGED <<sent, consumed>>
    BY <1>7
    DEF Connect, PeerClose, Second, PollRead, ProcessNothing, CallReturns, vars
  <2>2. QED  BY <1>3, <2>1
<1>8. QED
  BY <1>4, <1>5, <1>6, <1>7 DEF Next, Network, Loop, ProcessInput

----------------------------------------------------------------------------
LEMMA InitVoodooInv == Init => VoodooInv
<1> SUFFICES ASSUME Init PROVE VoodooInv
  OBVIOUS
<1>1. <<>> \in Seq(Byte) /\ Len(<<>>) = 0
  BY EmptySeq
<1>2. TypeOK
  <2>1. /\ inbox \in Seq(Byte) /\ sent \in Seq(Byte) /\ consumed \in Seq(Byte)
        /\ buffer \in Seq(Byte) /\ Len(buffer) <= MAX_DATA_BYTES
    BY <1>1, NumberConstants DEF Init
  <2>2. /\ sessions \in 0..MaxSessions /\ silence \in 0..KEEPALIVE_TIMEOUT
        /\ quietFor \in 0..Patience /\ sinceLoop \in 0..Lateness + 1
        /\ acks \in Nat
    BY NumberConstants DEF Init
  <2>3. /\ client \in {"none", "open", "closed"} /\ waiting \in BOOLEAN
        /\ isConnected \in BOOLEAN /\ pc \in {"idle", "process", "call"}
    BY DEF Init
  <2>4. QED  BY <2>1, <2>2, <2>3 DEF TypeOK
<1>3. SessionInv
  BY DEF Init, SessionInv
<1>4. StreamIntegrity
  BY EmptySeq, ConcatEmptySeq DEF Init, StreamIntegrity
<1>5. InStep
  BY <1>1 DEF Init, InStep
<1>6. QED  BY <1>2, <1>3, <1>4, <1>5 DEF VoodooInv

LEMMA NextVoodooInv == VoodooInv /\ [Next]_vars => VoodooInv'
BY TypeStep, SessionStep, StreamStep, InStepStep DEF VoodooInv

(* VoodooInv holds in every reachable state.                               *)
THEOREM Invariance == Spec => []VoodooInv
BY InitVoodooInv, NextVoodooInv, PTL DEF Spec

(* _loop never writes past the end of the buffer, although its bound on    *)
(* the bytes it reads moves while it reads them.                           *)
THEOREM TypeCorrect == Spec => []TypeOK
<1>1. VoodooInv => TypeOK
  BY DEF VoodooInv
<1>2. QED  BY <1>1, Invariance, PTL

(* The bytes a client sent are consumed, buffered or unread, in order,     *)
(* whatever sessions came before and however reads cut the stream.         *)
THEOREM StreamKept == Spec => []StreamIntegrity
<1>1. VoodooInv => StreamIntegrity
  BY DEF VoodooInv
<1>2. QED  BY <1>1, Invariance, PTL

(* The server never takes an operand for an action.                        *)
THEOREM FramingKept == Spec => []InStep
<1>1. VoodooInv => InStep
  BY DEF VoodooInv
<1>2. QED  BY <1>1, Invariance, PTL

----------------------------------------------------------------------------
(* The server implements the stream of commands its client relies on.      *)

(* A step of the program is one of the abstract server, or none.           *)
LEMMA ServerStep ==
    TypeOK /\ SessionInv /\ StreamIntegrity /\ [Next]_vars
        => [Server!Next]_Server!vars
<1> SUFFICES ASSUME TypeOK, SessionInv, StreamIntegrity, [Next]_vars
             PROVE  Server!Next \/ UNCHANGED Server!vars
  OBVIOUS
<1> USE DEF network, history
<1>1. /\ consumed \in Seq(Byte) /\ buffer \in Seq(Byte) /\ inbox \in Seq(Byte)
      /\ sent \in Seq(Byte)
  BY DEF TypeOK
<1>2. /\ Len(consumed) \in Nat /\ Len(buffer) \in Nat /\ Len(inbox) \in Nat
      /\ Len(sent) \in Nat
  BY <1>1, LenProperties
<1>3. ASSUME NEW segment \in Segments, Send(segment) PROVE Server!Write
  <2>1. PICK s \in Seq(Byte) : s = segment
    BY VoodooAssumption
  <2>2. sent' = sent \o s /\ UNCHANGED <<consumed, pc, acks>>
    BY <1>3, <2>1 DEF Send
  <2>3. Len(sent') >= Len(sent)
    BY <1>1, <2>2, Extended
  <2>4. ASSUME NEW i \in 1..Len(sent) PROVE sent'[i] = sent[i]
    BY <1>1, <1>2, <2>2, ConcatProperties
  <2>5. QED  BY <2>2, <2>3, <2>4 DEF Server!Write
<1>4. ASSUME PollAccept \/ PollExpire \/ Reset PROVE Server!EndSession
  <2>1. sent' = <<>> /\ consumed' = <<>> /\ acks' = 0 /\ pc' = "idle"
    BY <1>4 DEF PollAccept, PollExpire, Reset
  <2>2. Len(consumed') = 0
    BY <2>1, EmptySeq
  <2>3. QED  BY <2>1, <2>2 DEF Server!EndSession
<1>5. ASSUME ProcessCommand PROVE Server!Execute
  <2>1. PICK n \in 1..Len(buffer) : n = CommandLength(buffer[1])
    BY <1>1, <1>2, <1>5, CommandInBuffer DEF ProcessCommand
  <2>2. /\ buffer # <<>> /\ buffer[1] \in 0..ACTION_RANGE - 1
        /\ buffer[1] \in Byte
    <3>1. buffer # <<>> /\ buffer[1] < ACTION_RANGE
      BY <1>5 DEF ProcessCommand, StartsCommand
    <3>2. buffer[1] \in Byte
      BY <1>1, <1>5, CommandInBuffer DEF ProcessCommand
    <3>3. \A b \in Byte : b < ACTION_RANGE => b \in 0..ACTION_RANGE - 1
      BY DEF Byte, ACTION_RANGE
    <3>4. QED  BY <3>1, <3>2, <3>3
  <2>3. Len(consumed') = Len(consumed) + n
    <3>0. n \in 0..Len(buffer)
      BY <1>2
    <3>1. PICK x \in Seq(Byte) : x = SubSeq(buffer, 1, n) /\ Len(x) = n
      BY <1>1, <3>0, Cut
    <3>2. consumed' = consumed \o x
      BY <1>5, <2>1, <3>1 DEF ProcessCommand
    <3>3. QED  BY <1>1, <3>1, <3>2, ConcatProperties
  <2>4. /\ Len(sent) = Len(consumed) + Len(buffer) + Len(inbox)
        /\ sent[Len(consumed) + 1] = buffer[1]
    BY <1>1, <2>2, NextInStream DEF StreamIntegrity
  <2>5. Len(consumed) < Len(sent) /\ Len(consumed) + n <= Len(sent)
    BY <1>2, <2>1, <2>4
  <2>6. /\ pc = "process" /\ sent' = sent
        /\ (pc' = "call") = (buffer[1] \in Calls)
        /\ acks' = IF buffer[1] \in {KEEPALIVE} THEN acks + 1 ELSE acks
    BY <1>5 DEF ProcessCommand, Continue
  <2>7. QED  BY <2>1, <2>2, <2>3, <2>4, <2>5, <2>6 DEF Server!Execute
<1>6. ASSUME NEW accepted \in BOOLEAN, CallReturns(accepted)
      PROVE  Server!Return
  BY <1>6 DEF CallReturns, Continue, Server!Return
<1>7. ASSUME \/ Connect \/ PeerClose \/ Second \/ PollRead \/ ProcessNothing
             \/ UNCHANGED vars
      PROVE  UNCHANGED Server!vars
  BY <1>7
  DEF Connect, PeerClose, Second, PollRead, ProcessNothing, vars, Server!vars
<1>8. QED
  BY <1>3, <1>4, <1>5, <1>6, <1>7
  DEF Next, Network, Loop, ProcessInput, Server!Next

(* To its client the program is the abstract server of commands, for every *)
(* buffer, timeout and stream, and across resets.                          *)
THEOREM ServerImplemented == Spec => ServesCommands
<1>1. Init => Server!Init
  BY EmptySeq DEF Init, Server!Init
<1>2. VoodooInv /\ [Next]_vars => [Server!Next]_Server!vars
  BY ServerStep DEF VoodooInv
<1>3. QED  BY <1>1, <1>2, Invariance, PTL DEF Spec, ServesCommands, Server!Spec

----------------------------------------------------------------------------
(* A client that sends keepalives and nothing else.                        *)

\* What is buffered is keepalives, and between two runs of _loop two at most.
KeepalivesInv ==
    /\ buffer \in Seq({KEEPALIVE}) /\ inbox \in Seq({KEEPALIVE})
    /\ pc # "call"
    /\ pc = "process" => buffer # <<>>
    /\ pc = "idle" => Len(buffer) <= 2

\* The server's silence is not longer than the client's, unless a keepalive
\* is buffered, or has arrived since _loop last ran.
AwakeInv ==
    Connected /\ isConnected /\ ~Lapsed =>
        \/ client = "open" /\ silence <= quietFor
        \/ pc = "process"
        \/ inbox # <<>> /\ (sinceLoop <= Lateness => silence < Patience + sinceLoop)

(* The client: keepalives only, at intervals that leave _loop some seconds *)
(* of the timeout, and a buffer with room behind two of them.              *)
Punctual == /\ Segments \subseteq Seq({KEEPALIVE})
            /\ Patience >= 1 /\ Patience + Lateness <= KEEPALIVE_TIMEOUT
            /\ MAX_DATA_BYTES > 2

\* Parts of streams of keepalives are such streams.
LEMMA KeepalivesCut ==
    ASSUME NEW s \in Seq({KEEPALIVE}), NEW k \in 0..Len(s)
    PROVE  /\ SubSeq(s, 1, k) \in Seq({KEEPALIVE}) /\ Len(SubSeq(s, 1, k)) = k
           /\ SubSeq(s, k + 1, Len(s)) \in Seq({KEEPALIVE})
           /\ Len(SubSeq(s, k + 1, Len(s))) = Len(s) - k
<1>1. Len(s) \in Nat /\ \A i \in 1..Len(s) : s[i] \in {KEEPALIVE}
  BY LenProperties, ElementOfSeq
<1>2. SubSeq(s, 1, k) \in Seq({KEEPALIVE}) /\ Len(SubSeq(s, 1, k)) = k
  BY <1>1, SubSeqProperties
<1>3. /\ SubSeq(s, k + 1, Len(s)) \in Seq({KEEPALIVE})
      /\ Len(SubSeq(s, k + 1, Len(s))) = Len(s) - k
  BY <1>1, SubSeqProperties
<1>4. QED  BY <1>2, <1>3

\* A keepalive in the buffer is a command.
LEMMA KeepaliveStarts ==
    ASSUME NEW s \in Seq({KEEPALIVE}), s # <<>>
    PROVE  StartsCommand(s) /\ s[1] = KEEPALIVE /\ CommandLength(s[1]) = 1
<1>1. Len(s) \in Nat \ {0}
  BY EmptySeq
<1>2. s[1] = KEEPALIVE
  BY <1>1, ElementOfSeq
<1>3. CommandLength(KEEPALIVE) = 1
  BY DEF CommandLength, Operands, KEEPALIVE, SWITCH_ON, SWITCH_OFF,
         AUTO_ON_TIME, AUTO_OFF_TIME
<1>4. QED
  BY <1>1, <1>2, <1>3 DEF StartsCommand, KEEPALIVE, ACTION_RANGE

\* Behind two bytes there is room.
LEMMA RoomLeft ==
    ASSUME NEW n \in 0..2, MAX_DATA_BYTES > 2
    PROVE  Room(n) \in Nat /\ Room(n) > 0
<1>1. MAX_DATA_BYTES - n + 1 \in Nat /\ MAX_DATA_BYTES - n + 1 >= 2
  BY NumberConstants
<1>2. \A m \in Nat : m >= 2 => m \div 2 \in Nat /\ m \div 2 > 0
  OBVIOUS
<1>3. QED  BY <1>1, <1>2 DEF Room

\* What waits in the socket is read, some of it at least.
LEMMA ReadsSome ==
    ASSUME Punctual, KeepalivesInv, SessionInv, PollRead
    PROVE  /\ buffer' \in Seq({KEEPALIVE}) /\ inbox' \in Seq({KEEPALIVE})
           /\ inbox # <<>> => buffer' # <<>>
           /\ inbox = <<>> => Len(buffer') <= 2
<1> DEFINE received == Received(Len(inbox), Len(Kept))
<1>1. /\ buffer' = Kept \o SubSeq(inbox, 1, received)
      /\ inbox' = SubSeq(inbox, received + 1, Len(inbox))
  BY DEF PollRead
<1>2. PICK kept \in Seq({KEEPALIVE}) : kept = Kept /\ Len(kept) \in 0..2
  <2>1. Kept = buffer
    BY DEF Kept, RestoredBuffer, SessionInv
  <2>2. pc = "idle"
    BY DEF PollRead
  <2>3. buffer \in Seq({KEEPALIVE}) /\ Len(buffer) <= 2
    BY <2>2 DEF KeepalivesInv
  <2>4. Len(buffer) \in Nat
    BY <2>3, LenProperties
  <2>5. Len(buffer) \in 0..2
    <3>1. \A n \in Nat : n <= 2 => n \in 0..2
      OBVIOUS
    <3>2. QED  BY <2>3, <2>4, <3>1
  <2>6. QED  BY <2>1, <2>3, <2>5
<1>3. inbox \in Seq({KEEPALIVE}) /\ Len(inbox) \in Nat
  BY LenProperties DEF KeepalivesInv
<1>4. received \in 0..Len(inbox) /\ (Len(inbox) > 0 => received > 0)
  <2>1. MAX_DATA_BYTES \in Nat /\ MAX_DATA_BYTES > 2
    BY NumberConstants DEF Punctual
  <2>2. Room(Len(kept)) \in Nat /\ Room(Len(kept)) > 0
    BY <1>2, <2>1, RoomLeft
  <2>3. received = Sooner(Len(inbox), Room(Len(kept)))
    BY <1>2 DEF Received
  <2> HIDE DEF received
  <2>4. QED  BY <1>3, <2>2, <2>3 DEF Sooner
<1> HIDE DEF received
<1>5. PICK x \in Seq({KEEPALIVE}) : x = SubSeq(inbox, 1, received) /\ Len(x) = received
  BY <1>3, <1>4, KeepalivesCut
<1>6. inbox' \in Seq({KEEPALIVE})
  BY <1>1, <1>3, <1>4, KeepalivesCut
<1>7. buffer' \in Seq({KEEPALIVE}) /\ Len(buffer') = Len(kept) + received
  BY <1>1, <1>2, <1>5, ConcatProperties
<1>8. inbox # <<>> => Len(inbox) > 0
  BY <1>3, EmptySeq
<1>9. inbox = <<>> => Len(inbox) = 0
  BY EmptySeq
<1>10. inbox # <<>> => buffer' # <<>>
  BY <1>2, <1>4, <1>7, <1>8, EmptySeq
<1>11. inbox = <<>> => Len(buffer') <= 2
  <2>1. inbox = <<>> => received = 0
    BY <1>4, <1>9
  <2>2. Len(kept) \in 0..2
    BY <1>2
  <2>3. inbox = <<>> => Len(buffer') = Len(kept) + 0
    BY <1>7, <2>1
  <2>4. QED  BY <2>2, <2>3
<1>12. QED  BY <1>6, <1>7, <1>10, <1>11

\* processInput goes on until two keepalives are left at most.
LEMMA KeepalivesStep ==
    Punctual /\ KeepalivesInv /\ SessionInv /\ [Next]_vars => KeepalivesInv'
<1> SUFFICES ASSUME Punctual, KeepalivesInv, SessionInv, [Next]_vars
             PROVE  KeepalivesInv'
  OBVIOUS
<1> USE DEF KeepalivesInv
<1>1. ASSUME NEW segment \in Segments, Send(segment) PROVE KeepalivesInv'
  <2>1. segment \in Seq({KEEPALIVE})
    BY DEF Punctual
  <2>2. inbox' \in Seq({KEEPALIVE})
    BY <1>1, <2>1, ConcatProperties DEF Send
  <2>3. QED  BY <1>1, <2>2 DEF Send
<1>2. ASSUME PollAccept \/ PollExpire \/ Reset PROVE KeepalivesInv'
  <2>1. /\ buffer' \in {buffer, <<>>} /\ inbox' \in {inbox, <<>>}
        /\ pc' = "idle" /\ (pc # "idle" => buffer' = <<>>)
    BY <1>2 DEF PollAccept, PollExpire, Reset, RestoredBuffer
  <2>2. Len(buffer') <= 2
    BY <2>1, EmptySeq
  <2>3. buffer' \in Seq({KEEPALIVE}) /\ inbox' \in Seq({KEEPALIVE})
    BY <2>1, EmptySeq
  <2>4. QED  BY <2>1, <2>2, <2>3
<1>3. ASSUME PollRead PROVE KeepalivesInv'
  <2>1. pc' = IF inbox # <<>> THEN "process" ELSE "idle"
    BY <1>3 DEF PollRead
  <2>2. QED  BY <1>3, <2>1, ReadsSome
<1>4. ASSUME ProcessCommand PROVE KeepalivesInv'
  <2>1. buffer # <<>> /\ buffer[1] = KEEPALIVE /\ CommandLength(buffer[1]) = 1
    BY <1>4, KeepaliveStarts DEF ProcessCommand
  <2>2. Len(buffer) \in Nat \ {0}
    BY <2>1, EmptySeq
  <2>3. PICK rest \in Seq({KEEPALIVE}) : rest = Rest(buffer) /\ Len(rest) \in Nat
    <3>1. 1 \in 0..Len(buffer)
      BY <2>2
    <3>2. Rest(buffer) \in Seq({KEEPALIVE})
      BY <2>1, <3>1, KeepalivesCut DEF Rest
    <3>3. QED  BY <3>2, LenProperties
  <2>4. buffer' = rest /\ inbox' = inbox /\ pc' = Continue(Len(rest))
    BY <1>4, <2>1, <2>3
    DEF ProcessCommand, Calls, KEEPALIVE, SWITCH_ON, SWITCH_OFF, AUTO_ON_TIME,
        AUTO_OFF_TIME, network
  <2>5. QED  BY <2>3, <2>4, EmptySeq DEF Continue
<1>5. ASSUME ProcessNothing PROVE FALSE
  BY <1>5, KeepaliveStarts DEF ProcessNothing
<1>6. CASE \/ Connect \/ PeerClose \/ Second \/ UNCHANGED vars
  BY <1>6 DEF Connect, PeerClose, Second, vars, network
<1>7. ASSUME NEW accepted \in BOOLEAN, CallReturns(accepted) PROVE FALSE
  BY <1>7 DEF CallReturns
<1>8. QED
  BY <1>1, <1>2, <1>3, <1>4, <1>5, <1>6, <1>7 DEF Next, Network, Loop, ProcessInput

\* While the client is punctual a keepalive ends the server's silence in time.
LEMMA AwakeStep ==
    Punctual /\ TypeOK /\ SessionInv /\ KeepalivesInv /\ AwakeInv /\ [Next]_vars
        => AwakeInv'
<1> SUFFICES ASSUME Punctual, TypeOK, SessionInv, KeepalivesInv, AwakeInv, [Next]_vars
             PROVE  AwakeInv'
  OBVIOUS
<1>1. Patience \in Nat /\ Patience >= 1 /\ Lateness \in Nat /\ KEEPALIVE_TIMEOUT \in Nat
  BY NumberConstants DEF Punctual
<1>2. /\ silence \in Nat /\ quietFor \in Nat /\ quietFor <= Patience
      /\ sinceLoop \in Nat /\ sinceLoop <= Lateness + 1
  BY <1>1 DEF TypeOK
<1>3. ASSUME NEW segment \in Segments, Send(segment) PROVE AwakeInv'
  <2>1. inbox' # <<>>
    <3>1. segment \in Seq({KEEPALIVE}) /\ segment # <<>>
      BY VoodooAssumption DEF Punctual
    <3>2. Len(segment) > 0 /\ Len(inbox) >= 0 /\ Len(segment) \in Nat /\ Len(inbox) \in Nat
      BY <3>1, EmptySeq, LenProperties DEF KeepalivesInv
    <3>3. Len(inbox') = Len(inbox) + Len(segment)
      BY <1>3, <3>1, ConcatProperties DEF Send, KeepalivesInv
    <3>4. QED  BY <3>2, <3>3, EmptySeq
  <2>2. /\ client = "open" /\ UNCHANGED <<client, isConnected, silence, pc, sinceLoop>>
        /\ Lapsed => Lapsed'
    BY <1>1, <1>3 DEF Send, Lapsed
  <2>3. ~Lapsed => quietFor < Patience
    BY <1>1, <1>2 DEF Lapsed
  <2>4. QED  BY <1>1, <1>2, <2>1, <2>2, <2>3 DEF AwakeInv, Connected
<1>4. ASSUME PeerClose PROVE AwakeInv'
  BY <1>1, <1>2, <1>4 DEF PeerClose, AwakeInv, Connected, Lapsed, history
<1>5. ASSUME Second PROVE AwakeInv'
  <2>1. /\ UNCHANGED <<client, inbox, isConnected, pc>>
        /\ isConnected => /\ silence' <= silence + 1
                          /\ sinceLoop' <= Lateness => sinceLoop' = sinceLoop + 1
        /\ silence' \in Nat /\ sinceLoop' \in Nat
    BY <1>1, <1>2, <1>5 DEF Second, network, Sooner
  <2>2. ~Lapsed' => ~Lapsed /\ (client = "open" => quietFor' = quietFor + 1)
    BY <1>1, <1>2, <1>5 DEF Second, Sooner, Lapsed
  <2>3. ASSUME Connected', isConnected', ~Lapsed'
        PROVE  \/ client = "open" /\ silence' <= quietFor'
               \/ pc = "process"
               \/ /\ inbox # <<>>
                  /\ sinceLoop' <= Lateness => silence' < Patience + sinceLoop'
    <3>1. Connected /\ isConnected /\ ~Lapsed
      BY <2>1, <2>2, <2>3 DEF Connected
    <3>2. \/ client = "open" /\ silence <= quietFor
          \/ pc = "process"
          \/ inbox # <<>> /\ (sinceLoop <= Lateness => silence < Patience + sinceLoop)
      BY <3>1 DEF AwakeInv
    <3>3. client = "open" /\ silence <= quietFor => silence' <= quietFor'
      BY <1>2, <2>1, <2>2, <2>3, <3>1
    <3>4. (sinceLoop <= Lateness => silence < Patience + sinceLoop)
             => (sinceLoop' <= Lateness => silence' < Patience + sinceLoop')
      BY <1>1, <1>2, <2>1, <3>1
    <3>5. QED  BY <3>2, <3>3, <3>4
  <2>4. QED  BY <2>1, <2>3 DEF AwakeInv
<1>6. ASSUME PollAccept \/ PollExpire \/ Reset PROVE AwakeInv'
  BY <1>6 DEF PollAccept, PollExpire, Reset, AwakeInv
<1>7. ASSUME PollRead PROVE AwakeInv'
  <2>1. /\ pc = "idle" /\ Connected /\ UNCHANGED <<client, quietFor>>
        /\ silence' = IF isConnected THEN silence ELSE 0
        /\ pc' = IF inbox # <<>> THEN "process" ELSE "idle"
    BY <1>7 DEF PollRead
  <2>2. QED  BY <1>1, <1>2, <2>1 DEF AwakeInv, Connected, Lapsed
<1>8. ASSUME ProcessCommand PROVE AwakeInv'
  <2>1. silence' = 0 /\ UNCHANGED <<client, inbox, isConnected, quietFor, sinceLoop>>
    <3>1. buffer # <<>>
      BY <1>8 DEF ProcessCommand, StartsCommand
    <3>2. buffer[1] = KEEPALIVE
      BY <3>1, KeepaliveStarts DEF KeepalivesInv
    <3>3. QED  BY <1>8, <3>2 DEF ProcessCommand, network
  <2>2. QED  BY <1>1, <1>2, <2>1 DEF AwakeInv, Connected
<1>9. ASSUME ProcessNothing \/ \E accepted \in BOOLEAN : CallReturns(accepted)
      PROVE  FALSE
  BY <1>9, KeepaliveStarts DEF ProcessNothing, CallReturns, KeepalivesInv
<1>10. CASE Connect \/ UNCHANGED vars
  BY <1>10 DEF Connect, vars, history, AwakeInv, Connected, Lapsed
<1>11. QED
  BY <1>3, <1>4, <1>5, <1>6, <1>7, <1>8, <1>9, <1>10
  DEF Next, Network, Loop, ProcessInput

(* Whatever the clock and the timer thread do, _loop drops no client that  *)
(* sends keepalives, one or many at a time, at intervals that leave of the *)
(* timeout as many seconds as _loop may be late.  It looks at the clock    *)
(* before it reads, reads half a buffer and leaves two keepalives there.   *)
THEOREM LiveClient == Punctual => (Spec => LiveClientKept)
<1> SUFFICES ASSUME Punctual PROVE Spec => LiveClientKept
  OBVIOUS
<1> DEFINE I == VoodooInv /\ KeepalivesInv /\ AwakeInv
<1>1. Init => KeepalivesInv /\ AwakeInv
  BY EmptySeq DEF Init, KeepalivesInv, AwakeInv, Connected
<1>2. I /\ [Next]_vars => I'
  BY NextVoodooInv, KeepalivesStep, AwakeStep DEF VoodooInv
<1>3. I /\ PollExpire => Lapsed \/ sinceLoop > Lateness
  <2> SUFFICES ASSUME I, PollExpire, ~Lapsed, ~(sinceLoop > Lateness) PROVE FALSE
    OBVIOUS
  <2>1. /\ pc = "idle" /\ Connected /\ isConnected /\ silence >= KEEPALIVE_TIMEOUT
    BY DEF PollExpire, Expired
  <2>2. /\ Patience \in Nat /\ Lateness \in Nat /\ KEEPALIVE_TIMEOUT \in Nat
        /\ Patience + Lateness <= KEEPALIVE_TIMEOUT
    BY NumberConstants DEF Punctual
  <2>3. /\ silence \in Nat /\ sinceLoop \in Nat
        /\ quietFor \in Nat /\ quietFor < Patience
    BY <2>2 DEF VoodooInv, TypeOK, Lapsed
  <2>4. sinceLoop <= Lateness
    BY <2>2, <2>3
  <2>5. silence < Patience + sinceLoop
    BY <2>1, <2>2, <2>3, <2>4 DEF AwakeInv
  <2>6. QED  BY <2>1, <2>2, <2>3, <2>4, <2>5
<1>4. I /\ [Next]_vars => [PollExpire => Lapsed \/ sinceLoop > Lateness]_vars
  BY <1>3
<1> HIDE DEF I
<1>5. Init => I
  BY <1>1, InitVoodooInv DEF I
<1>6. QED  BY <1>2, <1>4, <1>5, PTL DEF Spec, LiveClientKept
=============================================================================
