------------------------ MODULE SmartPlugRefinement ------------------------
(* The plug implements Socket, for every width of the integers, every      *)
(* bound and every set of requests.  The one step that needs an invariant  *)
(* is StartAuto: it looks at auto_time, and Socket's time is the EEPROM.   *)
EXTENDS SmartPlugProofs

(* Whoever is about to start an automatic timer holds the mutex under      *)
(* which the time in RAM and the one in EEPROM are the same.               *)
LEMMA StartedFromEeprom ==
    ASSUME IInv, NEW t \in Thread, pc[t] = "startAuto"
    PROVE  eeprom[arms[t]] = auto_time[arms[t]]
<1>1. auto_mutex[arms[t]] = t /\ arms[t] \in Dir
  BY DEF IInv, TypeOK, LockInv
<1>2. \A s \in Thread : ~(pc[s] = "set" /\ arms[s] = arms[t])
  BY <1>1 DEF IInv, TypeOK, LockInv
<1>3. QED  BY <1>1, <1>2 DEF IInv, PersistInv

(* What is a step of the socket.                                           *)
LEMMA PlugMoves ==
    /\ \A d \in Plug!Level :
          /\ Plug!Ask(d) \/ Plug!Plan(d) \/ Plug!Due(d) \/ Plug!Switch(d)
               \/ Plug!Withdraw(d) => Plug!Next
          /\ \A n \in 0..BYTE - 1 : Plug!Store(d, n) => Plug!Next
    /\ Plug!PowerCycle => Plug!Next
BY DEF Plug!Next

(* setup() starts with the relay off, nothing planned and nothing asked.   *)
LEMMA PlugInit == Init => Plug!Init
BY WidthAssumption
DEF Init, Erased, NothingPending, Idle, Planned, Asked, Dir, Thread, Stopped,
    Plug!Init, Plug!Level

(* A step of the program is a step of the socket, or none.                 *)
LEMMA PlugStep == IInv /\ [Next]_vars => [Plug!Next]_Plug!vars
<1> SUFFICES ASSUME IInv, [Next]_vars
             PROVE  Plug!Next \/ UNCHANGED Plug!vars
  OBVIOUS
<1> USE DEF Planned, Asked, Dir, Thread, Stopped, Opp, Target, Goto, Return,
           NoCall, timers, times, mutexes, call
<1>1. TypeOK /\ ArgInv
  BY DEF IInv
<1>2. ASSUME NEW t \in Requesters, NEW d \in Dir, NEW text \in Texts,
             SwitchRequest(t, d, text)
      PROVE  Plug!Ask(d)
  <2>1. t \in Thread
    BY RequestAssumption
  <2>2. Asked' = (Asked \ {Opp(d)}) \cup {d} \/ Asked' = Asked \cup {d}
    BY <1>1, <1>2, <2>1 DEF SwitchRequest, CancelledTimer, TypeOK
  <2>3. QED  BY <1>2, <2>2 DEF SwitchRequest, Plug!Ask, Plug!Other
<1>3. ASSUME NEW t \in Requesters, NEW d \in Dir, NEW text \in Texts,
             AutoRequest(t, d, text)
      PROVE  UNCHANGED Plug!vars
  BY <1>1, <1>3, RequestAssumption DEF AutoRequest, TypeOK, Plug!vars
<1>4. ASSUME NEW t \in Requesters, NEW text \in Texts, RefuseRequest(t, text)
      PROVE  UNCHANGED Plug!vars
  BY <1>4 DEF RefuseRequest, Plug!vars
<1>5. ASSUME NEW t \in Thread, \/ LockSocket(t) \/ LockAuto(t) \/ LockPersist(t)
                               \/ UnlockSocket(t) \/ SetTime(t) \/ CheckPin(t)
      PROVE  UNCHANGED Plug!vars
  BY <1>1, <1>5
  DEF LockSocket, LockAuto, LockPersist, UnlockSocket, SetTime, CheckPin,
      TypeOK, Plug!vars
<1>6. ASSUME NEW t \in Thread, ArmSwitch(t)
      PROVE  UNCHANGED Plug!vars
  BY <1>1, <1>6, WidthAssumption DEF ArmSwitch, ArgInv, TypeOK, Plug!vars
<1>7. ASSUME NEW t \in Thread, WritePin(t)
      PROVE  Plug!Switch(Target(t))
  BY <1>1, <1>7 DEF WritePin, TypeOK, Plug!Switch
<1>8. ASSUME NEW t \in Thread, StopAuto(t)
      PROVE  Plug!Withdraw(StoppedTimer(Target(t)))
  BY <1>1, <1>8 DEF StopAuto, StoppedTimer, TypeOK, Plug!Withdraw
<1>9. ASSUME NEW t \in Thread, StartAuto(t)
      PROVE  Plug!Plan(arms[t]) \/ UNCHANGED Plug!vars
  <2>1. eeprom[arms[t]] = auto_time[arms[t]] /\ arms[t] \in Dir
    BY <1>1, <1>9, StartedFromEeprom DEF StartAuto, TypeOK
  <2>2. CASE auto_time[arms[t]] > 0
    BY <1>1, <1>9, <2>1, <2>2, WidthAssumption
    DEF StartAuto, Started, TypeOK, Plug!Plan
  <2>3. CASE ~(auto_time[arms[t]] > 0)
    BY <1>1, <1>9, <2>1, <2>3 DEF StartAuto, Started, TypeOK, Plug!vars
  <2>4. QED  BY <2>2, <2>3
<1>10. ASSUME NEW t \in Thread, PutEeprom(t)
      PROVE  Plug!Store(arms[t], arg[t]) /\ arg[t] \in 0..BYTE - 1
  BY <1>1, <1>10 DEF PutEeprom, ArgInv, TypeOK, Plug!Store
<1>11. ASSUME NEW d \in Dir, ExpireAuto(d)
      PROVE  Plug!Due(d)
  BY <1>1, <1>11 DEF ExpireAuto, Fire, TypeOK, Plug!Due
<1>12. ASSUME NEW d \in Dir, ExpireSwitch(d)
      PROVE  UNCHANGED Plug!vars
  BY <1>1, <1>12 DEF ExpireSwitch, Fire, TypeOK, Plug!vars
<1>13. ASSUME Tick PROVE UNCHANGED Plug!vars
  BY <1>1, <1>13, WidthAssumption DEF Tick, TypeOK, Plug!vars
<1>14. ASSUME Reboot PROVE Plug!PowerCycle
  BY <1>14 DEF Reboot, NothingPending, Idle, Plug!PowerCycle
<1>15. CASE UNCHANGED vars
  BY <1>15 DEF vars, Plug!vars
<1>16. ASSUME NEW t \in Thread, WritePin(t) \/ StopAuto(t) \/ StartAuto(t)
                                \/ PutEeprom(t)
       PROVE  Plug!Next \/ UNCHANGED Plug!vars
  <2>1. /\ arms[t] \in Plug!Level /\ Target(t) \in Plug!Level
        /\ StoppedTimer(Target(t)) \in Plug!Level
    BY <1>1 DEF TypeOK, StoppedTimer, Plug!Level
  <2>2. \/ Plug!Switch(Target(t)) \/ Plug!Withdraw(StoppedTimer(Target(t)))
        \/ Plug!Plan(arms[t]) \/ UNCHANGED Plug!vars
        \/ Plug!Store(arms[t], arg[t]) /\ arg[t] \in 0..BYTE - 1
    BY <1>7, <1>8, <1>9, <1>10, <1>16
  <2> HIDE DEF Planned, Asked, Target, Opp
  <2>3. QED  BY ONLY <2>1, <2>2, PlugMoves
<1>17. ASSUME NEW d \in Dir, Plug!Ask(d) \/ Plug!Due(d) PROVE Plug!Next
  BY <1>17, PlugMoves DEF Plug!Level
<1>18. Plug!PowerCycle => Plug!Next
  BY PlugMoves
<1>19. Step \/ UNCHANGED vars
  BY NextIsStep
<1>20. QED
  BY ONLY <1>2, <1>3, <1>4, <1>5, <1>6, <1>11, <1>12, <1>13, <1>14, <1>15,
          <1>16, <1>17, <1>18, <1>19 DEF Step

(* To its user the plug is the abstract socket: no interleaving of the two *)
(* threads, no timer and no reset makes it switch unasked.                 *)
THEOREM SocketImplemented == Spec => IsSocket
BY PlugInit, PlugStep, Invariance, PTL DEF Spec, IsSocket, Plug!Spec
=============================================================================
