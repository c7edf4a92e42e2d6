-------------------------- MODULE SmartPlugProofs --------------------------
(* The invariants of SmartPlug hold for every width of the integers, every *)
(* bound and every set of requests.                                        *)
EXTENDS SmartPlugProperties, TLAPS

(***************************************************************************)
(* The inductive invariant.  TypeOK and ArgInv bound the numbers; LockInv  *)
(* says which locations hold which mutex; PinInv, that the holder of       *)
(* on_off_mutex finds the pin as it wrote it; PersistInv, where the time   *)
(* in RAM may differ from the EEPROM; ArmInv, that a timer which should be *)
(* pending is, or that a thread is on its way to start it or to leave the  *)
(* level.                                                                  *)
(***************************************************************************)
ArgInv ==
    \A t \in Thread :
        /\ pc[t] = "arm" => arg[t] \in 0..WORD - 1
        /\ pc[t] \in {"lockPersist", "put", "set"} => arg[t] \in 0..BYTE - 1

LockInv ==
    \A t \in Thread :
        /\ on_off_mutex = t =>
               pc[t] \in {"write", "stop", "lockAuto", "startAuto", "unlock"}
        /\ pc[t] \in {"write", "stop", "unlock"} => on_off_mutex = t
        /\ \A d \in Dir : auto_mutex[d] = t <=>
               arms[t] = d /\ pc[t] \in {"put", "set", "startAuto"}

PinInv ==
    \A t \in Thread : on_off_mutex = t /\ pc[t] # "write" => pin = Target(t)

PersistInv ==
    /\ \A t \in Thread : pc[t] = "set" => eeprom[arms[t]] = arg[t]
    /\ \A d \in Dir : eeprom[d] = auto_time[d]
                      \/ \E t \in Thread : pc[t] = "set" /\ arms[t] = d

Owes(t, d) ==
    \/ arms[t] = d      /\ pc[t] \in {"check", "stop", "lockAuto", "startAuto"}
    \/ arms[t] = Opp(d) /\ pc[t] \in {"lock", "write"}

ArmInv ==
    \A d \in Dir :
        pin = Opp(d) /\ auto_time[d] > 0 /\ ~(fresh /\ pin = "off") =>
            t_auto[d] # Stopped \/ \E t \in Thread : Owes(t, d)

IInv == TypeOK /\ ArgInv /\ LockInv /\ PinInv /\ PersistInv /\ ArmInv

(* Inductive by itself: when only the cloud makes requests, the thread     *)
(* about to start one one-shot timer has stopped the other.                *)
OneShotInv ==
    Requesters = {"app"} =>
        /\ pc["timer"] # "arm"
        /\ pc["app"] = "arm" => t_switch[arms["app"]] = Stopped
        /\ OneShotExclusive

----------------------------------------------------------------------------
(* Every step of SmartPlug is one of these.                                *)
Step ==
    \/ \E t \in Requesters, text \in Texts, d \in Dir :
          SwitchRequest(t, d, text) \/ AutoRequest(t, d, text)
    \/ \E t \in Requesters, text \in Texts : RefuseRequest(t, text)
    \/ \E t \in Thread : \/ LockSocket(t) \/ LockAuto(t) \/ LockPersist(t)
                          \/ ArmSwitch(t) \/ WritePin(t) \/ StopAuto(t)
                          \/ UnlockSocket(t) \/ StartAuto(t) \/ PutEeprom(t)
                          \/ SetTime(t) \/ CheckPin(t)
    \/ \E d \in Dir : ExpireAuto(d) \/ ExpireSwitch(d)
    \/ Tick
    \/ Reboot

(* The grouping of the next-state relation by fairness is only a grouping. *)
LEMMA NextIsStep == Next => Step
BY DEF Next, Step, Request, Locking, Working, Expire

(* The casts of the calls fit the integers the calls work with.            *)
LEMMA CastBounds ==
    ASSUME NEW text \in Texts
    PROVE  DelayMs(text) \in 0..WORD - 1 /\ Minutes(text) \in 0..BYTE - 1
<1>1. text.value \in Int
  BY RequestAssumption DEF Text
<1>2. Minutes(text) \in 0..BYTE - 1
  BY <1>1, WidthAssumption DEF Minutes
<1>3. Seconds(text) \in Nat
  BY <1>1, WidthAssumption DEF Seconds
<1>4. Seconds(text) * MS_PER_SECOND \in Int
  BY <1>3, WidthAssumption
<1>5. DelayMs(text) \in 0..WORD - 1
  BY <1>4, WidthAssumption DEF DelayMs
<1>6. QED  BY <1>2, <1>5

(* Every step keeps the types, and the arguments of calls in their range. *)
LEMMA TypeStep == TypeOK /\ ArgInv /\ [Next]_vars => (TypeOK /\ ArgInv)'
<1> SUFFICES ASSUME TypeOK /\ ArgInv, [Next]_vars PROVE (TypeOK /\ ArgInv)'
  OBVIOUS
<1> USE DEF TypeOK, ArgInv, Dir, Thread, Location, Stopped, NoThread, Opp, Target,
           Goto, Return, NoCall, timers, times, mutexes, call
<1>1. ASSUME NEW t \in Requesters, NEW d \in Dir, NEW text \in Texts, SwitchRequest(t, d, text)
      PROVE  (TypeOK /\ ArgInv)'
  BY <1>1, CastBounds, RequestAssumption
  DEF SwitchRequest, ErrnoAfter, CancelledTimer
<1>2. ASSUME NEW t \in Requesters, NEW d \in Dir, NEW text \in Texts, AutoRequest(t, d, text)
      PROVE  (TypeOK /\ ArgInv)'
  BY <1>2, CastBounds, RequestAssumption DEF AutoRequest, ErrnoAfter
<1>3. ASSUME NEW t \in Requesters, NEW text \in Texts, RefuseRequest(t, text)
      PROVE  (TypeOK /\ ArgInv)'
  BY <1>3, RequestAssumption DEF RefuseRequest, ErrnoAfter
<1>4. ASSUME NEW t \in Thread, LockSocket(t)
      PROVE  (TypeOK /\ ArgInv)'
  BY <1>4 DEF LockSocket
<1>5. ASSUME NEW t \in Thread, LockAuto(t)
      PROVE  (TypeOK /\ ArgInv)'
  BY <1>5 DEF LockAuto
<1>6. ASSUME NEW t \in Thread, LockPersist(t)
      PROVE  (TypeOK /\ ArgInv)'
  BY <1>6 DEF LockPersist
<1>7. ASSUME NEW t \in Thread, ArmSwitch(t)
      PROVE  (TypeOK /\ ArgInv)'
  BY <1>7 DEF ArmSwitch
<1>8. ASSUME NEW t \in Thread, WritePin(t)
      PROVE  (TypeOK /\ ArgInv)'
  BY <1>8 DEF WritePin
<1>9. ASSUME NEW t \in Thread, StopAuto(t)
      PROVE  (TypeOK /\ ArgInv)'
  BY <1>9 DEF StopAuto, StoppedTimer
<1>10. ASSUME NEW t \in Thread, UnlockSocket(t)
      PROVE  (TypeOK /\ ArgInv)'
  BY <1>10 DEF UnlockSocket
<1>11. ASSUME NEW t \in Thread, StartAuto(t)
      PROVE  (TypeOK /\ ArgInv)'
  BY <1>11 DEF StartAuto, Started
<1>12. ASSUME NEW t \in Thread, PutEeprom(t)
      PROVE  (TypeOK /\ ArgInv)'
  BY <1>12 DEF PutEeprom
<1>13. ASSUME NEW t \in Thread, SetTime(t)
      PROVE  (TypeOK /\ ArgInv)'
  BY <1>13 DEF SetTime
<1>14. ASSUME NEW t \in Thread, CheckPin(t)
      PROVE  (TypeOK /\ ArgInv)'
  BY <1>14 DEF CheckPin
<1>15. ASSUME NEW d \in Dir, ExpireAuto(d)
      PROVE  (TypeOK /\ ArgInv)'
  BY <1>15 DEF ExpireAuto, Fire
<1>16. ASSUME NEW d \in Dir, ExpireSwitch(d)
      PROVE  (TypeOK /\ ArgInv)'
  BY <1>16 DEF ExpireSwitch, Fire
<1>17. ASSUME Tick PROVE (TypeOK /\ ArgInv)'
  BY <1>17, WidthAssumption DEF Tick
<1>18. ASSUME Reboot PROVE (TypeOK /\ ArgInv)'
  BY <1>18, WidthAssumption DEF Reboot, NothingPending, NobodyHolds, Idle, NoArms, NoArg,
       NoErrno
<1>19. CASE UNCHANGED vars
  BY <1>19 DEF vars
<1>20. QED
  BY <1>1, <1>2, <1>3, <1>4, <1>5, <1>6, <1>7, <1>8, <1>9, <1>10, <1>11, <1>12, <1>13, <1>14, <1>15, <1>16, <1>17, <1>18, <1>19, NextIsStep DEF Step

(* Every step keeps each mutex with the thread whose location holds it. *)
LEMMA LockStep == TypeOK /\ LockInv /\ [Next]_vars => LockInv'
<1> SUFFICES ASSUME TypeOK /\ LockInv, [Next]_vars PROVE LockInv'
  OBVIOUS
<1> USE DEF LockInv, TypeOK, Dir, Thread, NoThread, Opp, Target, Goto, Return, NoCall,
           timers, times, mutexes, call, Location
<1>1. ASSUME NEW t \in Requesters, NEW d \in Dir, NEW text \in Texts, SwitchRequest(t, d, text)
      PROVE  LockInv'
  BY <1>1, RequestAssumption DEF SwitchRequest
<1>2. ASSUME NEW t \in Requesters, NEW d \in Dir, NEW text \in Texts, AutoRequest(t, d, text)
      PROVE  LockInv'
  BY <1>2, RequestAssumption DEF AutoRequest
<1>3. ASSUME NEW t \in Requesters, NEW text \in Texts, RefuseRequest(t, text)
      PROVE  LockInv'
  BY <1>3, RequestAssumption DEF RefuseRequest
<1>4. ASSUME NEW t \in Thread, LockSocket(t)
      PROVE  LockInv'
  BY <1>4 DEF LockSocket
<1>5. ASSUME NEW t \in Thread, LockAuto(t)
      PROVE  LockInv'
  BY <1>5 DEF LockAuto
<1>6. ASSUME NEW t \in Thread, LockPersist(t)
      PROVE  LockInv'
  BY <1>6 DEF LockPersist
<1>7. ASSUME NEW t \in Thread, ArmSwitch(t)
      PROVE  LockInv'
  BY <1>7 DEF ArmSwitch
<1>8. ASSUME NEW t \in Thread, WritePin(t)
      PROVE  LockInv'
  BY <1>8 DEF WritePin
<1>9. ASSUME NEW t \in Thread, StopAuto(t)
      PROVE  LockInv'
  BY <1>9 DEF StopAuto
<1>10. ASSUME NEW t \in Thread, UnlockSocket(t)
      PROVE  LockInv'
  BY <1>10 DEF UnlockSocket
<1>11. ASSUME NEW t \in Thread, StartAuto(t)
      PROVE  LockInv'
  BY <1>11 DEF StartAuto
<1>12. ASSUME NEW t \in Thread, PutEeprom(t)
      PROVE  LockInv'
  BY <1>12 DEF PutEeprom
<1>13. ASSUME NEW t \in Thread, SetTime(t)
      PROVE  LockInv'
  BY <1>13 DEF SetTime
<1>14. ASSUME NEW t \in Thread, CheckPin(t)
      PROVE  LockInv'
  BY <1>14 DEF CheckPin
<1>15. ASSUME NEW d \in Dir, ExpireAuto(d)
      PROVE  LockInv'
  BY <1>15 DEF ExpireAuto, Fire
<1>16. ASSUME NEW d \in Dir, ExpireSwitch(d)
      PROVE  LockInv'
  BY <1>16 DEF ExpireSwitch, Fire
<1>17. ASSUME Tick PROVE LockInv'
  BY <1>17 DEF Tick
<1>18. ASSUME Reboot PROVE LockInv'
  BY <1>18 DEF Reboot, NothingPending, NobodyHolds, Idle, NoArms
<1>19. CASE UNCHANGED vars
  BY <1>19 DEF vars
<1>20. QED
  BY <1>1, <1>2, <1>3, <1>4, <1>5, <1>6, <1>7, <1>8, <1>9, <1>10, <1>11, <1>12, <1>13, <1>14, <1>15, <1>16, <1>17, <1>18, <1>19, NextIsStep DEF Step

(* No step of another thread moves the pin under a switch in progress. *)
LEMMA PinStep == TypeOK /\ LockInv /\ PinInv /\ [Next]_vars => PinInv'
<1> SUFFICES ASSUME TypeOK /\ LockInv /\ PinInv, [Next]_vars PROVE PinInv'
  OBVIOUS
<1> USE DEF PinInv, LockInv, TypeOK, Dir, Thread, NoThread, Opp, Target, Goto, Return,
           NoCall, timers, times, mutexes, call
<1>1. ASSUME NEW t \in Requesters, NEW d \in Dir, NEW text \in Texts, SwitchRequest(t, d, text)
      PROVE  PinInv'
  BY <1>1, RequestAssumption DEF SwitchRequest
<1>2. ASSUME NEW t \in Requesters, NEW d \in Dir, NEW text \in Texts, AutoRequest(t, d, text)
      PROVE  PinInv'
  BY <1>2, RequestAssumption DEF AutoRequest
<1>3. ASSUME NEW t \in Requesters, NEW text \in Texts, RefuseRequest(t, text)
      PROVE  PinInv'
  BY <1>3, RequestAssumption DEF RefuseRequest
<1>4. ASSUME NEW t \in Thread, LockSocket(t)
      PROVE  PinInv'
  BY <1>4 DEF LockSocket
<1>5. ASSUME NEW t \in Thread, LockAuto(t)
      PROVE  PinInv'
  BY <1>5 DEF LockAuto
<1>6. ASSUME NEW t \in Thread, LockPersist(t)
      PROVE  PinInv'
  BY <1>6 DEF LockPersist
<1>7. ASSUME NEW t \in Thread, ArmSwitch(t)
      PROVE  PinInv'
  BY <1>7 DEF ArmSwitch
<1>8. ASSUME NEW t \in Thread, WritePin(t)
      PROVE  PinInv'
  BY <1>8 DEF WritePin
<1>9. ASSUME NEW t \in Thread, StopAuto(t)
      PROVE  PinInv'
  BY <1>9 DEF StopAuto
<1>10. ASSUME NEW t \in Thread, UnlockSocket(t)
      PROVE  PinInv'
  BY <1>10 DEF UnlockSocket
<1>11. ASSUME NEW t \in Thread, StartAuto(t)
      PROVE  PinInv'
  BY <1>11 DEF StartAuto
<1>12. ASSUME NEW t \in Thread, PutEeprom(t)
      PROVE  PinInv'
  BY <1>12 DEF PutEeprom
<1>13. ASSUME NEW t \in Thread, SetTime(t)
      PROVE  PinInv'
  BY <1>13 DEF SetTime
<1>14. ASSUME NEW t \in Thread, CheckPin(t)
      PROVE  PinInv'
  BY <1>14 DEF CheckPin
<1>15. ASSUME NEW d \in Dir, ExpireAuto(d)
      PROVE  PinInv'
  BY <1>15 DEF ExpireAuto, Fire
<1>16. ASSUME NEW d \in Dir, ExpireSwitch(d)
      PROVE  PinInv'
  BY <1>16 DEF ExpireSwitch, Fire
<1>17. ASSUME Tick PROVE PinInv'
  BY <1>17 DEF Tick
<1>18. ASSUME Reboot PROVE PinInv'
  BY <1>18 DEF Reboot, NobodyHolds
<1>19. CASE UNCHANGED vars
  BY <1>19 DEF vars
<1>20. QED
  BY <1>1, <1>2, <1>3, <1>4, <1>5, <1>6, <1>7, <1>8, <1>9, <1>10, <1>11, <1>12, <1>13, <1>14, <1>15, <1>16, <1>17, <1>18, <1>19, NextIsStep DEF Step

(* The RAM copy lags behind the EEPROM only inside persist_auto_*_time. *)
LEMMA PersistStep == TypeOK /\ LockInv /\ PersistInv /\ [Next]_vars => PersistInv'
<1> SUFFICES ASSUME TypeOK /\ LockInv /\ PersistInv, [Next]_vars PROVE PersistInv'
  OBVIOUS
<1> USE DEF PersistInv, LockInv, TypeOK, Dir, Thread, NoThread, Opp, Target, Goto,
           Return, NoCall, timers, times, mutexes, call
<1>1. ASSUME NEW t \in Requesters, NEW d \in Dir, NEW text \in Texts, SwitchRequest(t, d, text)
      PROVE  PersistInv'
  BY <1>1, RequestAssumption DEF SwitchRequest
<1>2. ASSUME NEW t \in Requesters, NEW d \in Dir, NEW text \in Texts, AutoRequest(t, d, text)
      PROVE  PersistInv'
  BY <1>2, RequestAssumption DEF AutoRequest
<1>3. ASSUME NEW t \in Requesters, NEW text \in Texts, RefuseRequest(t, text)
      PROVE  PersistInv'
  BY <1>3, RequestAssumption DEF RefuseRequest
<1>4. ASSUME NEW t \in Thread, LockSocket(t)
      PROVE  PersistInv'
  BY <1>4 DEF LockSocket
<1>5. ASSUME NEW t \in Thread, LockAuto(t)
      PROVE  PersistInv'
  BY <1>5 DEF LockAuto
<1>6. ASSUME NEW t \in Thread, LockPersist(t)
      PROVE  PersistInv'
  BY <1>6 DEF LockPersist
<1>7. ASSUME NEW t \in Thread, ArmSwitch(t)
      PROVE  PersistInv'
  BY <1>7 DEF ArmSwitch
<1>8. ASSUME NEW t \in Thread, WritePin(t)
      PROVE  PersistInv'
  BY <1>8 DEF WritePin
<1>9. ASSUME NEW t \in Thread, StopAuto(t)
      PROVE  PersistInv'
  BY <1>9 DEF StopAuto
<1>10. ASSUME NEW t \in Thread, UnlockSocket(t)
      PROVE  PersistInv'
  BY <1>10 DEF UnlockSocket
<1>11. ASSUME NEW t \in Thread, StartAuto(t)
      PROVE  PersistInv'
  BY <1>11 DEF StartAuto
<1>12. ASSUME NEW t \in Thread, PutEeprom(t)
      PROVE  PersistInv'
  BY <1>12 DEF PutEeprom
<1>13. ASSUME NEW t \in Thread, SetTime(t)
      PROVE  PersistInv'
  BY <1>13 DEF SetTime
<1>14. ASSUME NEW t \in Thread, CheckPin(t)
      PROVE  PersistInv'
  BY <1>14 DEF CheckPin
<1>15. ASSUME NEW d \in Dir, ExpireAuto(d)
      PROVE  PersistInv'
  BY <1>15 DEF ExpireAuto, Fire
<1>16. ASSUME NEW d \in Dir, ExpireSwitch(d)
      PROVE  PersistInv'
  BY <1>16 DEF ExpireSwitch, Fire
<1>17. ASSUME Tick PROVE PersistInv'
  BY <1>17 DEF Tick
<1>18. ASSUME Reboot PROVE PersistInv'
  BY <1>18 DEF Reboot, Idle
<1>19. CASE UNCHANGED vars
  BY <1>19 DEF vars
<1>20. QED
  BY <1>1, <1>2, <1>3, <1>4, <1>5, <1>6, <1>7, <1>8, <1>9, <1>10, <1>11, <1>12, <1>13, <1>14, <1>15, <1>16, <1>17, <1>18, <1>19, NextIsStep DEF Step

(* A timer that should be pending is, or some thread owes it. *)
LEMMA ArmStep == TypeOK /\ LockInv /\ PinInv /\ ArmInv /\ [Next]_vars => ArmInv'
<1> SUFFICES ASSUME TypeOK /\ LockInv /\ PinInv /\ ArmInv, [Next]_vars PROVE ArmInv'
  OBVIOUS
<1> USE DEF ArmInv, Owes, PinInv, LockInv, TypeOK, Dir, Thread, NoThread, Stopped, Opp,
           Target, Goto, Return, NoCall, timers, times, mutexes, call
<1>1. ASSUME NEW t \in Requesters, NEW d \in Dir, NEW text \in Texts, SwitchRequest(t, d, text)
      PROVE  ArmInv'
  BY <1>1, RequestAssumption DEF SwitchRequest
<1>2. ASSUME NEW t \in Requesters, NEW d \in Dir, NEW text \in Texts, AutoRequest(t, d, text)
      PROVE  ArmInv'
  BY <1>2, RequestAssumption DEF AutoRequest
<1>3. ASSUME NEW t \in Requesters, NEW text \in Texts, RefuseRequest(t, text)
      PROVE  ArmInv'
  BY <1>3, RequestAssumption DEF RefuseRequest
<1>4. ASSUME NEW t \in Thread, LockSocket(t)
      PROVE  ArmInv'
  BY <1>4 DEF LockSocket
<1>5. ASSUME NEW t \in Thread, LockAuto(t)
      PROVE  ArmInv'
  BY <1>5 DEF LockAuto
<1>6. ASSUME NEW t \in Thread, LockPersist(t)
      PROVE  ArmInv'
  BY <1>6 DEF LockPersist
<1>7. ASSUME NEW t \in Thread, ArmSwitch(t)
      PROVE  ArmInv'
  BY <1>7 DEF ArmSwitch
<1>8. ASSUME NEW t \in Thread, WritePin(t)
      PROVE  ArmInv'
  BY <1>8 DEF WritePin
<1>9. ASSUME NEW t \in Thread, StopAuto(t)
      PROVE  ArmInv'
  BY <1>9 DEF StopAuto, StoppedTimer
<1>10. ASSUME NEW t \in Thread, UnlockSocket(t)
      PROVE  ArmInv'
  BY <1>10 DEF UnlockSocket
<1>11. ASSUME NEW t \in Thread, StartAuto(t)
      PROVE  ArmInv'
  BY <1>11, WidthAssumption DEF StartAuto, Started
<1>12. ASSUME NEW t \in Thread, PutEeprom(t)
      PROVE  ArmInv'
  BY <1>12 DEF PutEeprom
<1>13. ASSUME NEW t \in Thread, SetTime(t)
      PROVE  ArmInv'
  BY <1>13 DEF SetTime
<1>14. ASSUME NEW t \in Thread, CheckPin(t)
      PROVE  ArmInv'
  BY <1>14 DEF CheckPin
<1>15. ASSUME NEW d \in Dir, ExpireAuto(d)
      PROVE  ArmInv'
  BY <1>15 DEF ExpireAuto, Fire
<1>16. ASSUME NEW d \in Dir, ExpireSwitch(d)
      PROVE  ArmInv'
  BY <1>16 DEF ExpireSwitch, Fire
<1>17. ASSUME Tick PROVE ArmInv'
  BY <1>17, WidthAssumption DEF Tick
<1>18. ASSUME Reboot PROVE ArmInv'
  BY <1>18 DEF Reboot, Idle
<1>19. CASE UNCHANGED vars
  BY <1>19 DEF vars
<1>20. QED
  BY <1>1, <1>2, <1>3, <1>4, <1>5, <1>6, <1>7, <1>8, <1>9, <1>10, <1>11, <1>12, <1>13, <1>14, <1>15, <1>16, <1>17, <1>18, <1>19, NextIsStep DEF Step

(* No cloud call leaves both one-shot timers pending. *)
LEMMA OneShotStep == TypeOK /\ OneShotInv /\ [Next]_vars => OneShotInv'
<1> SUFFICES ASSUME TypeOK /\ OneShotInv, [Next]_vars PROVE OneShotInv'
  OBVIOUS
<1> USE DEF OneShotInv, OneShotExclusive, TypeOK, Dir, Thread, Stopped, Opp, Target,
           Goto, Return, NoCall, timers, times, mutexes, call
<1>1. ASSUME NEW t \in Requesters, NEW d \in Dir, NEW text \in Texts, SwitchRequest(t, d, text)
      PROVE  OneShotInv'
  BY <1>1, RequestAssumption DEF SwitchRequest, CancelledTimer
<1>2. ASSUME NEW t \in Requesters, NEW d \in Dir, NEW text \in Texts, AutoRequest(t, d, text)
      PROVE  OneShotInv'
  BY <1>2, RequestAssumption DEF AutoRequest
<1>3. ASSUME NEW t \in Requesters, NEW text \in Texts, RefuseRequest(t, text)
      PROVE  OneShotInv'
  BY <1>3, RequestAssumption DEF RefuseRequest
<1>4. ASSUME NEW t \in Thread, LockSocket(t)
      PROVE  OneShotInv'
  BY <1>4 DEF LockSocket
<1>5. ASSUME NEW t \in Thread, LockAuto(t)
      PROVE  OneShotInv'
  BY <1>5 DEF LockAuto
<1>6. ASSUME NEW t \in Thread, LockPersist(t)
      PROVE  OneShotInv'
  BY <1>6 DEF LockPersist
<1>7. ASSUME NEW t \in Thread, ArmSwitch(t)
      PROVE  OneShotInv'
  BY <1>7 DEF ArmSwitch
<1>8. ASSUME NEW t \in Thread, WritePin(t)
      PROVE  OneShotInv'
  BY <1>8 DEF WritePin
<1>9. ASSUME NEW t \in Thread, StopAuto(t)
      PROVE  OneShotInv'
  BY <1>9 DEF StopAuto
<1>10. ASSUME NEW t \in Thread, UnlockSocket(t)
      PROVE  OneShotInv'
  BY <1>10 DEF UnlockSocket
<1>11. ASSUME NEW t \in Thread, StartAuto(t)
      PROVE  OneShotInv'
  BY <1>11 DEF StartAuto
<1>12. ASSUME NEW t \in Thread, PutEeprom(t)
      PROVE  OneShotInv'
  BY <1>12 DEF PutEeprom
<1>13. ASSUME NEW t \in Thread, SetTime(t)
      PROVE  OneShotInv'
  BY <1>13 DEF SetTime
<1>14. ASSUME NEW t \in Thread, CheckPin(t)
      PROVE  OneShotInv'
  BY <1>14 DEF CheckPin
<1>15. ASSUME NEW d \in Dir, ExpireAuto(d)
      PROVE  OneShotInv'
  BY <1>15 DEF ExpireAuto, Fire
<1>16. ASSUME NEW d \in Dir, ExpireSwitch(d)
      PROVE  OneShotInv'
  BY <1>16 DEF ExpireSwitch, Fire
<1>17. ASSUME Tick PROVE OneShotInv'
  BY <1>17 DEF Tick
<1>18. ASSUME Reboot PROVE OneShotInv'
  BY <1>18 DEF Reboot, Idle, NothingPending
<1>19. CASE UNCHANGED vars
  BY <1>19 DEF vars
<1>20. QED
  BY <1>1, <1>2, <1>3, <1>4, <1>5, <1>6, <1>7, <1>8, <1>9, <1>10, <1>11, <1>12, <1>13, <1>14, <1>15, <1>16, <1>17, <1>18, <1>19, NextIsStep DEF Step

----------------------------------------------------------------------------
(* What setup() leaves behind satisfies the invariant.                     *)
LEMMA InitIInv == Init => IInv /\ OneShotInv
<1> SUFFICES ASSUME Init PROVE IInv /\ OneShotInv
  OBVIOUS
<1> USE DEF Init, Dir, Thread, Stopped, NoThread, Erased, NothingPending,
           NobodyHolds, Idle, NoArms, NoArg, NoErrno
<1>1. TypeOK
  BY WidthAssumption DEF TypeOK, Location
<1>2. ArgInv /\ LockInv /\ PinInv /\ PersistInv
  BY DEF ArgInv, LockInv, PinInv, PersistInv
<1>3. ArmInv
  BY DEF ArmInv, Opp
<1>4. OneShotInv
  BY DEF OneShotInv, OneShotExclusive
<1>5. QED  BY <1>1, <1>2, <1>3, <1>4 DEF IInv

LEMMA NextIInv == IInv /\ [Next]_vars => IInv'
BY TypeStep, LockStep, PinStep, PersistStep, ArmStep DEF IInv

(* The invariant holds of the plug, for all values of the constants.       *)
THEOREM Invariance == Spec => []IInv
<1>1. Init => IInv  BY InitIInv
<1>2. QED  BY <1>1, NextIInv, PTL DEF Spec

(* Every variable stays in its range: no cast, no period and no stored     *)
(* time leaves the integer type the code gives it.                         *)
THEOREM TypeCorrect == Spec => []TypeOK
<1>1. IInv => TypeOK  BY DEF IInv
<1>2. QED  BY <1>1, Invariance, PTL

(* With no call in progress the automatic timer that leads away from the   *)
(* present level is pending: with every thread idle nobody owes a timer.   *)
THEOREM AutoTimerPending == Spec => []AutoArmed
<1>1. IInv => AutoArmed
  <2> SUFFICES ASSUME IInv, Quiescent, NEW d \in Dir, d = Opp(pin),
                      auto_time[d] > 0, ~(fresh /\ pin = "off")
               PROVE  t_auto[d] # Stopped
    BY DEF AutoArmed, IInv, TypeOK, Opp, Dir
  <2>1. pin = Opp(d)
    BY DEF IInv, TypeOK, Opp, Dir
  <2>2. \A t \in Thread : ~Owes(t, d)
    BY DEF Owes, Quiescent
  <2>3. QED  BY <2>1, <2>2 DEF IInv, ArmInv
<1>2. QED  BY <1>1, Invariance, PTL

(* A reset at any moment loads the time the plug was working with, unless  *)
(* a call was about to replace it.                                         *)
THEOREM PersistenceAgrees == Spec => []PersistAgrees
<1>1. IInv => PersistAgrees
  <2> SUFFICES ASSUME IInv, NEW d \in Dir, auto_mutex[d] = NoThread
               PROVE  eeprom[d] = auto_time[d]
    BY DEF PersistAgrees
  <2>1. \A t \in Thread : ~(pc[t] = "set" /\ arms[t] = d)
    BY DEF IInv, LockInv, Thread, NoThread
  <2>2. QED  BY <2>1 DEF IInv, PersistInv
<1>2. QED  BY <1>1, Invariance, PTL

(* With all requests on the application thread, a delayed switch-on and a  *)
(* delayed switch-off are never both pending.                              *)
THEOREM OneShotTimers == Spec => [](Requesters = {"app"} => OneShotExclusive)
<1>1. Init => TypeOK /\ OneShotInv
  BY InitIInv DEF IInv
<1>2. TypeOK /\ TypeOK' /\ OneShotInv /\ [Next]_vars => OneShotInv'
  BY OneShotStep
<1>3. OneShotInv => (Requesters = {"app"} => OneShotExclusive)
  BY DEF OneShotInv
<1>4. QED  BY <1>1, <1>2, <1>3, TypeCorrect, PTL DEF Spec
=============================================================================
