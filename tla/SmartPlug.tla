----------------------------- MODULE SmartPlug -----------------------------
(***************************************************************************)
(* The plug itself: the relay pin, the automatic off and on times with     *)
(* their EEPROM copies, the four one-shot software timers, and the two     *)
(* threads that run the code of device_control.cpp and auto_off_on.cpp:    *)
(* the application thread, on which the cloud functions are called, and    *)
(* the timer thread, on which every Timer callback runs.                   *)
(*                                                                         *)
(* A direction names the pin level a call or a timer leads to, so that     *)
(* switch_on and switch_off, start_auto_on and start_auto_off and so on    *)
(* are one definition each.  A step ends where the other thread can see    *)
(* the difference: at each lock, unlock, pin or EEPROM access and at each  *)
(* command given to a Timer.                                               *)
(***************************************************************************)
EXTENDS RequestText

CONSTANTS
    Requesters,   \* the threads that call the cloud functions
    Texts         \* the arguments they call them with

Dir == {"on", "off"}
Opp(d) == IF d = "on" THEN "off" ELSE "on"

Thread == {"app", "timer"}

ASSUME RequestAssumption == Requesters \subseteq Thread /\ Texts \subseteq Text

Stopped == -1     \* a Timer that is not pending
NoThread == "none"

VARIABLES
    pin,            \* level of SMART_PLUG_PIN, "on" for HIGH
    t_auto,         \* t_auto_on, t_auto_off: minutes left, or Stopped
    t_switch,       \* t_switch_on, t_switch_of: period in ms, or Stopped
    auto_time,      \* auto_on_time, auto_off_time (RAM), in minutes
    eeprom,         \* the bytes at AUTO_ON_MEM_LOCATION, AUTO_OFF_MEM_LOCATION
    on_off_mutex,   \* its holder
    auto_mutex,     \* auto_on_mutex, auto_off_mutex: their holders
    pc,             \* where each thread is in the call it executes
    arms,           \* the automatic timer that call may arm
    arg,            \* the delay or the minutes it works with
    errno,          \* each thread's errno # 0
    fresh           \* history: neither a switch nor an auto-on time since boot

vars == <<pin, t_auto, t_switch, auto_time, eeprom, on_off_mutex, auto_mutex,
          pc, arms, arg, errno, fresh>>

timers  == <<t_auto, t_switch>>
times   == <<auto_time, eeprom>>
mutexes == <<on_off_mutex, auto_mutex>>
call    == <<arms, arg, errno>>

(***************************************************************************)
(* Switching to d arms the automatic timer of Opp(d): a thread inside      *)
(* switch_on has arms = "off".  A thread inside f_auto_off also has        *)
(* arms = "off".  The locations of a call:                                 *)
(*   arm                      f_switch_on/off: start the one-shot timer    *)
(*   lock write stop          switch_on/off up to stop_auto_on/off         *)
(*   lockPersist put set      persist_auto_on/off_time                     *)
(*   check                    is_switch_on() in f_auto_on/off              *)
(*   lockAuto startAuto       start_auto_on/off, of either caller          *)
(*   unlock                   the end of switch_on/off                     *)
(***************************************************************************)
Location == {"idle", "arm", "lock", "write", "stop", "lockAuto", "startAuto",
             "unlock", "lockPersist", "put", "set", "check"}

Goto(t, l) == pc' = [pc EXCEPT ![t] = l]
Target(t)  == Opp(arms[t])            \* the level the switch of t leads to

\* The locals of a call, as they are when t executes none.
NoCall(t)  == arms' = [arms EXCEPT ![t] = "off"] /\ arg' = [arg EXCEPT ![t] = 0]
Return(t)  == Goto(t, "idle") /\ NoCall(t) /\ UNCHANGED errno

\* An EEPROM never written holds 16#FF in each byte.
Erased == [d \in Dir |-> BYTE - 1]

NothingPending == [d \in Dir |-> Stopped]
NobodyHolds    == [d \in Dir |-> NoThread]
Idle           == [t \in Thread |-> "idle"]
NoArms         == [t \in Thread |-> "off"]
NoArg          == [t \in Thread |-> 0]
NoErrno        == [t \in Thread |-> FALSE]

\* The state setup() leaves.  Its switch_off() runs before the times are
\* loaded, when both are still AUTO_OFF_ON_NEVER, so no timer is started.
Init ==
    /\ pin = "off"
    /\ t_auto = NothingPending /\ t_switch = NothingPending
    /\ eeprom = Erased /\ auto_time = Erased
    /\ on_off_mutex = NoThread /\ auto_mutex = NobodyHolds
    /\ pc = Idle /\ arms = NoArms /\ arg = NoArg
    /\ errno = NoErrno
    /\ fresh = TRUE

----------------------------------------------------------------------------
(* f_switch_on (d = "on") and f_switch_off (d = "off").                    *)

\* The one-shot timer the call stops: t_switch_of.stop() in f_switch_on.
\* Wrong variant: its own.
OwnTimer(d) == d
CancelledTimer(d) == Opp(d)

SwitchRequest(t, d, text) ==
    /\ pc[t] = "idle"
    /\ SwitchResult(text, ErrnoAfter(text, errno[t])) = 0
    /\ errno' = [errno EXCEPT ![t] = ErrnoAfter(text, @)]
    /\ t_switch' = [t_switch EXCEPT ![CancelledTimer(d)] = Stopped]
    /\ arms' = [arms EXCEPT ![t] = Opp(d)]
    /\ arg' = [arg EXCEPT ![t] = DelayMs(text)]
    /\ Goto(t, IF DelayMs(text) = 0 THEN "lock" ELSE "arm")
    /\ UNCHANGED <<pin, t_auto, times, mutexes, fresh>>

\* changePeriod already starts the timer; reset() or start() restarts it.
ArmSwitch(t) ==
    /\ pc[t] = "arm"
    /\ t_switch' = [t_switch EXCEPT ![Target(t)] = arg[t]]
    /\ Return(t)
    /\ UNCHANGED <<pin, t_auto, times, mutexes, fresh>>

----------------------------------------------------------------------------
(* switch_on and switch_off.                                               *)

LockSocket(t) ==
    /\ pc[t] = "lock"
    /\ on_off_mutex = NoThread
    /\ on_off_mutex' = t
    /\ Goto(t, "write")
    /\ UNCHANGED <<pin, timers, times, auto_mutex, call, fresh>>

WritePin(t) ==
    /\ pc[t] = "write"
    /\ pin' = Target(t)
    /\ fresh' = FALSE
    /\ Goto(t, "stop")
    /\ UNCHANGED <<timers, times, mutexes, call>>

\* Which timer stop_auto_on() and stop_auto_off() stop: both t_auto_off.
StoppedTimer(d) == "off"

StopAuto(t) ==
    /\ pc[t] = "stop"
    /\ t_auto' = [t_auto EXCEPT ![StoppedTimer(Target(t))] = Stopped]
    /\ Goto(t, "lockAuto")
    /\ UNCHANGED <<pin, t_switch, times, mutexes, call, fresh>>

\* Wrong variant: a return without the unlock.
LeaveLocked(t) ==
    /\ pc[t] = "unlock"
    /\ Return(t)
    /\ UNCHANGED <<pin, timers, times, mutexes, fresh>>

UnlockSocket(t) ==
    /\ pc[t] = "unlock"
    /\ on_off_mutex' = NoThread
    /\ Return(t)
    /\ UNCHANGED <<pin, timers, times, auto_mutex, fresh>>

----------------------------------------------------------------------------
(* start_auto_on and start_auto_off, called from a switch, which still     *)
(* holds on_off_mutex, or from f_auto_on and f_auto_off, which do not.     *)

LockAuto(t) ==
    /\ pc[t] = "lockAuto"
    /\ auto_mutex[arms[t]] = NoThread
    /\ auto_mutex' = [auto_mutex EXCEPT ![arms[t]] = t]
    /\ Goto(t, "startAuto")
    /\ UNCHANGED <<pin, timers, times, on_off_mutex, call, fresh>>

\* Wrong variant: 0 does not mean never.
StartedAlways(d) == auto_time[d]

\* What start_auto_on/off leaves in the timer: "if (auto_off_time > 0)".
Started(d) == IF auto_time[d] > 0 THEN auto_time[d] ELSE t_auto[d]

StartAuto(t) ==
    /\ pc[t] = "startAuto"
    /\ t_auto' = [t_auto EXCEPT ![arms[t]] = Started(arms[t])]
    /\ auto_mutex' = [auto_mutex EXCEPT ![arms[t]] = NoThread]
    /\ IF on_off_mutex = t THEN Goto(t, "unlock") /\ UNCHANGED call
                           ELSE Return(t)
    /\ UNCHANGED <<pin, t_switch, times, on_off_mutex, fresh>>

----------------------------------------------------------------------------
(* f_auto_on and f_auto_off.                                               *)

AutoRequest(t, d, text) ==
    /\ pc[t] = "idle"
    /\ AutoResult(text, ErrnoAfter(text, errno[t])) = 0
    /\ errno' = [errno EXCEPT ![t] = ErrnoAfter(text, @)]
    /\ arms' = [arms EXCEPT ![t] = d]
    /\ arg' = [arg EXCEPT ![t] = Minutes(text)]
    /\ Goto(t, "lockPersist")
    /\ UNCHANGED <<pin, timers, times, mutexes, fresh>>

\* Wrong variant: the mutex is neither waited for nor taken.
PersistUnlocked(t) ==
    /\ pc[t] = "lockPersist"
    /\ Goto(t, "put")
    /\ UNCHANGED <<pin, timers, times, mutexes, call, fresh>>

LockPersist(t) ==
    /\ pc[t] = "lockPersist"
    /\ auto_mutex[arms[t]] = NoThread
    /\ auto_mutex' = [auto_mutex EXCEPT ![arms[t]] = t]
    /\ Goto(t, "put")
    /\ UNCHANGED <<pin, timers, times, on_off_mutex, call, fresh>>

PutEeprom(t) ==
    /\ pc[t] = "put"
    /\ eeprom' = [eeprom EXCEPT ![arms[t]] = arg[t]]
    /\ Goto(t, "set")
    /\ UNCHANGED <<pin, timers, auto_time, mutexes, call, fresh>>

SetTime(t) ==
    /\ pc[t] = "set"
    /\ auto_time' = [auto_time EXCEPT ![arms[t]] = arg[t]]
    /\ auto_mutex' = [auto_mutex EXCEPT ![arms[t]] = NoThread]
    /\ fresh' = (fresh /\ arms[t] = "off")
    /\ arg' = [arg EXCEPT ![t] = 0]     \* not used any more
    /\ Goto(t, "check")
    /\ UNCHANGED <<pin, timers, eeprom, on_off_mutex, arms, errno>>

\* Wrong variant: the test of f_auto_on in f_auto_off, and the reverse.
CheckWrongLevel(t) ==
    /\ pc[t] = "check"
    /\ IF pin = arms[t] THEN Goto(t, "lockAuto") /\ UNCHANGED call
                        ELSE Return(t)
    /\ UNCHANGED <<pin, timers, times, mutexes, fresh>>

\* is_switch_on() reads the pin without on_off_mutex.
CheckPin(t) ==
    /\ pc[t] = "check"
    /\ IF pin = Opp(arms[t]) THEN Goto(t, "lockAuto") /\ UNCHANGED call
                             ELSE Return(t)
    /\ UNCHANGED <<pin, timers, times, mutexes, fresh>>

\* A call of any of the four functions that returns -1 or -2.
RefuseRequest(t, text) ==
    /\ pc[t] = "idle"
    /\ \/ SwitchResult(text, ErrnoAfter(text, errno[t])) # 0
       \/ AutoResult(text, ErrnoAfter(text, errno[t])) # 0
    /\ errno' = [errno EXCEPT ![t] = ErrnoAfter(text, @)]
    /\ UNCHANGED <<pin, timers, times, mutexes, pc, arms, arg, fresh>>

----------------------------------------------------------------------------
(* The timer service.  A due timer is removed before its callback runs, so *)
(* a stop() that comes later finds nothing to stop.                        *)

\* Wrong variant: each timer runs the callback of the other.
FireOther(d) ==
    /\ pc["timer"] = "idle"
    /\ arms' = [arms EXCEPT !["timer"] = d]
    /\ Goto("timer", "lock")
    /\ UNCHANGED <<pin, times, mutexes, arg, errno, fresh>>

Fire(d) ==
    /\ pc["timer"] = "idle"
    /\ arms' = [arms EXCEPT !["timer"] = Opp(d)]
    /\ Goto("timer", "lock")
    /\ UNCHANGED <<pin, times, mutexes, arg, errno, fresh>>

ExpireAuto(d) ==
    /\ t_auto[d] = 0
    /\ t_auto' = [t_auto EXCEPT ![d] = Stopped]
    /\ UNCHANGED t_switch
    /\ Fire(d)

\* A delay of up to 65535 ms: it may end before or after the next minute.
ExpireSwitch(d) ==
    /\ t_switch[d] # Stopped
    /\ t_switch' = [t_switch EXCEPT ![d] = Stopped]
    /\ UNCHANGED t_auto
    /\ Fire(d)

\* A minute passes.  The service handles a due timer within the minute.
Tick ==
    /\ \A d \in Dir : t_auto[d] # 0
    /\ \E d \in Dir : t_auto[d] > 0
    /\ t_auto' = [d \in Dir |-> IF t_auto[d] > 0 THEN t_auto[d] - 1
                                               ELSE t_auto[d]]
    /\ UNCHANGED <<pin, t_switch, times, mutexes, pc, call, fresh>>

\* Power is lost or the device resets, at any moment, and setup() runs.
Reboot ==
    /\ pin' = "off"
    /\ t_auto' = NothingPending /\ t_switch' = NothingPending
    /\ auto_time' = eeprom /\ UNCHANGED eeprom
    /\ on_off_mutex' = NoThread /\ auto_mutex' = NobodyHolds
    /\ pc' = Idle /\ arms' = NoArms /\ arg' = NoArg
    /\ errno' = NoErrno
    /\ fresh' = TRUE

----------------------------------------------------------------------------
Request == \E t \in Requesters, text \in Texts :
    \/ \E d \in Dir : SwitchRequest(t, d, text) \/ AutoRequest(t, d, text)
    \/ RefuseRequest(t, text)

Locking(t) == LockSocket(t) \/ LockAuto(t) \/ LockPersist(t)

Working(t) == \/ ArmSwitch(t) \/ WritePin(t) \/ StopAuto(t) \/ UnlockSocket(t)
              \/ StartAuto(t) \/ PutEeprom(t) \/ SetTime(t) \/ CheckPin(t)

Expire(d) == ExpireAuto(d) \/ ExpireSwitch(d)

Next == \/ Request
        \/ \E t \in Thread : Locking(t) \/ Working(t)
        \/ \E d \in Dir : Expire(d)
        \/ Tick
        \/ Reboot

Spec == Init /\ [][Next]_vars

(***************************************************************************)
(* Fairness.  A thread goes on with the call it executes; a mutex that is  *)
(* free again and again is given in the end to a thread that waits for it  *)
(* (the waiters of a mutex are queued); the timer service looks at its due *)
(* timers each time a callback returns; minutes pass.  Nobody has to send  *)
(* a request, and nothing has to reset the device.                         *)
(***************************************************************************)
Fairness ==
    /\ \A t \in Thread : WF_vars(Working(t)) /\ SF_vars(Locking(t))
    /\ \A d \in Dir : SF_vars(ExpireAuto(d)) /\ SF_vars(ExpireSwitch(d))
    /\ WF_vars(Tick)

FairSpec == Spec /\ Fairness

=============================================================================
