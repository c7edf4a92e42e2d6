------------------------ MODULE SmartPlugProperties ------------------------
(* What device_control.cpp and auto_off_on.cpp promise of the plug.        *)
EXTENDS SmartPlug

(* The values each variable can hold: delays fit a uint16_t, minutes a     *)
(* uint8_t, and a mutex is free or held by one of the two threads.         *)
TypeOK ==
    /\ pin \in Dir
    /\ t_auto \in [Dir -> {Stopped} \cup 0..BYTE - 1]
    /\ t_switch \in [Dir -> {Stopped} \cup 0..WORD - 1]
    /\ auto_time \in [Dir -> 0..BYTE - 1]
    /\ eeprom \in [Dir -> 0..BYTE - 1]
    /\ on_off_mutex \in Thread \cup {NoThread}
    /\ auto_mutex \in [Dir -> Thread \cup {NoThread}]
    /\ pc \in [Thread -> Location]
    /\ arms \in [Thread -> Dir]
    /\ arg \in [Thread -> Nat]
    /\ errno \in [Thread -> BOOLEAN]
    /\ fresh \in BOOLEAN

Quiescent == \A t \in Thread : pc[t] = "idle"

(* Whenever no call is in progress, the automatic timer that leads away    *)
(* from the present level is pending if its time is set, however the two   *)
(* threads' switches and f_auto_on/f_auto_off calls were interleaved.  The *)
(* calls do not share a lock over the pin and the time: f_auto_off writes  *)
(* the time and then reads the pin, switch_on writes the pin and then      *)
(* reads the time.  A plug off since it booted, with an auto-on time it    *)
(* only loaded, is the exception (AutoOnHappens).                          *)
AutoArmed ==
    LET d == Opp(pin) IN
    Quiescent /\ auto_time[d] > 0 /\ ~(fresh /\ pin = "off") =>
        t_auto[d] # Stopped

(* Whenever persist_auto_on_time/persist_auto_off_time is not at work the  *)
(* time in RAM is the one a reset would load, although the two are written *)
(* one after the other and a reset may come between.                       *)
PersistAgrees ==
    \A d \in Dir : auto_mutex[d] = NoThread => eeprom[d] = auto_time[d]

(* When only the cloud calls f_switch_on and f_switch_off, a delayed       *)
(* switch-on and a delayed switch-off are never both pending: each call    *)
(* cancels the other direction's one-shot timer before it starts its own.  *)
OneShotExclusive == \E d \in Dir : t_switch[d] = Stopped

(* Every cloud call and every timer callback returns: switch_on/off take   *)
(* an auto mutex while they hold on_off_mutex, persist_auto_*_time take    *)
(* it alone, and no order of the two blocks a thread for ever.             *)
CallsReturn == \A t \in Thread : pc[t] # "idle" ~> pc[t] = "idle"

\* From some time on, no request is made and the device does not reset.
Quiet == <>[][~Request /\ ~Reboot]_vars

(* Left alone, a plug that is on with an auto-off time set does not stay   *)
(* on: t_auto_off is pending, expires, and switch_off runs, whatever calls *)
(* and one-shot timers were under way.                                     *)
AutoOffHappens == Quiet => []<>~(pin = "on" /\ auto_time["off"] > 0)

Planned == {d \in Dir : t_auto[d] # Stopped}
Asked   == {d \in Dir : \/ t_switch[d] # Stopped
                        \/ \E t \in Thread : /\ pc[t] \in {"arm", "lock", "write"}
                                              /\ Target(t) = d}

Plug == INSTANCE Socket WITH Times <- 0..BYTE - 1, level <- pin,
                             time <- eeprom, planned <- Planned, asked <- Asked

(* The two threads with their locks, timers and copies of the times are to *)
(* the user one socket: the relay never moves to a level that nobody asked *)
(* for and whose stored automatic time was 0 when its timer was started,   *)
(* although start_auto_on/off look at the copy in RAM, and although calls  *)
(* stop timers that others start.                                          *)
IsSocket == Plug!Spec

----------------------------------------------------------------------------
(* What comments say of the calls, and the code does not do.               *)

(* "Takes seconds as input. Switch_on after t_str number of seconds": an   *)
(* accepted call with s > 0 seconds waits 1000 * s milliseconds.           *)
DelayAsRequested ==
    [][\A t \in Requesters, d \in Dir, text \in Texts :
          SwitchRequest(t, d, text) /\ Seconds(text) > 0 =>
              pc'[t] = "arm" /\ arg'[t] = MS_PER_SECOND * Seconds(text)]_vars

(* "0 Means never": when the time of a direction is 0 and no call is in    *)
(* progress, its automatic timer is not pending.                           *)
NeverIsNever ==
    Quiescent => \A d \in Dir : auto_time[d] = 0 => t_auto[d] = Stopped

(* "0 Means never and unit is minutes": a plug that is off, with an        *)
(* auto-on time in range, is switched on when it is left alone.            *)
AutoOnHappens ==
    Quiet => []<>~(/\ pin = "off"
                   /\ auto_time["on"] \in 1..MAX_AUTO_OFF_ON_TIME)
=============================================================================
