------------------------------- MODULE Socket -------------------------------
(***************************************************************************)
(* What the user of the plug is promised of it, threads, mutexes and       *)
(* timers left out: the relay goes to a level only because somebody asked  *)
(* for that level, at once or later, or because an automatic switch to it  *)
(* was planned while its stored time was not 0; nothing but a power cycle  *)
(* forgets the level, and nothing at all forgets the stored times.         *)
(***************************************************************************)
EXTENDS Integers

CONSTANT Times      \* the values of an automatic time; 0 means never

Level == {"on", "off"}
Other(d) == IF d = "on" THEN "off" ELSE "on"

VARIABLES
    level,      \* of the relay
    time,       \* level -> the stored automatic time
    planned,    \* the levels an automatic switch will go to
    asked       \* the levels it is going to, or will after a delay

vars == <<level, time, planned, asked>>

Init ==
    /\ level = "off" /\ time \in [Level -> Times]
    /\ planned = {} /\ asked = {}

\* A request for d takes back one for the other level, unless that one is
\* already being carried out.
Ask(d) ==
    /\ asked' \in {asked \cup {d}, (asked \ {Other(d)}) \cup {d}}
    /\ UNCHANGED <<level, time, planned>>

Plan(d) ==
    /\ time[d] > 0
    /\ planned' = planned \cup {d}
    /\ UNCHANGED <<level, time, asked>>

\* The time of a planned switch has come.
Due(d) ==
    /\ d \in planned
    /\ planned' = planned \ {d} /\ asked' = asked \cup {d}
    /\ UNCHANGED <<level, time>>

\* Somebody else may ask for the same level once more.
Switch(d) ==
    /\ d \in asked
    /\ level' = d
    /\ asked' \in {asked, asked \ {d}}
    /\ UNCHANGED <<time, planned>>

Withdraw(d) ==
    /\ planned' = planned \ {d}
    /\ UNCHANGED <<level, time, asked>>

Store(d, n) ==
    /\ time' = [time EXCEPT ![d] = n]
    /\ UNCHANGED <<level, planned, asked>>

PowerCycle == level' = "off" /\ planned' = {} /\ asked' = {} /\ UNCHANGED time

Next ==
    \/ \E d \in Level : \/ Ask(d) \/ Plan(d) \/ Due(d) \/ Switch(d)
                        \/ Withdraw(d) \/ \E n \in Times : Store(d, n)
    \/ PowerCycle

Spec == Init /\ [][Next]_vars
=============================================================================
