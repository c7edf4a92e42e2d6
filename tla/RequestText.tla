---------------------------- MODULE RequestText ----------------------------
(***************************************************************************)
(* What the cloud functions f_switch_on, f_switch_off, f_auto_on and       *)
(* f_auto_off make of their String argument: strtol, the cast of its       *)
(* result to the unsigned integer the call works with, and the tests that  *)
(* lead to the return codes -1 and -2.                                     *)
(***************************************************************************)
EXTENDS Integers

CONSTANTS
    BYTE,                       \* number of values of a uint8_t
    WORD,                       \* number of values of a uint16_t
    LONG_MAX,                   \* the value strtol returns on overflow
    MS_PER_SECOND,              \* the factor of "_time *= 1000"
    MAX_ONE_TIME_ON_OFF_TIMER,  \* seconds, 54000 in device_control.h
    MAX_AUTO_OFF_ON_TIME        \* minutes, 200 in auto_off_on.h

ASSUME WidthAssumption ==
    /\ BYTE \in Nat \ {0} /\ WORD \in Nat \ {0}
    /\ LONG_MAX \in Nat
    /\ MS_PER_SECOND \in Nat
    /\ MAX_ONE_TIME_ON_OFF_TIMER \in Nat
    /\ MAX_AUTO_OFF_ON_TIME \in Nat

(***************************************************************************)
(* A text, seen through strtol(text, &endptr, 10): whether any digit was   *)
(* found (endptr # text), the long it returns, and whether it sets errno.  *)
(***************************************************************************)
Text == [digits : BOOLEAN, value : Int, erange : BOOLEAN]

Numeral(n)  == [digits |-> TRUE,  value |-> n,             erange |-> FALSE]
NotANumber  == [digits |-> FALSE, value |-> 0,             erange |-> FALSE]
Overlong    == [digits |-> TRUE,  value |-> LONG_MAX,      erange |-> TRUE]
Underlong   == [digits |-> TRUE,  value |-> -LONG_MAX - 1, erange |-> TRUE]

\* strtol sets errno and nobody ever clears it.
ErrnoAfter(text, errno) == errno \/ text.erange

\* The tests the four functions make, errno being looked at after strtol.
Result(text, number, max, errno) ==
    IF ~text.digits \/ (errno /\ number = 0) THEN -1
    ELSE IF number > max                     THEN -2
    ELSE 0

\* f_switch_on and f_switch_off: (uint16_t) seconds, turned into uint16_t ms.
Seconds(text) == text.value % WORD

SwitchResult(text, errno) ==
    Result(text, Seconds(text), MAX_ONE_TIME_ON_OFF_TIMER, errno)

\* Wrong variant: a product that is not cut to 16 bits.
WideDelayMs(text) == Seconds(text) * MS_PER_SECOND

DelayMs(text) == (Seconds(text) * MS_PER_SECOND) % WORD

\* f_auto_on and f_auto_off: (uint8_t) minutes.
Minutes(text) == text.value % BYTE

AutoResult(text, errno) ==
    Result(text, Minutes(text), MAX_AUTO_OFF_ON_TIME, errno)
=============================================================================
