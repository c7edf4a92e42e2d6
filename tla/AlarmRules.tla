----------------------------- MODULE AlarmRules -----------------------------
(***************************************************************************)
(* The alarm store of alarm_rules.cpp: the mask of occupied slots, the     *)
(* array of pointers to malloc'd alarms and the copies in EEPROM, changed  *)
(* by the cloud functions f_create_alarm and f_delete_alarm.  Both run on  *)
(* the application thread, and setup() starts neither load_alarms nor      *)
(* t_monitor_alarms, so a call is one step.                                *)
(***************************************************************************)
EXTENDS RequestText, FiniteSetsExt

CONSTANTS
    NO_ALARMS_SUPPORTED,  \* slots, 2
    THIS_YEAR,            \* Time.year(Time.local())
    Block,                \* the pieces of memory malloc can give an alarm
    NULL, Free, Blank,    \* no pointer, no content, an EEPROM never written
    Rules,                \* arguments of f_create_alarm
    Indexes               \* arguments of f_delete_alarm, "*" aside

Slot == 0..NO_ALARMS_SUPPORTED - 1
Unit == {"month", "day", "hour", "min", "sec"}

(***************************************************************************)
(* A rule, "yyyy:m:day:hh:min:sec:<dow>:ON|OFF:", seen through what the    *)
(* code reads of it: what strtol makes of the whole string, how many       *)
(* fields end with ':', which of them are "*", which of the digits 0 to 6  *)
(* are in the seventh, and the eighth.                                     *)
(***************************************************************************)
Rule == [number : Text, count : Nat, wild : SUBSET (0..7), days : SUBSET (0..6),
         action : {"ON", "OFF", "other"}]

\* A cast to a signed integer of w values.
Signed(n, w) == IF n % w < w \div 2 THEN n % w ELSE (n % w) - w
Int8(n)      == Signed(n, BYTE)
Int16(n)     == Signed(n, WORD)

\* dow_mask is 16#FF for "*": the reserved bit, here 7, is set as well.
AlarmOf(rule) ==
    [year   |-> Int16(rule.number.value),
     time   |-> [u \in Unit |-> Int8(rule.number.value)],
     dow    |-> IF 6 \in rule.wild THEN 0..7 ELSE rule.days,
     action |-> rule.action]

ASSUME AlarmAssumption ==
    /\ NO_ALARMS_SUPPORTED \in Nat
    /\ NULL \notin Block
    /\ Rules \subseteq Rule
    /\ \A rule \in Rules : AlarmOf(rule) # Free

VARIABLES
    mask,       \* alarms_addr_mask: the occupied slots
    alarms,     \* the pointers
    heap,       \* what each piece of memory holds
    eeprom,     \* what each slot's address holds
    errno,      \* errno # 0
    returned    \* what the last call returned

vars == <<mask, alarms, heap, eeprom, errno, returned>>

NoAlarms == [i \in Slot |-> NULL]

Init ==
    /\ mask = {} /\ alarms = NoAlarms
    /\ heap = [b \in Block |-> Free] /\ eeprom = [i \in Slot |-> Blank]
    /\ errno = FALSE /\ returned = 0

----------------------------------------------------------------------------
FreeSlots == Slot \ mask
get_free_alarm_index == IF FreeSlots = {} THEN -1 ELSE Min(FreeSlots)

FreeBlocks == {b \in Block : heap[b] = Free}

\* The year is the only field that is parsed from its own text: the fields
\* 1 to 5 call strtol on t_str, not on token.  A "*" becomes -1.
YearAccepted(rule, e) ==
    /\ 0 \notin rule.wild
    /\ rule.number.digits /\ ~(e /\ Int16(rule.number.value) = 0)
    /\ Int16(rule.number.value) >= THIS_YEAR

TimeAccepted(rule, e) ==
    /\ rule.wild \cap 1..5 = {}
    /\ Int8(rule.number.value) >= 0
    /\ ~(e /\ Int8(rule.number.value) = 0)

\* The rule gets as far as its action.
ReachesAction(rule, e) ==
    rule.count >= 8 /\ YearAccepted(rule, e) /\ TimeAccepted(rule, e)

\* strtol is called if there is a slot, memory and a first field not "*".
ErrnoAfterRule(rule) ==
    IF FreeSlots # {} /\ FreeBlocks # {} /\ rule.count > 0 /\ 0 \notin rule.wild
    THEN ErrnoAfter(rule.number, errno) ELSE errno

\* free(p), which does nothing for NULL.
Released(h, p) == [b \in Block |-> IF b = p THEN Free ELSE h[b]]

----------------------------------------------------------------------------
\* return -1, the alarm freed if it was allocated.
RefuseAlarm(rule) ==
    /\ \/ get_free_alarm_index = -1
       \/ FreeBlocks = {}
       \/ ~ReachesAction(rule, ErrnoAfterRule(rule))
    /\ errno' = ErrnoAfterRule(rule)
    /\ returned' = -1
    /\ UNCHANGED <<mask, alarms, heap, eeprom>>

\* return -1 where the action is neither ON nor OFF: the alarm is not freed.
LoseAlarm(rule) ==
    /\ get_free_alarm_index # -1
    /\ ReachesAction(rule, ErrnoAfterRule(rule)) /\ rule.action = "other"
    /\ \E b \in FreeBlocks : heap' = [heap EXCEPT ![b] = AlarmOf(rule)]
    /\ errno' = ErrnoAfterRule(rule)
    /\ returned' = -1
    /\ UNCHANGED <<mask, alarms, eeprom>>

\* Wrong variant: the first slot, whether it is occupied or not.
FirstIndex == 0

\* persist_alarm asks for an index again.
PersistIndex == get_free_alarm_index

\* persist_alarm, whose -1 is printed and forgotten.
AddAlarm(rule) ==
    /\ get_free_alarm_index # -1
    /\ ReachesAction(rule, ErrnoAfterRule(rule)) /\ rule.action # "other"
    /\ LET i == PersistIndex IN
       \E b \in FreeBlocks :
          LET allocated == [heap EXCEPT ![b] = AlarmOf(rule)] IN
          IF i = -1
          THEN heap' = allocated /\ UNCHANGED <<mask, alarms, eeprom>>
          ELSE /\ eeprom' = [eeprom EXCEPT ![i] = AlarmOf(rule)]
               /\ mask' = mask \cup {i}
               /\ heap' = Released(allocated, alarms[i])
               /\ alarms' = [alarms EXCEPT ![i] = b]
    /\ errno' = ErrnoAfterRule(rule)
    /\ returned' = 0

----------------------------------------------------------------------------
\* An index, or two kinds of -1.  delete_alarm does not ask whether the slot
\* is occupied.
IndexAccepted(text, e) ==
    /\ text.digits /\ ~(e /\ Int8(text.value) = 0)
    /\ Int8(text.value) \in Slot

RefuseDelete(text) ==
    /\ ~IndexAccepted(text, ErrnoAfter(text, errno))
    /\ errno' = ErrnoAfter(text, errno)
    /\ returned' = -1
    /\ UNCHANGED <<mask, alarms, heap, eeprom>>

\* Wrong variant: the memory is freed and the pointer kept.
StalePointer(i) == alarms[i]
PointerAfterFree(i) == NULL

DeleteAlarm(text) ==
    /\ IndexAccepted(text, ErrnoAfter(text, errno))
    /\ LET i == Int8(text.value)
       IN  /\ mask' = mask \ {i}
           /\ heap' = Released(heap, alarms[i])
           /\ alarms' = [alarms EXCEPT ![i] = PointerAfterFree(i)]
    /\ errno' = ErrnoAfter(text, errno)
    /\ returned' = 0
    /\ UNCHANGED eeprom

\* Wrong variant: the mask is left as it was.
DeleteAllButMask ==
    /\ alarms' = NoAlarms /\ heap' = [b \in Block |-> Free]
    /\ returned' = 0
    /\ UNCHANGED <<mask, eeprom, errno>>

delete_all_alarms ==
    /\ mask' = {} /\ alarms' = NoAlarms
    /\ heap' = [b \in Block |-> IF \E i \in Slot : alarms[i] = b
                                THEN Free ELSE heap[b]]
    /\ returned' = 0
    /\ UNCHANGED <<eeprom, errno>>

\* The globals are initialised, the heap is empty; the EEPROM stays.
Reboot ==
    /\ mask' = {} /\ alarms' = NoAlarms
    /\ heap' = [b \in Block |-> Free]
    /\ errno' = FALSE /\ returned' = 0
    /\ UNCHANGED eeprom

----------------------------------------------------------------------------
Create == \E rule \in Rules :
    RefuseAlarm(rule) \/ LoseAlarm(rule) \/ AddAlarm(rule)

Delete == \/ delete_all_alarms
          \/ \E text \in Indexes : RefuseDelete(text) \/ DeleteAlarm(text)

Next == Create \/ Delete \/ Reboot

Spec == Init /\ [][Next]_vars
=============================================================================
