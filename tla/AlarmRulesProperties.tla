------------------------ MODULE AlarmRulesProperties ------------------------
(* What alarm_rules.cpp keeps true of its slots, and promises of a rule.   *)
EXTENDS AlarmRules, FiniteSets

(* A slot is in the mask exactly if its pointer is set, and the memory it  *)
(* points to then holds what the slot's EEPROM address holds, whatever     *)
(* creates, deletes, lost blocks and resets came before.                   *)
SlotsAgree ==
    \A i \in Slot :
        /\ i \in mask <=> alarms[i] # NULL
        /\ i \in mask => heap[alarms[i]] = eeprom[i]

(* No slot points to memory that was freed, and no two slots to the same.  *)
PointersOwn ==
    /\ \A i \in Slot : alarms[i] # NULL => heap[alarms[i]] # Free
    /\ \A i, j \in Slot : alarms[i] = alarms[j] /\ alarms[i] # NULL => i = j

(* A create that returns 0 has stored its rule in a slot that was free, on *)
(* top of none, although persist_alarm looks for the slot a second time    *)
(* and its failure would be ignored; one that returns -1 stored nothing.   *)
CreateTruthful ==
    [][\A rule \in Rules :
          RefuseAlarm(rule) \/ LoseAlarm(rule) \/ AddAlarm(rule) =>
              IF returned' = 0
              THEN \E i \in FreeSlots :
                      /\ mask' = mask \cup {i} /\ eeprom'[i] = AlarmOf(rule)
                      /\ \A j \in Slot \ {i} : UNCHANGED <<alarms[j], eeprom[j]>>
              ELSE UNCHANGED <<mask, alarms, eeprom>>]_vars

----------------------------------------------------------------------------
(* What comments say of the arguments, and the code does not do.           *)

\* A rule as the comment writes it, with a year that is not past.
WellFormed(rule) ==
    /\ rule.count = 8 /\ rule.action # "other"
    /\ rule.number.digits /\ ~rule.number.erange
    /\ rule.number.value \in THIS_YEAR..WORD \div 2 - 1

Room == FreeSlots # {} /\ FreeBlocks # {} /\ ~errno

(* "yyyy:m:day:hh:min:sec:<dow>:ON|OFF:", "e.g., 2016:9:10:11:20:*:01:ON:":*)
(* a rule of this form, without "*", is accepted when there is room.       *)
FormAccepted ==
    [][\A rule \in Rules :
          WellFormed(rule) /\ rule.wild = {} /\ Room =>
              ~RefuseAlarm(rule)]_vars

=============================================================================
