-------------------------- MODULE AlarmRulesProofs --------------------------
(* The slots of the alarm store stay sound, for every number of slots,     *)
(* amount of memory and set of rules.                                      *)
EXTENDS AlarmRulesProperties, WellFoundedInduction, TLAPS

(* SlotsAgree and PointersOwn are inductive together: a block that malloc  *)
(* gives out is free, so no slot points to it, and a slot that is not in   *)
(* the mask has no pointer that persist_alarm would free.                  *)
StoreType ==
    /\ mask \subseteq Slot
    /\ alarms \in [Slot -> Block \cup {NULL}]
    /\ DOMAIN heap = Block /\ heap = [b \in Block |-> heap[b]]
    /\ DOMAIN eeprom = Slot /\ eeprom = [i \in Slot |-> eeprom[i]]

AlarmInv == StoreType /\ SlotsAgree /\ PointersOwn

(* get_free_alarm_index finds a free slot if there is one.                 *)
LEMMA FreeIndex == get_free_alarm_index # -1 => get_free_alarm_index \in FreeSlots
<1> SUFFICES ASSUME FreeSlots # {} PROVE Min(FreeSlots) \in FreeSlots
  BY DEF get_free_alarm_index
<1> DEFINE R == {pair \in Nat \X Nat : pair[1] < pair[2]}
<1>0. IsWellFoundedOn(R, Nat)
  BY NatLessThanWellFounded DEF OpToRel
<1>1. FreeSlots \subseteq Nat
  BY AlarmAssumption DEF FreeSlots, Slot
<1>2. PICK x \in FreeSlots : \A y \in FreeSlots : ~(<<y, x>> \in R)
  <2> HIDE DEF R
  <2> QED  BY <1>0, <1>1, WFMin
<1>3. ASSUME NEW y \in FreeSlots PROVE x <= y
  <2>1. x \in Nat /\ y \in Nat
    BY <1>1
  <2>2. y < x => <<y, x>> \in R
    BY <2>1
  <2>3. ~(y < x)
    BY <1>2, <2>2
  <2>4. QED  BY <2>1, <2>3
<1>4. QED  BY <1>3 DEF Min

(* What free does to the heap: the block of a pointer, and nothing else.   *)
LEMMA ReleasedHeap ==
    ASSUME NEW h, NEW p
    PROVE  /\ DOMAIN Released(h, p) = Block
           /\ Released(h, p) = [b \in Block |-> Released(h, p)[b]]
           /\ \A b \in Block : Released(h, p)[b] = IF b = p THEN Free ELSE h[b]
BY DEF Released

----------------------------------------------------------------------------
(* A block that is lost takes nothing from the slots.                      *)
LEMMA LoseStep ==
    ASSUME AlarmInv, NEW rule \in Rules, LoseAlarm(rule)
    PROVE  AlarmInv'
<1>1. PICK b \in FreeBlocks : heap' = [heap EXCEPT ![b] = AlarmOf(rule)]
  BY DEF LoseAlarm
<1>2. b \in Block /\ heap[b] = Free /\ AlarmOf(rule) # Free
  BY AlarmAssumption DEF FreeBlocks
<1>3. UNCHANGED <<mask, alarms, eeprom>>
  BY DEF LoseAlarm
<1>4. \A i \in Slot : alarms[i] # NULL => alarms[i] \in Block /\ alarms[i] # b
  BY <1>2 DEF AlarmInv, StoreType, PointersOwn
<1>5. StoreType'
  BY <1>1, <1>2, <1>3 DEF AlarmInv, StoreType
<1>6. SlotsAgree'
  BY <1>1, <1>2, <1>3, <1>4 DEF AlarmInv, StoreType, SlotsAgree
<1>7. PointersOwn'
  BY <1>1, <1>2, <1>3, <1>4 DEF AlarmInv, StoreType, PointersOwn
<1>8. QED  BY <1>5, <1>6, <1>7 DEF AlarmInv

(* A new alarm comes into a free slot and into a free block.               *)
LEMMA AddStep ==
    ASSUME AlarmInv, NEW rule \in Rules, AddAlarm(rule)
    PROVE  AlarmInv'
<1> DEFINE a == AlarmOf(rule)
<1>1. PICK i \in FreeSlots : i = get_free_alarm_index /\ i # -1
  BY FreeIndex DEF AddAlarm
<1>2. i \in Slot /\ i \notin mask /\ alarms[i] = NULL /\ a # Free
  BY <1>1, AlarmAssumption DEF FreeSlots, AlarmInv, SlotsAgree
<1>3. PICK b \in FreeBlocks :
             /\ eeprom' = [eeprom EXCEPT ![i] = a]
             /\ mask' = mask \cup {i}
             /\ heap' = Released([heap EXCEPT ![b] = a], alarms[i])
             /\ alarms' = [alarms EXCEPT ![i] = b]
  BY <1>1 DEF AddAlarm, PersistIndex
<1>4. b \in Block /\ heap[b] = Free /\ b # NULL /\ NULL \notin Block
  BY AlarmAssumption DEF FreeBlocks
<1>5. \A j \in Slot : alarms[j] # NULL => alarms[j] \in Block /\ alarms[j] # b
  BY <1>4 DEF AlarmInv, StoreType, PointersOwn
<1>6. DOMAIN heap' = Block /\ heap' = [c \in Block |-> heap'[c]]
  BY <1>3 DEF Released
<1>7. StoreType'
  BY <1>2, <1>3, <1>4, <1>6 DEF AlarmInv, StoreType
<1>8. \A c \in Block : heap'[c] = IF c = b THEN a ELSE heap[c]
  BY <1>2, <1>3, <1>4, ReleasedHeap DEF AlarmInv, StoreType
<1>9. mask' = mask \cup {i}
  BY <1>3
<1> HIDE DEF a
<1>10. \A j \in Slot : /\ alarms'[j] = IF j = i THEN b ELSE alarms[j]
                       /\ eeprom'[j] = IF j = i THEN a ELSE eeprom[j]
  BY <1>2, <1>3 DEF AlarmInv, StoreType
<1>11. SlotsAgree'
  <2>1. i \in mask' /\ alarms'[i] # NULL /\ heap'[alarms'[i]] = eeprom'[i]
    BY <1>2, <1>4, <1>8, <1>9, <1>10
  <2>2. ASSUME NEW j \in Slot, j # i
        PROVE  /\ j \in mask' <=> alarms'[j] # NULL
               /\ j \in mask' => heap'[alarms'[j]] = eeprom'[j]
    BY <1>5, <1>8, <1>9, <1>10, <2>2 DEF AlarmInv, SlotsAgree
  <2>3. QED  BY <2>1, <2>2 DEF SlotsAgree
<1>12. PointersOwn'
  BY <1>2, <1>4, <1>5, <1>8, <1>10 DEF AlarmInv, PointersOwn
<1>13. QED  BY <1>7, <1>11, <1>12 DEF AlarmInv

(* A deleted alarm takes its pointer with it, and no other slot's memory.  *)
LEMMA DeleteStep ==
    ASSUME AlarmInv, NEW text \in Indexes, DeleteAlarm(text)
    PROVE  AlarmInv'
<1>1. PICK i \in Slot : i = Int8(text.value)
  BY DEF DeleteAlarm, IndexAccepted
<1>2. /\ mask' = mask \ {i}
      /\ heap' = Released(heap, alarms[i])
      /\ alarms' = [alarms EXCEPT ![i] = NULL]
      /\ eeprom' = eeprom
  BY <1>1 DEF DeleteAlarm, PointerAfterFree
<1>3. /\ DOMAIN heap' = Block /\ heap' = [c \in Block |-> heap'[c]]
      /\ \A c \in Block : heap'[c] = IF c = alarms[i] THEN Free ELSE heap[c]
  BY <1>2, ReleasedHeap
<1>4. \A j \in Slot : alarms'[j] = IF j = i THEN NULL ELSE alarms[j]
  BY <1>2 DEF AlarmInv, StoreType
<1>5. \A j \in Slot : alarms[j] # NULL => alarms[j] \in Block
  BY DEF AlarmInv, StoreType
<1>6. StoreType'
  BY <1>2, <1>3 DEF AlarmInv, StoreType
<1>7. SlotsAgree'
  BY <1>2, <1>3, <1>4, <1>5 DEF AlarmInv, SlotsAgree, PointersOwn
<1>8. PointersOwn'
  BY <1>3, <1>4, <1>5 DEF AlarmInv, PointersOwn
<1>9. QED  BY <1>6, <1>7, <1>8 DEF AlarmInv

(* The store as the globals are initialised, or all of it deleted.         *)
LEMMA EmptyStore ==
    ASSUME mask' = {}, alarms' = NoAlarms, DOMAIN heap' = Block,
           heap' = [b \in Block |-> heap'[b]], DOMAIN eeprom' = Slot,
           eeprom' = [i \in Slot |-> eeprom'[i]]
    PROVE  AlarmInv'
BY DEF AlarmInv, StoreType, SlotsAgree, PointersOwn, NoAlarms

LEMMA InitAlarmInv == Init => AlarmInv
BY DEF Init, AlarmInv, StoreType, SlotsAgree, PointersOwn, NoAlarms

LEMMA NextAlarmInv == AlarmInv /\ [Next]_vars => AlarmInv'
<1> SUFFICES ASSUME AlarmInv, [Next]_vars PROVE AlarmInv'
  OBVIOUS
<1>1. ASSUME NEW rule \in Rules, RefuseAlarm(rule) PROVE AlarmInv'
  BY <1>1 DEF RefuseAlarm, AlarmInv, StoreType, SlotsAgree, PointersOwn
<1>2. ASSUME NEW text \in Indexes, RefuseDelete(text) PROVE AlarmInv'
  BY <1>2 DEF RefuseDelete, AlarmInv, StoreType, SlotsAgree, PointersOwn
<1>3. ASSUME delete_all_alarms PROVE AlarmInv'
  BY <1>3, EmptyStore DEF delete_all_alarms, AlarmInv, StoreType
<1>4. ASSUME Reboot PROVE AlarmInv'
  BY <1>4, EmptyStore DEF Reboot, AlarmInv, StoreType
<1>5. CASE UNCHANGED vars
  BY <1>5 DEF vars, AlarmInv, StoreType, SlotsAgree, PointersOwn
<1>6. QED
  BY <1>1, <1>2, <1>3, <1>4, <1>5, LoseStep, AddStep, DeleteStep
  DEF Next, Create, Delete

(* AlarmInv holds after every sequence of calls and resets.                *)
THEOREM Invariance == Spec => []AlarmInv
BY InitAlarmInv, NextAlarmInv, PTL DEF Spec

(* Mask, pointers, memory and EEPROM tell the same story of every slot,    *)
(* however many rules were lost half-way.                                  *)
THEOREM SlotsInAgreement == Spec => []SlotsAgree
<1>1. AlarmInv => SlotsAgree
  BY DEF AlarmInv
<1>2. QED  BY <1>1, Invariance, PTL

(* No slot points to freed memory and no memory belongs to two slots: no   *)
(* alarm is freed twice.                                                   *)
THEOREM PointersOwned == Spec => []PointersOwn
<1>1. AlarmInv => PointersOwn
  BY DEF AlarmInv
<1>2. QED  BY <1>1, Invariance, PTL

(* A create that returns 0 has stored its rule in a slot that was free,    *)
(* although persist_alarm looks for it again and its failure is ignored.   *)
THEOREM CreatesTruthfully == Spec => CreateTruthful
<1> DEFINE Stored(rule) ==
             \E i \in FreeSlots :
                /\ mask' = mask \cup {i} /\ eeprom'[i] = AlarmOf(rule)
                /\ \A j \in Slot \ {i} : UNCHANGED <<alarms[j], eeprom[j]>>
           Truthful(rule) ==
             RefuseAlarm(rule) \/ LoseAlarm(rule) \/ AddAlarm(rule) =>
                IF returned' = 0 THEN Stored(rule)
                                 ELSE UNCHANGED <<mask, alarms, eeprom>>
<1>1. ASSUME AlarmInv, NEW rule \in Rules, AddAlarm(rule)
      PROVE  returned' = 0 /\ Stored(rule)
  <2>1. PICK i \in FreeSlots : i = get_free_alarm_index /\ i # -1
    BY <1>1, FreeIndex DEF AddAlarm
  <2>2. PICK b \in FreeBlocks :
               /\ eeprom' = [eeprom EXCEPT ![i] = AlarmOf(rule)]
               /\ mask' = mask \cup {i}
               /\ alarms' = [alarms EXCEPT ![i] = b]
               /\ returned' = 0
    BY <1>1, <2>1 DEF AddAlarm, PersistIndex
  <2>3. i \in Slot
    BY DEF FreeSlots
  <2>4. QED  BY <1>1, <2>2, <2>3 DEF AlarmInv, StoreType
<1>2. ASSUME AlarmInv, NEW rule \in Rules PROVE Truthful(rule)
  BY <1>1, <1>2 DEF RefuseAlarm, LoseAlarm
<1>3. AlarmInv /\ [Next]_vars => [\A rule \in Rules : Truthful(rule)]_vars
  BY <1>2
<1>4. QED  BY <1>3, Invariance, PTL DEF Spec, CreateTruthful
=============================================================================
