-------------------------- MODULE KeyRecordsProofs ---------------------------
(***************************************************************************)
(* Proofs about KeyRecords, for any number of slots and fobs and for any   *)
(* bounds: the type of the state, and that neither a registration nor a    *)
(* deadline comes apart between memory and flash, wherever the commands    *)
(* and the resets fall.                                                    *)
(***************************************************************************)
EXTENDS KeyRecords, TLAPS

(* A taking or a return whose deadline is still to be written.             *)
Updating == {"limit", "return", "erg_return"}
Pending(k) == k = cur /\ After \in Updating

(* Memory and flash differ in a registration only while a menu works on it *)
(* or the sector is being written.                                         *)
FobsInv ==
  /\ pc \notin {"register", "add", "write_keys"} =>
       \A k \in Keys : mem[k].fob = keys[k].fob
  /\ \A k \in Keys \ overtaken : mem[k].fob = org[k]

EventsInv == pc # "write_events" => events = status

(* What a pending taking goes by.                                          *)
PendingInv ==
  /\ After \in Updating => cur \in Keys
  /\ After = "limit" =>
       /\ given = taking[cur] /\ status[cur] = "OPEN"
       /\ cur \notin excused => keys[cur].due = 0 /\ mem[cur].due = 0

(* The deadline of slot k: in the key record, in a record that says the    *)
(* fob is there, in memory once the boot is over, and after total_register *)
(* has gone over the slot.                                                 *)
DueInv(k) ==
  /\ mem[k].due = taking[k]
  /\ keys[k].due = taking[k] \/ (pc = "write_keys" /\ k = cur)
ClosedInv(k) == "CLOSED" \in {status[k], events[k]} => taking[k] = 0
LimitInv(k) ==
  After \notin {"boot", "restore"} /\ status[k] # "FF" => limit[k] = taking[k]
RegisteredInv(k) ==
  After = "registered" \/ (After = "register" /\ k < cur) =>
    taking[k] = 0 /\ limit[k] = 0
Settled(k) == DueInv(k) /\ ClosedInv(k) /\ LimitInv(k) /\ RegisteredInv(k)
DeadlineInv == \A k \in Keys \ excused : Pending(k) \/ Settled(k)

IInv == TypeOK /\ FobsInv /\ EventsInv /\ PendingInv /\ DeadlineInv

-----------------------------------------------------------------------------
LEMMA ConstantsType ==
  /\ MAX_KEYS \in Nat \ {0} /\ None \notin Fobs
  /\ MAX_MOVES \in Nat /\ MAX_TAKES \in Nat /\ MAX_MENUS \in Nat
  /\ MAX_COMMANDS \in Nat /\ MAX_RESETS \in Nat
BY KeysAssumption, FobsAssumption, BoundsAssumption

(* A record with another deadline.                                         *)
LEMMA DueType ==
  ASSUME NEW r \in KeyRecord, NEW d \in Deadlines
  PROVE  /\ [r EXCEPT !.due = d] \in KeyRecord
         /\ [r EXCEPT !.due = d].due = d /\ [r EXCEPT !.due = d].fob = r.fob
BY DEF KeyRecord

LEMMA DeadlinesType == 0 .. MAX_TAKES \subseteq Deadlines /\ 0 \in Deadlines
BY ConstantsType DEF Deadlines, FF

LEMMA InitType == Init => TypeOK
<1> SUFFICES ASSUME Init PROVE TypeOK
  OBVIOUS
<1> USE ConstantsType DEF Init, TypeOK, Keys, FF, Deadlines, Fob, Status
<1>1. mem \in [Keys -> KeyRecord] /\ keys \in [Keys -> KeyRecord]
  BY DEF KeyRecord
<1>2. status \in [Keys -> Status] /\ events \in [Keys -> Status]
  BY DEF Presence
<1> QED
  BY <1>1, <1>2 DEF Locations, Polled, NoKey

LEMMA DropDeadlineType ==
  ASSUME TypeOK, NEW then \in Polled, DropDeadline(then) PROVE TypeOK'
<1> USE ConstantsType DEF TypeOK, world, flash, erg, history, bounds, Write
<1>1. mem' = [mem EXCEPT ![cur] = [keys[cur] EXCEPT !.due = 0]]
  BY DEF DropDeadline
<1>2. mem' \in [Keys -> KeyRecord]
  <2>1. cur \in Keys => [keys[cur] EXCEPT !.due = 0] \in KeyRecord
    BY DueType, DeadlinesType
  <2> QED
    BY <1>1, <2>1
<1>3. limit' \in [Keys -> Deadlines]
  BY DeadlinesType DEF DropDeadline
<1> QED
  BY <1>2, <1>3 DEF DropDeadline, Locations

LEMMA CreateType ==
  ASSUME TypeOK, NEW then \in Polled \union {"restore"}, create_keyevents(then)
  PROVE  TypeOK'
<1> USE ConstantsType DEF TypeOK, world, flash, erg, bounds, Write
<1>1. status' \in [Keys -> Status]
  BY DEF create_keyevents, Presence, Status
<1>2. excused' \subseteq Keys
  BY DEF create_keyevents, WithDeadline
<1> QED
  BY <1>1, <1>2 DEF create_keyevents, Locations

(* What a sector write, a person and a session leave of the types.         *)
LEMMA SessionType ==
  TypeOK /\ ((\E k \in Keys, f \in Fob : Move(k, f)) \/ WriteKeys \/ WriteEvents \/ Session)
    => TypeOK'
<1> SUFFICES ASSUME TypeOK,
                    (\E k \in Keys, f \in Fob : Move(k, f)) \/ WriteKeys \/ WriteEvents \/ Session
             PROVE  TypeOK'
  OBVIOUS
<1> USE ConstantsType
    DEF TypeOK, world, flash, control, erg, history, bounds, Write
<1>1. ASSUME NEW k \in Keys, NEW f \in Fob, Move(k, f) PROVE TypeOK'
  BY <1>1 DEF Move
<1>2. CASE WriteKeys \/ WriteEvents
  BY <1>2 DEF WriteKeys, WriteEvents, Locations, Polled
<1>3. ASSUME NEW k \in Keys, NEW limited \in BOOLEAN, TakeKey(k, limited) PROVE TypeOK'
  <2>1. given' \in 0 .. MAX_TAKES /\ takes' \in 0 .. MAX_TAKES
    BY <1>3 DEF TakeKey
  <2> QED
    BY <1>3, <2>1 DEF TakeKey, Locations, Polled, Status, Fob, Keys
<1>4. CASE TakeLimit
  <2> DEFINE due == IF given > 0 THEN given ELSE keys[cur].due
  <2>1. mem' = [mem EXCEPT ![cur] = [keys[cur] EXCEPT !.due = due]]
    BY <1>4 DEF TakeLimit
  <2>2. cur \in Keys => due \in Deadlines
    BY DeadlinesType DEF KeyRecord
  <2> HIDE DEF due
  <2>3. mem' \in [Keys -> KeyRecord]
    <3>1. cur \in Keys => [keys[cur] EXCEPT !.due = due] \in KeyRecord
      BY <2>2, DueType
    <3> QED
      BY <2>1, <3>1
  <2>4. limit' \in [Keys -> Deadlines]
    BY <1>4, DeadlinesType DEF TakeLimit
  <2> QED
    BY <1>4, <2>3, <2>4 DEF TakeLimit, Locations, Polled
<1>5. ASSUME NEW k \in Keys, ReturnKey(k) PROVE TypeOK'
  BY <1>5 DEF ReturnKey, GiveBack, Locations, Polled, Status, Keys
<1>6. CASE ReturnLimit
  BY <1>6, DropDeadlineType DEF ReturnLimit, Polled
<1> QED
  BY <1>1, <1>2, <1>3, <1>4, <1>5, <1>6 DEF Session

(* The check between sessions and the registration menus.                  *)
LEMMA RegistrationType ==
  TypeOK /\ ((\E k \in Keys : key_check_2(k)) \/ Menu \/ Registration) => TypeOK'
<1> SUFFICES ASSUME TypeOK, (\E k \in Keys : key_check_2(k)) \/ Menu \/ Registration
             PROVE  TypeOK'
  OBVIOUS
<1> USE ConstantsType
    DEF TypeOK, world, flash, erg, history, bounds, Write, Locations, Polled
<1>1. ASSUME NEW k \in Keys, key_check_2(k) PROVE TypeOK'
  <2>1. WithDeadline({k}) \subseteq Keys
    BY DEF WithDeadline
  <2> QED
    BY <1>1, <2>1 DEF key_check_2, CheckRemoved, CheckReturned, Status
<1>2. CASE Menu
  BY <1>2 DEF Menu, StartMenu
<1>3. ASSUME NEW f \in Fob, NEW due \in Deadlines, cur \in Keys, Register(f, due)
      PROVE  /\ org' \in [Keys -> Fob] /\ mem' \in [Keys -> KeyRecord]
             /\ overtaken' \subseteq Keys /\ excused' \subseteq Keys
  BY <1>3 DEF Register, KeyRecord, WithDeadline
<1>4. CASE RegisterKey
  <2>1. cur \in Keys /\ cur + 1 \in 0 .. MAX_KEYS
    BY <1>4 DEF RegisterKey, Keys
  <2> DEFINE due == IF seen[cur] = None THEN 0 ELSE mem[cur].due
  <2>2. seen[cur] \in Fob /\ due \in Deadlines
    BY <2>1, DeadlinesType DEF KeyRecord
  <2>3. Register(seen[cur], due)
    BY <1>4 DEF RegisterKey
  <2> HIDE DEF due
  <2> QED
    BY <1>3, <1>4, <2>1, <2>2, <2>3 DEF RegisterKey
<1>5. CASE AddKey
  <2>1. cur \in Keys /\ cur + 1 \in 0 .. MAX_KEYS
    BY <1>5 DEF AddKey, Keys
  <2>2. seen[cur] \in Fob /\ mem[cur].due \in Deadlines
    BY <2>1 DEF KeyRecord
  <2>3. \/ Register(seen[cur], mem[cur].due)
        \/ UNCHANGED <<org, mem, overtaken, excused>>
    BY <1>5 DEF AddKey
  <2> QED
    BY <1>3, <1>5, <2>1, <2>2, <2>3 DEF AddKey
<1>6. CASE MenuEnd
  BY <1>6 DEF MenuEnd, Fob
<1>7. CASE CreateEvents
  BY <1>7, CreateType DEF CreateEvents, Polled
<1> QED
  BY <1>1, <1>2, <1>4, <1>5, <1>6, <1>7 DEF Registration

(* Commands and the emergency access.                                      *)
LEMMA EmergencyType ==
  TypeOK /\ ((\E named \in SUBSET Keys : KeyCommand(named)) \/ Emergency) => TypeOK'
<1> SUFFICES ASSUME TypeOK, (\E named \in SUBSET Keys : KeyCommand(named)) \/ Emergency
             PROVE  TypeOK'
  OBVIOUS
<1> USE ConstantsType
    DEF TypeOK, world, flash, erg, control, history, bounds, Write, Locations, Polled
<1>1. ASSUME NEW named \in SUBSET Keys, KeyCommand(named) PROVE TypeOK'
  BY <1>1 DEF KeyCommand
<1>2. CASE EmergencyStart \/ EmergencyEsc \/ EmergencyEnd
  BY <1>2 DEF EmergencyStart, EmergencyEsc, EmergencyEnd
<1>3. ASSUME NEW k \in Keys, EmergencyEnter(k) PROVE TypeOK'
  BY <1>3 DEF EmergencyEnter
<1>4. CASE EmergencyRelease
  BY <1>4 DEF EmergencyRelease
<1>5. CASE EmergencyTake
  BY <1>5, DeadlinesType DEF EmergencyTake, Status
<1>6. ASSUME NEW k \in Keys, EmergencyReturn(k) PROVE TypeOK'
  BY <1>6 DEF EmergencyReturn, GiveBack, Status, Keys
<1>7. CASE EmergencyReturnLimit
  BY <1>7, DropDeadlineType DEF EmergencyReturnLimit
<1> QED
  BY <1>1, <1>2, <1>3, <1>4, <1>5, <1>6, <1>7 DEF Emergency

(* Resets, in a step and in a sector write, and what the boot does.        *)
LEMMA ResetType == TypeOK /\ (AnyReset \/ BootService \/ BootRestore) => TypeOK'
<1> SUFFICES ASSUME TypeOK, AnyReset \/ BootService \/ BootRestore PROVE TypeOK'
  OBVIOUS
<1> USE ConstantsType DEF TypeOK, world, flash, erg, bounds, history, Locations, Polled
<1>1. ASSUME NEW k2 \in [Keys -> KeyRecord], NEW e2 \in [Keys -> Status], Boot(k2, e2),
             excused' \subseteq Keys
      PROVE  TypeOK'
  BY <1>1, DeadlinesType DEF Boot, KeyRecord, Fob
<1>2. Torn \subseteq Keys
  BY DEF Torn
<1>3. CASE Reset
  BY <1>1, <1>2, <1>3 DEF Reset
<1>4. ASSUME NEW n \in 0 .. MAX_KEYS, ResetInKeys(n) PROVE TypeOK'
  <2>1. Blank \in KeyRecord
    BY DEF Blank, KeyRecord, Fob, Deadlines, FF
  <2>2. CutFrom(n, mem, Blank) \in [Keys -> KeyRecord]
    BY <2>1 DEF CutFrom
  <2>3. n .. MAX_KEYS - 1 \subseteq Keys
    BY DEF Keys
  <2> QED
    BY <1>1, <1>2, <1>4, <2>2, <2>3 DEF ResetInKeys
<1>5. ASSUME NEW n \in 0 .. MAX_KEYS, ResetInEvents(n) PROVE TypeOK'
  <2>1. CutFrom(n, status, "FF") \in [Keys -> Status]
    BY DEF CutFrom, Status
  <2> QED
    BY <1>1, <1>2, <1>5, <2>1 DEF ResetInEvents
<1>6. CASE BootService
  BY <1>6, CreateType DEF BootService
<1>7. CASE BootRestore
  <2>1. limit' \in [Keys -> Deadlines]
    BY <1>7, DeadlinesType DEF BootRestore, KeyRecord
  <2> QED
    BY <1>7, <2>1 DEF BootRestore
<1> QED
  BY <1>3, <1>4, <1>5, <1>6, <1>7 DEF AnyReset

LEMMA NextType == TypeOK /\ [Next]_vars => TypeOK'
<1>1. TypeOK /\ UNCHANGED vars => TypeOK'
  BY DEF TypeOK, vars, world, flash, erg, control, history, bounds
<1> QED
  BY <1>1, SessionType, RegistrationType, EmergencyType, ResetType DEF Next

(* Every variable keeps its type, for every cabinet.                       *)
THEOREM TypeCorrect == Spec => []TypeOK
BY InitType, NextType, PTL DEF Spec

-----------------------------------------------------------------------------
(* A registration in memory is the one in flash once its menu is done.     *)
LEMMA FobsStep == IInv /\ [Next]_vars => FobsInv'
<1> SUFFICES ASSUME IInv, [Next]_vars PROVE FobsInv'
  OBVIOUS
<1> USE DEF IInv, world, flash, erg, control, history, Write
<1>0. TypeOK /\ FobsInv
  OBVIOUS
<1>k. ASSUME UNCHANGED <<org, mem, keys, overtaken>>,
             pc' \in {"register", "add", "write_keys"} \/ pc \notin {"register", "add", "write_keys"}
      PROVE  FobsInv'
  BY <1>0, <1>k DEF FobsInv
<1>1. CASE (\E k \in Keys, f \in Fob : Move(k, f)) \/ UNCHANGED vars
  BY <1>1, <1>k DEF Move, vars
<1>2. CASE WriteKeys
  BY <1>0, <1>2 DEF WriteKeys, FobsInv
<1>3. CASE WriteEvents
  BY <1>3, <1>k DEF WriteEvents
<1>4. ASSUME NEW k \in Keys, NEW limited \in BOOLEAN, TakeKey(k, limited) PROVE FobsInv'
  BY <1>4, <1>k DEF TakeKey
<1>d. ASSUME pc \in Updating, NEW due \in Deadlines, cur \in Keys,
             mem' = [mem EXCEPT ![cur] = [keys[cur] EXCEPT !.due = due]],
             UNCHANGED <<org, keys, overtaken>>
      PROVE  FobsInv'
  <2>1. \A k \in Keys : mem'[k].fob = mem[k].fob
    <3>1. \A k \in Keys : mem[k].fob = keys[k].fob
      BY <1>0, <1>d DEF FobsInv, Updating
    <3>2. [keys[cur] EXCEPT !.due = due].fob = keys[cur].fob
      BY <1>0, <1>d, DueType DEF TypeOK
    <3> QED
      BY <1>0, <1>d, <3>1, <3>2 DEF TypeOK
  <2> QED
    BY <1>0, <1>d, <2>1 DEF FobsInv, Updating
<1>p. pc \in Updating => cur \in Keys /\ given \in Deadlines /\ keys[cur].due \in Deadlines
  BY <1>0, DeadlinesType DEF PendingInv, Updating, After, TypeOK, KeyRecord
<1>5. CASE TakeLimit
  <2> DEFINE due == IF given > 0 THEN given ELSE keys[cur].due
  <2>1. due \in Deadlines
    BY <1>5, <1>p DEF TakeLimit, Updating
  <2>2. mem' = [mem EXCEPT ![cur] = [keys[cur] EXCEPT !.due = due]]
    BY <1>5 DEF TakeLimit
  <2> HIDE DEF due
  <2> QED
    BY <1>5, <1>d, <1>p, <2>1, <2>2 DEF TakeLimit, Updating
<1>6. ASSUME NEW then, DropDeadline(then), pc \in Updating PROVE FobsInv'
  BY <1>6, <1>d, <1>p, DeadlinesType DEF DropDeadline
<1>7. ASSUME NEW k \in Keys, ReturnKey(k) PROVE FobsInv'
  BY <1>7, <1>k DEF ReturnKey, GiveBack
<1>8. CASE Session
  BY <1>4, <1>5, <1>6, <1>7, <1>8 DEF Session, ReturnLimit, Updating
<1>9. ASSUME NEW k \in Keys, key_check_2(k) PROVE FobsInv'
  BY <1>9, <1>k DEF key_check_2, CheckRemoved, CheckReturned
<1>r. ASSUME NEW f, NEW due, cur \in Keys, Register(f, due), pc' \in {"register", "add"}
      PROVE  FobsInv'
  <2>1. mem' = [mem EXCEPT ![cur] = [fob |-> f, due |-> due]] /\ org' = [org EXCEPT ![cur] = f]
        /\ overtaken' = overtaken \ {cur}
    BY <1>r DEF Register
  <2>2. \A k \in Keys \ overtaken' : mem'[k].fob = org'[k]
    BY <1>0, <1>r, <2>1 DEF FobsInv, TypeOK
  <2> QED
    BY <1>r, <2>2 DEF FobsInv
<1>10. CASE Menu \/ Registration
  <2>1. CASE RegisterKey
    BY <1>0, <1>r, <2>1, ConstantsType DEF RegisterKey, TypeOK, Keys
  <2>2. CASE AddKey
    <3>1. cur \in Keys /\ pc' = "add" /\ keys' = keys
      BY <1>0, <2>2, ConstantsType DEF AddKey, TypeOK, Keys
    <3>2. CASE Register(seen[cur], mem[cur].due)
      BY <1>r, <3>1, <3>2
    <3>3. CASE UNCHANGED <<org, mem, overtaken, excused>>
      BY <1>k, <3>1, <3>3
    <3> QED
      BY <2>2, <3>2, <3>3 DEF AddKey
  <2>3. CASE Menu \/ MenuEnd \/ CreateEvents
    BY <1>k, <2>3 DEF Menu, StartMenu, MenuEnd, CreateEvents, create_keyevents
  <2> QED
    BY <1>10, <2>1, <2>2, <2>3 DEF Registration
<1>11. ASSUME NEW named \in SUBSET Keys, KeyCommand(named) PROVE FobsInv'
  BY <1>0, <1>11 DEF KeyCommand, FobsInv, TypeOK
<1>12. CASE Emergency
  <2>1. CASE EmergencyReturnLimit
    BY <1>6, <2>1 DEF EmergencyReturnLimit, Updating
  <2>2. CASE ~ EmergencyReturnLimit
    BY <1>12, <1>k, <2>2 DEF Emergency, EmergencyStart, EmergencyEnter, EmergencyRelease,
      EmergencyTake, EmergencyReturn, GiveBack, EmergencyEsc, EmergencyEnd
  <2> QED
    BY <2>1, <2>2
<1>13. ASSUME NEW k2, NEW e2, Boot(k2, e2) PROVE FobsInv'
  BY <1>13 DEF Boot, FobsInv
<1>14. CASE AnyReset
  BY <1>13, <1>14 DEF AnyReset, Reset, ResetInKeys, ResetInEvents
<1>15. CASE BootService \/ BootRestore
  BY <1>15, <1>k DEF BootService, create_keyevents, BootRestore
<1> QED
  BY <1>1, <1>2, <1>3, <1>8, <1>9, <1>10, <1>11, <1>12, <1>14, <1>15 DEF Next

-----------------------------------------------------------------------------
LEMMA EventsStep == IInv /\ [Next]_vars => EventsInv'
<1> SUFFICES ASSUME IInv, [Next]_vars PROVE EventsInv'
  OBVIOUS
<1>0. EventsInv
  BY DEF IInv
<1> USE DEF EventsInv, world, flash, erg, control, history, Write
<1>1. CASE (\E k \in Keys, f \in Fob : Move(k, f)) \/ WriteKeys \/ WriteEvents \/ UNCHANGED vars
  BY <1>0, <1>1 DEF Move, WriteKeys, WriteEvents, vars
<1>2. ASSUME NEW then, DropDeadline(then), pc # "write_events" PROVE EventsInv'
  BY <1>0, <1>2 DEF DropDeadline
<1>3. CASE Session
  BY <1>0, <1>2, <1>3 DEF Session, TakeKey, TakeLimit, ReturnKey, GiveBack, ReturnLimit
<1>4. CASE \E k \in Keys : key_check_2(k)
  BY <1>4 DEF key_check_2, CheckRemoved, CheckReturned
<1>5. CASE Menu \/ Registration
  BY <1>0, <1>5 DEF Menu, StartMenu, Registration, RegisterKey, AddKey, MenuEnd, CreateEvents,
                    create_keyevents
<1>6. CASE \E named \in SUBSET Keys : KeyCommand(named)
  BY <1>0, <1>6 DEF KeyCommand, Polled
<1>7. CASE Emergency
  <2>1. CASE EmergencyReturnLimit
    BY <1>2, <2>1 DEF EmergencyReturnLimit
  <2>2. CASE ~ EmergencyReturnLimit
    BY <1>0, <1>7, <2>2 DEF Emergency, EmergencyStart, EmergencyEnter, EmergencyRelease,
      EmergencyTake, EmergencyReturn, GiveBack, EmergencyEsc, EmergencyEnd
  <2> QED
    BY <2>1, <2>2
<1>8. CASE AnyReset \/ BootService \/ BootRestore
  BY <1>0, <1>8 DEF AnyReset, Reset, ResetInKeys, ResetInEvents, Boot, BootService,
                    create_keyevents, BootRestore
<1> QED
  BY <1>1, <1>3, <1>4, <1>5, <1>6, <1>7, <1>8 DEF Next

(* What is outside the updates of a taking or a return leaves them alone.  *)
LEMMA PendingStep == IInv /\ [Next]_vars => PendingInv'
<1> SUFFICES ASSUME IInv, [Next]_vars PROVE PendingInv'
  OBVIOUS
<1>0. PendingInv /\ TypeOK /\ DeadlineInv /\ EventsInv
  BY DEF IInv
<1> USE DEF world, flash, erg, control, history, Write
<1>n. ASSUME After' \notin Updating PROVE PendingInv'
  BY <1>n DEF PendingInv, Updating
<1>k. ASSUME UNCHANGED <<cur, given, taking, status, keys, mem, excused>>, After' = After
      PROVE  PendingInv'
  BY <1>0, <1>k DEF PendingInv
<1>1. CASE (\E k \in Keys, f \in Fob : Move(k, f)) \/ UNCHANGED vars
  BY <1>1, <1>k DEF Move, vars, After
<1>2. CASE WriteEvents
  <2>1. After' = After
    BY <1>0, <1>2 DEF WriteEvents, After, TypeOK, Polled
  <2> QED
    BY <1>2, <2>1, <1>k DEF WriteEvents
<1>3. CASE WriteKeys
  <2>1. After' = After
    BY <1>0, <1>3 DEF WriteKeys, After, TypeOK, Polled
  <2> QED
    BY <1>0, <1>3, <2>1 DEF WriteKeys, PendingInv, Updating
<1>4. ASSUME NEW k \in Keys, NEW limited \in BOOLEAN, TakeKey(k, limited) PROVE PendingInv'
  <2>1. After' = "limit" /\ cur' = k /\ After = "idle" /\ pc = "idle"
    BY <1>4 DEF TakeKey, After
  <2>2. given' = taking'[k] /\ status'[k] = "OPEN"
    BY <1>0, <1>4 DEF TakeKey, TypeOK
  <2>3. k \notin excused => keys[k].due = 0 /\ mem[k].due = 0
    BY <1>0, <1>4, <2>1 DEF TakeKey, DeadlineInv, Settled, Pending, Updating, DueInv, ClosedInv
  <2> QED
    BY <1>4, <2>1, <2>2, <2>3 DEF PendingInv, TakeKey
<1>5. CASE TakeLimit
  BY <1>5, <1>n DEF TakeLimit, After, Updating
<1>6. ASSUME NEW k \in Keys, NEW then \in {"return", "erg_return"}, GiveBack(k, then)
      PROVE  PendingInv'
  BY <1>6 DEF GiveBack, PendingInv, After, Updating
<1>7. ASSUME NEW then \in {"idle", "emergency"}, DropDeadline(then) PROVE PendingInv'
  BY <1>7, <1>n DEF DropDeadline, After, Updating
<1>8. CASE Session
  BY <1>4, <1>5, <1>6, <1>7, <1>8 DEF Session, ReturnKey, ReturnLimit
<1>9. CASE \E k \in Keys : key_check_2(k)
  BY <1>9, <1>n DEF key_check_2, CheckRemoved, CheckReturned, After, Updating
<1>10. CASE Menu \/ Registration
  BY <1>10, <1>n DEF Menu, StartMenu, Registration, RegisterKey, AddKey, MenuEnd, CreateEvents,
                     create_keyevents, After, Updating
<1>11. ASSUME NEW named \in SUBSET Keys, KeyCommand(named) PROVE PendingInv'
  <2>1. After' = pc /\ After = pc /\ UNCHANGED <<cur, given, taking, status, keys, excused>>
    BY <1>11 DEF KeyCommand, After, Polled
  <2>2. \A k \in Keys : mem'[k] \in {mem[k], keys[k]}
    BY <1>11 DEF KeyCommand
  <2> QED
    BY <1>0, <2>1, <2>2 DEF PendingInv, Updating
<1>12. CASE Emergency
  <2>1. CASE EmergencyReturnLimit
    BY <1>7, <2>1 DEF EmergencyReturnLimit
  <2>2. CASE \E k \in Keys : EmergencyReturn(k)
    BY <1>6, <2>2 DEF EmergencyReturn
  <2>3. CASE ~ (EmergencyReturnLimit \/ \E k \in Keys : EmergencyReturn(k))
    BY <1>12, <1>n, <2>3 DEF Emergency, EmergencyStart, EmergencyEnter, EmergencyRelease,
      EmergencyTake, EmergencyEsc, EmergencyEnd, After, Updating
  <2> QED
    BY <2>1, <2>2, <2>3
<1>13. CASE AnyReset \/ BootService \/ BootRestore
  BY <1>13, <1>n DEF AnyReset, Reset, ResetInKeys, ResetInEvents, Boot, BootService,
                     create_keyevents, BootRestore, After, Updating
<1> QED
  BY <1>1, <1>2, <1>3, <1>8, <1>9, <1>10, <1>11, <1>12, <1>13 DEF Next

-----------------------------------------------------------------------------
(* The deadlines.  First the steps of a session and the emergency access   *)
(* that deal with one slot: the others keep what they have.                *)
LEMMA OthersKept ==
  ASSUME IInv, NEW c \in Keys, NEW k \in Keys \ excused, k # c,
         pc \in {"idle", "emergency", "limit", "return", "erg_return"},
         pc \in Updating => cur = c,
         After' \notin {"boot", "restore", "register", "registered"},
         UNCHANGED <<keys, events>>,
         mem'[k] = mem[k], taking'[k] = taking[k], limit'[k] = limit[k], status'[k] = status[k]
  PROVE  Settled(k)'
<1>1. After = pc /\ Settled(k)
  BY DEF IInv, DeadlineInv, Pending, After
<1> QED
  BY <1>1 DEF Settled, DueInv, ClosedInv, LimitInv, RegisteredInv

LEMMA GiveBackDeadline ==
  ASSUME IInv, NEW c \in Keys, pc \in {"idle", "emergency"},
         NEW then \in {"return", "erg_return"}, GiveBack(c, then)
  PROVE  DeadlineInv'
<1>1. /\ After' = then /\ cur' = c /\ UNCHANGED <<keys, events, mem, limit, taking, excused>>
      /\ \A k \in Keys \ {c} : status'[k] = status[k]
  BY DEF GiveBack, After, Write, flash, history, IInv, TypeOK
<1>2. ASSUME NEW k \in Keys \ excused, k # c PROVE Settled(k)'
  BY <1>1, <1>2, OthersKept DEF Updating
<1> QED
  BY <1>1, <1>2 DEF DeadlineInv, Pending, Updating

LEMMA DropDeadlineDeadline ==
  ASSUME IInv, pc \in Updating, NEW then \in {"idle", "emergency"}, DropDeadline(then)
  PROVE  DeadlineInv'
<1>1. /\ After = pc /\ After' = then /\ cur \in Keys /\ cur' = cur
      /\ UNCHANGED <<keys, events, status>>
      /\ mem' = [mem EXCEPT ![cur] = [keys[cur] EXCEPT !.due = 0]]
      /\ limit' = [limit EXCEPT ![cur] = 0] /\ taking' = [taking EXCEPT ![cur] = 0]
      /\ keys[cur].due # 0 => pc' = "write_keys"
      /\ excused' = excused \ {cur}
  BY DEF DropDeadline, After, Write, flash, IInv, PendingInv, Updating
<1>2. mem'[cur].due = 0 /\ limit'[cur] = 0 /\ taking'[cur] = 0
  BY <1>1, DueType, DeadlinesType DEF IInv, TypeOK
<1>3. ASSUME NEW k \in Keys, k = cur PROVE Settled(k)'
  BY <1>1, <1>2, <1>3 DEF Settled, DueInv, ClosedInv, LimitInv, RegisteredInv
<1>4. ASSUME NEW k \in Keys \ excused', k # cur PROVE Settled(k)'
  <2>1. k \notin excused /\ mem'[k] = mem[k] /\ limit'[k] = limit[k] /\ taking'[k] = taking[k]
    BY <1>1, <1>4 DEF IInv, TypeOK
  <2> QED
    BY <1>1, <1>4, <2>1, OthersKept DEF Updating
<1> QED
  BY <1>3, <1>4 DEF DeadlineInv

LEMMA SessionDeadline == IInv /\ Session => DeadlineInv'
<1> SUFFICES ASSUME IInv, Session PROVE DeadlineInv'
  OBVIOUS
<1> USE DEF world, flash, erg, control, history, Write
<1>0. TypeOK /\ DeadlineInv /\ EventsInv /\ PendingInv
  BY DEF IInv
<1>1. ASSUME NEW c \in Keys, NEW limited \in BOOLEAN, TakeKey(c, limited) PROVE DeadlineInv'
  <2> SUFFICES ASSUME NEW k \in Keys \ excused, k # c PROVE Settled(k)'
    BY <1>1 DEF TakeKey, DeadlineInv, Pending, After, Updating
  <2>1. /\ pc = "idle" /\ After' = "limit" /\ UNCHANGED <<keys, events, mem, limit>>
        /\ taking'[k] = taking[k] /\ status'[k] = status[k]
    BY <1>0, <1>1 DEF TakeKey, After, TypeOK
  <2> QED
    BY <2>1, OthersKept DEF Updating
<1>2. CASE TakeLimit
  <2> DEFINE due == IF given > 0 THEN given ELSE keys[cur].due
  <2>1. /\ pc = "limit" /\ After = "limit" /\ After' = "idle" /\ cur \in Keys
        /\ UNCHANGED <<keys, events, status, taking, cur>>
        /\ mem' = [mem EXCEPT ![cur] = [keys[cur] EXCEPT !.due = due]]
        /\ limit' = [limit EXCEPT ![cur] = given]
        /\ given > 0 => pc' = "write_keys"
    BY <1>0, <1>2 DEF TakeLimit, After, PendingInv, Updating
  <2>2. due \in Deadlines
    BY <1>0, <2>1, DeadlinesType DEF TypeOK, KeyRecord
  <2>3. mem'[cur].due = due /\ limit'[cur] = given
    BY <1>0, <2>1, <2>2, DueType DEF TypeOK
  <2>4. excused' = IF due = given THEN excused \ {cur} ELSE excused
    BY <1>2, <2>3 DEF TakeLimit
  <2>5. given = taking[cur] /\ status[cur] = "OPEN" /\ events = status
    BY <1>0, <2>1 DEF PendingInv, EventsInv
  <2>6. ASSUME NEW k \in Keys \ excused', k = cur PROVE Settled(k)'
    <3>1. due = given
      BY <1>0, <2>1, <2>4, <2>6, DeadlinesType DEF PendingInv, TypeOK
    <3>2. DueInv(k)'
      BY <1>0, <2>1, <2>3, <2>5, <2>6, <3>1 DEF DueInv, TypeOK
    <3> QED
      BY <2>1, <2>3, <2>5, <2>6, <3>2 DEF Settled, ClosedInv, LimitInv, RegisteredInv
  <2>7. ASSUME NEW k \in Keys \ excused', k # cur PROVE Settled(k)'
    <3>1. k \notin excused /\ mem'[k] = mem[k] /\ limit'[k] = limit[k]
      BY <1>0, <2>1, <2>4, <2>7 DEF TypeOK
    <3> QED
      BY <2>1, <2>7, <3>1, OthersKept
  <2> QED
    BY <2>6, <2>7 DEF DeadlineInv
<1>3. ASSUME NEW c \in Keys, ReturnKey(c) PROVE DeadlineInv'
  BY <1>3, GiveBackDeadline DEF ReturnKey
<1>4. CASE ReturnLimit
  BY <1>4, DropDeadlineDeadline DEF ReturnLimit, Updating
<1> QED
  BY <1>1, <1>2, <1>3, <1>4 DEF Session

LEMMA EmergencyDeadline == IInv /\ Emergency => DeadlineInv'
<1> SUFFICES ASSUME IInv, Emergency PROVE DeadlineInv'
  OBVIOUS
<1> USE DEF world, flash, erg, control, history, Write
<1>0. TypeOK /\ DeadlineInv
  BY DEF IInv
<1>1. CASE EmergencyStart \/ EmergencyRelease \/ EmergencyEsc \/ EmergencyEnd
           \/ \E k \in Keys : EmergencyEnter(k)
  <2>1. /\ After \in {"idle", "emergency"} /\ After' \in {"idle", "emergency"}
        /\ pc # "write_keys" /\ pc' # "write_keys"
        /\ UNCHANGED <<keys, events, status, mem, limit, taking, excused>>
    BY <1>1 DEF EmergencyStart, EmergencyRelease, EmergencyEsc, EmergencyEnd, EmergencyEnter,
                After
  <2> QED
    BY <1>0, <2>1 DEF DeadlineInv, Pending, Updating, Settled, DueInv, ClosedInv, LimitInv,
                      RegisteredInv
<1>2. CASE EmergencyTake
  <2> PICK c \in Keys : c = entered
    BY <1>0, <1>2 DEF EmergencyTake, TypeOK
  <2>1. /\ pc = "emergency" /\ After' = "emergency" /\ status[c] = "CLOSED"
        /\ UNCHANGED <<keys, events, mem, excused>>
        /\ status' = [status EXCEPT ![c] = "OPEN"] /\ limit' = [limit EXCEPT ![c] = 0]
        /\ taking' = [taking EXCEPT ![c] = 0]
    BY <1>2 DEF EmergencyTake, After
  <2>2. ASSUME NEW k \in Keys \ excused, k = c PROVE Settled(k)'
    <3>1. DueInv(k) /\ taking[k] = 0 /\ taking'[k] = 0 /\ limit'[k] = 0
      BY <1>0, <2>1, <2>2 DEF DeadlineInv, Pending, After, Updating, Settled, ClosedInv, TypeOK
    <3> QED
      BY <2>1, <2>2, <3>1 DEF Settled, DueInv, ClosedInv, LimitInv, RegisteredInv
  <2>3. ASSUME NEW k \in Keys \ excused, k # c PROVE Settled(k)'
    <3>1. taking'[k] = taking[k] /\ limit'[k] = limit[k] /\ status'[k] = status[k]
      BY <1>0, <2>1, <2>3 DEF TypeOK
    <3> QED
      BY <2>1, <2>3, <3>1, OthersKept DEF Updating
  <2> QED
    BY <2>1, <2>2, <2>3 DEF DeadlineInv
<1>3. ASSUME NEW c \in Keys, EmergencyReturn(c) PROVE DeadlineInv'
  BY <1>3, GiveBackDeadline DEF EmergencyReturn
<1>4. CASE EmergencyReturnLimit
  BY <1>4, DropDeadlineDeadline DEF EmergencyReturnLimit, Updating
<1> QED
  BY <1>1, <1>2, <1>3, <1>4 DEF Emergency

(* The check between sessions and the menus: what leaves a deadline behind *)
(* excuses its slot.                                                       *)
LEMMA CreateDeadline ==
  ASSUME IInv, NEW then, create_keyevents(then),
         \/ pc = "registered" /\ then = "idle"
         \/ pc = "boot" /\ then = "restore"
  PROVE  DeadlineInv'
<1>1. /\ After = pc /\ After' = then /\ pc' = "write_events"
      /\ UNCHANGED <<keys, events, mem, limit, taking>>
      /\ excused' = excused \union WithDeadline({k \in Keys : slot[k] # None})
      /\ status' = Presence(slot)
  BY DEF create_keyevents, Write, After, flash
<1> SUFFICES ASSUME NEW k \in Keys \ excused' PROVE Settled(k)'
  BY DEF DeadlineInv
<1>2. Settled(k) /\ k \notin WithDeadline({j \in Keys : slot[j] # None})
  BY <1>1 DEF IInv, DeadlineInv, Pending, Updating
<1>3. DueInv(k)'
  BY <1>1, <1>2 DEF Settled, DueInv
<1>4. ClosedInv(k)'
  BY <1>1, <1>2 DEF Settled, DueInv, ClosedInv, Presence, WithDeadline
<1>5. LimitInv(k)'
  BY <1>1, <1>2 DEF Settled, LimitInv, RegisteredInv
<1> QED
  BY <1>1, <1>3, <1>4, <1>5 DEF Settled, RegisteredInv

LEMMA RegistrationDeadline ==
  IInv /\ ((\E k \in Keys : key_check_2(k)) \/ Menu \/ Registration) => DeadlineInv'
<1> SUFFICES ASSUME IInv, (\E k \in Keys : key_check_2(k)) \/ Menu \/ Registration
             PROVE  DeadlineInv'
  OBVIOUS
<1> USE DEF world, flash, erg, control, history, Write
<1>0. TypeOK /\ DeadlineInv
  BY DEF IInv
<1>1. ASSUME NEW c \in Keys, key_check_2(c) PROVE DeadlineInv'
  <2>1. /\ pc = "idle" /\ After' = "idle" /\ status[c] # "FF"
        /\ UNCHANGED <<keys, events, mem, limit, taking>>
        /\ excused \subseteq excused'
        /\ \/ status' = [status EXCEPT ![c] = "OPEN"]
           \/ /\ status' = [status EXCEPT ![c] = "CLOSED"]
              /\ WithDeadline({c}) \subseteq excused'
    BY <1>1 DEF key_check_2, CheckRemoved, CheckReturned, After
  <2>2. ASSUME NEW k \in Keys \ excused', k = c PROVE Settled(k)'
    <3>1. Settled(k)
      BY <1>0, <2>1, <2>2 DEF DeadlineInv, Pending, After, Updating
    <3>2. status'[k] = "CLOSED" => mem[k].due = 0
      BY <1>0, <2>1, <2>2 DEF WithDeadline, TypeOK
    <3>3. limit[k] = taking[k]
      BY <2>1, <2>2, <3>1 DEF Settled, LimitInv, After
    <3> QED
      BY <2>1, <3>1, <3>2, <3>3 DEF Settled, DueInv, ClosedInv, LimitInv, RegisteredInv
  <2>3. ASSUME NEW k \in Keys \ excused', k # c PROVE Settled(k)'
    BY <1>0, <2>1, <2>3, OthersKept DEF TypeOK, Updating
  <2> QED
    BY <2>2, <2>3 DEF DeadlineInv
<1>2. CASE Menu
  <2>1. /\ pc = "idle" /\ After = "idle" /\ After' \in {"register", "add"} /\ cur' = 0
        /\ pc' # "write_keys"
        /\ UNCHANGED <<keys, events, status, mem, limit, taking, excused>>
    BY <1>2 DEF Menu, StartMenu, After
  <2>2. \A k \in Keys : ~ (k < 0)
    BY ConstantsType DEF Keys
  <2> QED
    BY <1>0, <2>1, <2>2 DEF DeadlineInv, Pending, Updating, Settled, DueInv, ClosedInv,
                            LimitInv, RegisteredInv
<1>3. ASSUME NEW f, NEW due, Register(f, due), cur \in Keys, due \in {0, mem[cur].due},
             pc \in {"register", "add"}, pc' = pc, cur' = cur + 1,
             UNCHANGED <<keys, events, status, limit, taking>>
      PROVE  DeadlineInv'
  <2>1. /\ After = pc /\ After' = pc
        /\ mem' = [mem EXCEPT ![cur] = [fob |-> f, due |-> due]]
        /\ excused' = excused \union WithDeadline({cur})
    BY <1>3 DEF Register, After
  <2> SUFFICES ASSUME NEW k \in Keys \ excused' PROVE Settled(k)'
    BY DEF DeadlineInv
  <2>2. Settled(k) /\ (k = cur => limit[k] = 0 /\ mem[k].due = 0)
    BY <1>0, <1>3, <2>1 DEF DeadlineInv, Pending, Updating, WithDeadline
  <2>3. mem'[k].due = mem[k].due
    BY <1>0, <1>3, <2>1, <2>2 DEF TypeOK
  <2>4. k < cur + 1 => k < cur \/ k = cur
    BY <1>0, ConstantsType DEF TypeOK, Keys
  <2> QED
    BY <1>3, <2>1, <2>2, <2>3, <2>4 DEF Settled, DueInv, ClosedInv, LimitInv, RegisteredInv
<1>4. CASE RegisterKey
  <2>1. cur \in Keys
    BY <1>0, <1>4, ConstantsType DEF RegisterKey, TypeOK, Keys
  <2> QED
    BY <1>3, <1>4, <2>1 DEF RegisterKey
<1>5. CASE AddKey
  <2>1. cur \in Keys /\ pc = "add" /\ pc' = pc /\ cur' = cur + 1
        /\ UNCHANGED <<keys, events, status, limit, taking>>
    BY <1>0, <1>5, ConstantsType DEF AddKey, TypeOK, Keys
  <2>2. CASE Register(seen[cur], mem[cur].due)
    BY <1>3, <2>1, <2>2
  <2>3. CASE UNCHANGED <<org, mem, overtaken, excused>>
    BY <1>0, <2>1, <2>3 DEF DeadlineInv, Pending, After, Updating, Settled, DueInv, ClosedInv,
                            LimitInv, RegisteredInv
  <2> QED
    BY <1>5, <2>2, <2>3 DEF AddKey
<1>6. CASE MenuEnd
  <2>1. /\ After = pc /\ cur = MAX_KEYS /\ After' \in {"registered", "idle"}
        /\ pc = "add" => After' = "idle"
        /\ UNCHANGED <<keys, events, status, mem, limit, taking, excused>>
        /\ pc \in {"register", "add"}
    BY <1>6 DEF MenuEnd, After
  <2>2. \A k \in Keys : k < MAX_KEYS
    BY ConstantsType DEF Keys
  <2> QED
    BY <1>0, <2>1, <2>2 DEF DeadlineInv, Pending, Updating, Settled, DueInv, ClosedInv,
                            LimitInv, RegisteredInv
<1>7. CASE CreateEvents
  BY <1>7, CreateDeadline DEF CreateEvents
<1> QED
  BY <1>1, <1>2, <1>4, <1>5, <1>6, <1>7 DEF Registration

(* Commands, sector writes and resets: memory and flash have the same      *)
(* deadlines but for the slot whose record is being written.               *)
LEMMA WriteDeadline ==
  IInv /\ ((\E named \in SUBSET Keys : KeyCommand(named)) \/ WriteKeys \/ WriteEvents)
    => DeadlineInv'
<1> SUFFICES ASSUME IInv,
                    (\E named \in SUBSET Keys : KeyCommand(named)) \/ WriteKeys \/ WriteEvents
             PROVE  DeadlineInv'
  OBVIOUS
<1> USE DEF world, flash, erg, control, history, Write
<1>0. TypeOK /\ DeadlineInv
  BY DEF IInv
<1>1. ASSUME NEW named \in SUBSET Keys, KeyCommand(named) PROVE DeadlineInv'
  <2>1. /\ After = pc /\ After' = pc /\ pc # "write_keys" /\ pc' = "write_keys"
        /\ UNCHANGED <<keys, events, status, cur, limit, taking, excused>>
        /\ \A k \in Keys : mem'[k] \in {mem[k], keys[k]}
    BY <1>1 DEF KeyCommand, After, Polled
  <2> QED
    BY <1>0, <2>1 DEF DeadlineInv, Pending, Updating, Settled, DueInv, ClosedInv, LimitInv,
                      RegisteredInv
<1>2. CASE WriteKeys
  <2>1. After' = After
    BY <1>0, <1>2 DEF WriteKeys, After, TypeOK, Polled
  <2> QED
    BY <1>0, <1>2, <2>1 DEF WriteKeys, DeadlineInv, Pending, Updating, Settled, DueInv,
                            ClosedInv, LimitInv, RegisteredInv
<1>3. CASE WriteEvents
  <2>1. After' = After
    BY <1>0, <1>3 DEF WriteEvents, After, TypeOK, Polled
  <2> QED
    BY <1>0, <1>3, <2>1 DEF WriteEvents, DeadlineInv, Pending, Updating, Settled, DueInv,
                            ClosedInv, LimitInv, RegisteredInv
<1> QED
  BY <1>1, <1>2, <1>3

LEMMA ResetDeadline == IInv /\ (AnyReset \/ BootService \/ BootRestore) => DeadlineInv'
<1> SUFFICES ASSUME IInv, AnyReset \/ BootService \/ BootRestore PROVE DeadlineInv'
  OBVIOUS
<1> USE DEF world, flash, erg, control, history, Write
<1>0. TypeOK /\ DeadlineInv /\ EventsInv
  BY DEF IInv
<1>1. ASSUME NEW k2, NEW e2, Boot(k2, e2), excused \union Torn \subseteq excused',
             \A k \in Keys \ excused' : k2[k].due \in {keys[k].due, mem[k].due},
             \A k \in Keys : e2[k] = "CLOSED" => "CLOSED" \in {events[k], status[k]}
      PROVE  DeadlineInv'
  <2> SUFFICES ASSUME NEW k \in Keys \ excused' PROVE Settled(k)'
    BY DEF DeadlineInv
  <2>1. /\ After' = "boot" /\ mem' = k2 /\ keys' = k2 /\ status' = e2 /\ events' = e2
        /\ taking' = taking
    BY <1>1 DEF Boot, After
  <2>2. k \notin excused /\ k \notin Torn
    BY <1>1
  <2>3. ~ Pending(k) /\ ~ (pc = "write_keys" /\ k = cur)
    BY <2>2 DEF Torn, Pending, Updating
  <2>4. Settled(k)
    BY <1>0, <2>2, <2>3 DEF DeadlineInv
  <2>5. k2[k].due = taking[k]
    BY <1>1, <2>3, <2>4 DEF Settled, DueInv
  <2>6. e2[k] = "CLOSED" => taking[k] = 0
    BY <1>1, <2>4 DEF Settled, ClosedInv
  <2> QED
    BY <2>1, <2>5, <2>6 DEF Settled, DueInv, ClosedInv, LimitInv, RegisteredInv
<1>2. CASE Reset
  BY <1>1, <1>2 DEF Reset
<1>3. ASSUME NEW n \in 0 .. MAX_KEYS, ResetInKeys(n) PROVE DeadlineInv'
  <2>1. \A k \in Keys \ excused' : k < n
    BY <1>3, ConstantsType DEF ResetInKeys, Keys
  <2> QED
    BY <1>1, <1>3, <2>1 DEF ResetInKeys, CutFrom
<1>4. ASSUME NEW n \in 0 .. MAX_KEYS, ResetInEvents(n) PROVE DeadlineInv'
  BY <1>1, <1>4 DEF ResetInEvents, CutFrom
<1>5. CASE BootService
  BY <1>5, CreateDeadline DEF BootService
<1>6. CASE BootRestore
  <2>1. /\ pc \in {"boot", "restore"} /\ After = pc /\ After' = "idle" /\ pc' # "write_keys"
        /\ UNCHANGED <<keys, events, status, mem, taking, excused>>
        /\ \A k \in Keys : limit'[k] = IF status[k] = "OPEN" THEN mem[k].due ELSE 0
    BY <1>6 DEF BootRestore, After
  <2> SUFFICES ASSUME NEW k \in Keys \ excused PROVE Settled(k)'
    BY <2>1 DEF DeadlineInv
  <2>2. Settled(k)
    BY <1>0, <2>1 DEF DeadlineInv, Pending, Updating
  <2>3. status[k] \in {"CLOSED", "OPEN", "FF"}
    BY <1>0 DEF TypeOK, Status
  <2> QED
    BY <2>1, <2>2, <2>3 DEF Settled, DueInv, ClosedInv, LimitInv, RegisteredInv
<1> QED
  BY <1>2, <1>3, <1>4, <1>5, <1>6 DEF AnyReset

LEMMA DeadlineStep == IInv /\ [Next]_vars => DeadlineInv'
<1>1. ASSUME IInv, (\E k \in Keys, f \in Fob : Move(k, f)) \/ UNCHANGED vars
      PROVE  DeadlineInv'
  <2>1. UNCHANGED <<pc, next, cur, keys, events, status, mem, limit, taking, excused>>
    BY <1>1 DEF Move, vars, flash, control, history
  <2> QED
    BY <1>1, <2>1 DEF IInv, DeadlineInv, Pending, After, Settled, DueInv, ClosedInv,
                      LimitInv, RegisteredInv
<1> QED
  BY <1>1, SessionDeadline, EmergencyDeadline, RegistrationDeadline, WriteDeadline,
     ResetDeadline DEF Next

-----------------------------------------------------------------------------
LEMMA InitIInv == Init => IInv
<1> SUFFICES ASSUME Init PROVE IInv
  OBVIOUS
<1>1. /\ mem = [k \in Keys |-> [fob |-> slot[k], due |-> 0]] /\ keys = mem /\ org = slot
      /\ events = status /\ limit = [k \in Keys |-> 0] /\ taking = [k \in Keys |-> 0]
      /\ pc = "idle" /\ After = "idle"
  BY DEF Init, After
<1>2. FobsInv /\ EventsInv /\ PendingInv
  BY <1>1 DEF FobsInv, EventsInv, PendingInv, Updating
<1>3. DeadlineInv
  BY <1>1 DEF DeadlineInv, Settled, DueInv, ClosedInv, LimitInv, RegisteredInv
<1> QED
  BY <1>2, <1>3, InitType DEF IInv

THEOREM Invariance == Spec => []IInv
<1>1. IInv /\ [Next]_vars => IInv'
  BY NextType, FobsStep, EventsStep, PendingStep, DeadlineStep DEF IInv
<1> QED
  BY <1>1, InitIInv, PTL DEF Spec

(* What the checks go by is what a restart brings back, for every cabinet. *)
THEOREM RegistrationCorrect == Spec => []RegistrationDurable
<1>1. IInv => RegistrationDurable
  BY DEF IInv, FobsInv, RegistrationDurable
<1> QED
  BY <1>1, Invariance, PTL

(* A fob that is out has the deadline of its own taking, for every cabinet *)
(* and any number of takings, menus, commands and resets.                  *)
THEOREM DeadlineCorrect == Spec => []DeadlineOfTaking
<1>1. IInv => DeadlineOfTaking
  BY DEF IInv, DeadlineInv, Pending, After, Updating, Settled, DueInv, LimitInv,
         DeadlineOfTaking
<1> QED
  BY <1>1, Invariance, PTL

=============================================================================
