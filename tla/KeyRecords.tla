------------------------------ MODULE KeyRecords ------------------------------
(***************************************************************************)
(* The records of the key slots: which fob belongs to each (key1_t and     *)
(* org_key_data), whether it is out (key_events_t) and until when          *)
(* (KeyTask_TimeLimit and task_removal_time).  Sessions, the check between *)
(* sessions, the registration menus, the emergency access and the commands *)
(* of the server all change them, and each change writes all the records   *)
(* of a kind: the sector is erased and then written from memory.           *)
(*                                                                         *)
(* There is one thread.  It polls the server's commands while it waits, so *)
(* they fall between the steps of a menu; a sector write is not            *)
(* interrupted but by a reset.  The bytes of a fob are its family code and *)
(* a serial no other fob shares a byte of.                                 *)
(***************************************************************************)
EXTENDS Integers, FiniteSets

CONSTANTS
  MAX_KEYS,   \* slots
  Fobs,
  DS1990,     \* the fobs of one family code; the others have another one
  MAX_MOVES, MAX_TAKES, MAX_MENUS, MAX_COMMANDS, MAX_RESETS \* bounds of the model

None == "none"
ASSUME KeysAssumption == MAX_KEYS \in Nat \ {0}
ASSUME FobsAssumption == None \notin Fobs /\ DS1990 \subseteq Fobs
ASSUME BoundsAssumption ==
  {MAX_MOVES, MAX_TAKES, MAX_MENUS, MAX_COMMANDS, MAX_RESETS} \subseteq Nat

VARIABLES
  slot,     \* the fob in each slot
  solenoid, \* the slots the emergency access has released
  seen,     \* ibutton_value of the scan a menu works on
  org,      \* org_key_data: the fob registered for each slot
  mem,      \* key1_t
  keys,     \* KEY_BLOCK
  status,   \* key_events_t[].status
  events,   \* the same in KEYS_EVNT_BLOCK
  limit,    \* KeyTask_TimeLimit
  pc, next, \* where the thread is, and where it goes on after a write
  cur,      \* the slot its step is about
  given,    \* the deadline of the taking, 0 for none
  entered,  \* key_entered of the emergency access
  taking,   \* history: the deadline of each slot's taking, 0 for none
  overtaken, \* history: slots whose registration a command has read over
  excused,  \* history: slots whose deadline was not cleared, or cut by a reset
  moves, takes, menus, commands, resets \* bounds

world   == <<slot, moves>>
flash   == <<keys, events>>
control == <<pc, next, cur>>
erg     == <<solenoid, entered>>
history == <<taking, overtaken, excused>>
bounds  == <<takes, menus, commands, resets>>
vars == <<world, erg, seen, org, mem, flash, status, limit, control, given,
          history, bounds>>

Keys == 0 .. MAX_KEYS - 1
FF    == -1 \* an erased word: as a deadline, 0xFFFFFFFF
NoKey == -1
Deadlines == FF .. MAX_TAKES
Fob  == Fobs \union {None}
Status == {"CLOSED", "OPEN", "FF"}

(* A key1_t record, and what an erased one reads as.                       *)
KeyRecord == [fob : Fob, due : Deadlines]
Blank == [fob |-> None, due |-> FF]

(* Where the thread polls the server.                                      *)
Polled == {"idle", "register", "registered", "add", "limit", "return",
           "emergency", "erg_return"}
Locations == Polled \union {"write_keys", "write_events", "boot", "restore"}

TypeOK ==
  /\ slot \in [Keys -> Fob] /\ seen \in [Keys -> Fob] /\ org \in [Keys -> Fob]
  /\ solenoid \subseteq Keys
  /\ mem \in [Keys -> KeyRecord] /\ keys \in [Keys -> KeyRecord]
  /\ status \in [Keys -> Status] /\ events \in [Keys -> Status]
  /\ limit \in [Keys -> Deadlines]
  /\ pc \in Locations /\ next \in Polled \union {"restore"}
  /\ cur \in 0 .. MAX_KEYS /\ given \in 0 .. MAX_TAKES
  /\ entered \in Keys \union {NoKey}
  /\ taking \in [Keys -> 0 .. MAX_TAKES]
  /\ overtaken \subseteq Keys /\ excused \subseteq Keys
  /\ moves \in 0 .. MAX_MOVES /\ takes \in 0 .. MAX_TAKES
  /\ menus \in 0 .. MAX_MENUS /\ commands \in 0 .. MAX_COMMANDS
  /\ resets \in 0 .. MAX_RESETS

(* What create_keyevents makes of a scan.  PresenceSensed is a variant     *)
(* that takes an empty slot for one that is not sensed.                    *)
PresenceSensed(scan) ==
  [k \in Keys |-> IF scan[k] = None THEN "NOT_FOUND" ELSE "CLOSED"]
Presence(scan) == [k \in Keys |-> IF scan[k] = None THEN "OPEN" ELSE "CLOSED"]

(* After total_register and create_keyevents, with some slots empty.       *)
Init ==
  /\ slot \in [Keys -> Fob]
  /\ \A j, k \in Keys : j # k /\ slot[j] = slot[k] => slot[j] = None
  /\ org = slot /\ seen = [k \in Keys |-> None] /\ solenoid = {}
  /\ mem = [k \in Keys |-> [fob |-> slot[k], due |-> 0]] /\ keys = mem
  /\ status = Presence(slot) /\ events = status
  /\ limit = [k \in Keys |-> 0]
  /\ pc = "idle" /\ next = "idle" /\ cur = 0 /\ given = 0 /\ entered = NoKey
  /\ taking = [k \in Keys |-> 0] /\ overtaken = {} /\ excused = {}
  /\ moves = 0 /\ takes = 0 /\ menus = 0 /\ commands = 0 /\ resets = 0

-----------------------------------------------------------------------------
(* People move fobs at any moment, locked ones by force.                   *)
In(f) == \E k \in Keys : slot[k] = f
Move(k, f) ==
  /\ moves < MAX_MOVES /\ moves' = moves + 1
  /\ slot[k] # f /\ None \in {slot[k], f} /\ (f # None => ~ In(f))
  /\ slot' = [slot EXCEPT ![k] = f]
  /\ UNCHANGED <<erg, seen, org, mem, flash, status, limit, control, given,
                 taking, overtaken, excused, bounds>>

(* write_key_sd and write_keyevents_sd, to their end.                      *)
Write(sector, then) == pc' = sector /\ next' = then
After == IF pc \in {"write_keys", "write_events"} THEN next ELSE pc
WriteKeys ==
  /\ pc = "write_keys" /\ pc' = next
  /\ keys' = mem
  /\ UNCHANGED <<world, erg, seen, org, mem, events, status, limit, next, cur,
                 given, history, bounds>>
WriteEvents ==
  /\ pc = "write_events" /\ pc' = next
  /\ events' = status
  /\ UNCHANGED <<world, erg, seen, org, mem, keys, status, limit, next, cur, given,
                 history, bounds>>

(* Slots that still have a deadline, in memory or in flash.                *)
WithDeadline(S) == {k \in S : limit[k] # 0 \/ mem[k].due # 0}

-----------------------------------------------------------------------------
(* user_mykee_task: a fob is taken in a session.  update_key_log writes    *)
(* the event record, and after the log of the event, which polls, the      *)
(* deadline goes into memory and into the key record.                      *)
TakeKey(k, limited) ==
  /\ pc = "idle" /\ takes < MAX_TAKES /\ takes' = takes + 1
  /\ org[k] # None /\ slot[k] = org[k] /\ status[k] = "CLOSED"
  /\ slot' = [slot EXCEPT ![k] = None]
  /\ status' = [status EXCEPT ![k] = "OPEN"] /\ Write("write_events", "limit")
  /\ cur' = k /\ given' = IF limited THEN takes' ELSE 0
  /\ taking' = [taking EXCEPT ![k] = given']
  /\ UNCHANGED <<moves, erg, seen, org, mem, flash, limit, overtaken, excused,
                 menus, commands, resets>>
TakeLimit ==
  /\ pc = "limit"
  /\ limit' = [limit EXCEPT ![cur] = given] /\ given' = 0
  /\ mem' = [mem EXCEPT ![cur] =
               [keys[cur] EXCEPT !.due = IF given > 0 THEN given ELSE @]]
  /\ IF given > 0 THEN Write("write_keys", "idle") ELSE pc' = "idle" /\ UNCHANGED next
  /\ excused' = IF mem'[cur].due = given THEN excused \ {cur} ELSE excused
  /\ UNCHANGED <<world, erg, seen, org, flash, status, cur, taking, overtaken,
                 bounds>>

(* A fob is back, in a session or in the emergency access: first the event *)
(* record, then the deadline, in flash only when there is one.             *)
GiveBack(k, then) ==
  /\ status[k] = "OPEN" /\ slot[k] = org[k]
  /\ status' = [status EXCEPT ![k] = "CLOSED"] /\ Write("write_events", then)
  /\ cur' = k
  /\ UNCHANGED <<world, erg, seen, org, mem, flash, limit, given, history, bounds>>
(* DropDeadlineKeeps is a variant that clears it in memory only.           *)
DropDeadlineKeeps(then) ==
  /\ limit' = [limit EXCEPT ![cur] = 0] /\ taking' = [taking EXCEPT ![cur] = 0]
  /\ mem' = [mem EXCEPT ![cur] = keys[cur]] /\ pc' = then
  /\ excused' = excused \ {cur}
  /\ UNCHANGED <<world, erg, seen, org, flash, status, next, cur, given, overtaken, bounds>>
DropDeadline(then) ==
  /\ limit' = [limit EXCEPT ![cur] = 0] /\ taking' = [taking EXCEPT ![cur] = 0]
  /\ mem' = [mem EXCEPT ![cur] = [keys[cur] EXCEPT !.due = 0]]
  /\ IF keys[cur].due # 0 THEN Write("write_keys", then) ELSE pc' = then /\ UNCHANGED next
  /\ excused' = excused \ {cur}
  /\ UNCHANGED <<world, erg, seen, org, flash, status, cur, given, overtaken,
                 bounds>>
ReturnKey(k) == pc = "idle" /\ org[k] # None /\ GiveBack(k, "return")
ReturnLimit  == pc = "return" /\ DropDeadline("idle")

Session ==
  \/ \E k \in Keys, limited \in BOOLEAN : TakeKey(k, limited)
  \/ \E k \in Keys : ReturnKey(k)
  \/ TakeLimit \/ ReturnLimit

(* key_check_2, between sessions: a registered fob that is not in its slot *)
(* is logged as removed, one that is back as returned; the deadline stays. *)
CheckRemoved(k) ==
  /\ pc = "idle" /\ org[k] # None /\ status[k] = "CLOSED" /\ slot[k] # org[k]
  /\ status' = [status EXCEPT ![k] = "OPEN"] /\ Write("write_events", "idle")
  /\ UNCHANGED <<world, erg, seen, org, mem, flash, limit, cur, given, taking, overtaken,
                 excused, bounds>>
(* CheckReturnedAny is a variant that takes any fob for the right one.     *)
CheckReturnedAny(k) ==
  /\ pc = "idle" /\ org[k] # None /\ status[k] = "OPEN" /\ slot[k] # None
  /\ status' = [status EXCEPT ![k] = "CLOSED"] /\ Write("write_events", "idle")
  /\ excused' = excused \union WithDeadline({k})
  /\ UNCHANGED <<world, erg, seen, org, mem, flash, limit, cur, given, taking, overtaken, bounds>>
CheckReturned(k) ==
  /\ pc = "idle" /\ org[k] # None /\ status[k] = "OPEN" /\ slot[k] = org[k]
  /\ status' = [status EXCEPT ![k] = "CLOSED"] /\ Write("write_events", "idle")
  /\ excused' = excused \union WithDeadline({k})
  /\ UNCHANGED <<world, erg, seen, org, mem, flash, limit, cur, given, taking, overtaken, bounds>>
key_check_2(k) == CheckRemoved(k) \/ CheckReturned(k)

-----------------------------------------------------------------------------
(* The registration menus.  Both scan once, then go through the slots; the *)
(* log and the display of a slot poll before it is registered.             *)
StartMenu(menu) ==
  /\ pc = "idle" /\ menus < MAX_MENUS /\ menus' = menus + 1
  /\ pc' = menu /\ seen' = slot /\ cur' = 0
  /\ UNCHANGED <<world, erg, org, mem, flash, status, limit, next, given, history,
                 takes, commands, resets>>

(* Slot cur has the fob f from now on.                                     *)
(* RegisterInMemory is a variant that does not fill the record.            *)
RegisterInMemory(f, due) ==
  /\ org' = [org EXCEPT ![cur] = f]
  /\ overtaken' = overtaken \ {cur}
  /\ excused' = excused \union WithDeadline({cur})
  /\ UNCHANGED mem
Register(f, due) ==
  /\ org' = [org EXCEPT ![cur] = f]
  /\ mem' = [mem EXCEPT ![cur] = [fob |-> f, due |-> due]]
  /\ overtaken' = overtaken \ {cur}
  /\ excused' = excused \union WithDeadline({cur})

(* total_register, one slot: whatever was seen in it.                      *)
RegisterKey ==
  /\ pc = "register" /\ cur < MAX_KEYS
  /\ Register(seen[cur], IF seen[cur] = None THEN 0 ELSE mem[cur].due)
  /\ cur' = cur + 1
  /\ UNCHANGED <<world, erg, seen, flash, status, limit, pc, next, given, taking,
                 bounds>>

(* addnewkeys, one slot: a fob where none was registered, or one that      *)
(* differs from the registered one in its family code and its serial, or   *)
(* none at all.                                                            *)
Changed(k) ==
  \/ org[k] = None
  \/ org[k] # seen[k] /\ ((org[k] \in DS1990) # (seen[k] \in DS1990))
AddKey ==
  /\ pc = "add" /\ cur < MAX_KEYS
  /\ IF seen[cur] = None \/ Changed(cur) THEN Register(seen[cur], mem[cur].due)
     ELSE UNCHANGED <<org, mem, overtaken, excused>>
  /\ cur' = cur + 1
  /\ UNCHANGED <<world, erg, seen, flash, status, limit, pc, next, given, taking,
                 bounds>>

(* All slots done: the records are written.                                *)
MenuEnd ==
  /\ pc \in {"register", "add"} /\ cur = MAX_KEYS
  /\ Write("write_keys", IF pc = "register" THEN "registered" ELSE "idle")
  /\ seen' = [k \in Keys |-> None] /\ cur' = 0
  /\ UNCHANGED <<world, erg, org, mem, flash, status, limit, given, history, bounds>>

(* create_keyevents, at the end of a registration or in service mode: it   *)
(* scans once more.                                                        *)
create_keyevents(then) ==
  /\ status' = Presence(slot) /\ Write("write_events", then)
  /\ excused' = excused \union WithDeadline({k \in Keys : slot[k] # None})
  /\ UNCHANGED <<world, erg, seen, org, mem, flash, limit, cur, given, taking, overtaken, bounds>>
CreateEvents == pc = "registered" /\ create_keyevents("idle")

Menu == StartMenu("register") \/ StartMenu("add")
Registration == RegisterKey \/ AddKey \/ MenuEnd \/ CreateEvents

(* CMD_ADD_KEY and CMD_DELETE_KEY, in any wait: the records they name are  *)
(* read from flash into memory, marked, and the sector is written.         *)
KeyCommand(named) ==
  /\ pc \in Polled /\ commands < MAX_COMMANDS /\ commands' = commands + 1
  /\ mem' = [k \in Keys |-> IF k \in named THEN keys[k] ELSE mem[k]]
  /\ overtaken' = overtaken \union {k \in named : mem[k].fob # keys[k].fob}
  /\ Write("write_keys", pc)
  /\ UNCHANGED <<world, erg, seen, org, flash, status, limit, cur, given, taking,
                 excused, takes, menus, resets>>

-----------------------------------------------------------------------------
(* emerg_remove_return_key: the slots of the fobs the administrator enters *)
(* are released, and every scan looks for the one entered last and for     *)
(* fobs that are back.                                                     *)
EmergencyStart ==
  /\ pc = "idle" /\ menus < MAX_MENUS /\ menus' = menus + 1
  /\ pc' = "emergency"
  /\ UNCHANGED <<world, erg, seen, org, mem, flash, status, limit, next, cur, given,
                 history, takes, commands, resets>>
EmergencyEnter(k) ==
  /\ pc = "emergency" /\ entered # k /\ status[k] # "OPEN"
  /\ entered' = k
  /\ UNCHANGED <<world, solenoid, seen, org, mem, flash, status, limit, control, given,
                 history, bounds>>
EmergencyRelease ==
  /\ pc = "emergency" /\ entered # NoKey /\ entered \notin solenoid
  /\ slot[entered] # None \/ status[entered] # "CLOSED"
  /\ solenoid' = solenoid \union {entered}
  /\ UNCHANGED <<world, entered, seen, org, mem, flash, status, limit, control, given,
                 history, bounds>>
EmergencyTake ==
  /\ pc = "emergency" /\ entered # NoKey
  /\ slot[entered] = None /\ status[entered] = "CLOSED"
  /\ solenoid' = solenoid \ {entered} /\ entered' = NoKey
  /\ status' = [status EXCEPT ![entered] = "OPEN"] /\ Write("write_events", "emergency")
  /\ limit' = [limit EXCEPT ![entered] = 0] /\ taking' = [taking EXCEPT ![entered] = 0]
  /\ UNCHANGED <<world, seen, org, mem, flash, cur, given, overtaken, excused, bounds>>

(* Also for a slot that is empty and has no fob registered.                *)
EmergencyReturn(k) == pc = "emergency" /\ GiveBack(k, "erg_return")
EmergencyReturnLimit == pc = "erg_return" /\ DropDeadline("emergency")

(* 252 (ESC) locks the slots, and the next scan releases the one entered.  *)
EmergencyEsc ==
  /\ pc = "emergency" /\ solenoid # {} /\ solenoid' = {}
  /\ UNCHANGED <<world, entered, seen, org, mem, flash, status, limit, control, given,
                 history, bounds>>
EmergencyEnd ==
  /\ pc = "emergency" /\ pc' = "idle" /\ solenoid' = {} /\ entered' = NoKey
  /\ UNCHANGED <<world, seen, org, mem, flash, status, limit, next, cur, given,
                 history, bounds>>
Emergency ==
  \/ EmergencyStart \/ EmergencyRelease \/ EmergencyTake \/ EmergencyReturnLimit
  \/ EmergencyEsc \/ EmergencyEnd
  \/ \E k \in Keys : EmergencyEnter(k) \/ EmergencyReturn(k)

-----------------------------------------------------------------------------
(* A reset: memory comes back from what the sectors hold, "key data        *)
(* restore" in main, and the deadlines of the fobs that are out.           *)
Boot(k2, e2) ==
  /\ resets < MAX_RESETS /\ resets' = resets + 1
  /\ keys' = k2 /\ mem' = k2 /\ org' = [k \in Keys |-> k2[k].fob]
  /\ events' = e2 /\ status' = e2
  /\ limit' = [k \in Keys |-> 0]
  /\ pc' = "boot" /\ next' = "idle" /\ cur' = 0 /\ given' = 0
  /\ seen' = [k \in Keys |-> None] /\ solenoid' = {} /\ entered' = NoKey
  /\ overtaken' = {}
  /\ UNCHANGED <<world, taking, takes, menus, commands>>

(* The slot whose taking or return it falls into.                          *)
Torn ==
  IF pc = "write_keys" \/ After \in {"limit", "return", "erg_return"}
  THEN {cur} \intersect Keys ELSE {}
Reset == Boot(keys, events) /\ excused' = excused \union Torn

(* And in a write, after the erase and n of the records.                   *)
CutFrom(n, new, blank) == [k \in Keys |-> IF k < n THEN new[k] ELSE blank]
ResetInKeys(n) ==
  /\ pc = "write_keys" /\ Boot(CutFrom(n, mem, Blank), events)
  /\ excused' = excused \union Torn \union (n .. MAX_KEYS - 1)
ResetInEvents(n) ==
  /\ pc = "write_events" /\ Boot(keys, CutFrom(n, status, "FF"))
  /\ excused' = excused \union Torn

(* Service mode writes the events anew.                                    *)
BootService == pc = "boot" /\ create_keyevents("restore")
BootRestore ==
  /\ pc \in {"boot", "restore"} /\ pc' = "idle"
  /\ limit' = [k \in Keys |-> IF status[k] = "OPEN" THEN mem[k].due ELSE 0]
  /\ UNCHANGED <<world, erg, seen, org, mem, flash, status, next, cur, given,
                 history, bounds>>

AnyReset == Reset \/ \E n \in 0 .. MAX_KEYS : ResetInKeys(n) \/ ResetInEvents(n)

Next ==
  \/ \E k \in Keys, f \in Fob : Move(k, f)
  \/ WriteKeys \/ WriteEvents
  \/ Session
  \/ \E k \in Keys : key_check_2(k)
  \/ Menu \/ Registration
  \/ \E named \in SUBSET Keys : KeyCommand(named)
  \/ Emergency
  \/ AnyReset \/ BootService \/ BootRestore
Spec == Init /\ [][Next]_vars

(* Writes, menus and boot go on by themselves, the emergency access ends   *)
(* by its time-out, and key_check_2 runs in every turn of the main loop,   *)
(* whatever sessions and menus there are.                                  *)
Fairness ==
  /\ WF_vars(WriteKeys) /\ WF_vars(WriteEvents) /\ WF_vars(BootRestore)
  /\ WF_vars(TakeLimit) /\ WF_vars(ReturnLimit) /\ WF_vars(Registration)
  /\ WF_vars(EmergencyReturnLimit) /\ SF_vars(EmergencyEnd)
  /\ \A k \in Keys : SF_vars(key_check_2(k))
FairSpec == Spec /\ Fairness

-----------------------------------------------------------------------------
(* What the checks go by is what a restart brings back: no menu, command,  *)
(* session or reset leaves a registration in memory that is not in flash,  *)
(* but for a slot whose record a command read back while it was being      *)
(* registered.                                                             *)
RegistrationDurable ==
  pc \in {"idle", "limit", "return", "emergency", "erg_return"} =>
    \A k \in Keys \ overtaken : keys[k].fob = org[k]

(* A fob that is out has the deadline of its own taking and no other, in   *)
(* memory and in flash, whatever was taken and returned before and         *)
(* whenever the resets.  Excused are slots whose fob came back, or that    *)
(* were registered anew, with the deadline left in place, and those whose  *)
(* taking, return or record a reset has cut.                               *)
DeadlineOfTaking ==
  pc \in {"idle", "emergency"} =>
    \A k \in Keys \ excused :
      status[k] = "OPEN" => limit[k] = taking[k] /\ keys[k].due = taking[k]

(* Once nobody moves it any more, the record of a registered slot says     *)
(* whether its fob is there: whatever registrations, emergencies, commands *)
(* and resets have been, key_check_2 puts it right, unless a reset has     *)
(* left the record erased.                                                 *)
StatusSettles ==
  \A k \in Keys :
    <>[](org[k] = None \/ status[k] = "FF" \/ (status[k] = "OPEN" <=> slot[k] # org[k]))

=============================================================================
