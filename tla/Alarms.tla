------------------------------- MODULE Alarms --------------------------------
(***************************************************************************)
(* The alarm word ULALARMS, between the 1 s branch of the timer interrupt, *)
(* which samples the sensors and the deadlines of the keys, and the main   *)
(* loop, which handles the alarms, runs the key sessions and clears the    *)
(* bits.  ULALARMS is an ordinary global: the main loop's |= and &= ~ load *)
(* the word, change it and store it, and the interrupt may come between.   *)
(* The interrupt itself is not interrupted.                                *)
(*                                                                         *)
(* A deadline is kept as the seconds that remain to it: the code compares  *)
(* an absolute KeyTask_TimeLimit to endtick_value, and so does the flash   *)
(* copy task_removal_time, which a reset brings back.                      *)
(***************************************************************************)
EXTENDS Integers, FiniteSets

CONSTANTS
  MAX_KEYS,     \* key positions
  TimeLimits,   \* the time_limit of tasks, in seconds: 0 is none
  Sensors,      \* bound of the model: the sensors that change in a behaviour
  AtStart,      \* bound of the model: those that may be wrong at the start, and
                \* then only be put right
  STRAY_FOBS,   \* bound of the model: keys whose fobs move with nobody logged in
  ORPHAN_TASKS, \* users may be assigned tasks that the task table has lost
  MAX_RESETS    \* bound of the model: resets in a behaviour

ASSUME KeysAssumption == MAX_KEYS \in Nat \ {0}
ASSUME LimitsAssumption == TimeLimits \subseteq Nat /\ IsFiniteSet(TimeLimits)
ASSUME SensorsAssumption == Sensors \union AtStart \subseteq {"ac", "battery", "service", "door"}
ASSUME SwitchesAssumption ==
  ORPHAN_TASKS \in BOOLEAN /\ STRAY_FOBS \subseteq Nat /\ MAX_RESETS \in Nat

Keys == 0 .. MAX_KEYS - 1
Bits == {"AC_POWER_OFF", "BATTERY_LOW", "SERVICE_DOOR_OPEN", "MECH_OVERRIDE",
         "DOOR_OPEN_TIMEOUT", "ENDUSERALARM", "TASK_OVERDUE"}

NoLimit == -1 \* 0 in the code: no deadline
Raised  == -2 \* 0xFFFFFFFF in the code: the deadline has passed, or the
              \* record was erased and not written again

VARIABLES
  ULALARMS,          \* the set of the bits that are set
  sensor,            \* what is wrong: mains off, battery low, a door open
  keycount,          \* the key the interrupt looks at next
  KeyTask_TimeLimit, \* deadline of each key, in memory
  removal,           \* task_removal_time of each key, in flash
  flag,              \* key1_t[].flag, in flash: the event is still to be logged
  out,               \* key_events_t[].status is LOCK_OPEN, in flash
  pc,                \* where the main loop is
  ret,               \* where it goes on after alarm_handler
  reg,               \* the word it has loaded
  upd,               \* what it is about to store
  cur,               \* the key a session is working on, and its time limit
  ucmainsoff, ucbatlow, ucmech_override, ucservice_door, \* one time flags
  j, uccount, uik1,  \* the scan for overdue keys
  logged,            \* history: EVT_TASK_TIMEOUT of this removal, 0, 1 or 2
  torn,              \* history: keys whose flag a reset has kept from the flash,
                     \* or brought back, after their event
  fresh,             \* history: keys whose alarm no load and no scan has met
  resets             \* resets so far

keyVars == <<KeyTask_TimeLimit, removal, flag, out, logged>>
rmwVars == <<ret, reg, upd>>
once    == <<ucmainsoff, ucbatlow, ucmech_override, ucservice_door>>
scanVars == <<j, uccount, uik1>>
ghosts  == <<torn, fresh, resets>>
vars == <<ULALARMS, sensor, keycount, keyVars, pc, rmwVars, cur, once, scanVars, ghosts>>

Locations ==
  {"idle", "opening", "session", "closing", "enduser", "take", "return", "store",
   "service", "svc_loop", "svc_flag", "svc_last", "door", "door_loop", "door_end",
   "door_dot", "door_mech", "door_flag", "power", "power_end",
   "overdue", "scan", "flag", "mark", "tail", "pass_end"}
Update == [clear : SUBSET Bits, set : SUBSET Bits, next : Locations]
Deadline == {NoLimit} \union UNION {0 .. n : n \in TimeLimits}

TypeOK ==
  /\ ULALARMS \subseteq Bits /\ reg \subseteq Bits /\ upd \in Update
  /\ sensor \in [{"ac", "battery", "service", "door"} -> BOOLEAN]
  /\ keycount \in Keys
  /\ KeyTask_TimeLimit \in [Keys -> Deadline \union {Raised}]
  /\ removal \in [Keys -> Deadline \union {Raised}]
  /\ flag \in [Keys -> BOOLEAN] /\ out \in [Keys -> BOOLEAN]
  /\ pc \in Locations /\ ret \in {"idle", "session"}
  /\ cur \in [key : Keys, limit : TimeLimits \union {0}]
  /\ once \in BOOLEAN \X BOOLEAN \X BOOLEAN \X BOOLEAN
  /\ j \in 0 .. MAX_KEYS /\ uccount \in 0 .. MAX_KEYS /\ uik1 \subseteq Keys
  /\ logged \in [Keys -> 0 .. 2] /\ torn \subseteq Keys /\ fresh \subseteq Keys
  /\ resets \in 0 .. MAX_RESETS

NoKey == [key |-> 0, limit |-> 0]
Nothing == [clear |-> {}, set |-> {}, next |-> "idle"]

(* A registered cabinet with all its keys in place.                        *)
Init ==
  /\ ULALARMS = {} /\ reg = {} /\ upd = Nothing
  /\ \E wrong \in SUBSET AtStart :
       sensor = [s \in {"ac", "battery", "service", "door"} |-> s \in wrong]
  /\ keycount = 0
  /\ KeyTask_TimeLimit = [k \in Keys |-> NoLimit]
  /\ removal = [k \in Keys |-> NoLimit]
  /\ flag = [k \in Keys |-> FALSE] /\ out = [k \in Keys |-> FALSE]
  /\ pc = "idle" /\ ret = "idle" /\ cur = NoKey
  /\ ucmainsoff = FALSE /\ ucbatlow = FALSE
  /\ ucmech_override = FALSE /\ ucservice_door = FALSE
  /\ j = 0 /\ uccount = 0 /\ uik1 = {}
  /\ logged = [k \in Keys |-> 0] /\ torn = {} /\ fresh = {} /\ resets = 0

-----------------------------------------------------------------------------
(* The world: a sensor changes.                                            *)
Sense(s) ==
  /\ s \in Sensors \/ sensor[s]
  /\ sensor' = [sensor EXCEPT ![s] = ~ @]
  /\ UNCHANGED <<ULALARMS, keycount, keyVars, pc, rmwVars, cur, once, scanVars, ghosts>>

(* One second passes for a deadline.                                       *)
Sooner(d) == IF d > 0 THEN d - 1 ELSE d

(* TICKER_Handler: one key a second, its deadline marked as raised.        *)
Overdue(k) == Sooner(KeyTask_TimeLimit[k]) = 0
Deadlines ==
  /\ KeyTask_TimeLimit' =
       [k \in Keys |-> IF k = keycount /\ Overdue(k) THEN Raised
                       ELSE Sooner(KeyTask_TimeLimit[k])]
  /\ removal' = [k \in Keys |-> Sooner(removal[k])]
  /\ keycount' = (keycount + 1) % MAX_KEYS
  /\ fresh' = IF Overdue(keycount) THEN fresh \union {keycount} ELSE fresh

(* The bits the interrupt sets and clears.  The battery is measured only   *)
(* while the mains are off, and the door counts as forced unless it was    *)
(* left open at the end of a session.                                      *)
Sampled(alarms) ==
  (alarms \ ({"AC_POWER_OFF"} \union
             (IF sensor.ac /\ ~ sensor.battery THEN {"BATTERY_LOW"} ELSE {})))
  \union (IF sensor.ac THEN {"AC_POWER_OFF"} ELSE {})
  \union (IF sensor.ac /\ sensor.battery THEN {"BATTERY_LOW"} ELSE {})
  \union (IF sensor.service THEN {"SERVICE_DOOR_OPEN"} ELSE {})
  \union (IF sensor.door /\ "DOOR_OPEN_TIMEOUT" \notin alarms
          THEN {"MECH_OVERRIDE"} ELSE {})

TICKER_Handler ==
  /\ Deadlines
  /\ ULALARMS' = Sampled(ULALARMS) \union
                 (IF Overdue(keycount) THEN {"TASK_OVERDUE"} ELSE {})
  /\ UNCHANGED <<sensor, flag, out, logged, pc, rmwVars, cur, once, scanVars,
                 torn, resets>>

-----------------------------------------------------------------------------
(* ULALARMS &= ~clear and |= set: load now, store later.                   *)
Begin(clear, set, next) ==
  /\ reg' = ULALARMS
  /\ upd' = [clear |-> clear, set |-> set, next |-> next]
  /\ pc' = "store"
Load(clear, set, next) ==
  /\ Begin(clear, set, next)
  /\ fresh' = IF "TASK_OVERDUE" \in ULALARMS THEN {} ELSE fresh
Goto(next) == pc' = next /\ UNCHANGED <<reg, upd, fresh>>

(* What no step of the main loop changes but the store and the reset.      *)
outside == <<ULALARMS, sensor, keycount, torn, resets>>

StoreAlarms ==
  /\ pc = "store"
  /\ ULALARMS' = (reg \ upd.clear) \union upd.set
  /\ pc' = upd.next /\ reg' = {} /\ upd' = Nothing
  /\ UNCHANGED <<sensor, keycount, keyVars, ret, cur, once, scanVars, ghosts>>

-----------------------------------------------------------------------------
(* The main loop: a session, or none, and then alarm_handler.              *)
EnterHandler ==
  /\ pc = "idle" /\ Goto("service")
  /\ UNCHANGED <<outside, keyVars, ret, cur, once, scanVars>>
StartSession ==
  /\ pc = "idle" /\ Goto("opening")
  /\ UNCHANGED <<outside, keyVars, ret, cur, once, scanVars>>

(* The lock is on until the door opens, or the user gives up.              *)
OpenDoor ==
  /\ pc = "opening" /\ sensor.door /\ Goto("session")
  /\ UNCHANGED <<outside, keyVars, ret, cur, once, scanVars>>
GiveUp ==
  /\ pc = "opening" /\ Goto("service")
  /\ UNCHANGED <<outside, keyVars, ret, cur, once, scanVars>>

(* None of the user's tasks is in the task table: user_mykee_task returns  *)
(* 2 and main_menu_user_task leaves the door as it is.                     *)
NoTask ==
  /\ ORPHAN_TASKS /\ pc = "opening" /\ sensor.door /\ Goto("service")
  /\ UNCHANGED <<outside, keyVars, ret, cur, once, scanVars>>

(* A key is taken: the key log first, then the event, then the deadline.   *)
TakeKey(k, limit) ==
  /\ pc = "session" /\ ~ out[k] /\ Goto("take")
  /\ out' = [out EXCEPT ![k] = TRUE]
  /\ logged' = [logged EXCEPT ![k] = 0] /\ torn' = torn \ {k}
  /\ cur' = [key |-> k, limit |-> limit]
  /\ UNCHANGED <<ULALARMS, sensor, keycount, KeyTask_TimeLimit, removal, flag,
                 ret, once, scanVars, resets>>
TakeLimit ==
  /\ pc = "take" /\ Goto("session")
  /\ IF cur.limit > 0
     THEN /\ KeyTask_TimeLimit' = [KeyTask_TimeLimit EXCEPT ![cur.key] = cur.limit]
          /\ removal' = [removal EXCEPT ![cur.key] = cur.limit]
          /\ flag' = [flag EXCEPT ![cur.key] = TRUE]
     ELSE /\ KeyTask_TimeLimit' = [KeyTask_TimeLimit EXCEPT ![cur.key] = NoLimit]
          /\ UNCHANGED <<removal, flag>>
  /\ cur' = NoKey
  /\ UNCHANGED <<outside, out, logged, ret, once, scanVars>>

(* And given back: the key log, the event, and the deadline is cleared.    *)
ReturnKey(k) ==
  /\ pc = "session" /\ out[k] /\ Goto("return")
  /\ out' = [out EXCEPT ![k] = FALSE]
  /\ cur' = [key |-> k, limit |-> 0]
  /\ UNCHANGED <<outside, KeyTask_TimeLimit, removal, flag, logged, ret,
                 once, scanVars>>
ReturnLimit ==
  /\ pc = "return" /\ Goto("session")
  /\ LET k == cur.key
     IN  /\ KeyTask_TimeLimit' = [KeyTask_TimeLimit EXCEPT ![k] = NoLimit]
         /\ removal' = [removal EXCEPT ![k] = NoLimit]
         /\ flag' = [flag EXCEPT ![k] = removal[k] = NoLimit /\ @]
  /\ cur' = NoKey
  /\ UNCHANGED <<outside, out, logged, ret, once, scanVars>>

(* key_check_2: a fob that appears or disappears with nobody logged in     *)
(* changes the key log and leaves the deadline alone.                      *)
KeyCheck(k) ==
  /\ k \in STRAY_FOBS /\ pc = "idle"
  /\ out' = [out EXCEPT ![k] = ~ @]
  /\ logged' = [logged EXCEPT ![k] = IF out[k] THEN @ ELSE 0]
  /\ torn' = IF out[k] THEN torn ELSE torn \ {k}
  /\ UNCHANGED <<ULALARMS, sensor, keycount, KeyTask_TimeLimit, removal, flag,
                 pc, rmwVars, cur, once, scanVars, fresh, resets>>

(* The session calls alarm_handler when the service door is open.          *)
SessionAlarm ==
  /\ pc = "session" /\ "SERVICE_DOOR_OPEN" \in ULALARMS /\ Goto("service")
  /\ ret' = "session"
  /\ UNCHANGED <<outside, keyVars, cur, once, scanVars>>

(* The session ends with the door closed, or waits for it and gives up.    *)
EndSession ==
  /\ pc = "session" /\ Goto(IF sensor.door THEN "closing" ELSE "service")
  /\ ret' = "idle"
  /\ UNCHANGED <<outside, keyVars, cur, once, scanVars>>
CloseDoor ==
  /\ pc = "closing" /\ ~ sensor.door /\ Goto("service")
  /\ UNCHANGED <<outside, keyVars, ret, cur, once, scanVars>>
CloseTimeout ==
  /\ pc = "closing" /\ Load({}, {"DOOR_OPEN_TIMEOUT"}, "enduser")
  /\ UNCHANGED <<outside, keyVars, ret, cur, once, scanVars>>
EndUser ==
  /\ pc = "enduser" /\ Load({}, {"ENDUSERALARM"}, "service")
  /\ UNCHANGED <<outside, keyVars, ret, cur, once, scanVars>>

Session ==
  \/ StartSession \/ OpenDoor \/ GiveUp \/ NoTask
  \/ \E k \in Keys : (\E limit \in TimeLimits : TakeKey(k, limit)) \/ ReturnKey(k)
  \/ TakeLimit \/ ReturnLimit
  \/ SessionAlarm \/ EndSession \/ CloseDoor \/ CloseTimeout \/ EndUser

-----------------------------------------------------------------------------
(* alarm_handler, service door: the loop while it is open, then the return.*)
ServiceCheck ==
  /\ pc = "service"
  /\ IF "SERVICE_DOOR_OPEN" \notin ULALARMS THEN Goto("door")
     ELSE IF sensor.service THEN Goto("svc_loop")
     ELSE Load({"SERVICE_DOOR_OPEN"}, {}, ret)
  /\ UNCHANGED <<outside, keyVars, ret, cur, once, scanVars>>
ServiceLoop ==
  /\ pc = "svc_loop" /\ sensor.service /\ ~ ucservice_door
  /\ ucservice_door' = TRUE
  /\ UNCHANGED <<outside, keyVars, pc, rmwVars, cur, ucmainsoff, ucbatlow,
                 ucmech_override, scanVars, fresh>>
ServiceClosed ==
  /\ pc = "svc_loop" /\ ~ sensor.service
  /\ Load({"SERVICE_DOOR_OPEN"}, {}, "svc_flag")
  /\ UNCHANGED <<outside, keyVars, ret, cur, once, scanVars>>
ServiceFlag ==
  /\ pc = "svc_flag" /\ Load({"SERVICE_DOOR_OPEN"}, {}, ret)
  /\ ucservice_door' = (ucservice_door /\ "SERVICE_DOOR_OPEN" \in ULALARMS)
  /\ UNCHANGED <<outside, keyVars, ret, cur, ucmainsoff, ucbatlow,
                 ucmech_override, scanVars>>

(* alarm_handler, door: left open by a session, or forced.                 *)
DoorCheck ==
  /\ pc = "door"
  /\ Goto(IF ULALARMS \intersect {"DOOR_OPEN_TIMEOUT", "MECH_OVERRIDE"} = {} THEN "door_flag"
          ELSE IF sensor.door THEN "door_loop" ELSE "door_dot")
  /\ UNCHANGED <<outside, keyVars, ret, cur, once, scanVars>>
DoorLoop ==
  /\ pc = "door_loop" /\ sensor.door
  /\ "DOOR_OPEN_TIMEOUT" \notin ULALARMS /\ ~ ucmech_override
  /\ ucmech_override' = TRUE
  /\ UNCHANGED <<outside, keyVars, pc, rmwVars, cur, ucmainsoff, ucbatlow,
                 ucservice_door, scanVars, fresh>>
DoorClosed ==
  /\ pc = "door_loop" /\ ~ sensor.door /\ Load({"ENDUSERALARM"}, {}, "door_end")
  /\ UNCHANGED <<outside, keyVars, ret, cur, once, scanVars>>
DoorEnd ==
  /\ pc = "door_end"
  /\ Load(IF "DOOR_OPEN_TIMEOUT" \in ULALARMS THEN {"DOOR_OPEN_TIMEOUT"}
          ELSE {"MECH_OVERRIDE"}, {}, "door_dot")
  /\ UNCHANGED <<outside, keyVars, ret, cur, once, scanVars>>
DropBit(here, bit, next) ==
  /\ pc = here
  /\ IF bit \in ULALARMS THEN Load({bit}, {}, next) ELSE Goto(next)
  /\ UNCHANGED <<outside, keyVars, ret, cur, once, scanVars>>
DoorFlag ==
  /\ pc = "door_flag" /\ Goto("power")
  /\ ucmech_override' = (ucmech_override /\ "MECH_OVERRIDE" \in ULALARMS)
  /\ UNCHANGED <<outside, keyVars, ret, cur, ucmainsoff, ucbatlow,
                 ucservice_door, scanVars>>

(* alarm_handler, mains and battery.                                       *)
PowerCheck ==
  /\ pc = "power" /\ Goto("power_end")
  /\ ucmainsoff' = (ucmainsoff \/ "AC_POWER_OFF" \in ULALARMS)
  /\ ucbatlow' = (ucbatlow \/ "BATTERY_LOW" \in ULALARMS)
  /\ UNCHANGED <<outside, keyVars, ret, cur, ucmech_override, ucservice_door,
                 scanVars>>
PowerEnd ==
  /\ pc = "power_end" /\ Goto("overdue")
  /\ ucmainsoff' = (ucmainsoff /\ "AC_POWER_OFF" \in ULALARMS)
  /\ ucbatlow' = (ucbatlow /\ "BATTERY_LOW" \in ULALARMS)
  /\ UNCHANGED <<outside, keyVars, ret, cur, ucmech_override, ucservice_door,
                 scanVars>>

(* alarm_handler, overdue keys: one call goes on to the next overdue key.  *)
(* OverdueCheckKeeps is a variant that does not start to count afresh.     *)
OverdueCheckKeeps ==
  /\ pc = "overdue"
  /\ IF "TASK_OVERDUE" \in ULALARMS
     THEN /\ pc' = "scan"
          /\ fresh' = IF j = 0 THEN {} ELSE fresh
          /\ UNCHANGED <<reg, upd, uik1, uccount>>
     ELSE Goto(ret) /\ uik1' = {} /\ UNCHANGED uccount
  /\ UNCHANGED <<outside, keyVars, ret, cur, once, j>>
OverdueCheck ==
  /\ pc = "overdue"
  /\ IF "TASK_OVERDUE" \in ULALARMS
     THEN /\ pc' = "scan"
          /\ uccount' = IF j = 0 THEN 0 ELSE uccount
          /\ fresh' = IF j = 0 THEN {} ELSE fresh
          /\ UNCHANGED <<reg, upd, uik1>>
     ELSE Goto(ret) /\ uik1' = {} /\ UNCHANGED uccount
  /\ UNCHANGED <<outside, keyVars, ret, cur, once, j>>
ScanStep ==
  /\ pc = "scan" /\ j < MAX_KEYS /\ KeyTask_TimeLimit[j] # Raised
  /\ j' = j + 1
  /\ UNCHANGED <<outside, keyVars, pc, rmwVars, cur, once, uccount, uik1, fresh>>
ScanFound ==
  /\ pc = "scan" /\ j < MAX_KEYS /\ KeyTask_TimeLimit[j] = Raised
  /\ uccount' = uccount + 1
  /\ IF j \notin uik1 /\ flag[j]
     THEN Goto("flag") /\ logged' = [logged EXCEPT ![j] = IF @ = 2 THEN 2 ELSE @ + 1]
     ELSE Goto("mark") /\ UNCHANGED logged
  /\ UNCHANGED <<outside, KeyTask_TimeLimit, removal, flag, out, ret, cur,
                 once, j, uik1>>
(* ClearFlagInMemory is a variant that does not write the flag back.       *)
ClearFlagInMemory ==
  /\ pc = "flag" /\ Goto("mark")
  /\ UNCHANGED <<outside, keyVars, ret, cur, once, scanVars>>
ClearFlag ==
  /\ pc = "flag" /\ Goto("mark")
  /\ flag' = [flag EXCEPT ![j] = FALSE]
  /\ UNCHANGED <<outside, KeyTask_TimeLimit, removal, out, logged, ret,
                 cur, once, scanVars>>
(* MarkStays is a variant that leaves out the j++ before the break.        *)
MarkStays ==
  /\ pc = "mark" /\ Goto("tail")
  /\ uik1' = uik1 \union {j}
  /\ UNCHANGED <<outside, keyVars, ret, cur, once, j, uccount>>
Mark ==
  /\ pc = "mark" /\ Goto("tail")
  /\ uik1' = uik1 \union {j} /\ j' = j + 1
  /\ UNCHANGED <<outside, keyVars, ret, cur, once, uccount>>
ScanEnd ==
  /\ pc = "scan" /\ j = MAX_KEYS /\ Goto("tail")
  /\ UNCHANGED <<outside, keyVars, ret, cur, once, scanVars>>

(* The alarm is over when a whole scan has found no overdue key.           *)
(* TailAtEnd is a variant that does not look at the count.                 *)
TailAtEnd ==
  /\ pc = "tail"
  /\ IF j = MAX_KEYS
     THEN Begin({"TASK_OVERDUE"}, {}, "pass_end") /\ UNCHANGED <<j, fresh>>
     ELSE Goto(ret) /\ UNCHANGED j
  /\ UNCHANGED <<outside, keyVars, ret, cur, once, uccount, uik1>>
Tail ==
  /\ pc = "tail"
  /\ IF uccount = 0 /\ j = MAX_KEYS
     THEN Begin({"TASK_OVERDUE"}, {}, "pass_end") /\ UNCHANGED <<j, fresh>>
     ELSE Goto(ret) /\ j' = IF j = MAX_KEYS THEN 0 ELSE j
  /\ UNCHANGED <<outside, keyVars, ret, cur, once, uccount, uik1>>
PassEnd ==
  /\ pc = "pass_end" /\ Goto(ret) /\ j' = 0
  /\ UNCHANGED <<outside, keyVars, ret, cur, once, uccount, uik1>>

alarm_handler ==
  \/ ServiceCheck \/ ServiceLoop \/ ServiceClosed \/ ServiceFlag
  \/ DoorCheck \/ DoorLoop \/ DoorClosed \/ DoorEnd \/ DoorFlag
  \/ DropBit("door_dot", "DOOR_OPEN_TIMEOUT", "door_mech")
  \/ DropBit("door_mech", "MECH_OVERRIDE", "door_flag")
  \/ PowerCheck \/ PowerEnd
  \/ OverdueCheck \/ ScanStep \/ ScanFound \/ ClearFlag \/ Mark \/ ScanEnd
  \/ Tail \/ PassEnd

(* A reset: memory starts afresh, and the deadlines of the keys that are   *)
(* out come back from the flash, a mark that a deadline has passed as well *)
(* (fresh: nobody has met the alarm of such a key).                        *)
Boot ==
  /\ resets < MAX_RESETS /\ resets' = resets + 1
  /\ ULALARMS' = {} /\ reg' = {} /\ upd' = Nothing
  /\ keycount' = 0
  /\ KeyTask_TimeLimit' = [k \in Keys |-> IF out'[k] THEN removal'[k] ELSE NoLimit]
  /\ fresh' = {k \in Keys : KeyTask_TimeLimit'[k] = Raised}
  /\ pc' = "idle" /\ ret' = "idle" /\ cur' = NoKey
  /\ ucmainsoff' = FALSE /\ ucbatlow' = FALSE
  /\ ucmech_override' = FALSE /\ ucservice_door' = FALSE
  /\ j' = 0 /\ uccount' = 0 /\ uik1' = {}
  /\ UNCHANGED <<sensor, logged>>

(* Between two writes: an event may have gone without its flag.            *)
FlagDue == IF pc = "flag" THEN {j} ELSE {}
Reset ==
  /\ UNCHANGED <<removal, flag, out>> /\ Boot
  /\ torn' = torn \union FlagDue

(* And in write_key_sd, which erases the records of all the keys and       *)
(* writes them again, after n of them: the others are left erased, so that *)
(* their flag is set again and their deadline reads as passed.             *)
Rewritten(n, flags, limits) ==
  /\ flag' = [k \in Keys |-> k >= n \/ flags[k]]
  /\ removal' = [k \in Keys |-> IF k < n THEN limits[k] ELSE Raised]
LoggedFrom(n) == {k \in Keys : k >= n /\ logged[k] > 0}
ResetInWrite(n) ==
  /\ LET k == cur.key
     IN  \/ pc = "flag" /\ Rewritten(n, [flag EXCEPT ![j] = FALSE], removal)
         \/ /\ pc = "take" /\ cur.limit > 0
            /\ Rewritten(n, [flag EXCEPT ![k] = TRUE], [removal EXCEPT ![k] = cur.limit])
         \/ /\ pc = "return" /\ removal[k] # NoLimit
            /\ Rewritten(n, [flag EXCEPT ![k] = FALSE], [removal EXCEPT ![k] = NoLimit])
  /\ UNCHANGED out /\ Boot
  /\ torn' = torn \union LoggedFrom(n)

(* Menus, and commands that come in a wait, write the sector as well.      *)
ResetInOther(n) ==
  /\ Rewritten(n, flag, removal) /\ UNCHANGED out /\ Boot
  /\ torn' = torn \union LoggedFrom(n) \union FlagDue

Next ==
  \/ \E s \in Sensors \union AtStart : Sense(s)
  \/ TICKER_Handler
  \/ StoreAlarms
  \/ EnterHandler
  \/ \E k \in Keys : KeyCheck(k)
  \/ Session
  \/ alarm_handler
  \/ Reset \/ \E n \in Keys : ResetInWrite(n) \/ ResetInOther(n)

Spec == Init /\ [][Next]_vars

(* The timer runs and the main loop goes on; a user does not go on taking  *)
(* and returning keys for ever, a door that buzzes is closed in the end    *)
(* and does not flicker for ever between two looks of the main loop.       *)
Fairness ==
  /\ WF_vars(TICKER_Handler)
  /\ WF_vars(StoreAlarms \/ EnterHandler) /\ SF_vars(alarm_handler)
  /\ WF_vars(GiveUp) /\ WF_vars(TakeLimit \/ ReturnLimit \/ CloseTimeout \/ EndUser)
  /\ SF_vars(EndSession)
  /\ \A s \in (Sensors \union AtStart) \intersect {"service", "door"} : WF_vars(sensor[s] /\ Sense(s))
FairSpec == Spec /\ Fairness

-----------------------------------------------------------------------------
(* The event of an overdue key is logged once for each removal, also over  *)
(* resets: alarm_handler logs it a second time only for a key whose flag a *)
(* reset has kept from the flash, between the event and the write, or has  *)
(* left erased, in a write of the key records after the event.             *)
OverdueOnce == \A k \in Keys : logged[k] = 2 => k \in torn

(* The overdue alarm goes away only when no key is overdue, but for keys   *)
(* the interrupt raised while the main loop had the word loaded, or had    *)
(* begun the scan: an alarm once seen by a scan is not dropped.            *)
AlarmDropped ==
  [][/\ "TASK_OVERDUE" \in ULALARMS /\ "TASK_OVERDUE" \notin ULALARMS'
     /\ resets' = resets
     => \A k \in Keys : KeyTask_TimeLimit[k] = Raised => k \in fresh]_vars

(* While the alarm is on, the scan comes to every overdue key.             *)
ScanReaches ==
  \A k \in Keys :
    KeyTask_TimeLimit[k] = Raised /\ "TASK_OVERDUE" \in ULALARMS
      ~> \/ KeyTask_TimeLimit[k] # Raised \/ k \in uik1
         \/ "TASK_OVERDUE" \notin ULALARMS

=============================================================================
