------------------------------ MODULE KeyCabinet ------------------------------
(***************************************************************************)
(* A session at the cabinet (menu_login, main_menu_user_task and           *)
(* user_mykee_task) and the check of the fobs between sessions             *)
(* (key_check_2).                                                          *)
(*                                                                         *)
(* The session keeps the user and the task it is about in the globals      *)
(* user_t and task_t.  Every wait of the session polls the heartbeat       *)
(* client, whose commands use the same globals.  Fobs are moved while the  *)
(* code waits, and are seen only when it scans.                            *)
(***************************************************************************)
EXTENDS Integers, FiniteSets

CONSTANTS
  Keys,       \* the fobs, and their slots
  Users, Tasks,
  TasksOf,    \* user_t.tasks of each user
  KeysOf,     \* task_t.key of each task
  Approvers,  \* task_t.user_code of a task that takes two users, {} for the others
  CardOnly,   \* users whose card is enough (login_type 1)
  MAX_LOGINS, MAX_MOVES, MAX_SERVER  \* bounds of the model

None == "none"
ASSUME UsersAssumption ==
  /\ TasksOf \in [Users -> SUBSET Tasks]
  /\ KeysOf \in [Tasks -> SUBSET Keys]
  /\ Approvers \in [Tasks -> SUBSET Users]
  /\ CardOnly \subseteq Users
  /\ None \notin Users \union Tasks \union Keys
ASSUME BoundsAssumption == {MAX_LOGINS, MAX_MOVES, MAX_SERVER} \subseteq Nat

VARIABLES
  at,        \* the slot each fob is in, or None
  door,      \* the door is open (trg(2))
  solenoid,  \* the slots that are released
  seen,      \* ibutton_value: the fob each slot was last seen to hold
  status,    \* key_events_t[].status
  holder,    \* key_events_t[].user
  pc,        \* where the main loop waits
  cur,       \* the slot that step is about
  back,      \* where it goes on after a fob was put back or removed
  chkey,     \* key_check_2: a slot did not hold its fob
  left,      \* key_check_2: the slots still to check
  user_t, task_t, \* the shared records
  code,      \* user_code_main: who has logged in
  ustask,    \* the task the removal is logged for
  list,      \* user_task[]: the tasks to select from
  mode,      \* ucremove_mode: 1 take, 2 the one fob, 0 return
  single,    \* ucflag_menu = 1: one task with one fob
  entered,   \* key_entered
  approved,  \* history: the second user has logged in
  disturbed, \* history: the server has changed a record during the session
  logins, moves, server \* bounds

physical == <<at, door>>
log      == <<status, holder>>
check    == <<chkey, left>>
menu     == <<code, ustask, list, mode, single>>
bounds   == <<logins, moves, server>>
vars == <<physical, solenoid, seen, log, pc, cur, back, check, user_t, task_t, menu,
          entered, approved, disturbed, bounds>>

Session == {"pin", "menu", "door", "select", "second", "keys", "taking", "returning",
            "wrong", "closing"}
Checking == {"check", "removed", "returned"}

TypeOK ==
  /\ at \in [Keys -> Keys \union {None}] /\ door \in BOOLEAN
  /\ solenoid \subseteq Keys /\ seen \in [Keys -> Keys \union {None}]
  /\ status \in [Keys -> {"CLOSED", "OPEN"}] /\ holder \in [Keys -> Users \union {None}]
  /\ pc \in Session \union Checking \union {"idle"}
  /\ cur \in Keys \union {None} /\ back \in {"select", "keys"}
  /\ chkey \in BOOLEAN /\ left \subseteq Keys
  /\ user_t \in Users \union {None} /\ task_t \in Tasks \union {None}
  /\ code \in Users \union {None} /\ ustask \in Tasks \union {None}
  /\ list \subseteq Tasks /\ mode \in 0 .. 2 /\ single \in BOOLEAN
  /\ entered \in Keys \union {None}
  /\ approved \in BOOLEAN /\ disturbed \in BOOLEAN
  /\ logins \in 0 .. MAX_LOGINS /\ moves \in 0 .. MAX_MOVES /\ server \in 0 .. MAX_SERVER

(* After total_register and create_keyevents with every fob in its slot.   *)
Init ==
  /\ at = [k \in Keys |-> k] /\ door = FALSE /\ solenoid = {}
  /\ seen = [k \in Keys |-> k]
  /\ status = [k \in Keys |-> "CLOSED"] /\ holder = [k \in Keys |-> None]
  /\ pc = "idle" /\ cur = None /\ back = "keys" /\ chkey = FALSE /\ left = {}
  /\ user_t = None /\ task_t = None
  /\ code = None /\ ustask = None /\ list = {} /\ mode = 1 /\ single = FALSE
  /\ entered = None /\ approved = FALSE /\ disturbed = FALSE
  /\ logins = 0 /\ moves = 0 /\ server = 0

(* What a scan reads: the fob in each slot.                                *)
Scanned == [s \in Keys |->
  IF \E k \in Keys : at[k] = s THEN CHOOSE k \in Keys : at[k] = s ELSE None]
Keyset(t) == IF t = None THEN {} ELSE KeysOf[t]
UserTasks(u) == IF u = None THEN {} ELSE TasksOf[u]
Available(t) == {k \in Keyset(t) : status[k] = "CLOSED"}

-----------------------------------------------------------------------------
(* People, at any moment.  A locked fob may be taken by force.             *)
Pull(k) ==
  /\ moves < MAX_MOVES /\ moves' = moves + 1
  /\ door /\ at[k] # None
  /\ at' = [at EXCEPT ![k] = None]
  /\ UNCHANGED <<door, solenoid, seen, log, pc, cur, back, check, user_t, task_t,
                 menu, entered, approved, disturbed, logins, server>>
Put(k, s) ==
  /\ moves < MAX_MOVES /\ moves' = moves + 1
  /\ door /\ at[k] = None /\ \A j \in Keys : at[j] # s
  /\ at' = [at EXCEPT ![k] = s]
  /\ UNCHANGED <<door, solenoid, seen, log, pc, cur, back, check, user_t, task_t,
                 menu, entered, approved, disturbed, logins, server>>
CloseDoor ==
  /\ door /\ door' = FALSE
  /\ UNCHANGED <<at, solenoid, seen, log, pc, cur, back, check, user_t, task_t,
                 menu, entered, approved, disturbed, bounds>>

(* A command of the heartbeat server that is about a user or a task leaves *)
(* its record in user_t or task_t, a deletion an empty one.                *)
Server ==
  /\ server < MAX_SERVER /\ server' = server + 1
  /\ pc \in Session
  /\ \/ user_t' \in Users \union {None} /\ UNCHANGED task_t
     \/ task_t' \in Tasks \union {None} /\ UNCHANGED user_t
  /\ disturbed' = TRUE
  /\ UNCHANGED <<physical, solenoid, seen, log, pc, cur, back, check, menu, entered,
                 approved, logins, moves>>

-----------------------------------------------------------------------------
(* key_check_2: the slots are scanned once and then looked at in turn.     *)
CheckStart ==
  /\ pc = "idle" /\ pc' = "check"
  /\ seen' = Scanned /\ left' = Keys /\ chkey' = FALSE
  /\ UNCHANGED <<physical, solenoid, log, cur, back, user_t, task_t, menu, entered,
                 approved, disturbed, bounds>>

(* A slot that should hold its fob is scanned again before it is reported. *)
CheckKey(k) ==
  /\ pc = "check" /\ k \in left /\ left' = left \ {k}
  /\ cur' = k
  /\ LET missed == chkey \/ seen[k] # k
         suspect == missed /\ status[k] = "CLOSED"
     IN /\ chkey' = (missed /\ ~ suspect)
        /\ seen' = IF suspect THEN Scanned ELSE seen
        /\ pc' = IF suspect /\ Scanned[k] # k THEN "removed"
                 ELSE IF status[k] = "OPEN" /\ seen[k] = k THEN "returned"
                 ELSE "check"
  /\ UNCHANGED <<physical, solenoid, log, back, user_t, task_t, menu, entered, approved,
                 disturbed, bounds>>

CheckEnd ==
  /\ pc = "check" /\ left = {} /\ pc' = "idle"
  /\ UNCHANGED <<physical, solenoid, seen, log, cur, back, check, user_t, task_t, menu,
                 entered, approved, disturbed, bounds>>

(* After the buzzer: the removal or the return without a login is written. *)
(* CheckRemovedNot is a variant that reports the fob but leaves its status.*)
CheckRemovedNot ==
  /\ pc = "removed" /\ pc' = "check"
  /\ UNCHANGED <<log, physical, solenoid, seen, cur, back, check, user_t, task_t, menu,
                 entered, approved, disturbed, bounds>>
CheckRemoved ==
  /\ pc = "removed" /\ pc' = "check"
  /\ status' = [status EXCEPT ![cur] = "OPEN"]
  /\ UNCHANGED <<holder, physical, solenoid, seen, cur, back, check, user_t, task_t,
                 menu, entered, approved, disturbed, bounds>>
CheckReturned ==
  /\ pc = "returned" /\ pc' = "check"
  /\ status' = [status EXCEPT ![cur] = "CLOSED"]
  /\ UNCHANGED <<holder, physical, solenoid, seen, cur, back, check, user_t, task_t,
                 menu, entered, approved, disturbed, bounds>>

-----------------------------------------------------------------------------
(* menu_login: the record of the card or the code is read.                 *)
Identify(u) ==
  /\ pc = "idle" /\ logins < MAX_LOGINS /\ logins' = logins + 1
  /\ pc' = "pin" /\ user_t' = u /\ code' = u
  /\ approved' = FALSE /\ disturbed' = FALSE
  /\ UNCHANGED <<physical, solenoid, seen, log, cur, back, check, task_t, ustask, list,
                 mode, single, entered, moves, server>>

(* The PIN, or the login type, is compared with what user_t then holds.    *)
Pin ==
  /\ pc = "pin"
  /\ \/ pc' = "idle"
     \/ user_t \in {code} \union CardOnly /\ pc' = "menu"
  /\ UNCHANGED <<physical, solenoid, seen, log, cur, back, check, user_t, task_t, menu,
                 entered, approved, disturbed, bounds>>

(* main_menu_user_task: one task with one fob is taken or returned at      *)
(* once, everything else goes through the selection.                       *)
Menu ==
  /\ pc = "menu"
  /\ LET tasks == UserTasks(user_t)
         t     == CHOOSE x \in tasks : TRUE
         one   == Cardinality(tasks) = 1
     IN /\ task_t' = IF one THEN t ELSE task_t
        /\ IF tasks = {} \/ (one /\ Keyset(t) = {})
           THEN pc' = "idle" /\ UNCHANGED <<mode, single>>
           ELSE
             /\ pc' = "door"
             /\ single' = (one /\ Cardinality(Keyset(t)) = 1)
             /\ mode' = IF ~ single' THEN 1
                        ELSE IF Available(t) # {} THEN 2 ELSE 0
  /\ UNCHANGED <<physical, solenoid, seen, log, cur, back, check, user_t, code, ustask,
                 list, entered, approved, disturbed, bounds>>

-----------------------------------------------------------------------------
(* Before the loop over the fobs.  With one fob to take, or in mode 2, it  *)
(* is released without being asked for: in mode 2 the last one that is in, *)
(* and with none of them in whatever the local variable held.  With        *)
(* nothing to do the session ends.                                         *)
(* SetupOff is a variant that releases a slot when no fob is entered.      *)
ToReturn(u) == {k \in Keys : status[k] = "OPEN" /\ holder[k] = u}
Work(m, t, u) ==
  IF m = 0 THEN ToReturn(u) # {}
  ELSE Available(t) # {} \/ \E k \in Keyset(t) \intersect ToReturn(u) : seen[k] = None
AtOnce(m, t) ==
  IF m = 0 THEN {None}
  ELSE IF Cardinality(Available(t)) = 1 THEN Available(t)
  ELSE IF m = 1 THEN {None}
  ELSE IF Available(t) = {} THEN Keys ELSE Available(t)

SetupOff(m, t, u) ==
  IF Work(m, t, u)
  THEN /\ pc' = "keys" /\ entered' \in AtOnce(m, t)
       /\ mode' = IF entered' # None THEN 2 ELSE m
       /\ solenoid' = {entered'}
  ELSE /\ pc' = "closing"
       /\ mode' = 1 /\ entered' = None /\ solenoid' = {}
Setup(m, t, u) ==
  IF Work(m, t, u)
  THEN /\ pc' = "keys" /\ entered' \in AtOnce(m, t)
       /\ mode' = IF entered' # None THEN 2 ELSE m
       /\ solenoid' = {entered'} \ {None}
  ELSE /\ pc' = "closing"
       /\ mode' = 1 /\ entered' = None /\ solenoid' = {}

(* The door is opened.  The list is built from user_t after that wait; in  *)
(* mode 2 the task is the one in task_t.                                   *)
DoorOpens ==
  /\ pc = "door" /\ door' = TRUE
  /\ list' = IF mode = 1 THEN UserTasks(user_t) ELSE {}
  /\ task_t' \in IF list' = {} THEN {task_t} ELSE list'
  /\ IF mode = 0 THEN Setup(mode, task_t, user_t)
     ELSE /\ pc' = IF mode = 1 /\ list' = {} THEN "idle" ELSE "select"
          /\ UNCHANGED <<mode, entered, solenoid>>
  /\ UNCHANGED <<at, seen, log, cur, back, check, user_t, code, ustask, single, approved,
                 disturbed, bounds>>
DoorTimeout ==
  /\ pc = "door" /\ pc' \in {"idle", "closing"}
  /\ UNCHANGED <<physical, solenoid, seen, log, cur, back, check, user_t, task_t, menu,
                 entered, approved, disturbed, bounds>>

Select(t) ==
  /\ pc = "select" /\ t \in list /\ t # task_t /\ Cardinality(list) > 1
  /\ task_t' = t
  /\ UNCHANGED <<physical, solenoid, seen, log, pc, cur, back, check, user_t, menu,
                 entered, approved, disturbed, bounds>>

(* The task is entered: outside its hours the session ends, without a fob  *)
(* in place the selection starts again.                                    *)
(* EnterAlone is a variant that does not ask for the second user.          *)
EnterAlone ==
  /\ pc = "select"
  /\ ustask' = task_t
  /\ Setup(IF Cardinality(list) = 1 /\ Available(task_t) = {} THEN 0 ELSE mode, task_t, user_t)
  /\ UNCHANGED <<physical, seen, log, cur, back, check, user_t, task_t, code, list, single,
                 approved, disturbed, bounds>>
Enter ==
  /\ pc = "select"
  /\ ustask' = task_t
  /\ LET m == IF Cardinality(list) = 1 /\ Available(task_t) = {} THEN 0 ELSE mode
     IN \/ pc' = "closing" /\ UNCHANGED <<mode, entered, solenoid>>
        \/ /\ m = 1 /\ Available(task_t) = {}
           /\ pc' = IF single THEN "closing" ELSE "door"
           /\ UNCHANGED <<mode, entered, solenoid>>
        \/ /\ m # 1 \/ Available(task_t) # {}
           /\ IF task_t # None /\ Approvers[task_t] # {}
              THEN pc' = "second" /\ mode' = m /\ UNCHANGED <<entered, solenoid>>
              ELSE Setup(m, task_t, user_t)
  /\ UNCHANGED <<physical, seen, log, cur, back, check, user_t, task_t, code, list, single,
                 approved, disturbed, bounds>>

(* multiple_task_access: another user of the task as it was entered logs   *)
(* in; how many it takes is read from task_t then.  The first user's       *)
(* record is read again.                                                   *)
(* SecondKeeps is a variant that goes on with the second user's record.    *)
SecondKeeps ==
  /\ pc = "second"
  /\ ustask # None /\ task_t # None /\ Approvers[task_t] # {}
  /\ user_t' \in Approvers[ustask] \ {code} /\ approved' = TRUE
  /\ Setup(mode, task_t, user_t')
  /\ UNCHANGED <<physical, seen, log, cur, back, check, task_t, code, ustask, list, single,
                 disturbed, bounds>>
Second ==
  /\ pc = "second"
  /\ ustask # None /\ Approvers[ustask] \ {code} # {}
  /\ task_t # None /\ Approvers[task_t] # {}
  /\ user_t' = code /\ approved' = TRUE
  /\ Setup(mode, task_t, user_t')
  /\ UNCHANGED <<physical, seen, log, cur, back, check, task_t, code, ustask, list, single,
                 disturbed, bounds>>

(* The wait for the second user ends by ESC or by its time-out, after five *)
(* vain attempts, or with the door closed; only then the record of whoever *)
(* has tried is left in user_t, and the session is over.                   *)
SecondGivenUp ==
  /\ pc = "second"
  /\ \/ /\ pc' = IF Cardinality(list) = 1 \/ single THEN "closing" ELSE "door"
        /\ user_t' = code
     \/ /\ pc' = IF single THEN "closing" ELSE "door"
        /\ user_t' = code
     \/ /\ ~ door /\ pc' = "idle"
        /\ user_t' \in Users \union {None}
  /\ mode' = 1
  /\ UNCHANGED <<physical, solenoid, seen, log, cur, back, check, task_t, code, ustask,
                 list, single, entered, approved, disturbed, bounds>>

-----------------------------------------------------------------------------
(* The loops of user_mykee_task scan the slots in every turn.              *)
Look ==
  /\ pc \in {"select", "keys"} /\ seen # Scanned
  /\ seen' = Scanned
  /\ UNCHANGED <<physical, solenoid, log, pc, cur, back, check, user_t, task_t, menu,
                 entered, approved, disturbed, bounds>>

(* wrong_unauth_key_check: another fob in the slot of one that is out, or  *)
(* the fob of another user.                                                *)
FoundWrong(k) ==
  /\ pc \in {"select", "keys"}
  /\ status[k] = "OPEN" /\ seen[k] # None /\ (seen[k] # k \/ holder[k] # user_t)
  /\ pc' = "wrong" /\ cur' = k /\ back' = pc
  /\ solenoid' = solenoid \union {k}
  /\ UNCHANGED <<physical, seen, log, check, user_t, task_t, menu, entered, approved,
                 disturbed, bounds>>
(* WrongLeaves is a variant that leaves the slot released at the end.      *)
WrongLeaves ==
  /\ pc = "wrong" /\ seen' = Scanned
  /\ seen'[cur] = None \/ ~ door
  /\ pc' = back /\ UNCHANGED solenoid
  /\ UNCHANGED <<physical, log, cur, back, check, user_t, task_t, menu, entered, approved,
                 disturbed, bounds>>
WrongEnds ==
  /\ pc = "wrong" /\ seen' = Scanned
  /\ seen'[cur] = None \/ ~ door
  /\ pc' = back /\ solenoid' = solenoid \ {cur}
  /\ UNCHANGED <<physical, log, cur, back, check, user_t, task_t, menu, entered, approved,
                 disturbed, bounds>>

(* A fob that the user has taken is back.  It is logged after a wait, with *)
(* what user_t then holds.  In mode 0, unless the first scan has found it, *)
(* the session goes on as one that takes fobs.                             *)
FoundReturned(k) ==
  /\ pc \in {"select", "keys"}
  /\ status[k] = "OPEN" /\ seen[k] = k /\ holder[k] = user_t
  /\ pc' = "returning" /\ cur' = k /\ back' = pc
  /\ UNCHANGED <<physical, solenoid, seen, log, check, user_t, task_t, menu, entered,
                 approved, disturbed, bounds>>
Returned ==
  /\ pc = "returning" /\ pc' = back
  /\ status' = [status EXCEPT ![cur] = "CLOSED"]
  /\ holder' = [holder EXCEPT ![cur] = user_t]
  /\ mode' \in IF mode = 0 THEN {0, 1} ELSE {mode}
  /\ UNCHANGED <<physical, solenoid, seen, cur, back, check, user_t, task_t, code, ustask,
                 list, single, entered, approved, disturbed, bounds>>

(* A fob of the task is asked for by its number and released.              *)
(* ChooseAny is a variant that does not look at task_t.                    *)
ChooseAny(k) ==
  /\ pc = "keys" /\ mode = 1 /\ entered = None
  /\ status[k] = "CLOSED"
  /\ entered' = k /\ solenoid' = {k}
  /\ UNCHANGED <<physical, seen, log, pc, cur, back, check, user_t, task_t, menu,
                 approved, disturbed, bounds>>
Choose(k) ==
  /\ pc = "keys" /\ mode = 1 /\ entered = None
  /\ k \in Available(task_t)
  /\ entered' = k /\ solenoid' = {k}
  /\ UNCHANGED <<physical, seen, log, pc, cur, back, check, user_t, task_t, menu,
                 approved, disturbed, bounds>>

(* It is gone: the slot is locked and, after a wait, the removal logged.   *)
FoundTaken ==
  /\ pc = "keys" /\ entered # None
  /\ seen[entered] = None /\ status[entered] = "CLOSED"
  /\ pc' = "taking" /\ cur' = entered
  /\ entered' = None /\ solenoid' = solenoid \ {entered}
  /\ UNCHANGED <<physical, seen, log, back, check, user_t, task_t, menu, approved,
                 disturbed, bounds>>
Taken ==
  /\ pc = "taking" /\ pc' = IF mode = 2 THEN "closing" ELSE "keys"
  /\ status' = [status EXCEPT ![cur] = "OPEN"]
  /\ holder' = [holder EXCEPT ![cur] = user_t]
  /\ UNCHANGED <<physical, solenoid, seen, cur, back, check, user_t, task_t, menu,
                 entered, approved, disturbed, bounds>>

(* ESC, a time-out or a closed door, in any turn of a loop: a fob pulled   *)
(* after the scan is not logged here.                                      *)
Leave ==
  /\ pc \in {"select", "keys"}
  /\ pc' \in {"closing"} \union (IF pc = "keys" THEN {"idle"} ELSE {})
                        \union (IF pc = "keys" /\ ~ single THEN {"door"} ELSE {})
  /\ mode' = 1
  /\ entered' = None /\ solenoid' = {}
  /\ UNCHANGED <<physical, seen, log, cur, back, check, user_t, task_t, code, ustask, list,
                 single, approved, disturbed, bounds>>

(* The wait for the door to be closed; ESC goes back unless single.        *)
Closing ==
  /\ pc = "closing"
  /\ pc' \in IF single THEN {"idle"} ELSE {"idle", "door"}
  /\ mode' = 1
  /\ UNCHANGED <<physical, solenoid, seen, log, cur, back, check, user_t, task_t, code,
                 ustask, list, single, entered, approved, disturbed, bounds>>

-----------------------------------------------------------------------------
KeyCheck == CheckStart \/ (\E k \in Keys : CheckKey(k)) \/ CheckEnd
            \/ CheckRemoved \/ CheckReturned
Progress ==
  \/ Pin \/ Menu \/ DoorTimeout \/ SecondGivenUp \/ Returned \/ Taken \/ WrongEnds
  \/ Leave

Next ==
  \/ \E k \in Keys : Pull(k) \/ \E s \in Keys : Put(k, s)
  \/ CloseDoor \/ Server \/ KeyCheck \/ Progress
  \/ \E u \in Users : Identify(u)
  \/ DoorOpens \/ (\E t \in Tasks : Select(t)) \/ Enter \/ Second
  \/ Look \/ FoundTaken
  \/ \E k \in Keys : FoundWrong(k) \/ FoundReturned(k) \/ Choose(k)
  \/ Closing
Spec == Init /\ [][Next]_vars

(* The main loop goes on and every wait for a person has a time-out that   *)
(* each turn of its loop counts down; but for wrong_unauth_key_check, which *)
(* needs the door closed in the end.  ESC does not go back to the menu for *)
(* ever.                                                                   *)
FairSpec ==
  /\ Spec
  /\ WF_vars(KeyCheck) /\ WF_vars(Progress) /\ WF_vars(Closing) /\ WF_vars(CloseDoor)
  /\ SF_vars(Leave)
  /\ SF_vars((Leave \/ Closing \/ DoorTimeout \/ SecondGivenUp) /\ pc' = "idle")

-----------------------------------------------------------------------------
(* No more than the slot asked for and the one with a wrong fob are        *)
(* released at any time, and between sessions none is.                     *)
LockedAfterSession ==
  /\ pc \in Checking \union {"idle", "closing", "door"} => solenoid = {}
  /\ solenoid \subseteq {entered, cur}

(* The fob a session releases belongs to a task of the user who logged in, *)
(* and a task of two users has had the second one, unless the session has  *)
(* begun with the return of a fob and gone on to take one (mode 0, without *)
(* a selection).  The server may have changed the records in one of its    *)
(* waits; then it is not so.                                               *)
TurnedReturn == list = {} /\ mode # 2
HasRight(u, k) ==
  \E t \in TasksOf[u] : k \in KeysOf[t] /\ (Approvers[t] # {} => approved \/ TurnedReturn)
RightsRespected == entered # None /\ ~ disturbed => HasRight(code, entered)

(* A removal that a session logs, and a return, name the user who logged   *)
(* in, unless the server has changed user_t.                               *)
LoggedForUser ==
  [][\A k \in Keys : status'[k] # status[k] /\ pc \in Session /\ ~ disturbed
       => holder'[k] = code]_vars

(* Once people stop moving fobs, what is logged becomes what is in the     *)
(* cabinet, whichever way a fob came to where it is and however a session  *)
(* ended.                                                                  *)
CustodySettles ==
  \A k \in Keys : <>[](status[k] = "CLOSED" <=> at[k] = k)
=============================================================================
