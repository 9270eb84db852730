------------------------------- MODULE Biometric -------------------------------
(***************************************************************************)
(* The fingerprint module and the flags of the user table that let its     *)
(* answers open a session.  The module keeps the templates, two of a user, *)
(* under the user's id; the table keeps finger_enabled.  The enrolment,    *)
(* the deletion, the cleanup that CMD_ADD_EDIT_USER_T asks for and the     *)
(* deletion of all users change one after the other, and every wait of     *)
(* them polls the heartbeat client, whose commands change the table and    *)
(* user_t, the record all of them work on.                                 *)
(***************************************************************************)
EXTENDS Integers, FiniteSets

CONSTANTS
  Ids,        \* user ids the server gives
  TEST_ID,    \* the id CMD_ADD_EDIT_USER_T edits (3333)
  WIDTH,      \* ids are cut to 16 bits in some arguments (2^16)
  People,     \* who can be enrolled
  SLOTS,      \* records of the user table (MAX_USERS_LOCATION)
  MAX_CMDS,   \* bound of the model: commands about users
  MAX_FAULTS, \* bound of the model: answers lost, misread or refused
  MAX_RESETS  \* bound of the model: resets in a behaviour

ASSUME IdsAssumption ==
  Ids \subseteq Nat \ {0} /\ TEST_ID \in Ids /\ WIDTH \in Nat \ {0}
ASSUME SlotsAssumption == SLOTS \in Nat \ {0} /\ 0 \notin People
ASSUME BoundsAssumption == MAX_CMDS \in Nat /\ MAX_FAULTS \in Nat /\ MAX_RESETS \in Nat

VARIABLES
  rec,             \* USER_BLOCK
  user_t,          \* the record in memory that everything shares
  templates,       \* the database of the module
  bio_delete_flag, \* a cleanup is asked for
  pc, uci,         \* what the main loop waits in, the slot of the cleanup
  code,            \* the user the menus or the cleanup work for
  person,          \* who puts a finger on the sensor in an enrolment
  session,         \* the session a finger has opened
  excused,         \* history: ids for which something went wrong on the way
  crossed,         \* history: ids deleted in the menus that enrol them
  cmds, faults, resets \* bounds

work    == <<pc, uci, code, person>>
history == <<excused, crossed>>
bounds  == <<cmds, faults, resets>>
vars == <<rec, user_t, templates, bio_delete_flag, work, session, history, bounds>>

(* by: login_type, 6 or another.  finger: finger_enabled, 0xFF when not    *)
(* enrolled.  who: whom the server gave the id to; the code has no such    *)
(* field.  A record is deleted by its id alone, the rest of it stays.      *)
Logins  == {"finger", "other"}
Flags   == {"FF", "1", "0"}
Records == [id : Ids \union {0}, by : Logins, finger : Flags, who : People]
Erased  == [id |-> -1, by |-> "other", finger |-> "FF", who |-> 0]
Mixed   == [id |-> -2, by |-> "other", finger |-> "0", who |-> 0]
Template == [id : Ids, finger : {1, 2}, who : People]

Slots   == 0 .. SLOTS - 1
None    == [code |-> 0, rec |-> Erased, who |-> 0]
Menus   == {"enrol", "enrol1", "enrol2", "save", "undo1", "undo2"}
Cleanup == {"scan", "scan1", "scan2", "scan_write"}
Waits   == {"idle", "session", "delete", "delete1", "delete2", "flags", "align", "wipe"}
             \union Menus \union Cleanup

TypeOK ==
  /\ rec \in [Slots -> Records \union {Erased, Mixed}]
  /\ user_t \in Records \union {Erased, Mixed}
  /\ templates \subseteq Template
  /\ bio_delete_flag \in BOOLEAN /\ pc \in Waits \union {"restore"}
  /\ uci \in 0 .. SLOTS /\ code \in Ids \union {0, -1, -2}
  /\ person \in People \union {0}
  /\ session.code \in Ids \union {0} /\ session.who \in People \union {0}
  /\ session.rec \in Records \union {Erased}
  /\ (session # None) = (pc = "session")
  /\ excused \subseteq Ids /\ crossed \subseteq Ids
  /\ cmds \in 0 .. MAX_CMDS /\ faults \in 0 .. MAX_FAULTS /\ resets \in 0 .. MAX_RESETS

Init ==
  /\ rec = [s \in Slots |-> Erased] /\ user_t = Erased
  /\ templates = {} /\ bio_delete_flag = FALSE
  /\ pc = "idle" /\ uci = 0 /\ code = 0 /\ person = 0 /\ session = None
  /\ excused = {} /\ crossed = {} /\ cmds = 0 /\ faults = 0 /\ resets = 0

-----------------------------------------------------------------------------
(* Programming clears bits only; two records over each other are neither.  *)
FlagAnd(old, new) ==
  IF "0" \in {old, new} THEN "0" ELSE IF old = "FF" THEN new ELSE old
FlashAnd(old, new) ==
  IF old = Erased THEN new
  ELSE IF new = Erased THEN old
  ELSE IF 0 \in {old.id, new.id}
       THEN [old EXCEPT !.id = 0, !.finger = FlagAnd(@, new.finger)]
  ELSE IF [old EXCEPT !.finger = "0"] # [new EXCEPT !.finger = "0"] THEN Mixed
  ELSE [old EXCEPT !.finger = FlagAnd(@, new.finger)]
(* user_t is followed where it is read after a wait, in the cleanup.       *)
Load(r) == user_t' = IF pc \in Cleanup THEN r ELSE Erased
Write(s, r) == rec' = [rec EXCEPT ![s] = FlashAnd(@, r)]

(* Every search of the table ends at the first erased slot.                *)
Used   == {s \in Slots : \A k \in 0 .. s : rec[k] # Erased}
Of(id) == {s \in Used : rec[s].id = id}
Live   == {s \in Used : rec[s].id > 0}
First(S) == CHOOSE s \in S : \A k \in S : s <= k

(* check_user_bio takes an u16_t: an id that does not fit is looked up as  *)
(* another, and a deleted record (id 0) answers for a multiple of 2^16.    *)
(* AnyRecord is a variant that does not ask for the flag.                  *)
AnyRecord(id) == {s \in Slots : rec[s].id = id % WIDTH}
check_user_bio(id) == {s \in Slots : rec[s].id = id % WIDTH /\ rec[s].finger = "1"}

TemplatesOf(id) == {t \in templates : t.id = id}
Enrolled(id) == {t.finger : t \in TemplatesOf(id)} = {1, 2}

-----------------------------------------------------------------------------
(* The heartbeat client carries out a command in a wait.  modify_user      *)
(* zeroes the old record, the new one goes to the first erased slot with   *)
(* the flag of the old one.  A new id is given to somebody who has none.   *)
Edit(u, by) ==
  /\ pc \in Waits /\ cmds < MAX_CMDS /\ cmds' = cmds + 1
  /\ Used # Slots
  /\ \E p \in People :
       /\ IF Of(u) # {} THEN p = rec[First(Of(u))].who
          ELSE \A s \in Live : rec[s].who # p
       /\ LET new == [id |-> u, by |-> by, who |-> p,
                      finger |-> IF check_user_bio(u) # {} THEN "1" ELSE "FF"]
          IN  /\ Load(new)
              /\ rec' = [s \in Slots |->
                           IF s \in Of(u) THEN [rec[s] EXCEPT !.id = 0]
                           ELSE IF s = First(Slots \ Used) THEN new ELSE rec[s]]
  /\ UNCHANGED <<templates, work, session, crossed, faults, resets>>

(* A command in a wait of the cleanup puts another record into user_t.     *)
Overtaken(u) ==
  IF pc \in Cleanup \ {"scan"} THEN {code, u, rec[uci].id} \intersect Ids ELSE {}
(* An edited record takes the flag of the id it is cut to.                 *)
Cut(u) == IF u < WIDTH THEN {} ELSE {u}

(* CMD_ADD_MOD_USER.                                                       *)
CmdAddModUser(u, by) ==
  /\ Edit(u, by)
  /\ excused' = excused \union Overtaken(u) \union Cut(u)
  /\ UNCHANGED bio_delete_flag
(* CMD_ADD_EDIT_USER_T also asks for the cleanup.                          *)
CmdAddEditUserT(by) ==
  /\ Edit(TEST_ID, by)
  /\ bio_delete_flag' = (bio_delete_flag \/ (by = "other" /\ check_user_bio(TEST_ID) # {}))
  /\ excused' = excused \union Overtaken(TEST_ID) \union Cut(TEST_ID)

(* CMD_DEL_USER: the templates stay in the module.                         *)
CmdDelUser(u) ==
  /\ pc \in Waits /\ cmds < MAX_CMDS /\ cmds' = cmds + 1
  /\ Of(u) # {}
  /\ LET s == First(Of(u)) IN
       /\ rec' = [rec EXCEPT ![s].id = 0]
       /\ Load(rec'[s])
  /\ crossed' = IF pc \in Menus /\ code = u THEN crossed \union {u} ELSE crossed
  /\ excused' = excused \union Overtaken(u)
                  \union (IF TemplatesOf(u) # {} \/ u \in crossed' THEN {u} ELSE {})
  /\ UNCHANGED <<templates, bio_delete_flag, work, session, faults, resets>>

-----------------------------------------------------------------------------
(* The main loop has the module look for a finger.  GETRESULT names the    *)
(* user of a template, and check_user_bio leaves that user's record in     *)
(* user_t for the session.  (A disabled user is only shown a message.)     *)
FingerLogin(t) ==
  /\ pc = "idle"
  /\ check_user_bio(t.id) # {}
  /\ LET r == rec[First(check_user_bio(t.id))] IN
       /\ Load(r)
       /\ session' = [code |-> t.id, rec |-> r, who |-> t.who]
  /\ pc' = "session"
  /\ UNCHANGED <<rec, templates, bio_delete_flag, uci, code, person, history, bounds>>
(* LogoutKeeps is a variant that does not end the session.                 *)
LogoutKeeps ==
  /\ pc = "session" /\ pc' = "idle"
  /\ UNCHANGED <<rec, user_t, templates, bio_delete_flag, uci, code, person, session,
                 history, bounds>>
Logout ==
  /\ pc = "session" /\ pc' = "idle" /\ session' = None
  /\ UNCHANGED <<rec, user_t, templates, bio_delete_flag, uci, code, person, history,
                 bounds>>

-----------------------------------------------------------------------------
Fault(id) ==
  /\ faults < MAX_FAULTS /\ faults' = faults + 1
  /\ excused' = excused \union ({id} \intersect Ids)

(* The module reports an enrolment only when CMD_CHECK_STATUS has named    *)
(* the command; it keeps one template of a finger of a user.               *)
Store(f) ==
  templates' = {t \in templates : ~ (t.id = code /\ t.finger = f)}
                 \union {[id |-> code, finger |-> f, who |-> person]}
(* delete_userrecord takes what it finds in the buffer for the answer: a   *)
(* late one to another command, or a part, reads as success or failure.    *)
delete_userrecord(id, f, ok) ==
  \E done \in BOOLEAN :
    /\ templates' = IF ~ done THEN templates
                    ELSE {t \in templates : ~ (t.id = id /\ t.finger = f)}
    /\ IF ok /\ done THEN UNCHANGED <<excused, faults>> ELSE Fault(id)

Goto(step) ==
  /\ pc' = step /\ UNCHANGED uci
  /\ code' = IF step = "idle" THEN 0 ELSE code
  /\ person' = IF step = "idle" THEN 0 ELSE person
memory == <<user_t, bio_delete_flag, session, crossed, cmds, resets>>
quiet == <<memory, faults>>

(* add_enrollment: a user without fingers is chosen with the arrows.  (At  *)
(* the end of the list the search returns 0; ENTER then enrols a user 0,   *)
(* whom no result of the module can name, and nothing here sees it.)       *)
ChooseNew ==
  /\ pc = "idle" \/ pc = "enrol"
  /\ \E s \in Live :
       /\ rec[s].finger = "FF" /\ rec[s].by = "finger"
       /\ code' = rec[s].id /\ person' = rec[s].who
  /\ pc' = "enrol"
  /\ UNCHANGED <<rec, templates, uci, excused, quiet>>
EnrolEnter ==
  /\ pc = "enrol" /\ Goto("enrol1")
  /\ UNCHANGED <<rec, templates, excused, quiet>>
LeaveMenu ==
  /\ pc \in {"enrol", "delete"} /\ Goto("idle")
  /\ UNCHANGED <<rec, templates, excused, quiet>>

(* add_enrollment_user: the finger is known, refused or not put down; or   *)
(* it is stored and the report is lost; or it is stored.                   *)
EnrolFails(from, to) ==
  /\ pc = from /\ Goto(to)
  /\ UNCHANGED <<rec, templates, excused, quiet>>
EnrolUnheard(from, f, to) ==
  /\ pc = from /\ Goto(to) /\ Store(f) /\ Fault(code)
  /\ UNCHANGED <<rec, memory>>
EnrolDone(from, f, to) ==
  /\ pc = from /\ Goto(to) /\ Store(f)
  /\ UNCHANGED <<rec, excused, quiet>>

(* The first finger is deleted when an enrolment fails.  UndoNothing is a  *)
(* variant that leaves it.                                                 *)
UndoNothing(from, to) ==
  /\ pc = from /\ Goto(to)
  /\ UNCHANGED <<rec, templates, excused, quiet>>
Undo(from, to) ==
  /\ pc = from /\ Goto(to)
  /\ \E ok \in BOOLEAN : delete_userrecord(code, 1, ok)
  /\ UNCHANGED <<rec, memory>>

save_user_details ==
  /\ pc = "save" /\ Goto("idle")
  /\ IF Of(code) = {} THEN UNCHANGED <<rec, excused>>
     ELSE LET s == First(Of(code)) IN
          /\ Write(s, [rec[s] EXCEPT !.finger = "1"])
          /\ excused' = excused \ {code}
  /\ UNCHANGED <<templates, quiet>>

Enrolment ==
  \/ ChooseNew \/ EnrolEnter
  \/ EnrolFails("enrol1", "undo1") \/ EnrolFails("enrol2", "undo2")
  \/ EnrolUnheard("enrol1", 1, "undo1") \/ EnrolUnheard("enrol2", 2, "undo2")
  \/ EnrolDone("enrol1", 1, "enrol2") \/ EnrolDone("enrol2", 2, "save")
  \/ Undo("undo1", "idle") \/ Undo("undo2", "enrol")
  \/ save_user_details

-----------------------------------------------------------------------------
(* delete_enrollment: the fingers, then the flag, then the alignment that  *)
(* makes it 0xFF.  The user shown first may have any login.                *)
ChooseEnrolled ==
  /\ pc = "idle" \/ pc = "delete"
  /\ LET flagged == {s \in Live : rec[s].finger = "1"} IN
       \E s \in flagged :
         /\ rec[s].by = "finger" \/ (pc = "idle" /\ s = First(flagged))
         /\ code' = rec[s].id
  /\ pc' = "delete"
  /\ UNCHANGED <<rec, templates, uci, person, excused, quiet>>
DeleteEnter ==
  /\ pc = "delete" /\ Goto("delete1")
  /\ UNCHANGED <<rec, templates, excused, quiet>>
DeleteFinger(from, f, to) ==
  /\ pc = from
  /\ \E ok \in BOOLEAN :
       /\ delete_userrecord(code, f, ok)
       /\ Goto(IF ok THEN to ELSE "delete")
  /\ UNCHANGED <<rec, memory>>

(* chage_bioflag(u16_t): 0 stands for all users.  An id that is cut keeps  *)
(* its flag, and those it is cut to lose theirs.                           *)
Unflag(id) ==
  {s \in Used : IF id % WIDTH = 0 THEN rec[s].finger = "1" ELSE rec[s].id = id % WIDTH}
chage_bioflag ==
  /\ pc = "flags" /\ Goto(IF Unflag(code) = {} THEN "idle" ELSE "align")
  /\ rec' = [s \in Slots |->
               IF s \in Unflag(code) THEN [rec[s] EXCEPT !.finger = "0"] ELSE rec[s]]
  /\ excused' = IF Cut(code) # {}
                 THEN excused \union Cut(code)
                        \union ({rec[s].id : s \in Unflag(code)} \intersect Ids)
                 ELSE IF TemplatesOf(code) = {} THEN excused \ {code} ELSE excused
  /\ UNCHANGED <<templates, quiet>>

(* self_user_allign_bio erases the table between two steps without a wait  *)
(* and without a mark for the boot that may follow.                        *)
AlignErase ==
  /\ pc = "align" /\ Goto("restore")
  /\ UNCHANGED <<rec, templates, excused, quiet>>
Renewed(r) == IF r.finger = "0" /\ r # Mixed THEN [r EXCEPT !.finger = "FF"] ELSE r
AlignRestore ==
  /\ pc = "restore" /\ Goto("idle")
  /\ LET kept == {s \in Used : rec[s].id # 0}
         place(s) == Cardinality({k \in kept : k < s})
     IN  rec' = [n \in Slots |->
                   IF \E s \in kept : place(s) = n
                   THEN Renewed(rec[CHOOSE s \in kept : place(s) = n])
                   ELSE Erased]
  /\ UNCHANGED <<templates, excused, quiet>>

Deletion ==
  \/ ChooseEnrolled \/ DeleteEnter
  \/ DeleteFinger("delete1", 1, "delete2") \/ DeleteFinger("delete2", 2, "flags")
  \/ chage_bioflag \/ AlignErase \/ AlignRestore

-----------------------------------------------------------------------------
(* bio_verification, at the top of the main loop.                          *)
StartCleanup ==
  /\ pc = "idle" /\ bio_delete_flag
  /\ pc' = "scan" /\ uci' = 0
  /\ UNCHANGED <<rec, templates, code, person, excused, quiet>>
Scan ==
  /\ pc = "scan" /\ uci < SLOTS
  /\ user_t' = rec[uci]
  /\ IF user_t'.by # "finger" /\ user_t'.finger = "1"
     THEN pc' = "scan1" /\ code' = user_t'.id /\ UNCHANGED uci
     ELSE uci' = uci + 1 /\ UNCHANGED <<pc, code>>
  /\ UNCHANGED <<rec, templates, bio_delete_flag, person, session, history, bounds>>

(* The second deletion takes the user from user_t again, and the flag is   *)
(* written to the slot of the scan with whatever user_t then holds.        *)
ScanFinger(from, f, to) ==
  /\ pc = from
  /\ \E ok \in BOOLEAN :
       /\ delete_userrecord(code, f, ok)
       /\ pc' = IF ok THEN to ELSE "scan"
       /\ uci' = IF ok THEN uci ELSE uci + 1
       /\ code' = IF ok THEN user_t.id ELSE code
  /\ UNCHANGED <<rec, person, memory>>
ScanWrite ==
  /\ pc = "scan_write" /\ pc' = "scan" /\ uci' = uci + 1
  /\ user_t' = [user_t EXCEPT !.finger = "0"]
  /\ Write(uci, user_t')
  /\ UNCHANGED <<templates, bio_delete_flag, code, person, session, history, bounds>>
ScanEnd ==
  /\ pc = "scan" /\ uci = SLOTS
  /\ Load(Erased) /\ pc' = "idle" /\ uci' = 0 /\ code' = 0
  /\ bio_delete_flag' = FALSE
  /\ UNCHANGED <<rec, templates, person, session, history, bounds>>

bio_verification ==
  \/ StartCleanup \/ Scan
  \/ ScanFinger("scan1", 1, "scan2") \/ ScanFinger("scan2", 2, "scan_write")
  \/ ScanWrite \/ ScanEnd

-----------------------------------------------------------------------------
(* delete_alluser: the table, then the database of the module, whose       *)
(* failure is not reported.                                                *)
EraseUsers ==
  /\ pc = "idle" /\ Goto("wipe")
  /\ rec' = [s \in Slots |-> Erased]
  /\ UNCHANGED <<templates, excused, quiet>>
DeleteDatabase ==
  /\ pc = "wipe" /\ Goto("idle")
  /\ \/ templates' = {} /\ UNCHANGED <<excused, faults>>
     \/ /\ faults < MAX_FAULTS /\ faults' = faults + 1
        /\ excused' = excused \union {id \in Ids : TemplatesOf(id) # {}}
        /\ UNCHANGED templates
  /\ UNCHANGED <<rec, memory>>

(* A reset: the request of a cleanup is lost, and all users when it falls  *)
(* into the alignment.                                                     *)
Reset ==
  /\ resets < MAX_RESETS /\ resets' = resets + 1
  /\ pc' = "idle" /\ uci' = 0 /\ session' = None
  /\ user_t' = Erased /\ bio_delete_flag' = FALSE
  /\ code' = 0 /\ person' = 0
  /\ rec' = IF pc = "restore" THEN [s \in Slots |-> Erased] ELSE rec
  /\ excused' = excused \union
       IF pc \in {"restore", "wipe"} THEN Ids
       ELSE IF pc \in {"idle", "session", "align"} THEN {} ELSE {code} \intersect Ids
  /\ UNCHANGED <<templates, crossed, cmds, faults>>

Next ==
  \/ \E u \in Ids, by \in Logins : CmdAddModUser(u, by)
  \/ \E by \in Logins : CmdAddEditUserT(by)
  \/ \E u \in Ids : CmdDelUser(u)
  \/ \E t \in templates : FingerLogin(t)
  \/ Logout
  \/ Enrolment \/ Deletion \/ LeaveMenu
  \/ bio_verification
  \/ EraseUsers \/ DeleteDatabase
  \/ Reset
Spec == Init /\ [][Next]_vars

-----------------------------------------------------------------------------
(* Between two pieces of work of the main loop the table and the module    *)
(* agree: a live user with the flag has both fingers in the module, and    *)
(* nobody else has any, whatever failed, was given up or was edited by the *)
(* server on the way.  Excused are ids with an answer lost or misread, a   *)
(* deletion refused, a command in the middle of their cleanup, a reset in  *)
(* the middle of the work on them, deleted users the module still has, and *)
(* the ids that an id above 2^16, edited or deleted in the menu, is taken  *)
(* for, with that id itself.                                               *)
FlagMatchesTemplates ==
  pc \in {"idle", "session"} =>
    \A id \in Ids \ excused :
      IF \E s \in Live : rec[s].id = id /\ rec[s].finger = "1"
      THEN Enrolled(id) ELSE TemplatesOf(id) = {}

(* A session that the finger of an id below 2^16 opens runs with the       *)
(* record of the very person, under that record's id: not for a template   *)
(* left in the module when its user was deleted and the id given to        *)
(* another, nor after any failure or reset, nor with the flag of an id     *)
(* that is cut.  Crossed are ids the server deleted while they were        *)
(* enrolled.                                                               *)
FingerOpensOwn ==
  session # None /\ session.code \notin crossed /\ session.code < WIDTH =>
    session.rec.id = session.code /\ session.rec.who = session.who

=============================================================================
