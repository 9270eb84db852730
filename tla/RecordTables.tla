----------------------------- MODULE RecordTables -----------------------------
(***************************************************************************)
(* The user table and the task table in flash.  A record is overwritten    *)
(* with zeros when it is deleted or replaced and a new one goes into the   *)
(* first erased slot; the self alignment, at midnight or at boot, copies a *)
(* table to the backup block, erases it and writes the live records back.  *)
(* Both tables share the backup block and the word self_user_allign.       *)
(*                                                                         *)
(* A step is one flash operation; a reset may fall between any two.        *)
(***************************************************************************)
EXTENDS Integers, FiniteSets

CONSTANTS
  SLOTS,            \* records of a table (MAX_USERS_LOCATION, MAX_TASKS)
  SECTOR,           \* records in a flash sector
  UserIds, TaskIds, \* the ids the server uses
  Contents,         \* what a record holds besides its id
  MAX_RESETS        \* bound of the model: resets in a behaviour

ASSUME SlotsAssumption == SLOTS \in Nat \ {0} /\ SECTOR \in Nat \ {0} /\ SLOTS >= SECTOR
ASSUME NamesAssumption ==
  /\ {"FF", "00", "??", "none"} \intersect (UserIds \union TaskIds) = {}
  /\ "none" \notin Contents
ASSUME ResetsAssumption == MAX_RESETS \in Nat

Tables == {"user", "task"}
Ids(t) == IF t = "user" THEN UserIds ELSE TaskIds
Slots  == 0 .. SLOTS - 1

None   == "none"
Erased == [id |-> "FF", data |-> "FF"]
Zero   == [id |-> "00", data |-> "00"] \* user_id or task_id is 0
Mixed  == [id |-> "??", data |-> "??"] \* two records programmed over each other
Record(t) == [id : Ids(t), data : Contents] \union {Erased, Zero, Mixed}

VARIABLES
  rec,      \* USER_BLOCK and TASK_BLOCK
  backup,   \* BACKUP_BLOCK
  flag,     \* sys_t.self_user_allign: the tables to align
  pc,       \* the flash operation that is next
  tab, i, count, \* the alignment: its table, the slot it reads and the next to fill
  cur,      \* the command being carried out
  told,     \* history: the record of each id as the server was answered
  excused,  \* history: ids whose record a reset or a full table has taken
  resets    \* resets so far

aligning == <<tab, i, count>>
history  == <<told, excused, resets>>
vars == <<rec, backup, flag, pc, aligning, cur, history>>

Steps == {"idle", "flag", "write", "mark",
          "backup_erase", "copy", "erase", "erase_rest", "restore", "sys"}
AnyRecord == Record("user") \union Record("task")
NoCommand == [table |-> "user", id |-> None, data |-> None]

TypeOK ==
  /\ rec \in [Tables -> [Slots -> AnyRecord]]
  /\ \A t \in Tables, s \in Slots : rec[t][s] \in Record(t)
  /\ backup \in [Slots -> AnyRecord]
  /\ flag \subseteq Tables /\ pc \in Steps
  /\ tab \in Tables /\ i \in 0 .. SLOTS /\ count \in 0 .. SLOTS
  /\ cur.table \in Tables /\ cur.data \in Contents \union {None}
  /\ cur.id \in Ids(cur.table) \union {None}
  /\ \A t \in Tables :
       told[t] \in [Ids(t) -> Contents \union {None}] /\ excused[t] \subseteq Ids(t)
  /\ resets \in 0 .. MAX_RESETS

Init ==
  /\ rec = [t \in Tables |-> [s \in Slots |-> Erased]]
  /\ backup = [s \in Slots |-> Erased]
  /\ flag = {} /\ pc = "idle"
  /\ tab = "user" /\ i = 0 /\ count = 0 /\ cur = NoCommand
  /\ told = [t \in Tables |-> [id \in Ids(t) |-> None]]
  /\ excused = [t \in Tables |-> {}] /\ resets = 0

-----------------------------------------------------------------------------
(* Programming can only clear bits.  The and of two records is neither.    *)
FlashAnd(old, new) ==
  IF old = Erased \/ old = new THEN new
  ELSE IF new = Erased THEN old
  ELSE IF Zero \in {old, new} THEN Zero
  ELSE Mixed

(* SectorErase of the sector that starts at slot s.                        *)
EraseFrom(block, s) ==
  [k \in Slots |-> IF k \in s .. s + SECTOR - 1 THEN Erased ELSE block[k]]

(* The first erased slot, where every search of the code ends; SLOTS, none.*)
Free(t) ==
  IF \E s \in Slots : rec[t][s] = Erased
  THEN CHOOSE s \in Slots : rec[t][s] = Erased
                            /\ \A k \in 0 .. s - 1 : rec[t][k] # Erased
  ELSE SLOTS

(* find_user_sd1, read_task_status: the id is found before that slot.      *)
Find(t, id) == {s \in 0 .. Free(t) - 1 : rec[t][s].id = id}
Live(t) == {rec[t][s] : s \in Slots} \ {Erased, Zero}

-----------------------------------------------------------------------------
(* A command of the heartbeat server: add, change or delete a record.      *)
(* modify_user and add_task zero the old record, then look for a free slot.*)
(* ModifyKeeps is a variant that leaves the old record in place.           *)
ModifyKeeps(t, id, data) ==
  /\ pc = "idle"
  /\ pc' = IF t = "user" /\ Find(t, id) # {} /\ "user" \notin flag THEN "flag" ELSE "write"
  /\ cur' = [table |-> t, id |-> id, data |-> data]
  /\ UNCHANGED <<rec, backup, flag, aligning, history>>
Modify(t, id, data) ==
  /\ pc = "idle"
  /\ rec' = [rec EXCEPT ![t] = [s \in Slots |-> IF s \in Find(t, id) THEN Zero ELSE @[s]]]
  /\ pc' = IF t = "user" /\ Find(t, id) # {} /\ "user" \notin flag THEN "flag" ELSE "write"
  /\ cur' = [table |-> t, id |-> id, data |-> data]
  /\ UNCHANGED <<backup, flag, aligning, history>>

(* modify_user assigns self_user_allign, where delete_user sets its bit.   *)
FlagUser ==
  /\ pc = "flag" /\ pc' = "write"
  /\ flag' = {"user"}
  /\ UNCHANGED <<rec, backup, aligning, cur, history>>

WriteRecord ==
  /\ pc = "write" /\ Free(cur.table) < SLOTS
  /\ LET t == cur.table
         s == Free(t)
     IN  /\ rec' = [rec EXCEPT ![t][s] = [id |-> cur.id, data |-> cur.data]]
         /\ told' = [told EXCEPT ![t][cur.id] = cur.data]
         /\ excused' = [excused EXCEPT ![t] = @ \ {cur.id}]
         /\ pc' = IF t = "task" /\ t \notin flag THEN "mark" ELSE "idle"
         /\ cur' = IF pc' = "mark" THEN cur ELSE NoCommand
  /\ UNCHANGED <<backup, flag, aligning, resets>>

(* No slot is free: the answer is an overflow, or for a task none at all,  *)
(* and the old record is gone.                                             *)
Overflow ==
  /\ pc = "write" /\ Free(cur.table) = SLOTS
  /\ excused' = [excused EXCEPT ![cur.table] = @ \union {cur.id}]
  /\ pc' = "idle" /\ cur' = NoCommand
  /\ UNCHANGED <<rec, backup, flag, aligning, told, resets>>

(* delete_user and delete_task zero the first record with the id.          *)
Delete(t, id) ==
  /\ pc = "idle"
  /\ \E s \in Slots :
       /\ rec[t][s].id = id /\ \A k \in 0 .. s - 1 : rec[t][k].id # id
       /\ rec' = [rec EXCEPT ![t][s] = Zero]
  /\ told' = [told EXCEPT ![t][id] = None]
  /\ excused' = [excused EXCEPT ![t] = @ \ {id}]
  /\ pc' = IF t \in flag THEN "idle" ELSE "mark"
  /\ cur' = IF t \in flag THEN cur ELSE [table |-> t, id |-> id, data |-> None]
  /\ UNCHANGED <<backup, flag, aligning, resets>>

(* self_user_allign |= ... and write_system_sd.                            *)
Mark ==
  /\ pc = "mark" /\ pc' = "idle"
  /\ flag' = flag \union {cur.table} /\ cur' = NoCommand
  /\ UNCHANGED <<rec, backup, aligning, history>>

-----------------------------------------------------------------------------
(* alarm_handler at midnight, main at boot: the users, then the tasks.     *)
First(f) == IF "user" \in f THEN "user" ELSE "task"
(* StartAlignOn is a variant that does not start to fill from 0 again.     *)
StartAlignOn(f) ==
  /\ pc' = IF f = {} THEN "idle" ELSE "backup_erase"
  /\ tab' = IF f = {} THEN "user" ELSE First(f)
  /\ i' = 0 /\ UNCHANGED count
StartAlign(f) ==
  /\ pc' = IF f = {} THEN "idle" ELSE "backup_erase"
  /\ tab' = IF f = {} THEN "user" ELSE First(f)
  /\ i' = 0 /\ count' = 0
Midnight ==
  /\ pc = "idle" /\ flag # {} /\ StartAlign(flag)
  /\ UNCHANGED <<rec, backup, flag, cur, history>>

(* delete_backup_sector: i*1000 does not leave the block's first sector.   *)
BackupErase ==
  /\ pc = "backup_erase" /\ pc' = "copy"
  /\ backup' = EraseFrom(backup, 0)
  /\ UNCHANGED <<rec, flag, aligning, cur, history>>

(* The users are copied up to the first erased slot, all of the tasks.     *)
Copied == i \in Slots => tab = "user" /\ rec[tab][i] = Erased
Copy ==
  /\ pc = "copy" /\ ~ Copied
  /\ backup' = [backup EXCEPT ![i] = FlashAnd(@, rec[tab][i])]
  /\ i' = i + 1
  /\ UNCHANGED <<rec, flag, pc, tab, count, cur, history>>
CopyEnd ==
  /\ pc = "copy" /\ Copied
  /\ pc' = "erase" /\ i' = 0
  /\ UNCHANGED <<rec, backup, flag, tab, count, cur, history>>

(* delete_user_sector erases the first sector only, selftask_allign both.  *)
EraseTable ==
  /\ pc = "erase"
  /\ pc' = IF tab = "task" THEN "erase_rest" ELSE "restore"
  /\ rec' = [rec EXCEPT ![tab] = EraseFrom(@, 0)]
  /\ UNCHANGED <<backup, flag, aligning, cur, history>>
EraseRest ==
  /\ pc = "erase_rest" /\ pc' = "restore"
  /\ rec' = [rec EXCEPT ![tab] = EraseFrom(@, SECTOR)]
  /\ UNCHANGED <<backup, flag, aligning, cur, history>>

(* The records that are not zero go back, without gaps.                    *)
Restored == i \in Slots => backup[i] = Erased
(* RestoreInPlace is a variant that leaves gaps.                           *)
RestoreInPlace ==
  /\ pc = "restore" /\ ~ Restored
  /\ IF backup[i] = Zero THEN UNCHANGED <<rec, count>>
     ELSE /\ rec' = [rec EXCEPT ![tab][i] = FlashAnd(@, backup[i])]
          /\ count' = count + 1
  /\ i' = i + 1
  /\ UNCHANGED <<backup, flag, pc, tab, cur, history>>
Restore ==
  /\ pc = "restore" /\ ~ Restored
  /\ IF backup[i] = Zero THEN UNCHANGED <<rec, count>>
     ELSE /\ rec' = [rec EXCEPT ![tab][count] = FlashAnd(@, backup[i])]
          /\ count' = count + 1
  /\ i' = i + 1
  /\ UNCHANGED <<backup, flag, pc, tab, cur, history>>
RestoreEnd ==
  /\ pc = "restore" /\ Restored
  /\ IF tab = "user" /\ "task" \in flag
     THEN StartAlign({"task"})
     ELSE pc' = "sys" /\ UNCHANGED aligning
  /\ UNCHANGED <<rec, backup, flag, cur, history>>
SysWrite ==
  /\ pc = "sys" /\ StartAlign({})
  /\ flag' = {}
  /\ UNCHANGED <<rec, backup, cur, history>>

-----------------------------------------------------------------------------
(* A reset; boot aligns the tables that f names.  write_system_sd erases   *)
(* its sector and then writes it: caught in between, boot reads 0xFF.      *)
Lost(t) ==
  IF pc \in {"flag", "write"} /\ cur.table = t THEN {cur.id}
  ELSE IF pc \in {"erase_rest", "restore"} /\ tab = t THEN Ids(t) ELSE {}
Boot(f) ==
  /\ resets < MAX_RESETS /\ resets' = resets + 1
  /\ flag' = f /\ StartAlign(f)
  /\ cur' = NoCommand
  /\ excused' = [t \in Tables |-> excused[t] \union Lost(t)]
  /\ UNCHANGED <<rec, backup, told>>
Reset == Boot(flag)
ResetInSys == pc \in {"flag", "mark", "sys"} /\ Boot(Tables)

Align == BackupErase \/ Copy \/ CopyEnd \/ EraseTable \/ EraseRest
         \/ Restore \/ RestoreEnd \/ SysWrite

(* A cabinet with no more records than a sector holds.                     *)
Fits(t) == Free(t) < SECTOR

Next ==
  \/ \E t \in Tables : \E id \in Ids(t) :
       (Fits(t) /\ \E data \in Contents : Modify(t, id, data)) \/ Delete(t, id)
  \/ FlagUser \/ WriteRecord \/ Mark
  \/ Midnight \/ Align
  \/ Reset \/ ResetInSys
Spec == Init /\ [][Next]_vars

(* Any cabinet.                                                            *)
FullNext ==
  \/ \E t \in Tables : \E id \in Ids(t) :
       (\E data \in Contents : Modify(t, id, data)) \/ Delete(t, id)
  \/ FlagUser \/ WriteRecord \/ Overflow \/ Mark
  \/ Midnight \/ Align
  \/ Reset \/ ResetInSys
FullSpec == Init /\ [][FullNext]_vars

-----------------------------------------------------------------------------
(* Between commands and alignments the tables hold the records the server  *)
(* has been told of and no others: none lost, none back from the dead.     *)
(* Excused are the ids whose command a reset has cut, all of a table when  *)
(* it has cut its alignment after the erase, and those of an overflow.     *)
TablesAsTold ==
  pc = "idle" =>
    \A t \in Tables : \A id \in Ids(t) \ excused[t] :
      {r \in Live(t) : r.id = id} =
        IF told[t][id] = None THEN {} ELSE {[id |-> id, data |-> told[t][id]]}

(* Every search ends at the first erased slot: whatever alignments and     *)
(* resets have been, no live record lies behind it, and none is there      *)
(* twice.                                                                  *)
SearchFinds ==
  pc = "idle" =>
    \A t \in Tables, s \in Slots :
      rec[t][s] \notin {Erased, Zero} => Find(t, rec[t][s].id) = {s}

=============================================================================
