-------------------------- MODULE RecordTablesProofs --------------------------
(***************************************************************************)
(* For any number of slots, ids, contents and resets: as long as a table   *)
(* fits in one flash sector it holds what the server was told, and every   *)
(* search finds its record.                                                *)
(*                                                                         *)
(* The alignment takes a table apart: from the erase on it is the backup   *)
(* that holds the records, and the table only those written back so far.   *)
(* AlignInv says which, and ToldInv compares with the one that holds them. *)
(***************************************************************************)
EXTENDS RecordTables, WellFoundedInduction, TLAPS

(* A block whose records are those of table t, in the first sector, with   *)
(* no gap, no id twice and no two records over each other.                 *)
Stored(b, t) == \A s \in Slots : b[s] \in Record(t) \ {Mixed}
Packed(b)    == \A s, k \in Slots : k < s /\ b[s] # Erased => b[k] # Erased
Once(b, t)   == \A s, k \in Slots : b[s].id \in Ids(t) /\ b[s].id = b[k].id => s = k
InSector(b)  == \A s \in Slots : s >= SECTOR => b[s] = Erased
Good(b, t)   == Stored(b, t) /\ Packed(b) /\ Once(b, t) /\ InSector(b)

TablesInv == (\A t \in Tables : Good(rec[t], t)) /\ InSector(backup)

(* A command that has zeroed the old record has room for the new one.      *)
CommandInv == pc \in {"flag", "write"} =>
  /\ cur.id \in Ids(cur.table) /\ cur.data \in Contents
  /\ \A s \in Slots : rec[cur.table][s].id # cur.id
  /\ \E s \in Slots : s < SECTOR /\ rec[cur.table][s] = Erased

(* How far the alignment is.                                               *)
Restoring == {"erase_rest", "restore"}
AlignInv ==
  /\ pc \in {"backup_erase", "copy", "erase", "erase_rest"} => count = 0
  /\ pc \in {"backup_erase", "erase", "erase_rest"} => i = 0
  /\ pc = "copy" => \A s \in Slots : backup[s] = IF s < i THEN rec[tab][s] ELSE Erased
  /\ pc = "erase" => \A s \in Slots : backup[s] = rec[tab][s]
  /\ pc \in Restoring =>
       /\ Good(backup, tab) /\ count <= i
       /\ \A s \in Slots : IF s < count THEN rec[tab][s] \notin {Erased, Zero}
                           ELSE rec[tab][s] = Erased
       /\ \A s \in Slots : s < count => \E k \in Slots : k < i /\ rec[tab][s] = backup[k]
       /\ \A k \in Slots : k < i /\ backup[k] # Zero =>
            \E s \in Slots : s < count /\ rec[tab][s] = backup[k]

(* The block that holds the records of a table, and what it should hold.   *)
Source(t) == IF pc \in Restoring /\ tab = t THEN backup ELSE rec[t]
Holds(b, id, d) == \E s \in Slots : b[s] = [id |-> id, data |-> d]
AsTold(b, t, id) == \A d \in Contents : Holds(b, id, d) <=> told[t][id] = d
Changing(t, id) == pc \in {"flag", "write"} /\ cur.table = t /\ cur.id = id
ToldInv == \A t \in Tables : \A id \in Ids(t) \ excused[t] :
  ~ Changing(t, id) => AsTold(Source(t), t, id)

HistoryInv == /\ told = [t \in Tables |-> told[t]]
              /\ excused = [t \in Tables |-> excused[t]]

IInv == TypeOK /\ HistoryInv /\ TablesInv /\ CommandInv /\ AlignInv /\ ToldInv


-----------------------------------------------------------------------------
(* Among numbers one is the least.                                         *)
LEMMA LeastExists ==
  ASSUME NEW S \in SUBSET Nat, S # {}
  PROVE  \E m \in S : \A k \in S : m <= k
<1>1. \E x \in S : \A y \in S : ~ (<<y, x>> \in OpToRel(<, Nat))
  BY WFMin, NatLessThanWellFounded, Zenon
<1>2. PICK x \in S : \A y \in S : ~ (<<y, x>> \in OpToRel(<, Nat))
  BY <1>1
<1>3. \A y \in S : ~ (y < x)
  BY <1>2, Zenon DEF OpToRel
<1> QED
  BY <1>3

LEMMA ConstantsType ==
  /\ SLOTS \in Nat \ {0} /\ SECTOR \in Nat \ {0} /\ SLOTS >= SECTOR /\ MAX_RESETS \in Nat
  /\ None \notin Contents /\ \A t \in Tables : None \notin Ids(t)
BY SlotsAssumption, NamesAssumption, ResetsAssumption DEF None, Ids, Tables

(* A record has an id of the server, or is erased or zero.                 *)
LEMMA RecordFacts ==
  ASSUME NEW t \in Tables
  PROVE  /\ Erased \in Record(t) \ {Mixed} /\ Zero \in Record(t) \ {Mixed} /\ Erased # Zero
         /\ Erased.id \notin Ids(t) /\ Zero.id \notin Ids(t)
         /\ \A r \in Record(t) \ {Mixed} : r.id \in Ids(t) <=> r \notin {Erased, Zero}
         /\ \A r \in Record(t) \ {Mixed, Erased, Zero} :
              r.data \in Contents /\ r = [id |-> r.id, data |-> r.data]
         /\ \A id \in Ids(t), d \in Contents :
              [id |-> id, data |-> d] \in Record(t) \ {Mixed, Erased, Zero}
<1>1. "FF" \notin Ids(t) /\ "00" \notin Ids(t) /\ "??" \notin Ids(t)
  BY NamesAssumption DEF Ids
<1>2. /\ Erased.id = "FF" /\ Zero.id = "00" /\ Mixed.id = "??"
  BY DEF Erased, Zero, Mixed
<1>3. Erased # Zero /\ Erased # Mixed /\ Zero # Mixed
  BY <1>2
<1>4. ASSUME NEW r \in [id : Ids(t), data : Contents]
      PROVE  /\ r.id \in Ids(t) /\ r.data \in Contents /\ r = [id |-> r.id, data |-> r.data]
             /\ r \notin {Erased, Zero, Mixed}
  BY <1>1, <1>2
<1>5. \A r \in Record(t) \ {Mixed, Erased, Zero} : r \in [id : Ids(t), data : Contents]
  BY DEF Record
<1>6. \A id \in Ids(t), d \in Contents :
        LET r == [id |-> id, data |-> d] IN r \in [id : Ids(t), data : Contents] /\ r \in Record(t)
  BY DEF Record
<1>7. \A r \in Record(t) \ {Mixed} : r.id \in Ids(t) <=> r \notin {Erased, Zero}
  BY <1>1, <1>2, <1>4, <1>5
<1>8. Erased \in Record(t) /\ Zero \in Record(t)
  BY DEF Record
<1> QED
  BY <1>1, <1>2, <1>3, <1>4, <1>5, <1>6, <1>7, <1>8

(* What the flash operations keep of a block.                              *)
LEMMA ErasedIsGood ==
  ASSUME NEW t \in Tables, NEW b, \A s \in Slots : b[s] = Erased
  PROVE  Good(b, t)
BY RecordFacts DEF Good, Stored, Packed, Once, InSector

LEMMA ZeroKeeps ==
  ASSUME NEW t \in Tables, NEW b, Good(b, t), NEW c,
         \A s \in Slots : c[s] = b[s] \/ (c[s] = Zero /\ b[s] # Erased)
  PROVE  Good(c, t)
<1>1. Stored(c, t)
  BY RecordFacts DEF Good, Stored
<1>2. \A s \in Slots : c[s] # Erased <=> b[s] # Erased
  BY RecordFacts
<1>3. Packed(c) /\ InSector(c)
  BY <1>2 DEF Good, Packed, InSector
<1>4. \A s \in Slots : c[s].id \in Ids(t) => c[s] = b[s]
  BY RecordFacts
<1>5. Once(c, t)
  BY <1>4 DEF Good, Once
<1> QED
  BY <1>1, <1>3, <1>5 DEF Good

LEMMA PutKeeps ==
  ASSUME NEW t \in Tables, NEW b, Good(b, t), NEW c,
         NEW f \in Slots, f < SECTOR, b[f] = Erased, \A k \in Slots : k < f => b[k] # Erased,
         NEW r \in Record(t) \ {Mixed, Erased, Zero}, \A s \in Slots : b[s].id # r.id,
         \A s \in Slots : c[s] = IF s = f THEN r ELSE b[s]
  PROVE  Good(c, t)
<1>0. f \in Int /\ \A k \in Slots : k \in Int
  BY DEF Slots
<1>1. Stored(c, t)
  BY DEF Good, Stored
<1>2. Packed(c)
  <2>1. ASSUME NEW s \in Slots, NEW k \in Slots, k < s, c[s] # Erased PROVE c[k] # Erased
    <3>1. CASE s = f
      BY <1>0, <2>1, <3>1
    <3>2. CASE s # f
      BY <2>1, <3>2 DEF Good, Packed
    <3> QED
      BY <3>1, <3>2
  <2> QED
    BY <2>1 DEF Packed
<1>3. Once(c, t)
  BY DEF Good, Once
<1>4. InSector(c)
  BY <1>0, ConstantsType DEF Good, InSector
<1> QED
  BY <1>1, <1>2, <1>3, <1>4 DEF Good

LEMMA EraseDoes ==
  ASSUME NEW b, InSector(b)
  PROVE  \A s \in Slots : EraseFrom(b, 0)[s] = Erased /\ EraseFrom(b, SECTOR)[s] = b[s]
<1>1. ASSUME NEW s \in Slots PROVE EraseFrom(b, 0)[s] = Erased
  <2>1. s \in 0 .. 0 + SECTOR - 1 \/ s >= SECTOR
    BY ConstantsType DEF Slots
  <2> QED
    BY <2>1 DEF EraseFrom, InSector
<1>2. ASSUME NEW s \in Slots PROVE EraseFrom(b, SECTOR)[s] = b[s]
  <2>1. s \in SECTOR .. SECTOR + SECTOR - 1 => s >= SECTOR
    BY ConstantsType DEF Slots
  <2> QED
    BY <2>1 DEF EraseFrom, InSector
<1> QED
  BY <1>1, <1>2

(* A search that ends at the first erased slot finds every record.         *)
LEMMA FreeIs ==
  ASSUME NEW t \in Tables, Packed(rec[t])
  PROVE  /\ Free(t) \in 0 .. SLOTS
         /\ \A s \in Slots : s < Free(t) <=> rec[t][s] # Erased
<1> DEFINE S == {s \in Slots : rec[t][s] = Erased}
           P(s) == rec[t][s] = Erased /\ \A k \in 0 .. s - 1 : rec[t][k] # Erased
<1>0. \A s \in Slots : s \in Nat /\ s < SLOTS /\ s \in Int
  BY ConstantsType DEF Slots
<1>1. CASE S # {}
  <2>1. PICK m \in S : \A k \in S : m <= k
    BY <1>0, <1>1, LeastExists
  <2>2. m \in Slots /\ P(m)
    BY <2>1, ConstantsType DEF Slots
  <2>3. Free(t) = CHOOSE s \in Slots : P(s)
    BY <2>2 DEF Free
  <2>4. Free(t) \in Slots /\ P(Free(t))
    BY <2>2, <2>3
  <2>5. Free(t) \in 0 .. SLOTS
    BY <2>4, ConstantsType DEF Slots
  <2>6. ASSUME NEW s \in Slots, s < Free(t) PROVE rec[t][s] # Erased
    BY <2>4, <2>6, <1>0 DEF Slots
  <2>7. ASSUME NEW s \in Slots, rec[t][s] # Erased PROVE s < Free(t)
    <3>1. ~ (Free(t) < s) /\ s # Free(t)
      BY <2>4, <2>7 DEF Packed
    <3> QED
      BY <1>0, <2>4, <3>1
  <2> QED
    BY <2>5, <2>6, <2>7
<1>2. CASE S = {}
  <2>1. Free(t) = SLOTS
    BY <1>2 DEF Free
  <2> QED
    BY <1>0, <1>2, <2>1, ConstantsType
<1> QED
  BY <1>1, <1>2

LEMMA FindIs ==
  ASSUME NEW t \in Tables, Packed(rec[t]), NEW id \in Ids(t)
  PROVE  Find(t, id) = {s \in Slots : rec[t][s].id = id}
<1>1. \A s : s \in 0 .. Free(t) - 1 => s \in Slots
  BY FreeIs, ConstantsType DEF Slots
<1>2. ASSUME NEW s \in Slots, rec[t][s].id = id PROVE s \in 0 .. Free(t) - 1
  <2>1. rec[t][s] # Erased
    BY <1>2, RecordFacts
  <2>2. s < Free(t)
    BY <2>1, FreeIs
  <2> QED
    BY <2>2, FreeIs, ConstantsType DEF Slots
<1> QED
  BY <1>1, <1>2 DEF Find


-----------------------------------------------------------------------------
(* What the steps that change a table do to it.                            *)
LEMMA TypeFacts ==
  ASSUME TypeOK
  PROVE  /\ rec \in [Tables -> [Slots -> AnyRecord]] /\ backup \in [Slots -> AnyRecord]
         /\ \A t \in Tables : Record(t) \subseteq AnyRecord
         /\ \A t \in Tables, s \in Slots : rec[t][s] \in Record(t)
BY DEF TypeOK, AnyRecord, Tables

LEMMA ModifyDoes ==
  ASSUME TypeOK, TablesInv, NEW t \in Tables, NEW id \in Ids(t), NEW data \in Contents,
         Modify(t, id, data)
  PROVE  /\ rec' \in [Tables -> [Slots -> AnyRecord]]
         /\ \A u \in Tables \ {t} : rec'[u] = rec[u]
         /\ \A s \in Slots : rec'[t][s] = IF rec[t][s].id = id THEN Zero ELSE rec[t][s]
<1> DEFINE new == [s \in Slots |-> IF s \in Find(t, id) THEN Zero ELSE rec[t][s]]
<1>1. rec' = [rec EXCEPT ![t] = new]
  BY DEF Modify
<1>2. new \in [Slots -> AnyRecord]
  BY TypeFacts, RecordFacts
<1>3. \A s \in Slots : s \in Find(t, id) <=> rec[t][s].id = id
  BY FindIs DEF TablesInv, Good
<1>4. \A s \in Slots : new[s] = IF rec[t][s].id = id THEN Zero ELSE rec[t][s]
  BY <1>3
<1> HIDE DEF new
<1> QED
  BY <1>1, <1>2, <1>4, TypeFacts

LEMMA WriteDoes ==
  ASSUME TypeOK, TablesInv, CommandInv, WriteRecord
  PROVE  /\ rec' \in [Tables -> [Slots -> AnyRecord]]
         /\ \A u \in Tables \ {cur.table} : rec'[u] = rec[u]
         /\ \E f \in Slots :
              /\ f < SECTOR /\ rec[cur.table][f] = Erased
              /\ \A k \in Slots : k < f => rec[cur.table][k] # Erased
              /\ \A s \in Slots : rec'[cur.table][s] =
                   IF s = f THEN [id |-> cur.id, data |-> cur.data] ELSE rec[cur.table][s]
<1> DEFINE t == cur.table
           r == [id |-> cur.id, data |-> cur.data]
<1>t. t \in Tables
  BY DEF TypeOK
<1>c. cur.id \in Ids(t) /\ cur.data \in Contents
  BY DEF WriteRecord, CommandInv
<1>1. PICK f \in 0 .. SLOTS : f = Free(t) /\ \A s \in Slots : s < f <=> rec[t][s] # Erased
  BY <1>t, FreeIs DEF TablesInv, Good
<1>2. f \in Slots /\ f < SLOTS
  BY <1>1, ConstantsType DEF WriteRecord, Slots
<1>3. PICK s \in Slots : s < SECTOR /\ rec[t][s] = Erased
  BY DEF WriteRecord, CommandInv
<1>4. f < SECTOR
  BY <1>1, <1>2, <1>3, ConstantsType DEF Slots
<1>5. rec[t][f] = Erased
  BY <1>1, <1>2 DEF Slots
<1>6. rec' = [rec EXCEPT ![t][f] = r]
  BY <1>1 DEF WriteRecord
<1>7. r \in AnyRecord
  BY <1>t, <1>c, RecordFacts, TypeFacts
<1> HIDE DEF r, t
<1>8. rec' \in [Tables -> [Slots -> AnyRecord]]
  BY <1>t, <1>2, <1>6, <1>7, TypeFacts
<1>9. /\ \A u \in Tables \ {t} : rec'[u] = rec[u]
      /\ \A k \in Slots : rec'[t][k] = IF k = f THEN r ELSE rec[t][k]
  BY <1>t, <1>2, <1>6, TypeFacts
<1> QED
  BY <1>1, <1>2, <1>4, <1>5, <1>8, <1>9 DEF r, t

LEMMA DeleteDoes ==
  ASSUME TypeOK, TablesInv, NEW t \in Tables, NEW id \in Ids(t), Delete(t, id)
  PROVE  /\ rec' \in [Tables -> [Slots -> AnyRecord]]
         /\ \A u \in Tables \ {t} : rec'[u] = rec[u]
         /\ \A s \in Slots : rec'[t][s] = IF rec[t][s].id = id THEN Zero ELSE rec[t][s]
<1>1. PICK s \in Slots : rec[t][s].id = id /\ rec' = [rec EXCEPT ![t][s] = Zero]
  BY DEF Delete
<1>2. \A k \in Slots : rec[t][k].id = id <=> k = s
  BY <1>1 DEF TablesInv, Good, Once
<1>3. Zero \in AnyRecord
  BY TypeFacts, RecordFacts
<1>4. rec' \in [Tables -> [Slots -> AnyRecord]]
  BY <1>1, <1>3, TypeFacts
<1>5. /\ \A u \in Tables \ {t} : rec'[u] = rec[u]
      /\ \A k \in Slots : rec'[t][k] = IF k = s THEN Zero ELSE rec[t][k]
  BY <1>1, TypeFacts
<1> QED
  BY <1>2, <1>4, <1>5

LEMMA EraseTableDoes ==
  ASSUME TypeOK, TablesInv, AlignInv, EraseTable \/ EraseRest
  PROVE  /\ rec' \in [Tables -> [Slots -> AnyRecord]]
         /\ \A u \in Tables \ {tab} : rec'[u] = rec[u]
         /\ \A s \in Slots : rec'[tab][s] = Erased
<1>t. tab \in Tables /\ InSector(rec[tab])
  BY DEF TypeOK, TablesInv, Good
<1>1. ASSUME NEW f \in {0, SECTOR}, rec' = [rec EXCEPT ![tab] = EraseFrom(rec[tab], f)]
      PROVE  /\ rec' \in [Tables -> [Slots -> AnyRecord]]
             /\ \A u \in Tables \ {tab} : rec'[u] = rec[u]
             /\ \A s \in Slots : rec'[tab][s] = EraseFrom(rec[tab], f)[s]
  <2>1. EraseFrom(rec[tab], f) \in [Slots -> AnyRecord]
    BY <1>t, TypeFacts, RecordFacts DEF EraseFrom
  <2> QED
    BY <1>t, <1>1, <2>1, TypeFacts
<1>2. CASE EraseTable
  <2>1. rec' = [rec EXCEPT ![tab] = EraseFrom(rec[tab], 0)]
    BY <1>2 DEF EraseTable
  <2> QED
    BY <1>t, <1>1, <2>1, EraseDoes
<1>3. CASE EraseRest
  <2>1. rec' = [rec EXCEPT ![tab] = EraseFrom(rec[tab], SECTOR)]
    BY <1>3 DEF EraseRest
  <2>2. \A s \in Slots : rec[tab][s] = Erased
    <3>1. count = 0 /\ pc \in Restoring
      BY <1>3 DEF EraseRest, AlignInv, Restoring
    <3>2. \A s \in Slots : ~ (s < 0)
      BY DEF Slots
    <3> QED
      BY <3>1, <3>2 DEF AlignInv
  <2> QED
    BY <1>t, <1>1, <2>1, <2>2, EraseDoes
<1> QED
  BY <1>2, <1>3

LEMMA RestoreDoes ==
  ASSUME TypeOK, TablesInv, AlignInv, Restore
  PROVE  /\ i \in Slots /\ i < SECTOR /\ backup[i] # Erased /\ backup[i] \in Record(tab) \ {Mixed}
         /\ \/ backup[i] = Zero /\ UNCHANGED <<rec, count>>
            \/ /\ backup[i] # Zero /\ count' = count + 1 /\ count \in Slots /\ count < SECTOR
               /\ rec' \in [Tables -> [Slots -> AnyRecord]]
               /\ \A u \in Tables \ {tab} : rec'[u] = rec[u]
               /\ \A s \in Slots : rec'[tab][s] = IF s = count THEN backup[i] ELSE rec[tab][s]
<1>1. /\ tab \in Tables /\ count <= i /\ Good(backup, tab)
      /\ i \in 0 .. SLOTS /\ count \in 0 .. SLOTS
  BY DEF TypeOK, Restore, AlignInv, Restoring
<1>2. i \in Slots /\ backup[i] # Erased
  BY DEF Restore, Restored
<1>3. i < SECTOR /\ backup[i] \in Record(tab) \ {Mixed}
  BY <1>1, <1>2, ConstantsType DEF Good, InSector, Stored, Slots
<1>4. CASE backup[i] = Zero
  BY <1>2, <1>3, <1>4 DEF Restore
<1>5. CASE backup[i] # Zero
  <2>1. count \in Slots /\ count < SECTOR
    BY <1>1, <1>2, <1>3, ConstantsType DEF Slots
  <2>2. rec[tab][count] = Erased
    BY <2>1 DEF Restore, AlignInv, Restoring, Slots
  <2>3. /\ rec' = [rec EXCEPT ![tab][count] = FlashAnd(rec[tab][count], backup[i])]
        /\ count' = count + 1
    BY <1>5 DEF Restore
  <2>4. rec' = [rec EXCEPT ![tab][count] = backup[i]]
    BY <2>2, <2>3 DEF FlashAnd
  <2>5. rec' \in [Tables -> [Slots -> AnyRecord]]
    BY <1>1, <1>2, <2>1, <2>4, TypeFacts
  <2>6. /\ \A u \in Tables \ {tab} : rec'[u] = rec[u]
        /\ \A s \in Slots : rec'[tab][s] = IF s = count THEN backup[i] ELSE rec[tab][s]
    BY <1>1, <2>1, <2>4, TypeFacts
  <2> QED
    BY <1>2, <1>3, <1>5, <2>1, <2>3, <2>5, <2>6
<1> QED
  BY <1>4, <1>5

LEMMA CopyDoes ==
  ASSUME TypeOK, TablesInv, AlignInv, Copy
  PROVE  /\ i \in Slots /\ i' = i + 1
         /\ backup' \in [Slots -> AnyRecord]
         /\ \A s \in Slots : backup'[s] = IF s = i THEN rec[tab][s] ELSE backup[s]
<1>1. i \in Slots /\ tab \in Tables
  BY DEF Copy, Copied, TypeOK
<1>2. backup[i] = Erased
  BY <1>1 DEF Copy, AlignInv, Slots
<1>3. backup' = [backup EXCEPT ![i] = rec[tab][i]] /\ i' = i + 1
  BY <1>2 DEF Copy, FlashAnd
<1>4. rec[tab][i] \in AnyRecord
  BY <1>1, TypeFacts
<1>5. backup' \in [Slots -> AnyRecord]
  BY <1>3, <1>4, TypeFacts
<1>6. \A s \in Slots : backup'[s] = IF s = i THEN rec[tab][s] ELSE backup[s]
  BY <1>1, <1>3, TypeFacts
<1> QED
  BY <1>1, <1>3, <1>5, <1>6


LEMMA StartIs ==
  ASSUME NEW f, StartAlign(f)
  PROVE  pc' \in {"idle", "backup_erase"} /\ tab' \in Tables /\ i' = 0 /\ count' = 0
BY DEF StartAlign, First, Tables

(* The steps that start an alignment, and those of a command, change       *)
(* neither a table nor the backup.                                         *)
Starts == Midnight \/ RestoreEnd \/ SysWrite \/ Reset \/ ResetInSys
LEMMA StartsDo ==
  ASSUME TypeOK, Starts
  PROVE  /\ UNCHANGED <<rec, backup, told>> /\ flag' \subseteq Tables
         /\ pc' \in {"idle", "backup_erase", "sys"} /\ tab' \in Tables
         /\ \/ i' = 0 /\ count' = 0
            \/ pc' = "sys" /\ UNCHANGED <<i, count>>
         /\ \/ ~ (Reset \/ ResetInSys) /\ UNCHANGED <<cur, excused, resets>>
            \/ /\ resets < MAX_RESETS /\ resets' = resets + 1 /\ cur' = NoCommand
               /\ pc' # "sys"
               /\ excused' = [t \in Tables |-> excused[t] \union Lost(t)]
<1>0. flag \subseteq Tables /\ tab \in Tables
  BY DEF TypeOK
<1>1. ASSUME NEW f \in SUBSET Tables, Boot(f), Reset \/ ResetInSys
      PROVE  /\ UNCHANGED <<rec, backup, told>> /\ flag' \subseteq Tables
             /\ pc' \in {"idle", "backup_erase"} /\ tab' \in Tables
             /\ i' = 0 /\ count' = 0
             /\ resets < MAX_RESETS /\ resets' = resets + 1 /\ cur' = NoCommand
             /\ excused' = [t \in Tables |-> excused[t] \union Lost(t)]
  BY <1>1, StartIs DEF Boot
<1>2. ASSUME Reset \/ ResetInSys PROVE \E f \in SUBSET Tables : Boot(f)
  BY <1>0, <1>2 DEF Reset, ResetInSys
<1>3. CASE Reset \/ ResetInSys
  BY <1>1, <1>2, <1>3
<1>4. CASE Midnight /\ ~ (Reset \/ ResetInSys)
  BY <1>0, <1>4, StartIs DEF Midnight, history
<1>5. CASE RestoreEnd /\ ~ (Reset \/ ResetInSys)
  BY <1>0, <1>5, StartIs DEF RestoreEnd, history, aligning
<1>6. CASE SysWrite /\ ~ (Reset \/ ResetInSys)
  BY <1>0, <1>6, StartIs DEF SysWrite, history
<1> QED
  BY <1>3, <1>4, <1>5, <1>6 DEF Starts

LEMMA TypeStep ==
  TypeOK /\ HistoryInv /\ TablesInv /\ CommandInv /\ AlignInv /\ [Next]_vars
    => TypeOK' /\ HistoryInv'
<1> SUFFICES ASSUME TypeOK, HistoryInv, TablesInv, CommandInv, AlignInv, [Next]_vars
             PROVE  TypeOK' /\ HistoryInv'
  OBVIOUS
<1> DEFINE RecType == /\ rec \in [Tables -> [Slots -> AnyRecord]]
                      /\ \A t \in Tables, s \in Slots : rec[t][s] \in Record(t)
           CurType == /\ cur.table \in Tables /\ cur.data \in Contents \union {None}
                      /\ cur.id \in Ids(cur.table) \union {None}
           ToldType == \A t \in Tables : told[t] \in [Ids(t) -> Contents \union {None}]
           ExcusedType == \A t \in Tables : excused[t] \subseteq Ids(t)
           StepType == /\ flag \subseteq Tables /\ pc \in Steps /\ tab \in Tables
                       /\ i \in 0 .. SLOTS /\ count \in 0 .. SLOTS
<1>0. /\ RecType /\ backup \in [Slots -> AnyRecord] /\ StepType /\ CurType
      /\ ToldType /\ ExcusedType /\ resets \in 0 .. MAX_RESETS
      /\ told = [t \in Tables |-> told[t]] /\ excused = [t \in Tables |-> excused[t]]
  BY DEF TypeOK, HistoryInv
<1>q. ASSUME RecType', backup' \in [Slots -> AnyRecord], StepType', CurType', ToldType',
             ExcusedType', resets' \in 0 .. MAX_RESETS, HistoryInv'
      PROVE  TypeOK' /\ HistoryInv'
  BY <1>q DEF TypeOK
<1>h. UNCHANGED <<told, excused>> => ToldType' /\ ExcusedType' /\ HistoryInv'
  BY <1>0 DEF HistoryInv
<1>r. UNCHANGED rec => RecType'
  BY <1>0
<1>1. ASSUME NEW t \in Tables, NEW id \in Ids(t), NEW data \in Contents, Modify(t, id, data)
      PROVE  TypeOK' /\ HistoryInv'
  <2>1. RecType'
    <3>1. ASSUME NEW u \in Tables, NEW s \in Slots PROVE rec'[u][s] \in Record(u)
      BY <1>1, ModifyDoes, TypeFacts, RecordFacts
    <3> QED
      BY <1>1, <3>1, ModifyDoes
  <2>2. /\ UNCHANGED <<backup, flag, tab, i, count, told, excused, resets>>
        /\ pc' \in {"flag", "write"} /\ cur' = [table |-> t, id |-> id, data |-> data]
    BY <1>1 DEF Modify, aligning, history
  <2>3. StepType' /\ CurType'
    BY <1>0, <2>2 DEF Steps
  <2> QED
    BY <1>0, <1>q, <1>h, <2>1, <2>2, <2>3
<1>2. ASSUME NEW t \in Tables, NEW id \in Ids(t), Delete(t, id)
      PROVE  TypeOK' /\ HistoryInv'
  <2>1. RecType'
    <3>1. ASSUME NEW u \in Tables, NEW s \in Slots PROVE rec'[u][s] \in Record(u)
      BY <1>2, DeleteDoes, TypeFacts, RecordFacts
    <3> QED
      BY <1>2, <3>1, DeleteDoes
  <2>2. /\ UNCHANGED <<backup, flag, tab, i, count, resets>>
        /\ pc' \in {"idle", "mark"}
        /\ cur' = cur \/ cur' = [table |-> t, id |-> id, data |-> None]
        /\ told' = [told EXCEPT ![t] = [told[t] EXCEPT ![id] = None]]
        /\ excused' = [excused EXCEPT ![t] = excused[t] \ {id}]
    BY <1>2 DEF Delete, aligning, history
  <2>3. StepType' /\ CurType'
    BY <1>0, <2>2 DEF Steps
  <2>4. ToldType' /\ ExcusedType' /\ HistoryInv'
    BY <1>0, <2>2 DEF HistoryInv
  <2> QED
    BY <1>0, <1>q, <2>1, <2>2, <2>3, <2>4
<1>3. CASE FlagUser \/ Mark
  <2>1. /\ UNCHANGED <<rec, backup, tab, i, count, told, excused, resets>>
        /\ pc' \in {"write", "idle"} /\ cur' \in {cur, NoCommand} /\ flag' \subseteq Tables
    BY <1>0, <1>3 DEF FlagUser, Mark, aligning, history, Tables
  <2>2. StepType' /\ CurType'
    BY <1>0, <2>1 DEF Steps, NoCommand, Tables
  <2> QED
    BY <1>0, <1>q, <1>h, <1>r, <2>1, <2>2
<1>4. CASE WriteRecord
  <2>0. cur.table \in Tables /\ cur.id \in Ids(cur.table) /\ cur.data \in Contents
    BY <1>0, <1>4 DEF WriteRecord, CommandInv
  <2>1. RecType'
    <3>1. ASSUME NEW u \in Tables, NEW s \in Slots PROVE rec'[u][s] \in Record(u)
      BY <1>4, <2>0, WriteDoes, TypeFacts, RecordFacts
    <3> QED
      BY <1>4, <3>1, WriteDoes
  <2>2. /\ UNCHANGED <<backup, flag, tab, i, count, resets>>
        /\ pc' \in {"idle", "mark"} /\ cur' \in {cur, NoCommand}
        /\ told' = [told EXCEPT ![cur.table] = [told[cur.table] EXCEPT ![cur.id] = cur.data]]
        /\ excused' = [excused EXCEPT ![cur.table] = excused[cur.table] \ {cur.id}]
    BY <1>4 DEF WriteRecord, aligning
  <2>3. StepType' /\ CurType'
    BY <1>0, <2>2 DEF Steps, NoCommand, Tables
  <2>4. ToldType' /\ ExcusedType' /\ HistoryInv'
    BY <1>0, <2>0, <2>2 DEF HistoryInv
  <2> QED
    BY <1>0, <1>q, <2>1, <2>2, <2>3, <2>4
<1>5. CASE Starts
  <2>1. StepType'
    BY <1>0, <1>5, StartsDo, ConstantsType DEF Steps
  <2>2. RecType' /\ backup' \in [Slots -> AnyRecord] /\ ToldType'
    BY <1>0, <1>5, StartsDo
  <2>3. CurType' /\ ExcusedType' /\ HistoryInv' /\ resets' \in 0 .. MAX_RESETS
    <3>1. CASE UNCHANGED <<cur, excused, resets>>
      BY <1>0, <1>5, <3>1, StartsDo DEF HistoryInv
    <3>2. CASE /\ resets < MAX_RESETS /\ resets' = resets + 1 /\ cur' = NoCommand
               /\ excused' = [t \in Tables |-> excused[t] \union Lost(t)]
      <4>1. ASSUME NEW t \in Tables,
                   pc \in {"flag", "write"} /\ cur.table = t => cur.id \in Ids(t)
            PROVE  Lost(t) \subseteq Ids(t)
        BY <4>1 DEF Lost
      <4>2. \A t \in Tables : Lost(t) \subseteq Ids(t)
        BY <4>1 DEF CommandInv
      <4>3. ExcusedType' /\ HistoryInv'
        BY <1>0, <1>5, <3>2, <4>2, StartsDo DEF HistoryInv
      <4>4. CurType' /\ resets' \in 0 .. MAX_RESETS
        BY <1>0, <3>2, ConstantsType DEF NoCommand, Tables
      <4> QED
        BY <4>3, <4>4
    <3> QED
      BY <1>5, <3>1, <3>2, StartsDo
  <2> QED
    BY <1>q, <2>1, <2>2, <2>3
<1>6. CASE BackupErase
  <2>1. EraseFrom(backup, 0) \in [Slots -> AnyRecord]
    BY <1>0, RecordFacts, TypeFacts DEF EraseFrom, Tables
  <2>2. /\ UNCHANGED <<rec, flag, tab, i, count, cur, told, excused, resets>>
        /\ pc' = "copy" /\ backup' \in [Slots -> AnyRecord]
    BY <1>6, <2>1 DEF BackupErase, aligning, history
  <2> QED
    BY <1>0, <1>q, <1>h, <1>r, <2>2 DEF Steps
<1>7. CASE Copy
  <2>1. /\ UNCHANGED <<rec, flag, pc, tab, count, cur, told, excused, resets>>
        /\ i' \in 0 .. SLOTS /\ backup' \in [Slots -> AnyRecord]
    BY <1>7, CopyDoes, ConstantsType DEF Copy, history, Slots
  <2> QED
    BY <1>0, <1>q, <1>h, <1>r, <2>1
<1>8. CASE CopyEnd
  <2>1. /\ UNCHANGED <<rec, backup, flag, tab, count, cur, told, excused, resets>>
        /\ i' \in 0 .. SLOTS /\ pc' = "erase"
    BY <1>8, ConstantsType DEF CopyEnd, history
  <2> QED
    BY <1>0, <1>q, <1>h, <1>r, <2>1 DEF Steps
<1>9. CASE EraseTable \/ EraseRest
  <2>1. RecType'
    <3>1. ASSUME NEW u \in Tables, NEW s \in Slots PROVE rec'[u][s] \in Record(u)
      BY <1>9, EraseTableDoes, TypeFacts, RecordFacts
    <3> QED
      BY <1>9, <3>1, EraseTableDoes
  <2>2. /\ UNCHANGED <<backup, flag, tab, i, count, cur, told, excused, resets>>
        /\ pc' \in Restoring
    BY <1>9 DEF EraseTable, EraseRest, aligning, history, Restoring
  <2> QED
    BY <1>0, <1>q, <1>h, <2>1, <2>2 DEF Steps, Restoring
<1>10. CASE Restore
  <2>1. RecType'
    <3>1. ASSUME NEW u \in Tables, NEW s \in Slots PROVE rec'[u][s] \in Record(u)
      BY <1>10, <1>0, RestoreDoes, TypeFacts
    <3> QED
      BY <1>0, <1>10, <3>1, RestoreDoes
  <2>2. /\ UNCHANGED <<backup, flag, pc, tab, cur, told, excused, resets>> /\ i' = i + 1
    BY <1>10 DEF Restore, history
  <2>3. i' \in 0 .. SLOTS /\ count' \in 0 .. SLOTS
    BY <1>0, <1>10, <2>2, RestoreDoes, ConstantsType DEF Slots
  <2> QED
    BY <1>0, <1>q, <1>h, <2>1, <2>2, <2>3
<1>11. CASE UNCHANGED vars
  BY <1>11 DEF TypeOK, HistoryInv, vars, aligning, history
<1> QED
  BY <1>1, <1>2, <1>3, <1>4, <1>5, <1>6, <1>7, <1>8, <1>9, <1>10, <1>11 DEF Next, Align, Starts


-----------------------------------------------------------------------------
(* The tables stay as they should be, also while the alignment rebuilds    *)
(* one of them.                                                            *)
LEMMA TablesStep ==
  ASSUME TypeOK, TablesInv, CommandInv, AlignInv, [Next]_vars
  PROVE  TablesInv'
<1>0. /\ \A t \in Tables : Good(rec[t], t) /\ InSector(rec[t])
      /\ InSector(backup) /\ tab \in Tables /\ cur.table \in Tables
  BY DEF TablesInv, Good, TypeOK
<1>q. ASSUME NEW u \in Tables, \A t \in Tables \ {u} : rec'[t] = rec[t], Good(rec'[u], u),
             UNCHANGED backup
      PROVE  TablesInv'
  BY <1>0, <1>q DEF TablesInv
<1>1. ASSUME NEW t \in Tables, NEW id \in Ids(t),
             \A u \in Tables \ {t} : rec'[u] = rec[u],
             \A s \in Slots : rec'[t][s] = IF rec[t][s].id = id THEN Zero ELSE rec[t][s],
             UNCHANGED backup
      PROVE  TablesInv'
  <2>1. \A s \in Slots : rec'[t][s] = rec[t][s] \/ (rec'[t][s] = Zero /\ rec[t][s] # Erased)
    BY <1>1, RecordFacts
  <2>2. Good(rec'[t], t)
    BY <1>0, <2>1, ZeroKeeps
  <2> QED
    BY <1>1, <1>q, <2>2
<1>2. ASSUME NEW t \in Tables, NEW id \in Ids(t), NEW data \in Contents, Modify(t, id, data)
      PROVE  TablesInv'
  BY <1>1, <1>2, ModifyDoes DEF Modify
<1>3. ASSUME NEW t \in Tables, NEW id \in Ids(t), Delete(t, id) PROVE TablesInv'
  BY <1>1, <1>3, DeleteDoes DEF Delete
<1>4. CASE WriteRecord
  <2> DEFINE t == cur.table
             r == [id |-> cur.id, data |-> cur.data]
  <2>1. PICK f \in Slots :
          /\ f < SECTOR /\ rec[t][f] = Erased
          /\ \A k \in Slots : k < f => rec[t][k] # Erased
          /\ \A s \in Slots : rec'[t][s] = IF s = f THEN r ELSE rec[t][s]
    BY <1>4, WriteDoes
  <2>2. /\ cur.id \in Ids(t) /\ cur.data \in Contents
        /\ \A s \in Slots : rec[t][s].id # cur.id
    BY <1>4 DEF WriteRecord, CommandInv
  <2>3. r \in Record(t) \ {Mixed, Erased, Zero} /\ r.id = cur.id
    BY <1>0, <2>2, RecordFacts
  <2> HIDE DEF r
  <2>4. Good(rec'[t], t)
    BY <1>0, <2>1, <2>2, <2>3, PutKeeps
  <2>5. UNCHANGED backup /\ \A u \in Tables \ {t} : rec'[u] = rec[u]
    BY <1>4, WriteDoes DEF WriteRecord
  <2> QED
    BY <1>0, <1>q, <2>4, <2>5
<1>5. CASE UNCHANGED <<rec, backup>>
  BY <1>5 DEF TablesInv
<1>6. CASE BackupErase
  <2>1. backup' = EraseFrom(backup, 0) /\ UNCHANGED rec
    BY <1>6 DEF BackupErase
  <2>2. InSector(backup')
    BY <1>0, <2>1, EraseDoes DEF InSector
  <2> QED
    BY <2>1, <2>2 DEF TablesInv
<1>7. CASE Copy
  <2>1. InSector(backup')
    BY <1>0, <1>7, CopyDoes DEF InSector
  <2>2. UNCHANGED rec
    BY <1>7 DEF Copy
  <2> QED
    BY <2>1, <2>2 DEF TablesInv
<1>8. CASE EraseTable \/ EraseRest
  <2>1. Good(rec'[tab], tab) /\ UNCHANGED backup
    BY <1>0, <1>8, EraseTableDoes, ErasedIsGood DEF EraseTable, EraseRest
  <2> QED
    BY <1>0, <1>8, <1>q, <2>1, EraseTableDoes
<1>9. CASE Restore
  <2>1. UNCHANGED backup
    BY <1>9 DEF Restore
  <2>2. CASE UNCHANGED rec
    BY <1>5, <2>1, <2>2
  <2>3. CASE ~ UNCHANGED rec
    <3>1. /\ i \in Slots /\ backup[i] # Erased /\ backup[i] # Zero
          /\ backup[i] \in Record(tab) \ {Mixed}
          /\ count \in Slots /\ count < SECTOR
          /\ \A u \in Tables \ {tab} : rec'[u] = rec[u]
          /\ \A s \in Slots : rec'[tab][s] = IF s = count THEN backup[i] ELSE rec[tab][s]
      BY <1>9, <2>3, RestoreDoes
    <3>2. /\ Good(backup, tab)
          /\ \A s \in Slots : IF s < count THEN rec[tab][s] \notin {Erased, Zero}
                              ELSE rec[tab][s] = Erased
          /\ \A s \in Slots : s < count => \E k \in Slots : k < i /\ rec[tab][s] = backup[k]
      BY <1>9 DEF Restore, AlignInv, Restoring
    <3>3. backup[i].id \in Ids(tab)
      BY <1>0, <3>1, RecordFacts
    <3>4. ASSUME NEW s \in Slots PROVE rec[tab][s].id # backup[i].id
      <4>1. CASE s < count
        <5>1. PICK k \in Slots : k < i /\ rec[tab][s] = backup[k]
          BY <3>2, <4>1
        <5>2. k # i
          BY <5>1 DEF Slots
        <5> QED
          BY <3>1, <3>2, <3>3, <5>1, <5>2 DEF Good, Once
      <4>2. CASE ~ (s < count)
        <5>1. rec[tab][s] = Erased
          BY <3>2, <4>2
        <5> QED
          BY <1>0, <3>3, <5>1, RecordFacts
      <4> QED
        BY <4>1, <4>2
    <3>5. rec[tab][count] = Erased /\ \A k \in Slots : k < count => rec[tab][k] # Erased
      BY <3>1, <3>2 DEF Slots
    <3>6. Good(rec'[tab], tab)
      BY <1>0, <3>1, <3>4, <3>5, PutKeeps
    <3> QED
      BY <1>0, <1>q, <2>1, <3>1, <3>6
  <2> QED
    BY <2>2, <2>3
<1>10. FlagUser \/ Mark \/ CopyEnd \/ UNCHANGED vars => UNCHANGED <<rec, backup>>
  BY DEF FlagUser, Mark, CopyEnd, vars
<1> QED
  BY <1>2, <1>3, <1>4, <1>5, <1>6, <1>7, <1>8, <1>9, <1>10, StartsDo DEF Next, Align, Starts

LEMMA CommandStep ==
  ASSUME TypeOK, TablesInv, CommandInv, [Next]_vars
  PROVE  CommandInv'
<1>1. ASSUME NEW t \in Tables, NEW id \in Ids(t), NEW data \in Contents, Fits(t),
             Modify(t, id, data)
      PROVE  CommandInv'
  <2>1. cur' = [table |-> t, id |-> id, data |-> data]
    BY <1>1 DEF Modify
  <2>2. \A s \in Slots : rec'[t][s] = IF rec[t][s].id = id THEN Zero ELSE rec[t][s]
    BY <1>1, ModifyDoes
  <2>3. \A s \in Slots : rec'[t][s].id # id
    BY <2>2, RecordFacts
  <2>4. PICK f \in 0 .. SLOTS : f = Free(t) /\ \A s \in Slots : s < f <=> rec[t][s] # Erased
    BY FreeIs DEF TablesInv, Good
  <2>5. f < SECTOR /\ f \in Slots
    BY <1>1, <2>4, ConstantsType DEF Fits, Slots
  <2>6. rec[t][f] = Erased
    BY <2>4, <2>5 DEF Slots
  <2>7. rec'[t][f] = Erased
    BY <2>2, <2>5, <2>6, RecordFacts
  <2> QED
    BY <2>1, <2>3, <2>5, <2>7 DEF CommandInv
<1>2. CASE FlagUser
  <2>1. UNCHANGED <<rec, cur>> /\ pc = "flag"
    BY <1>2 DEF FlagUser
  <2> QED
    BY <2>1 DEF CommandInv
<1>3. UNCHANGED vars => CommandInv'
  BY DEF CommandInv, vars
<1>4. ASSUME \/ \E t \in Tables : \E id \in Ids(t) : Delete(t, id)
             \/ WriteRecord \/ Mark \/ Starts \/ BackupErase \/ Copy \/ CopyEnd \/ EraseTable
             \/ EraseRest \/ Restore
      PROVE  pc' \notin {"flag", "write"}
  BY <1>4, StartsDo DEF Delete, WriteRecord, Mark, BackupErase, Copy, CopyEnd, EraseTable,
                        EraseRest, Restore
<1>5. pc' \notin {"flag", "write"} => CommandInv'
  BY DEF CommandInv
<1> QED
  BY <1>1, <1>2, <1>3, <1>4, <1>5 DEF Next, Align, Starts

LEMMA AlignStep ==
  ASSUME TypeOK, TablesInv, AlignInv, [Next]_vars
  PROVE  AlignInv'
<1>0. tab \in Tables /\ i \in 0 .. SLOTS /\ count \in 0 .. SLOTS
  BY DEF TypeOK
<1>s. \A s \in Slots : s \in Int /\ 0 <= s /\ s < SLOTS
  BY ConstantsType DEF Slots
<1>1. ASSUME pc' \in {"idle", "flag", "write", "mark", "sys"} PROVE AlignInv'
  BY <1>1 DEF AlignInv, Restoring
<1>2. CASE Starts
  BY <1>1, <1>2, StartsDo DEF AlignInv, Restoring
<1>3. CASE BackupErase
  <2>1. /\ pc' = "copy" /\ UNCHANGED <<i, count>> /\ i = 0 /\ count = 0
        /\ backup' = EraseFrom(backup, 0)
    BY <1>3 DEF BackupErase, aligning, AlignInv
  <2>2. \A s \in Slots : backup'[s] = Erased /\ ~ (s < i)
    BY <1>s, <2>1, EraseDoes DEF TablesInv
  <2> QED
    BY <2>1, <2>2 DEF AlignInv, Restoring
<1>4. CASE Copy
  <2>1. pc = "copy" /\ UNCHANGED <<rec, pc, tab, count>>
    BY <1>4 DEF Copy
  <2>2. /\ i \in Slots /\ i' = i + 1
        /\ \A s \in Slots : backup'[s] = IF s = i THEN rec[tab][s] ELSE backup[s]
    BY <1>4, CopyDoes
  <2>3. \A s \in Slots : s < i + 1 <=> s < i \/ s = i
    BY <1>s, <2>2
  <2>4. \A s \in Slots : backup'[s] = IF s < i' THEN rec[tab][s] ELSE Erased
    BY <2>1, <2>2, <2>3 DEF AlignInv
  <2> QED
    BY <2>1, <2>4 DEF AlignInv, Restoring
<1>5. CASE CopyEnd
  <2>1. /\ pc = "copy" /\ pc' = "erase" /\ i' = 0 /\ count = 0
        /\ UNCHANGED <<rec, backup, tab, count>>
        /\ i \in Slots => rec[tab][i] = Erased
    BY <1>5 DEF CopyEnd, Copied, AlignInv
  <2>2. ASSUME NEW s \in Slots PROVE backup[s] = rec[tab][s]
    <3>1. CASE s < i
      BY <2>1, <3>1 DEF AlignInv
    <3>2. CASE ~ (s < i)
      <4>1. i \in Slots
        BY <1>0, <1>s, <3>2, ConstantsType DEF Slots
      <4>2. i < s \/ i = s
        BY <1>0, <1>s, <3>2
      <4>3. rec[tab][s] = Erased
        BY <1>0, <2>1, <4>1, <4>2 DEF TablesInv, Good, Packed
      <4> QED
        BY <2>1, <3>2, <4>3 DEF AlignInv
    <3> QED
      BY <3>1, <3>2
  <2> QED
    BY <2>1, <2>2 DEF AlignInv, Restoring
<1>6. CASE EraseTable
  <2>1. /\ pc = "erase" /\ pc' \in Restoring /\ UNCHANGED <<backup, tab, i, count>>
        /\ i = 0 /\ count = 0 /\ \A s \in Slots : backup[s] = rec[tab][s] /\ ~ (s < 0)
    BY <1>6, <1>s DEF EraseTable, aligning, AlignInv, Restoring
  <2>2. Good(backup, tab)
    BY <1>0, <2>1, ZeroKeeps DEF TablesInv
  <2>3. \A s \in Slots : rec'[tab][s] = Erased
    BY <1>6, EraseTableDoes
  <2> QED
    BY <2>1, <2>2, <2>3 DEF AlignInv, Restoring
<1>7. CASE EraseRest
  <2>1. /\ pc = "erase_rest" /\ pc' = "restore" /\ UNCHANGED <<backup, tab, i, count>>
        /\ i = 0 /\ count = 0 /\ \A s \in Slots : ~ (s < 0)
    BY <1>7, <1>s DEF EraseRest, aligning, AlignInv, Restoring
  <2>2. Good(backup, tab)
    BY <2>1 DEF AlignInv, Restoring
  <2>3. \A s \in Slots : rec'[tab][s] = Erased
    BY <1>7, EraseTableDoes
  <2> QED
    BY <2>1, <2>2, <2>3 DEF AlignInv, Restoring
<1>8. CASE Restore
  <2>1. /\ pc = "restore" /\ pc' = "restore" /\ UNCHANGED <<backup, tab>> /\ i' = i + 1
    BY <1>8 DEF Restore
  <2>2. /\ Good(backup, tab) /\ count <= i
        /\ \A s \in Slots : IF s < count THEN rec[tab][s] \notin {Erased, Zero}
                            ELSE rec[tab][s] = Erased
        /\ \A s \in Slots : s < count => \E k \in Slots : k < i /\ rec[tab][s] = backup[k]
        /\ \A k \in Slots : k < i /\ backup[k] # Zero =>
             \E s \in Slots : s < count /\ rec[tab][s] = backup[k]
    BY <2>1 DEF AlignInv, Restoring
  <2>3. i \in Slots /\ backup[i] # Erased
    BY <1>8, RestoreDoes
  <2>4. \A k \in Slots : k < i + 1 <=> k < i \/ k = i
    BY <1>s, <2>3
  <2>5. CASE backup[i] = Zero /\ UNCHANGED <<rec, count>>
    <3>1. count' <= i'
      BY <1>0, <2>1, <2>2, <2>5
    <3>2. \A s \in Slots : s < count => \E k \in Slots : k < i' /\ rec[tab][s] = backup[k]
      BY <2>1, <2>2, <2>4
    <3>3. \A k \in Slots : k < i' /\ backup[k] # Zero =>
            \E s \in Slots : s < count /\ rec[tab][s] = backup[k]
      BY <2>1, <2>2, <2>4, <2>5
    <3> QED
      BY <2>1, <2>2, <2>5, <3>1, <3>2, <3>3 DEF AlignInv, Restoring
  <2>6. CASE /\ backup[i] # Zero /\ count' = count + 1 /\ count \in Slots
             /\ \A s \in Slots : rec'[tab][s] = IF s = count THEN backup[i] ELSE rec[tab][s]
    <3>1. count' <= i'
      BY <1>0, <2>1, <2>2, <2>6
    <3>2. \A s \in Slots : s < count + 1 <=> s < count \/ s = count
      BY <1>s, <2>6
    <3>3. \A s \in Slots : IF s < count' THEN rec'[tab][s] \notin {Erased, Zero}
                           ELSE rec'[tab][s] = Erased
      BY <2>2, <2>3, <2>6, <3>2
    <3>4. ASSUME NEW s \in Slots, s < count'
          PROVE  \E k \in Slots : k < i' /\ rec'[tab][s] = backup[k]
      <4>1. CASE s = count
        BY <2>1, <2>3, <2>4, <2>6, <4>1
      <4>2. CASE s # count
        BY <2>1, <2>2, <2>4, <2>6, <3>2, <3>4, <4>2
      <4> QED
        BY <4>1, <4>2
    <3>5. ASSUME NEW k \in Slots, k < i', backup[k] # Zero
          PROVE  \E s \in Slots : s < count' /\ rec'[tab][s] = backup[k]
      <4>1. CASE k = i
        BY <2>6, <3>2, <4>1
      <4>2. CASE k # i
        <5>1. PICK s \in Slots : s < count /\ rec[tab][s] = backup[k]
          BY <2>1, <2>2, <2>4, <3>5, <4>2
        <5>2. s # count
          BY <5>1, <1>s, <2>6
        <5> QED
          BY <2>6, <3>2, <5>1, <5>2
      <4> QED
        BY <4>1, <4>2
    <3> QED
      BY <2>1, <2>2, <3>1, <3>3, <3>4, <3>5 DEF AlignInv, Restoring
  <2> QED
    BY <1>8, <2>5, <2>6, RestoreDoes
<1>9. UNCHANGED vars => AlignInv'
  BY DEF AlignInv, Restoring, vars, aligning
<1>10. ASSUME \/ \E t \in Tables : \E id \in Ids(t) :
                  Delete(t, id) \/ \E data \in Contents : Modify(t, id, data)
              \/ FlagUser \/ WriteRecord \/ Mark
       PROVE  pc' \in {"idle", "flag", "write", "mark", "sys"}
  BY <1>10 DEF Delete, Modify, FlagUser, WriteRecord, Mark
<1> QED
  BY <1>1, <1>2, <1>3, <1>4, <1>5, <1>6, <1>7, <1>8, <1>9, <1>10 DEF Next, Align, Starts


-----------------------------------------------------------------------------
(* The records are where the server was told they are.                     *)
LEMMA HoldsSame ==
  ASSUME NEW b, NEW c, NEW id, \A s \in Slots : b[s].id = id \/ c[s].id = id => c[s] = b[s]
  PROVE  \A d : Holds(c, id, d) <=> Holds(b, id, d)
<1>1. ASSUME NEW d, NEW s \in Slots, b[s] = [id |-> id, data |-> d] PROVE c[s] = b[s]
  BY <1>1
<1>2. ASSUME NEW d, NEW s \in Slots, c[s] = [id |-> id, data |-> d] PROVE c[s] = b[s]
  BY <1>2
<1> QED
  BY <1>1, <1>2 DEF Holds

(* What one command about x does to the table t.                           *)
LEMMA CommandTold ==
  ASSUME TypeOK, HistoryInv, TablesInv, ToldInv, pc \notin Restoring, pc' \notin Restoring,
         NEW t \in Tables, NEW x \in Ids(t), \A id \in Ids(t) : Changing(t, id) => id = x,
         \A u \in Tables \ {t} : rec'[u] = rec[u] /\ \A id \in Ids(u) : ~ Changing(u, id),
         \A s \in Slots : rec[t][s].id # x => rec'[t][s] = rec[t][s] \/ rec'[t][s].id = x,
         \A s \in Slots : rec[t][s].id # x /\ rec'[t][s].id = x => rec[t][s] = Erased,
         \A s \in Slots : rec[t][s].id = x => rec'[t][s].id \notin Ids(t) \ {x},
         \A u \in Tables : \A id \in Ids(u) : u # t \/ id # x =>
           told'[u][id] = told[u][id] /\ (id \in excused[u] => id \in excused'[u]),
         x \notin excused'[t] /\ ~ Changing(t, x)' =>
           \A d \in Contents : Holds(rec'[t], x, d) <=> told'[t][x] = d
  PROVE  ToldInv'
<1>1. /\ \A u \in Tables : Source(u) = rec[u] /\ Source(u)' = rec'[u]
  BY DEF Source
<1>2. ASSUME NEW u \in Tables, NEW id \in Ids(u), id \notin excused'[u], u # t \/ id # x
      PROVE  AsTold(Source(u), u, id)'
  <2>1. AsTold(rec[u], u, id)
    BY <1>1, <1>2 DEF ToldInv
  <2>2. \A d : Holds(rec'[u], id, d) <=> Holds(rec[u], id, d)
    <3>1. CASE u # t
      BY <3>1
    <3>2. CASE u = t
      <4>1. \A s \in Slots : rec[u][s].id = id \/ rec'[u][s].id = id => rec'[u][s] = rec[u][s]
        <5>1. ASSUME NEW s \in Slots, rec[t][s].id = id PROVE rec'[t][s] = rec[t][s]
          <6>1. rec[t][s] # Erased
            BY <5>1, RecordFacts
          <6> QED
            BY <1>2, <3>2, <5>1, <6>1
        <5>2. ASSUME NEW s \in Slots, rec'[t][s].id = id PROVE rec'[t][s] = rec[t][s]
          BY <1>2, <3>2, <5>2
        <5> QED
          BY <3>2, <5>1, <5>2
      <4> QED
        BY <4>1, HoldsSame
    <3> QED
      BY <3>1, <3>2
  <2>3. told'[u][id] = told[u][id]
    BY <1>2
  <2> QED
    BY <1>1, <2>1, <2>2, <2>3 DEF AsTold
<1>3. ASSUME x \notin excused'[t], ~ Changing(t, x)' PROVE AsTold(Source(t), t, x)'
  BY <1>1, <1>3 DEF AsTold
<1> QED
  BY <1>2, <1>3 DEF ToldInv

(* A step that moves no record: the block that holds a table's records     *)
(* holds the same ones after it.                                           *)
LEMMA SourceTold ==
  ASSUME ToldInv, UNCHANGED told,
         \A t \in Tables : \A id \in Ids(t) : id \notin excused'[t] =>
           /\ id \notin excused[t] /\ (Changing(t, id) => Changing(t, id)')
           /\ \A d \in Contents : Holds(Source(t), id, d)' <=> Holds(Source(t), id, d)
  PROVE  ToldInv'
<1>1. ASSUME NEW t \in Tables, NEW id \in Ids(t) \ excused'[t], ~ Changing(t, id)'
      PROVE  AsTold(Source(t), t, id)'
  <2>1. AsTold(Source(t), t, id)
    BY <1>1 DEF ToldInv
  <2>2. \A d \in Contents : Holds(Source(t), id, d)' <=> Holds(Source(t), id, d)
    BY <1>1
  <2> QED
    BY <2>1, <2>2 DEF AsTold
<1> QED
  BY <1>1 DEF ToldInv


LEMMA ToldStep ==
  ASSUME TypeOK, HistoryInv, TablesInv, CommandInv, AlignInv, ToldInv, [Next]_vars
  PROVE  ToldInv'
<1>0. /\ tab \in Tables /\ cur.table \in Tables
      /\ \A t \in Tables : told[t] \in [Ids(t) -> Contents \union {None}]
      /\ told = [t \in Tables |-> told[t]] /\ excused = [t \in Tables |-> excused[t]]
  BY DEF TypeOK, HistoryInv
<1>1. ASSUME NEW t \in Tables, NEW x \in Ids(t), NEW data \in Contents, Modify(t, x, data)
      PROVE  ToldInv'
  <2>1. /\ \A u \in Tables \ {t} : rec'[u] = rec[u]
        /\ \A s \in Slots : rec'[t][s] = IF rec[t][s].id = x THEN Zero ELSE rec[t][s]
    BY <1>1, ModifyDoes
  <2>2. /\ pc = "idle" /\ pc' \in {"flag", "write"} /\ UNCHANGED <<told, excused>>
        /\ cur' = [table |-> t, id |-> x, data |-> data]
    BY <1>1 DEF Modify, history
  <2>3. Changing(t, x)' /\ \A u, id : ~ Changing(u, id)
    BY <2>2 DEF Changing
  <2>4. Zero.id \notin Ids(t)
    BY RecordFacts
  <2>5. pc \notin Restoring /\ pc' \notin Restoring
    BY <2>2 DEF Restoring
  <2> QED
    BY <2>1, <2>2, <2>3, <2>4, <2>5, CommandTold
<1>2. ASSUME NEW t \in Tables, NEW x \in Ids(t), Delete(t, x) PROVE ToldInv'
  <2>1. /\ \A u \in Tables \ {t} : rec'[u] = rec[u]
        /\ \A s \in Slots : rec'[t][s] = IF rec[t][s].id = x THEN Zero ELSE rec[t][s]
    BY <1>2, DeleteDoes
  <2>2. /\ pc = "idle" /\ pc' \in {"idle", "mark"}
        /\ told' = [told EXCEPT ![t] = [told[t] EXCEPT ![x] = None]]
        /\ excused' = [excused EXCEPT ![t] = excused[t] \ {x}]
    BY <1>2 DEF Delete
  <2>3. /\ told'[t][x] = None
        /\ \A u \in Tables : \A id \in Ids(u) : u # t \/ id # x =>
             told'[u][id] = told[u][id] /\ (id \in excused[u] => id \in excused'[u])
    BY <1>0, <2>2
  <2>4. \A u, id : ~ Changing(u, id)
    BY <2>2 DEF Changing
  <2>5. Zero.id \notin Ids(t)
    BY RecordFacts
  <2>6. pc \notin Restoring /\ pc' \notin Restoring
    BY <2>2 DEF Restoring
  <2>7. \A s \in Slots : rec'[t][s].id # x
    BY <2>1, <2>5
  <2>8. \A d \in Contents : Holds(rec'[t], x, d) <=> told'[t][x] = d
    BY <2>3, <2>7, ConstantsType DEF Holds
  <2> QED
    BY <2>1, <2>3, <2>4, <2>5, <2>6, <2>8, CommandTold
<1>3. CASE WriteRecord
  <2> DEFINE t == cur.table
             x == cur.id
             r == [id |-> cur.id, data |-> cur.data]
  <2>0. /\ t \in Tables /\ x \in Ids(t) /\ cur.data \in Contents
        /\ \A s \in Slots : rec[t][s].id # x
    BY <1>0, <1>3 DEF WriteRecord, CommandInv
  <2>1. PICK f \in Slots :
          /\ rec[t][f] = Erased
          /\ \A s \in Slots : rec'[t][s] = IF s = f THEN r ELSE rec[t][s]
    BY <1>3, WriteDoes
  <2>2. \A u \in Tables \ {t} : rec'[u] = rec[u]
    BY <1>3, WriteDoes
  <2>3. /\ pc = "write" /\ pc' \in {"idle", "mark"}
        /\ told' = [told EXCEPT ![t] = [told[t] EXCEPT ![x] = cur.data]]
        /\ excused' = [excused EXCEPT ![t] = excused[t] \ {x}]
    BY <1>3 DEF WriteRecord
  <2>4. /\ told'[t][x] = cur.data
        /\ \A u \in Tables : \A id \in Ids(u) : u # t \/ id # x =>
             told'[u][id] = told[u][id] /\ (id \in excused[u] => id \in excused'[u])
    BY <1>0, <2>0, <2>3
  <2>5. \A u, id : Changing(u, id) => u = t /\ id = x
    BY DEF Changing
  <2>6. pc \notin Restoring /\ pc' \notin Restoring
    BY <2>3 DEF Restoring
  <2>7. r.id = x /\ r.data = cur.data
    OBVIOUS
  <2>8. \A s \in Slots : rec'[t][s] = r \/ rec'[t][s].id # x
    BY <2>0, <2>1
  <2>9. \A d \in Contents : Holds(rec'[t], x, d) <=> cur.data = d
    <3>1. ASSUME NEW d, Holds(rec'[t], x, d) PROVE cur.data = d
      <4>1. PICK s \in Slots : rec'[t][s] = [id |-> x, data |-> d]
        BY <3>1 DEF Holds
      <4>2. [id |-> x, data |-> d].id = x /\ [id |-> x, data |-> d].data = d
        OBVIOUS
      <4>3. rec'[t][s] = r
        BY <2>8, <4>1, <4>2
      <4> QED
        BY <2>7, <4>1, <4>2, <4>3
    <3>2. Holds(rec'[t], x, cur.data)
      BY <2>1 DEF Holds
    <3> QED
      BY <3>1, <3>2
  <2> HIDE DEF t, x, r
  <2>10. ASSUME NEW u, NEW y, u = t, y = x PROVE ToldInv'
    <3>1. u \in Tables /\ y \in Ids(u)
      BY <2>0, <2>10
    <3>2. \A s \in Slots : rec[u][s].id # y => rec'[u][s] = rec[u][s] \/ rec'[u][s].id = y
      BY <2>1, <2>7, <2>10
    <3>3. \A s \in Slots : rec[u][s].id # y /\ rec'[u][s].id = y => rec[u][s] = Erased
      BY <2>0, <2>1, <2>10
    <3>4. \A s \in Slots : rec[u][s].id # y
      BY <2>0, <2>10
    <3>5. \A d \in Contents : Holds(rec'[u], y, d) <=> told'[u][y] = d
      BY <2>4, <2>9, <2>10
    <3>6. \A w \in Tables \ {u} : rec'[w] = rec[w] /\ \A id \in Ids(w) : ~ Changing(w, id)
      BY <2>2, <2>5, <2>10
    <3>7. \A id \in Ids(u) : Changing(u, id) => id = y
      BY <2>5, <2>10
    <3>8. \A w \in Tables : \A id \in Ids(w) : w # u \/ id # y =>
            told'[w][id] = told[w][id] /\ (id \in excused[w] => id \in excused'[w])
      BY <2>4, <2>10
    <3> QED
      BY <2>6, <3>1, <3>2, <3>3, <3>4, <3>5, <3>6, <3>7, <3>8, CommandTold
  <2> QED
    BY <2>10
<1>4. ASSUME UNCHANGED <<rec, told, excused>>, pc \notin Restoring, pc' \notin Restoring,
             \A t, id : Changing(t, id) => Changing(t, id)'
      PROVE  ToldInv'
  <2>1. \A t : Source(t)' = Source(t)
    BY <1>4 DEF Source
  <2>2. \A t, id, d : Holds(Source(t), id, d)' <=> Holds(Source(t), id, d)
    BY <2>1 DEF Holds
  <2> QED
    BY <1>4, <2>2, SourceTold
<1>5. CASE FlagUser
  <2>1. UNCHANGED <<rec, told, excused, cur>> /\ pc = "flag" /\ pc' = "write"
    BY <1>5 DEF FlagUser, history
  <2>2. \A t, id : Changing(t, id) => Changing(t, id)'
    BY <2>1 DEF Changing
  <2> QED
    BY <1>4, <2>1, <2>2 DEF Restoring
<1>6. CASE Mark \/ Midnight \/ BackupErase \/ Copy \/ CopyEnd \/ SysWrite
  <2>1. /\ UNCHANGED <<rec, told, excused>>
        /\ pc \in {"mark", "idle", "backup_erase", "copy", "sys"}
        /\ pc' \in {"idle", "backup_erase", "copy", "erase"}
    <3>1. Midnight \/ SysWrite => pc' \in {"idle", "backup_erase"}
      BY StartIs DEF Midnight, SysWrite
    <3> QED
      BY <1>6, <3>1 DEF Mark, Midnight, BackupErase, Copy, CopyEnd, SysWrite, history
  <2>2. \A t, id : ~ Changing(t, id)
    BY <2>1 DEF Changing
  <2> QED
    BY <1>4, <2>1, <2>2 DEF Restoring
<1>7. CASE RestoreEnd
  <2>1. /\ pc = "restore" /\ pc' \notin Restoring /\ UNCHANGED <<rec, told, excused>>
        /\ i \in Slots => backup[i] = Erased
    <3>1. pc' \in {"idle", "backup_erase", "sys"}
      BY <1>7, StartsDo DEF Starts
    <3> QED
      BY <1>7, <3>1 DEF RestoreEnd, Restored, Restoring, history
  <2>2. /\ Good(backup, tab) /\ i \in 0 .. SLOTS
        /\ \A s \in Slots : IF s < count THEN rec[tab][s] \notin {Erased, Zero}
                            ELSE rec[tab][s] = Erased
        /\ \A s \in Slots : s < count => \E k \in Slots : k < i /\ rec[tab][s] = backup[k]
        /\ \A k \in Slots : k < i /\ backup[k] # Zero =>
             \E s \in Slots : s < count /\ rec[tab][s] = backup[k]
    BY <2>1 DEF AlignInv, Restoring, TypeOK
  <2>3. ASSUME NEW k \in Slots, backup[k] # Erased PROVE k < i
    <3>1. i \in Slots \/ i = SLOTS
      BY <2>2, ConstantsType DEF Slots
    <3>2. k \in Int /\ k < SLOTS /\ i \in Int
      BY <2>2, ConstantsType DEF Slots
    <3>3. i \in Slots => ~ (i < k) /\ i # k
      BY <2>1, <2>2, <2>3 DEF Good, Packed
    <3> QED
      BY <3>1, <3>2, <3>3
  <2>4. ASSUME NEW id \in Ids(tab), NEW d \in Contents
        PROVE  Holds(rec[tab], id, d) <=> Holds(backup, id, d)
    <3> DEFINE r == [id |-> id, data |-> d]
    <3>1. r # Erased /\ r # Zero
      BY <1>0, RecordFacts
    <3> HIDE DEF r
    <3>2. ASSUME NEW s \in Slots, rec[tab][s] = r PROVE \E k \in Slots : backup[k] = r
      BY <2>2, <3>1, <3>2
    <3>3. ASSUME NEW k \in Slots, backup[k] = r PROVE \E s \in Slots : rec[tab][s] = r
      BY <2>2, <2>3, <3>1, <3>3
    <3> QED
      BY <3>2, <3>3 DEF Holds, r
  <2>5. \A t : Source(t)' = rec[t] /\ Source(t) = IF tab = t THEN backup ELSE rec[t]
    BY <2>1 DEF Source, Restoring
  <2>6. ASSUME NEW t \in Tables, NEW id \in Ids(t), NEW d \in Contents
        PROVE  Holds(Source(t), id, d)' <=> Holds(Source(t), id, d)
    <3>1. Holds(Source(t), id, d)' <=> Holds(rec[t], id, d)
      BY <2>5 DEF Holds
    <3> QED
      BY <2>4, <2>5, <3>1
  <2>7. \A t, id : ~ Changing(t, id)
    BY <2>1 DEF Changing
  <2> QED
    BY <2>1, <2>6, <2>7, SourceTold
<1>8. CASE Reset \/ ResetInSys
  <2>1. /\ UNCHANGED <<rec, told>> /\ pc' \notin Restoring
        /\ excused' = [t \in Tables |-> excused[t] \union Lost(t)]
    BY <1>8, StartsDo DEF Starts, Restoring
  <2>2. ASSUME NEW t \in Tables, NEW id \in Ids(t), id \notin excused'[t]
        PROVE  /\ id \notin excused[t] /\ ~ Changing(t, id)
               /\ \A d \in Contents : Holds(Source(t), id, d)' <=> Holds(Source(t), id, d)
    <3>1. id \notin excused[t] /\ id \notin Lost(t)
      BY <2>1, <2>2
    <3>2. ~ (pc \in Restoring /\ tab = t)
      BY <3>1 DEF Lost, Restoring
    <3>3. ~ Changing(t, id)
      BY <3>1 DEF Lost, Changing
    <3>4. Source(t)' = Source(t)
      BY <2>1, <3>2 DEF Source
    <3>5. \A d : Holds(Source(t), id, d)' <=> Holds(Source(t), id, d)
      BY <3>4 DEF Holds
    <3> QED
      BY <3>1, <3>3, <3>5
  <2> QED
    BY <2>1, <2>2, SourceTold
<1>9. CASE EraseTable \/ EraseRest \/ Restore
  <2>1. /\ UNCHANGED <<backup, tab, told, excused>> /\ pc \in {"erase"} \union Restoring
        /\ pc' \in Restoring
    BY <1>9 DEF EraseTable, EraseRest, Restore, aligning, history, Restoring
  <2>2. \A u \in Tables \ {tab} : rec'[u] = rec[u]
    BY <1>9, EraseTableDoes, RestoreDoes
  <2>3. pc = "erase" => \A s \in Slots : backup[s] = rec[tab][s]
    BY DEF AlignInv
  <2>4. ASSUME NEW t \in Tables, NEW id \in Ids(t)
        PROVE  \A d : Holds(Source(t), id, d)' <=> Holds(Source(t), id, d)
    <3>1. CASE t = tab
      <4>1. Source(t)' = backup
        BY <2>1, <3>1 DEF Source
      <4>2. \A d : Holds(Source(t), id, d)' <=> Holds(backup, id, d)
        BY <4>1 DEF Holds
      <4>3. \A s \in Slots : Source(t)[s] = backup[s]
        BY <2>1, <2>3, <3>1 DEF Source
      <4>4. \A d : Holds(backup, id, d) <=> Holds(Source(t), id, d)
        BY <4>3 DEF Holds
      <4> QED
        BY <4>2, <4>4
    <3>2. CASE t # tab
      <4>1. Source(t)' = Source(t)
        BY <2>1, <2>2, <3>2 DEF Source
      <4> QED
        BY <4>1 DEF Holds
    <3> QED
      BY <3>1, <3>2
  <2>5. \A t, id : ~ Changing(t, id)
    BY <2>1 DEF Changing, Restoring
  <2> QED
    BY <2>1, <2>4, <2>5, SourceTold
<1>10. CASE UNCHANGED vars
  BY <1>10 DEF ToldInv, AsTold, Source, Changing, vars, aligning, history
<1> QED
  BY <1>1, <1>2, <1>3, <1>5, <1>6, <1>7, <1>8, <1>9, <1>10 DEF Next, Align

-----------------------------------------------------------------------------
LEMMA InitInv == Init => IInv
<1> SUFFICES ASSUME Init PROVE IInv
  OBVIOUS
<1> USE ConstantsType
<1>1. \A s \in Slots : backup[s] = Erased /\ \A t \in Tables : rec[t][s] = Erased
  BY DEF Init
<1>2. \A t \in Tables : Erased \in Record(t) \ {Mixed} /\ Erased.id \notin Ids(t)
  BY RecordFacts
<1>3. TypeOK
  <2>1. /\ rec \in [Tables -> [Slots -> AnyRecord]] /\ backup \in [Slots -> AnyRecord]
        /\ \A t \in Tables, s \in Slots : rec[t][s] \in Record(t)
    <3>1. Erased \in AnyRecord
      BY <1>2 DEF AnyRecord, Tables
    <3> QED
      BY <1>1, <1>2, <3>1 DEF Init
  <2>2. flag \subseteq Tables /\ pc \in Steps /\ tab \in Tables
    BY DEF Init, Tables, Steps
  <2>3. i \in 0 .. SLOTS /\ count \in 0 .. SLOTS /\ resets \in 0 .. MAX_RESETS
    BY DEF Init
  <2>4. /\ cur.table \in Tables /\ cur.data \in Contents \union {None}
        /\ cur.id \in Ids(cur.table) \union {None}
    BY DEF Init, NoCommand, Tables
  <2>5. \A t \in Tables :
          told[t] \in [Ids(t) -> Contents \union {None}] /\ excused[t] \subseteq Ids(t)
    BY DEF Init
  <2> QED
    BY <2>1, <2>2, <2>3, <2>4, <2>5 DEF TypeOK
<1>4. HistoryInv
  BY DEF Init, HistoryInv
<1>5. TablesInv
  BY <1>1, ErasedIsGood DEF TablesInv, InSector
<1>6. CommandInv /\ AlignInv
  BY DEF Init, CommandInv, AlignInv, Restoring
<1>7. ToldInv
  <2>1. ASSUME NEW t \in Tables, NEW id \in Ids(t) PROVE AsTold(Source(t), t, id)
    <3>1. Source(t) = rec[t] /\ told[t][id] = None
      BY <2>1 DEF Init, Source, Restoring
    <3>2. \A s \in Slots : rec[t][s].id # id
      BY <1>1, <1>2
    <3> QED
      BY <3>1, <3>2 DEF AsTold, Holds
  <2> QED
    BY <2>1 DEF ToldInv
<1> QED
  BY <1>3, <1>4, <1>5, <1>6, <1>7 DEF IInv

LEMMA NextInv == IInv /\ [Next]_vars => IInv'
BY TypeStep, TablesStep, CommandStep, AlignStep, ToldStep DEF IInv

LEMMA Invariance == Spec => []IInv
BY InitInv, NextInv, PTL DEF Spec

(* Blocks, commands and the state of the alignment keep their types: the   *)
(* two tables never hold each other's records, and the counters of         *)
(* self_user_allign stay within theirs.                                    *)
THEOREM TypeCorrect == Spec => []TypeOK
<1>1. IInv => TypeOK
  BY DEF IInv
<1> QED
  BY <1>1, Invariance, PTL

(* Between commands and alignments a table that fits in one sector holds   *)
(* the records the server was told of and no others, unless the id is      *)
(* excused.  (modify_user, add_task, delete_user, delete_task, and the     *)
(* copy, the erase and the restore of the two alignments.)                 *)
THEOREM TablesCorrect == Spec => []TablesAsTold
<1>1. ASSUME IInv PROVE TablesAsTold
  <2>1. ASSUME NEW t \in Tables, NEW id \in Ids(t) \ excused[t], pc = "idle"
        PROVE  {r \in Live(t) : r.id = id} =
                 IF told[t][id] = None THEN {} ELSE {[id |-> id, data |-> told[t][id]]}
    <3>1. AsTold(rec[t], t, id)
      BY <1>1, <2>1 DEF IInv, ToldInv, Changing, Source, Restoring
    <3>2. told[t][id] \in Contents \union {None}
      BY <1>1 DEF IInv, TypeOK
    <3>3. ASSUME NEW s \in Slots, rec[t][s].id = id
          PROVE  /\ told[t][id] # None
                 /\ rec[t][s] = [id |-> id, data |-> told[t][id]]
      <4>1. rec[t][s] \in Record(t) \ {Mixed, Erased, Zero}
        BY <1>1, <3>3, RecordFacts DEF IInv, TablesInv, Good, Stored
      <4>2. rec[t][s].data \in Contents /\ rec[t][s] = [id |-> id, data |-> rec[t][s].data]
        BY <3>3, <4>1, RecordFacts
      <4>3. Holds(rec[t], id, rec[t][s].data)
        BY <4>2 DEF Holds
      <4>4. told[t][id] = rec[t][s].data
        BY <3>1, <4>2, <4>3 DEF AsTold
      <4> QED
        BY <4>2, <4>4, ConstantsType
    <3>4. CASE told[t][id] = None
      BY <3>3, <3>4 DEF Live
    <3>5. CASE told[t][id] # None
      <4> DEFINE r == [id |-> id, data |-> told[t][id]]
      <4>1. Holds(rec[t], id, told[t][id])
        BY <3>1, <3>2, <3>5 DEF AsTold
      <4>2. r \notin {Erased, Zero} /\ r.id = id
        BY <3>2, <3>5, RecordFacts
      <4>3. r \in Live(t)
        BY <4>1, <4>2 DEF Holds, Live
      <4>4. \A q \in Live(t) : q.id = id => q = r
        BY <3>3 DEF Live
      <4> HIDE DEF r
      <4>5. {q \in Live(t) : q.id = id} = {r}
        BY <4>2, <4>3, <4>4
      <4> QED
        BY <3>5, <4>5 DEF r
    <3> QED
      BY <3>4, <3>5
  <2> QED
    BY <2>1 DEF TablesAsTold
<1> QED
  BY <1>1, Invariance, PTL

(* Whatever alignments, full or cut by a reset, have been, a search that   *)
(* ends at the first erased slot finds every live record, and once.        *)
(* (find_user_sd1, Find_card, read_task_status, free_user.)                *)
THEOREM SearchCorrect == Spec => []SearchFinds
<1>1. ASSUME IInv PROVE SearchFinds
  <2>1. ASSUME NEW t \in Tables, NEW s \in Slots, rec[t][s] \notin {Erased, Zero}
        PROVE  Find(t, rec[t][s].id) = {s}
    <3>1. Good(rec[t], t)
      BY <1>1 DEF IInv, TablesInv
    <3>2. rec[t][s].id \in Ids(t)
      BY <2>1, <3>1, RecordFacts DEF Good, Stored
    <3>3. Find(t, rec[t][s].id) = {k \in Slots : rec[t][k].id = rec[t][s].id}
      BY <3>1, <3>2, FindIs DEF Good
    <3>4. \A k \in Slots : rec[t][k].id = rec[t][s].id => k = s
      BY <3>1, <3>2 DEF Good, Once
    <3> QED
      BY <3>3, <3>4
  <2> QED
    BY <2>1 DEF SearchFinds
<1> QED
  BY <1>1, Invariance, PTL
=============================================================================
