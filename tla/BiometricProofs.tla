--------------------------- MODULE BiometricProofs ---------------------------
(***************************************************************************)
(* For any number of slots, ids and people, commands, faults and resets:   *)
(* flags and templates agree between two pieces of work, and a finger      *)
(* opens a session only as its owner.                                      *)
(*                                                                         *)
(* What an enrolment, a deletion and the cleanup have done so far is in    *)
(* pc and code; MatchInv says what each of them may have left undone, and  *)
(* MenuInv and ScanInv that a command in a wait does not make it wrong.    *)
(***************************************************************************)
EXTENDS Biometric, FiniteSetTheorems, TLAPS

Flagged(id) == \E s \in Slots : rec[s].id = id /\ rec[s].finger = "1"
Has(id, f)  == \E t \in templates : t.id = id /\ t.finger = f

(* The table has no gaps, and an id is in it once.                         *)
Packed == \A s \in Slots : rec[s] # Erased => s \in Used
Once   == \A s, k \in Slots : rec[s].id \in Ids /\ rec[s].id = rec[k].id => s = k
TableInv == Packed /\ Once

(* The user the menus enrol has no flag but that of the id it is cut to,   *)
(* and is still the one chosen unless the server has deleted the id; the   *)
(* fingers stored so far are those of the person at the sensor.            *)
NoFlag(r) == r.finger = "FF" \/ (r.finger = "1" /\ Cut(code) # {} /\ code \in excused)
MenuInv == pc \in Menus =>
  /\ code \in Ids /\ person \in People
  /\ code \notin excused \intersect crossed => \E s \in Slots : rec[s].id = code
  /\ \A s \in Slots : rec[s].id = code =>
       NoFlag(rec[s]) /\ (code \notin crossed => rec[s].who = person)
  /\ pc \in {"enrol2", "save"} => Has(code, 1)
  /\ pc = "save" => Has(code, 2)
  /\ \A t \in templates :
       t.id = code /\ (pc = "save" \/ (pc = "enrol2" /\ t.finger = 1)) => t.who = person

ChosenInv == pc \in {"delete", "delete1", "delete2", "flags"} => code \in Ids

(* The cleanup works for the record it has read, or a command has come     *)
(* into it and every id it may now touch is excused.                       *)
Scanning == {"scan1", "scan2", "scan_write"}
ScanInv == pc \in Scanning =>
  /\ uci \in Slots /\ rec[uci] \in Records /\ user_t \in Records
  /\ \/ user_t = rec[uci] /\ code = user_t.id
     \/ {code, user_t.id, rec[uci].id} \intersect Ids \subseteq excused

(* The fingers that a piece of work half done may have left in the module. *)
Partial == {"enrol2", "undo2", "save", "delete2", "scan2", "flags", "scan_write"}
Left == IF pc \in {"enrol2", "undo2"} THEN {1}
        ELSE IF pc \in {"delete2", "scan2"} THEN {2}
        ELSE IF pc = "save" THEN {1, 2} ELSE {}
Match(id) == \A f \in {1, 2} : Has(id, f) <=> Flagged(id)
MatchOf(id) ==
  IF pc = "wipe" THEN ~ Flagged(id)
  ELSE IF id = code /\ pc \in Partial THEN \A f \in {1, 2} \ Left : ~ Has(id, f)
  ELSE Match(id)
MatchInv == \A id \in Ids \ excused : MatchOf(id)

(* A flag and a template of the same id are of the same person.            *)
OwnInv == \A t \in templates, s \in Slots :
  rec[s].id = t.id /\ rec[s].finger = "1" /\ t.id \notin crossed /\ t.id < WIDTH =>
    rec[s].who = t.who

IInv == /\ TypeOK /\ TableInv /\ MenuInv /\ ChosenInv /\ ScanInv /\ MatchInv /\ OwnInv
        /\ FingerOpensOwn

-----------------------------------------------------------------------------
(* Among numbers one is the least, and below a bound one is the greatest.  *)
LEMMA LeastExists ==
  ASSUME NEW S \in SUBSET Nat, S # {}
  PROVE  \E m \in S : \A k \in S : m <= k
<1>1. \E x \in S : \A y \in S : ~ (<<y, x>> \in OpToRel(<, Nat))
  BY WFMin, NatLessThanWellFounded, Zenon
<1>2. PICK x \in S : \A y \in S : ~ (<<y, x>> \in OpToRel(<, Nat))
  BY <1>1
<1>3. \A y \in S : ~ (y < x)
  BY <1>2, Zenon DEF OpToRel
<1> QED
  BY <1>3

LEMMA GreatestExists ==
  ASSUME NEW N \in Nat, NEW S \in SUBSET Nat, S # {}, \A s \in S : s <= N
  PROVE  \E m \in S : \A k \in S : k <= m
<1> DEFINE U == {N - k : k \in S}
<1>1. \A k \in S : k \in Nat /\ N - k \in Nat
  OBVIOUS
<1>2. U \in SUBSET Nat /\ U # {}
  BY <1>1
<1>3. PICK u \in U : \A k \in U : u <= k
  BY <1>2, LeastExists
<1>4. PICK m \in S : u = N - m
  BY <1>3
<1>5. ASSUME NEW k \in S PROVE k <= m
  <2>1. u <= N - k
    BY <1>3
  <2> QED
    BY <2>1, <1>1, <1>4
<1> QED
  BY <1>5

(* Where the s-th slot goes when the slots of K are packed: in its order,  *)
(* without gaps.                                                           *)
Below(K, s) == {k \in K : k < s}
Rank(K, s) == Cardinality(Below(K, s))
LEMMA RankFacts ==
  ASSUME NEW N \in Nat, NEW K, \A k \in K : k \in 0 .. N - 1
  PROVE  /\ \A s \in 0 .. N - 1 : Rank(K, s) \in 0 .. s
         /\ \A s, r \in K : s < r => Rank(K, s) < Rank(K, r)
         /\ \A r \in K : \A n \in 0 .. Rank(K, r) : \E s \in K : Rank(K, s) = n
<1>k. \A k \in K : k \in Int /\ 0 <= k /\ k <= N - 1
  OBVIOUS
<1>1. ASSUME NEW s \in 0 .. N
      PROVE  IsFiniteSet(Below(K, s)) /\ Rank(K, s) \in 0 .. s
  <2>1. IsFiniteSet(0 .. s - 1) /\ Cardinality(0 .. s - 1) = s
    BY FS_Interval
  <2>2. Below(K, s) \subseteq 0 .. s - 1
    BY <1>k DEF Below
  <2>3. IsFiniteSet(Below(K, s)) /\ Rank(K, s) <= s
    BY <2>1, <2>2, FS_Subset DEF Rank
  <2>4. Rank(K, s) \in Nat
    BY <2>3, FS_CardinalityType DEF Rank
  <2> QED
    BY <2>3, <2>4
<1>2. ASSUME NEW s \in K, NEW r \in K, s < r PROVE Rank(K, s) < Rank(K, r)
  <2>0. s \in 0 .. N /\ r \in 0 .. N
    BY <1>k
  <2>1. Below(K, s) \subseteq Below(K, r) /\ s \in Below(K, r) /\ s \notin Below(K, s)
    BY <1>2, <1>k DEF Below
  <2>2. Rank(K, s) <= Rank(K, r) /\ Rank(K, s) # Rank(K, r)
    BY <1>1, <2>0, <2>1, FS_Subset DEF Rank
  <2> QED
    BY <1>1, <2>0, <2>2
<1>3. ASSUME NEW r \in K, NEW n \in 0 .. Rank(K, r)
      PROVE  \E s \in K : Rank(K, s) = n
  <2> DEFINE T == {s \in K : Rank(K, s) >= n}
  <2>0. \A s \in K : s \in 0 .. N /\ Rank(K, s) \in Nat
    BY <1>1, <1>k
  <2>1. PICK s \in T : \A k \in T : s <= k
    <3>1. r \in T /\ T \in SUBSET Nat
      BY <2>0, <1>3
    <3> HIDE DEF T
    <3> QED
      BY <3>1, LeastExists
  <2>2. CASE Below(K, s) = {}
    <3>1. Rank(K, s) = 0
      BY <2>2, FS_EmptySet DEF Rank
    <3> QED
      BY <2>1, <3>1
  <2>3. CASE Below(K, s) # {}
    <3>1. PICK m \in Below(K, s) : \A k \in Below(K, s) : k <= m
      <4>1. Below(K, s) \in SUBSET Nat /\ \A k \in Below(K, s) : k <= N
        BY <1>k DEF Below
      <4> QED
        BY <4>1, <2>3, GreatestExists
    <3>2. m \in K /\ m < s /\ s \in K
      BY <3>1, <2>1 DEF Below
    <3>3. Below(K, s) = Below(K, m) \union {m} /\ m \notin Below(K, m)
      BY <3>1, <3>2, <1>k DEF Below
    <3>4. Rank(K, s) = Rank(K, m) + 1
      BY <3>2, <3>3, <2>0, <1>1, FS_AddElement DEF Rank
    <3>5. m \notin T
      BY <3>2, <2>1, <1>k
    <3> QED
      BY <3>2, <3>4, <3>5, <2>1, <2>0
  <2> QED
    BY <2>2, <2>3
<1> QED
  BY <1>1, <1>2, <1>3

-----------------------------------------------------------------------------
LEMMA ConstantsType ==
  /\ Ids \subseteq Nat /\ 0 \notin Ids /\ TEST_ID \in Ids /\ WIDTH \in Nat \ {0}
  /\ SLOTS \in Nat \ {0} /\ 0 \notin People
  /\ MAX_CMDS \in Nat /\ MAX_FAULTS \in Nat /\ MAX_RESETS \in Nat
BY IdsAssumption, SlotsAssumption, BoundsAssumption

LEMMA IdsArePositive == \A id \in Ids : id \in Int /\ id > 0
BY ConstantsType

(* The argument of 16 bits is the id itself, where the id fits.            *)
LEMMA NotCut ==
  ASSUME NEW id \in Ids
  PROVE  /\ Cut(id) = {} <=> id < WIDTH
         /\ Cut(id) = {} => id % WIDTH = id
         /\ Cut(id) \subseteq {id}
BY ConstantsType, IdsArePositive DEF Cut

(* What a slot holds.                                                      *)
Stored == Records \union {Erased, Mixed}
LEMMA RecordFacts ==
  ASSUME NEW r \in Records
  PROVE  /\ r.id \in Ids \union {0} /\ r.by \in Logins /\ r.finger \in Flags
         /\ r.who \in People /\ r # Erased /\ r # Mixed
         /\ [r EXCEPT !.id = 0] \in Records
         /\ \A f \in Flags : [r EXCEPT !.finger = f] \in Records
<1>1. r.id >= 0 /\ r.id \in Int
  BY IdsArePositive DEF Records
<1> QED
  BY <1>1 DEF Records, Erased, Mixed, Flags

LEMMA StoredFacts ==
  /\ \A r \in Stored : /\ r.id \in Ids \union {0, -1, -2} /\ r.finger \in Flags
                       /\ r.id \in Ids \/ r.finger = "1" \/ r.id = 0 => r \in Records
                       /\ r # Erased /\ r # Mixed => r \in Records
  /\ -1 \notin Ids /\ -2 \notin Ids /\ 0 \notin Ids
  /\ Erased.id = -1 /\ Erased.finger = "FF" /\ Mixed.id = -2 /\ Mixed.finger = "0"
<1>1. -1 \notin Ids /\ -2 \notin Ids /\ 0 \notin Ids
  BY IdsArePositive
<1>2. Erased.id = -1 /\ Erased.finger = "FF" /\ Mixed.id = -2 /\ Mixed.finger = "0"
  BY DEF Erased, Mixed
<1>3. ASSUME NEW r \in Records
      PROVE  r.id \in Ids \union {0} /\ r.finger \in Flags
  BY DEF Records
<1> QED
  BY <1>1, <1>2, <1>3 DEF Stored, Flags

(* Two records over each other are one of them, a deleted one or Mixed;    *)
(* a record is programmed over itself to change its flag.                  *)
LEMMA FlashFacts ==
  ASSUME NEW old \in Records, NEW new \in Records
  PROVE  /\ FlashAnd(old, new) \in Records \union {Mixed}
         /\ FlashAnd(old, new).id \in {old.id, 0, -2}
         /\ new.finger = "0" => FlashAnd(old, new).finger = "0"
         /\ \A f \in Flags : old.id # 0 /\ new = [old EXCEPT !.finger = f] =>
              FlashAnd(old, new) = [old EXCEPT !.finger = FlagAnd(old.finger, f)]
<1> DEFINE f == FlagAnd(old.finger, new.finger)
<1>1. f \in Flags /\ (new.finger = "0" => f = "0")
  BY RecordFacts DEF FlagAnd, Flags
<1>2. old # Erased /\ new # Erased
  BY RecordFacts
<1>3. CASE 0 \in {old.id, new.id}
  <2>1. FlashAnd(old, new) = [old EXCEPT !.id = 0, !.finger = f]
    BY <1>2, <1>3 DEF FlashAnd
  <2> QED
    BY <1>1, <1>3, <2>1 DEF Records
<1>4. CASE 0 \notin {old.id, new.id} /\ [old EXCEPT !.finger = "0"] # [new EXCEPT !.finger = "0"]
  <2>1. FlashAnd(old, new) = Mixed
    BY <1>2, <1>4 DEF FlashAnd
  <2>2. ASSUME NEW g, new = [old EXCEPT !.finger = g]
        PROVE  [old EXCEPT !.finger = "0"] = [new EXCEPT !.finger = "0"]
    BY <2>2 DEF Records
  <2> QED
    BY <1>4, <2>1, <2>2 DEF Mixed
<1>5. CASE 0 \notin {old.id, new.id} /\ [old EXCEPT !.finger = "0"] = [new EXCEPT !.finger = "0"]
  <2>1. FlashAnd(old, new) = [old EXCEPT !.finger = f]
    BY <1>2, <1>5 DEF FlashAnd
  <2> QED
    BY <1>1, <2>1 DEF Records
<1> QED
  BY <1>3, <1>4, <1>5

(* The alignment changes nothing but a flag that was cleared.              *)
LEMMA RenewedFacts ==
  ASSUME NEW r \in Stored
  PROVE  /\ Renewed(r) \in Stored /\ Renewed(r).id = r.id /\ Renewed(r).who = r.who
         /\ Renewed(r).finger = "1" <=> r.finger = "1"
         /\ Renewed(r) = Erased <=> r = Erased
<1>1. CASE r.finger = "0" /\ r # Mixed
  <2>1. r # Erased
    BY <1>1 DEF Erased
  <2>2. r \in Records
    BY <1>1, <2>1, StoredFacts
  <2>3. Renewed(r) = [r EXCEPT !.finger = "FF"]
    BY <1>1 DEF Renewed
  <2> QED
    BY <1>1, <2>1, <2>2, <2>3, StoredFacts DEF Stored, Records, Flags
<1>2. CASE ~ (r.finger = "0" /\ r # Mixed)
  BY <1>2 DEF Renewed
<1> QED
  BY <1>1, <1>2

(* A search that finds something takes the first.                          *)
LEMMA FirstIs ==
  ASSUME NEW S, S \subseteq Slots, S # {}
  PROVE  First(S) \in S /\ \A k \in S : First(S) <= k
<1>1. S \in SUBSET Nat
  BY ConstantsType DEF Slots
<1> QED
  BY <1>1, LeastExists DEF First

-----------------------------------------------------------------------------
(* The state keeps its type.  ScanInv says that the cleanup writes records *)
(* and nothing else.                                                       *)
LEMMA TableType ==
  ASSUME TypeOK
  PROVE  /\ \A s \in Slots : rec[s] \in Stored
         /\ Used \subseteq Slots /\ Live \subseteq Used
         /\ \A id : Of(id) \subseteq Slots /\ check_user_bio(id) \subseteq Slots
BY DEF TypeOK, Stored, Used, Live, Of, check_user_bio

LEMMA LoadType ==
  ASSUME NEW r \in Stored, Load(r) PROVE user_t' \in Stored
BY DEF Load, Stored

LEMMA FaultType ==
  ASSUME TypeOK, NEW id, Fault(id)
  PROVE  /\ excused' \subseteq Ids /\ excused \subseteq excused' /\ faults' \in 0 .. MAX_FAULTS
         /\ id \in Ids => id \in excused'
<1>1. faults' \in 0 .. MAX_FAULTS
  BY ConstantsType DEF TypeOK, Fault
<1>2. excused' = excused \union ({id} \intersect Ids) /\ excused \subseteq Ids
  BY DEF TypeOK, Fault
<1> QED
  BY <1>1, <1>2

LEMMA DeleteFacts ==
  ASSUME TypeOK, NEW id, NEW f, NEW ok \in BOOLEAN, delete_userrecord(id, f, ok)
  PROVE  /\ templates' \subseteq templates
         /\ \A t \in templates \ templates' : t.id = id /\ t.finger = f
         /\ excused' \subseteq Ids /\ excused \subseteq excused' /\ faults' \in 0 .. MAX_FAULTS
         /\ \/ id \in Ids => id \in excused'
            \/ ok /\ excused' = excused /\ \A t \in templates' : ~ (t.id = id /\ t.finger = f)
<1>1. PICK done \in BOOLEAN :
        /\ templates' = IF ~ done THEN templates
                        ELSE {t \in templates : ~ (t.id = id /\ t.finger = f)}
        /\ IF ok /\ done THEN UNCHANGED <<excused, faults>> ELSE Fault(id)
  BY DEF delete_userrecord
<1>2. CASE ok /\ done
  BY <1>1, <1>2 DEF TypeOK
<1>3. CASE ~ (ok /\ done)
  <2>1. Fault(id)
    BY <1>1, <1>3
  <2> QED
    BY <1>1, <2>1, FaultType
<1> QED
  BY <1>2, <1>3

LEMMA StoreType ==
  ASSUME TypeOK, code \in Ids, person \in People, NEW f \in {1, 2}, Store(f)
  PROVE  templates' \subseteq Template
BY DEF TypeOK, Store, Template

LEMMA EditType ==
  ASSUME TypeOK, NEW u \in Ids, NEW by \in Logins, Edit(u, by)
  PROVE  /\ rec' \in [Slots -> Stored] /\ user_t' \in Stored
         /\ cmds' \in 0 .. MAX_CMDS
         /\ UNCHANGED <<templates, work, session, crossed, faults, resets>>
<1> DEFINE new(p) == [id |-> u, by |-> by, who |-> p,
                      finger |-> IF check_user_bio(u) # {} THEN "1" ELSE "FF"]
<1>1. PICK p \in People :
        /\ Load(new(p))
        /\ rec' = [s \in Slots |-> IF s \in Of(u) THEN [rec[s] EXCEPT !.id = 0]
                                   ELSE IF s = First(Slots \ Used) THEN new(p) ELSE rec[s]]
  BY DEF Edit
<1>2. new(p) \in Records
  BY DEF Records, Flags
<1>3. ASSUME NEW s \in Of(u) PROVE rec[s] \in Records
  BY TableType, StoredFacts DEF Of
<1>4. rec' \in [Slots -> Stored]
  BY <1>1, <1>2, <1>3, TableType, RecordFacts DEF Stored
<1>5. user_t' \in Stored
  BY <1>1, <1>2, LoadType DEF Stored
<1>6. cmds' \in 0 .. MAX_CMDS
  BY ConstantsType DEF Edit, TypeOK
<1> QED
  BY <1>4, <1>5, <1>6 DEF Edit

LEMMA DelType ==
  ASSUME TypeOK, NEW u \in Ids, CmdDelUser(u)
  PROVE  /\ First(Of(u)) \in Of(u)
         /\ rec' \in [Slots -> Stored] /\ user_t' \in Stored
<1> DEFINE s == First(Of(u))
<1>1. s \in Of(u) /\ s \in Slots
  BY TableType, FirstIs DEF CmdDelUser
<1>2. rec[s] \in Records
  BY <1>1, TableType, StoredFacts DEF Of
<1>3. rec' = [rec EXCEPT ![s].id = 0] /\ Load(rec'[s])
  BY DEF CmdDelUser
<1>4. rec' \in [Slots -> Stored]
  BY <1>1, <1>2, <1>3, RecordFacts, TableType DEF TypeOK, Stored
<1>5. user_t' \in Stored
  BY <1>1, <1>3, <1>4, LoadType
<1> QED
  BY <1>1, <1>4, <1>5

(* A user that is enrolled is one of the server's, and the cleanup has a   *)
(* user's record in its slot and in user_t.                                *)
MenuTypes == pc \in Menus => code \in Ids /\ person \in People
ScanTypes == pc \in Scanning => uci \in Slots /\ rec[uci] \in Records /\ user_t \in Records

LEMMA TypeStep == TypeOK /\ MenuTypes /\ ScanTypes /\ [Next]_vars => TypeOK'
<1> SUFFICES ASSUME TypeOK, MenuTypes, ScanTypes, [Next]_vars PROVE TypeOK'
  OBVIOUS
<1> USE ConstantsType DEF work, history, bounds, memory, quiet
<1>t. /\ rec \in [Slots -> Stored] /\ user_t \in Stored /\ templates \subseteq Template
      /\ bio_delete_flag \in BOOLEAN /\ pc \in Waits \union {"restore"}
      /\ uci \in 0 .. SLOTS /\ code \in Ids \union {0, -1, -2}
      /\ person \in People \union {0}
      /\ excused \subseteq Ids /\ crossed \subseteq Ids
      /\ cmds \in 0 .. MAX_CMDS /\ faults \in 0 .. MAX_FAULTS /\ resets \in 0 .. MAX_RESETS
  BY DEF TypeOK, Stored
<1> DEFINE SessionType ==
      /\ session.code \in Ids \union {0} /\ session.who \in People \union {0}
      /\ session.rec \in Records \union {Erased}
      /\ (session # None) = (pc = "session")
<1>s. SessionType
  BY DEF TypeOK
<1>k. ASSUME UNCHANGED session, (pc = "session") = (pc' = "session") PROVE SessionType'
  BY <1>k, <1>s
<1> USE DEF Stored
<1>1. ASSUME NEW u \in Ids, NEW by \in Logins, CmdAddModUser(u, by) PROVE TypeOK'
  <2>1. Edit(u, by) /\ UNCHANGED bio_delete_flag
        /\ excused' = excused \union Overtaken(u) \union Cut(u)
    BY <1>1 DEF CmdAddModUser
  <2>2. excused' \subseteq Ids
    <3>1. Overtaken(u) \subseteq Ids /\ Cut(u) \subseteq Ids
      BY DEF Overtaken, Cut
    <3> QED
      BY <1>t, <2>1, <3>1
  <2> QED
    BY <1>t, <1>k, <2>1, <2>2, EditType DEF TypeOK
<1>2. ASSUME NEW by \in Logins, CmdAddEditUserT(by) PROVE TypeOK'
  <2>1. Edit(TEST_ID, by) /\ excused' = excused \union Overtaken(TEST_ID) \union Cut(TEST_ID)
    BY <1>2 DEF CmdAddEditUserT
  <2>2. excused' \subseteq Ids
    <3>1. Overtaken(TEST_ID) \subseteq Ids /\ Cut(TEST_ID) \subseteq Ids
      BY DEF Overtaken, Cut
    <3> QED
      BY <1>t, <2>1, <3>1
  <2>3. bio_delete_flag' \in BOOLEAN
    BY <1>2, <1>t, Zenon DEF CmdAddEditUserT
  <2> QED
    BY <1>t, <1>k, <2>1, <2>2, <2>3, EditType DEF TypeOK
<1>3. ASSUME NEW u \in Ids, CmdDelUser(u) PROVE TypeOK'
  <2>1. excused' \subseteq Ids /\ crossed' \subseteq Ids
    BY <1>t, <1>3 DEF CmdDelUser, Overtaken
  <2>2. cmds' \in 0 .. MAX_CMDS
    BY <1>t, <1>3 DEF CmdDelUser
  <2> QED
    BY <1>t, <1>k, <1>3, <2>1, <2>2, DelType DEF TypeOK, CmdDelUser
<1>4. ASSUME NEW t \in templates, FingerLogin(t) PROVE TypeOK'
  <2> DEFINE s == First(check_user_bio(t.id))
  <2>1. s \in check_user_bio(t.id) /\ s \in Slots
    BY <1>4, TableType, FirstIs DEF FingerLogin
  <2>2. rec[s] \in Records
    BY <1>t, <2>1, StoredFacts DEF check_user_bio
  <2>3. /\ Load(rec[s]) /\ pc' = "session"
        /\ session' = [code |-> t.id, rec |-> rec[s], who |-> t.who]
    BY <1>4 DEF FingerLogin
  <2>4. t.id \in Ids /\ t.who \in People
    BY <1>t DEF Template
  <2>5. SessionType'
    BY <2>2, <2>3, <2>4 DEF None
  <2>6. user_t' \in Stored
    BY <1>t, <2>1, <2>3, LoadType
  <2> QED
    BY <1>t, <1>4, <2>3, <2>5, <2>6 DEF TypeOK, FingerLogin, Waits
<1>5. CASE Logout
  <2>1. SessionType'
    BY <1>5 DEF Logout, None
  <2> QED
    BY <1>t, <1>5, <2>1 DEF TypeOK, Logout, Waits
<1>6. CASE ChooseNew
  <2>1. code' \in Ids /\ person' \in People
    <3>1. PICK s \in Live : code' = rec[s].id /\ person' = rec[s].who
      BY <1>6 DEF ChooseNew
    <3>2. rec[s] \in Stored /\ rec[s].id > 0
      BY <3>1, TableType DEF Live
    <3>3. rec[s].id \in Ids
      BY <3>2, StoredFacts
    <3> QED
      BY <3>1, <3>2, <3>3, StoredFacts, RecordFacts
  <2> QED
    BY <1>t, <1>k, <1>6, <2>1 DEF TypeOK, ChooseNew, Waits, Menus
<1>7. ASSUME EnrolEnter \/ LeaveMenu \/ DeleteEnter \/ AlignErase
             \/ EnrolFails("enrol1", "undo1") \/ EnrolFails("enrol2", "undo2")
      PROVE  TypeOK'
  BY <1>t, <1>k, <1>7 DEF TypeOK, EnrolEnter, LeaveMenu, DeleteEnter, AlignErase, EnrolFails,
                          Goto, Waits, Menus
<1>8. ASSUME NEW f \in {1, 2}, Store(f), pc \in Menus, NEW to \in Waits \ {"session"}, Goto(to),
             excused' \subseteq Ids, faults' \in 0 .. MAX_FAULTS, UNCHANGED <<rec, memory>>
      PROVE  TypeOK'
  <2>1. templates' \subseteq Template
    BY <1>8, StoreType DEF MenuTypes
  <2> QED
    BY <1>t, <1>k, <1>8, <2>1 DEF TypeOK, Goto, Menus
<1>9. ASSUME EnrolUnheard("enrol1", 1, "undo1") \/ EnrolUnheard("enrol2", 2, "undo2")
             \/ EnrolDone("enrol1", 1, "enrol2") \/ EnrolDone("enrol2", 2, "save")
      PROVE  TypeOK'
  <2>1. ASSUME NEW from \in Menus, NEW f \in {1, 2}, NEW to \in Menus, EnrolUnheard(from, f, to)
        PROVE  TypeOK'
    BY <2>1, <1>8, FaultType DEF EnrolUnheard, Waits, Menus
  <2>2. ASSUME NEW from \in Menus, NEW f \in {1, 2}, NEW to \in Menus, EnrolDone(from, f, to)
        PROVE  TypeOK'
    BY <2>2, <1>8, <1>t DEF EnrolDone, Waits, Menus
  <2> QED
    BY <1>9, <2>1, <2>2 DEF Menus
<1>10. ASSUME NEW c, NEW f, NEW ok \in BOOLEAN, delete_userrecord(c, f, ok),
              pc # "session", NEW to \in Waits \ {"session"}, Goto(to), UNCHANGED <<rec, memory>>
       PROVE  TypeOK'
  BY <1>t, <1>k, <1>10, DeleteFacts DEF TypeOK, Goto
<1>11. CASE Undo("undo1", "idle") \/ Undo("undo2", "enrol")
  BY <1>11, <1>10 DEF Undo, Waits, Menus
<1>12. CASE save_user_details
  <2>1. excused' \subseteq Ids
    BY <1>t, <1>12 DEF save_user_details
  <2>2. rec' \in [Slots -> Stored]
    <3>1. CASE Of(code) = {}
      BY <1>12, <1>t, <3>1 DEF save_user_details
    <3>2. CASE Of(code) # {}
      <4> DEFINE s == First(Of(code))
      <4>1. s \in Of(code) /\ s \in Slots
        BY <3>2, TableType, FirstIs
      <4>2. code \in Ids
        BY <1>12 DEF save_user_details, MenuTypes, Menus
      <4>3. rec[s] \in Records
        BY <1>t, <4>1, <4>2, StoredFacts DEF Of
      <4>4. Write(s, [rec[s] EXCEPT !.finger = "1"])
        BY <1>12, <3>2 DEF save_user_details
      <4>5. [rec[s] EXCEPT !.finger = "1"] \in Records
        BY <4>3, RecordFacts DEF Flags
      <4>6. FlashAnd(rec[s], [rec[s] EXCEPT !.finger = "1"]) \in Stored
        BY <4>3, <4>5, FlashFacts
      <4> QED
        BY <1>t, <4>1, <4>4, <4>6 DEF Write
    <3> QED
      BY <3>1, <3>2
  <2> QED
    BY <1>t, <1>k, <1>12, <2>1, <2>2 DEF TypeOK, save_user_details, Goto, Waits
<1>13. CASE ChooseEnrolled
  <2>1. code' \in Ids
    BY <1>13, <1>t, StoredFacts, IdsArePositive, TableType DEF ChooseEnrolled, Live
  <2> QED
    BY <1>t, <1>k, <1>13, <2>1 DEF TypeOK, ChooseEnrolled, Waits
<1>14. CASE DeleteFinger("delete1", 1, "delete2") \/ DeleteFinger("delete2", 2, "flags")
  BY <1>14, <1>10 DEF DeleteFinger, Waits
<1>15. CASE chage_bioflag
  <2>1. excused' \subseteq Ids
    <3>1. Cut(code) \subseteq Ids
      BY <1>t DEF Cut
    <3> QED
      BY <1>t, <1>15, <3>1 DEF chage_bioflag
  <2>2. ASSUME NEW s \in Unflag(code) PROVE [rec[s] EXCEPT !.finger = "0"] \in Stored
    <3>1. rec[s] \in Stored /\ code % WIDTH \in Nat
      BY <1>t, TableType DEF Unflag
    <3>2. rec[s].finger = "1" \/ rec[s].id \in Nat
      BY <3>1 DEF Unflag
    <3>3. rec[s] \in Records
      BY <3>1, <3>2, StoredFacts
    <3> QED
      BY <3>3, RecordFacts DEF Flags
  <2>3. rec' \in [Slots -> Stored]
    BY <1>t, <1>15, <2>2 DEF chage_bioflag
  <2> QED
    BY <1>t, <1>k, <1>15, <2>1, <2>3 DEF TypeOK, chage_bioflag, Goto, Waits
<1>16. CASE AlignRestore
  <2> DEFINE K == {s \in Used : rec[s].id # 0}
             Place(s) == Cardinality({k \in K : k < s})
             Slot(n) == CHOOSE s \in K : Place(s) = n
             New(n) == IF \E s \in K : Place(s) = n THEN Renewed(rec[Slot(n)]) ELSE Erased
  <2>1. rec' = [n \in Slots |-> New(n)]
    BY <1>16 DEF AlignRestore
  <2>2. ASSUME NEW s \in K PROVE Renewed(rec[s]) \in Stored
    BY TableType, RenewedFacts
  <2>3. ASSUME NEW n \in Slots PROVE New(n) \in Stored
    <3>1. (\E s \in K : Place(s) = n) => Slot(n) \in K
      OBVIOUS
    <3> QED
      BY <3>1, <2>2
  <2>4. rec' \in [Slots -> Stored]
    BY <2>1, <2>3
  <2> QED
    BY <1>t, <1>k, <1>16, <2>4 DEF TypeOK, AlignRestore, Goto, Waits
<1>17. CASE StartCleanup
  BY <1>t, <1>k, <1>17 DEF TypeOK, StartCleanup, Waits, Cleanup
<1>18. CASE Scan
  <2>1. uci \in Slots
    BY <1>t, <1>18 DEF Scan, Slots
  <2>2. rec[uci] \in Stored /\ rec[uci].id \in Ids \union {0, -1, -2} /\ uci + 1 \in 0 .. SLOTS
    BY <1>t, <2>1, StoredFacts DEF Slots
  <2> QED
    BY <1>t, <1>k, <1>18, <2>2 DEF TypeOK, Scan, Waits, Cleanup
<1>19. CASE ScanFinger("scan1", 1, "scan2") \/ ScanFinger("scan2", 2, "scan_write")
  <2>1. uci \in Slots /\ user_t.id \in Ids \union {0, -1, -2}
    BY <1>t, <1>19, StoredFacts DEF ScanFinger, ScanTypes, Scanning
  <2>2. uci + 1 \in 0 .. SLOTS
    BY <2>1 DEF Slots
  <2>3. PICK f \in {1, 2}, ok \in BOOLEAN, to \in {"scan2", "scan_write"} :
          /\ delete_userrecord(code, f, ok)
          /\ pc' = (IF ok THEN to ELSE "scan") /\ uci' = (IF ok THEN uci ELSE uci + 1)
          /\ code' = (IF ok THEN user_t.id ELSE code)
          /\ UNCHANGED <<rec, person, memory>> /\ pc # "session"
    BY <1>19 DEF ScanFinger
  <2>4. pc' \in Waits \ {"session"} /\ uci' \in 0 .. SLOTS /\ code' \in Ids \union {0, -1, -2}
    BY <1>t, <2>1, <2>2, <2>3 DEF Waits, Cleanup
  <2>5. templates' \subseteq Template /\ excused' \subseteq Ids /\ faults' \in 0 .. MAX_FAULTS
    BY <1>t, <2>3, DeleteFacts
  <2> QED
    BY <1>t, <1>k, <2>3, <2>4, <2>5 DEF TypeOK
<1>20. CASE ScanWrite
  <2>1. uci \in Slots /\ rec[uci] \in Records /\ user_t \in Records
    BY <1>20 DEF ScanWrite, ScanTypes, Scanning
  <2>2. user_t' \in Records
    BY <1>20, <2>1, RecordFacts DEF ScanWrite, Flags
  <2>3. FlashAnd(rec[uci], user_t') \in Stored
    BY <2>1, <2>2, FlashFacts
  <2>4. rec' \in [Slots -> Stored]
    BY <1>t, <1>20, <2>1, <2>3 DEF ScanWrite, Write
  <2>5. uci + 1 \in 0 .. SLOTS
    BY <2>1 DEF Slots
  <2> QED
    BY <1>t, <1>k, <1>20, <2>2, <2>4, <2>5 DEF TypeOK, ScanWrite, Waits, Cleanup
<1>21. CASE ScanEnd
  <2>1. user_t' \in Stored
    BY <1>21, LoadType DEF ScanEnd
  <2>2. bio_delete_flag' \in BOOLEAN
    BY <1>21, Zenon DEF ScanEnd
  <2> QED
    BY <1>t, <1>k, <1>21, <2>1, <2>2 DEF TypeOK, ScanEnd, Waits
<1>22. CASE EraseUsers
  BY <1>t, <1>k, <1>22 DEF TypeOK, EraseUsers, Goto, Waits
<1>23. CASE DeleteDatabase
  <2>1. templates' \subseteq Template /\ excused' \subseteq Ids /\ faults' \in 0 .. MAX_FAULTS
    <3>1. CASE templates' = {} /\ UNCHANGED <<excused, faults>>
      BY <1>t, <3>1
    <3>2. CASE faults < MAX_FAULTS /\ faults' = faults + 1 /\ UNCHANGED templates
               /\ excused' = excused \union {id \in Ids : TemplatesOf(id) # {}}
      <4>1. faults' \in 0 .. MAX_FAULTS
        BY <1>t, <3>2
      <4>2. excused' \subseteq Ids
        BY <1>t, <3>2
      <4> QED
        BY <1>t, <3>2, <4>1, <4>2
    <3> QED
      BY <1>23, <3>1, <3>2 DEF DeleteDatabase
  <2> QED
    BY <1>t, <1>k, <1>23, <2>1 DEF TypeOK, DeleteDatabase, Goto, Waits
<1>24. CASE Reset
  <2>1. SessionType'
    BY <1>24 DEF Reset, None
  <2>2. excused' \subseteq Ids /\ rec' \in [Slots -> Stored]
    BY <1>t, <1>24 DEF Reset
  <2>3. resets' \in 0 .. MAX_RESETS
    BY <1>t, <1>24 DEF Reset
  <2>4. bio_delete_flag' \in BOOLEAN
    BY <1>24, Zenon DEF Reset
  <2> QED
    BY <1>t, <1>24, <2>1, <2>2, <2>3, <2>4 DEF TypeOK, Reset, Waits
<1>25. CASE UNCHANGED vars
  BY <1>t, <1>s, <1>25 DEF TypeOK, vars
<1> QED
  BY <1>1, <1>2, <1>3, <1>4, <1>5, <1>6, <1>7, <1>9, <1>11, <1>12, <1>13, <1>14, <1>15,
     <1>16, <1>17, <1>18, <1>19, <1>20, <1>21, <1>22, <1>23, <1>24, <1>25
  DEF Next, Enrolment, Deletion, bio_verification

(* The other steps do not leave the main loop in the cleanup's waits.      *)
LEMMA NotScanning ==
  ASSUME \/ \E t \in templates : FingerLogin(t)
         \/ Logout \/ LeaveMenu \/ Enrolment \/ Deletion
         \/ StartCleanup \/ ScanWrite \/ ScanEnd
         \/ EraseUsers \/ DeleteDatabase \/ Reset
  PROVE  pc' \notin Scanning
<1>1. ASSUME NEW from, NEW f, NEW to \in Menus \union {"idle"},
             EnrolFails(from, to) \/ EnrolUnheard(from, f, to) \/ EnrolDone(from, f, to)
               \/ Undo(from, to)
      PROVE  pc' \notin Scanning
  BY <1>1 DEF EnrolFails, EnrolUnheard, EnrolDone, Undo, Goto, Menus, Scanning
<1>2. Enrolment => pc' \notin Scanning
  BY <1>1 DEF Enrolment, ChooseNew, EnrolEnter, save_user_details, Goto, Menus, Scanning
<1>3. ASSUME NEW from, NEW f, NEW to \in {"delete2", "flags"}, DeleteFinger(from, f, to)
      PROVE  pc' \notin Scanning
  BY <1>3 DEF DeleteFinger, Goto, Scanning
<1>4. Deletion => pc' \notin Scanning
  BY <1>3 DEF Deletion, ChooseEnrolled, DeleteEnter, chage_bioflag, AlignErase, AlignRestore,
              Goto, Scanning
<1> QED
  BY <1>2, <1>4 DEF FingerLogin, Logout, LeaveMenu, StartCleanup, ScanWrite, ScanEnd,
     EraseUsers, DeleteDatabase, Reset, Goto, Scanning

-----------------------------------------------------------------------------
(* What the steps that change the table do to it, and that it stays        *)
(* without gaps and doubles.                                               *)
LEMMA UsedIs ==
  ASSUME TypeOK, TableInv
  PROVE  /\ \A s \in Slots : s \in Used <=> rec[s] # Erased
         /\ \A id \in Ids, s \in Slots : s \in Of(id) <=> rec[s].id = id
         /\ \A s : s \in Of(0) => s \in Slots /\ rec[s].id = 0
         /\ \A s \in Slots : s \in Live <=> rec[s].id \in Ids
<1>1. \A s \in Slots : s \in 0 .. s /\ s \in Int
  BY DEF Slots
<1>2. \A s \in Slots : s \in Used <=> rec[s] # Erased
  BY <1>1 DEF Used, TableInv, Packed
<1>3. \A s \in Slots : rec[s].id \in Ids => rec[s] # Erased
  BY StoredFacts
<1>4. \A s \in Slots : rec[s].id \in Ids <=> rec[s].id > 0
  BY TableType, StoredFacts, IdsArePositive
<1>5. \A s \in Slots : rec[s].id > 0 => rec[s] # Erased
  BY <1>3, <1>4
<1> QED
  BY <1>2, <1>3, <1>4, <1>5, TableType DEF Of, Live

LEMMA FlagOf ==
  ASSUME TypeOK, NEW id \in Ids, Cut(id) = {}
  PROVE  check_user_bio(id) = {s \in Slots : rec[s].id = id /\ rec[s].finger = "1"}
BY NotCut DEF check_user_bio

EditedBy(u, f, new) ==
  /\ rec[f] = Erased /\ rec'[f] = new /\ \A k \in Slots : k < f => rec[k] # Erased
  /\ \A s \in Slots \ {f} : rec'[s] = IF rec[s].id = u THEN [rec[s] EXCEPT !.id = 0] ELSE rec[s]
  /\ new \in Records /\ new.id = u /\ new.finger \in {"1", "FF"}
  /\ Cut(u) = {} => (new.finger = "1" <=> Flagged(u))
  /\ \A s \in Slots : rec[s].id = u => new.who = rec[s].who
LEMMA EditDoes ==
  ASSUME TypeOK, TableInv, NEW u \in Ids, NEW by \in Logins, Edit(u, by)
  PROVE  \E f \in Slots, new \in Records : EditedBy(u, f, new) /\ Load(new)
<1> DEFINE f == First(Slots \ Used)
           new(p) == [id |-> u, by |-> by, who |-> p,
                      finger |-> IF check_user_bio(u) # {} THEN "1" ELSE "FF"]
<1>1. f \in Slots /\ f \notin Used /\ \A k \in Slots \ Used : f <= k
  <2>1. Slots \ Used \subseteq Slots /\ Slots \ Used # {}
    BY TableType DEF Edit
  <2> QED
    BY <2>1, FirstIs
<1>2. rec[f] = Erased /\ \A k \in Slots : k < f => rec[k] # Erased
  <2> HIDE DEF f
  <2>1. f \in Int /\ \A k \in Slots : k \in Int
    BY <1>1, ConstantsType DEF Slots
  <2>2. \A k \in Slots : k < f => k \in Used
    BY <1>1, <2>1
  <2> QED
    BY <1>1, <2>2, UsedIs
<1>3. PICK p \in People :
        /\ IF Of(u) # {} THEN p = rec[First(Of(u))].who ELSE \A s \in Live : rec[s].who # p
        /\ Load(new(p))
        /\ rec' = [s \in Slots |-> IF s \in Of(u) THEN [rec[s] EXCEPT !.id = 0]
                                   ELSE IF s = f THEN new(p) ELSE rec[s]]
  BY DEF Edit
<1>4. /\ new(p) \in Records /\ new(p).id = u /\ new(p).who = p
      /\ new(p).finger \in {"1", "FF"}
      /\ Cut(u) = {} => (new(p).finger = "1" <=> Flagged(u))
  BY FlagOf DEF Records, Flags, Flagged
<1>5. f \notin Of(u)
  BY <1>1, <1>2, UsedIs, StoredFacts
<1>6. rec'[f] = new(p)
  BY <1>1, <1>3, <1>5
<1>7. \A s \in Slots \ {f} : rec'[s] = IF rec[s].id = u THEN [rec[s] EXCEPT !.id = 0] ELSE rec[s]
  BY <1>3, UsedIs
<1>8. ASSUME NEW s \in Slots, rec[s].id = u PROVE p = rec[s].who
  <2>1. First(Of(u)) \in Of(u) /\ s \in Of(u)
    BY <1>8, UsedIs, TableType, FirstIs
  <2>2. First(Of(u)) = s
    BY <2>1, <1>8, UsedIs, TableType DEF TableInv, Once
  <2> QED
    BY <1>3, <2>1, <2>2
<1> HIDE DEF f, new
<1> QED
  BY <1>1, <1>2, <1>3, <1>4, <1>6, <1>7, <1>8 DEF EditedBy

LEMMA EditKeeps ==
  ASSUME TypeOK, TypeOK', TableInv, NEW u \in Ids, NEW f \in Slots, NEW new \in Records,
         EditedBy(u, f, new)
  PROVE  /\ TableInv'
         /\ \A id \in Ids \ Cut(u) : Flagged(id)' <=> Flagged(id)
         /\ \A s \in Slots : rec'[s].id = u => rec'[s] = new
         /\ \A s \in Slots : rec'[s].id \in Ids \ {u} => rec'[s] = rec[s]
         /\ \A s \in Slots : rec[s].id \in Ids \ {u} => rec'[s] = rec[s]
         /\ \A s \in Slots : rec[s] \in Records => rec'[s] \in Records
<1>1. ASSUME NEW s \in Slots, rec[s].id = u PROVE /\ rec[s] \in Records /\ s # f
                                                 /\ rec'[s] = [rec[s] EXCEPT !.id = 0]
                                                 /\ rec'[s] \in Records /\ rec'[s].id = 0
  <2>1. rec[s] \in Records /\ s # f
    BY <1>1, TableType, StoredFacts DEF EditedBy
  <2> QED
    BY <1>1, <2>1, RecordFacts DEF EditedBy, Records
<1>2. ASSUME NEW s \in Slots \ {f}, rec[s].id # u PROVE rec'[s] = rec[s]
  BY <1>2 DEF EditedBy
<1>3. rec'[f] = new /\ new.id = u /\ rec[f] = Erased /\ rec[f].id \notin Ids
  BY StoredFacts DEF EditedBy
<1>4. \A s \in Slots : rec'[s].id \in Ids => s = f \/ (rec[s].id # u /\ rec'[s] = rec[s])
  BY <1>1, <1>2, StoredFacts
<1>5. \A s \in Slots : rec'[s] # Erased <=> s = f \/ rec[s] # Erased
  BY <1>1, <1>2, <1>3, RecordFacts
<1>6. Packed'
  <2>1. ASSUME NEW s \in Slots, rec'[s] # Erased, NEW k \in 0 .. s PROVE rec'[k] # Erased
    <3>1. k \in Slots
      BY ConstantsType DEF Slots
    <3>2. CASE s = f
      <4>1. k < f \/ k = f
        BY <3>2, <3>1 DEF Slots
      <4> QED
        BY <3>1, <4>1, <1>5 DEF EditedBy
    <3>3. CASE s # f
      BY <3>1, <3>3, <2>1, <1>5 DEF TableInv, Packed, Used
    <3> QED
      BY <3>2, <3>3
  <2> QED
    BY <2>1 DEF Packed, Used
<1>7. Once'
  <2>1. ASSUME NEW s \in Slots, NEW k \in Slots, rec'[s].id \in Ids, rec'[s].id = rec'[k].id
        PROVE  s = k
    BY <2>1, <1>3, <1>4 DEF TableInv, Once
  <2> QED
    BY <2>1 DEF Once
<1>8. ASSUME NEW id \in Ids \ Cut(u) PROVE Flagged(id)' <=> Flagged(id)
  <2>1. CASE id = u
    <3>1. \A s \in Slots : rec'[s].id = u => s = f
      BY <1>4
    <3>2. Cut(u) = {}
      BY <1>8, <2>1, NotCut
    <3>3. Flagged(u)' <=> new.finger = "1"
      BY <3>1, <1>3 DEF Flagged
    <3> QED
      BY <2>1, <3>2, <3>3 DEF EditedBy
  <2>2. CASE id # u
    BY <2>2, <1>2, <1>3, <1>4 DEF Flagged
  <2> QED
    BY <2>1, <2>2
<1> QED
  BY <1>1, <1>2, <1>3, <1>4, <1>6, <1>7, <1>8, RecordFacts DEF TableInv

(* A slot that keeps its id or loses it, and is not erased, leaves the     *)
(* table without gaps and doubles.                                         *)
LEMMA KeepsTable ==
  ASSUME TypeOK, TableInv,
         \A s \in Slots : /\ rec'[s].id = rec[s].id \/ rec'[s].id \in {0, -2}
                          /\ rec'[s] = Erased <=> rec[s] = Erased
  PROVE  TableInv'
<1>1. Packed'
  <2>1. ASSUME NEW s \in Slots, rec'[s] # Erased, NEW k \in 0 .. s PROVE rec'[k] # Erased
    <3>1. k \in Slots
      BY ConstantsType DEF Slots
    <3> QED
      BY <2>1, <3>1 DEF TableInv, Packed, Used
  <2> QED
    BY <2>1 DEF Packed, Used
<1>2. Once'
  <2>1. ASSUME NEW s \in Slots, NEW k \in Slots, rec'[s].id \in Ids, rec'[s].id = rec'[k].id
        PROVE  s = k
    <3>1. rec'[s].id = rec[s].id /\ rec'[k].id = rec[k].id
      BY <2>1, StoredFacts
    <3> QED
      BY <2>1, <3>1 DEF TableInv, Once
  <2> QED
    BY <2>1 DEF Once
<1> QED
  BY <1>1, <1>2 DEF TableInv

LEMMA DelDoes ==
  ASSUME TypeOK, TableInv, NEW u \in Ids, CmdDelUser(u)
  PROVE  \E s \in Slots :
           /\ rec[s].id = u /\ rec[s] \in Records /\ rec'[s] = [rec[s] EXCEPT !.id = 0]
           /\ rec'[s] \in Records /\ rec'[s].id = 0 /\ Load(rec'[s])
           /\ \A k \in Slots \ {s} : rec'[k] = rec[k] /\ rec[k].id # u
<1> DEFINE s == First(Of(u))
<1>1. s \in Slots /\ rec[s].id = u
  BY DelType, UsedIs, TableType
<1>2. rec' = [rec EXCEPT ![s].id = 0] /\ Load(rec'[s])
  BY DEF CmdDelUser
<1>3. rec[s] \in Records
  BY <1>1, TableType, StoredFacts
<1>4. \A k \in Slots \ {s} : rec'[k] = rec[k] /\ rec[k].id # u
  BY <1>1, <1>2 DEF TypeOK, TableInv, Once
<1>5. rec'[s] = [rec[s] EXCEPT !.id = 0]
  BY <1>1, <1>2 DEF TypeOK
<1>6. rec'[s] \in Records /\ rec'[s].id = 0
  BY <1>3, <1>5, RecordFacts DEF Records
<1> HIDE DEF s
<1> QED
  BY <1>1, <1>2, <1>3, <1>4, <1>5, <1>6

LEMMA SaveDoes ==
  ASSUME TypeOK, TableInv, MenuInv, save_user_details
  PROVE  \/ rec' = rec /\ excused' = excused /\ \A k \in Slots : rec[k].id # code
         \/ /\ excused' = excused \ {code}
            /\ \E s \in Slots :
                 /\ rec[s].id = code /\ rec[s] \in Records
                 /\ rec'[s] = [rec[s] EXCEPT !.finger = "1"]
                 /\ \A k \in Slots \ {s} : rec'[k] = rec[k] /\ rec[k].id # code
<1>1. code \in Ids
  BY DEF save_user_details, MenuInv, Menus
<1>2. CASE Of(code) = {}
  BY <1>1, <1>2, UsedIs DEF save_user_details
<1>3. CASE Of(code) # {}
  <2> DEFINE s == First(Of(code))
  <2>1. s \in Of(code) /\ s \in Slots
    BY <1>3, TableType, FirstIs
  <2>2. /\ rec' = [rec EXCEPT ![s] = FlashAnd(rec[s], [rec[s] EXCEPT !.finger = "1"])]
        /\ excused' = excused \ {code}
    BY <1>3 DEF save_user_details, Write
  <2> HIDE DEF s
  <2>3. rec[s].id = code /\ rec[s] \in Records /\ rec[s].finger \in {"FF", "1"}
    BY <1>1, <2>1, UsedIs, TableType, StoredFacts DEF save_user_details, MenuInv, Menus, NoFlag
  <2>4. FlashAnd(rec[s], [rec[s] EXCEPT !.finger = "1"]) = [rec[s] EXCEPT !.finger = "1"]
    <3>1. [rec[s] EXCEPT !.finger = "1"] \in Records /\ "1" \in Flags /\ code # 0
      BY <1>1, <2>3, RecordFacts, StoredFacts DEF Flags
    <3> QED
      BY <2>3, <3>1, FlashFacts DEF FlagAnd
  <2>5. rec'[s] = [rec[s] EXCEPT !.finger = "1"] /\ \A k \in Slots \ {s} : rec'[k] = rec[k]
    BY <2>1, <2>2, <2>4 DEF TypeOK
  <2>6. \A k \in Slots \ {s} : rec[k].id # code
    BY <1>1, <2>1, <2>3 DEF TableInv, Once
  <2> QED
    BY <2>1, <2>2, <2>3, <2>5, <2>6
<1> QED
  BY <1>2, <1>3

LEMMA UnflagDoes ==
  ASSUME TypeOK, TableInv, code \in Ids, chage_bioflag
  PROVE  /\ \A s \in Slots :
              rec'[s] = IF s \in Unflag(code) THEN [rec[s] EXCEPT !.finger = "0"] ELSE rec[s]
         /\ \A s \in Unflag(code) :
              /\ s \in Slots /\ rec[s] \in Records /\ rec'[s] # Erased
              /\ rec'[s].id = rec[s].id /\ rec'[s].finger = "0"
         /\ Cut(code) = {} => \A s \in Slots : s \in Unflag(code) <=> rec[s].id = code
<1>1. \A s \in Slots :
        rec'[s] = IF s \in Unflag(code) THEN [rec[s] EXCEPT !.finger = "0"] ELSE rec[s]
  BY DEF chage_bioflag
<1>2. ASSUME NEW s \in Unflag(code)
      PROVE  /\ s \in Slots /\ rec[s] \in Records /\ rec'[s] # Erased
             /\ rec'[s].id = rec[s].id /\ rec'[s].finger = "0"
  <2>1. s \in Slots /\ rec[s] \in Stored /\ code % WIDTH \in Nat
    BY TableType, ConstantsType, IdsArePositive DEF Unflag
  <2>2. rec[s].finger = "1" \/ rec[s].id \in Nat
    BY <2>1 DEF Unflag
  <2>3. rec[s] \in Records
    BY <2>1, <2>2, StoredFacts
  <2>4. [rec[s] EXCEPT !.finger = "0"] \in Records
    BY <2>3, RecordFacts DEF Flags
  <2>5. rec'[s] = [rec[s] EXCEPT !.finger = "0"]
    BY <1>1, <2>1
  <2>6. rec'[s].id = rec[s].id /\ rec'[s].finger = "0"
    BY <2>3, <2>5 DEF Records
  <2> QED
    BY <2>1, <2>3, <2>4, <2>5, <2>6, RecordFacts
<1>3. ASSUME Cut(code) = {} PROVE \A s \in Slots : s \in Unflag(code) <=> rec[s].id = code
  <2>1. code % WIDTH = code /\ code # 0
    BY <1>3, NotCut, StoredFacts
  <2>2. Unflag(code) = {s \in Used : rec[s].id = code}
    BY <2>1 DEF Unflag
  <2> QED
    BY <2>2, UsedIs, StoredFacts
<1> QED
  BY <1>1, <1>2, <1>3

LEMMA ScanWriteDoes ==
  ASSUME TypeOK, ScanInv, ScanWrite
  PROVE  /\ rec'[uci] # Erased /\ rec[uci] # Erased /\ rec'[uci].finger = "0"
         /\ rec'[uci].id \in {rec[uci].id, 0, -2}
         /\ \A k \in Slots \ {uci} : rec'[k] = rec[k]
<1>1. uci \in Slots /\ rec[uci] \in Records /\ user_t \in Records
  BY DEF ScanWrite, ScanInv, Scanning
<1>2. user_t' \in Records /\ user_t'.finger = "0"
  BY <1>1, RecordFacts DEF ScanWrite, Flags, Records
<1>3. rec' = [rec EXCEPT ![uci] = FlashAnd(rec[uci], user_t')]
  BY DEF ScanWrite, Write
<1>4. /\ FlashAnd(rec[uci], user_t') \in Records \union {Mixed}
      /\ FlashAnd(rec[uci], user_t').id \in {rec[uci].id, 0, -2}
      /\ FlashAnd(rec[uci], user_t').finger = "0"
  BY <1>1, <1>2, FlashFacts
<1>5. Mixed # Erased
  BY DEF Mixed, Erased
<1> QED
  BY <1>1, <1>3, <1>4, <1>5, RecordFacts DEF TypeOK

(* The alignment keeps every live and every zeroed flag where it belongs:  *)
(* the records that are not deleted, packed.                               *)
LEMMA RestoreDoes ==
  ASSUME TypeOK, TableInv, AlignRestore
  PROVE  /\ TableInv'
         /\ \A s \in Slots : rec[s].id \in Ids => \E n \in Slots : rec'[n] = Renewed(rec[s])
         /\ \A n \in Slots : rec'[n].id \in Ids =>
              \E s \in Slots : rec[s].id \in Ids /\ rec'[n] = Renewed(rec[s])
<1> DEFINE K == {s \in Used : rec[s].id # 0}
           Slot(n) == CHOOSE s \in K : Rank(K, s) = n
<1>1. rec' = [n \in Slots |-> IF \E s \in K : Rank(K, s) = n
                              THEN Renewed(rec[Slot(n)]) ELSE Erased]
  BY DEF AlignRestore, Rank, Below
<1>2. /\ \A s \in 0 .. SLOTS - 1 : Rank(K, s) \in 0 .. s
      /\ \A s, r \in K : s < r => Rank(K, s) < Rank(K, r)
      /\ \A r \in K : \A n \in 0 .. Rank(K, r) : \E s \in K : Rank(K, s) = n
  <2>1. \A k \in K : k \in 0 .. SLOTS - 1
    BY TableType DEF Slots
  <2>2. SLOTS \in Nat
    BY ConstantsType
  <2> HIDE DEF K
  <2> QED
    BY <2>1, <2>2, RankFacts
<1>k. \A s \in Slots : (s \in K <=> rec[s] # Erased /\ rec[s].id # 0)
  BY UsedIs
<1>s. K \subseteq Slots
  BY TableType
<1> HIDE DEF K
<1>3. ASSUME NEW s \in K PROVE Rank(K, s) \in Slots /\ rec'[Rank(K, s)] = Renewed(rec[s])
  <2>1. Rank(K, s) \in Slots
    BY <1>2, <1>s, ConstantsType DEF Slots
  <2>2. ASSUME NEW r \in K, Rank(K, r) = Rank(K, s) PROVE r = s
    <3>1. r \in Int /\ s \in Int /\ Rank(K, r) \in Int
      BY <1>s, <2>1, <2>2, ConstantsType DEF Slots
    <3>2. ~ (r < s) /\ ~ (s < r)
      BY <1>2, <2>2, <3>1
    <3> QED
      BY <3>1, <3>2
  <2>3. Slot(Rank(K, s)) = s
    BY <2>2
  <2> QED
    BY <1>1, <2>1, <2>3
<1>4. ASSUME NEW n \in Slots, rec'[n] # Erased
      PROVE  \E s \in K : Rank(K, s) = n /\ rec'[n] = Renewed(rec[s])
  <2>1. PICK s \in K : Rank(K, s) = n
    BY <1>1, <1>4
  <2> QED
    BY <2>1, <1>3
<1>5. ASSUME NEW s \in K PROVE Renewed(rec[s]) # Erased
  BY <1>k, <1>s, TableType, RenewedFacts
<1>6. Packed'
  <2>1. ASSUME NEW n \in Slots, rec'[n] # Erased, NEW k \in 0 .. n PROVE rec'[k] # Erased
    <3>1. PICK s \in K : Rank(K, s) = n
      BY <1>4, <2>1
    <3>2. PICK r \in K : Rank(K, r) = k
      BY <1>2, <3>1
    <3> QED
      BY <1>3, <1>5, <3>2
  <2> QED
    BY <2>1 DEF Packed, Used
<1>7. \A n \in Slots : rec'[n].id \in Ids => rec'[n] # Erased
  BY StoredFacts
<1>8. ASSUME NEW n \in Slots, rec'[n].id \in Ids
      PROVE  \E s \in K : Rank(K, s) = n /\ rec'[n] = Renewed(rec[s]) /\ rec[s].id = rec'[n].id
  <2>1. PICK s \in K : Rank(K, s) = n /\ rec'[n] = Renewed(rec[s])
    BY <1>4, <1>7, <1>8
  <2>2. Renewed(rec[s]).id = rec[s].id
    BY <1>s, TableType, RenewedFacts
  <2> QED
    BY <2>1, <2>2
<1>9. Once'
  <2>1. ASSUME NEW n \in Slots, NEW m \in Slots, rec'[n].id \in Ids, rec'[n].id = rec'[m].id
        PROVE  n = m
    <3>1. PICK s \in K : Rank(K, s) = n /\ rec[s].id = rec'[n].id
      BY <1>8, <2>1
    <3>2. PICK r \in K : Rank(K, r) = m /\ rec[r].id = rec'[m].id
      BY <1>8, <2>1
    <3>3. s = r
      BY <1>s, <2>1, <3>1, <3>2 DEF TableInv, Once
    <3> QED
      BY <3>1, <3>2, <3>3
  <2> QED
    BY <2>1 DEF Once
<1>10. ASSUME NEW s \in Slots, rec[s].id \in Ids PROVE \E n \in Slots : rec'[n] = Renewed(rec[s])
  <2>1. s \in K
    BY <1>k, <1>10, StoredFacts
  <2> QED
    BY <2>1, <1>3
<1>11. ASSUME NEW n \in Slots, rec'[n].id \in Ids
       PROVE  \E s \in Slots : rec[s].id \in Ids /\ rec'[n] = Renewed(rec[s])
  BY <1>8, <1>11, <1>s
<1> QED
  BY <1>6, <1>9, <1>10, <1>11 DEF TableInv

-----------------------------------------------------------------------------
(* A command that edits or adds a user: what it does to the table, to      *)
(* user_t in a cleanup, and to the excuses.                                *)
LEMMA CommandDoes ==
  ASSUME TypeOK, TableInv,
         \/ \E u \in Ids, by \in Logins : CmdAddModUser(u, by)
         \/ \E by \in Logins : CmdAddEditUserT(by)
  PROVE  \E u \in Ids, f \in Slots, new \in Records :
           /\ EditedBy(u, f, new) /\ Load(new)
           /\ excused' = excused \union Overtaken(u) \union Cut(u) /\ pc # "restore"
           /\ UNCHANGED <<templates, work, session, crossed, faults, resets>>
<1>1. PICK u \in Ids, by \in Logins :
        Edit(u, by) /\ excused' = excused \union Overtaken(u) \union Cut(u)
  BY ConstantsType DEF CmdAddModUser, CmdAddEditUserT
<1>2. /\ pc # "restore" /\ UNCHANGED <<templates, work, session, crossed, faults, resets>>
  BY <1>1 DEF Edit, Waits, Menus, Cleanup
<1> QED
  BY <1>1, <1>2, EditDoes

(* The steps that leave table, templates and user_t, or the table, alone.  *)
Quiet ==
  \/ (\E t \in templates : FingerLogin(t)) \/ Logout
  \/ ChooseNew \/ EnrolEnter \/ LeaveMenu
  \/ EnrolFails("enrol1", "undo1") \/ EnrolFails("enrol2", "undo2")
  \/ ChooseEnrolled \/ DeleteEnter \/ AlignErase
  \/ StartCleanup \/ Scan \/ ScanEnd
Stores ==
  \/ EnrolUnheard("enrol1", 1, "undo1") \/ EnrolUnheard("enrol2", 2, "undo2")
  \/ EnrolDone("enrol1", 1, "enrol2") \/ EnrolDone("enrol2", 2, "save")
Deletes ==
  \/ Undo("undo1", "idle") \/ Undo("undo2", "enrol")
  \/ DeleteFinger("delete1", 1, "delete2") \/ DeleteFinger("delete2", 2, "flags")
  \/ ScanFinger("scan1", 1, "scan2") \/ ScanFinger("scan2", 2, "scan_write")
  \/ DeleteDatabase
Commands ==
  \/ \E u \in Ids, by \in Logins : CmdAddModUser(u, by)
  \/ \E by \in Logins : CmdAddEditUserT(by)
LEMMA StepKinds ==
  ASSUME [Next]_vars
  PROVE  \/ Commands \/ \E u \in Ids : CmdDelUser(u)
         \/ Quiet \/ Stores \/ Deletes \/ save_user_details \/ chage_bioflag \/ AlignRestore
         \/ ScanWrite \/ EraseUsers \/ Reset \/ UNCHANGED vars
BY DEF Next, Enrolment, Deletion, bio_verification, Commands, Quiet, Stores, Deletes

LEMMA QuietKeeps ==
  ASSUME Quiet PROVE UNCHANGED <<rec, templates, excused, crossed>>
BY DEF Quiet, FingerLogin, Logout, ChooseNew, EnrolEnter, LeaveMenu, EnrolFails, ChooseEnrolled,
       DeleteEnter, AlignErase, StartCleanup, Scan, ScanEnd, history, quiet, memory
LEMMA StoresKeep == ASSUME Stores PROVE UNCHANGED <<rec, user_t, crossed>>
BY DEF Stores, EnrolUnheard, EnrolDone, quiet, memory
LEMMA DeletesKeep == ASSUME Deletes PROVE UNCHANGED <<rec, user_t, crossed>>
BY DEF Deletes, Undo, DeleteFinger, ScanFinger, DeleteDatabase, quiet, memory

LEMMA TableStep ==
  ASSUME TypeOK, TypeOK', TableInv, MenuInv, ChosenInv, ScanInv, [Next]_vars
  PROVE  TableInv'
<1>1. CASE Commands
  BY <1>1, CommandDoes, EditKeeps DEF Commands
<1>2. ASSUME NEW u \in Ids, CmdDelUser(u) PROVE TableInv'
  <2>1. \A k \in Slots : /\ rec'[k].id = rec[k].id \/ rec'[k].id = 0
                         /\ rec'[k] = Erased <=> rec[k] = Erased
    BY <1>2, DelDoes, RecordFacts
  <2> QED
    BY <2>1, KeepsTable
<1>3. CASE UNCHANGED rec
  BY <1>3 DEF TableInv, Packed, Once, Used
<1>4. CASE save_user_details
  <2>1. ASSUME NEW s \in Slots, rec[s] \in Records, rec'[s] = [rec[s] EXCEPT !.finger = "1"]
        PROVE  rec'[s].id = rec[s].id /\ rec'[s] # Erased /\ rec[s] # Erased
    <3>1. [rec[s] EXCEPT !.finger = "1"] \in Records /\ rec[s] # Erased
      BY <2>1, RecordFacts DEF Flags
    <3>2. [rec[s] EXCEPT !.finger = "1"].id = rec[s].id
      BY <2>1 DEF Records
    <3> QED
      BY <2>1, <3>1, <3>2, RecordFacts
  <2>2. \A s \in Slots : rec'[s].id = rec[s].id /\ (rec'[s] = Erased <=> rec[s] = Erased)
    BY <1>4, <2>1, SaveDoes
  <2> QED
    BY <2>2, KeepsTable
<1>5. CASE chage_bioflag
  <2>0. code \in Ids
    BY <1>5 DEF chage_bioflag, ChosenInv
  <2>2. \A s \in Slots : rec'[s].id = rec[s].id /\ (rec'[s] = Erased <=> rec[s] = Erased)
    BY <1>5, <2>0, UnflagDoes, RecordFacts
  <2> QED
    BY <2>2, KeepsTable
<1>6. CASE ScanWrite
  <2>1. \A s \in Slots : /\ rec'[s].id = rec[s].id \/ rec'[s].id \in {0, -2}
                         /\ rec'[s] = Erased <=> rec[s] = Erased
    BY <1>6, ScanWriteDoes
  <2> QED
    BY <2>1, KeepsTable
<1>7. CASE rec' = [s \in Slots |-> Erased]
  BY <1>7, StoredFacts DEF TableInv, Packed, Once, Used
<1>8. UNCHANGED vars => UNCHANGED rec
  BY DEF vars
<1>9. EraseUsers \/ Reset => rec' = [s \in Slots |-> Erased] \/ UNCHANGED rec
  BY DEF EraseUsers, Reset
<1> QED
  BY <1>1, <1>2, <1>3, <1>4, <1>5, <1>6, <1>7, <1>8, <1>9, StepKinds, QuietKeeps, StoresKeep,
     DeletesKeep, RestoreDoes


-----------------------------------------------------------------------------
(* The menus go on with the user they have chosen, whatever the server     *)
(* does to that user on the way.                                           *)
LEMMA MenuStep ==
  ASSUME TypeOK, TypeOK', TableInv, MenuInv, [Next]_vars
  PROVE  MenuInv'
<1> DEFINE Chosen == /\ code \in Ids /\ person \in People
                     /\ code \notin excused \intersect crossed => \E s \in Slots : rec[s].id = code
                     /\ \A s \in Slots : rec[s].id = code =>
                          NoFlag(rec[s]) /\ (code \notin crossed => rec[s].who = person)
           Stored1 == /\ pc \in {"enrol2", "save"} => Has(code, 1)
                      /\ pc = "save" => Has(code, 2)
                      /\ \A t \in templates :
                           t.id = code /\ (pc = "save" \/ (pc = "enrol2" /\ t.finger = 1))
                             => t.who = person
<1>0. /\ MenuInv <=> (pc \in Menus => Chosen /\ Stored1)
      /\ MenuInv' <=> (pc' \in Menus => Chosen' /\ Stored1')
  BY DEF MenuInv
<1>1. ASSUME pc \in Menus, UNCHANGED <<rec, crossed, code, person>>, excused \subseteq excused'
      PROVE  Chosen'
  BY <1>0, <1>1 DEF NoFlag, Cut
<1>2. ASSUME pc' \notin {"enrol2", "save"} PROVE Stored1'
  BY <1>2
<1>3. ASSUME pc \in Menus, UNCHANGED <<pc, templates, code, person>> PROVE Stored1'
  BY <1>0, <1>3 DEF Has
<1>4. CASE Commands
  <2>1. PICK u \in Ids, f \in Slots, new \in Records :
          /\ EditedBy(u, f, new)
          /\ excused' = excused \union Overtaken(u) \union Cut(u)
          /\ UNCHANGED <<templates, work, crossed>>
    BY <1>4, CommandDoes DEF Commands
  <2>2. CASE pc \in Menus
    <3>0. Chosen /\ UNCHANGED <<pc, code, person, crossed>> /\ excused \subseteq excused'
      BY <1>0, <2>1, <2>2 DEF work
    <3>1. ASSUME code = u PROVE Chosen'
      <4>1. f \in Slots /\ rec'[f].id = code
        BY <2>1, <3>0, <3>1 DEF EditedBy
      <4>3. NoFlag(new)'
        <5>1. code' = code
          BY <3>0
        <5>2. CASE Cut(code) = {}
          <6>1. ~ Flagged(code)
            BY <3>0, <5>2 DEF Flagged, NoFlag
          <6>2. new.finger = "FF"
            BY <2>1, <3>1, <5>2, <6>1 DEF EditedBy
          <6> QED
            BY <6>2 DEF NoFlag
        <5>3. CASE Cut(code) # {}
          <6>1. code \in Cut(code)
            BY <3>0, <5>3, NotCut
          <6>2. code \in excused' /\ new.finger \in {"1", "FF"}
            BY <2>1, <3>1, <6>1 DEF EditedBy
          <6> QED
            BY <5>1, <5>3, <6>2 DEF NoFlag, Cut
        <5> QED
          BY <5>2, <5>3
      <4>4. code \notin crossed => new.who = person
        BY <2>1, <3>0, <3>1 DEF EditedBy
      <4>5. \A s \in Slots : rec'[s].id = code => rec'[s] = new
        BY <2>1, <3>1, EditKeeps
      <4>6. \A s \in Slots : rec'[s].id = code =>
              NoFlag(rec[s])' /\ (code \notin crossed => rec'[s].who = person)
        BY <4>3, <4>4, <4>5 DEF NoFlag
      <4>7. \E s \in Slots : rec'[s].id = code
        BY <4>1
      <4> QED
        BY <3>0, <4>6, <4>7
    <3>2. ASSUME code # u PROVE Chosen'
      <4>1. \A s \in Slots : rec'[s].id = code \/ rec[s].id = code => rec'[s] = rec[s]
        BY <2>1, <3>0, <3>2, EditKeeps
      <4>2. \A s \in Slots : rec'[s].id = code =>
              NoFlag(rec[s])' /\ (code \notin crossed => rec'[s].who = person)
        BY <3>0, <4>1 DEF NoFlag, Cut
      <4>3. (\E s \in Slots : rec[s].id = code) => \E s \in Slots : rec'[s].id = code
        BY <4>1
      <4> QED
        BY <3>0, <4>2, <4>3
    <3>3. Chosen'
      BY <3>1, <3>2
    <3>4. Stored1'
      BY <1>3, <2>1, <2>2 DEF work
    <3> QED
      BY <1>0, <3>3, <3>4
  <2> QED
    BY <1>0, <2>1, <2>2 DEF work
<1>5. ASSUME NEW u \in Ids, CmdDelUser(u) PROVE MenuInv'
  <2>1. /\ UNCHANGED <<templates, pc, code, person>>
        /\ crossed' = (IF pc \in Menus /\ code = u THEN crossed \union {u} ELSE crossed)
        /\ excused \subseteq excused' /\ (u \in crossed' => u \in excused')
    BY <1>5 DEF CmdDelUser, work
  <2>2. CASE pc \in Menus
    <3>1. PICK s \in Slots : rec'[s].id = 0 /\ rec[s].id = u
                             /\ \A k \in Slots \ {s} : rec'[k] = rec[k] /\ rec[k].id # u
      BY <1>5, DelDoes
    <3>2. Chosen
      BY <1>0, <2>2
    <3>3. CASE code = u
      <4>1. code' \in crossed' /\ code' \in excused'
        BY <2>1, <2>2, <3>3
      <4>2. \A k \in Slots : rec'[k].id # code'
        BY <2>1, <3>1, <3>3, StoredFacts
      <4> QED
        BY <1>0, <1>3, <2>1, <2>2, <3>2, <4>1, <4>2
    <3>4. CASE code # u
      <4>1. \A k \in Slots : rec'[k].id = code \/ rec[k].id = code => rec'[k] = rec[k]
        BY <3>1, <3>2, <3>4, StoredFacts
      <4>2. crossed' = crossed
        BY <2>1, <3>4
      <4>3. Chosen'
        BY <2>1, <3>2, <4>1, <4>2 DEF NoFlag, Cut
      <4> QED
        BY <1>0, <1>3, <2>1, <2>2, <4>3
    <3> QED
      BY <3>3, <3>4
  <2> QED
    BY <1>0, <2>1, <2>2
<1>6. CASE ChooseNew
  <2>1. PICK s \in Live : /\ rec[s].finger = "FF"
                          /\ code' = rec[s].id /\ person' = rec[s].who
    BY <1>6 DEF ChooseNew
  <2>2. s \in Slots /\ rec[s].id \in Ids
    BY <2>1, UsedIs, TableType
  <2>3. rec[s].who \in People
    BY <2>2, TableType, StoredFacts, RecordFacts
  <2>4. \A k \in Slots : rec[k].id = rec[s].id => k = s
    BY <2>2 DEF TableInv, Once
  <2>5. UNCHANGED rec /\ pc' = "enrol"
    BY <1>6 DEF ChooseNew
  <2>6. Chosen'
    BY <2>1, <2>2, <2>3, <2>4, <2>5 DEF NoFlag
  <2> QED
    BY <1>0, <1>2, <2>5, <2>6
<1>7. CASE EnrolEnter \/ EnrolFails("enrol1", "undo1") \/ EnrolFails("enrol2", "undo2")
  <2>1. /\ pc \in Menus /\ pc' \notin {"idle", "enrol2", "save"}
        /\ UNCHANGED <<rec, crossed, code, person, excused>>
    BY <1>7 DEF EnrolEnter, EnrolFails, Goto, Menus, quiet, memory
  <2> QED
    BY <1>0, <1>1, <1>2, <2>1
<1>8. CASE EnrolUnheard("enrol1", 1, "undo1") \/ EnrolUnheard("enrol2", 2, "undo2")
  <2>1. /\ pc \in Menus /\ pc' \notin {"idle", "enrol2", "save"}
        /\ UNCHANGED <<rec, crossed, code, person>> /\ excused \subseteq excused'
    BY <1>8, FaultType DEF EnrolUnheard, Goto, Menus, memory
  <2> QED
    BY <1>0, <1>1, <1>2, <2>1
<1>9. ASSUME NEW f \in {1, 2}, NEW from \in {"enrol1", "enrol2"}, NEW to \in {"enrol2", "save"},
             EnrolDone(from, f, to)
      PROVE  /\ Chosen' /\ pc = from /\ pc' = to /\ UNCHANGED <<code, person>>
             /\ Has(code, f)' /\ \A t \in templates' : t.id = code /\ t.finger = f => t.who = person
             /\ \A t \in templates' : t.id = code /\ t.finger # f => t \in templates
             /\ \A t \in templates : t.id = code /\ t.finger # f => t \in templates'
  <2>1. /\ pc = from /\ pc' = to /\ UNCHANGED <<rec, crossed, code, person, excused>> /\ Store(f)
    BY <1>9 DEF EnrolDone, Goto, quiet, memory
  <2>2. Chosen'
    BY <1>1, <2>1 DEF Menus
  <2>3. templates' = {t \in templates : ~ (t.id = code /\ t.finger = f)}
                       \union {[id |-> code, finger |-> f, who |-> person]}
    BY <2>1 DEF Store
  <2>4. Has(code, f)'
    <3> DEFINE new == [id |-> code, finger |-> f, who |-> person]
    <3>1. new \in templates' /\ new.id = code /\ new.finger = f
      BY <2>3
    <3> HIDE DEF new
    <3>2. code' = code
      BY <2>1
    <3> QED
      BY <3>1, <3>2 DEF Has
  <2>5. \A t \in templates' : t.id = code /\ t.finger = f => t.who = person
    BY <2>3
  <2>6. /\ \A t \in templates' : t.id = code /\ t.finger # f => t \in templates
        /\ \A t \in templates : t.id = code /\ t.finger # f => t \in templates'
    BY <2>3
  <2> HIDE DEF Chosen
  <2> QED
    BY <2>1, <2>2, <2>4, <2>5, <2>6
<1>10. CASE EnrolDone("enrol1", 1, "enrol2")
  <2>1. Chosen' /\ pc' = "enrol2" /\ UNCHANGED <<code, person>> /\ Has(code, 1)'
        /\ \A t \in templates' : t.id = code /\ t.finger = 1 => t.who = person
    BY <1>9, <1>10
  <2> QED
    BY <1>0, <2>1
<1>11. CASE EnrolDone("enrol2", 2, "save")
  <2>1. /\ Chosen' /\ pc = "enrol2" /\ pc' = "save" /\ UNCHANGED <<code, person>> /\ Has(code, 2)'
        /\ \A t \in templates' : t.id = code /\ t.finger = 2 => t.who = person
        /\ \A t \in templates' : t.id = code /\ t.finger # 2 => t \in templates
        /\ \A t \in templates : t.id = code /\ t.finger # 2 => t \in templates'
    BY <1>9, <1>11
  <2>2. Has(code, 1) /\ \A t \in templates : t.id = code /\ t.finger = 1 => t.who = person
    BY <1>0, <2>1 DEF Menus
  <2>3. Has(code, 1)'
    BY <2>1, <2>2 DEF Has
  <2>4. \A t \in templates' : t.finger \in {1, 2}
    BY DEF TypeOK, Template
  <2>5. \A t \in templates' : t.id = code => t.who = person
    BY <2>1, <2>2, <2>4
  <2> QED
    BY <1>0, <2>1, <2>3, <2>5
<1>12. CASE Undo("undo2", "enrol")
  <2>1. /\ pc = "undo2" /\ pc' = "enrol" /\ UNCHANGED <<rec, crossed, code, person>>
        /\ \E ok \in BOOLEAN : delete_userrecord(code, 1, ok)
    BY <1>12 DEF Undo, Goto, memory
  <2>2. excused \subseteq excused'
    BY <2>1, DeleteFacts
  <2> QED
    BY <1>0, <1>1, <1>2, <2>1, <2>2 DEF Menus
<1>13. UNCHANGED vars => MenuInv'
  BY <1>0, <1>1, <1>3 DEF vars, work, history
<1>14. ASSUME \/ \E t \in templates : FingerLogin(t)
              \/ Logout \/ LeaveMenu \/ Undo("undo1", "idle") \/ save_user_details
              \/ Deletion \/ bio_verification \/ EraseUsers \/ DeleteDatabase \/ Reset
       PROVE  pc' \notin Menus
  <2>1. ASSUME NEW f \in {1, 2}, NEW from, NEW to \in {"delete2", "flags"}, DeleteFinger(from, f, to)
        PROVE  pc' \notin Menus
    BY <2>1 DEF DeleteFinger, Goto, Menus
  <2>2. ASSUME NEW f \in {1, 2}, NEW from, NEW to \in {"scan2", "scan_write"}, ScanFinger(from, f, to)
        PROVE  pc' \notin Menus
    BY <2>2 DEF ScanFinger, Menus
  <2>3. ASSUME Scan PROVE pc' \notin Menus
    BY <2>3 DEF Scan, Menus
  <2> QED
    BY <1>14, <2>1, <2>2, <2>3 DEF FingerLogin, Logout, LeaveMenu, Undo, save_user_details, Deletion,
       bio_verification, ChooseEnrolled, DeleteEnter, chage_bioflag, AlignErase, AlignRestore,
       StartCleanup, ScanWrite, ScanEnd, EraseUsers, DeleteDatabase, Reset, Goto, Menus
<1> QED
  BY <1>0, <1>4, <1>5, <1>6, <1>7, <1>8, <1>10, <1>11, <1>12, <1>13, <1>14
  DEF Next, Enrolment, Commands

LEMMA ChosenStep ==
  ASSUME TypeOK, TableInv, ChosenInv, [Next]_vars
  PROVE  ChosenInv'
<1> DEFINE P == {"delete", "delete1", "delete2", "flags"}
<1>1. CASE ChooseEnrolled
  <2>1. PICK s \in Live : code' = rec[s].id
    BY <1>1 DEF ChooseEnrolled
  <2> QED
    BY <2>1, UsedIs, TableType DEF ChosenInv
<1>2. CASE DeleteEnter \/ DeleteFinger("delete1", 1, "delete2") \/ DeleteFinger("delete2", 2, "flags")
  BY <1>2 DEF DeleteEnter, DeleteFinger, Goto, ChosenInv
<1>3. CASE UNCHANGED work
  BY <1>3 DEF ChosenInv, work
<1>4. ASSUME Commands \/ (\E u \in Ids : CmdDelUser(u)) \/ UNCHANGED vars
      PROVE  UNCHANGED work
  BY <1>4 DEF Commands, CmdAddModUser, CmdAddEditUserT, CmdDelUser, Edit, vars
<1>5. ASSUME \/ \E t \in templates : FingerLogin(t)
             \/ Logout \/ LeaveMenu \/ Enrolment \/ bio_verification
             \/ chage_bioflag \/ AlignErase \/ AlignRestore
             \/ EraseUsers \/ DeleteDatabase \/ Reset
      PROVE  pc' \notin P
  <2>1. ASSUME NEW from, NEW f, NEW to \in Cleanup, ScanFinger(from, f, to) PROVE pc' \notin P
    BY <2>1 DEF ScanFinger, Cleanup
  <2>2. ASSUME Scan PROVE pc' \notin P
    BY <2>2 DEF Scan
  <2>3. ASSUME NEW from, NEW f, NEW to \in Menus \union {"idle"},
               EnrolFails(from, to) \/ EnrolUnheard(from, f, to) \/ EnrolDone(from, f, to)
                 \/ Undo(from, to)
        PROVE  pc' \notin P
    BY <2>3 DEF EnrolFails, EnrolUnheard, EnrolDone, Undo, Goto, Menus
  <2>4. bio_verification => pc' \notin P
    BY <2>1, <2>2 DEF bio_verification, StartCleanup, ScanWrite, ScanEnd, Cleanup
  <2>5. Enrolment => pc' \notin P
    BY <2>3 DEF Enrolment, ChooseNew, EnrolEnter, save_user_details, Goto, Menus
  <2> QED
    BY <1>5, <2>4, <2>5 DEF FingerLogin, Logout, LeaveMenu, chage_bioflag, AlignErase, AlignRestore,
       EraseUsers, DeleteDatabase, Reset, Goto
<1>6. pc' \notin P => ChosenInv'
  BY DEF ChosenInv
<1> QED
  BY <1>1, <1>2, <1>3, <1>4, <1>5, <1>6 DEF Next, Deletion, Commands


(* A command in a wait of the cleanup excuses what the cleanup goes on to  *)
(* touch.                                                                  *)
LEMMA ScanStep ==
  ASSUME TypeOK, TypeOK', TableInv, ScanInv, [Next]_vars
  PROVE  ScanInv'
<1>0. ASSUME pc \in Scanning
      PROVE  /\ uci \in Slots /\ rec[uci] \in Records /\ user_t \in Records
             /\ \/ user_t = rec[uci] /\ code = user_t.id
                \/ {code, user_t.id, rec[uci].id} \intersect Ids \subseteq excused
  BY <1>0 DEF ScanInv
<1>1. CASE Commands
  <2>1. PICK u \in Ids, f \in Slots, new \in Records :
          /\ EditedBy(u, f, new) /\ Load(new)
          /\ excused \union Overtaken(u) \subseteq excused'
          /\ UNCHANGED work
    BY <1>1, CommandDoes DEF Commands
  <2>2. CASE pc \in Scanning
    <3>1. /\ user_t' = new /\ new.id = u
          /\ Overtaken(u) = {code, u, rec[uci].id} \intersect Ids
      BY <2>1, <2>2 DEF Load, Overtaken, Cleanup, Scanning, EditedBy
    <3>2. rec'[uci] \in Records
      BY <1>0, <2>1, <2>2, EditKeeps
    <3>3. uci # f
      BY <1>0, <2>1, <2>2, RecordFacts DEF EditedBy
    <3>4. rec'[uci].id \in {rec[uci].id, 0}
      BY <1>0, <2>1, <2>2, <3>3 DEF EditedBy, Records
    <3>5. {code, new.id, rec'[uci].id} \intersect Ids \subseteq excused'
      BY <2>1, <3>1, <3>4, StoredFacts
    <3>6. UNCHANGED <<pc, uci, code>>
      BY <2>1 DEF work
    <3> QED
      BY <1>0, <2>2, <3>1, <3>2, <3>5, <3>6 DEF ScanInv
  <2>3. CASE pc \notin Scanning
    BY <2>1, <2>3 DEF ScanInv, work
  <2> QED
    BY <2>2, <2>3
<1>2. ASSUME NEW u \in Ids, CmdDelUser(u) PROVE ScanInv'
  <2>1. PICK s \in Slots :
          /\ rec[s].id = u /\ rec'[s] \in Records /\ rec'[s].id = 0 /\ Load(rec'[s])
          /\ \A k \in Slots \ {s} : rec'[k] = rec[k]
    BY <1>2, DelDoes
  <2>2. UNCHANGED <<pc, uci, code>> /\ excused \union Overtaken(u) \subseteq excused'
    BY <1>2 DEF CmdDelUser, work
  <2>3. CASE pc \in Scanning
    <3>1. /\ user_t' = rec'[s]
          /\ Overtaken(u) = {code, u, rec[uci].id} \intersect Ids
      BY <2>1, <2>3 DEF Load, Overtaken, Cleanup, Scanning
    <3>2. rec'[uci] \in Records /\ rec'[uci].id \in {rec[uci].id, 0}
      BY <1>0, <2>1, <2>3
    <3>3. {code, 0, rec'[uci].id} \intersect Ids \subseteq excused'
      BY <2>2, <3>1, <3>2, StoredFacts
    <3> QED
      BY <1>0, <2>1, <2>2, <2>3, <3>1, <3>2, <3>3 DEF ScanInv
  <2>4. CASE pc \notin Scanning
    BY <2>2, <2>4 DEF ScanInv
  <2> QED
    BY <2>3, <2>4
<1>3. CASE Scan
  <2>1. CASE pc' = "scan"
    BY <2>1 DEF ScanInv, Scanning
  <2>2. CASE pc' # "scan"
    <3>1. /\ uci < SLOTS /\ user_t' = rec[uci] /\ user_t'.finger = "1"
          /\ code' = user_t'.id /\ UNCHANGED <<uci, rec>>
      BY <1>3, <2>2 DEF Scan
    <3>2. uci \in Slots
      BY <3>1, ConstantsType DEF TypeOK, Slots
    <3>3. rec[uci] \in Records
      BY <3>1, <3>2, TableType, StoredFacts
    <3> QED
      BY <3>1, <3>2, <3>3 DEF ScanInv
  <2> QED
    BY <2>1, <2>2
<1>4. CASE ScanFinger("scan1", 1, "scan2") \/ ScanFinger("scan2", 2, "scan_write")
  <2>1. PICK f \in {1, 2}, ok \in BOOLEAN, to \in {"scan2", "scan_write"} :
          /\ delete_userrecord(code, f, ok)
          /\ pc' = (IF ok THEN to ELSE "scan") /\ uci' = (IF ok THEN uci ELSE uci + 1)
          /\ code' = (IF ok THEN user_t.id ELSE code)
          /\ UNCHANGED <<rec, user_t>> /\ pc \in Scanning
    BY <1>4 DEF ScanFinger, memory, Scanning
  <2>2. excused \subseteq excused'
    BY <2>1, DeleteFacts
  <2>3. CASE ok
    <3>1. UNCHANGED <<uci, rec, user_t>> /\ code' = user_t.id
      BY <2>1, <2>3
    <3>2. {user_t.id, user_t.id, rec[uci].id} \intersect Ids \subseteq excused'
            \/ user_t = rec[uci]
      BY <1>0, <2>1, <2>2
    <3> QED
      BY <1>0, <2>1, <3>1, <3>2 DEF ScanInv
  <2>4. CASE ~ ok
    BY <2>1, <2>4 DEF ScanInv, Scanning
  <2> QED
    BY <2>3, <2>4
<1>5. CASE UNCHANGED vars
  BY <1>5 DEF ScanInv, vars, work, history
<1>6. ASSUME \/ \E t \in templates : FingerLogin(t)
             \/ Logout \/ LeaveMenu \/ Enrolment \/ Deletion
             \/ StartCleanup \/ ScanWrite \/ ScanEnd
             \/ EraseUsers \/ DeleteDatabase \/ Reset
      PROVE  pc' \notin Scanning
  BY <1>6, NotScanning
<1>7. pc' \notin Scanning => ScanInv'
  BY DEF ScanInv
<1> QED
  BY <1>1, <1>2, <1>3, <1>4, <1>5, <1>6, <1>7 DEF Next, bio_verification, Commands


-----------------------------------------------------------------------------
(* What an enrolment and a deletion of a finger do to the module.          *)
LEMMA StoreDoes ==
  ASSUME NEW f, Store(f)
  PROVE  \A id, g : Has(id, g)' <=> Has(id, g) \/ (id = code /\ g = f)
<1> DEFINE new == [id |-> code, finger |-> f, who |-> person]
<1>1. templates' = {t \in templates : ~ (t.id = code /\ t.finger = f)} \union {new}
  BY DEF Store
<1>2. new.id = code /\ new.finger = f
  OBVIOUS
<1> HIDE DEF new
<1> QED
  BY <1>1, <1>2 DEF Has

LEMMA DeleteDoes ==
  ASSUME TypeOK, NEW id, NEW f, NEW ok \in BOOLEAN, delete_userrecord(id, f, ok)
  PROVE  /\ \A i, g : Has(i, g)' => Has(i, g)
         /\ \A i, g : i # id => (Has(i, g)' <=> Has(i, g))
         /\ excused \subseteq excused'
         /\ (id \in Ids => id \in excused') \/ (ok /\ excused' = excused /\ ~ Has(id, f)')
<1>1. /\ templates' \subseteq templates
      /\ \A t \in templates \ templates' : t.id = id /\ t.finger = f
      /\ excused \subseteq excused'
      /\ \/ id \in Ids => id \in excused'
         \/ ok /\ excused' = excused /\ \A t \in templates' : ~ (t.id = id /\ t.finger = f)
  BY DeleteFacts
<1>2. \A i, g : Has(i, g)' => Has(i, g)
  BY <1>1 DEF Has
<1>3. ASSUME NEW i, NEW g, i # id, Has(i, g) PROVE Has(i, g)'
  BY <1>1, <1>3 DEF Has
<1>4. (\A t \in templates' : ~ (t.id = id /\ t.finger = f)) => ~ Has(id, f)'
  BY DEF Has
<1> QED
  BY <1>1, <1>2, <1>3, <1>4

LEMMA HasNone ==
  ASSUME TypeOK, NEW id
  PROVE  TemplatesOf(id) = {} <=> \A f \in {1, 2} : ~ Has(id, f)
BY DEF TypeOK, Template, TemplatesOf, Has

(* The menus enrol a user without the flag.                                *)
LEMMA NotFlagged ==
  ASSUME MenuInv, pc \in Menus
  PROVE  code \in Ids /\ (Flagged(code) => code \in excused /\ Cut(code) # {})
BY DEF MenuInv, Flagged, NoFlag

(* Ids no piece of work is about.                                          *)
LEMMA MatchNow ==
  ASSUME MatchInv, NEW id \in Ids \ excused, pc # "wipe", pc \notin Partial \/ id # code
  PROVE  Match(id)
BY DEF MatchInv, MatchOf

LEMMA MatchThen ==
  ASSUME NEW id, Match(id)', pc' # "wipe", pc' \notin Partial \/ id # code'
  PROVE  MatchOf(id)'
BY DEF MatchOf

LEMMA SameMatch ==
  ASSUME NEW id, Match(id), Flagged(id)' <=> Flagged(id), \A f \in {1, 2} : Has(id, f)' <=> Has(id, f)
  PROVE  Match(id)'
BY DEF Match

LEMMA MatchCommands ==
  ASSUME TypeOK, TypeOK', TableInv, MatchInv, Commands
  PROVE  MatchInv'
<1>1. PICK u \in Ids, f \in Slots, new \in Records :
        /\ EditedBy(u, f, new)
        /\ excused' = excused \union Overtaken(u) \union Cut(u)
        /\ UNCHANGED <<templates, work>>
  BY CommandDoes DEF Commands
<1>2. \A id \in Ids \ excused' : Flagged(id)' <=> Flagged(id)
  BY <1>1, EditKeeps
<1>3. ASSUME NEW id \in Ids \ excused' PROVE MatchOf(id)'
  <2>1. MatchOf(id) /\ UNCHANGED <<templates, pc, code>>
    BY <1>1, <1>3 DEF MatchInv, work
  <2>2. \A f2 : Has(id, f2)' <=> Has(id, f2)
    BY <2>1 DEF Has
  <2>3. UNCHANGED Left
    BY <2>1 DEF Left
  <2> QED
    BY <1>2, <1>3, <2>1, <2>2, <2>3 DEF MatchOf, Match
<1> QED
  BY <1>3 DEF MatchInv

LEMMA MatchDel ==
  ASSUME TypeOK, TypeOK', TableInv, MatchInv, NEW u \in Ids, CmdDelUser(u)
  PROVE  MatchInv'
<1>1. PICK s \in Slots : rec'[s].id = 0 /\ rec[s].id = u
                         /\ \A k \in Slots \ {s} : rec'[k] = rec[k] /\ rec[k].id # u
  BY DelDoes
<1>2. UNCHANGED <<templates, pc, code>> /\ excused \subseteq excused'
      /\ (TemplatesOf(u) # {} => u \in excused')
  BY DEF CmdDelUser, work
<1>3. \A id, f : Has(id, f)' <=> Has(id, f)
  BY <1>2 DEF Has
<1>4. \A id \in Ids \ {u} : Flagged(id)' <=> Flagged(id)
  BY <1>1, StoredFacts DEF Flagged
<1>5. ~ Flagged(u)'
  BY <1>1, StoredFacts DEF Flagged
<1>6. ASSUME NEW id \in Ids \ excused' PROVE MatchOf(id)'
  <2>1. CASE id = u
    <3>1. \A f \in {1, 2} : ~ Has(u, f)'
      BY <1>2, <1>3, <1>6, <2>1, HasNone
    <3> QED
      BY <2>1, <1>5, <3>1 DEF MatchOf, Match
  <2>2. CASE id # u
    <3>1. MatchOf(id) /\ UNCHANGED Left
      BY <1>2, <1>6 DEF MatchInv, Left
    <3> QED
      BY <1>2, <1>3, <1>4, <1>6, <2>2, <3>1 DEF MatchOf, Match
  <2> QED
    BY <2>1, <2>2
<1> QED
  BY <1>6 DEF MatchInv

LEMMA MatchQuiet ==
  ASSUME MatchInv, Quiet
  PROVE  MatchInv'
<1>1. UNCHANGED <<rec, templates, excused>>
  BY QuietKeeps
<1>2. \A id : (Flagged(id)' <=> Flagged(id)) /\ \A f : Has(id, f)' <=> Has(id, f)
  BY <1>1 DEF Flagged, Has
<1>3. /\ pc # "wipe" /\ pc' # "wipe"
      /\ \/ pc \notin Partial /\ pc' \notin Partial
         \/ pc = "enrol2" /\ pc' = "undo2" /\ code' = code
  <2>1. Scan => pc = "scan" /\ pc' \in {"scan", "scan1"}
    BY DEF Scan
  <2> QED
    BY <2>1 DEF Quiet, FingerLogin, Logout, ChooseNew, EnrolEnter, LeaveMenu, EnrolFails,
       ChooseEnrolled, DeleteEnter, AlignErase, StartCleanup, ScanEnd, Goto, Partial
<1>4. CASE pc \notin Partial /\ pc' \notin Partial
  <2>1. ASSUME NEW id \in Ids \ excused PROVE MatchOf(id)'
    BY <1>2, <1>3, <1>4, MatchNow, MatchThen, SameMatch
  <2> QED
    BY <1>1, <2>1 DEF MatchInv
<1>5. CASE pc = "enrol2" /\ pc' = "undo2" /\ code' = code
  <2>1. Left = {1} /\ Left' = {1} /\ pc \in Partial /\ pc' \in Partial
    BY <1>5 DEF Left, Partial
  <2>2. ASSUME NEW id \in Ids \ excused PROVE MatchOf(id)'
    <3>1. MatchOf(id)
      BY DEF MatchInv
    <3> QED
      BY <1>2, <1>3, <1>5, <2>1, <3>1 DEF MatchOf, Match
  <2> QED
    BY <1>1, <2>2 DEF MatchInv
<1> QED
  BY <1>3, <1>4, <1>5

LEMMA MatchStores ==
  ASSUME TypeOK, MenuInv, MatchInv, Stores
  PROVE  MatchInv'
<1>1. PICK f \in {1, 2} :
        /\ pc = (IF f = 1 THEN "enrol1" ELSE "enrol2") /\ code' = code /\ Store(f)
        /\ \/ pc' \in {"undo1", "undo2"} /\ Fault(code)
           \/ pc' = (IF f = 1 THEN "enrol2" ELSE "save") /\ UNCHANGED excused
  BY DEF Stores, EnrolUnheard, EnrolDone, Goto
<1>2. code \in Ids /\ (code \notin excused => ~ Flagged(code))
  BY <1>1, NotFlagged DEF Menus
<1>3. \A id : Flagged(id)' <=> Flagged(id)
  BY StoresKeep DEF Flagged
<1>4. \A id, g : Has(id, g)' <=> Has(id, g) \/ (id = code /\ g = f)
  BY <1>1, StoreDoes
<1>5. /\ excused \subseteq excused'
      /\ pc' \in {"undo1", "undo2"} => code \in excused'
  BY <1>1, <1>2, FaultType
<1>6. ASSUME NEW id \in Ids \ excused', id # code PROVE MatchOf(id)'
  <2>1. Match(id)
    BY <1>1, <1>5, <1>6, MatchNow
  <2>2. \A g \in {1, 2} : Has(id, g)' <=> Has(id, g)
    BY <1>4, <1>6
  <2>3. Match(id)' /\ pc' # "wipe" /\ id # code'
    BY <1>1, <1>3, <1>6, <2>1, <2>2, SameMatch
  <2> QED
    BY <2>3, MatchThen
<1>7. ASSUME NEW id \in Ids \ excused', id = code PROVE MatchOf(id)'
  <2>1. code' = code /\ pc' = IF f = 1 THEN "enrol2" ELSE "save"
    BY <1>1, <1>5, <1>7
  <2>p. pc' # "wipe" /\ pc' \in Partial
    BY <2>1 DEF Partial
  <2>2. CASE f = 1
    <3>1. MatchOf(code) /\ pc = "enrol1"
      BY <1>1, <1>2, <1>5, <1>7, <2>2 DEF MatchInv
    <3>2. ~ Has(code, 2)
      BY <1>2, <1>5, <1>7, <3>1 DEF MatchOf, Match, Partial
    <3>3. ~ Has(id, 2)' /\ Left' = {1}
      BY <1>4, <1>7, <2>1, <2>2, <3>2 DEF Left
    <3> QED
      BY <1>7, <2>1, <2>p, <3>3 DEF MatchOf
  <2>3. CASE f = 2
    <3>1. Left' = {1, 2} /\ pc' = "save"
      BY <2>1, <2>3 DEF Left
    <3> QED
      BY <1>7, <2>1, <2>p, <3>1 DEF MatchOf
  <2> QED
    BY <2>2, <2>3
<1> QED
  BY <1>6, <1>7 DEF MatchInv


LEMMA MatchUndo ==
  ASSUME TypeOK, MenuInv, MatchInv, Undo("undo1", "idle") \/ Undo("undo2", "enrol")
  PROVE  MatchInv'
<1>1. PICK ok \in BOOLEAN :
        /\ delete_userrecord(code, 1, ok)
        /\ pc \in {"undo1", "undo2"} /\ pc' \in {"idle", "enrol"} /\ UNCHANGED rec
  BY DEF Undo, Goto
<1>2. code \in Ids /\ (code \notin excused => ~ Flagged(code))
  BY <1>1, NotFlagged DEF Menus
<1>3. \A id : Flagged(id)' <=> Flagged(id)
  BY <1>1 DEF Flagged
<1>4. pc' # "wipe" /\ pc' \notin Partial /\ pc # "wipe"
  BY <1>1 DEF Partial
<1>5. /\ \A i, g : Has(i, g)' => Has(i, g)
      /\ \A i, g : i # code => (Has(i, g)' <=> Has(i, g))
      /\ excused \subseteq excused'
      /\ \A i : i = code => (i \in Ids => i \in excused') \/ ~ Has(i, 1)'
  BY <1>1, DeleteDoes
<1>6. ASSUME NEW id \in Ids \ excused' PROVE MatchOf(id)'
  <2>1. CASE id # code
    <3>1. Match(id)
      BY <1>4, <1>5, <1>6, <2>1, MatchNow
    <3>2. Match(id)'
      BY <1>3, <1>5, <2>1, <3>1, SameMatch
    <3> QED
      BY <1>4, <3>2, MatchThen
  <2>2. CASE id = code
    <3>1. MatchOf(id)
      BY <1>5, <1>6 DEF MatchInv
    <3>2. ~ Has(id, 2)
      BY <1>1, <1>2, <1>5, <1>6, <2>2, <3>1 DEF MatchOf, Match, Left, Partial
    <3>3. ~ Has(id, 1)' /\ ~ Has(id, 2)'
      BY <1>5, <1>6, <2>2, <3>2
    <3>4. ~ Flagged(id)'
      BY <1>2, <1>3, <1>5, <1>6, <2>2
    <3>5. Match(id)'
      BY <3>3, <3>4 DEF Match
    <3> QED
      BY <1>4, <3>5, MatchThen
  <2> QED
    BY <2>1, <2>2
<1> QED
  BY <1>6 DEF MatchInv

(* Two fingers are deleted one after the other, in the menus and in the    *)
(* cleanup; there the second is of the user in user_t.                     *)
LEMMA MatchFingers ==
  ASSUME TypeOK, MatchInv, UNCHANGED rec,
         NEW f \in {1, 2}, NEW ok \in BOOLEAN, delete_userrecord(code, f, ok),
         pc \in (IF f = 1 THEN {"delete1", "scan1"} ELSE {"delete2", "scan2"}),
         pc' \in (IF ~ ok THEN {"delete", "scan"}
                  ELSE IF f = 1 THEN {"delete2", "scan2"} ELSE {"flags", "scan_write"}),
         code' = code \/ {code, code'} \intersect Ids \subseteq excused
  PROVE  MatchInv'
<1>1. pc # "wipe" /\ pc' # "wipe"
  OBVIOUS
<1>2. /\ \A i, g : Has(i, g)' => Has(i, g)
      /\ \A i, g : i # code => (Has(i, g)' <=> Has(i, g))
      /\ excused \subseteq excused'
      /\ \A i : i = code => (i \in Ids => i \in excused') \/ (ok /\ ~ Has(i, f)')
  BY DeleteDoes
<1>3. \A id : Flagged(id)' <=> Flagged(id)
  BY DEF Flagged
<1>4. ASSUME NEW id \in Ids \ excused', id # code PROVE MatchOf(id)'
  <2>1. Match(id)
    BY <1>1, <1>2, <1>4, MatchNow
  <2>2. Match(id)'
    BY <1>2, <1>3, <1>4, <2>1, SameMatch
  <2>3. id # code'
    BY <1>2, <1>4
  <2> QED
    BY <1>1, <2>2, <2>3, MatchThen
<1>5. ASSUME NEW id \in Ids \ excused', id = code PROVE MatchOf(id)'
  <2>1. ok /\ ~ Has(id, f)' /\ code' = code
    BY <1>2, <1>5
  <2>2. CASE f = 1
    <3>1. pc' \in Partial /\ Left' = {2}
      BY <2>1, <2>2 DEF Partial, Left
    <3> QED
      BY <1>1, <1>5, <2>1, <2>2, <3>1 DEF MatchOf
  <2>3. CASE f = 2
    <3>1. pc \in Partial /\ Left = {2} /\ pc' \in Partial /\ Left' = {}
      BY <2>1, <2>3 DEF Partial, Left
    <3>2. MatchOf(id)
      BY <1>2, <1>5 DEF MatchInv
    <3>3. ~ Has(id, 1)
      BY <1>1, <1>5, <3>1, <3>2 DEF MatchOf
    <3> QED
      BY <1>1, <1>2, <1>5, <2>1, <2>3, <3>1, <3>3 DEF MatchOf
  <2> QED
    BY <2>2, <2>3
<1> QED
  BY <1>4, <1>5 DEF MatchInv

LEMMA MatchDeletes ==
  ASSUME TypeOK, MenuInv, ScanInv, MatchInv, Deletes
  PROVE  MatchInv'
<1>r. UNCHANGED rec
  BY DeletesKeep
<1>1. CASE DeleteFinger("delete1", 1, "delete2") \/ DeleteFinger("delete2", 2, "flags")
  <2>1. PICK f \in {1, 2}, ok \in BOOLEAN :
          /\ delete_userrecord(code, f, ok)
          /\ pc = (IF f = 1 THEN "delete1" ELSE "delete2")
          /\ pc' = (IF ~ ok THEN "delete" ELSE IF f = 1 THEN "delete2" ELSE "flags")
          /\ code' = code
    BY <1>1 DEF DeleteFinger, Goto
  <2> QED
    BY <1>r, <2>1, MatchFingers
<1>2. CASE ScanFinger("scan1", 1, "scan2") \/ ScanFinger("scan2", 2, "scan_write")
  <2>1. PICK f \in {1, 2}, ok \in BOOLEAN :
          /\ delete_userrecord(code, f, ok)
          /\ pc = (IF f = 1 THEN "scan1" ELSE "scan2")
          /\ pc' = (IF ~ ok THEN "scan" ELSE IF f = 1 THEN "scan2" ELSE "scan_write")
          /\ code' = IF ok THEN user_t.id ELSE code
    BY <1>2 DEF ScanFinger
  <2>2. code' = code \/ {code, code'} \intersect Ids \subseteq excused
    BY <2>1 DEF ScanInv, Scanning
  <2> QED
    BY <1>r, <2>1, <2>2, MatchFingers
<1>3. CASE DeleteDatabase
  <2>1. /\ pc = "wipe" /\ pc' = "idle"
        /\ \/ templates' = {} /\ UNCHANGED excused
           \/ /\ excused' = excused \union {id \in Ids : TemplatesOf(id) # {}}
              /\ UNCHANGED templates
    BY <1>3 DEF DeleteDatabase, Goto
  <2>2. ASSUME NEW id \in Ids \ excused' PROVE MatchOf(id)'
    <3>1. ~ Flagged(id) /\ (Flagged(id)' <=> Flagged(id))
      BY <1>r, <2>1, <2>2 DEF MatchInv, MatchOf, Flagged
    <3>2. \A f \in {1, 2} : ~ Has(id, f)'
      <4>1. CASE templates' = {}
        BY <4>1 DEF Has
      <4>2. CASE templates' = templates /\ TemplatesOf(id) = {}
        <5>1. \A f \in {1, 2} : ~ Has(id, f)
          BY <4>2, HasNone
        <5> QED
          BY <4>2, <5>1 DEF Has
      <4> QED
        BY <2>1, <2>2, <4>1, <4>2
    <3>3. Match(id)'
      BY <3>1, <3>2 DEF Match
    <3> QED
      BY <2>1, <3>3, MatchThen DEF Partial
  <2> QED
    BY <2>2 DEF MatchInv
<1> QED
  BY <1>1, <1>2, <1>3, MatchUndo DEF Deletes

LEMMA MatchSave ==
  ASSUME TypeOK, TableInv, MenuInv, MatchInv, save_user_details
  PROVE  MatchInv'
<1>1. pc = "save" /\ pc' = "idle" /\ UNCHANGED templates
  BY DEF save_user_details, Goto
<1>p. pc # "wipe" /\ pc' # "wipe" /\ pc' \notin Partial
  BY <1>1 DEF Partial
<1>2. /\ code \in Ids /\ Has(code, 1) /\ Has(code, 2)
      /\ code \notin excused \intersect crossed => \E s \in Slots : rec[s].id = code
  BY <1>1 DEF MenuInv, Menus
<1>3. \A id, f : Has(id, f)' <=> Has(id, f)
  BY <1>1 DEF Has
<1>4. ASSUME NEW id \in Ids \ excused, id # code, Flagged(id)' <=> Flagged(id) PROVE MatchOf(id)'
  <2>1. Match(id)
    BY <1>p, <1>4, MatchNow
  <2>2. Match(id)'
    BY <1>3, <1>4, <2>1, SameMatch
  <2> QED
    BY <1>p, <2>2, MatchThen
<1>5. CASE rec' = rec /\ excused' = excused /\ \A k \in Slots : rec[k].id # code
  <2>1. \A id : Flagged(id)' <=> Flagged(id)
    BY <1>5 DEF Flagged
  <2>2. code \in excused'
    BY <1>2, <1>5
  <2> QED
    BY <1>4, <1>5, <2>1, <2>2 DEF MatchInv
<1>6. ASSUME excused' = excused \ {code}, NEW s \in Slots,
             rec[s].id = code, rec[s] \in Records,
             rec'[s] = [rec[s] EXCEPT !.finger = "1"],
             \A k \in Slots \ {s} : rec'[k] = rec[k] /\ rec[k].id # code
      PROVE  MatchInv'
  <2>1. rec'[s].id = code /\ rec'[s].finger = "1"
    BY <1>6 DEF Records
  <2>2. ASSUME NEW id \in Ids, id # code PROVE Flagged(id)' <=> Flagged(id)
    BY <1>6, <2>1, <2>2 DEF Flagged
  <2>3. ASSUME NEW id \in Ids, id = code PROVE MatchOf(id)'
    <3>1. Flagged(id)'
      BY <2>1, <2>3 DEF Flagged
    <3>2. Match(id)'
      BY <1>2, <1>3, <2>3, <3>1 DEF Match
    <3> QED
      BY <1>p, <3>2, MatchThen
  <2> QED
    BY <1>4, <1>6, <2>2, <2>3 DEF MatchInv
<1> QED
  BY <1>5, <1>6, SaveDoes

LEMMA MatchUnflag ==
  ASSUME TypeOK, TableInv, ChosenInv, MatchInv, chage_bioflag
  PROVE  MatchInv'
<1>1. /\ pc = "flags" /\ pc' \in {"idle", "align"} /\ UNCHANGED templates
      /\ excused' = IF Cut(code) # {}
                    THEN excused \union Cut(code)
                           \union ({rec[s].id : s \in Unflag(code)} \intersect Ids)
                    ELSE IF TemplatesOf(code) = {} THEN excused \ {code} ELSE excused
  BY DEF chage_bioflag, Goto
<1>p. pc # "wipe" /\ pc' # "wipe" /\ pc' \notin Partial /\ pc \in Partial
  BY <1>1 DEF Partial
<1>2. code \in Ids
  BY <1>1 DEF ChosenInv
<1>3. /\ \A s \in Slots : s \notin Unflag(code) => rec'[s] = rec[s]
      /\ \A s \in Unflag(code) : s \in Slots /\ rec'[s].id = rec[s].id /\ rec'[s].finger = "0"
      /\ Cut(code) = {} => \A s \in Slots : s \in Unflag(code) <=> rec[s].id = code
  BY <1>2, UnflagDoes
<1>4. ASSUME NEW id \in Ids \ excused', id # code, NEW s \in Unflag(code) PROVE rec[s].id # id
  <2>1. CASE Cut(code) = {}
    BY <1>3, <1>4, <2>1
  <2>2. CASE Cut(code) # {}
    BY <1>1, <1>4, <2>2
  <2> QED
    BY <2>1, <2>2
<1>5. \A id, f : Has(id, f)' <=> Has(id, f)
  BY <1>1 DEF Has
<1>6. ASSUME NEW id \in Ids \ excused', id # code PROVE MatchOf(id)'
  <2>1. Match(id)
    <3>1. id \notin excused
      BY <1>1, <1>6
    <3> QED
      BY <1>p, <1>6, <3>1, MatchNow
  <2>2. Flagged(id)' <=> Flagged(id)
    <3>1. \A s \in Slots : rec[s].id = id \/ rec'[s].id = id => rec'[s] = rec[s]
      BY <1>3, <1>4, <1>6
    <3> QED
      BY <3>1 DEF Flagged
  <2>3. Match(id)'
    BY <1>5, <2>1, <2>2, SameMatch
  <2> QED
    BY <1>p, <2>3, MatchThen
<1>7. ASSUME NEW id \in Ids \ excused', id = code PROVE MatchOf(id)'
  <2>0. Cut(code) = {}
    BY <1>1, <1>2, <1>7, NotCut
  <2>1. ~ Flagged(id)'
    BY <1>3, <1>7, <2>0 DEF Flagged
  <2>2. \A f \in {1, 2} : ~ Has(id, f)
    <3>1. CASE TemplatesOf(code) = {}
      BY <1>7, <3>1, HasNone
    <3>2. CASE TemplatesOf(code) # {}
      <4>1. MatchOf(id)
        BY <1>1, <1>7, <2>0, <3>2 DEF MatchInv
      <4>2. Left = {}
        BY <1>1 DEF Left
      <4> QED
        BY <1>p, <1>7, <4>1, <4>2 DEF MatchOf
    <3> QED
      BY <3>1, <3>2
  <2>3. Match(id)'
    BY <1>5, <2>1, <2>2 DEF Match
  <2> QED
    BY <1>p, <2>3, MatchThen
<1> QED
  BY <1>6, <1>7 DEF MatchInv


LEMMA MatchRestore ==
  ASSUME TypeOK, TypeOK', TableInv, MatchInv, AlignRestore
  PROVE  MatchInv'
<1>1. pc = "restore" /\ pc' = "idle" /\ UNCHANGED <<templates, excused>>
  BY DEF AlignRestore, Goto
<1>2. ASSUME NEW id \in Ids PROVE Flagged(id)' <=> Flagged(id)
  <2>1. ASSUME NEW s \in Slots, rec[s].id = id, rec[s].finger = "1" PROVE Flagged(id)'
    <3>1. PICK n \in Slots : rec'[n] = Renewed(rec[s])
      BY <2>1, RestoreDoes
    <3>2. rec'[n].id = id /\ rec'[n].finger = "1"
      BY <2>1, <3>1, RenewedFacts, TableType
    <3> QED
      BY <3>2 DEF Flagged
  <2>2. ASSUME NEW n \in Slots, rec'[n].id = id, rec'[n].finger = "1" PROVE Flagged(id)
    <3>1. PICK s \in Slots : rec'[n] = Renewed(rec[s])
      BY <2>2, RestoreDoes
    <3>2. rec[s].id = id /\ rec[s].finger = "1"
      BY <2>2, <3>1, RenewedFacts, TableType
    <3> QED
      BY <3>2 DEF Flagged
  <2> QED
    BY <2>1, <2>2 DEF Flagged
<1>3. ASSUME NEW id \in Ids \ excused' PROVE MatchOf(id)'
  <2>1. Match(id)
    BY <1>1, <1>3, MatchNow DEF Partial
  <2>2. \A f : Has(id, f)' <=> Has(id, f)
    BY <1>1 DEF Has
  <2>3. Match(id)'
    BY <1>2, <2>1, <2>2, SameMatch
  <2> QED
    BY <1>1, <2>3, MatchThen DEF Partial
<1> QED
  BY <1>3 DEF MatchInv

LEMMA MatchScanWrite ==
  ASSUME TypeOK, TableInv, ScanInv, MatchInv, ScanWrite
  PROVE  MatchInv'
<1>1. /\ pc = "scan_write" /\ pc' = "scan" /\ UNCHANGED <<templates, code, excused>>
      /\ pc \in Partial /\ pc # "wipe" /\ pc' # "wipe" /\ pc' \notin Partial /\ Left = {}
  BY DEF ScanWrite, history, Partial, Left
<1>2. /\ uci \in Slots
      /\ \/ code = rec[uci].id
         \/ {code, rec[uci].id} \intersect Ids \subseteq excused
  BY <1>1 DEF ScanInv, Scanning
<1>3. rec'[uci].finger = "0" /\ \A k \in Slots \ {uci} : rec'[k] = rec[k]
  BY ScanWriteDoes
<1>4. \A id, f : Has(id, f)' <=> Has(id, f)
  BY <1>1 DEF Has
<1>5. ASSUME NEW id \in Ids \ excused', id # code PROVE MatchOf(id)'
  <2>1. Match(id) /\ rec[uci].id # id
    BY <1>1, <1>2, <1>5, MatchNow
  <2>2. Flagged(id)' <=> Flagged(id)
    BY <1>2, <1>3, <2>1 DEF Flagged
  <2>3. Match(id)'
    BY <1>4, <2>1, <2>2, SameMatch
  <2> QED
    BY <1>1, <2>3, MatchThen
<1>6. ASSUME NEW id \in Ids \ excused', id = code PROVE MatchOf(id)'
  <2>1. rec[uci].id = id
    BY <1>1, <1>2, <1>6
  <2>2. \A k \in Slots \ {uci} : rec[k].id # id
    BY <1>2, <2>1 DEF TableInv, Once
  <2>3. ~ Flagged(id)'
    BY <1>3, <2>2 DEF Flagged
  <2>4. MatchOf(id)
    BY <1>1, <1>6 DEF MatchInv
  <2>5. \A f \in {1, 2} : ~ Has(id, f)
    BY <1>1, <1>6, <2>4 DEF MatchOf
  <2>6. Match(id)'
    BY <1>4, <2>3, <2>5 DEF Match
  <2> QED
    BY <1>1, <2>6, MatchThen
<1> QED
  BY <1>5, <1>6 DEF MatchInv

LEMMA MatchReset ==
  ASSUME MatchInv, Reset
  PROVE  MatchInv'
<1>1. /\ pc' = "idle" /\ UNCHANGED templates
      /\ rec' = IF pc = "restore" THEN [s \in Slots |-> Erased] ELSE rec
      /\ excused' = excused \union
           IF pc \in {"restore", "wipe"} THEN Ids
           ELSE IF pc \in {"idle", "session", "align"} THEN {} ELSE {code} \intersect Ids
  BY DEF Reset
<1>2. ASSUME NEW id \in Ids \ excused' PROVE MatchOf(id)'
  <2>1. pc \notin {"restore", "wipe"} /\ id \notin excused /\ UNCHANGED <<rec, templates>>
    BY <1>1, <1>2
  <2>2. pc \notin Partial \/ id # code
    BY <1>1, <1>2 DEF Partial
  <2>3. Match(id)
    BY <2>1, <2>2, MatchNow
  <2>4. (Flagged(id)' <=> Flagged(id)) /\ \A f : Has(id, f)' <=> Has(id, f)
    BY <2>1 DEF Flagged, Has
  <2>5. Match(id)'
    BY <2>3, <2>4, SameMatch
  <2> QED
    BY <1>1, <2>5, MatchThen DEF Partial
<1> QED
  BY <1>2 DEF MatchInv

(* Whatever a step leaves undone of flags and fingers is accounted for.    *)
LEMMA MatchStep ==
  ASSUME TypeOK, TypeOK', TableInv, MenuInv, ChosenInv, ScanInv, MatchInv, [Next]_vars
  PROVE  MatchInv'
<1>1. CASE EraseUsers
  <2>1. rec' = [s \in Slots |-> Erased] /\ pc' = "wipe"
    BY <1>1 DEF EraseUsers, Goto
  <2>2. \A id : ~ Flagged(id)'
    BY <2>1, StoredFacts DEF Flagged
  <2> QED
    BY <2>1, <2>2 DEF MatchInv, MatchOf
<1>2. CASE UNCHANGED vars
  <2>1. UNCHANGED <<rec, templates, excused, pc, code>>
    BY <1>2 DEF vars, work, history
  <2> QED
    BY <2>1 DEF MatchInv, MatchOf, Match, Has, Flagged, Left
<1> QED
  BY <1>1, <1>2, StepKinds, MatchCommands, MatchDel, MatchQuiet, MatchStores, MatchDeletes,
     MatchSave, MatchUnflag, MatchRestore, MatchScanWrite, MatchReset

-----------------------------------------------------------------------------
(* A flag keeps its owner, and the module gets no finger of somebody else  *)
(* under a flag.                                                           *)
LEMMA OwnKeeps ==
  ASSUME TypeOK, OwnInv, templates' \subseteq templates, crossed \subseteq crossed',
         \A s \in Slots : rec'[s].id \in Ids /\ rec'[s].finger = "1" /\ rec'[s].id < WIDTH =>
           \E k \in Slots : /\ rec[k].id = rec'[s].id /\ rec[k].finger = "1"
                            /\ rec[k].who = rec'[s].who
  PROVE  OwnInv'
<1>1. \A t \in templates : t.id \in Ids
  BY DEF TypeOK, Template
<1>2. ASSUME NEW t \in templates', NEW s \in Slots, rec'[s].id = t.id, rec'[s].finger = "1",
             t.id \notin crossed', t.id < WIDTH
      PROVE  rec'[s].who = t.who
  <2>1. PICK k \in Slots : rec[k].id = t.id /\ rec[k].finger = "1" /\ rec[k].who = rec'[s].who
    BY <1>1, <1>2
  <2> QED
    BY <1>2, <2>1 DEF OwnInv
<1> QED
  BY <1>2 DEF OwnInv

LEMMA OwnStep ==
  ASSUME TypeOK, TypeOK', TableInv, MenuInv, ChosenInv, ScanInv, OwnInv, [Next]_vars
  PROVE  OwnInv'
<1>1. CASE Commands
  <2>1. PICK u \in Ids, f \in Slots, new \in Records :
          EditedBy(u, f, new) /\ UNCHANGED <<templates, crossed>>
    BY <1>1, CommandDoes DEF Commands
  <2>2. ASSUME NEW s \in Slots, rec'[s].id \in Ids, rec'[s].finger = "1", rec'[s].id < WIDTH
        PROVE  \E k \in Slots : /\ rec[k].id = rec'[s].id /\ rec[k].finger = "1"
                                /\ rec[k].who = rec'[s].who
    <3>1. CASE rec'[s].id = u
      <4>1. rec'[s] = new /\ new.finger = "1"
        BY <2>1, <2>2, <3>1, EditKeeps
      <4>2. Flagged(u)
        BY <2>1, <2>2, <3>1, <4>1, NotCut DEF EditedBy
      <4>3. PICK k \in Slots : rec[k].id = u /\ rec[k].finger = "1"
        BY <4>2 DEF Flagged
      <4>4. new.who = rec[k].who
        BY <2>1, <4>3 DEF EditedBy
      <4> QED
        BY <3>1, <4>1, <4>3, <4>4
    <3>2. CASE rec'[s].id # u
      BY <2>1, <2>2, <3>2, EditKeeps
    <3> QED
      BY <3>1, <3>2
  <2> QED
    BY <2>1, <2>2, OwnKeeps
<1>2. ASSUME NEW u \in Ids, CmdDelUser(u) PROVE OwnInv'
  <2>1. templates' = templates /\ crossed \subseteq crossed'
    BY <1>2 DEF CmdDelUser
  <2>2. PICK z \in Slots : rec'[z].id = 0 /\ \A k \in Slots \ {z} : rec'[k] = rec[k]
    BY <1>2, DelDoes
  <2>3. \A s \in Slots : rec'[s].id \in Ids => rec'[s] = rec[s]
    BY <2>2, StoredFacts
  <2> QED
    BY <2>1, <2>3, OwnKeeps
<1>3. CASE Stores
  <2>1. PICK f \in {1, 2} : pc \in Menus /\ Store(f)
    BY <1>3 DEF Stores, EnrolUnheard, EnrolDone, Menus
  <2>2. UNCHANGED <<rec, crossed>> /\ (code < WIDTH => ~ Flagged(code))
    BY <1>3, <2>1, StoresKeep, NotFlagged, NotCut
  <2> DEFINE new == [id |-> code, finger |-> f, who |-> person]
  <2>3. new.id = code
    OBVIOUS
  <2>4. \A t \in templates' : t \in templates \/ t = new
    BY <2>1 DEF Store
  <2> HIDE DEF new
  <2>5. \A t \in templates' : t \in templates \/ t.id = code
    BY <2>3, <2>4
  <2> QED
    BY <2>2, <2>5 DEF OwnInv, Flagged
<1>4. ASSUME UNCHANGED <<rec, crossed>>, templates' \subseteq templates PROVE OwnInv'
  BY <1>4 DEF OwnInv
<1>5. CASE Deletes
  <2>1. UNCHANGED <<rec, crossed>>
    BY <1>5, DeletesKeep
  <2>2. ASSUME NEW f, NEW ok \in BOOLEAN, delete_userrecord(code, f, ok)
        PROVE  templates' \subseteq templates
    BY <2>2, DeleteFacts
  <2>3. DeleteDatabase => templates' \subseteq templates
    BY DEF DeleteDatabase
  <2>4. templates' \subseteq templates
    BY <1>5, <2>2, <2>3 DEF Deletes, Undo, DeleteFinger, ScanFinger
  <2> QED
    BY <1>4, <2>1, <2>4
<1>6. CASE Quiet
  BY <1>4, <1>6, QuietKeeps
<1>7. CASE save_user_details
  <2>1. UNCHANGED <<templates, crossed>> /\ pc = "save"
    BY <1>7 DEF save_user_details, quiet, memory
  <2>2. /\ \A t \in templates : t.id = code => t.who = person
        /\ \A s \in Slots : rec[s].id = code /\ code \notin crossed => rec[s].who = person
    BY <2>1 DEF MenuInv, Menus
  <2>3. CASE rec' = rec
    BY <1>4, <2>1, <2>3
  <2>4. ASSUME NEW s \in Slots, rec[s].id = code, rec[s] \in Records,
               rec'[s] = [rec[s] EXCEPT !.finger = "1"], \A k \in Slots \ {s} : rec'[k] = rec[k]
        PROVE  OwnInv'
    <3>1. rec'[s].id = code /\ rec'[s].who = rec[s].who
      BY <2>4 DEF Records
    <3>2. ASSUME NEW t \in templates, NEW k \in Slots, rec'[k].id = t.id, rec'[k].finger = "1",
                 t.id \notin crossed, t.id < WIDTH
          PROVE  rec'[k].who = t.who
      <4>1. CASE k = s
        BY <2>2, <2>4, <3>1, <3>2, <4>1
      <4>2. CASE k # s
        BY <2>4, <3>2, <4>2 DEF OwnInv
      <4> QED
        BY <4>1, <4>2
    <3> QED
      BY <2>1, <3>2 DEF OwnInv
  <2> QED
    BY <1>7, <2>3, <2>4, SaveDoes
<1>8. ASSUME UNCHANGED <<templates, crossed>>,
             \A s \in Slots : rec'[s] = rec[s] \/ rec'[s].finger # "1" \/ rec'[s].id \notin Ids
      PROVE  OwnInv'
  BY <1>8, OwnKeeps
<1>9. CASE chage_bioflag
  <2>1. code \in Ids /\ UNCHANGED <<templates, crossed>>
    BY <1>9 DEF chage_bioflag, ChosenInv, quiet, memory
  <2>2. \A s \in Slots : rec'[s] = rec[s] \/ rec'[s].finger = "0"
    BY <1>9, <2>1, UnflagDoes
  <2> QED
    BY <1>8, <2>1, <2>2
<1>10. CASE AlignRestore
  <2>1. UNCHANGED <<templates, crossed>>
    BY <1>10 DEF AlignRestore, quiet, memory
  <2>2. ASSUME NEW n \in Slots, rec'[n].id \in Ids, rec'[n].finger = "1"
        PROVE  \E k \in Slots : /\ rec[k].id = rec'[n].id /\ rec[k].finger = "1"
                                /\ rec[k].who = rec'[n].who
    <3>1. PICK s \in Slots : rec'[n] = Renewed(rec[s])
      BY <1>10, <2>2, RestoreDoes
    <3>2. rec[s].id = rec'[n].id /\ rec[s].who = rec'[n].who /\ rec[s].finger = "1"
      BY <2>2, <3>1, RenewedFacts, TableType
    <3> QED
      BY <3>2
  <2> QED
    BY <2>1, <2>2, OwnKeeps
<1>11. CASE ScanWrite
  <2>1. UNCHANGED <<templates, crossed>> /\ uci \in Slots
    BY <1>11 DEF ScanWrite, history, ScanInv, Scanning
  <2> QED
    BY <1>8, <1>11, <2>1, ScanWriteDoes
<1>12. ASSUME EraseUsers \/ Reset PROVE OwnInv'
  <2>1. UNCHANGED <<templates, crossed>> /\ (rec' = rec \/ rec' = [s \in Slots |-> Erased])
    BY <1>12 DEF EraseUsers, Reset, quiet, memory
  <2> QED
    BY <1>8, <2>1, StoredFacts
<1>13. CASE UNCHANGED vars
  BY <1>4, <1>13 DEF vars, history
<1> QED
  BY <1>1, <1>2, <1>3, <1>5, <1>6, <1>7, <1>9, <1>10, <1>11, <1>12, <1>13, StepKinds


(* A finger finds the record of its owner, and the session keeps it.       *)
LEMMA SessionStep ==
  ASSUME TypeOK, TableInv, OwnInv, FingerOpensOwn, [Next]_vars
  PROVE  FingerOpensOwn'
<1>1. ASSUME NEW t \in templates, FingerLogin(t) PROVE FingerOpensOwn'
  <2> DEFINE s == First(check_user_bio(t.id))
  <2>1. t.id \in Ids
    BY DEF TypeOK, Template
  <2>2. s \in check_user_bio(t.id)
    BY <1>1, TableType, FirstIs DEF FingerLogin
  <2>3. t.id < WIDTH => s \in Slots /\ rec[s].id = t.id /\ rec[s].finger = "1"
    BY <2>1, <2>2, FlagOf, NotCut
  <2>4. session' = [code |-> t.id, rec |-> rec[s], who |-> t.who] /\ UNCHANGED crossed
    BY <1>1 DEF FingerLogin, history
  <2> HIDE DEF s
  <2>5. t.id \notin crossed /\ t.id < WIDTH => rec[s].who = t.who
    BY <2>3 DEF OwnInv
  <2> QED
    BY <2>3, <2>4, <2>5 DEF FingerOpensOwn
<1>2. CASE Logout \/ Reset
  BY <1>2 DEF FingerOpensOwn, Logout, Reset
<1>3. ASSUME UNCHANGED session, crossed \subseteq crossed' PROVE FingerOpensOwn'
  BY <1>3 DEF FingerOpensOwn
<1>4. ASSUME NEW u \in Ids, CmdDelUser(u) PROVE UNCHANGED session /\ crossed \subseteq crossed'
  BY <1>4 DEF CmdDelUser
<1>5. ASSUME Commands \/ LeaveMenu \/ Enrolment \/ Deletion \/ bio_verification
             \/ EraseUsers \/ DeleteDatabase \/ UNCHANGED vars
      PROVE  UNCHANGED <<session, crossed>>
  <2>1. Enrolment => UNCHANGED <<session, crossed>>
    BY DEF Enrolment, ChooseNew, EnrolEnter, EnrolFails, EnrolUnheard, EnrolDone, Undo,
           save_user_details, quiet, memory
  <2>2. Deletion => UNCHANGED <<session, crossed>>
    BY DEF Deletion, ChooseEnrolled, DeleteEnter, DeleteFinger, chage_bioflag, AlignErase,
           AlignRestore, quiet, memory
  <2>3. bio_verification => UNCHANGED <<session, crossed>>
    BY DEF bio_verification, StartCleanup, Scan, ScanFinger, ScanWrite, ScanEnd, history, quiet,
           memory
  <2>4. Commands => UNCHANGED <<session, crossed>>
    BY DEF Commands, CmdAddModUser, CmdAddEditUserT, Edit
  <2> QED
    BY <1>5, <2>1, <2>2, <2>3, <2>4 DEF LeaveMenu, EraseUsers, DeleteDatabase, vars, history,
       quiet, memory
<1> QED
  BY <1>1, <1>2, <1>3, <1>4, <1>5 DEF Next, Commands

-----------------------------------------------------------------------------
LEMMA InitInv == Init => IInv
<1> SUFFICES ASSUME Init PROVE IInv
  OBVIOUS
<1> USE ConstantsType, StoredFacts
<1>1. TypeOK
  <2>1. session = None /\ pc = "idle" /\ bio_delete_flag = FALSE
    BY DEF Init
  <2>2. bio_delete_flag \in BOOLEAN
    BY <2>1, Zenon
  <2> QED
    BY <2>1, <2>2 DEF Init, TypeOK, None, Waits
<1>2. TableInv /\ OwnInv /\ FingerOpensOwn
  BY DEF Init, TableInv, Packed, Once, OwnInv, FingerOpensOwn, None
<1>3. MenuInv /\ ChosenInv /\ ScanInv
  BY DEF Init, MenuInv, ChosenInv, ScanInv, Menus, Scanning
<1>4. MatchInv
  <2>1. ASSUME NEW id \in Ids PROVE Match(id)
    <3>1. ~ Flagged(id)
      BY DEF Init, Flagged
    <3>2. \A f : ~ Has(id, f)
      BY DEF Init, Has
    <3> QED
      BY <3>1, <3>2 DEF Match
  <2> QED
    BY <2>1 DEF Init, MatchInv, MatchOf, Partial
<1> QED
  BY <1>1, <1>2, <1>3, <1>4 DEF IInv

LEMMA NextInv == IInv /\ [Next]_vars => IInv'
<1> SUFFICES ASSUME IInv, [Next]_vars PROVE IInv'
  OBVIOUS
<1>1. TypeOK'
  BY TypeStep DEF IInv, MenuInv, MenuTypes, ScanInv, ScanTypes
<1> QED
  BY <1>1, TableStep, MenuStep, ChosenStep, ScanStep, MatchStep, OwnStep, SessionStep DEF IInv

LEMMA Invariance == Spec => []IInv
BY InitInv, NextInv, PTL DEF Spec

(* The table, user_t, the waits and the session keep their types: what     *)
(* bio_verification writes back to the slot of its scan is a user's record *)
(* over a user's record, whatever a command has put into user_t.           *)
THEOREM TypeCorrect == Spec => []TypeOK
<1>1. IInv => TypeOK
  BY DEF IInv
<1> QED
  BY <1>1, Invariance, PTL

(* Between two pieces of work of the main loop a live user with the flag   *)
(* has both fingers in the module and nobody else has any, unless the id   *)
(* is excused: however enrolments, deletions, cleanups, commands, faults   *)
(* and resets fall.  (user_enrollment, bio_verification and update_user    *)
(* change the table and the module one after the other, with waits.)       *)
THEOREM FlagsCorrect == Spec => []FlagMatchesTemplates
<1>1. ASSUME IInv PROVE FlagMatchesTemplates
  <2>1. ASSUME NEW id \in Ids \ excused, pc \in {"idle", "session"}
        PROVE  IF \E s \in Live : rec[s].id = id /\ rec[s].finger = "1"
               THEN Enrolled(id) ELSE TemplatesOf(id) = {}
    <3>1. Match(id)
      BY <1>1, <2>1, MatchNow DEF IInv, Partial
    <3>2. (\E s \in Live : rec[s].id = id /\ rec[s].finger = "1") <=> Flagged(id)
      BY <1>1, UsedIs, TableType DEF Flagged, IInv
    <3>3. CASE Flagged(id)
      <4>1. Has(id, 1) /\ Has(id, 2)
        BY <3>1, <3>3 DEF Match
      <4>2. {t.finger : t \in TemplatesOf(id)} \subseteq {1, 2}
        BY <1>1 DEF IInv, TypeOK, Template, TemplatesOf
      <4>3. \A f \in {1, 2} : f \in {t.finger : t \in TemplatesOf(id)}
        BY <4>1 DEF Has, TemplatesOf
      <4>4. Enrolled(id)
        BY <4>2, <4>3 DEF Enrolled
      <4> QED
        BY <3>2, <3>3, <4>4
    <3>4. CASE ~ Flagged(id)
      <4>1. TemplatesOf(id) = {}
        BY <1>1, <3>1, <3>4, HasNone DEF Match, IInv
      <4> QED
        BY <3>2, <3>4, <4>1
    <3> QED
      BY <3>3, <3>4
  <2> QED
    BY <2>1 DEF FlagMatchesTemplates
<1> QED
  BY <1>1, Invariance, PTL

(* A session that a finger opens under an id below 2^16 runs with the      *)
(* record of the person whose finger it is, under that record's id,        *)
(* however often the id was deleted, given to another and enrolled again,  *)
(* and whatever ids above 2^16 there are; but for ids the server deleted   *)
(* while they were enrolled.  (check_user_bio looks for id and flag.)      *)
THEOREM FingerCorrect == Spec => []FingerOpensOwn
<1>1. IInv => FingerOpensOwn
  BY DEF IInv
<1> QED
  BY <1>1, Invariance, PTL
=============================================================================
