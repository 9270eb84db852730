--------------------------- MODULE KeyCabinetProofs ---------------------------
(***************************************************************************)
(* For every set of users, tasks and fobs: the slots are locked again on   *)
(* every way out of a session, and a session that no server command has    *)
(* disturbed releases and logs only what its user may take.                *)
(*                                                                         *)
(* What RightsRespected says of the fob that is released rests on what the *)
(* session holds from the menu on: whose record user_t is, and that the    *)
(* task in task_t is one of that user's in every way through the modes.    *)
(***************************************************************************)
EXTENDS KeyCabinet, FiniteSetTheorems, TLAPS

(* The slot a step is about, and the user of a session, are known.         *)
CurInv ==
  /\ pc \in {"removed", "returned", "wrong", "returning", "taking"} => cur \in Keys
  /\ pc \in Session => code \in Users

(* The session is in one of its two loops, or in a wait that goes back.    *)
Within(loop) == pc = loop \/ (pc \in {"wrong", "returning"} /\ back = loop)

(* Only the fob entered, in the loop over the fobs, and the slot of a      *)
(* wrong one are released.                                                 *)
LockInv ==
  /\ solenoid \subseteq ({entered} \ {None}) \union (IF pc = "wrong" THEN {cur} ELSE {})
  /\ entered # None => Within("keys")

OwnTask == task_t \in TasksOf[code]
ToTake  == mode = 2 => Available(task_t) # {}
Granted == Approvers[task_t] = {} \/ approved \/ TurnedReturn
Choosing ==
  \/ mode = 2 /\ list = {} /\ OwnTask /\ Available(task_t) # {}
  \/ mode = 1 /\ list = TasksOf[code] /\ task_t \in list
RightsInv == ~ disturbed =>
  /\ pc \in Session => user_t = code
  /\ pc = "door" /\ mode # 1 => OwnTask /\ ToTake
  /\ Within("select") => Choosing
  /\ pc = "second" => OwnTask /\ ToTake
  /\ pc = "taking" \/ Within("keys") => OwnTask /\ Granted
  /\ entered # None => entered \in KeysOf[task_t]

IInv == TypeOK /\ CurInv /\ LockInv /\ RightsInv
-----------------------------------------------------------------------------
LEMMA ConstantsType ==
  /\ TasksOf \in [Users -> SUBSET Tasks] /\ KeysOf \in [Tasks -> SUBSET Keys]
  /\ None \notin Users /\ None \notin Tasks /\ None \notin Keys
  /\ MAX_LOGINS \in Nat /\ MAX_MOVES \in Nat /\ MAX_SERVER \in Nat
BY UsersAssumption, BoundsAssumption

LEMMA ScannedType == Scanned \in [Keys -> Keys \union {None}]
BY DEF Scanned

(* The sets a session looks at are sets of fobs and of tasks.              *)
LEMMA SetsType ==
  ASSUME TypeOK
  PROVE  /\ Available(task_t) \subseteq Keyset(task_t) /\ Keyset(task_t) \subseteq Keys
         /\ UserTasks(user_t) \subseteq Tasks
BY ConstantsType DEF TypeOK, Available, Keyset, UserTasks

(* One task or fob is the one of a set that is not empty.                  *)
LEMMA OneIsNotNone == ASSUME NEW S, Cardinality(S) = 1 PROVE S # {}
BY FS_EmptySet

(* The fob released before the loop is one of those of its task, but for   *)
(* mode 2 without a fob in place.                                          *)
LEMMA AtOnceType ==
  ASSUME TypeOK, NEW m \in 0 .. 2, NEW e \in AtOnce(m, task_t)
  PROVE  /\ e \in Keys \union {None}
         /\ m = 0 => e = None
         /\ (m = 2 => Available(task_t) # {}) /\ e # None => e \in Keyset(task_t)
BY SetsType, ConstantsType DEF AtOnce

(* What Setup comes to.                                                    *)
LEMMA SetupDoes ==
  ASSUME TypeOK, NEW m \in 0 .. 2, NEW u, Setup(m, task_t, u)
  PROVE  \/ /\ pc' = "keys" /\ solenoid' = {entered'} \ {None}
            /\ entered' \in Keys \union {None}
            /\ mode' = IF entered' # None THEN 2 ELSE m
            /\ m = 0 => entered' = None
            /\ (m = 2 => Available(task_t) # {}) /\ entered' # None
                 => entered' \in Keyset(task_t)
         \/ /\ pc' \in {"door", "closing"} /\ mode' = 1
            /\ entered' = None /\ solenoid' = {}
<1>1. CASE Work(m, task_t, u)
  <2>1. /\ pc' = "keys" /\ entered' \in AtOnce(m, task_t)
        /\ mode' = IF entered' # None THEN 2 ELSE m
        /\ solenoid' = {entered'} \ {None}
    BY <1>1 DEF Setup
  <2> QED
    BY <2>1, AtOnceType
<1>2. CASE ~ Work(m, task_t, u)
  BY <1>2 DEF Setup
<1> QED
  BY <1>1, <1>2

(* What the entry of a task comes to: the session goes on in mode m.       *)
Proceeds(m) == m = mode \/ (m = 0 /\ Cardinality(list) = 1)
TwoUsers == task_t # None /\ Approvers[task_t] # {}
LEMMA EnterDoes ==
  ASSUME TypeOK, Enter
  PROVE  \/ /\ pc' = "closing" \/ (pc' = "door" /\ mode = 1)
            /\ UNCHANGED <<mode, entered, solenoid>>
         \/ \E m \in 0 .. 2 : /\ Proceeds(m) /\ TwoUsers /\ pc' = "second" /\ mode' = m
                              /\ UNCHANGED <<entered, solenoid>>
         \/ \E m \in 0 .. 2 : Proceeds(m) /\ ~ TwoUsers /\ Setup(m, task_t, user_t)
<1> DEFINE m == IF Cardinality(list) = 1 /\ Available(task_t) = {} THEN 0 ELSE mode
<1>1. m \in 0 .. 2 /\ Proceeds(m) /\ (m = 1 => mode = 1)
  BY DEF TypeOK, Proceeds
<1>2. \/ pc' = "closing" /\ UNCHANGED <<mode, entered, solenoid>>
      \/ m = 1 /\ pc' \in {"closing", "door"} /\ UNCHANGED <<mode, entered, solenoid>>
      \/ IF TwoUsers
         THEN pc' = "second" /\ mode' = m /\ UNCHANGED <<entered, solenoid>>
         ELSE Setup(m, task_t, user_t)
  BY DEF Enter, TwoUsers
<1> HIDE DEF m
<1> QED
  BY <1>1, <1>2

LEMMA TypeStep == TypeOK /\ CurInv /\ [Next]_vars => TypeOK'
<1> SUFFICES ASSUME TypeOK, CurInv, [Next]_vars PROVE TypeOK'
  OBVIOUS
<1> USE ConstantsType, SetsType, ScannedType
    DEF TypeOK, CurInv, Session, Checking, physical, log, check, menu, bounds
<1>1. ASSUME NEW k \in Keys, Pull(k) PROVE TypeOK'
  BY <1>1 DEF Pull
<1>2. ASSUME NEW k \in Keys, NEW s \in Keys, Put(k, s) PROVE TypeOK'
  BY <1>2 DEF Put
<1>3. CASE CloseDoor
  <2>1. door' \in BOOLEAN
    BY <1>3 DEF CloseDoor
  <2> QED
    BY <1>3, <2>1 DEF CloseDoor
<1>4. CASE Server
  <2>1. disturbed' \in BOOLEAN
    BY <1>4, Zenon DEF Server
  <2>2. user_t' \in Users \union {None} /\ task_t' \in Tasks \union {None}
    BY <1>4 DEF Server
  <2>3. server' \in 0 .. MAX_SERVER
    BY <1>4 DEF Server
  <2> QED
    BY <1>4, <2>1, <2>2, <2>3 DEF Server
<1>5. CASE CheckStart
  <2>1. chkey' \in BOOLEAN /\ pc' = "check"
    BY <1>5, Zenon DEF CheckStart
  <2>2. seen' \in [Keys -> Keys \union {None}] /\ left' \in SUBSET Keys
    BY <1>5 DEF CheckStart
  <2> QED
    BY <1>5, <2>1, <2>2 DEF CheckStart
<1>6. ASSUME NEW k \in Keys, CheckKey(k) PROVE TypeOK'
  BY <1>6 DEF CheckKey
<1>7. CASE CheckEnd
  BY <1>7 DEF CheckEnd
<1>8. CASE CheckRemoved
  BY <1>8 DEF CheckRemoved
<1>9. CASE CheckReturned
  BY <1>9 DEF CheckReturned
<1>10. ASSUME NEW u \in Users, Identify(u) PROVE TypeOK'
  <2>1. approved' \in BOOLEAN /\ disturbed' \in BOOLEAN
    BY <1>10, Zenon DEF Identify
  <2>2. logins' \in 0 .. MAX_LOGINS
    BY <1>10 DEF Identify
  <2> QED
    BY <1>10, <2>1, <2>2 DEF Identify
<1>11. CASE Pin
  BY <1>11 DEF Pin
<1>12. CASE Menu
  <2>1. task_t' \in Tasks \union {None}
    BY <1>12, OneIsNotNone DEF Menu
  <2>2. pc' \in {"idle", "door"} /\ mode' \in 0 .. 2
    BY <1>12 DEF Menu
  <2>3. single' \in BOOLEAN
    BY <1>12 DEF Menu
  <2> QED
    BY <1>12, <2>1, <2>2, <2>3 DEF Menu
<1>13. CASE DoorOpens
  <2>1. door' \in BOOLEAN /\ list' \subseteq Tasks
    BY <1>13 DEF DoorOpens
  <2>2. task_t' \in Tasks \union {None}
    BY <1>13, <2>1 DEF DoorOpens
  <2>3. pc' \in Session \union {"idle"} /\ mode' \in 0 .. 2
        /\ solenoid' \subseteq Keys /\ entered' \in Keys \union {None}
    BY <1>13, SetupDoes DEF DoorOpens
  <2> QED
    BY <1>13, <2>1, <2>2, <2>3 DEF DoorOpens
<1>14. CASE DoorTimeout
  BY <1>14 DEF DoorTimeout
<1>15. ASSUME NEW t \in Tasks, Select(t) PROVE TypeOK'
  BY <1>15 DEF Select
<1>16. CASE Enter
  <2>1. pc' \in Session \union {"idle"} /\ mode' \in 0 .. 2
        /\ solenoid' \subseteq Keys /\ entered' \in Keys \union {None}
    BY <1>16, EnterDoes, SetupDoes
  <2>2. ustask' \in Tasks \union {None}
    BY <1>16 DEF Enter
  <2> QED
    BY <1>16, <2>1, <2>2 DEF Enter
<1>17. CASE Second
  <2>1. pc' \in Session \union {"idle"} /\ mode' \in 0 .. 2
        /\ solenoid' \subseteq Keys /\ entered' \in Keys \union {None}
    BY <1>17, SetupDoes DEF Second
  <2>2. approved' \in BOOLEAN /\ user_t' \in Users \union {None}
    BY <1>17 DEF Second
  <2> QED
    BY <1>17, <2>1, <2>2 DEF Second
<1>18. CASE SecondGivenUp
  BY <1>18 DEF SecondGivenUp
<1>19. CASE Look
  BY <1>19 DEF Look
<1>20. ASSUME NEW k \in Keys, FoundWrong(k) PROVE TypeOK'
  BY <1>20 DEF FoundWrong
<1>21. CASE WrongEnds
  BY <1>21 DEF WrongEnds
<1>22. ASSUME NEW k \in Keys, FoundReturned(k) PROVE TypeOK'
  BY <1>22 DEF FoundReturned
<1>23. CASE Returned
  BY <1>23 DEF Returned
<1>24. ASSUME NEW k \in Keys, Choose(k) PROVE TypeOK'
  BY <1>24 DEF Choose
<1>25. CASE FoundTaken
  BY <1>25 DEF FoundTaken
<1>26. CASE Taken
  BY <1>26 DEF Taken
<1>27. CASE Leave
  BY <1>27 DEF Leave
<1>28. CASE Closing
  BY <1>28 DEF Closing
<1>29. CASE UNCHANGED vars
  BY <1>29 DEF vars
<1> QED
  BY <1>1, <1>2, <1>3, <1>4, <1>5, <1>6, <1>7, <1>8, <1>9, <1>10, <1>11, <1>12, <1>13, <1>14, <1>15, <1>16, <1>17, <1>18, <1>19, <1>20, <1>21, <1>22, <1>23, <1>24, <1>25, <1>26, <1>27, <1>28, <1>29
     DEF Next, KeyCheck, Progress

(* The steps keep who has logged in and which slot is looked at.           *)
LEMMA CurStep == TypeOK /\ CurInv /\ [Next]_vars => CurInv'
<1> SUFFICES ASSUME TypeOK, CurInv, [Next]_vars PROVE CurInv'
  OBVIOUS
<1> USE DEF TypeOK, CurInv, Session, Checking, physical, log, check, menu, bounds
<1>1. ASSUME NEW k \in Keys, Pull(k) PROVE CurInv'
  BY <1>1 DEF Pull
<1>2. ASSUME NEW k \in Keys, NEW s \in Keys, Put(k, s) PROVE CurInv'
  BY <1>2 DEF Put
<1>3. CASE CloseDoor
  BY <1>3 DEF CloseDoor
<1>4. CASE Server
  BY <1>4 DEF Server
<1>5. CASE CheckStart
  BY <1>5 DEF CheckStart
<1>6. ASSUME NEW k \in Keys, CheckKey(k) PROVE CurInv'
  BY <1>6 DEF CheckKey
<1>7. CASE CheckEnd
  BY <1>7 DEF CheckEnd
<1>8. CASE CheckRemoved
  BY <1>8 DEF CheckRemoved
<1>9. CASE CheckReturned
  BY <1>9 DEF CheckReturned
<1>10. ASSUME NEW u \in Users, Identify(u) PROVE CurInv'
  BY <1>10 DEF Identify
<1>11. CASE Pin
  BY <1>11 DEF Pin
<1>12. CASE Menu
  BY <1>12 DEF Menu
<1>13. CASE DoorOpens
  BY <1>13, SetupDoes DEF DoorOpens
<1>14. CASE DoorTimeout
  BY <1>14 DEF DoorTimeout
<1>15. ASSUME NEW t \in Tasks, Select(t) PROVE CurInv'
  BY <1>15 DEF Select
<1>16. CASE Enter
  BY <1>16, EnterDoes, SetupDoes DEF Enter
<1>17. CASE Second
  BY <1>17, SetupDoes DEF Second
<1>18. CASE SecondGivenUp
  BY <1>18 DEF SecondGivenUp
<1>19. CASE Look
  BY <1>19 DEF Look
<1>20. ASSUME NEW k \in Keys, FoundWrong(k) PROVE CurInv'
  BY <1>20 DEF FoundWrong
<1>21. CASE WrongEnds
  BY <1>21 DEF WrongEnds
<1>22. ASSUME NEW k \in Keys, FoundReturned(k) PROVE CurInv'
  BY <1>22 DEF FoundReturned
<1>23. CASE Returned
  BY <1>23 DEF Returned
<1>24. ASSUME NEW k \in Keys, Choose(k) PROVE CurInv'
  BY <1>24 DEF Choose
<1>25. CASE FoundTaken
  BY <1>25 DEF FoundTaken
<1>26. CASE Taken
  BY <1>26 DEF Taken
<1>27. CASE Leave
  BY <1>27 DEF Leave
<1>28. CASE Closing
  BY <1>28 DEF Closing
<1>29. CASE UNCHANGED vars
  BY <1>29 DEF vars
<1> QED
  BY <1>1, <1>2, <1>3, <1>4, <1>5, <1>6, <1>7, <1>8, <1>9, <1>10, <1>11, <1>12, <1>13, <1>14, <1>15, <1>16, <1>17, <1>18, <1>19, <1>20, <1>21, <1>22, <1>23, <1>24, <1>25, <1>26, <1>27, <1>28, <1>29
     DEF Next, KeyCheck, Progress

(* The steps keep the slots locked but for the one asked for and the wrong *)
(* one.                                                                    *)
LEMMA LockStep == TypeOK /\ LockInv /\ [Next]_vars => LockInv'
<1> SUFFICES ASSUME TypeOK, LockInv, [Next]_vars PROVE LockInv'
  OBVIOUS
<1> USE DEF TypeOK, LockInv, Within, Session, physical, log, check, menu, bounds
<1>1. ASSUME NEW k \in Keys, Pull(k) PROVE LockInv'
  BY <1>1 DEF Pull
<1>2. ASSUME NEW k \in Keys, NEW s \in Keys, Put(k, s) PROVE LockInv'
  BY <1>2 DEF Put
<1>3. CASE CloseDoor
  BY <1>3 DEF CloseDoor
<1>4. CASE Server
  BY <1>4 DEF Server
<1>5. CASE CheckStart
  BY <1>5 DEF CheckStart
<1>6. ASSUME NEW k \in Keys, CheckKey(k) PROVE LockInv'
  BY <1>6 DEF CheckKey
<1>7. CASE CheckEnd
  BY <1>7 DEF CheckEnd
<1>8. CASE CheckRemoved
  BY <1>8 DEF CheckRemoved
<1>9. CASE CheckReturned
  BY <1>9 DEF CheckReturned
<1>10. ASSUME NEW u \in Users, Identify(u) PROVE LockInv'
  BY <1>10 DEF Identify
<1>11. CASE Pin
  BY <1>11 DEF Pin
<1>12. CASE Menu
  BY <1>12 DEF Menu
<1>13. CASE DoorOpens
  BY <1>13, SetupDoes DEF DoorOpens
<1>14. CASE DoorTimeout
  BY <1>14 DEF DoorTimeout
<1>15. ASSUME NEW t \in Tasks, Select(t) PROVE LockInv'
  BY <1>15 DEF Select
<1>16. CASE Enter
  BY <1>16, EnterDoes, SetupDoes DEF Enter
<1>17. CASE Second
  BY <1>17, SetupDoes DEF Second
<1>18. CASE SecondGivenUp
  BY <1>18 DEF SecondGivenUp
<1>19. CASE Look
  BY <1>19 DEF Look
<1>20. ASSUME NEW k \in Keys, FoundWrong(k) PROVE LockInv'
  BY <1>20 DEF FoundWrong
<1>21. CASE WrongEnds
  BY <1>21 DEF WrongEnds
<1>22. ASSUME NEW k \in Keys, FoundReturned(k) PROVE LockInv'
  BY <1>22 DEF FoundReturned
<1>23. CASE Returned
  BY <1>23 DEF Returned
<1>24. ASSUME NEW k \in Keys, Choose(k) PROVE LockInv'
  BY <1>24, ConstantsType DEF Choose
<1>25. CASE FoundTaken
  BY <1>25 DEF FoundTaken
<1>26. CASE Taken
  BY <1>26 DEF Taken
<1>27. CASE Leave
  BY <1>27 DEF Leave
<1>28. CASE Closing
  BY <1>28 DEF Closing
<1>29. CASE UNCHANGED vars
  BY <1>29 DEF vars
<1> QED
  BY <1>1, <1>2, <1>3, <1>4, <1>5, <1>6, <1>7, <1>8, <1>9, <1>10, <1>11, <1>12, <1>13, <1>14, <1>15, <1>16, <1>17, <1>18, <1>19, <1>20, <1>21, <1>22, <1>23, <1>24, <1>25, <1>26, <1>27, <1>28, <1>29
     DEF Next, KeyCheck, Progress

(* Outside the log of a taking the fobs of the task in place stay so.      *)
LEMMA AvailableStays ==
  UNCHANGED <<status, task_t>> => Available(task_t)' = Available(task_t)
BY DEF Available, Keyset
LEMMA AvailableGrows ==
  TypeOK /\ Returned => Available(task_t) \subseteq Available(task_t)'
BY DEF Available, Keyset, Returned, TypeOK

(* The fobs of a task that is one of the user's.                           *)
LEMMA OwnKeyset ==
  ASSUME TypeOK, code \in Users, OwnTask
  PROVE  task_t \in Tasks /\ Keyset(task_t) = KeysOf[task_t]
BY ConstantsType DEF OwnTask, Keyset

(* A loop over the fobs begins, or the session ends, with the rights it    *)
(* needs.                                                                  *)
LEMMA SetupRights ==
  ASSUME TypeOK, NEW m \in 0 .. 2, NEW u, Setup(m, task_t, u),
         UNCHANGED <<task_t, code, disturbed>>,
         ~ disturbed => /\ code \in Users /\ user_t' = code /\ OwnTask
                        /\ m = 2 => Available(task_t) # {}
                        /\ Approvers[task_t] = {} \/ approved' \/ (m = 0 /\ list' = {})
  PROVE  RightsInv'
<1> SUFFICES ASSUME ~ disturbed PROVE RightsInv'
  BY DEF RightsInv
<1>1. CASE pc' = "keys"
  <2>1. /\ mode' = (IF entered' # None THEN 2 ELSE m) /\ (m = 0 => entered' = None)
        /\ entered' # None => entered' \in KeysOf[task_t]
    BY <1>1, SetupDoes, OwnKeyset
  <2>2. OwnTask' /\ Granted'
    BY <2>1 DEF OwnTask, Granted, TurnedReturn
  <2> QED
    BY <1>1, <2>1, <2>2 DEF RightsInv, Within
<1>2. CASE pc' \in {"door", "closing"} /\ mode' = 1 /\ entered' = None
  BY <1>2 DEF RightsInv, Within
<1> QED
  BY <1>1, <1>2, SetupDoes

(* The steps keep what an undisturbed session goes by.                     *)
LEMMA RightsStep == IInv /\ [Next]_vars => RightsInv'
<1> SUFFICES ASSUME IInv, [Next]_vars PROVE RightsInv'
  OBVIOUS
<1> USE ConstantsType
    DEF IInv, TypeOK, CurInv, LockInv, RightsInv, Within, Choosing, OwnTask, ToTake, Granted,
        TurnedReturn, Session, physical, log, check, menu, bounds
<1>1. ASSUME NEW k \in Keys, Pull(k) PROVE RightsInv'
  BY <1>1, AvailableStays DEF Pull
<1>2. ASSUME NEW k \in Keys, NEW s \in Keys, Put(k, s) PROVE RightsInv'
  BY <1>2, AvailableStays DEF Put
<1>3. CASE CloseDoor
  BY <1>3, AvailableStays DEF CloseDoor
<1>4. CASE Server
  BY <1>4, AvailableStays DEF Server
<1>5. CASE CheckStart
  BY <1>5, AvailableStays DEF CheckStart
<1>6. ASSUME NEW k \in Keys, CheckKey(k) PROVE RightsInv'
  BY <1>6, AvailableStays DEF CheckKey
<1>7. CASE CheckEnd
  BY <1>7, AvailableStays DEF CheckEnd
<1>8. CASE CheckRemoved
  BY <1>8 DEF CheckRemoved
<1>9. CASE CheckReturned
  BY <1>9 DEF CheckReturned
<1>10. ASSUME NEW u \in Users, Identify(u) PROVE RightsInv'
  BY <1>10, AvailableStays DEF Identify
<1>11. CASE Pin
  BY <1>11, AvailableStays DEF Pin
<1>12. CASE Menu
  <2> SUFFICES ASSUME ~ disturbed PROVE RightsInv'
    BY <1>12 DEF Menu
  <2> DEFINE t == CHOOSE x \in TasksOf[code] : TRUE
  <2>1. UserTasks(user_t) = TasksOf[code]
    BY <1>12 DEF Menu, UserTasks
  <2>2. ASSUME pc' = "door", mode' # 1
        PROVE  t \in TasksOf[code] /\ task_t' = t /\ (mode' = 2 => Available(t) # {})
    BY <1>12, <2>1, <2>2, OneIsNotNone DEF Menu
  <2>3. Available(task_t)' = Available(task_t')
    BY <1>12 DEF Menu, Available, Keyset
  <2> HIDE DEF t
  <2>4. pc' \in {"idle", "door"} /\ UNCHANGED <<user_t, code, entered, disturbed>>
    BY <1>12 DEF Menu
  <2> QED
    BY <1>12, <2>2, <2>3, <2>4 DEF Menu
<1>13. CASE DoorOpens
  <2>1. CASE mode = 0
    <3>1. list' = {} /\ task_t' = task_t /\ Setup(0, task_t, user_t)
      BY <1>13, <2>1 DEF DoorOpens
    <3> QED
      BY <1>13, <2>1, <3>1, SetupRights DEF DoorOpens
  <2>2. CASE mode # 0
    <3>1. ~ disturbed => UserTasks(user_t) = TasksOf[code]
      BY <1>13 DEF DoorOpens, UserTasks
    <3>2. Available(task_t') = Available(task_t)'
      BY <1>13, <2>2 DEF DoorOpens, Available, Keyset
    <3> QED
      BY <1>13, <2>2, <3>1, <3>2 DEF DoorOpens
  <2> QED
    BY <2>1, <2>2
<1>14. CASE DoorTimeout
  BY <1>14, AvailableStays DEF DoorTimeout
<1>15. ASSUME NEW t \in Tasks, Select(t) PROVE RightsInv'
  BY <1>15, AvailableStays DEF Select
<1>16. CASE Enter
  <2>1. CASE UNCHANGED <<mode, entered, solenoid>> /\ (pc' = "closing" \/ (pc' = "door" /\ mode = 1))
    BY <1>16, <2>1, AvailableStays DEF Enter
  <2>2. ~ disturbed => OwnTask /\ ToTake /\ (mode = 0 => FALSE)
    BY <1>16 DEF Enter
  <2>3. ASSUME NEW m \in 0 .. 2, Proceeds(m), pc' = "second", mode' = m, entered' = entered
        PROVE  RightsInv'
    BY <1>16, <2>2, <2>3, AvailableStays DEF Enter, Proceeds
  <2>4. ASSUME NEW m \in 0 .. 2, Proceeds(m), ~ TwoUsers, Setup(m, task_t, user_t)
        PROVE  RightsInv'
    <3>1. ~ disturbed => OwnTask /\ (m = 2 => Available(task_t) # {})
      BY <2>2, <2>4 DEF Proceeds
    <3>2. ~ disturbed => Approvers[task_t] = {}
      BY <1>16, <2>2, <2>4 DEF Enter, TwoUsers
    <3> QED
      BY <1>16, <2>4, <3>1, <3>2, SetupRights DEF Enter
  <2> QED
    BY <1>16, <2>1, <2>3, <2>4, EnterDoes
<1>17. CASE Second
  BY <1>17, SetupRights DEF Second
<1>18. CASE SecondGivenUp
  BY <1>18, AvailableStays DEF SecondGivenUp
<1>19. CASE Look
  BY <1>19, AvailableStays DEF Look
<1>20. ASSUME NEW k \in Keys, FoundWrong(k) PROVE RightsInv'
  BY <1>20, AvailableStays DEF FoundWrong
<1>21. CASE WrongEnds
  BY <1>21, AvailableStays DEF WrongEnds
<1>22. ASSUME NEW k \in Keys, FoundReturned(k) PROVE RightsInv'
  BY <1>22, AvailableStays DEF FoundReturned
<1>23. CASE Returned
  BY <1>23, AvailableGrows DEF Returned
<1>24. ASSUME NEW k \in Keys, Choose(k) PROVE RightsInv'
  BY <1>24, AvailableStays, SetsType, OwnKeyset DEF Choose
<1>25. CASE FoundTaken
  BY <1>25, AvailableStays DEF FoundTaken
<1>26. CASE Taken
  BY <1>26, AvailableStays DEF Taken
<1>27. CASE Leave
  BY <1>27, AvailableStays DEF Leave
<1>28. CASE Closing
  BY <1>28, AvailableStays DEF Closing
<1>29. CASE UNCHANGED vars
  BY <1>29, AvailableStays DEF vars
<1> QED
  BY <1>1, <1>2, <1>3, <1>4, <1>5, <1>6, <1>7, <1>8, <1>9, <1>10, <1>11, <1>12, <1>13, <1>14, <1>15, <1>16, <1>17, <1>18, <1>19, <1>20, <1>21, <1>22, <1>23, <1>24, <1>25, <1>26, <1>27, <1>28, <1>29
     DEF Next, KeyCheck, Progress

-----------------------------------------------------------------------------
LEMMA InitInv == Init => IInv
<1> SUFFICES ASSUME Init PROVE IInv
  OBVIOUS
<1>1. approved \in BOOLEAN /\ disturbed \in BOOLEAN /\ single \in BOOLEAN
      /\ chkey \in BOOLEAN /\ door \in BOOLEAN
  BY Zenon DEF Init
<1>2. TypeOK
  BY <1>1, ConstantsType DEF Init, TypeOK
<1> QED
  BY <1>2 DEF Init, IInv, CurInv, LockInv, RightsInv, Within, Session

LEMMA Invariant == Spec => []IInv
<1>1. IInv /\ [Next]_vars => IInv'
  BY TypeStep, CurStep, LockStep, RightsStep DEF IInv
<1> QED
  BY <1>1, InitInv, PTL DEF Spec

(* The state keeps its type.                                               *)
THEOREM TypeCorrect == Spec => []TypeOK
<1>1. IInv => TypeOK
  BY DEF IInv
<1> QED
  BY <1>1, Invariant, PTL

(* On every way out of a session the slots are locked, and in it no other  *)
(* is released than the one asked for and the one with a wrong fob.        *)
THEOREM LockCorrect == Spec => []LockedAfterSession
<1>1. IInv => LockedAfterSession
  BY ConstantsType DEF IInv, LockInv, Within, LockedAfterSession, Checking
<1> QED
  BY <1>1, Invariant, PTL

(* A session that no server command disturbs releases only fobs of its     *)
(* user's tasks, and those of two users with the second one's login.       *)
THEOREM RightsCorrect == Spec => []RightsRespected
<1>1. IInv => RightsRespected
  <2> SUFFICES ASSUME IInv, entered # None, ~ disturbed PROVE HasRight(code, entered)
    BY DEF RightsRespected
  <2>1. Within("keys")
    BY DEF IInv, LockInv
  <2>2. code \in Users /\ OwnTask /\ Granted /\ entered \in KeysOf[task_t]
    BY <2>1 DEF IInv, CurInv, RightsInv, Within, Session
  <2> QED
    BY <2>2 DEF OwnTask, Granted, HasRight
<1> QED
  BY <1>1, Invariant, PTL

(* What such a session logs names the user who has logged in.              *)
THEOREM LoggedCorrect == Spec => LoggedForUser
<1> DEFINE Named == \A k \in Keys :
      status'[k] # status[k] /\ pc \in Session /\ ~ disturbed => holder'[k] = code
<1>1. IInv /\ [Next]_vars => [Named]_vars
  <2> SUFFICES ASSUME IInv, Next PROVE Named
    OBVIOUS
  <2> USE DEF IInv, TypeOK, CurInv, RightsInv, Session
  <2>1. CASE Returned
    BY <2>1 DEF Returned
  <2>2. CASE Taken
    BY <2>2 DEF Taken
  <2>3. CASE CheckRemoved \/ CheckReturned
    BY <2>3 DEF CheckRemoved, CheckReturned
  <2>4. ASSUME ~ (Returned \/ Taken \/ CheckRemoved \/ CheckReturned) PROVE status' = status
    BY <2>4 DEF Next, KeyCheck, Progress, Pull, Put, CloseDoor, Server, CheckStart, CheckKey,
         CheckEnd, Identify, Pin, Menu, DoorOpens, DoorTimeout, Select, Enter, Second,
         SecondGivenUp, Look, FoundWrong, WrongEnds, FoundReturned, Choose, FoundTaken,
         Leave, Closing, log
  <2> QED
    BY <2>1, <2>2, <2>3, <2>4
<1> QED
  BY <1>1, Invariant, PTL DEF Spec, LoggedForUser
=============================================================================
