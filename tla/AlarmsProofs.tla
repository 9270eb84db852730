----------------------------- MODULE AlarmsProofs -----------------------------
(***************************************************************************)
(* For any number of keys and any time limits: an overdue alarm is only    *)
(* dropped when every key that is overdue was raised behind the main       *)
(* loop's back, or by a reset, and the event of a removal is logged once,  *)
(* also over resets, but for the keys whose flag a reset has kept from the *)
(* flash or left erased there after the event.                             *)
(*                                                                         *)
(* The word is changed in two steps and the scan goes over several calls,  *)
(* so what the store of the word may rely on is carried from the load and  *)
(* from the start of the scan: DropInv.                                    *)
(***************************************************************************)
EXTENDS Alarms, TLAPS

(* Where the main loop is when it neither scans, nor stores, nor moves a   *)
(* key.  The store goes where a load has said.                             *)
Walking == Locations \ {"scan", "flag", "mark", "tail", "pass_end", "take", "return", "store"}
Nexts == Walking \union {"pass_end"}
StoreInv == upd.next \in Nexts

(* Where the scan of the keys stands and how many it has found.            *)
Scanning == pc \in {"scan", "flag", "mark"}
Ending == pc \in {"tail", "pass_end"} \/ (pc = "store" /\ upd.next = "pass_end")
ScanInv ==
  /\ pc \in {"flag", "mark"} => j < MAX_KEYS /\ 0 < uccount /\ uccount <= j + 1
  /\ ~ pc \in {"flag", "mark"} /\ j # 0 => uccount <= j
  /\ pc = "scan" /\ j = 0 => uccount = 0
  /\ ~ Scanning /\ ~ Ending /\ j # 0 => 0 < uccount
  /\ pc = "tail" /\ uccount = 0 => j = MAX_KEYS

(* Every overdue key below n is one the interrupt has raised meanwhile.    *)
MetBelow(n) == \A k \in Keys : k < n /\ KeyTask_TimeLimit[k] = Raised => k \in fresh
DropInv ==
  /\ "TASK_OVERDUE" \notin ULALARMS => MetBelow(MAX_KEYS)
  /\ pc = "store" /\ ("TASK_OVERDUE" \notin reg \/ "TASK_OVERDUE" \in upd.clear)
       => MetBelow(MAX_KEYS)
  /\ pc \in {"scan", "tail"} /\ uccount = 0 => MetBelow(j)

(* The event of a removal has been logged and its flag is not set, or      *)
(* about to be cleared.                                                    *)
OnceInv ==
  /\ \A k \in Keys \ torn :
       logged[k] = 0 \/ (logged[k] = 1 /\ (~ flag[k] \/ (pc = "flag" /\ j = k)))
  /\ pc = "take" => logged[cur.key] = 0

IInv == TypeOK /\ StoreInv /\ ScanInv /\ DropInv /\ OnceInv

-----------------------------------------------------------------------------
LEMMA ConstantsType ==
  /\ MAX_KEYS \in Nat \ {0} /\ TimeLimits \subseteq Nat /\ MAX_RESETS \in Nat
  /\ Sensors \union AtStart \subseteq {"ac", "battery", "service", "door"}
BY KeysAssumption, LimitsAssumption, SensorsAssumption, SwitchesAssumption

(* A second brings a deadline nearer, and never to the mark of a raised    *)
(* one.                                                                    *)
LEMMA SoonerType ==
  /\ \A d \in Deadline : Sooner(d) \in Deadline /\ Sooner(d) # Raised /\ d # Raised
  /\ Sooner(Raised) = Raised
  /\ NoLimit \in Deadline /\ \A n \in TimeLimits : n \in Deadline
BY ConstantsType DEF Sooner, Deadline, NoLimit, Raised

(* The time limit of the task in a taking is a deadline.                   *)
LEMMA LimitType == ASSUME TypeOK, cur.limit > 0 PROVE cur.limit \in Deadline
<1>1. cur.limit \in TimeLimits
  BY DEF TypeOK
<1> QED
  BY <1>1, SoonerType

(* Most of what the main loop does is to go on, at once or by loading the  *)
(* word for a change of another bit than the overdue alarm's.              *)
Walk ==
  /\ pc \in Walking
  /\ \/ pc' \in Walking /\ UNCHANGED <<reg, upd, fresh>>
     \/ \E clear \in SUBSET (Bits \ {"TASK_OVERDUE"}), set \in SUBSET Bits, next \in Walking :
          Load(clear, set, next)
  /\ ret' \in {"idle", "session"} /\ once' \in BOOLEAN \X BOOLEAN \X BOOLEAN \X BOOLEAN
  /\ UNCHANGED <<outside, keyVars, cur, scanVars>>
WalkSteps ==
  \/ EnterHandler \/ StartSession \/ OpenDoor \/ GiveUp \/ NoTask
  \/ SessionAlarm \/ EndSession \/ CloseDoor \/ CloseTimeout \/ EndUser
  \/ ServiceCheck \/ ServiceLoop \/ ServiceClosed \/ ServiceFlag
  \/ DoorCheck \/ DoorLoop \/ DoorClosed \/ DoorEnd \/ DoorFlag
  \/ DropBit("door_dot", "DOOR_OPEN_TIMEOUT", "door_mech")
  \/ DropBit("door_mech", "MECH_OVERRIDE", "door_flag")
  \/ PowerCheck \/ PowerEnd

LEMMA WalkStepsWalk == TypeOK /\ WalkSteps => Walk
<1> SUFFICES ASSUME TypeOK, WalkSteps PROVE Walk
  OBVIOUS
<1>1. once \in BOOLEAN \X BOOLEAN \X BOOLEAN \X BOOLEAN /\ ret \in {"idle", "session"}
  BY DEF TypeOK
<1> USE DEF Walk, Walking, Locations, Bits, keyVars, scanVars, rmwVars, outside
<1>2. CASE EnterHandler
  BY <1>2, <1>1 DEF EnterHandler, Goto
<1>3. CASE StartSession
  BY <1>3, <1>1 DEF StartSession, Goto
<1>4. CASE OpenDoor
  BY <1>4, <1>1 DEF OpenDoor, Goto
<1>5. CASE GiveUp
  BY <1>5, <1>1 DEF GiveUp, Goto
<1>6. CASE NoTask
  BY <1>6, <1>1 DEF NoTask, Goto
<1>7. CASE SessionAlarm
  BY <1>7, <1>1 DEF SessionAlarm, Goto
<1>8. CASE EndSession
  BY <1>8, <1>1 DEF EndSession, Goto
<1>9. CASE CloseDoor
  BY <1>9, <1>1 DEF CloseDoor, Goto
<1>10. CASE CloseTimeout
  BY <1>10, <1>1 DEF CloseTimeout, Load
<1>11. CASE EndUser
  BY <1>11, <1>1 DEF EndUser, Load
<1>12. CASE ServiceCheck
  BY <1>12, <1>1 DEF ServiceCheck, Goto, Load
<1>13. CASE ServiceLoop
  <2>1. ucservice_door' \in BOOLEAN
    BY <1>13, <1>1, Zenon DEF ServiceLoop
  <2>2. once' \in BOOLEAN \X BOOLEAN \X BOOLEAN \X BOOLEAN
    BY <1>13, <1>1, <2>1 DEF ServiceLoop, once
  <2> QED
    BY <1>13, <1>1, <2>2 DEF ServiceLoop
<1>14. CASE ServiceClosed
  BY <1>14, <1>1 DEF ServiceClosed, Load
<1>15. CASE ServiceFlag
  <2>1. ucservice_door' \in BOOLEAN
    BY <1>15, <1>1, Zenon DEF ServiceFlag
  <2>2. once' \in BOOLEAN \X BOOLEAN \X BOOLEAN \X BOOLEAN
    BY <1>15, <1>1, <2>1 DEF ServiceFlag, once
  <2> QED
    BY <1>15, <1>1, <2>2 DEF ServiceFlag, Load
<1>16. CASE DoorCheck
  BY <1>16, <1>1 DEF DoorCheck, Goto
<1>17. CASE DoorLoop
  <2>1. ucmech_override' \in BOOLEAN
    BY <1>17, <1>1, Zenon DEF DoorLoop
  <2>2. once' \in BOOLEAN \X BOOLEAN \X BOOLEAN \X BOOLEAN
    BY <1>17, <1>1, <2>1 DEF DoorLoop, once
  <2> QED
    BY <1>17, <1>1, <2>2 DEF DoorLoop
<1>18. CASE DoorClosed
  BY <1>18, <1>1 DEF DoorClosed, Load
<1>19. CASE DoorEnd
  BY <1>19, <1>1 DEF DoorEnd, Load
<1>20. CASE DoorFlag
  <2>1. ucmech_override' \in BOOLEAN
    BY <1>20, <1>1, Zenon DEF DoorFlag
  <2>2. once' \in BOOLEAN \X BOOLEAN \X BOOLEAN \X BOOLEAN
    BY <1>20, <1>1, <2>1 DEF DoorFlag, once
  <2> QED
    BY <1>20, <1>1, <2>2 DEF DoorFlag, Goto
<1>21. CASE DropBit("door_dot", "DOOR_OPEN_TIMEOUT", "door_mech")
  BY <1>21, <1>1 DEF DropBit, Goto, Load
<1>22. CASE DropBit("door_mech", "MECH_OVERRIDE", "door_flag")
  BY <1>22, <1>1 DEF DropBit, Goto, Load
<1>23. CASE PowerCheck
  <2>1. ucmainsoff' \in BOOLEAN /\ ucbatlow' \in BOOLEAN
    BY <1>23, <1>1, Zenon DEF PowerCheck
  <2>2. once' \in BOOLEAN \X BOOLEAN \X BOOLEAN \X BOOLEAN
    BY <1>23, <1>1, <2>1 DEF PowerCheck, once
  <2> QED
    BY <1>23, <1>1, <2>2 DEF PowerCheck, Goto
<1>24. CASE PowerEnd
  <2>1. ucmainsoff' \in BOOLEAN /\ ucbatlow' \in BOOLEAN
    BY <1>24, <1>1, Zenon DEF PowerEnd
  <2>2. once' \in BOOLEAN \X BOOLEAN \X BOOLEAN \X BOOLEAN
    BY <1>24, <1>1, <2>1 DEF PowerEnd, once
  <2> QED
    BY <1>24, <1>1, <2>2 DEF PowerEnd, Goto
<1> QED
  BY <1>2, <1>3, <1>4, <1>5, <1>6, <1>7, <1>8, <1>9, <1>10, <1>11, <1>12, <1>13, <1>14, <1>15, <1>16, <1>17, <1>18, <1>19, <1>20, <1>21, <1>22, <1>23, <1>24 DEF WalkSteps

(* What every step of the system is.                                       *)
LEMMA NextSteps ==
  ASSUME TypeOK, [Next]_vars
  PROVE  \/ Walk \/ (\E s \in Sensors \union AtStart : Sense(s)) \/ TICKER_Handler \/ StoreAlarms
         \/ (\E k \in Keys : KeyCheck(k) \/ ReturnKey(k))
         \/ (\E k \in Keys, limit \in TimeLimits : TakeKey(k, limit))
         \/ TakeLimit \/ ReturnLimit
         \/ OverdueCheck \/ ScanStep \/ ScanFound \/ ClearFlag \/ Mark \/ ScanEnd
         \/ Tail \/ PassEnd \/ Reset \/ (\E n \in Keys : ResetInWrite(n) \/ ResetInOther(n))
         \/ UNCHANGED vars
<1>1. WalkSteps => Walk
  BY WalkStepsWalk
<1> QED
  BY <1>1 DEF Next, Session, alarm_handler, WalkSteps

-----------------------------------------------------------------------------

LEMMA StoreStep == TypeOK /\ StoreInv /\ ScanInv /\ [Next]_vars => StoreInv'
<1> SUFFICES ASSUME TypeOK, StoreInv, ScanInv, [Next]_vars PROVE StoreInv'
  OBVIOUS
<1> USE DEF TypeOK, StoreInv, Nexts, Walking, Locations, Nothing, keyVars, rmwVars, ghosts
<1>1. CASE Walk
  BY <1>1 DEF Walk, Load, Begin
<1>2. ASSUME NEW s \in Sensors \union AtStart, Sense(s) PROVE StoreInv'
  BY <1>2 DEF Sense
<1>3. CASE TICKER_Handler
  BY <1>3 DEF TICKER_Handler
<1>4. CASE StoreAlarms
  BY <1>4 DEF StoreAlarms
<1>5. ASSUME NEW k \in Keys, KeyCheck(k) PROVE StoreInv'
  BY <1>5 DEF KeyCheck
<1>6. ASSUME NEW k \in Keys, NEW limit \in TimeLimits, TakeKey(k, limit) PROVE StoreInv'
  BY <1>6 DEF TakeKey, Goto
<1>7. ASSUME NEW k \in Keys, ReturnKey(k) PROVE StoreInv'
  BY <1>7 DEF ReturnKey, Goto
<1>8. CASE TakeLimit
  BY <1>8 DEF TakeLimit, Goto
<1>9. CASE ReturnLimit
  BY <1>9 DEF ReturnLimit, Goto
<1>10. CASE OverdueCheck
  BY <1>10 DEF OverdueCheck, Goto
<1>11. CASE ScanStep
  BY <1>11 DEF ScanStep
<1>12. CASE ScanFound
  BY <1>12 DEF ScanFound, Goto
<1>13. CASE ClearFlag
  BY <1>13 DEF ClearFlag, Goto
<1>14. CASE Mark
  BY <1>14 DEF Mark, Goto
<1>15. CASE ScanEnd
  BY <1>15 DEF ScanEnd, Goto
<1>16. CASE Tail
  BY <1>16 DEF Tail, Goto, Begin
<1>17. CASE PassEnd
  BY <1>17 DEF PassEnd, Goto
<1>18. CASE Reset
  BY <1>18 DEF Reset, Boot
<1>20. ASSUME NEW n \in Keys, ResetInWrite(n) PROVE StoreInv'
  BY <1>20 DEF ResetInWrite, Boot
<1>21. ASSUME NEW n \in Keys, ResetInOther(n) PROVE StoreInv'
  BY <1>21 DEF ResetInOther, Boot
<1>19. CASE UNCHANGED vars
  BY <1>19 DEF vars
<1> QED
  BY NextSteps, <1>1, <1>2, <1>3, <1>4, <1>5, <1>6, <1>7, <1>8, <1>9, <1>10, <1>11, <1>12, <1>13, <1>14, <1>15, <1>16, <1>17, <1>18, <1>19, <1>20, <1>21

(* The scan counts what it finds, and starts afresh at the first key.      *)
LEMMA ScanInvStep == TypeOK /\ StoreInv /\ ScanInv /\ [Next]_vars => ScanInv'
<1> SUFFICES ASSUME TypeOK, StoreInv, ScanInv, [Next]_vars PROVE ScanInv'
  OBVIOUS
<1> USE ConstantsType DEF TypeOK, ScanInv, StoreInv, Nexts, Scanning, Ending, Walking, Locations,
        keyVars, rmwVars, scanVars, ghosts
<1>1. CASE Walk
  BY <1>1 DEF Walk, Load, Begin
<1>2. ASSUME NEW s \in Sensors \union AtStart, Sense(s) PROVE ScanInv'
  BY <1>2 DEF Sense
<1>3. CASE TICKER_Handler
  BY <1>3 DEF TICKER_Handler
<1>4. CASE StoreAlarms
  BY <1>4 DEF StoreAlarms
<1>5. ASSUME NEW k \in Keys, KeyCheck(k) PROVE ScanInv'
  BY <1>5 DEF KeyCheck
<1>6. ASSUME NEW k \in Keys, NEW limit \in TimeLimits, TakeKey(k, limit) PROVE ScanInv'
  BY <1>6 DEF TakeKey, Goto
<1>7. ASSUME NEW k \in Keys, ReturnKey(k) PROVE ScanInv'
  BY <1>7 DEF ReturnKey, Goto
<1>8. CASE TakeLimit
  BY <1>8 DEF TakeLimit, Goto
<1>9. CASE ReturnLimit
  BY <1>9 DEF ReturnLimit, Goto
<1>10. CASE OverdueCheck
  BY <1>10 DEF OverdueCheck, Goto
<1>11. CASE ScanStep
  BY <1>11 DEF ScanStep
<1>12. CASE ScanFound
  BY <1>12 DEF ScanFound, Goto
<1>13. CASE ClearFlag
  BY <1>13 DEF ClearFlag, Goto
<1>14. CASE Mark
  BY <1>14 DEF Mark, Goto
<1>15. CASE ScanEnd
  BY <1>15 DEF ScanEnd, Goto
<1>16. CASE Tail
  BY <1>16 DEF Tail, Goto, Begin
<1>17. CASE PassEnd
  BY <1>17 DEF PassEnd, Goto
<1>18. CASE Reset
  BY <1>18 DEF Reset, Boot
<1>20. ASSUME NEW n \in Keys, ResetInWrite(n) PROVE ScanInv'
  BY <1>20 DEF ResetInWrite, Boot
<1>21. ASSUME NEW n \in Keys, ResetInOther(n) PROVE ScanInv'
  BY <1>21 DEF ResetInOther, Boot
<1>19. CASE UNCHANGED vars
  BY <1>19 DEF vars
<1> QED
  BY NextSteps, <1>1, <1>2, <1>3, <1>4, <1>5, <1>6, <1>7, <1>8, <1>9, <1>10, <1>11, <1>12, <1>13, <1>14, <1>15, <1>16, <1>17, <1>18, <1>19, <1>20, <1>21

(* What a reset starts with, and what a cut write of the key records has   *)
(* left in flash.                                                          *)
LEMMA BootType ==
  ASSUME TypeOK, Boot, out' \in [Keys -> BOOLEAN], flag' \in [Keys -> BOOLEAN],
         removal' \in [Keys -> Deadline \union {Raised}], torn' \subseteq Keys
  PROVE  TypeOK'
<1> USE ConstantsType DEF TypeOK, Boot
<1>1. KeyTask_TimeLimit' \in [Keys -> Deadline \union {Raised}]
  BY SoonerType
<1>2. once' \in BOOLEAN \X BOOLEAN \X BOOLEAN \X BOOLEAN
  BY DEF once
<1>3. upd' \in Update /\ pc' \in Locations /\ ret' \in {"idle", "session"}
  BY DEF Nothing, Update, Locations
<1>4. cur' \in [key : Keys, limit : TimeLimits \union {0}] /\ keycount' \in Keys
  BY DEF NoKey, Keys
<1>5. fresh' \subseteq Keys /\ uik1' \subseteq Keys /\ ULALARMS' \subseteq Bits /\ reg' \subseteq Bits
  OBVIOUS
<1>6. resets' \in 0 .. MAX_RESETS /\ j' \in 0 .. MAX_KEYS /\ uccount' \in 0 .. MAX_KEYS
  OBVIOUS
<1> QED
  BY <1>1, <1>2, <1>3, <1>4, <1>5, <1>6

LEMMA RewrittenType ==
  ASSUME NEW n \in Keys, NEW flags \in [Keys -> BOOLEAN],
         NEW limits \in [Keys -> Deadline \union {Raised}], Rewritten(n, flags, limits)
  PROVE  removal' \in [Keys -> Deadline \union {Raised}] /\ flag' \in [Keys -> BOOLEAN]
<1>1. \A k \in Keys : (k >= n \/ flags[k]) \in BOOLEAN
  BY Zenon
<1> QED
  BY <1>1 DEF Rewritten

LEMMA CutWriteType ==
  ASSUME TypeOK, NEW n \in Keys, ResetInWrite(n)
  PROVE  removal' \in [Keys -> Deadline \union {Raised}] /\ flag' \in [Keys -> BOOLEAN]
<1> USE DEF TypeOK
<1>0. /\ \A k \in Keys, b \in BOOLEAN : [flag EXCEPT ![k] = b] \in [Keys -> BOOLEAN]
      /\ \A k \in Keys, d \in Deadline : [removal EXCEPT ![k] = d] \in [Keys -> Deadline \union {Raised}]
      /\ [flag EXCEPT ![j] = FALSE] \in [Keys -> BOOLEAN] /\ cur.key \in Keys
  OBVIOUS
<1>1. CASE Rewritten(n, [flag EXCEPT ![j] = FALSE], removal)
  BY <1>0, <1>1, RewrittenType
<1>2. CASE /\ cur.limit > 0
           /\ Rewritten(n, [flag EXCEPT ![cur.key] = TRUE], [removal EXCEPT ![cur.key] = cur.limit])
  BY <1>0, <1>2, LimitType, RewrittenType
<1>3. CASE Rewritten(n, [flag EXCEPT ![cur.key] = FALSE], [removal EXCEPT ![cur.key] = NoLimit])
  BY <1>0, <1>3, SoonerType, RewrittenType
<1> QED
  BY <1>1, <1>2, <1>3 DEF ResetInWrite

(* Types.                                                                  *)
LEMMA TypeStep == TypeOK /\ StoreInv /\ ScanInv /\ [Next]_vars => TypeOK'
<1> SUFFICES ASSUME TypeOK, StoreInv, ScanInv, [Next]_vars PROVE TypeOK'
  OBVIOUS
<1> USE ConstantsType DEF TypeOK, keyVars, rmwVars, scanVars, ghosts, outside
<1>1. CASE Walk
  <2>1. reg' \subseteq Bits /\ upd' \in Update /\ pc' \in Locations /\ fresh' \subseteq Keys
    BY <1>1 DEF Walk, Walking, Load, Begin, Update, Locations
  <2> QED
    BY <1>1, <2>1 DEF Walk
<1>2. ASSUME NEW s \in Sensors \union AtStart, Sense(s) PROVE TypeOK'
  BY <1>2 DEF Sense
<1>3. CASE TICKER_Handler
  <2>1. KeyTask_TimeLimit' \in [Keys -> Deadline \union {Raised}] /\ removal' \in [Keys -> Deadline \union {Raised}]
    BY <1>3, SoonerType DEF TICKER_Handler, Deadlines
  <2>2. keycount' \in Keys /\ fresh' \subseteq Keys
    BY <1>3 DEF TICKER_Handler, Deadlines, Keys
  <2>3. ULALARMS' \subseteq Bits
    BY <1>3 DEF TICKER_Handler, Sampled, Bits
  <2> QED
    BY <1>3, <2>1, <2>2, <2>3 DEF TICKER_Handler
<1>4. CASE StoreAlarms
  <2>1. ULALARMS' \subseteq Bits /\ upd' \in Update /\ pc' \in Locations
    BY <1>4 DEF StoreAlarms, Update, Nothing, Locations
  <2> QED
    BY <1>4, <2>1 DEF StoreAlarms
<1>5. ASSUME NEW k \in Keys, KeyCheck(k) PROVE TypeOK'
  <2>1. out' \in [Keys -> BOOLEAN] /\ logged' \in [Keys -> 0 .. 2]
    BY <1>5 DEF KeyCheck
  <2> QED
    BY <1>5, <2>1 DEF KeyCheck
<1>6. ASSUME NEW k \in Keys, NEW limit \in TimeLimits, TakeKey(k, limit) PROVE TypeOK'
  BY <1>6 DEF TakeKey, Goto, Locations
<1>7. ASSUME NEW k \in Keys, ReturnKey(k) PROVE TypeOK'
  BY <1>7 DEF ReturnKey, Goto, Locations
<1>8. CASE TakeLimit
  <2>1. cur.key \in Keys /\ NoLimit \in Deadline /\ (cur.limit > 0 => cur.limit \in Deadline)
    BY SoonerType, LimitType
  <2>2. KeyTask_TimeLimit' \in [Keys -> Deadline \union {Raised}] /\ removal' \in [Keys -> Deadline \union {Raised}]
        /\ flag' \in [Keys -> BOOLEAN]
    <3>1. CASE cur.limit > 0
      BY <1>8, <2>1, <3>1 DEF TakeLimit
    <3>2. CASE ~ cur.limit > 0
      BY <1>8, <2>1, <3>2 DEF TakeLimit
    <3> QED
      BY <3>1, <3>2
  <2>3. cur' \in [key : Keys, limit : TimeLimits \union {0}]
    BY <1>8 DEF TakeLimit, NoKey, Keys
  <2> QED
    BY <1>8, <2>2, <2>3 DEF TakeLimit, Goto, Locations
<1>9. CASE ReturnLimit
  <2>1. KeyTask_TimeLimit' \in [Keys -> Deadline \union {Raised}] /\ removal' \in [Keys -> Deadline \union {Raised}]
    BY <1>9, SoonerType DEF ReturnLimit
  <2>2. flag' \in [Keys -> BOOLEAN]
    BY <1>9 DEF ReturnLimit
  <2>3. cur' \in [key : Keys, limit : TimeLimits \union {0}]
    BY <1>9 DEF ReturnLimit, NoKey, Keys
  <2> QED
    BY <1>9, <2>1, <2>2, <2>3 DEF ReturnLimit, Goto, Locations
<1>10. CASE OverdueCheck
  BY <1>10 DEF OverdueCheck, Goto, Locations
<1>11. CASE ScanStep
  BY <1>11 DEF ScanStep
<1>12. CASE ScanFound
  <2>1. logged' \in [Keys -> 0 .. 2]
    <3>1. j \in Keys
      BY <1>12 DEF ScanFound, Keys
    <3>2. (IF logged[j] = 2 THEN 2 ELSE logged[j] + 1) \in 0 .. 2
      BY <3>1
    <3> QED
      BY <1>12, <3>1, <3>2 DEF ScanFound, Goto
  <2>2. uccount' \in 0 .. MAX_KEYS
    BY <1>12 DEF ScanFound, ScanInv
  <2> QED
    BY <1>12, <2>1, <2>2 DEF ScanFound, Goto, Locations
<1>13. CASE ClearFlag
  BY <1>13 DEF ClearFlag, Goto, Locations
<1>14. CASE Mark
  <2>1. j \in Keys /\ j' \in 0 .. MAX_KEYS
    BY <1>14 DEF Mark, ScanInv, Keys
  <2> QED
    BY <1>14, <2>1 DEF Mark, Goto, Locations
<1>15. CASE ScanEnd
  BY <1>15 DEF ScanEnd, Goto, Locations
<1>16. CASE Tail
  <2>1. upd' \in Update /\ reg' \subseteq Bits /\ pc' \in Locations /\ fresh' \subseteq Keys
    <3>1. CASE Begin({"TASK_OVERDUE"}, {}, "pass_end") /\ UNCHANGED fresh
      BY <3>1 DEF Begin, Update, Bits, Locations
    <3>2. CASE Goto(ret)
      BY <3>2 DEF Goto, Locations
    <3> QED
      BY <1>16, <3>1, <3>2 DEF Tail
  <2>2. j' \in 0 .. MAX_KEYS
    BY <1>16 DEF Tail
  <2> QED
    BY <1>16, <2>1, <2>2 DEF Tail
<1>17. CASE PassEnd
  BY <1>17 DEF PassEnd, Goto, Locations
<1>18. CASE Reset
  <2>1. torn' \subseteq Keys /\ removal' = removal /\ flag' = flag /\ out' = out
    BY <1>18 DEF Reset, FlagDue, ScanInv, Keys
  <2> QED
    BY <1>18, <2>1, BootType DEF Reset
<1>20. ASSUME NEW n \in Keys, ResetInWrite(n) PROVE TypeOK'
  <2>1. removal' \in [Keys -> Deadline \union {Raised}] /\ flag' \in [Keys -> BOOLEAN]
    BY <1>20, CutWriteType
  <2>2. torn' \subseteq Keys /\ out' = out
    BY <1>20 DEF ResetInWrite, LoggedFrom
  <2> QED
    BY <1>20, <2>1, <2>2, BootType DEF ResetInWrite
<1>21. ASSUME NEW n \in Keys, ResetInOther(n) PROVE TypeOK'
  <2>1. removal' \in [Keys -> Deadline \union {Raised}] /\ flag' \in [Keys -> BOOLEAN]
    BY <1>21, RewrittenType DEF ResetInOther
  <2>2. FlagDue \subseteq Keys
    BY DEF FlagDue, ScanInv, Keys
  <2>3. torn' \subseteq Keys /\ out' = out
    BY <1>21, <2>2 DEF ResetInOther, LoggedFrom
  <2> QED
    BY <1>21, <2>1, <2>3, BootType DEF ResetInOther
<1>19. CASE UNCHANGED vars
  BY <1>19 DEF vars
<1> QED
  BY NextSteps, <1>1, <1>2, <1>3, <1>4, <1>5, <1>6, <1>7, <1>8, <1>9, <1>10, <1>11, <1>12, <1>13, <1>14, <1>15, <1>16, <1>17, <1>18, <1>19, <1>20, <1>21

(* A key whose alarm the main loop has not met is met again.               *)
LEMMA MetStays ==
  ASSUME KeyTask_TimeLimit' = KeyTask_TimeLimit \/ (\E k \in Keys, d \in Deadline :
           KeyTask_TimeLimit' = [KeyTask_TimeLimit EXCEPT ![k] = d]),
         KeyTask_TimeLimit \in [Keys -> Deadline \union {Raised}],
         fresh \subseteq fresh', NEW n, MetBelow(n)
  PROVE  \A k \in Keys : k < n /\ KeyTask_TimeLimit'[k] = Raised => k \in fresh'
BY SoonerType DEF MetBelow

(* A reset has set no bit, and nobody has met the alarms it brings back.   *)
LEMMA BootMet == ASSUME TypeOK, Boot PROVE DropInv'
BY DEF TypeOK, Boot, DropInv, MetBelow

(* What the store relies on stays true from the load and from the start of *)
(* the scan.                                                               *)
LEMMA DropStep == IInv /\ [Next]_vars => DropInv'
<1> SUFFICES ASSUME IInv, [Next]_vars PROVE DropInv'
  OBVIOUS
<1> USE ConstantsType DEF IInv, TypeOK, StoreInv, Nexts, ScanInv, Scanning, Ending, DropInv, Keys,
        keyVars, rmwVars, scanVars, ghosts, outside
<1>1. CASE Walk
  BY <1>1 DEF Walk, Walking, Load, Begin, MetBelow
<1>2. ASSUME NEW s \in Sensors \union AtStart, Sense(s) PROVE DropInv'
  BY <1>2 DEF Sense, MetBelow
<1>3. CASE TICKER_Handler
  <2>1. ASSUME NEW k \in Keys, KeyTask_TimeLimit'[k] = Raised
        PROVE  k \in fresh' \/ (KeyTask_TimeLimit[k] = Raised /\ fresh \subseteq fresh')
    <3>1. CASE k = keycount /\ Overdue(k)
      BY <1>3, <3>1 DEF TICKER_Handler, Deadlines
    <3>2. CASE ~ (k = keycount /\ Overdue(k))
      BY <1>3, <2>1, <3>2, SoonerType DEF TICKER_Handler, Deadlines
    <3> QED
      BY <3>1, <3>2
  <2>2. /\ "TASK_OVERDUE" \in ULALARMS => "TASK_OVERDUE" \in ULALARMS'
        /\ UNCHANGED <<pc, reg, upd, uccount, j>>
    BY <1>3 DEF TICKER_Handler, Sampled
  <2>3. fresh \subseteq fresh'
    BY <1>3 DEF TICKER_Handler, Deadlines
  <2> QED
    BY <2>1, <2>2, <2>3 DEF MetBelow
<1>4. CASE StoreAlarms
  BY <1>4 DEF StoreAlarms, Walking, MetBelow
<1>5. ASSUME NEW k \in Keys, KeyCheck(k) PROVE DropInv'
  BY <1>5 DEF KeyCheck, MetBelow
<1>6. ASSUME NEW k \in Keys, NEW limit \in TimeLimits, TakeKey(k, limit) PROVE DropInv'
  BY <1>6 DEF TakeKey, Goto, MetBelow
<1>7. ASSUME NEW k \in Keys, ReturnKey(k) PROVE DropInv'
  BY <1>7 DEF ReturnKey, Goto, MetBelow
<1>8. CASE TakeLimit
  <2>1. \E d \in Deadline : KeyTask_TimeLimit' = [KeyTask_TimeLimit EXCEPT ![cur.key] = d]
    <3>1. CASE cur.limit > 0
      BY <1>8, <3>1, LimitType DEF TakeLimit
    <3>2. CASE ~ cur.limit > 0
      BY <1>8, <3>2, SoonerType DEF TakeLimit
    <3> QED
      BY <3>1, <3>2
  <2> QED
    BY <1>8, <2>1, MetStays DEF TakeLimit, Goto, MetBelow
<1>9. CASE ReturnLimit
  <2>1. \E d \in Deadline : KeyTask_TimeLimit' = [KeyTask_TimeLimit EXCEPT ![cur.key] = d]
    BY <1>9, SoonerType DEF ReturnLimit
  <2> QED
    BY <1>9, <2>1, MetStays DEF ReturnLimit, Goto, MetBelow
<1>10. CASE OverdueCheck
  BY <1>10 DEF OverdueCheck, Goto, MetBelow
<1>11. CASE ScanStep
  BY <1>11 DEF ScanStep, MetBelow
<1>12. CASE ScanFound
  BY <1>12 DEF ScanFound, Goto, MetBelow
<1>13. CASE ClearFlag
  BY <1>13 DEF ClearFlag, Goto, MetBelow
<1>14. CASE Mark
  BY <1>14 DEF Mark, Goto, MetBelow
<1>15. CASE ScanEnd
  BY <1>15 DEF ScanEnd, Goto, MetBelow
<1>16. CASE Tail
  BY <1>16 DEF Tail, Goto, Begin, MetBelow
<1>17. CASE PassEnd
  BY <1>17 DEF PassEnd, Goto, MetBelow
<1>18. CASE Reset
  BY <1>18, BootMet DEF Reset
<1>20. ASSUME NEW n \in Keys, ResetInWrite(n) PROVE DropInv'
  BY <1>20, BootMet DEF ResetInWrite
<1>21. ASSUME NEW n \in Keys, ResetInOther(n) PROVE DropInv'
  BY <1>21, BootMet DEF ResetInOther
<1>19. CASE UNCHANGED vars
  BY <1>19 DEF vars, MetBelow
<1> QED
  BY NextSteps, <1>1, <1>2, <1>3, <1>4, <1>5, <1>6, <1>7, <1>8, <1>9, <1>10, <1>11, <1>12, <1>13, <1>14, <1>15, <1>16, <1>17, <1>18, <1>19, <1>20, <1>21

(* The records that a cut write has written again have no flag after the   *)
(* event.                                                                  *)
LEMMA WrittenFlags ==
  ASSUME IInv, NEW n \in Keys, ResetInWrite(n), NEW k \in Keys \ torn, k < n, logged[k] # 0
  PROVE  logged[k] = 1 /\ ~ flag'[k]
<1> USE DEF IInv, TypeOK, OnceInv
<1>1. /\ logged[k] = 1 /\ (~ flag[k] \/ (pc = "flag" /\ j = k)) /\ ~ (k >= n)
      /\ pc = "take" => k # cur.key
  BY DEF Keys
<1>2. CASE pc = "flag" /\ Rewritten(n, [flag EXCEPT ![j] = FALSE], removal)
  BY <1>1, <1>2 DEF Rewritten
<1>3. CASE pc = "take" /\ cur.limit > 0
           /\ Rewritten(n, [flag EXCEPT ![cur.key] = TRUE], [removal EXCEPT ![cur.key] = cur.limit])
  BY <1>1, <1>3 DEF Rewritten
<1>4. CASE pc = "return" /\ removal[cur.key] # NoLimit
           /\ Rewritten(n, [flag EXCEPT ![cur.key] = FALSE], [removal EXCEPT ![cur.key] = NoLimit])
  BY <1>1, <1>4 DEF Rewritten
<1> QED
  BY <1>2, <1>3, <1>4 DEF ResetInWrite

(* One event of a removal.                                                 *)
LEMMA OnceStep == IInv /\ [Next]_vars => OnceInv'
<1> SUFFICES ASSUME IInv, [Next]_vars PROVE OnceInv'
  OBVIOUS
<1> USE ConstantsType DEF IInv, TypeOK, StoreInv, Nexts, OnceInv,
        keyVars, rmwVars, scanVars, ghosts, outside
<1>1. CASE Walk
  BY <1>1 DEF Walk, Walking, Load, Begin
<1>2. ASSUME NEW s \in Sensors \union AtStart, Sense(s) PROVE OnceInv'
  BY <1>2 DEF Sense
<1>3. CASE TICKER_Handler
  BY <1>3 DEF TICKER_Handler
<1>4. CASE StoreAlarms
  BY <1>4 DEF StoreAlarms, Walking
<1>5. ASSUME NEW k \in Keys, KeyCheck(k) PROVE OnceInv'
  BY <1>5 DEF KeyCheck
<1>6. ASSUME NEW k \in Keys, NEW limit \in TimeLimits, TakeKey(k, limit) PROVE OnceInv'
  BY <1>6 DEF TakeKey, Goto
<1>7. ASSUME NEW k \in Keys, ReturnKey(k) PROVE OnceInv'
  BY <1>7 DEF ReturnKey, Goto
<1>8. CASE TakeLimit
  BY <1>8 DEF TakeLimit, Goto
<1>9. CASE ReturnLimit
  BY <1>9 DEF ReturnLimit, Goto
<1>10. CASE OverdueCheck
  BY <1>10 DEF OverdueCheck, Goto
<1>11. CASE ScanStep
  BY <1>11 DEF ScanStep
<1>12. CASE ScanFound
  BY <1>12 DEF ScanFound, Goto
<1>13. CASE ClearFlag
  BY <1>13 DEF ClearFlag, Goto
<1>14. CASE Mark
  BY <1>14 DEF Mark, Goto
<1>15. CASE ScanEnd
  BY <1>15 DEF ScanEnd, Goto
<1>16. CASE Tail
  BY <1>16 DEF Tail, Goto, Begin
<1>17. CASE PassEnd
  BY <1>17 DEF PassEnd, Goto
<1>18. CASE Reset
  BY <1>18 DEF Reset, FlagDue, Boot
<1>20. ASSUME NEW n \in Keys, ResetInWrite(n) PROVE OnceInv'
  <2>1. ASSUME NEW k \in Keys \ torn' PROVE logged[k] = 0 \/ (logged[k] = 1 /\ ~ flag'[k])
    <3>1. k \notin torn /\ (logged[k] = 0 \/ k < n)
      BY <1>20 DEF ResetInWrite, LoggedFrom, Keys
    <3> QED
      BY <1>20, <3>1, WrittenFlags
  <2> QED
    BY <1>20, <2>1 DEF ResetInWrite, Boot
<1>21. ASSUME NEW n \in Keys, ResetInOther(n) PROVE OnceInv'
  <2>1. ASSUME NEW k \in Keys \ torn' PROVE logged[k] = 0 \/ (logged[k] = 1 /\ ~ flag'[k])
    <3>1. k \notin torn /\ (logged[k] = 0 \/ k < n) /\ ~ (pc = "flag" /\ j = k)
      BY <1>21 DEF ResetInOther, LoggedFrom, FlagDue, Keys
    <3>2. k < n => ~ (k >= n)
      BY DEF Keys
    <3>3. k < n => flag'[k] = flag[k]
      BY <1>21, <3>2 DEF ResetInOther, Rewritten
    <3> QED
      BY <3>1, <3>3
  <2> QED
    BY <1>21, <2>1 DEF ResetInOther, Boot
<1>19. CASE UNCHANGED vars
  BY <1>19 DEF vars
<1> QED
  BY NextSteps, <1>1, <1>2, <1>3, <1>4, <1>5, <1>6, <1>7, <1>8, <1>9, <1>10, <1>11, <1>12, <1>13, <1>14, <1>15, <1>16, <1>17, <1>18, <1>19, <1>20, <1>21

-----------------------------------------------------------------------------
LEMMA InitInv == Init => IInv
<1> SUFFICES ASSUME Init PROVE IInv
  OBVIOUS
<1> USE ConstantsType DEF Init
<1>1. /\ KeyTask_TimeLimit \in [Keys -> Deadline] /\ removal \in [Keys -> Deadline \union {Raised}]
      /\ flag \in [Keys -> BOOLEAN] /\ out \in [Keys -> BOOLEAN] /\ logged \in [Keys -> 0 .. 2]
  BY SoonerType
<1>2. once \in BOOLEAN \X BOOLEAN \X BOOLEAN \X BOOLEAN
  BY DEF once
<1>3. upd \in Update /\ pc \in Locations /\ upd.next = "idle"
  BY DEF Nothing, Update, Locations
<1>4. cur \in [key : Keys, limit : TimeLimits \union {0}] /\ keycount \in Keys
  BY DEF NoKey, Keys
<1>5. sensor \in [{"ac", "battery", "service", "door"} -> BOOLEAN]
  OBVIOUS
<1>6. TypeOK
  BY <1>1, <1>2, <1>3, <1>4, <1>5 DEF TypeOK
<1>7. StoreInv /\ ScanInv
  BY <1>3 DEF StoreInv, Nexts, Walking, Locations, ScanInv, Scanning, Ending
<1>8. DropInv /\ OnceInv
  BY <1>1, SoonerType DEF DropInv, OnceInv, MetBelow
<1> QED
  BY <1>6, <1>7, <1>8 DEF IInv

LEMMA Invariant == Spec => []IInv
<1>1. IInv /\ [Next]_vars => IInv'
  BY TypeStep, StoreStep, ScanInvStep, DropStep, OnceStep DEF IInv
<1> QED
  BY <1>1, InitInv, PTL DEF Spec

(* The state keeps its type: the scan stays within the table of keys.      *)
THEOREM TypeCorrect == Spec => []TypeOK
<1>1. IInv => TypeOK
  BY DEF IInv
<1> QED
  BY <1>1, Invariant, PTL

(* The event of an overdue key is logged once, however many resets fall,   *)
(* in the writes of the key records as well, but for the keys whose flag   *)
(* one of them has kept from the flash or left erased after the event.     *)
THEOREM OnceCorrect == Spec => []OverdueOnce
<1>1. IInv => OverdueOnce
  BY DEF IInv, OnceInv, OverdueOnce
<1> QED
  BY <1>1, Invariant, PTL

(* The overdue alarm is dropped only when the interrupt has raised every   *)
(* overdue key after the last scan, or load, could see it.                 *)
THEOREM DropCorrect == Spec => AlarmDropped
<1> DEFINE Dropped ==
      "TASK_OVERDUE" \in ULALARMS /\ "TASK_OVERDUE" \notin ULALARMS' /\ resets' = resets
<1> DEFINE Met == \A k \in Keys : KeyTask_TimeLimit[k] = Raised => k \in fresh
<1>1. IInv /\ [Next]_vars => [Dropped => Met]_vars
  <2> SUFFICES ASSUME IInv, Next, Dropped PROVE Met
    OBVIOUS
  <2>1. StoreAlarms
    <3>1. ~ TICKER_Handler
      BY DEF TICKER_Handler, Sampled
    <3>2. ~ Reset /\ \A n \in Keys : ~ ResetInWrite(n) /\ ~ ResetInOther(n)
      BY ConstantsType DEF Reset, ResetInWrite, ResetInOther, Boot, IInv, TypeOK
    <3>3. ULALARMS' # ULALARMS
      OBVIOUS
    <3> QED
      BY <3>1, <3>2, <3>3, NextSteps
         DEF IInv, Walk, Sense, KeyCheck, TakeKey, ReturnKey, TakeLimit, ReturnLimit, OverdueCheck,
             ScanStep, ScanFound, ClearFlag, Mark, ScanEnd, Tail, PassEnd, vars, outside
  <2>2. pc = "store" /\ ("TASK_OVERDUE" \notin reg \/ "TASK_OVERDUE" \in upd.clear)
    BY <2>1 DEF StoreAlarms
  <2>3. MetBelow(MAX_KEYS)
    BY <2>2 DEF IInv, DropInv
  <2> QED
    BY <2>3, ConstantsType DEF MetBelow, Keys
<1> QED
  BY <1>1, Invariant, PTL DEF Spec, AlarmDropped
=============================================================================
