---------------------------- MODULE HbClientProofs ----------------------------
(***************************************************************************)
(* For any number of sockets, retries, frames and pressed keys: every      *)
(* connection opens with a heartbeat of its own, commands are answered     *)
(* when nobody presses a key, and no socket is lost or kept.               *)
(*                                                                         *)
(* flag_init and event_first_flag, which three places write, say together  *)
(* whose frame is in the buffer: FlagsInv is what they say in each state.  *)
(***************************************************************************)
EXTENDS HbClient, TLAPS

Calling == state \in {"SEND", "RECEIVE"}

(* The socket is the client's own from CONNECT to CLOSE.  Polling again    *)
(* loses one only while the name of the server is looked up.               *)
SocketInv ==
  /\ state = "IDEAL" => ~ owned
  /\ ~ host => leaked = 0 /\ (state = "CONNECT" => ~ owned)

(* A frame is prepared in SEND only.  Between two calls there is none, and *)
(* in SEND the first one of a call is the heartbeat.                       *)
FlagsInv ==
  /\ event_first_flag => state = "SEND"
  /\ state \in {"IDEAL", "CONNECT"} => ~ flag_init
  /\ state = "CONNECT" => first = NoFrame /\ asked = None
  /\ state = "RECEIVE" => first # NoFrame
  /\ state = "SEND" /\ first = NoFrame =>
       /\ asked = None
       /\ IF event_first_flag THEN buffer = Frame("heartbeat") ELSE ~ flag_init
  /\ (event_first_flag \/ state = "RECEIVE") /\ ~ pressed => flag_init

(* The reply of a command waits in the buffer until it is sent.            *)
Answered == asked \in {"reply", "config"} /\ ~ pressed
ReplyInv ==
  /\ state = "SEND" /\ Answered => buffer = Frame("reply") /\ flag_init
  /\ CommandAnswered

IInv == TypeOK /\ SocketInv /\ OpensWithHeartbeat /\ FlagsInv /\ ReplyInv

-----------------------------------------------------------------------------
LEMMA ConstantsType ==
  /\ SOCKETS \in Nat \ {0} /\ OTHERS \in 0 .. SOCKETS /\ RETRIES \in Nat \ {0}
  /\ MAX_CMDS \in Nat /\ MAX_PRESSES \in Nat
BY SocketsAssumption, BoundsAssumption

(* The frames that are built are frames, and none of them is NoFrame.      *)
LEMMA FramesType ==
  /\ NoFrame \notin Frames
  /\ Frame("heartbeat") \in Frames /\ Frame("reply") \in Frames
  /\ \A f \in Frames : [f EXCEPT !.fresh = FALSE] \in Frames
                     /\ [f EXCEPT !.here = FALSE] \in Frames
  /\ \A h \in BOOLEAN : [kind |-> "junk", here |-> h, fresh |-> FALSE] \in Frames
BY DEF Frames, Frame, NoFrame, None

LEMMA TypeStep == TypeOK /\ [Next]_vars => TypeOK'
<1> SUFFICES ASSUME TypeOK, [Next]_vars PROVE TypeOK'
  OBVIOUS
<1> USE ConstantsType, FramesType
    DEF TypeOK, States, Commands, FreeSockets, flags, timers, lookup, sockets, history, bounds
<1>1. CASE Tick
  BY <1>1 DEF Tick
<1>2. CASE MainHold
  BY <1>2 DEF MainHold
<1>3. CASE Press
  <2>1. flag_init' \in BOOLEAN /\ pressed' \in BOOLEAN /\ due' \in BOOLEAN
    BY <1>3, Zenon DEF Press
  <2> QED
    BY <1>3, <2>1 DEF Press
<1>4. CASE OtherClients
  BY <1>4 DEF OtherClients
<1>5. CASE Resolver
  BY <1>5 DEF Resolver
<1>6. CASE ServerSends
  BY <1>6 DEF ServerSends
<1>7. CASE StateInit
  <2>1. hold' \in BOOLEAN /\ pressed' \in BOOLEAN
    BY <1>7, Zenon DEF StateInit
  <2>2. buffer' \in Frames /\ state' \in States
    BY <1>7 DEF StateInit
  <2>3. first' \in Frames \union {NoFrame} /\ last' \in Frames \union {NoFrame}
        /\ asked' \in Commands \union {None}
    BY <1>7 DEF StateInit
  <2> QED
    BY <1>7, <2>1, <2>2, <2>3 DEF StateInit
<1>8. CASE NoSocket
  <2>1. leaked' + others' = SOCKETS /\ leaked' \in 0 .. SOCKETS
    BY <1>8 DEF NoSocket
  <2>2. ~ owned' /\ owned' \in BOOLEAN
    BY <1>8, Zenon DEF NoSocket
  <2> QED
    BY <1>8, <2>1, <2>2 DEF NoSocket
<1>9. CASE LookupInProgress
  BY <1>9 DEF LookupInProgress, Opened
<1>10. CASE Connect
  BY <1>10 DEF Connect, Opened
<1>11. CASE Sent
  <2>1. flag_init' \in BOOLEAN /\ event_first_flag' \in BOOLEAN
    BY <1>11, Zenon DEF Sent, Prepare
  <2>2. Prepared \in Frames
    BY DEF Prepared
  <2>3. /\ buffer' \in Frames /\ state' \in States /\ inbox' \in Commands \union {None}
        /\ first' \in Frames \union {NoFrame} /\ last' \in Frames \union {NoFrame}
    BY <1>11, <2>2 DEF Sent
  <2> QED
    BY <1>11, <2>1, <2>3 DEF Sent
<1>12. CASE SendFails
  <2>1. flag_init' \in BOOLEAN /\ event_first_flag' \in BOOLEAN /\ due' \in BOOLEAN
    BY <1>12, Zenon DEF SendFails, Prepare
  <2> QED
    BY <1>12, <2>1 DEF SendFails, Prepared
<1>13. CASE SendLater
  BY <1>13 DEF SendLater, Prepare, Prepared
<1>14. CASE Answer
  BY <1>14 DEF Answer, Carry
<1>15. CASE Configure
  BY <1>15 DEF Configure, Carry
<1>16. CASE NoAnswer
  BY <1>16 DEF NoAnswer, Carry
<1>17. CASE Refuse
  BY <1>17 DEF Refuse, Carry
<1>18. CASE EndOfSession
  <2>1. due' \in BOOLEAN
    BY <1>18, Zenon DEF EndOfSession
  <2> QED
    BY <1>18, <2>1 DEF EndOfSession, Carry
<1>19. CASE ResetTarget
  <2>1. /\ flag_init' \in BOOLEAN /\ event_first_flag' \in BOOLEAN /\ due' \in BOOLEAN
        /\ paused' \in BOOLEAN /\ hold' \in BOOLEAN /\ pressed' \in BOOLEAN
        /\ owned' \in BOOLEAN /\ host' \in BOOLEAN
    BY <1>19, Zenon DEF ResetTarget, Restart
  <2>2. ~ owned' /\ leaked' = 0 /\ others' = 0 /\ fail_cnt' = 0
    BY <1>19, Zenon DEF ResetTarget, Restart
  <2>3. buffer' \in Frames
    BY <1>19 DEF ResetTarget, Restart
  <2>4. first' = NoFrame /\ last' = NoFrame /\ asked' = None /\ inbox' = None
        /\ dns' = "unknown" /\ state' = "IDEAL"
    BY <1>19 DEF ResetTarget, Restart
  <2> QED
    BY <1>19, <2>1, <2>2, <2>3, <2>4 DEF ResetTarget
<1>20. CASE ReceiveTimeout
  BY <1>20 DEF ReceiveTimeout
<1>21. CASE Close
  <2>1. flag_init' \in BOOLEAN /\ due' \in BOOLEAN /\ owned' \in BOOLEAN
    BY <1>21, Zenon DEF Close
  <2> QED
    BY <1>21, <2>1 DEF Close
<1>22. CASE UNCHANGED vars
  BY <1>22 DEF vars
<1> QED
  BY <1>1, <1>2, <1>3, <1>4, <1>5, <1>6, <1>7, <1>8, <1>9, <1>10, <1>11, <1>12, <1>13, <1>14, <1>15, <1>16, <1>17, <1>18, <1>19, <1>20, <1>21, <1>22
     DEF Next, Connecting, Sending, Receive

(* A poll of CONNECT ends it, but while a name is looked up.               *)
LEMMA SocketStep == TypeOK /\ SocketInv /\ [Next]_vars => SocketInv'
<1> SUFFICES ASSUME TypeOK, SocketInv, [Next]_vars PROVE SocketInv'
  OBVIOUS
<1> USE ConstantsType DEF TypeOK, SocketInv, flags, timers, lookup, sockets, history, bounds
<1>1. CASE Tick
  BY <1>1 DEF Tick
<1>2. CASE MainHold
  BY <1>2 DEF MainHold
<1>3. CASE Press
  BY <1>3 DEF Press
<1>4. CASE OtherClients
  BY <1>4 DEF OtherClients
<1>5. CASE Resolver
  BY <1>5 DEF Resolver
<1>6. CASE ServerSends
  BY <1>6 DEF ServerSends
<1>7. CASE StateInit
  BY <1>7 DEF StateInit
<1>8. CASE NoSocket
  BY <1>8 DEF NoSocket
<1>9. CASE LookupInProgress
  BY <1>9 DEF LookupInProgress, Opened
<1>10. CASE Connect
  BY <1>10 DEF Connect, Opened
<1>11. CASE Sent
  BY <1>11 DEF Sent, Prepare, Prepared
<1>12. CASE SendFails
  BY <1>12 DEF SendFails, Prepare, Prepared
<1>13. CASE SendLater
  BY <1>13 DEF SendLater, Prepare, Prepared
<1>14. CASE Answer
  BY <1>14 DEF Answer, Carry
<1>15. CASE Configure
  BY <1>15 DEF Configure, Carry
<1>16. CASE NoAnswer
  BY <1>16 DEF NoAnswer, Carry
<1>17. CASE Refuse
  BY <1>17 DEF Refuse, Carry
<1>18. CASE EndOfSession
  BY <1>18 DEF EndOfSession, Carry
<1>19. CASE ResetTarget
  BY <1>19 DEF ResetTarget, Restart
<1>20. CASE ReceiveTimeout
  BY <1>20 DEF ReceiveTimeout
<1>21. CASE Close
  BY <1>21 DEF Close
<1>22. CASE UNCHANGED vars
  BY <1>22 DEF vars
<1> QED
  BY <1>1, <1>2, <1>3, <1>4, <1>5, <1>6, <1>7, <1>8, <1>9, <1>10, <1>11, <1>12, <1>13, <1>14, <1>15, <1>16, <1>17, <1>18, <1>19, <1>20, <1>21, <1>22
     DEF Next, Connecting, Sending, Receive

(* The three writers of the two flags keep what they say.                  *)
LEMMA FlagsStep == TypeOK /\ FlagsInv /\ [Next]_vars => FlagsInv'
<1> SUFFICES ASSUME TypeOK, FlagsInv, [Next]_vars PROVE FlagsInv'
  OBVIOUS
<1> USE DEF TypeOK, FlagsInv, flags, timers, lookup, sockets, history, bounds
<1>1. CASE Tick
  BY <1>1 DEF Tick
<1>2. CASE MainHold
  BY <1>2 DEF MainHold
<1>3. CASE Press
  BY <1>3 DEF Press
<1>4. CASE OtherClients
  BY <1>4 DEF OtherClients
<1>5. CASE Resolver
  BY <1>5 DEF Resolver
<1>6. CASE ServerSends
  BY <1>6 DEF ServerSends
<1>7. CASE StateInit
  BY <1>7 DEF StateInit
<1>8. CASE NoSocket
  BY <1>8 DEF NoSocket
<1>9. CASE LookupInProgress
  BY <1>9 DEF LookupInProgress, Opened
<1>10. CASE Connect
  BY <1>10 DEF Connect, Opened
<1>11. CASE Sent
  BY <1>11, FramesType DEF Sent, Prepare, Prepared
<1>12. CASE SendFails
  BY <1>12 DEF SendFails, Prepare, Prepared
<1>13. CASE SendLater
  BY <1>13 DEF SendLater, Prepare, Prepared
<1>14. CASE Answer
  BY <1>14 DEF Answer, Carry
<1>15. CASE Configure
  BY <1>15 DEF Configure, Carry
<1>16. CASE NoAnswer
  BY <1>16 DEF NoAnswer, Carry
<1>17. CASE Refuse
  BY <1>17 DEF Refuse, Carry
<1>18. CASE EndOfSession
  BY <1>18 DEF EndOfSession, Carry
<1>19. CASE ResetTarget
  BY <1>19 DEF ResetTarget, Restart
<1>20. CASE ReceiveTimeout
  BY <1>20 DEF ReceiveTimeout
<1>21. CASE Close
  BY <1>21 DEF Close
<1>22. CASE UNCHANGED vars
  BY <1>22 DEF vars
<1> QED
  BY <1>1, <1>2, <1>3, <1>4, <1>5, <1>6, <1>7, <1>8, <1>9, <1>10, <1>11, <1>12, <1>13, <1>14, <1>15, <1>16, <1>17, <1>18, <1>19, <1>20, <1>21, <1>22
     DEF Next, Connecting, Sending, Receive

(* The frame sent first is the one the flags let be built.                 *)
LEMMA OpensStep == OpensWithHeartbeat /\ FlagsInv /\ [Next]_vars => OpensWithHeartbeat'
<1> SUFFICES ASSUME OpensWithHeartbeat, FlagsInv, [Next]_vars PROVE OpensWithHeartbeat'
  OBVIOUS
<1> USE DEF OpensWithHeartbeat, FlagsInv, history
<1>1. CASE Tick
  BY <1>1 DEF Tick
<1>2. CASE MainHold
  BY <1>2 DEF MainHold
<1>3. CASE Press
  BY <1>3 DEF Press
<1>4. CASE OtherClients
  BY <1>4 DEF OtherClients
<1>5. CASE Resolver
  BY <1>5 DEF Resolver
<1>6. CASE ServerSends
  BY <1>6 DEF ServerSends
<1>7. CASE StateInit
  BY <1>7 DEF StateInit
<1>8. CASE NoSocket
  BY <1>8 DEF NoSocket
<1>9. CASE LookupInProgress
  BY <1>9 DEF LookupInProgress, Opened
<1>10. CASE Connect
  BY <1>10 DEF Connect, Opened
<1>11. CASE Sent
  BY <1>11 DEF Sent, Prepare, Prepared
<1>12. CASE SendFails
  BY <1>12 DEF SendFails, Prepare, Prepared
<1>13. CASE SendLater
  BY <1>13 DEF SendLater, Prepare, Prepared
<1>14. CASE Answer
  BY <1>14 DEF Answer, Carry
<1>15. CASE Configure
  BY <1>15 DEF Configure, Carry
<1>16. CASE NoAnswer
  BY <1>16 DEF NoAnswer, Carry
<1>17. CASE Refuse
  BY <1>17 DEF Refuse, Carry
<1>18. CASE EndOfSession
  BY <1>18 DEF EndOfSession, Carry
<1>19. CASE ResetTarget
  BY <1>19 DEF ResetTarget, Restart
<1>20. CASE ReceiveTimeout
  BY <1>20 DEF ReceiveTimeout
<1>21. CASE Close
  BY <1>21 DEF Close
<1>22. CASE UNCHANGED vars
  BY <1>22 DEF vars
<1> QED
  BY <1>1, <1>2, <1>3, <1>4, <1>5, <1>6, <1>7, <1>8, <1>9, <1>10, <1>11, <1>12, <1>13, <1>14, <1>15, <1>16, <1>17, <1>18, <1>19, <1>20, <1>21, <1>22
     DEF Next, Connecting, Sending, Receive

(* A reply stays in the buffer until it is sent.                           *)
LEMMA ReplyStep == IInv /\ [Next]_vars => ReplyInv'
<1> SUFFICES ASSUME IInv, [Next]_vars PROVE ReplyInv'
  OBVIOUS
<1> USE DEF IInv, TypeOK, FlagsInv, ReplyInv, CommandAnswered, Answered, flags, timers,
            lookup, sockets, history, bounds
<1>1. CASE Tick
  BY <1>1 DEF Tick
<1>2. CASE MainHold
  BY <1>2 DEF MainHold
<1>3. CASE Press
  BY <1>3 DEF Press
<1>4. CASE OtherClients
  BY <1>4 DEF OtherClients
<1>5. CASE Resolver
  BY <1>5 DEF Resolver
<1>6. CASE ServerSends
  BY <1>6 DEF ServerSends
<1>7. CASE StateInit
  BY <1>7 DEF StateInit
<1>8. CASE NoSocket
  BY <1>8 DEF NoSocket
<1>9. CASE LookupInProgress
  BY <1>9 DEF LookupInProgress, Opened
<1>10. CASE Connect
  <2>1. asked' = None
    BY <1>10 DEF Connect, Opened
  <2> QED
    BY <1>10, <2>1 DEF Connect, Opened, None
<1>11. CASE Sent
  BY <1>11 DEF Sent, Prepare, Prepared
<1>12. CASE SendFails
  BY <1>12 DEF SendFails, Prepare, Prepared
<1>13. CASE SendLater
  BY <1>13 DEF SendLater, Prepare, Prepared
<1>14. CASE Answer
  BY <1>14 DEF Answer, Carry
<1>15. CASE Configure
  BY <1>15 DEF Configure, Carry
<1>16. CASE NoAnswer
  BY <1>16 DEF NoAnswer, Carry
<1>17. CASE Refuse
  BY <1>17 DEF Refuse, Carry
<1>18. CASE EndOfSession
  BY <1>18 DEF EndOfSession, Carry
<1>19. CASE ResetTarget
  BY <1>19 DEF ResetTarget, Restart
<1>20. CASE ReceiveTimeout
  BY <1>20 DEF ReceiveTimeout
<1>21. CASE Close
  BY <1>21 DEF Close
<1>22. CASE UNCHANGED vars
  BY <1>22 DEF vars
<1> QED
  BY <1>1, <1>2, <1>3, <1>4, <1>5, <1>6, <1>7, <1>8, <1>9, <1>10, <1>11, <1>12, <1>13, <1>14, <1>15, <1>16, <1>17, <1>18, <1>19, <1>20, <1>21, <1>22
     DEF Next, Connecting, Sending, Receive

-----------------------------------------------------------------------------
LEMMA InitInv == Init => IInv
<1> SUFFICES ASSUME Init PROVE IInv
  OBVIOUS
<1>1. /\ flag_init \in BOOLEAN /\ event_first_flag \in BOOLEAN /\ due \in BOOLEAN
      /\ paused \in BOOLEAN /\ hold \in BOOLEAN /\ pressed \in BOOLEAN
      /\ owned \in BOOLEAN /\ host \in BOOLEAN
  BY Zenon DEF Init
<1>2. ~ owned /\ ~ flag_init /\ ~ event_first_flag
  BY Zenon DEF Init
<1>3. TypeOK
  <2>1. buffer \in Frames /\ state \in States /\ dns \in {"unknown", "asked", "cached"}
    BY FramesType DEF Init, States
  <2>2. /\ fail_cnt = 0 /\ leaked = 0 /\ others = 0 /\ cmds = 0 /\ presses = 0
        /\ first = NoFrame /\ last = NoFrame /\ asked = None /\ inbox = None
    BY Zenon DEF Init
  <2> QED
    BY <1>1, <1>2, <2>1, <2>2, ConstantsType DEF TypeOK
<1> QED
  BY <1>2, <1>3 DEF Init, IInv, SocketInv, OpensWithHeartbeat, FlagsInv, ReplyInv, CommandAnswered

LEMMA Invariant == Spec => []IInv
<1>1. IInv /\ [Next]_vars => IInv'
  BY TypeStep, SocketStep, FlagsStep, OpensStep, ReplyStep DEF IInv
<1> QED
  BY <1>1, InitInv, PTL DEF Spec

(* The state keeps its type; the sockets of the stack are never exceeded.  *)
THEOREM TypeCorrect == Spec => []TypeOK
<1>1. IInv => TypeOK
  BY DEF IInv
<1> QED
  BY <1>1, Invariant, PTL

(* Every connection opens with a heartbeat built on it, whatever keys are  *)
(* pressed and however earlier connections ended.                          *)
THEOREM OpensCorrect == Spec => []OpensWithHeartbeat
<1>1. IInv => OpensWithHeartbeat
  BY DEF IInv
<1> QED
  BY <1>1, Invariant, PTL

(* On a connection without a pressed key a command is answered before the  *)
(* next one is waited for.                                                 *)
THEOREM AnswerCorrect == Spec => []CommandAnswered
<1>1. IInv => CommandAnswered
  BY DEF IInv, ReplyInv
<1> QED
  BY <1>1, Invariant, PTL

(* With the address configured no socket is forgotten, and none is kept    *)
(* between two calls.                                                      *)
THEOREM SocketsCorrect == Spec => []SocketsReturned
<1>1. IInv => SocketsReturned
  BY DEF IInv, SocketInv, SocketsReturned
<1> QED
  BY <1>1, Invariant, PTL
=============================================================================
