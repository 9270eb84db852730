---------------------------- MODULE FwUploadProofs ----------------------------
(***************************************************************************)
(* Proofs about FwUpload, for an image of any length, buffers of any size  *)
(* and handlers entered in one another to any depth: types, that a block   *)
(* marked for the boot loader holds the image, and that an image that      *)
(* comes undisturbed is counted right and accepted.                        *)
(***************************************************************************)
EXTENDS FwUpload, SequenceTheorems, TLAPS

(* A handler is entered: one more on top, the others where they were.      *)
LEMMA PushFacts ==
  ASSUME stack \in Seq(Frame), NEW who \in Handlers \union {"main"},
         NEW at \in {"loop", "message", "restart"}
  PROVE  /\ Push(who, at) \in Seq(Frame) /\ Len(Push(who, at)) = Len(stack) + 1
         /\ \A i \in 1 .. Len(stack) : Push(who, at)[i] = stack[i]
         /\ Push(who, at)[Len(stack) + 1].at = at
         /\ Push(who, at)[Len(stack) + 1].who = who
<1> DEFINE f == [who |-> who, at |-> at, usi |-> 0]
<1>1. f \in Frame /\ f.at = at /\ f.who = who
  BY ImageAssumption DEF Frame
<1> HIDE DEF f
<1>2. Push(who, at) = Append(stack, f)
  BY DEF Push, f
<1> QED
  BY <1>1, <1>2, AppendProperties

(* There is a handler on top, and it moves on: only the top changes.       *)
LEMMA TopFacts ==
  ASSUME stack \in Seq(Frame), stack # <<>>
  PROVE  Top \in Frame /\ Len(stack) \in 1 .. Len(stack)
<1>1. Len(stack) \in 1 .. Len(stack)
  BY EmptySeq, LenProperties
<1> QED
  BY <1>1, ElementOfSeq DEF Top

LEMMA BecomeFacts ==
  ASSUME stack \in Seq(Frame), stack # <<>>, NEW at \in {"loop", "erase"},
         NEW usi \in 0 .. SECTORS
  PROVE  /\ Become(at, usi) \in Seq(Frame) /\ Len(Become(at, usi)) = Len(stack)
         /\ \A i \in 1 .. Len(stack) : i # Len(stack) => Become(at, usi)[i] = stack[i]
         /\ Become(at, usi)[Len(stack)].at = at
         /\ Become(at, usi)[Len(stack)].usi = usi
         /\ Become(at, usi)[Len(stack)].who = Top.who
         /\ Len(stack) \in 1 .. Len(stack)
<1>1. Len(stack) \in 1 .. Len(stack) /\ Top \in Frame
  BY TopFacts
<1> DEFINE f == [Top EXCEPT !.at = at, !.usi = usi]
<1>2. f \in Frame /\ f.at = at /\ f.usi = usi /\ f.who = Top.who
  BY <1>1 DEF Frame
<1> HIDE DEF f
<1>3. Become(at, usi) = [stack EXCEPT ![Len(stack)] = f]
  BY DEF Become, f
<1> QED
  BY <1>1, <1>2, <1>3, ExceptSeq

(* The same when it calls system_restart.                                  *)
LEMMA RestartsFacts ==
  ASSUME stack \in Seq(Frame), stack # <<>>
  PROVE  /\ Restarts \in Seq(Frame) /\ Len(Restarts) = Len(stack)
         /\ \A i \in 1 .. Len(stack) : i # Len(stack) => Restarts[i] = stack[i]
         /\ Restarts[Len(stack)].at = "restart"
         /\ Len(stack) \in 1 .. Len(stack)
<1>1. Len(stack) \in 1 .. Len(stack)
  BY TopFacts
<1> DEFINE f == [who |-> "main", at |-> "restart", usi |-> 0]
<1>2. f \in Frame /\ f.at = "restart"
  BY ImageAssumption DEF Frame
<1> HIDE DEF f
<1>3. Restarts = [stack EXCEPT ![Len(stack)] = f]
  BY DEF Restarts, f
<1> QED
  BY <1>1, <1>2, <1>3, ExceptSeq

(* It is left: the others are where they were.                             *)
LEMMA PopFacts ==
  ASSUME stack \in Seq(Frame), stack # <<>>
  PROVE  /\ Pop \in Seq(Frame) /\ Len(Pop) = Len(stack) - 1
         /\ \A i \in 1 .. Len(stack) - 1 : Pop[i] = stack[i]
<1>1. Len(stack) \in Nat \ {0}
  BY EmptySeq
<1> DEFINE k == Len(stack) - 1
<1>2. k \in Int /\ \A i \in 1 .. k : stack[i] \in Frame
  BY <1>1, ElementOfSeq
<1>3. /\ SubSeq(stack, 1, k) \in Seq(Frame)
      /\ Len(SubSeq(stack, 1, k)) = IF 1 <= k THEN k - 1 + 1 ELSE 0
      /\ \A i \in 1 .. k - 1 + 1 : SubSeq(stack, 1, k)[i] = stack[1 + i - 1]
  <2> HIDE DEF k
  <2> QED
    BY <1>2, SubSeqProperties
<1> DEFINE p == SubSeq(stack, 1, k)
<1>4. p \in Seq(Frame) /\ Len(p) = k
  <2>1. k \in Nat
    BY <1>1
  <2> HIDE DEF k
  <2>2. (IF 1 <= k THEN k - 1 + 1 ELSE 0) = k
    BY <2>1
  <2> QED
    BY <1>3, <2>2
<1>5. ASSUME NEW i \in 1 .. k PROVE p[i] = stack[i]
  <2>1. i \in 1 .. k - 1 + 1 /\ 1 + i - 1 = i
    BY <1>1
  <2> QED
    BY <2>1, <1>3
<1>6. Pop = p
  BY DEF Pop
<1> HIDE DEF p
<1> QED
  BY <1>4, <1>5, <1>6

(* A read appends to the buffer what fits, in the order it was sent.       *)
LEMMA TakenType ==
  ASSUME TypeOK, NEW h \in Handlers, NEW n \in Nat,
         n + Len(buf[h]) <= BUFFER, n + next[h] <= LEN
  PROVE  /\ Taken(h, n) \in Seq(CMD .. LEN - 1) /\ Len(Taken(h, n)) <= BUFFER
         /\ next[h] + n \in CMD .. LEN
<1> DEFINE S == CMD .. LEN - 1
           new == [i \in 1 .. n |-> next[h] + i - 1]
<1>1. next[h] \in CMD .. LEN /\ buf[h] \in Seq(S) /\ LEN \in Nat /\ CMD = -1
  BY ImageAssumption DEF TypeOK, StreamType, CMD
<1>2. \A i \in 1 .. n : next[h] + i - 1 \in S
  BY <1>1
<1>3. new \in Seq(S) /\ Len(new) = n
  BY <1>2, IsASeq
<1> HIDE DEF S, new
<1>4. buf[h] \o new \in Seq(S) /\ Len(buf[h] \o new) = Len(buf[h]) + n
  BY <1>1, <1>3, ConcatProperties
<1>5. Len(buf[h]) \in Nat
  BY <1>1, LenProperties
<1> QED
  BY <1>1, <1>4, <1>5 DEF Taken, S, new

(* A state entered, a buffer emptied, a peer that begins again.            *)
LEMMA StreamFacts ==
  ASSUME StreamType, NEW h \in Handlers
  PROVE  /\ \A s \in States : [state EXCEPT ![h] = s] \in [Handlers -> States]
         /\ [next EXCEPT ![h] = CMD] \in [Handlers -> CMD .. LEN]
         /\ [buf EXCEPT ![h] = <<>>] \in [Handlers -> Seq(CMD .. LEN - 1)]
         /\ \A g \in Handlers : Len([buf EXCEPT ![h] = <<>>][g]) <= BUFFER
         /\ [pos EXCEPT ![h] = 0] \in [Handlers -> 0 .. BUFFER]
<1>1. <<>> \in Seq(CMD .. LEN - 1) /\ Len(<<>>) = 0
  BY EmptySeq
<1>2. CMD \in CMD .. LEN /\ 0 \in 0 .. BUFFER /\ 0 <= BUFFER
  BY ImageAssumption DEF CMD
<1> QED
  BY <1>1, <1>2 DEF StreamType

(* The types hold after power on.                                          *)
LEMMA VolatileType ==
  /\ Volatile.state \in [Handlers -> States] /\ Volatile.next \in [Handlers -> CMD .. LEN]
  /\ Volatile.buf \in [Handlers -> Seq(CMD .. LEN - 1)]
  /\ \A h \in Handlers : Len(Volatile.buf[h]) <= BUFFER
  /\ Volatile.pos \in [Handlers -> 0 .. BUFFER]
  /\ <<>> \in Seq(Frame) /\ Len(<<>>) = 0
<1>1. <<>> \in Seq(Frame) /\ <<>> \in Seq(CMD .. LEN - 1) /\ Len(<<>>) = 0
  BY EmptySeq
<1>2. CMD \in CMD .. LEN /\ 0 \in 0 .. BUFFER /\ 0 <= BUFFER
  BY ImageAssumption DEF CMD
<1>3. /\ Volatile.state = [h \in Handlers |-> IF h = "telnet" THEN "LISTEN" ELSE "INIT"]
      /\ Volatile.next = [h \in Handlers |-> CMD]
      /\ Volatile.buf = [h \in Handlers |-> <<>>] /\ Volatile.pos = [h \in Handlers |-> 0]
  BY DEF Volatile
<1> QED
  BY <1>1, <1>2, <1>3 DEF States

LEMMA InitType == Init => TypeOK
<1> SUFFICES ASSUME Init PROVE TypeOK
  OBVIOUS
<1>1. CountType
  BY ImageAssumption, BoundsAssumption DEF Init, CountType
<1>2. SwitchType
  BY DEF Init, SwitchType
<1>3. FlashType
  BY DEF Init, FlashType
<1>4. StreamType /\ StackType
  BY VolatileType, BoundsAssumption DEF Init, StreamType, StackType
<1> QED
  BY <1>1, <1>2, <1>3, <1>4 DEF TypeOK

(* A restart brings back the types of power on and leaves the flash.       *)
LEMMA RestartType == TypeOK /\ Restart => TypeOK'
<1> SUFFICES ASSUME TypeOK, Restart PROVE TypeOK'
  OBVIOUS
<1>1. CountType'
  BY ImageAssumption, BoundsAssumption DEF Restart, CountType
<1>2. SwitchType'
  BY DEF Restart, SwitchType, flash, TypeOK
<1>3. FlashType'
  BY DEF Restart, FlashType, flash, TypeOK
<1>4. StreamType' /\ StackType'
  BY VolatileType, BoundsAssumption DEF Restart, StreamType, StackType
<1> QED
  BY <1>1, <1>2, <1>3, <1>4 DEF TypeOK

-----------------------------------------------------------------------------
(* The steps of the telnet server keep the types.                          *)
LEMMA TelnetType == TypeOK /\ (TelnetPoll \/ TelnetLost) => TypeOK'
<1> SUFFICES ASSUME TypeOK, TelnetPoll \/ TelnetLost PROVE TypeOK'
  OBVIOUS
<1> USE DEF TypeOK, upload, flash, streams, session
<1>1. CASE Listen
  <2>1. SwitchType'
    BY <1>1 DEF Listen, SwitchType
  <2>2. StreamType'
    BY <1>1, StreamFacts DEF Listen, StreamType, States, Handlers
  <2> QED
    BY <1>1, <2>1, <2>2 DEF Listen, CountType, FlashType, StackType
<1>2. CASE TelnetReceive
  <2>1. PICK n \in Reads("telnet") :
          /\ buf' = [buf EXCEPT !["telnet"] = Taken("telnet", n)]
          /\ next' = [next EXCEPT !["telnet"] = @ + n]
    BY <1>2 DEF TelnetReceive
  <2>2. n \in Nat /\ n + Len(buf["telnet"]) <= BUFFER /\ n + next["telnet"] <= LEN
    BY ImageAssumption DEF Reads
  <2>3. /\ Taken("telnet", n) \in Seq(CMD .. LEN - 1) /\ Len(Taken("telnet", n)) <= BUFFER
        /\ next["telnet"] + n \in CMD .. LEN
    BY <2>2, TakenType DEF Handlers
  <2>4. StreamType'
    BY <1>2, <2>1, <2>3 DEF TelnetReceive, StreamType, States
  <2> QED
    BY <1>2, <2>4 DEF TelnetReceive, CountType, SwitchType, FlashType, StackType
<1>3. CASE TelnetTimeout
  <2>1. StreamType' /\ SwitchType'
    BY <1>3, StreamFacts DEF TelnetTimeout, Ended, StreamType, SwitchType, States, Handlers
  <2>2. CountType'
    BY <1>3 DEF TelnetTimeout, CountType
  <2> QED
    BY <1>3, <2>1, <2>2 DEF TelnetTimeout, FlashType, StackType
<1>4. CASE TelnetLost
  <2>1. StreamType'
    BY <1>4, StreamFacts DEF TelnetLost, Ended, StreamType, States, Handlers
  <2>2. SwitchType'
    BY <1>4 DEF TelnetLost, Ended, SwitchType
  <2> QED
    BY <1>4, <2>1, <2>2 DEF TelnetLost, CountType, FlashType, StackType
<1>5. CASE ExecuteLater
  BY <1>5 DEF ExecuteLater, CountType, SwitchType, FlashType, StreamType, StackType, States
<1>6. CASE ExecuteCommand
  <2>1. StreamType'
    <3>1. buf' \in [Handlers -> Seq(CMD .. LEN - 1)]
          /\ \A h \in Handlers : Len(buf'[h]) <= BUFFER
      BY <1>6, StreamFacts DEF ExecuteCommand, Handlers
    <3>2. next' \in [Handlers -> CMD .. LEN] /\ state' \in [Handlers -> States]
      BY <1>6, StreamFacts DEF ExecuteCommand, Ended, StreamType, States, Handlers
    <3> QED
      BY <1>6, <3>1, <3>2 DEF ExecuteCommand, StreamType
  <2>2. SwitchType'
    BY <1>6 DEF ExecuteCommand, Announce, Ended, SwitchType
  <2>3. CountType'
    BY <1>6 DEF ExecuteCommand, Announce, CountType
  <2> QED
    BY <1>6, <2>1, <2>2, <2>3 DEF ExecuteCommand, FlashType, StackType
<1>7. CASE ExecutePackets
  <2>1. StackType'
    BY <1>7, PushFacts, BoundsAssumption DEF ExecutePackets, StackType, Handlers
  <2>2. StreamType'
    BY <1>7, StreamFacts DEF ExecutePackets, StreamType, States, Handlers
  <2>3. SwitchType'
    BY <1>7 DEF ExecutePackets, SwitchType
  <2> QED
    BY <1>7, <2>1, <2>2, <2>3 DEF ExecutePackets, CountType, FlashType
<1>8. CASE Resume
  BY <1>8 DEF Resume, CountType, SwitchType, FlashType, StreamType, StackType, States
<1>9. CASE WaitTimeout
  <2>1. StreamType'
    BY <1>9, StreamFacts DEF WaitTimeout, Ended, StreamType, States, Handlers
  <2>2. SwitchType'
    BY <1>9 DEF WaitTimeout, Ended, SwitchType
  <2> QED
    BY <1>9, <2>1, <2>2 DEF WaitTimeout, CountType, FlashType, StackType
<1> QED
  BY <1>1, <1>2, <1>3, <1>4, <1>5, <1>6, <1>7, <1>8, <1>9 DEF TelnetPoll

(* The steps of the firmware client, and its command, keep the types.      *)
LEMMA ClientType == TypeOK /\ (ClientPoll \/ FwCommand) => TypeOK'
<1> SUFFICES ASSUME TypeOK, ClientPoll \/ FwCommand PROVE TypeOK'
  OBVIOUS
<1> USE DEF TypeOK, upload, flash, streams, session
<1>1. CASE FwCommand
  <2>1. CountType'
    BY <1>1, BoundsAssumption DEF FwCommand, CountType
  <2>2. SwitchType'
    BY <1>1 DEF FwCommand, SwitchType
  <2>3. StreamType'
    BY <1>1 DEF FwCommand, StreamType, States
  <2> QED
    BY <1>1, <2>1, <2>2, <2>3 DEF FwCommand, FlashType, StackType
<1>2. ASSUME NEW from \in States, NEW to \in States, ClientGoes(from, to)
      PROVE  TypeOK'
  BY <1>2 DEF ClientGoes, CountType, SwitchType, FlashType, StreamType, StackType
<1>3. CASE ClientConnect
  <2>1. StreamType'
    BY <1>3, StreamFacts DEF ClientConnect, StreamType, States, Handlers
  <2>2. SwitchType'
    BY <1>3 DEF ClientConnect, SwitchType
  <2> QED
    BY <1>3, <2>1, <2>2 DEF ClientConnect, CountType, FlashType, StackType
<1>4. CASE ClientGivesUp
  <2>1. StackType'
    BY <1>4, PushFacts, BoundsAssumption DEF ClientGivesUp, StackType, Handlers
  <2>2. StreamType'
    BY <1>4 DEF ClientGivesUp, StreamType, States
  <2> QED
    BY <1>4, <2>1, <2>2 DEF ClientGivesUp, CountType, SwitchType, FlashType
<1>5. CASE ClientReceive
  <2>1. PICK n \in Reads("client") :
          /\ next' = [next EXCEPT !["client"] = @ + n]
          /\ disturbed' = (disturbed \/ n > 1 \/ buf["client"] # <<>>)
    BY <1>5 DEF ClientReceive
  <2>2. n \in Nat /\ n + Len(buf["client"]) <= BUFFER /\ n + next["client"] <= LEN
    BY ImageAssumption DEF Reads
  <2>3. next["client"] + n \in CMD .. LEN
    BY <2>2, TakenType DEF Handlers
  <2>4. StreamType'
    <3>1. buf' \in [Handlers -> Seq(CMD .. LEN - 1)]
          /\ \A h \in Handlers : Len(buf'[h]) <= BUFFER
      BY <1>5, StreamFacts DEF ClientReceive, Handlers
    <3> QED
      BY <1>5, <2>1, <2>3, <3>1 DEF ClientReceive, StreamType
  <2>5. SwitchType'
    BY <1>5, <2>1 DEF ClientReceive, Announce, SwitchType
  <2>6. CountType'
    BY <1>5 DEF ClientReceive, Announce, CountType
  <2> QED
    BY <1>5, <2>4, <2>5, <2>6 DEF ClientReceive, FlashType, StackType
<1>6. CASE ClientPackets
  <2> DEFINE N == Reads("client") \union (IF Len(buf["client"]) = BUFFER THEN {0} ELSE {})
  <2>1. PICK n \in N :
          /\ buf' = [buf EXCEPT !["client"] = Taken("client", n)]
          /\ next' = [next EXCEPT !["client"] = @ + n]
    BY <1>6 DEF ClientPackets
  <2>2. n \in Nat /\ n + Len(buf["client"]) <= BUFFER /\ n + next["client"] <= LEN
    <3>1. next["client"] <= LEN /\ BUFFER \in Nat /\ next["client"] \in Int
      BY ImageAssumption DEF StreamType, Handlers, CMD
    <3>2. CASE n \in Reads("client")
      BY <3>1, <3>2 DEF Reads
    <3>3. CASE n = 0 /\ Len(buf["client"]) = BUFFER
      BY <3>1, <3>3
    <3> QED
      BY <3>2, <3>3
  <2>3. /\ Taken("client", n) \in Seq(CMD .. LEN - 1) /\ Len(Taken("client", n)) <= BUFFER
        /\ next["client"] + n \in CMD .. LEN
    BY <2>2, TakenType DEF Handlers
  <2>4. StreamType'
    <3>1. pos' \in [Handlers -> 0 .. BUFFER]
      BY <1>6, StreamFacts DEF ClientPackets, Handlers
    <3> QED
      BY <1>6, <2>1, <2>3, <3>1 DEF ClientPackets, StreamType
  <2>5. StackType'
    BY <1>6, PushFacts, BoundsAssumption DEF ClientPackets, StackType, Handlers
  <2>6. SwitchType'
    BY <1>6 DEF ClientPackets, SwitchType
  <2> QED
    BY <1>6, <2>4, <2>5, <2>6 DEF ClientPackets, CountType, FlashType
<1>8. CASE ClientRefuse
  <2>1. <<CMD>> \in Seq(CMD .. LEN - 1) /\ Len(<<CMD>>) = 1 /\ 1 <= BUFFER
    BY ImageAssumption DEF CMD
  <2>2. /\ buf' \in [Handlers -> Seq(CMD .. LEN - 1)]
        /\ \A h \in Handlers : Len(buf'[h]) <= BUFFER
    BY <1>8, <2>1 DEF ClientRefuse, StreamType
  <2>3. StreamType'
    BY <1>8, <2>2, StreamFacts DEF ClientRefuse, Ended, StreamType, States, Handlers
  <2>4. SwitchType'
    BY <1>8 DEF ClientRefuse, Ended, SwitchType
  <2> QED
    BY <1>8, <2>3, <2>4 DEF ClientRefuse, CountType, FlashType, StackType
<1>7. CASE ClientTimeout
  <2>1. StreamType'
    BY <1>7, StreamFacts DEF ClientTimeout, Ended, StreamType, States, Handlers
  <2>2. SwitchType'
    BY <1>7 DEF ClientTimeout, Ended, SwitchType
  <2>3. CountType'
    BY <1>7 DEF ClientTimeout, CountType
  <2> QED
    BY <1>7, <2>1, <2>2, <2>3 DEF ClientTimeout, FlashType, StackType
<1> QED
  BY <1>1, <1>2, <1>3, <1>4, <1>5, <1>6, <1>7, <1>8
     DEF ClientPoll, ClientInit, NoConnect, ClientSend, ClientWait, ClientClose, States

(* While the boot block is erased there is a sector to come, or it ends.   *)
LEMMA NextSector ==
  ASSUME TypeOK, EraseNext
  PROVE  Top.usi + 1 \in 0 .. SECTORS /\ Top.usi \in 0 .. SECTORS
<1>1. Top \in Frame /\ Top.usi < SECTORS
  BY TopFacts DEF EraseNext, TypeOK, StackType
<1>2. Top.usi \in 0 .. SECTORS
  BY <1>1 DEF Frame
<1> QED
  BY <1>1, <1>2, ImageAssumption

(* The steps of the loop over the buffer keep the types.                   *)
LEMMA FeedType == TypeOK /\ ((\E h \in Handlers : Feed(h)) \/ Erase) => TypeOK'
<1> SUFFICES ASSUME TypeOK, (\E h \in Handlers : Feed(h)) \/ Erase PROVE TypeOK'
  OBVIOUS
<1> USE DEF TypeOK, upload, flash, streams, session
<1>s. 0 \in 0 .. SECTORS /\ 1 \in 0 .. SECTORS /\ SECTORS \in Nat
  BY ImageAssumption
<1>c. Counted \in 0 .. U16 - 1
  BY ImageAssumption DEF Counted, CountType
<1>0. CASE EraseNext
  <2>1. Top.usi + 1 \in 0 .. SECTORS
    BY <1>0, NextSector
  <2>2. StackType'
    BY <1>0, <2>1, BecomeFacts DEF EraseNext, StackType
  <2>3. FlashType'
    BY <1>0 DEF EraseNext, SectorErased, FlashType
  <2> QED
    BY <1>0, <2>2, <2>3 DEF EraseNext, CountType, SwitchType, StreamType
<1>1. CASE EraseEnd
  <2>1. StackType'
    BY <1>1, <1>s, BecomeFacts DEF EraseEnd, StackType
  <2>2. CountType'
    BY <1>1, <1>c DEF EraseEnd, CountType
  <2> QED
    BY <1>1, <2>1, <2>2 DEF EraseEnd, SwitchType, FlashType, StreamType
<1>2. ASSUME NEW h \in Handlers, Feed(h) PROVE TypeOK'
  <2>s. Here(h) /\ Step(h) => pos' \in [Handlers -> 0 .. BUFFER]
    <3>1. SUFFICES ASSUME Here(h), Step(h) PROVE pos' \in [Handlers -> 0 .. BUFFER]
      OBVIOUS
    <3>2. pos[h] + 1 \in 0 .. BUFFER
      <4>1. buf[h] \in Seq(CMD .. LEN - 1) /\ pos[h] \in 0 .. BUFFER /\ Len(buf[h]) <= BUFFER
        BY DEF StreamType
      <4>2. Len(buf[h]) \in Nat
        BY <4>1, LenProperties
      <4> QED
        BY <3>1, <4>1, <4>2, ImageAssumption DEF Here
    <3> QED
      BY <3>1, <3>2 DEF Step, StreamType
  <2>t. Here(h) => stack \in Seq(Frame) /\ stack # <<>>
    BY DEF Here, At, StackType
  <2>1. CASE FeedCommand(h)
    <3>1. SwitchType'
      BY <2>1 DEF FeedCommand, SwitchType
    <3> QED
      BY <2>1, <2>s, <3>1 DEF FeedCommand, CountType, FlashType, StreamType, StackType
  <2>2. CASE FeedNothing(h)
    BY <2>2, <2>s DEF FeedNothing, CountType, SwitchType, FlashType, StreamType,
                      StackType
  <2>3. CASE FeedFirst(h)
    <3>1. StackType'
      BY <2>3, <2>t, <1>s, BecomeFacts DEF FeedFirst, StackType
    <3>2. FlashType' /\ SwitchType'
      BY <2>3 DEF FeedFirst, SectorErased, FlashType, SwitchType
    <3> QED
      BY <2>3, <2>s, <3>1, <3>2 DEF FeedFirst, CountType, StreamType
  <2>4. CASE FeedData(h)
    <3>1. CountType'
      BY <2>4, <1>c DEF FeedData, CountType
    <3>2. FlashType'
      BY <2>4 DEF FeedData, Programmed, FlashType
    <3> QED
      BY <2>4, <2>s, <3>1, <3>2 DEF FeedData, SwitchType, StreamType, StackType
  <2>5. CASE FeedLast(h)
    <3>1. StackType'
      BY <2>5, <2>t, RestartsFacts DEF FeedLast, StackType
    <3>2. CountType'
      BY <2>5, ImageAssumption DEF FeedLast, CountType
    <3>3. SwitchType'
      <4>1. PICK p \in Packets(h) : mark' = (mark \/ Whole(p))
        BY <2>5 DEF FeedLast
      <4>2. Whole(p) \in BOOLEAN
        BY DEF Whole
      <4> QED
        BY <2>5, <4>1, <4>2 DEF FeedLast, SwitchType
    <3> QED
      BY <2>5, <2>s, <3>1, <3>2, <3>3 DEF FeedLast, FlashType, StreamType
  <2>6. CASE FeedEnd(h)
    <3>1. StackType'
      BY <2>6, PopFacts, BoundsAssumption, LenProperties DEF FeedEnd, At, StackType
    <3>2. StreamType'
      BY <2>6, StreamFacts DEF FeedEnd, StreamType, States
    <3> QED
      BY <2>6, <3>1, <3>2 DEF FeedEnd, CountType, SwitchType, FlashType
  <2> QED
    BY <1>2, <2>1, <2>2, <2>3, <2>4, <2>5, <2>6 DEF Feed
<1> QED
  BY <1>0, <1>1, <1>2 DEF Erase

(* The steps of the main loop keep the types.                              *)
LEMMA MainType ==
  TypeOK /\ (Login \/ Logout \/ FwMenu \/ MainTimeout \/ EraseBoot) => TypeOK'
<1> SUFFICES ASSUME TypeOK, Login \/ Logout \/ FwMenu \/ MainTimeout \/ EraseBoot
             PROVE  TypeOK'
  OBVIOUS
<1> USE DEF TypeOK, upload, flash, streams, session
<1>1. CASE Login
  BY <1>1 DEF Login, CountType, SwitchType, FlashType, StreamType, StackType
<1>2. CASE Logout
  BY <1>2 DEF Logout, CountType, SwitchType, FlashType, StreamType, StackType
<1>3. CASE FwMenu
  BY <1>3 DEF FwMenu, CountType, SwitchType, FlashType, StreamType, StackType
<1>4. CASE MainTimeout
  <2>1. StackType'
    <3>1. Len(stack) = 0 /\ Len(stack) + 1 <= MAX_DEPTH
      BY <1>4, EmptySeq, BoundsAssumption DEF MainTimeout
    <3>2. stack' = Push("main", "message")
      BY <1>4 DEF MainTimeout
    <3>3. stack' \in Seq(Frame) /\ Len(stack') = Len(stack) + 1
      BY <3>2, PushFacts DEF StackType
    <3> QED
      BY <3>1, <3>3 DEF StackType
  <2> QED
    BY <1>4, <2>1 DEF MainTimeout, CountType, SwitchType, FlashType, StreamType
<1>5. CASE EraseBoot
  <2>1. StackType'
    BY <1>5, RestartsFacts DEF EraseBoot, StackType
  <2>2. FlashType' /\ SwitchType'
    BY <1>5 DEF EraseBoot, SectorErased, FlashType, SwitchType
  <2> QED
    BY <1>5, <2>1, <2>2 DEF EraseBoot, CountType, StreamType
<1> QED
  BY <1>1, <1>2, <1>3, <1>4, <1>5

(* Together: every step keeps the types.                                   *)
LEMMA NextType == TypeOK /\ [Next]_vars => TypeOK'
<1> SUFFICES ASSUME TypeOK, [Next]_vars PROVE TypeOK'
  OBVIOUS
<1>1. CASE UNCHANGED vars
  BY <1>1 DEF vars, upload, flash, streams, session, TypeOK, CountType, SwitchType,
              FlashType, StreamType, StackType
<1> QED
  BY <1>1, RestartType, TelnetType, ClientType, FeedType, MainType
     DEF Next, PowerFails, Watchdog

(* Every variable keeps its type, and no read runs over a receive buffer,  *)
(* however packets are handled again and connections begun anew.           *)
THEOREM TypeCorrect == Spec => []TypeOK
BY InitType, NextType, PTL DEF Spec

-----------------------------------------------------------------------------
(* What is marked is the image, and nothing will be written to it any      *)
(* more: no packet is expected, and an erase that is under way is below a  *)
(* system_restart, which never returns.                                    *)
ErasesAreOver ==
  \A i \in 1 .. Len(stack) :
     stack[i].at = "erase" => \E j \in i + 1 .. Len(stack) : stack[j].at = "restart"
MarkInv == mark => (\A b \in Blocks : block[b] = "right") /\ packet_num = 0 /\ ErasesAreOver

IInv == TypeOK /\ MarkInv

(* Entering and leaving handlers does not put an erase on top, as long as  *)
(* no system_restart is left.                                              *)
LEMMA ErasesKept ==
  ASSUME TypeOK, ErasesAreOver,
         \/ stack' = stack
         \/ Len(stack) # 0 /\ stack' = Pop /\ Top.at # "restart"
         \/ \E who \in Handlers \union {"main"}, at \in {"loop", "message", "restart"} :
              stack' = Push(who, at)
  PROVE  ErasesAreOver'
<1> DEFINE n == Len(stack)
<1>1. stack \in Seq(Frame) /\ n \in Nat
  BY LenProperties DEF TypeOK, StackType
<1> SUFFICES ASSUME NEW i \in 1 .. Len(stack'), stack'[i].at = "erase"
             PROVE  \E j \in i + 1 .. Len(stack') : stack'[j].at = "restart"
  BY DEF ErasesAreOver
<1>2. CASE stack' = stack
  BY <1>2 DEF ErasesAreOver
<1>3. CASE Len(stack) # 0 /\ stack' = Pop /\ Top.at # "restart"
  <2>1. Len(stack') = n - 1 /\ \A k \in 1 .. n - 1 : stack'[k] = stack[k]
    BY <1>1, <1>3, PopFacts, EmptySeq
  <2>2. i \in 1 .. n /\ stack[i].at = "erase"
    BY <1>1, <2>1
  <2>3. PICK j \in i + 1 .. n : stack[j].at = "restart"
    BY <2>2 DEF ErasesAreOver
  <2>4. j # n
    BY <1>3, <2>3 DEF Top
  <2>5. j \in i + 1 .. n - 1
    BY <1>1, <2>2, <2>3, <2>4
  <2> QED
    BY <1>1, <2>1, <2>2, <2>3, <2>5
<1>4. ASSUME NEW who \in Handlers \union {"main"}, NEW at \in {"loop", "message", "restart"},
             stack' = Push(who, at)
      PROVE  \E j \in i + 1 .. Len(stack') : stack'[j].at = "restart"
  <2>1. /\ Len(stack') = n + 1 /\ stack'[n + 1].at = at
        /\ \A k \in 1 .. n : stack'[k] = stack[k]
    BY <1>1, <1>4, PushFacts
  <2>2. i \in 1 .. n
    BY <1>1, <2>1
  <2>3. PICK j \in i + 1 .. n : stack[j].at = "restart"
    BY <2>1, <2>2 DEF ErasesAreOver
  <2> QED
    BY <1>1, <2>1, <2>2, <2>3
<1> QED
  BY <1>2, <1>3, <1>4

(* The mark is clear after power on.                                       *)
LEMMA InitMark == Init => MarkInv
BY DEF Init, MarkInv

(* Only the last packet sets the mark, and only over the whole image; what *)
(* writes to the boot block, or counts packets, finds it clear.            *)
LEMMA FeedMark == IInv /\ ((\E h \in Handlers : Feed(h)) \/ Erase) => MarkInv'
<1> SUFFICES ASSUME IInv, (\E h \in Handlers : Feed(h)) \/ Erase PROVE MarkInv'
  OBVIOUS
<1> USE DEF IInv, upload, flash, streams, session
<1>t. stack \in Seq(Frame) /\ Len(stack) \in Nat /\ (stack # <<>> => Len(stack) # 0)
  BY LenProperties, EmptySeq DEF TypeOK, StackType
<1>1. CASE Erase
  <2>1. Len(stack) \in 1 .. Len(stack) /\ stack[Len(stack)].at = "erase"
    BY <1>1, <1>t DEF Erase, EraseNext, EraseEnd, Top
  <2>2. ~ mark
    BY <2>1, <1>t DEF MarkInv, ErasesAreOver
  <2> QED
    BY <1>1, <2>2 DEF Erase, EraseNext, EraseEnd, MarkInv
<1>2. ASSUME NEW h \in Handlers, Feed(h) PROVE MarkInv'
  <2>1. CASE FeedCommand(h) \/ FeedNothing(h)
    BY <2>1, ErasesKept DEF FeedCommand, FeedNothing, MarkInv
  <2>2. CASE FeedFirst(h)
    BY <2>2 DEF FeedFirst, MarkInv
  <2>3. CASE FeedData(h)
    <3>1. ~ mark
      BY <2>3 DEF FeedData, MarkInv, TypeOK, CountType
    <3> QED
      BY <2>3, <3>1 DEF FeedData, MarkInv
  <2>4. CASE FeedLast(h)
    <3>1. ~ mark
      BY <2>4 DEF FeedLast, MarkInv, TypeOK, CountType
    <3>2. mark' => \A b \in Blocks : block'[b] = "right"
      <4>1. packet_num > 0 /\ packet_num + 1 = fw_datalen
        BY <2>4 DEF FeedLast, IsLast
      <4>2. fw_datalen = LEN
        BY <4>1, ImageAssumption DEF TypeOK, CountType
      <4>3. PICK p \in Packets(h) : mark' => Whole(p)
        BY <2>4, <3>1 DEF FeedLast
      <4> QED
        BY <2>4, <4>2, <4>3 DEF FeedLast, Whole, Blocks
    <3>3. packet_num' = 0 /\ stack' = Restarts /\ stack # <<>>
      BY <2>4 DEF FeedLast, Here, At
    <3>4. ErasesAreOver'
      <4>1. /\ Len(stack') = Len(stack) /\ stack'[Len(stack)].at = "restart"
        BY <1>t, <3>3, RestartsFacts
      <4> QED
        BY <1>t, <4>1 DEF ErasesAreOver
    <3> QED
      BY <3>2, <3>3, <3>4 DEF MarkInv
  <2>5. CASE FeedEnd(h)
    <3>1. Len(stack) # 0 /\ stack' = Pop /\ Top.at # "restart"
      BY <2>5, <1>t DEF FeedEnd, At
    <3> QED
      BY <2>5, <3>1, ErasesKept DEF FeedEnd, MarkInv
  <2> QED
    BY <1>2, <2>1, <2>2, <2>3, <2>4, <2>5 DEF Feed
<1> QED
  BY <1>1, <1>2

(* The channels and the main loop leave the boot block and packet_num      *)
(* alone, but for the main loop's erase, which clears the mark.            *)
LEMMA OtherMark ==
  IInv /\ (TelnetPoll \/ TelnetLost \/ ClientPoll \/ FwCommand
           \/ Login \/ Logout \/ FwMenu \/ MainTimeout \/ EraseBoot) => MarkInv'
<1> SUFFICES ASSUME IInv, TelnetPoll \/ TelnetLost \/ ClientPoll \/ FwCommand
                          \/ Login \/ Logout \/ FwMenu \/ MainTimeout \/ EraseBoot
             PROVE  MarkInv'
  OBVIOUS
<1> USE DEF IInv, upload, flash, streams, session
<1>1. CASE EraseBoot
  BY <1>1 DEF EraseBoot, MarkInv
<1>2. CASE ~ EraseBoot
  <2>1. UNCHANGED <<flash, packet_num>>
    BY <1>2 DEF TelnetPoll, Listen, TelnetReceive, TelnetTimeout, TelnetLost, ExecuteLater,
                ExecuteCommand, Announce, ExecutePackets, Resume, WaitTimeout, ClientPoll,
                ClientInit, NoConnect, ClientSend, ClientWait, ClientClose, ClientGoes, ClientConnect,
                ClientGivesUp, ClientReceive, ClientRefuse, ClientPackets, ClientTimeout, FwCommand,
                Login, Logout, FwMenu, MainTimeout
  <2>2. \/ stack' = stack
        \/ \E who \in Handlers \union {"main"}, at \in {"loop", "message", "restart"} :
             stack' = Push(who, at)
    BY <1>2 DEF TelnetPoll, Listen, TelnetReceive, TelnetTimeout, TelnetLost, ExecuteLater,
                ExecuteCommand, ExecutePackets, Resume, WaitTimeout, ClientPoll,
                ClientInit, NoConnect, ClientSend, ClientWait, ClientClose, ClientGoes, ClientConnect,
                ClientGivesUp, ClientReceive, ClientRefuse, ClientPackets, ClientTimeout, FwCommand,
                Login, Logout, FwMenu, MainTimeout, Handlers
  <2> QED
    BY <2>1, <2>2, ErasesKept DEF MarkInv
<1> QED
  BY <1>1, <1>2

(* A restart empties the stack and begins an upload from its start.        *)
LEMMA RestartMark == IInv /\ Restart => MarkInv'
BY DEF IInv, Restart, MarkInv, ErasesAreOver, flash

(* Together: every step keeps the invariant.                               *)
LEMMA NextIInv == IInv /\ [Next]_vars => IInv'
<1> SUFFICES ASSUME IInv, [Next]_vars PROVE MarkInv'
  BY NextType DEF IInv
<1>1. CASE UNCHANGED vars
  BY <1>1 DEF vars, upload, flash, IInv, MarkInv, ErasesAreOver
<1> QED
  BY <1>1, FeedMark, OtherMark, RestartMark DEF Next, PowerFails, Watchdog

(* The strengthened invariant: types, and what a mark stands for.          *)
THEOREM Invariance == Spec => []IInv
<1>1. Init => IInv
  BY InitType, InitMark DEF IInv
<1> QED
  BY <1>1, NextIInv, PTL DEF Spec

(* A boot block marked for the boot loader holds the whole image, whatever *)
(* the two channels, their re-entrance and the power supply have done.     *)
THEOREM MarkCorrect == Spec => []MarkMeansImage
<1>1. IInv => MarkMeansImage
  BY DEF IInv, MarkInv, MarkMeansImage
<1> QED
  BY <1>1, Invariance, PTL

-----------------------------------------------------------------------------
(* On one connection with one handler at a time: packets are counted from  *)
(* the announcement, the handler is at the bottom of the stack, and during *)
(* the erase none is.                                                      *)
HandlerInv ==
  \A i \in 1 .. Len(stack) :
    /\ stack[i].at \in {"loop", "erase"} => i = 1 /\ ftp_option
    /\ stack[i].at = "erase" => packet_num = 0
WithinInv == ~ disturbed =>
  /\ IF ftp_option THEN fw_datalen = LEN /\ packet_num < LEN ELSE packet_num = 0
  /\ HandlerInv

(* The handlers count no packet past the one before the last, which is     *)
(* recognised.                                                             *)
LEMMA FeedWithin ==
  TypeOK /\ WithinInv /\ ((\E h \in Handlers : Feed(h)) \/ Erase) => WithinInv'
<1> SUFFICES ASSUME TypeOK, WithinInv, (\E h \in Handlers : Feed(h)) \/ Erase, ~ disturbed'
             PROVE  WithinInv'
  BY DEF WithinInv
<1> USE DEF upload, flash, streams, session
<1>t. stack \in Seq(Frame) /\ Len(stack) \in Nat /\ (stack # <<>> => Len(stack) # 0)
  BY LenProperties, EmptySeq DEF TypeOK, StackType
<1>c. packet_num \in Nat /\ LEN \in Nat /\ LEN >= 3
  BY ImageAssumption DEF TypeOK, CountType
<1>s. 0 \in 0 .. SECTORS /\ 1 \in 0 .. SECTORS /\ LEN < U16 /\ U16 \in Nat
  BY ImageAssumption
<1>0. CASE EraseNext
  <2>1. ~ disturbed /\ UNCHANGED <<ftp_option, fw_datalen, packet_num>> /\ stack # <<>>
        /\ stack' = Become("erase", Top.usi + 1) /\ stack[Len(stack)].at = "erase"
    BY <1>0 DEF EraseNext, Top
  <2>2. Len(stack) = 1 /\ ftp_option /\ packet_num = 0 /\ fw_datalen = LEN
    <3>1. Len(stack) \in 1 .. Len(stack)
      BY <2>1, <1>t
    <3> QED
      BY <2>1, <3>1 DEF WithinInv, HandlerInv
  <2>3. Top.usi + 1 \in 0 .. SECTORS
    BY <1>0, NextSector
  <2>4. Len(stack') = 1
    BY <2>1, <2>2, <2>3, <1>t, BecomeFacts
  <2> QED
    BY <2>1, <2>2, <2>4, <1>c DEF WithinInv, HandlerInv
<1>1. CASE EraseEnd
  <2>1. ~ disturbed /\ UNCHANGED <<ftp_option, fw_datalen>> /\ stack # <<>>
        /\ stack' = Become("loop", 0) /\ stack[Len(stack)].at = "erase" /\ packet_num' = Counted
    BY <1>1 DEF EraseEnd, Top
  <2>2. Len(stack) = 1 /\ ftp_option /\ packet_num = 0 /\ fw_datalen = LEN
    <3>1. Len(stack) \in 1 .. Len(stack)
      BY <2>1, <1>t
    <3> QED
      BY <2>1, <3>1 DEF WithinInv, HandlerInv
  <2>3. packet_num' = 1
    BY <2>1, <2>2, <1>c, <1>s DEF Counted
  <2>4. Len(stack') = 1 /\ stack'[1].at = "loop"
    BY <2>1, <2>2, <1>t, <1>s, BecomeFacts
  <2> QED
    BY <2>1, <2>2, <2>3, <2>4, <1>c DEF WithinInv, HandlerInv
<1>2. ASSUME NEW h \in Handlers, Feed(h) PROVE WithinInv'
  <2>0. ~ disturbed /\ UNCHANGED <<ftp_option, fw_datalen>> /\ ~ FeedCommand(h)
    BY <1>2 DEF Feed, FeedCommand, FeedNothing, FeedFirst, FeedData, FeedLast, FeedEnd
  <2>1. /\ stack # <<>> /\ Len(stack) = 1 /\ stack[1].at = "loop"
        /\ ftp_option /\ fw_datalen = LEN /\ packet_num < LEN
    <3>1. At(h)
      BY <1>2 DEF Feed, FeedCommand, FeedNothing, FeedFirst, FeedData, FeedLast, FeedEnd, Here
    <3>2. stack # <<>> /\ stack[Len(stack)].at = "loop"
      BY <3>1 DEF At, Top
    <3>3. Len(stack) \in 1 .. Len(stack)
      BY <3>2, <1>t
    <3>4. Len(stack) = 1 /\ ftp_option
      BY <2>0, <3>2, <3>3 DEF WithinInv, HandlerInv
    <3> QED
      BY <2>0, <3>2, <3>4 DEF WithinInv
  <2>2. CASE FeedNothing(h)
    BY <2>0, <2>2 DEF FeedNothing, WithinInv, HandlerInv
  <2>3. CASE FeedFirst(h)
    <3>1. stack' = Become("erase", 1) /\ packet_num = 0 /\ packet_num' = packet_num
      BY <2>3 DEF FeedFirst
    <3>2. Len(stack') = 1
      BY <2>1, <3>1, <1>t, <1>s, BecomeFacts
    <3> QED
      BY <2>0, <2>1, <3>1, <3>2, <1>c DEF WithinInv, HandlerInv
  <2>4. CASE FeedData(h)
    <3>1. packet_num' = packet_num + 1 /\ packet_num + 1 < LEN /\ stack' = stack
      BY <2>1, <2>4, <1>c, <1>s DEF FeedData, IsLast, Counted
    <3> QED
      BY <2>0, <2>1, <3>1, <1>c DEF WithinInv, HandlerInv
  <2>5. CASE FeedLast(h)
    <3>1. stack' = Restarts /\ packet_num' = 0
      BY <2>5 DEF FeedLast
    <3>2. Len(stack') = 1
      BY <2>1, <3>1, <1>t, RestartsFacts
    <3> QED
      BY <2>0, <2>1, <3>1, <3>2, <1>c DEF WithinInv, HandlerInv
  <2>6. CASE FeedEnd(h)
    <3>1. stack' = Pop /\ packet_num' = packet_num
      BY <2>6 DEF FeedEnd
    <3>2. Len(stack') = 0
      BY <2>1, <3>1, <1>t, PopFacts
    <3> QED
      BY <2>0, <2>1, <3>1, <3>2 DEF WithinInv, HandlerInv
  <2> QED
    BY <1>2, <2>0, <2>2, <2>3, <2>4, <2>5, <2>6 DEF Feed
<1> QED
  BY <1>0, <1>1, <1>2 DEF Erase

(* The channels and the main loop count no packets; an upload is announced *)
(* before one is counted, and a handler entered in another disturbs it.    *)
LEMMA OtherWithin ==
  TypeOK /\ WithinInv /\ (TelnetPoll \/ TelnetLost \/ ClientPoll \/ FwCommand
           \/ Login \/ Logout \/ FwMenu \/ MainTimeout \/ EraseBoot) => WithinInv'
<1> SUFFICES ASSUME TypeOK, WithinInv, TelnetPoll \/ TelnetLost \/ ClientPoll \/ FwCommand
                          \/ Login \/ Logout \/ FwMenu \/ MainTimeout \/ EraseBoot,
                    ~ disturbed'
             PROVE  WithinInv'
  BY DEF WithinInv
<1> USE ImageAssumption DEF upload, flash, streams, session
<1>t. stack \in Seq(Frame) /\ Len(stack) \in Nat /\ (stack = <<>> <=> Len(stack) = 0)
  BY LenProperties, EmptySeq DEF TypeOK, StackType
<1>d. ~ disturbed
  BY Zenon
     DEF TelnetPoll, Listen, TelnetReceive, TelnetTimeout, TelnetLost, ExecuteLater,
         ExecuteCommand, ExecutePackets, Resume, WaitTimeout, Ended,
         ClientPoll, ClientInit, NoConnect, ClientSend, ClientWait, ClientClose, ClientGoes, ClientConnect,
         ClientGivesUp, ClientReceive, ClientRefuse, ClientPackets, ClientTimeout,
         FwCommand, Login, Logout, FwMenu, MainTimeout, EraseBoot
<1>u. packet_num' = packet_num
      /\ \/ UNCHANGED <<ftp_option, fw_datalen>>
         \/ ~ ftp_option /\ ftp_option' /\ fw_datalen' = LEN /\ stack' = stack
  BY DEF TelnetPoll, Listen, TelnetReceive, TelnetTimeout, TelnetLost, ExecuteLater,
         ExecuteCommand, ExecutePackets, Resume, WaitTimeout, Announce,
         ClientPoll, ClientInit, NoConnect, ClientSend, ClientWait, ClientClose, ClientGoes, ClientConnect,
         ClientGivesUp, ClientReceive, ClientRefuse, ClientPackets, ClientTimeout,
         FwCommand, Login, Logout, FwMenu, MainTimeout, EraseBoot
<1>s. \/ stack' = stack
      \/ \E who \in Handlers \union {"main"}, at \in {"message", "restart"} :
           stack' = Push(who, at)
      \/ \E who \in Handlers : stack' = Push(who, "loop") /\ stack = <<>> /\ ftp_option
      \/ stack # <<>> /\ stack' = Restarts
  BY DEF TelnetPoll, Listen, TelnetReceive, TelnetTimeout, TelnetLost, ExecuteLater,
         ExecuteCommand, ExecutePackets, Resume, WaitTimeout,
         ClientPoll, ClientInit, NoConnect, ClientSend, ClientWait, ClientClose, ClientGoes, ClientConnect,
         ClientGivesUp, ClientReceive, ClientRefuse, ClientPackets, ClientTimeout,
         FwCommand, Login, Logout, FwMenu, MainTimeout, EraseBoot, Handlers
<1>1. /\ ~ disturbed /\ packet_num' = packet_num
      /\ \/ UNCHANGED <<ftp_option, fw_datalen>>
         \/ ~ ftp_option /\ ftp_option' /\ fw_datalen' = LEN /\ stack' = stack
  BY <1>d, <1>u
<1>2. IF ftp_option' THEN fw_datalen' = LEN /\ packet_num' < LEN ELSE packet_num' = 0
  BY <1>1 DEF WithinInv
<1>3. HandlerInv'
  <2>1. CASE stack' = stack
    BY <1>1, <2>1 DEF WithinInv, HandlerInv
  <2>2. ASSUME NEW who \in Handlers \union {"main"}, NEW at \in {"message", "restart"},
               stack' = Push(who, at)
        PROVE  HandlerInv'
    BY <1>1, <1>t, <2>2, PushFacts DEF WithinInv, HandlerInv
  <2>3. ASSUME NEW who \in Handlers, stack' = Push(who, "loop"), stack = <<>>, ftp_option
        PROVE  HandlerInv'
    BY <1>1, <1>t, <2>3, PushFacts DEF HandlerInv
  <2>4. CASE stack # <<>> /\ stack' = Restarts
    BY <1>1, <1>t, <2>4, RestartsFacts DEF WithinInv, HandlerInv
  <2> QED
    BY <1>s, <2>1, <2>2, <2>3, <2>4
<1> QED
  BY <1>2, <1>3 DEF WithinInv

(* An upload over one connection, with no handler entered in another, is   *)
(* never counted to its announced end without being recognised.            *)
THEOREM WithinCorrect == Spec => []WithinImage
<1>1. Init => WithinInv
  BY EmptySeq DEF Init, WithinInv, HandlerInv
<1>2. TypeOK /\ WithinInv /\ [Next]_vars => WithinInv'
  <2> SUFFICES ASSUME TypeOK, WithinInv, [Next]_vars PROVE WithinInv'
    OBVIOUS
  <2>1. CASE UNCHANGED vars
    BY <2>1 DEF vars, upload, WithinInv, HandlerInv
  <2>2. CASE Restart
    BY <2>2, EmptySeq DEF Restart, WithinInv, HandlerInv
  <2> QED
    BY <2>1, <2>2, FeedWithin, OtherWithin DEF Next, PowerFails, Watchdog
<1>3. WithinInv => WithinImage
  BY DEF WithinInv, WithinImage
<1> QED
  BY <1>1, <1>2, <1>3, TypeCorrect, PTL DEF Spec

-----------------------------------------------------------------------------
(* On one connection with one handler at a time the packets come in order: *)
(* what is in a buffer and what its peer sends next are consecutive, and   *)
(* one peer has had its announcement taken.  What it has sent and is not   *)
(* handled begins with the packet that is expected, and the packets before *)
(* that are in the boot block, if it has room for them; while it is erased *)
(* its first sectors are.  The other peer's announcement still waits, and  *)
(* will disturb when it is handled.                                        *)
Start(h) == next[h] - Len(buf[h])
Handled(h) == IF Len(stack) > 0 /\ stack[1].who = h THEN pos[h] ELSE 0
InOrder(h) == \A i \in 1 .. Len(buf[h]) : buf[h][i] = Start(h) + i - 1
Erasing == Len(stack) > 0 /\ stack[1].at = "erase"
FilledTo(n) == \A b \in Blocks : block[b] = (IF b < n THEN "right" ELSE "erased")
ErasedTo(usi) == \A b \in Blocks : b < usi * PACKETS => block[b] = "erased"
Fed(n) == IF Erasing THEN n = 1 /\ ErasedTo(stack[1].usi)
                     ELSE n = packet_num /\ (Fits /\ n > 0 => FilledTo(n))
Feeds(h) == Handled(h) <= Len(buf[h]) /\ Fed(Start(h) + Handled(h))
Waits(h) == Start(h) = CMD /\ Handled(h) = 0

(* Once the bottom of the stack is below a system_restart, nothing is fed  *)
(* any more without disturbing.                                            *)
Going == Len(stack) > 0 => stack[1].at \in {"loop", "erase"}
QuietInv == fw_flag # 2 /\ \A i \in 1 .. Len(stack) : stack[i].at # "message"
StartInv ==
  /\ state["telnet"] = "LISTEN" => next["telnet"] = CMD /\ buf["telnet"] = <<>>
  /\ ~ ftp_option => buf["client"] = <<>> /\ \A h \in Handlers : Start(h) = CMD
OwnerInv ==
  ftp_option /\ Going =>
    \E o \in Handlers : Feeds(o) /\ \A h \in Handlers \ {o} : Waits(h)
OrderInv ==
  ~ disturbed => QuietInv /\ (\A h \in Handlers : InOrder(h)) /\ StartInv /\ OwnerInv

(* A read keeps the buffer in order.                                       *)
LEMMA TakenOrder ==
  ASSUME TypeOK, NEW h \in Handlers, InOrder(h), NEW n \in Nat
  PROVE  /\ Len(Taken(h, n)) = Len(buf[h]) + n
         /\ \A i \in 1 .. Len(Taken(h, n)) : Taken(h, n)[i] = Start(h) + i - 1
<1> DEFINE new == [i \in 1 .. n |-> next[h] + i - 1]
<1>1. next[h] \in Int /\ buf[h] \in Seq(Int) /\ Len(buf[h]) \in Nat
  <2>1. buf[h] \in Seq(CMD .. LEN - 1) /\ next[h] \in CMD .. LEN
    BY DEF TypeOK, StreamType
  <2>2. \A i \in 1 .. Len(buf[h]) : buf[h][i] \in Int
    BY <2>1, ElementOfSeq, ImageAssumption DEF CMD
  <2> QED
    BY <2>1, <2>2, LenProperties, SeqDef, ImageAssumption DEF CMD
<1>2. new \in Seq(Int) /\ Len(new) = n /\ \A i \in 1 .. n : new[i] = next[h] + i - 1
  <2>1. \A i \in 1 .. n : next[h] + i - 1 \in Int
    BY <1>1
  <2> QED
    BY <2>1, IsASeq
<1> HIDE DEF new
<1>3. /\ Len(buf[h] \o new) = Len(buf[h]) + n
      /\ \A i \in 1 .. Len(buf[h]) + n :
           (buf[h] \o new)[i] = IF i <= Len(buf[h]) THEN buf[h][i] ELSE new[i - Len(buf[h])]
  BY <1>1, <1>2, ConcatProperties
<1>4. Taken(h, n) = buf[h] \o new
  BY DEF Taken, new
<1>5. ASSUME NEW i \in 1 .. Len(buf[h]) + n
      PROVE  (buf[h] \o new)[i] = Start(h) + i - 1
  <2>1. CASE i <= Len(buf[h])
    BY <1>1, <1>3, <2>1 DEF InOrder
  <2>2. CASE ~ i <= Len(buf[h])
    <3>1. i - Len(buf[h]) \in 1 .. n
      BY <1>1, <2>2
    <3>2. (buf[h] \o new)[i] = next[h] + (i - Len(buf[h])) - 1
      BY <1>2, <1>3, <2>2, <3>1
    <3>3. i \in Int
      OBVIOUS
    <3>4. next[h] + (i - Len(buf[h])) - 1 = (next[h] - Len(buf[h])) + i - 1
      BY <1>1, <3>3
    <3> QED
      BY <3>2, <3>4 DEF Start
  <2> QED
    BY <2>1, <2>2
<1> QED
  BY <1>3, <1>4, <1>5

(* A handler that runs undisturbed is the only one on the stack.           *)
LEMMA OnlyHandler ==
  ASSUME TypeOK, WithinInv, OrderInv, ~ disturbed, NEW h \in Handlers, At(h)
  PROVE  /\ Len(stack) = 1 /\ stack[1].who = h /\ stack[1].at = "loop" /\ stack # <<>>
         /\ ftp_option /\ fw_datalen = LEN /\ packet_num < LEN /\ Top.who = h
         /\ Handled(h) = pos[h] /\ \A g \in Handlers \ {h} : Handled(g) = 0
         /\ \E o \in Handlers : Feeds(o) /\ \A g \in Handlers \ {o} : Waits(g)
<1>1. stack \in Seq(Frame) /\ Len(stack) \in Nat /\ stack # <<>>
  BY LenProperties DEF TypeOK, StackType, At
<1>2. Len(stack) \in 1 .. Len(stack)
  BY <1>1, EmptySeq
<1>3. stack[Len(stack)].at = "loop" /\ stack[Len(stack)].who = h
  BY DEF At, Top
<1>4. Len(stack) = 1 /\ ftp_option
  BY <1>2, <1>3 DEF WithinInv, HandlerInv
<1>5. stack[1].at = "loop" /\ stack[1].who = h /\ Top.who = h
  BY <1>3, <1>4 DEF Top
<1>6. fw_datalen = LEN /\ packet_num < LEN
  BY <1>4 DEF WithinInv
<1>7. \E o \in Handlers : Feeds(o) /\ \A g \in Handlers \ {o} : Waits(g)
  BY <1>4, <1>5 DEF OrderInv, OwnerInv, Going
<1>8. Handled(h) = pos[h] /\ \A g \in Handlers \ {h} : Handled(g) = 0
  BY <1>4, <1>5 DEF Handled
<1> QED
  BY <1>1, <1>4, <1>5, <1>6, <1>7, <1>8

(* What it finds next is an announcement or the packet that is expected.   *)
LEMMA ExpectedPacket ==
  ASSUME TypeOK, WithinInv, OrderInv, ~ disturbed, NEW h \in Handlers, Here(h),
         Packets(h) # {}
  PROVE  /\ Packets(h) = {packet_num} /\ pos[h] < Len(buf[h])
         /\ Start(h) + pos[h] = packet_num
         /\ (Fits /\ packet_num > 0 => FilledTo(packet_num))
         /\ \A g \in Handlers \ {h} : Waits(g)
<1>1. /\ At(h) /\ pos[h] < Len(buf[h])
  BY DEF Here
<1>2. /\ Len(stack) = 1 /\ stack[1].at = "loop" /\ Handled(h) = pos[h]
      /\ \E o \in Handlers : Feeds(o) /\ \A g \in Handlers \ {o} : Waits(g)
  BY <1>1, OnlyHandler
<1>3. /\ pos[h] \in Nat /\ Len(buf[h]) \in Nat /\ next[h] \in Int
      /\ packet_num \in Nat
  BY LenProperties, ImageAssumption DEF TypeOK, StreamType, CountType, CMD
<1>4. First(h) = Start(h) + pos[h]
  <2>1. pos[h] + 1 \in 1 .. Len(buf[h])
    BY <1>1, <1>3
  <2>2. buf[h][pos[h] + 1] = Start(h) + (pos[h] + 1) - 1
    BY <2>1 DEF OrderInv, InOrder
  <2> QED
    BY <1>3, <2>2 DEF First, Start
<1>5. Packets(h) = {First(h)} /\ First(h) # CMD
  BY DEF Packets
<1>6. ~ Waits(h)
  BY <1>2, <1>3, <1>4, <1>5 DEF Waits, Start, CMD
<1>7. Feeds(h) /\ \A g \in Handlers \ {h} : Waits(g)
  BY <1>2, <1>6
<1>8. ~ Erasing
  BY <1>2 DEF Erasing
<1>9. /\ Start(h) + pos[h] = packet_num
      /\ (Fits /\ packet_num > 0 => FilledTo(packet_num))
  BY <1>2, <1>7, <1>8 DEF Feeds, Fed
<1> QED
  BY <1>1, <1>4, <1>5, <1>7, <1>9

(* Programmed over what is erased, the expected packet is right.           *)
LEMMA FilledFurther ==
  ASSUME FlashType, packet_num \in Nat, FilledTo(packet_num), block' = Programmed(packet_num)
  PROVE  \A b \in Blocks : block'[b] = (IF b < packet_num + 1 THEN "right" ELSE "erased")
<1> SUFFICES ASSUME NEW b \in Blocks
             PROVE  block'[b] = (IF b < packet_num + 1 THEN "right" ELSE "erased")
  OBVIOUS
<1>1. b \in Int /\ block[b] = (IF b < packet_num THEN "right" ELSE "erased")
  BY ImageAssumption DEF FilledTo, Blocks
<1>2. block'[b] = IF b # packet_num THEN block[b]
                  ELSE IF packet_num = b /\ block[b] # "wrong" THEN "right" ELSE "wrong"
  BY DEF Programmed
<1> QED
  BY <1>1, <1>2

(* A sector more is erased, and with the last one every block is.          *)
LEMMA ErasedFurther ==
  ASSUME NEW usi \in Nat, ErasedTo(usi), block' = SectorErased(usi)
  PROVE  \A b \in Blocks : b < (usi + 1) * PACKETS => block'[b] = "erased"
<1> SUFFICES ASSUME NEW b \in Blocks, b < (usi + 1) * PACKETS PROVE block'[b] = "erased"
  OBVIOUS
<1>1. block'[b] = IF usi * PACKETS <= b /\ b < (usi + 1) * PACKETS THEN "erased" ELSE block[b]
  BY DEF SectorErased
<1>2. b < usi * PACKETS \/ usi * PACKETS <= b
  BY ImageAssumption DEF Blocks
<1> QED
  BY <1>1, <1>2 DEF ErasedTo

LEMMA AllErased ==
  ASSUME ErasedTo(SECTORS), Fits
  PROVE  FilledTo(1)
<1> SUFFICES ASSUME NEW b \in Blocks PROVE ~ b < 1 /\ block[b] = "erased"
  BY DEF FilledTo
<1>1. b \in Nat /\ b >= 1 /\ b < LEN - 1 /\ LEN \in Nat
  BY ImageAssumption DEF Blocks
<1>2. SECTORS * PACKETS \in Nat
  BY ImageAssumption
<1>3. b < SECTORS * PACKETS
  BY <1>1, <1>2 DEF Fits
<1> QED
  BY <1>1, <1>3 DEF ErasedTo

(* Fed in order, the handlers keep the order.                              *)
LEMMA FeedOrder ==
  TypeOK /\ WithinInv /\ OrderInv /\ ((\E h \in Handlers : Feed(h)) \/ Erase) => OrderInv'
<1> SUFFICES ASSUME TypeOK, WithinInv, OrderInv, (\E h \in Handlers : Feed(h)) \/ Erase,
                    ~ disturbed'
             PROVE  OrderInv'
  BY DEF OrderInv
<1> USE DEF upload, flash, streams, session
<1>t. /\ stack \in Seq(Frame) /\ Len(stack) \in Nat /\ (stack # <<>> => Len(stack) # 0)
      /\ packet_num \in Nat /\ LEN \in Nat /\ LEN >= 3 /\ CMD = -1 /\ FlashType
      /\ \A h \in Handlers : pos[h] \in Nat /\ Len(buf[h]) \in Nat /\ next[h] \in Int
      /\ pos \in [Handlers -> 0 .. BUFFER] /\ DOMAIN buf = Handlers
  <2>1. stack \in Seq(Frame) /\ Len(stack) \in Nat /\ (stack # <<>> => Len(stack) # 0)
    BY LenProperties, EmptySeq DEF TypeOK, StackType
  <2>2. packet_num \in Nat /\ LEN \in Nat /\ LEN >= 3 /\ CMD = -1 /\ FlashType
    BY ImageAssumption DEF TypeOK, CountType, CMD
  <2>3. pos \in [Handlers -> 0 .. BUFFER] /\ DOMAIN buf = Handlers
    BY DEF TypeOK, StreamType
  <2>4. ASSUME NEW h \in Handlers
        PROVE  pos[h] \in Nat /\ Len(buf[h]) \in Nat /\ next[h] \in Int
    <3>1. buf[h] \in Seq(CMD .. LEN - 1) /\ next[h] \in CMD .. LEN /\ pos[h] \in 0 .. BUFFER
      BY DEF TypeOK, StreamType
    <3> QED
      BY <2>2, <3>1, LenProperties, ImageAssumption
  <2> QED
    BY <2>1, <2>2, <2>3, <2>4
<1>s. 0 \in 0 .. SECTORS /\ 1 \in 0 .. SECTORS /\ LEN < U16 /\ U16 \in Nat
      /\ PACKETS \in Nat /\ SECTORS \in Nat
  BY ImageAssumption
<1>0. CASE EraseNext
  <2>1. ~ disturbed /\ UNCHANGED <<upload, state, streams>> /\ stack # <<>>
        /\ stack' = Become("erase", Top.usi + 1) /\ stack[Len(stack)].at = "erase"
        /\ block' = SectorErased(Top.usi)
    BY <1>0 DEF EraseNext, Top
  <2>2. Len(stack) = 1 /\ ftp_option
    <3>1. Len(stack) \in 1 .. Len(stack)
      BY <2>1, <1>t
    <3> QED
      BY <2>1, <3>1 DEF WithinInv, HandlerInv
  <2>3. Top.usi + 1 \in 0 .. SECTORS /\ Top.usi \in 0 .. SECTORS /\ Top = stack[1]
    BY <1>0, <2>2, NextSector DEF Top
  <2>4. /\ Len(stack') = 1 /\ stack'[1].at = "erase" /\ stack'[1].who = stack[1].who
        /\ stack'[1].usi = stack[1].usi + 1
    BY <2>1, <2>2, <2>3, <1>t, BecomeFacts
  <2>5. Erasing /\ Going /\ Erasing'
    BY <2>1, <2>2, <2>4 DEF Erasing, Going
  <2>6. \A h \in Handlers : /\ Start(h)' = Start(h) /\ Handled(h)' = Handled(h)
                            /\ (InOrder(h) => InOrder(h)')
    BY <2>1, <2>2, <2>4 DEF Start, Handled, InOrder
  <2>7. PICK o \in Handlers : Feeds(o) /\ \A h \in Handlers \ {o} : Waits(h)
    BY <2>1, <2>2, <2>5 DEF OrderInv, OwnerInv
  <2>8. ErasedTo(stack[1].usi) => ErasedTo(stack[1].usi)'
    <3>1. stack[1].usi \in Nat /\ block' = SectorErased(stack[1].usi)
      BY <1>s, <2>1, <2>3
    <3> QED
      BY <2>4, <3>1, ErasedFurther DEF ErasedTo
  <2>9. Feeds(o)'
    BY <2>1, <2>5, <2>6, <2>7, <2>8 DEF Feeds, Fed
  <2>10. \A h \in Handlers \ {o} : Waits(h)'
    BY <2>6, <2>7 DEF Waits
  <2>11. OwnerInv'
    BY <2>9, <2>10 DEF OwnerInv
  <2>12. QuietInv'
    BY <2>1, <2>4 DEF OrderInv, QuietInv
  <2>13. StartInv'
    BY <2>1, <2>6 DEF OrderInv, StartInv
  <2> QED
    BY <2>1, <2>6, <2>11, <2>12, <2>13 DEF OrderInv
<1>1. CASE EraseEnd
  <2>1. ~ disturbed /\ UNCHANGED <<fw_flag, ftp_option, fw_datalen, flash, state, streams>>
        /\ stack # <<>> /\ stack' = Become("loop", 0) /\ stack[Len(stack)].at = "erase"
        /\ packet_num' = Counted /\ stack[Len(stack)].usi = SECTORS
    BY <1>1 DEF EraseEnd, Top
  <2>2. Len(stack) = 1 /\ ftp_option /\ packet_num = 0
    <3>1. Len(stack) \in 1 .. Len(stack)
      BY <2>1, <1>t
    <3> QED
      BY <2>1, <3>1 DEF WithinInv, HandlerInv
  <2>3. packet_num' = 1
    BY <2>1, <2>2, <1>t, <1>s DEF Counted
  <2>4. Len(stack') = 1 /\ stack'[1].at = "loop" /\ stack'[1].who = stack[1].who
    BY <2>1, <2>2, <1>t, <1>s, BecomeFacts DEF Top
  <2>5. Erasing /\ Going /\ ~ Erasing'
    BY <2>1, <2>2, <2>4 DEF Erasing, Going
  <2>6. \A h \in Handlers : /\ Start(h)' = Start(h) /\ Handled(h)' = Handled(h)
                            /\ (InOrder(h) => InOrder(h)')
    BY <2>1, <2>2, <2>4 DEF Start, Handled, InOrder
  <2>7. PICK o \in Handlers : Feeds(o) /\ \A h \in Handlers \ {o} : Waits(h)
    BY <2>1, <2>2, <2>5 DEF OrderInv, OwnerInv
  <2>8. Feeds(o)'
    <3>1. Start(o) + Handled(o) = 1 /\ ErasedTo(SECTORS)
      BY <2>1, <2>2, <2>5, <2>7 DEF Feeds, Fed
    <3>2. Fits => FilledTo(1)'
      BY <2>1, <3>1, AllErased DEF FilledTo
    <3> QED
      BY <2>1, <2>3, <2>5, <2>6, <2>7, <3>1, <3>2 DEF Feeds, Fed
  <2>9. \A h \in Handlers \ {o} : Waits(h)'
    BY <2>6, <2>7 DEF Waits
  <2>10. OwnerInv'
    BY <2>8, <2>9 DEF OwnerInv
  <2>11. QuietInv'
    BY <2>1, <2>4 DEF OrderInv, QuietInv
  <2>12. StartInv'
    BY <2>1, <2>6 DEF OrderInv, StartInv
  <2> QED
    BY <2>1, <2>6, <2>10, <2>11, <2>12 DEF OrderInv
<1>2. ASSUME NEW h \in Handlers, Feed(h) PROVE OrderInv'
  <2>0. ~ disturbed /\ UNCHANGED <<ftp_option, next>> /\ ~ FeedCommand(h) /\ At(h)
    BY <1>2 DEF Feed, FeedCommand, FeedNothing, FeedFirst, FeedData, FeedLast, FeedEnd, Here
  <2>1. /\ Len(stack) = 1 /\ stack[1].who = h /\ stack[1].at = "loop" /\ stack # <<>>
        /\ ftp_option /\ fw_datalen = LEN /\ packet_num < LEN /\ Top.who = h
        /\ Handled(h) = pos[h] /\ \A g \in Handlers \ {h} : Handled(g) = 0
        /\ \E o \in Handlers : Feeds(o) /\ \A g \in Handlers \ {o} : Waits(g)
    BY <2>0, OnlyHandler
  <2>2. QuietInv /\ (\A g \in Handlers : InOrder(g)) /\ StartInv
    BY <2>0 DEF OrderInv
  <2>3. ASSUME NEW n \in Nat, n = packet_num + 1, Step(h), Here(h), Packets(h) # {}, UNCHANGED <<buf, state>>,
               Len(stack') = 1, stack'[1].at # "message", fw_flag' # 2,
               \/ stack'[1].at = "restart"
               \/ stack'[1].who = h /\ Fed(n)'
        PROVE  OrderInv'
    <3>1. /\ pos[h] < Len(buf[h]) /\ Start(h) + pos[h] = packet_num
          /\ \A g \in Handlers \ {h} : Waits(g)
      BY <2>0, <2>3, ExpectedPacket
    <3>2. \A g \in Handlers : Start(g)' = Start(g) /\ InOrder(g)'
      BY <2>0, <2>2, <2>3 DEF Start, InOrder
    <3>3. stack'[1].who = h
             => Handled(h)' = pos[h] + 1 /\ \A g \in Handlers \ {h} : Handled(g)' = 0
      BY <2>3, <1>t DEF Handled, Step
    <3>r. Going' => stack'[1].at # "restart" /\ stack'[1].who = h
      BY <2>3 DEF Going
    <3>4. Going' => Feeds(h)'
      <4> SUFFICES ASSUME Going' PROVE Feeds(h)'
        OBVIOUS
      <4>1. Handled(h)' <= Len(buf'[h])
        BY <1>t, <2>3, <3>1, <3>3, <3>r
      <4>2. Start(h)' + Handled(h)' = n
        BY <1>t, <2>3, <3>1, <3>2, <3>3, <3>r DEF Start
      <4>3. Fed(n)'
        BY <2>3, <3>r
      <4>4. Fed(Start(h) + Handled(h))'
        BY <4>2, <4>3 DEF Fed, FilledTo
      <4> QED
        BY <4>1, <4>4 DEF Feeds
    <3>5. Going' => \A g \in Handlers \ {h} : Waits(g)'
      BY <3>1, <3>2, <3>3, <3>r DEF Waits
    <3>6. OwnerInv'
      BY <3>4, <3>5 DEF OwnerInv
    <3>7. QuietInv' /\ StartInv'
      BY <2>0, <2>1, <2>2, <2>3, <3>2 DEF QuietInv, StartInv
    <3> QED
      BY <3>2, <3>6, <3>7 DEF OrderInv
  <2>4. CASE FeedNothing(h)
    <3>1. Here(h) /\ Packets(h) # {}
      BY <2>4 DEF FeedNothing
    <3>2. Packets(h) = {packet_num}
      BY <2>0, <3>1, ExpectedPacket
    <3>3. FALSE
      BY <2>2, <2>4, <3>2 DEF FeedNothing, QuietInv, Tagged
    <3> QED
      BY <3>3
  <2>5. CASE FeedFirst(h)
    <3>1. /\ Here(h) /\ Step(h) /\ Packets(h) # {} /\ packet_num = 0
          /\ stack' = Become("erase", 1) /\ UNCHANGED <<buf, state, fw_flag>>
          /\ block' = SectorErased(0)
      BY <2>5 DEF FeedFirst
    <3>2. /\ Len(stack') = 1 /\ stack'[1].at = "erase" /\ stack'[1].who = h
          /\ stack'[1].usi = 1
      BY <1>t, <1>s, <2>1, <3>1, BecomeFacts
    <3>3. PICK n \in Nat : n = packet_num + 1
      BY <1>t
    <3>4. ErasedTo(0)
      BY <1>t, <1>s DEF ErasedTo, Blocks
    <3>5. ErasedTo(stack[1].usi)'
      BY <3>1, <3>2, <3>4, ErasedFurther DEF ErasedTo
    <3>6. Fed(n)'
      BY <3>1, <3>2, <3>3, <3>5 DEF Fed, Erasing
    <3>7. stack'[1].at # "message" /\ fw_flag' # 2
      BY <2>2, <3>1, <3>2 DEF QuietInv
    <3> QED
      BY <2>3, <3>1, <3>2, <3>3, <3>6, <3>7
  <2>6. CASE FeedData(h)
    <3>1. PICK p \in Packets(h) : block' = Programmed(p)
      BY <2>6 DEF FeedData
    <3>2. /\ Here(h) /\ Step(h) /\ packet_num' = packet_num + 1
          /\ stack' = stack /\ UNCHANGED <<buf, state, fw_flag>> /\ packet_num > 0
      BY <1>t, <1>s, <2>1, <2>6 DEF FeedData, IsLast, Counted
    <3>3. Packets(h) = {packet_num} /\ (Fits => FilledTo(packet_num))
      BY <2>0, <3>1, <3>2, ExpectedPacket
    <3>4. Fits => \A b \in Blocks :
                    block'[b] = (IF b < packet_num + 1 THEN "right" ELSE "erased")
      BY <1>t, <3>1, <3>3, FilledFurther
    <3>5. PICK n \in Nat : n = packet_num + 1
      BY <1>t
    <3>6. Fed(n)'
      <4>1. ~ Erasing'
        BY <2>1, <3>2 DEF Erasing
      <4>2. Fits => FilledTo(n)'
        BY <3>4, <3>5 DEF FilledTo
      <4> QED
        BY <3>2, <3>5, <4>1, <4>2 DEF Fed
    <3>7. stack'[1].at # "message" /\ fw_flag' # 2
      BY <2>1, <2>2, <3>2 DEF QuietInv
    <3> QED
      BY <2>1, <2>3, <3>1, <3>2, <3>5, <3>6, <3>7
  <2>7. CASE FeedLast(h)
    <3>1. /\ Here(h) /\ Step(h) /\ Packets(h) # {} /\ stack' = Restarts
          /\ UNCHANGED <<buf, state>> /\ fw_flag' \in {0, 3}
      BY <2>7 DEF FeedLast
    <3>2. Len(stack') = 1 /\ stack'[1].at = "restart"
      BY <1>t, <2>1, <3>1, RestartsFacts
    <3>3. PICK n \in Nat : n = packet_num + 1
      BY <1>t
    <3> QED
      BY <2>3, <3>1, <3>2, <3>3
  <2>8. CASE FeedEnd(h)
    <3>1. /\ pos[h] >= Len(buf[h]) /\ stack' = Pop /\ UNCHANGED <<fw_flag, packet_num, block>>
          /\ buf' = [buf EXCEPT ![h] = <<>>] /\ state' = [state EXCEPT ![h] = "RECEIVE"]
      BY <2>8 DEF FeedEnd
    <3>2. Len(stack') = 0
      BY <1>t, <2>1, <3>1, PopFacts
    <3>3. PICK o \in Handlers : Feeds(o) /\ \A g \in Handlers \ {o} : Waits(g)
      BY <2>1
    <3>4. /\ Start(h)' = next[h] /\ Len(buf'[h]) = 0
          /\ \A g \in Handlers \ {h} : Start(g)' = Start(g) /\ buf'[g] = buf[g]
      BY <1>t, <2>0, <3>1, EmptySeq DEF Start
    <3>5. \A g \in Handlers : Handled(g)' = 0
      BY <3>2 DEF Handled
    <3>6. \A g \in Handlers : Handled(g) <= Len(buf[g]) => Start(g)' = Start(g) + Handled(g)
      BY <1>t, <2>1, <3>1, <3>4 DEF Start
    <3>7. ~ Erasing /\ ~ Erasing'
      BY <2>1, <3>2 DEF Erasing
    <3>8. Feeds(o)'
      <4>1. /\ Start(o)' + Handled(o)' = Start(o) + Handled(o) /\ Handled(o)' <= Len(buf'[o])
        BY <1>t, <2>1, <3>3, <3>4, <3>5, <3>6 DEF Feeds, Start
      <4> QED
        BY <3>1, <3>3, <3>7, <4>1 DEF Feeds, Fed, FilledTo
    <3>9. \A g \in Handlers \ {o} : Waits(g)'
      BY <1>t, <3>3, <3>5, <3>6 DEF Waits, Start
    <3>10. OwnerInv'
      BY <3>8, <3>9 DEF OwnerInv
    <3>11. \A g \in Handlers : InOrder(g)'
      BY <2>2, <3>4 DEF InOrder
    <3>12. QuietInv'
      BY <2>2, <3>1, <3>2 DEF QuietInv
    <3>13. StartInv'
      <4>1. state'["telnet"] = "LISTEN" => state["telnet"] = "LISTEN" /\ h # "telnet"
        BY <3>1 DEF TypeOK, StreamType, Handlers
      <4> QED
        BY <1>t, <2>0, <2>1, <2>2, <3>4, <4>1 DEF StartInv, Handlers
    <3> QED
      BY <3>10, <3>11, <3>12, <3>13 DEF OrderInv
  <2> QED
    BY <1>2, <2>0, <2>4, <2>5, <2>6, <2>7, <2>8 DEF Feed
<1> QED
  BY <1>0, <1>1, <1>2 DEF Erase

(* A step that leaves packets and streams alone keeps the order, also one  *)
(* that enters a system_restart.                                           *)
LEMMA OrderKept ==
  ASSUME TypeOK, OrderInv, ~ disturbed, fw_flag' # 2,
         UNCHANGED <<ftp_option, packet_num, block, next, buf, pos>>,
         state'["telnet"] = "LISTEN" => state["telnet"] = "LISTEN",
         stack' = stack \/ stack' = Push("main", "restart")
  PROVE  OrderInv'
<1>1. stack \in Seq(Frame) /\ Len(stack) \in Nat
  BY LenProperties DEF TypeOK, StackType
<1>2. QuietInv /\ (\A h \in Handlers : InOrder(h)) /\ StartInv /\ OwnerInv
  BY DEF OrderInv
<1>3. \A h \in Handlers : Start(h)' = Start(h) /\ InOrder(h)'
  BY <1>2 DEF Start, InOrder
<1>4. StartInv'
  BY <1>2, <1>3 DEF StartInv
<1>5. CASE stack' = stack
  <2>1. \A h \in Handlers : Handled(h)' = Handled(h)
    BY <1>5 DEF Handled
  <2>2. (Going' <=> Going) /\ (Erasing' <=> Erasing)
    BY <1>5 DEF Going, Erasing
  <2>3. \A h \in Handlers : Feeds(h) => Feeds(h)'
    BY <1>3, <1>5, <2>1, <2>2 DEF Feeds, Fed, ErasedTo, FilledTo
  <2>4. \A h \in Handlers : Waits(h) => Waits(h)'
    BY <1>3, <2>1 DEF Waits
  <2>5. OwnerInv'
    BY <1>2, <2>2, <2>3, <2>4 DEF OwnerInv
  <2>6. QuietInv'
    BY <1>2, <1>5 DEF QuietInv
  <2> QED
    BY <1>3, <1>4, <2>5, <2>6 DEF OrderInv
<1>6. CASE stack' = Push("main", "restart")
  <2>1. /\ Len(stack') = Len(stack) + 1 /\ stack'[Len(stack) + 1].at = "restart"
        /\ \A i \in 1 .. Len(stack) : stack'[i] = stack[i]
    BY <1>1, <1>6, PushFacts
  <2>2. QuietInv'
    BY <1>1, <1>2, <2>1 DEF QuietInv
  <2>3. CASE Len(stack) = 0
    BY <1>3, <1>4, <2>1, <2>2, <2>3 DEF OrderInv, OwnerInv, Going
  <2>4. CASE Len(stack) # 0
    <3>1. Len(stack) > 0 /\ Len(stack') > 0 /\ stack'[1] = stack[1]
      BY <1>1, <2>1, <2>4
    <3>2. \A h \in Handlers : Handled(h)' = Handled(h)
      BY <3>1 DEF Handled
    <3>3. (Going' <=> Going) /\ (Erasing' <=> Erasing)
      BY <3>1 DEF Going, Erasing
    <3>4. \A h \in Handlers : Feeds(h) => Feeds(h)'
      BY <1>3, <3>1, <3>2, <3>3 DEF Feeds, Fed, ErasedTo, FilledTo
    <3>5. \A h \in Handlers : Waits(h) => Waits(h)'
      BY <1>3, <3>2 DEF Waits
    <3>6. OwnerInv'
      BY <1>2, <3>3, <3>4, <3>5 DEF OwnerInv
    <3> QED
      BY <1>3, <1>4, <2>2, <3>6 DEF OrderInv
  <2> QED
    BY <2>3, <2>4
<1> QED
  BY <1>5, <1>6

(* A read, with the handler entered or not, or only its return to the      *)
(* first byte: what it has is in order, and begins where it began.         *)
LEMMA OrderRead ==
  ASSUME TypeOK, WithinInv, OrderInv, ~ disturbed, NEW h \in Handlers, NEW n \in Nat,
         h = "telnet" \/ ftp_option,
         next[h] \in Int, buf' = [buf EXCEPT ![h] = Taken(h, n)], next' = [next EXCEPT ![h] = @ + n],
         UNCHANGED <<upload, block>>, state["telnet"] # "LISTEN" \/ h = "client",
         state'["telnet"] = "LISTEN" => state["telnet"] = "LISTEN",
         \/ UNCHANGED <<stack, pos>>
         \/ stack = <<>> /\ stack' = Push(h, "loop") /\ pos' = [pos EXCEPT ![h] = 0]
  PROVE  OrderInv'
<1>1. /\ stack \in Seq(Frame) /\ Len(stack) \in Nat /\ (stack = <<>> => Len(stack) = 0)
  BY LenProperties, EmptySeq DEF TypeOK, StackType
<1>2. QuietInv /\ (\A g \in Handlers : InOrder(g)) /\ StartInv /\ OwnerInv
  BY DEF OrderInv
<1>3. ASSUME NEW g \in Handlers
      PROVE  next[g] \in Int /\ Len(buf[g]) \in Nat
  <2>1. buf[g] \in Seq(CMD .. LEN - 1) /\ next[g] \in CMD .. LEN
    BY DEF TypeOK, StreamType
  <2> QED
    BY <2>1, LenProperties, ImageAssumption DEF CMD
<1>4. /\ Len(buf'[h]) = Len(buf[h]) + n /\ next'[h] = next[h] + n
      /\ \A i \in 1 .. Len(buf'[h]) : buf'[h][i] = Start(h) + i - 1
      /\ \A g \in Handlers \ {h} : buf'[g] = buf[g] /\ next'[g] = next[g]
  <2>1. buf'[h] = Taken(h, n) /\ next'[h] = next[h] + n
        /\ \A g \in Handlers \ {h} : buf'[g] = buf[g] /\ next'[g] = next[g]
    BY DEF TypeOK, StreamType
  <2>2. Len(Taken(h, n)) = Len(buf[h]) + n
        /\ \A i \in 1 .. Len(Taken(h, n)) : Taken(h, n)[i] = Start(h) + i - 1
    BY <1>2, TakenOrder
  <2> QED
    BY <2>1, <2>2
<1>5. \A g \in Handlers : Start(g)' = Start(g)
  <2>1. Start(h)' = Start(h)
    BY <1>3, <1>4 DEF Start
  <2>2. \A g \in Handlers \ {h} : Start(g)' = Start(g)
    BY <1>4 DEF Start
  <2> QED
    BY <2>1, <2>2
<1>6. \A g \in Handlers : InOrder(g)'
  <2>1. InOrder(h)'
    BY <1>4, <1>5 DEF InOrder
  <2>2. \A g \in Handlers \ {h} : InOrder(g)'
    BY <1>2, <1>4, <1>5 DEF InOrder
  <2> QED
    BY <2>1, <2>2
<1>7. \A g \in Handlers : Len(buf'[g]) >= Len(buf[g])
  BY <1>3, <1>4
<1>8. StartInv'
  BY <1>2, <1>4, <1>5 DEF StartInv, upload, Handlers
<1>9. /\ \A g \in Handlers : Handled(g)' = Handled(g)
      /\ (Going' => Going) /\ (Erasing' <=> Erasing)
      /\ QuietInv'
  <2>1. CASE UNCHANGED <<stack, pos>>
    BY <1>2, <2>1 DEF Handled, Going, Erasing, QuietInv, upload
  <2>2. CASE stack = <<>> /\ stack' = Push(h, "loop") /\ pos' = [pos EXCEPT ![h] = 0]
    <3>1. Len(stack) = 0 /\ Len(stack') = 1 /\ stack'[1].at = "loop" /\ stack'[1].who = h
      BY <1>1, <2>2, PushFacts
    <3>2. pos'[h] = 0
      BY <2>2 DEF TypeOK, StreamType
    <3> QED
      BY <1>2, <3>1, <3>2 DEF Handled, Going, Erasing, QuietInv, upload
  <2> QED
    BY <2>1, <2>2
<1>10. OwnerInv'
  <2> SUFFICES ASSUME ftp_option', Going' PROVE OwnerInv'
    BY DEF OwnerInv
  <2>1. PICK o \in Handlers : Feeds(o) /\ \A g \in Handlers \ {o} : Waits(g)
    BY <1>2, <1>9 DEF OwnerInv, upload
  <2>2. Handled(o)' <= Len(buf'[o])
    <3>1. Handled(o) \in Int
      BY ImageAssumption DEF Handled, TypeOK, StreamType
    <3>2. Len(buf'[o]) \in Int
      BY <1>3, <1>4
    <3> QED
      BY <1>3, <1>7, <1>9, <2>1, <3>1, <3>2 DEF Feeds
  <2>3. Feeds(o)'
    <3>1. Erasing => stack' = stack
      BY <1>1 DEF Erasing
    <3>2. Start(o)' + Handled(o)' = Start(o) + Handled(o)
      BY <1>5, <1>9
    <3>3. Fed(Start(o) + Handled(o))
      BY <2>1 DEF Feeds
    <3>4. Fed(Start(o) + Handled(o))'
      BY <1>9, <3>1, <3>2, <3>3 DEF Fed, ErasedTo, FilledTo, upload
    <3> QED
      BY <2>2, <3>4 DEF Feeds
  <2>4. \A g \in Handlers \ {o} : Waits(g)'
    BY <1>5, <1>9, <2>1 DEF Waits
  <2> QED
    BY <2>3, <2>4 DEF OwnerInv
<1> QED
  BY <1>6, <1>8, <1>9, <1>10 DEF OrderInv

(* Once the announcement of a peer has been taken, its packets are next.   *)
LEMMA OrderAnnounced ==
  ASSUME TypeOK, WithinInv, OrderInv, ~ disturbed, NEW h \in Handlers, ~ ftp_option, Announce,
         buf'[h] = <<>>, next'[h] = 0,
         \A g \in Handlers \ {h} : buf'[g] = buf[g] /\ next'[g] = next[g],
         UNCHANGED <<block, stack, pos>>,
         state'["telnet"] # "LISTEN" \/ (UNCHANGED state /\ h = "client")
  PROVE  OrderInv'
<1>1. QuietInv /\ (\A g \in Handlers : InOrder(g)) /\ StartInv
  BY DEF OrderInv
<1>2. packet_num = 0 /\ HandlerInv
  BY DEF WithinInv
<1>3. Len(<<>>) = 0
  BY EmptySeq
<1>4. /\ Start(h)' = 0 /\ \A g \in Handlers \ {h} : Start(g)' = CMD
  <2>1. \A g \in Handlers \ {h} : Start(g)' = Start(g)
    BY DEF Start
  <2>2. \A g \in Handlers \ {h} : Start(g)' = CMD
    BY <1>1, <2>1 DEF StartInv
  <2>3. Len(buf'[h]) = 0
    BY <1>3
  <2>4. Start(h)' = next'[h] - Len(buf'[h])
    BY DEF Start
  <2>5. Start(h)' = 0
    BY <2>3, <2>4
  <2> QED
    BY <2>2, <2>5
<1>5. \A g \in Handlers : InOrder(g)'
  <2>1. InOrder(h)'
    BY <1>3 DEF InOrder
  <2>2. ASSUME NEW g \in Handlers \ {h} PROVE InOrder(g)'
    <3>1. Start(g)' = Start(g) /\ buf'[g] = buf[g] /\ InOrder(g)
      BY <1>1 DEF Start
    <3> QED
      BY <3>1 DEF InOrder
  <2> QED
    BY <2>1, <2>2
<1>6. QuietInv'
  BY <1>1 DEF QuietInv, Announce
<1>7. StartInv'
  BY <1>1 DEF StartInv, Announce, Handlers
<1>8. OwnerInv'
  <2> SUFFICES ASSUME Going' PROVE OwnerInv'
    BY DEF OwnerInv
  <2>1. Len(stack) \in Nat
    BY LenProperties DEF TypeOK, StackType
  <2>2. Len(stack) = 0
    <3>1. Len(stack) > 0 => 1 \in 1 .. Len(stack)
      BY <2>1
    <3> QED
      BY <1>2, <2>1, <3>1 DEF Going, HandlerInv
  <2>3. \A g \in Handlers : Handled(g)' = 0
    BY <2>2 DEF Handled
  <2>4. ~ Erasing'
    BY <2>2 DEF Erasing
  <2>5. Feeds(h)'
    BY <1>2, <1>3, <1>4, <2>3, <2>4 DEF Feeds, Fed, Announce
  <2>6. \A g \in Handlers \ {h} : Waits(g)'
    BY <1>4, <2>3 DEF Waits
  <2> QED
    BY <2>5, <2>6 DEF OwnerInv
<1> QED
  BY <1>5, <1>6, <1>7, <1>8 DEF OrderInv

(* The channels and the main loop keep the order, or disturb.              *)
LEMMA OtherOrder ==
  TypeOK /\ WithinInv /\ OrderInv
  /\ (TelnetPoll \/ TelnetLost \/ ClientPoll \/ FwCommand
      \/ Login \/ Logout \/ FwMenu \/ MainTimeout \/ EraseBoot) => OrderInv'
<1> SUFFICES ASSUME TypeOK, WithinInv, OrderInv, ~ disturbed',
                    TelnetPoll \/ TelnetLost \/ ClientPoll \/ FwCommand
                    \/ Login \/ Logout \/ FwMenu \/ MainTimeout \/ EraseBoot
             PROVE  OrderInv'
  BY DEF OrderInv
<1> USE DEF upload, flash, streams, session
<1>d. ~ disturbed
  BY Zenon
     DEF TelnetPoll, Listen, TelnetReceive, TelnetTimeout, TelnetLost, ExecuteLater,
         ExecuteCommand, ExecutePackets, Resume, WaitTimeout, Ended,
         ClientPoll, ClientInit, NoConnect, ClientSend, ClientWait, ClientClose, ClientGoes, ClientConnect,
         ClientGivesUp, ClientReceive, ClientRefuse, ClientPackets, ClientTimeout,
         FwCommand, Login, Logout, FwMenu, MainTimeout, EraseBoot
<1>q. QuietInv /\ (\A h \in Handlers : InOrder(h)) /\ StartInv
  BY <1>d DEF OrderInv
<1>t. /\ \A h \in Handlers : /\ next[h] \in CMD .. LEN /\ buf[h] \in Seq(CMD .. LEN - 1)
                             /\ Len(buf[h]) \in Nat /\ next[h] \in Int
      /\ state \in [Handlers -> States] /\ next \in [Handlers -> CMD .. LEN]
      /\ buf \in [Handlers -> Seq(CMD .. LEN - 1)] /\ pos \in [Handlers -> 0 .. BUFFER]
      /\ CMD = -1
  BY LenProperties, ImageAssumption DEF TypeOK, StreamType, CMD
<1>0. {"telnet", "client"} = Handlers
  BY DEF Handlers
<1>1. CASE \/ ExecuteLater \/ Resume \/ ClientInit \/ NoConnect \/ ClientSend \/ ClientWait \/ ClientClose
           \/ ClientGivesUp \/ FwCommand \/ Login \/ Logout \/ FwMenu
  <2>1. /\ UNCHANGED <<ftp_option, packet_num, block, next, buf, pos>>
        /\ fw_flag' \in {fw_flag, 1}
    BY <1>1 DEF ExecuteLater, Resume, ClientInit, NoConnect, ClientSend, ClientWait, ClientClose,
                ClientGoes, ClientGivesUp, FwCommand, Login, Logout, FwMenu
  <2>2. state'["telnet"] = "LISTEN" => state["telnet"] = "LISTEN"
    BY <1>1, <1>t, <1>0 DEF ExecuteLater, Resume, ClientInit, NoConnect, ClientSend, ClientWait, ClientClose,
                ClientGoes, ClientGivesUp, FwCommand, Login, Logout, FwMenu
  <2>3. stack' = stack \/ stack' = Push("main", "restart")
    BY <1>1, <1>0 DEF ExecuteLater, Resume, ClientInit, NoConnect, ClientSend, ClientWait, ClientClose,
                ClientGoes, ClientGivesUp, FwCommand, Login, Logout, FwMenu
  <2>4. fw_flag' # 2
    BY <1>q, <2>1 DEF QuietInv
  <2> QED
    BY <1>d, <2>1, <2>2, <2>3, <2>4, OrderKept
<1>2. CASE Listen
  <2>1. next["telnet"] = CMD /\ ~ ftp_option /\ buf' = [buf EXCEPT !["telnet"] = <<>>]
        /\ UNCHANGED <<upload, flash, next, pos, stack>>
        /\ state' = [state EXCEPT !["telnet"] = "RECEIVE"]
    BY <1>2, <1>q DEF Listen, StartInv
  <2>2. buf["telnet"] = <<>>
    BY <1>2, <1>q DEF Listen, StartInv
  <2>3. buf' = buf
    BY <1>t, <2>1, <2>2
  <2>4. state'["telnet"] = "RECEIVE"
    BY <1>t, <1>0, <2>1
  <2>5. fw_flag' # 2
    BY <1>q, <2>1 DEF QuietInv
  <2> QED
    BY <1>d, <2>1, <2>3, <2>4, <2>5, OrderKept
<1>3. CASE TelnetReceive
  <2>1. PICK n \in Reads("telnet") :
          /\ buf' = [buf EXCEPT !["telnet"] = Taken("telnet", n)]
          /\ next' = [next EXCEPT !["telnet"] = @ + n]
    BY <1>3 DEF TelnetReceive
  <2>2. n \in Nat
    BY <2>1, ImageAssumption DEF Reads
  <2>3. UNCHANGED <<upload, block, stack, pos>> /\ state["telnet"] # "LISTEN"
        /\ state'["telnet"] # "LISTEN"
    BY <1>3, <1>t, <1>0 DEF TelnetReceive
  <2> QED
    BY <1>d, <1>t, <1>0, <2>1, <2>2, <2>3, OrderRead
<1>4. CASE ExecuteCommand
  <2>1. /\ ~ ftp_option /\ Len(buf["telnet"]) = 1 /\ Announce
        /\ state' = [state EXCEPT !["telnet"] = "RECEIVE"]
        /\ UNCHANGED <<next, block, stack, pos>> /\ buf' = [buf EXCEPT !["telnet"] = <<>>]
    BY <1>4 DEF ExecuteCommand, Ended
  <2>2. next["telnet"] = 0
    <3>1. "telnet" \in Handlers
      BY <1>0
    <3>2. next["telnet"] - Len(buf["telnet"]) = CMD
      BY <1>q, <2>1, <3>1 DEF StartInv, Start
    <3> QED
      BY <1>t, <2>1, <3>1, <3>2
  <2>3. /\ "telnet" \in Handlers /\ next'["telnet"] = 0 /\ UNCHANGED <<block, stack, pos>>
        /\ buf'["telnet"] = <<>> /\ state'["telnet"] # "LISTEN"
        /\ \A g \in Handlers \ {"telnet"} : buf'[g] = buf[g] /\ next'[g] = next[g]
    BY <1>t, <1>0, <2>1, <2>2
  <2> QED
    BY <1>d, <2>1, <2>3, OrderAnnounced
<1>5. CASE ExecutePackets
  <2>1. /\ stack = <<>> /\ stack' = Push("telnet", "loop") /\ pos' = [pos EXCEPT !["telnet"] = 0]
        /\ UNCHANGED <<upload, block, next, buf>> /\ state["telnet"] = "EXECUTE"
        /\ state' = [state EXCEPT !["telnet"] = "WAIT"]
    BY <1>5 DEF ExecutePackets
  <2>2. state'["telnet"] # "LISTEN"
    BY <1>t, <1>0, <2>1
  <2>3. buf' = [buf EXCEPT !["telnet"] = Taken("telnet", 0)]
        /\ next' = [next EXCEPT !["telnet"] = @ + 0]
    <3>1. Taken("telnet", 0) = buf["telnet"]
      <4> DEFINE none == [i \in 1 .. 0 |-> next["telnet"] + i - 1]
      <4>1. none = <<>>
        BY DEF none
      <4> HIDE DEF none
      <4>2. buf["telnet"] \o none = buf["telnet"]
        BY <1>t, <1>0, <4>1
      <4> QED
        BY <4>2 DEF Taken, none
    <3>2. buf' = [buf EXCEPT !["telnet"] = Taken("telnet", 0)]
      BY <1>t, <2>1, <3>1
    <3>3. next["telnet"] + 0 = next["telnet"]
      BY <1>t, <1>0
    <3>4. next' = [next EXCEPT !["telnet"] = @ + 0]
      BY <1>t, <2>1, <3>3
    <3> QED
      BY <3>2, <3>4
  <2> QED
    BY <1>d, <1>t, <1>0, <2>1, <2>2, <2>3, OrderRead
<1>6. CASE ClientConnect
  <2>1. ~ ftp_option /\ next' = [next EXCEPT !["client"] = CMD]
        /\ state' = [state EXCEPT !["client"] = "SEND"]
        /\ UNCHANGED <<upload, flash, buf, pos, stack>>
    BY <1>6 DEF ClientConnect
  <2>2. next["client"] = CMD
    BY <1>q, <1>t, <1>0, <2>1, EmptySeq DEF StartInv, Start
  <2>3. next' = next /\ state'["telnet"] = state["telnet"]
    BY <1>t, <1>0, <2>1, <2>2
  <2>4. fw_flag' # 2
    BY <1>q, <2>1 DEF QuietInv
  <2> QED
    BY <1>d, <2>1, <2>3, <2>4, OrderKept
<1>7. CASE ClientReceive
  <2>1. PICK n \in Reads("client") :
          /\ next' = [next EXCEPT !["client"] = @ + n]
          /\ disturbed' = (disturbed \/ n > 1 \/ buf["client"] # <<>>)
    BY <1>7 DEF ClientReceive
  <2>2. n = 1
    <3>1. ~ n > 1
      BY <2>1
    <3> QED
      BY <2>1, <3>1, ImageAssumption DEF Reads
  <2>3. /\ ~ ftp_option /\ Announce /\ UNCHANGED <<block, state, pos, stack>>
        /\ buf' = [buf EXCEPT !["client"] = <<>>]
    BY <1>7 DEF ClientReceive
  <2>4. buf["client"] = <<>> /\ next["client"] = CMD /\ buf' = buf
    BY <1>q, <1>t, <1>0, <2>3, EmptySeq DEF StartInv, Start
  <2>5. next'["client"] = 0 /\ \A g \in Handlers \ {"client"} : next'[g] = next[g]
    BY <1>t, <1>0, <2>1, <2>2, <2>4
  <2> QED
    BY <1>d, <1>0, <2>3, <2>4, <2>5, OrderAnnounced
<1>8. CASE ClientPackets
  <2>1. PICK n \in Reads("client") \union {0} :
          /\ buf' = [buf EXCEPT !["client"] = Taken("client", n)]
          /\ next' = [next EXCEPT !["client"] = @ + n]
    BY <1>8 DEF ClientPackets
  <2>2. n \in Nat
    BY <2>1, ImageAssumption DEF Reads
  <2>3. /\ ftp_option /\ stack = <<>> /\ stack' = Push("client", "loop")
        /\ pos' = [pos EXCEPT !["client"] = 0] /\ UNCHANGED <<upload, block, state>>
    BY <1>8 DEF ClientPackets
  <2> QED
    BY <1>d, <1>t, <1>0, <2>1, <2>2, <2>3, OrderRead
<1>9. ~ (MainTimeout \/ EraseBoot \/ TelnetTimeout \/ TelnetLost \/ WaitTimeout
         \/ ClientTimeout \/ ClientRefuse)
  <2>1. ~ (TelnetTimeout \/ TelnetLost \/ WaitTimeout \/ ClientTimeout \/ ClientRefuse)
    BY DEF TelnetTimeout, TelnetLost, WaitTimeout, ClientTimeout, ClientRefuse, Ended
  <2>2. ~ MainTimeout
    BY <1>q DEF MainTimeout, QuietInv
  <2>3. ~ EraseBoot
    <3> SUFFICES ASSUME EraseBoot PROVE FALSE
      OBVIOUS
    <3>1. stack # <<>> /\ stack[Len(stack)].at = "message"
      BY DEF EraseBoot, Top
    <3>2. Len(stack) \in 1 .. Len(stack)
      BY <3>1, LenProperties, EmptySeq DEF TypeOK, StackType
    <3> QED
      BY <1>q, <3>1, <3>2 DEF QuietInv
  <2> QED
    BY <2>1, <2>2, <2>3
<1> QED
  BY <1>1, <1>2, <1>3, <1>4, <1>5, <1>6, <1>7, <1>8, <1>9 DEF TelnetPoll, ClientPoll

(* Together: every step keeps what WithinImage rests on, and the order.    *)
LEMMA NextOrder ==
  TypeOK /\ WithinInv /\ OrderInv /\ [Next]_vars => WithinInv' /\ OrderInv'
<1> SUFFICES ASSUME TypeOK, WithinInv, OrderInv, [Next]_vars PROVE WithinInv' /\ OrderInv'
  OBVIOUS
<1>1. CASE UNCHANGED vars
  <2>1. WithinInv'
    BY <1>1 DEF vars, upload, WithinInv, HandlerInv
  <2>2. UNCHANGED <<upload, flash, state, streams, stack, disturbed>>
    BY <1>1 DEF vars
  <2>3. \A h \in Handlers : Start(h)' = Start(h) /\ Handled(h)' = Handled(h)
    BY <2>2 DEF Start, Handled, streams
  <2>4. (Going' <=> Going) /\ (Erasing' <=> Erasing)
    BY <2>2 DEF Going, Erasing
  <2>5. \A h \in Handlers : /\ (InOrder(h) => InOrder(h)') /\ (Feeds(h) => Feeds(h)')
                            /\ (Waits(h) => Waits(h)')
    BY <2>2, <2>3, <2>4
       DEF InOrder, Feeds, Fed, ErasedTo, Waits, FilledTo, upload, flash, streams
  <2>6. OwnerInv => OwnerInv'
    BY <2>2, <2>4, <2>5 DEF OwnerInv, upload
  <2>7. (QuietInv => QuietInv') /\ (StartInv => StartInv')
    BY <2>2, <2>3 DEF QuietInv, StartInv, upload, streams
  <2>8. OrderInv'
    BY <2>2, <2>5, <2>6, <2>7 DEF OrderInv
  <2> QED
    BY <2>1, <2>8
<1>2. CASE Restart
  <2>1. WithinInv'
    BY <1>2, EmptySeq DEF Restart, WithinInv, HandlerInv
  <2>2. Len(<<>>) = 0
    BY EmptySeq
  <2>3. /\ fw_flag' = 0 /\ ftp_option' = FALSE /\ stack' = <<>>
        /\ \A h \in Handlers : next'[h] = CMD /\ buf'[h] = <<>>
    BY <1>2 DEF Restart, Volatile
  <2>4. \A h \in Handlers : InOrder(h)' /\ Start(h)' = CMD
    BY <2>2, <2>3 DEF InOrder, Start, CMD
  <2>5. QuietInv' /\ StartInv' /\ OwnerInv'
    BY <2>2, <2>3, <2>4 DEF QuietInv, StartInv, OwnerInv, Handlers
  <2> QED
    BY <2>1, <2>4, <2>5 DEF OrderInv
<1> QED
  BY <1>1, <1>2, FeedWithin, OtherWithin, FeedOrder, OtherOrder DEF Next, PowerFails, Watchdog

(* An upload of an image that the boot block has room for, over one        *)
(* connection and with no handler entered in another, that comes to its    *)
(* last packet is marked and not refused.                                  *)
THEOREM AcceptedCorrect == Spec => UploadAccepted
<1>1. Init => WithinInv /\ OrderInv
  <2> SUFFICES ASSUME Init PROVE WithinInv /\ OrderInv
    OBVIOUS
  <2>1. WithinInv
    BY EmptySeq DEF Init, WithinInv, HandlerInv
  <2>2. Len(<<>>) = 0
    BY EmptySeq
  <2>3. /\ fw_flag = 0 /\ ftp_option = FALSE /\ stack = <<>>
        /\ \A h \in Handlers : next[h] = CMD /\ buf[h] = <<>>
    BY DEF Init, Volatile
  <2>4. \A h \in Handlers : InOrder(h) /\ Start(h) = CMD
    BY <2>2, <2>3 DEF InOrder, Start, CMD
  <2>5. QuietInv /\ StartInv /\ OwnerInv
    BY <2>2, <2>3, <2>4 DEF QuietInv, StartInv, OwnerInv, Handlers
  <2> QED
    BY <2>1, <2>4, <2>5 DEF OrderInv
<1>2. TypeOK /\ WithinInv /\ OrderInv /\ [Next]_vars
        => [Fits /\ fw_flag = 1 /\ fw_flag' = 0 /\ stack' # <<>> => disturbed]_vars
  <2> SUFFICES ASSUME TypeOK, WithinInv, OrderInv, Next,
                      Fits, fw_flag = 1, fw_flag' = 0, stack' # <<>>, ~ disturbed
               PROVE  FALSE
    OBVIOUS
  <2>1. PICK h \in Handlers : FeedLast(h)
    <3>1. ~ (PowerFails \/ Watchdog)
      BY DEF PowerFails, Watchdog, Restart
    <3>2. ~ (Login \/ Logout \/ FwMenu \/ MainTimeout \/ EraseBoot \/ Erase \/ FwCommand)
      BY DEF Login, Logout, FwMenu, MainTimeout, EraseBoot, Erase, EraseNext, EraseEnd,
             FwCommand, upload
    <3>3. ~ (TelnetPoll \/ TelnetLost)
      BY DEF TelnetPoll, Listen, TelnetReceive, TelnetTimeout, TelnetLost, ExecuteLater,
             ExecuteCommand, Announce, ExecutePackets, Resume, WaitTimeout, upload
    <3>4. ~ ClientPoll
      BY DEF ClientPoll, ClientInit, NoConnect, ClientSend, ClientWait, ClientClose, ClientGoes,
             ClientConnect, ClientGivesUp, ClientReceive, ClientRefuse, Announce,
             ClientPackets, ClientTimeout, upload
    <3>5. PICK h \in Handlers : Feed(h)
      BY <3>1, <3>2, <3>3, <3>4 DEF Next
    <3>6. ~ (FeedCommand(h) \/ FeedNothing(h) \/ FeedFirst(h) \/ FeedData(h) \/ FeedEnd(h))
      BY DEF FeedCommand, FeedNothing, FeedFirst, FeedData, FeedEnd, upload
    <3> QED
      BY <3>5, <3>6 DEF Feed
  <2>2. PICK p \in Packets(h) : fw_flag' = (IF Whole(p) THEN 3 ELSE 0)
    BY <2>1 DEF FeedLast
  <2>3. Here(h) /\ packet_num > 0 /\ packet_num + 1 = fw_datalen
    BY <2>1 DEF FeedLast, IsLast
  <2>4. p = packet_num /\ FilledTo(packet_num)
    BY <2>2, <2>3, ExpectedPacket
  <2>5. fw_datalen = LEN
    BY <2>3, OnlyHandler DEF Here
  <2>6. Whole(p)
    <3>1. packet_num \in Nat /\ LEN \in Nat
      BY ImageAssumption DEF TypeOK, CountType
    <3>2. \A b \in 1 .. fw_datalen - 2 : b \in Blocks /\ b < packet_num
      BY <2>3, <2>5, <3>1 DEF Blocks
    <3> QED
      BY <2>3, <2>4, <2>5, <3>1, <3>2 DEF Whole, FilledTo
  <2> QED
    BY <2>2, <2>6
<1> QED
  BY <1>1, <1>2, NextOrder, TypeCorrect, PTL DEF Spec, UploadAccepted
=============================================================================
