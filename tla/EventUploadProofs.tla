------------------------- MODULE EventUploadProofs --------------------------
(***************************************************************************)
(* Proofs about EventUpload, for every size of the ring and of a sector    *)
(* and any number of events: types, the agreement of ring, client and      *)
(* server (IInv), the safety properties, and that the log and its client   *)
(* implement the queue of EventQueue.  Then, with resets: the ring under   *)
(* any outage (HarshInv), what the boot scans find in it, and the backlog  *)
(* that a reset keeps (ResetInv).                                          *)
(***************************************************************************)
EXTENDS EventUpload, WellFoundedInduction, TLAPS

(* Quotient and remainder, for the slots of a sector.                      *)
LEMMA DivFacts ==
  ASSUME NEW i \in Nat, NEW d \in Nat \ {0}
  PROVE  /\ i \div d \in Nat /\ i % d \in 0 .. d - 1
         /\ i = d * (i \div d) + (i % d)
BY SMTT(30)

(* Multiples of d are at least d apart.                                    *)
LEMMA MulStep ==
  ASSUME NEW a \in Nat, NEW b \in Nat, NEW d \in Nat \ {0}, a < b
  PROVE  d * a + d <= d * b
BY SMTT(30)

(* A sector is the SECTOR slots from its first one on.                     *)
LEMMA SectorRange ==
  ASSUME NEW i \in Slots, NEW s \in Slots, AtSectorStart(s)
  PROVE  SectorOf(i) = SectorOf(s) <=> s <= i /\ i < s + SECTOR
<1> USE SectorAssumption DEF SectorOf, AtSectorStart, Slots
<1>1. i \in Nat /\ s \in Nat /\ SECTOR \in Nat \ {0}
  BY MaxEventsAssumption
<1> DEFINE a == i \div SECTOR  b == s \div SECTOR
<1>2. /\ a \in Nat /\ i % SECTOR \in 0 .. SECTOR - 1 /\ i = SECTOR * a + (i % SECTOR)
      /\ b \in Nat /\ s = SECTOR * b
  <2>1. a \in Nat /\ i % SECTOR \in 0 .. SECTOR - 1 /\ i = SECTOR * a + (i % SECTOR)
    BY <1>1, DivFacts
  <2>2. b \in Nat /\ s = SECTOR * b + (s % SECTOR)
    BY <1>1, DivFacts
  <2>3. s % SECTOR = 0
    BY DEF AtSectorStart
  <2>4. SECTOR * b \in Nat
    BY <1>1, <2>2
  <2> HIDE DEF a, b
  <2> QED
    BY <2>1, <2>2, <2>3, <2>4
<1>3. a = b => s <= i /\ i < s + SECTOR
  BY <1>1, <1>2
<1>4. a < b => SECTOR * a + SECTOR <= SECTOR * b
  BY <1>1, <1>2, MulStep
<1>5. b < a => SECTOR * b + SECTOR <= SECTOR * a
  BY <1>1, <1>2, MulStep
<1>6. SECTOR * a \in Nat /\ SECTOR * b \in Nat
  BY <1>1, <1>2
<1> HIDE DEF a, b
<1>7. a # b => ~ (s <= i /\ i < s + SECTOR)
  BY <1>1, <1>2, <1>4, <1>5, <1>6
<1> QED
  BY <1>3, <1>7 DEF a, b

(* The next slot is in the same sector unless a sector starts there.       *)
LEMMA SectorStep ==
  ASSUME NEW i \in Slots, i < MAX_EVENTS, ~ AtSectorStart(i + 1)
  PROVE  SectorOf(i + 1) = SectorOf(i)
<1> USE SectorAssumption DEF SectorOf, AtSectorStart, Slots
<1>1. i \in Nat /\ i + 1 \in Nat /\ SECTOR \in Nat \ {0}
  BY MaxEventsAssumption
<1> DEFINE a == i \div SECTOR  b == (i + 1) \div SECTOR
<1>2. /\ a \in Nat /\ i % SECTOR \in 0 .. SECTOR - 1 /\ i = SECTOR * a + (i % SECTOR)
  BY <1>1, DivFacts
<1>3. /\ b \in Nat /\ (i + 1) % SECTOR \in 0 .. SECTOR - 1
      /\ i + 1 = SECTOR * b + ((i + 1) % SECTOR)
  BY <1>1, DivFacts
<1>4. a < b => SECTOR * a + SECTOR <= SECTOR * b
  BY <1>1, <1>2, <1>3, MulStep
<1>5. b < a => SECTOR * b + SECTOR <= SECTOR * a
  BY <1>1, <1>2, <1>3, MulStep
<1>6. SECTOR * a \in Nat /\ SECTOR * b \in Nat /\ (i + 1) % SECTOR # 0
  BY <1>1, <1>2, <1>3
<1> HIDE DEF a, b
<1> QED
  BY <1>1, <1>2, <1>3, <1>4, <1>5, <1>6 DEF a, b

(* A record programmed over a record is a record.                          *)
LEMMA ProgramType ==
  ASSUME NEW l \in [Slots -> Record], NEW i \in Slots, NEW r \in Record
  PROVE  Program(l, i, r) \in [Slots -> Record]
BY DEF Program, Record, FlashAnd, FF, AA, Zero

(* An erased sector holds records.                                         *)
LEMMA EraseType ==
  ASSUME NEW l \in [Slots -> Record], NEW i \in Slots
  PROVE  EraseSector(l, i) \in [Slots -> Record]
BY DEF EraseSector, Erased, Record, FF

(* The next slot is a slot: the pointers wrap within the ring.             *)
LEMMA NextSlotType ==
  ASSUME NEW i \in Slots
  PROVE  NextSlot(i) \in Slots
BY MaxEventsAssumption DEF NextSlot, Slots

(* The type invariant holds in the initial state and every step keeps it,  *)
(* also the steps of an outage.                                            *)
LEMMA InitType == Init => TypeOK
<1> SUFFICES ASSUME Init PROVE TypeOK
  OBVIOUS
<1>1. 0 \in Slots
  BY MaxEventsAssumption DEF Slots
<1>2. Erased \in Record
  BY DEF Erased, Record, FF
<1>3. log \in [Slots -> Record]
  BY <1>2 DEF Init
<1>4. frame \in Frame
  BY <1>1 DEF Init, Frame, FF
<1> QED
  BY <1>1, <1>3, <1>4 DEF Init, TypeOK, ClientStates, ConnStates

(* The first half of prot_log_event keeps the types.                       *)
LEMMA LogWriteType == TypeOK /\ LogWrite => TypeOK'
<1> SUFFICES ASSUME TypeOK, LogWrite PROVE TypeOK'
  OBVIOUS
<1> DEFINE base == IF AtSectorStart(glast_event) THEN EraseSector(log, glast_event)
                   ELSE log
<1>1. base \in [Slots -> Record]
  BY EraseType DEF TypeOK
<1>2. Unsent(nlogged + 1) \in Record
  BY DEF TypeOK, Unsent, Record
<1>3. Program(base, glast_event, Unsent(nlogged + 1)) \in [Slots -> Record]
  BY <1>1, <1>2, ProgramType DEF TypeOK
<1>4. log' \in [Slots -> Record]
  BY <1>3 DEF LogWrite
<1> QED
  BY <1>4 DEF TypeOK, LogWrite, clientVars, netVars

(* So does its second half, which moves the writer's pointer.              *)
LEMMA LogAdvanceType == TypeOK /\ LogAdvance => TypeOK'
BY NextSlotType DEF TypeOK, LogAdvance, clientVars, netVars, history

(* Every state of the event client keeps the types.                        *)
LEMMA ClientType == TypeOK /\ Client => TypeOK'
<1> SUFFICES ASSUME TypeOK, Client PROVE TypeOK'
  OBVIOUS
<1> USE DEF TypeOK, ClientStates, ConnStates, logVars, netVars, history, clientVars
<1>p. Packet \in Frame
  BY DEF Packet, Frame, Record
<1>1. CASE StateInit
  BY <1>1, NextSlotType DEF StateInit
<1>2. ASSUME NEW outcome \in {"open", "opening", "closed"}, StateConnect(outcome)
      PROVE  TypeOK'
  BY <1>2 DEF StateConnect
<1>3. CASE SendOk
  BY <1>3, <1>p DEF SendOk
<1>4. CASE SendAgain
  BY <1>4, <1>p DEF SendAgain
<1>5. CASE SendFail
  BY <1>5, <1>p DEF SendFail
<1>6. CASE Receive
  <2>1. [log[glast_event_check] EXCEPT !.sent = Zero] \in Record
    BY DEF Record
  <2>2. Program(log, glast_event_check, [log[glast_event_check] EXCEPT !.sent = Zero])
          \in [Slots -> Record]
    BY <2>1, ProgramType
  <2>3. /\ log' \in [Slots -> Record] /\ glast_event_check' \in Slots
        /\ confirmed' \in Nat
    BY <1>6, <2>2, NextSlotType DEF Receive, CheckEventReceive
  <2> QED
    BY <1>6, <2>3 DEF Receive
<1>7. CASE ReceiveTimeout
  BY <1>7 DEF ReceiveTimeout
<1>8. CASE StateClose
  BY <1>8 DEF StateClose, Abandon
<1> QED
  BY <1>1, <1>2, <1>3, <1>4, <1>5, <1>6, <1>7, <1>8 DEF Client

(* So does every step of the network and the server.                       *)
LEMMA WorldType == TypeOK /\ World => TypeOK'
<1> SUFFICES ASSUME TypeOK, World PROVE TypeOK'
  OBVIOUS
<1> USE DEF TypeOK, ConnStates, logVars, netVars, history, clientVars, Frame
<1>1. CASE Establish
  BY <1>1 DEF Establish
<1>2. CASE Serve
  BY <1>2 DEF Serve
<1>3. CASE ServeBadly
  BY <1>3 DEF ServeBadly
<1>4. ASSUME NEW f \in stray, LateArrival(f) PROVE TypeOK'
  BY <1>4 DEF LateArrival
<1>5. ASSUME NEW f \in stray, Loss(f) PROVE TypeOK'
  BY <1>5 DEF Loss
<1> QED
  BY <1>1, <1>2, <1>3, <1>4, <1>5 DEF World

(* Together: every step keeps the types.                                   *)
LEMMA NextType == TypeOK /\ [Next]_vars => TypeOK'
<1> SUFFICES ASSUME TypeOK, [Next]_vars PROVE TypeOK'
  OBVIOUS
<1>1. CASE SetHold
  BY <1>1 DEF SetHold, TypeOK, logVars, netVars, history, clientVars
<1>2. CASE UNCHANGED vars
  BY <1>2 DEF vars, TypeOK, logVars, netVars, history, clientVars
<1> QED
  BY <1>1, <1>2, LogWriteType, LogAdvanceType, ClientType, WorldType DEF Next

(* Every variable keeps its type: the pointers stay within the ring.       *)
THEOREM TypeCorrect == Spec => []TypeOK
BY InitType, NextType, PTL DEF Spec

-----------------------------------------------------------------------------
(* The window from the reader's pointer to the tip holds the events that   *)
(* are logged and not confirmed, in order, each unsent and intact; and the *)
(* reader does not pass the writer while prot_log_event is under way.      *)
WindowInv ==
  /\ writing => NextSlot(glast_event) # glast_event_check
  /\ nlogged = confirmed + Ahead(Tip)
  /\ \A i \in Slots : Pending(i) => log[i] = Unsent(confirmed + 1 + Ahead(i))

(* The rest of the tip's sector is erased, unless the sector is still to   *)
(* be entered and erased.                                                  *)
FreeInv ==
  ~ AtSectorStart(Tip) =>
     \A i \in Slots : SectorOf(i) = SectorOf(Tip) /\ i >= Tip => log[i] = Erased

(* The frame is the one of the oldest pending event.                       *)
Current(f) == f.mid = glast_event_check /\ f.ev = confirmed + 1

ClientInv ==
  /\ state \in {"CONNECT", "SEND", "WAIT", "RECEIVE"} \/ conn \in {"sent", "answered"} =>
       Pending(glast_event_check) /\ glast_event_check # glast_event
  /\ state \in {"IDEAL", "CONNECT"} => conn = "closed"
  /\ state = "SEND" => conn \in {"opening", "open"}
  /\ event_first_flag => state = "SEND" /\ Current(frame)
  /\ conn \in {"sent", "answered"} => Current(frame)
  /\ reply # NoSlot => conn = "answered" /\ confirmed + 1 \in delivered

(* The server has the confirmed events, perhaps the next one, and nothing  *)
(* else is on its way to it.                                               *)
ServerInv ==
  /\ 1 .. confirmed \subseteq delivered
  /\ \A e \in delivered : 1 <= e /\ e <= confirmed + 1 /\ e <= nlogged
  /\ \A f \in stray : 1 <= f.ev /\ f.ev <= confirmed + 1 /\ f.ev <= nlogged

IInv == TypeOK /\ WindowInv /\ FreeInv /\ ClientInv /\ ServerInv /\ SentMeansDelivered

(* The strengthened invariant holds with an empty ring.                    *)
LEMMA InitIInv == Init => IInv
<1> SUFFICES ASSUME Init PROVE IInv
  OBVIOUS
<1>1. TypeOK
  BY InitType
<1>2. Ahead(Tip) = 0
  BY DEF Init, Tip, Ahead
<1>3. \A i \in Slots : ~ Pending(i)
  BY <1>2, MaxEventsAssumption DEF Init, Pending, Ahead, Slots
<1>4. WindowInv /\ FreeInv
  BY <1>2, <1>3 DEF Init, WindowInv, FreeInv
<1>5. ClientInv /\ ServerInv
  BY <1>1 DEF Init, ClientInv, ServerInv, TypeOK
<1>6. SentMeansDelivered
  BY DEF Init, SentMeansDelivered, Erased, FF, Zero
<1> QED
  BY <1>1, <1>4, <1>5, <1>6 DEF IInv

(* A step that leaves the log, the pointers and the counts alone keeps the *)
(* ring in order; the server only ever gains events.                       *)
LEMMA RingKept ==
  ASSUME IInv, UNCHANGED <<logVars, writing, history>>, delivered \subseteq delivered'
  PROVE  WindowInv' /\ FreeInv' /\ SentMeansDelivered'
BY DEF IInv, WindowInv, FreeInv, SentMeansDelivered, Pending, Ahead, Tip, logVars, history

(* The window is not empty as soon as the reader's slot pends, and then    *)
(* that slot holds the oldest event that is not confirmed.                 *)
LEMMA PendingHead ==
  ASSUME IInv, Pending(glast_event_check)
  PROVE  /\ log[glast_event_check] = Unsent(confirmed + 1)
         /\ confirmed + 1 <= nlogged
<1> USE DEF IInv, TypeOK
<1>1. Ahead(glast_event_check) = 0
  BY DEF Ahead, Slots
<1>2. Ahead(Tip) \in Int
  <2>1. Tip \in Slots
    BY NextSlotType DEF Tip
  <2> QED
    BY <2>1, MaxEventsAssumption DEF Ahead, Slots
<1>3. confirmed + 1 + 0 = confirmed + 1
  OBVIOUS
<1> QED
  BY <1>1, <1>2, <1>3, MaxEventsAssumption DEF WindowInv, Pending

(* The reader's pointer differs from the writer's only over a pending slot.*)
LEMMA ReaderBehind ==
  ASSUME IInv, glast_event_check # glast_event
  PROVE  Pending(glast_event_check)
BY MaxEventsAssumption DEF IInv, WindowInv, TypeOK, Slots, Pending, Ahead, Tip, NextSlot

(* Steps of the network and the server.                                    *)
LEMMA WorldIInv == IInv /\ World => IInv'
<1> SUFFICES ASSUME IInv, World PROVE IInv'
  OBVIOUS
<1>t. TypeOK'
  BY WorldType DEF IInv
<1>k. Pending(glast_event_check) => confirmed + 1 <= nlogged
  BY PendingHead
<1> USE DEF logVars, clientVars, netVars, history
<1>1. CASE Establish
  <2>1. WindowInv' /\ FreeInv' /\ SentMeansDelivered'
    BY <1>1, RingKept DEF Establish
  <2>2. ClientInv' /\ ServerInv'
    BY <1>1 DEF Establish, IInv, ClientInv, ServerInv, Current, Pending, Ahead, Tip
  <2> QED
    BY <1>t, <2>1, <2>2 DEF IInv
<1>2. CASE Serve
  <2>1. WindowInv' /\ FreeInv' /\ SentMeansDelivered'
    BY <1>2, RingKept DEF Serve
  <2>2. frame.ev = confirmed + 1 /\ confirmed + 1 <= nlogged
    BY <1>2, <1>k DEF Serve, IInv, ClientInv, Current
  <2>3. ClientInv'
    BY <1>2, <2>2 DEF Serve, IInv, ClientInv, Current, Pending, Ahead, Tip
  <2>4. ServerInv'
    BY <1>2, <2>2 DEF Serve, IInv, TypeOK, ServerInv
  <2> QED
    BY <1>t, <2>1, <2>3, <2>4 DEF IInv
<1>3. CASE ServeBadly
  <2>1. WindowInv' /\ FreeInv' /\ SentMeansDelivered'
    BY <1>3, RingKept DEF ServeBadly
  <2>2. frame.ev = confirmed + 1 /\ confirmed + 1 <= nlogged
    BY <1>3, <1>k DEF ServeBadly, IInv, ClientInv, Current
  <2>3. ClientInv'
    BY <1>3, <2>2 DEF ServeBadly, IInv, ClientInv, Current, Pending, Ahead, Tip
  <2>4. ServerInv'
    BY <1>3, <2>2 DEF ServeBadly, IInv, TypeOK, ServerInv
  <2> QED
    BY <1>t, <2>1, <2>3, <2>4 DEF IInv
<1>4. ASSUME NEW f \in stray, LateArrival(f) PROVE IInv'
  <2>1. WindowInv' /\ FreeInv' /\ SentMeansDelivered'
    BY <1>4, RingKept DEF LateArrival
  <2>2. ClientInv' /\ ServerInv'
    BY <1>4 DEF LateArrival, IInv, TypeOK, ClientInv, ServerInv, Current, Pending, Ahead, Tip
  <2> QED
    BY <1>t, <2>1, <2>2 DEF IInv
<1>5. ASSUME NEW f \in stray, Loss(f) PROVE IInv'
  <2>1. WindowInv' /\ FreeInv' /\ SentMeansDelivered'
    BY <1>5, RingKept DEF Loss
  <2>2. ClientInv' /\ ServerInv'
    BY <1>5 DEF Loss, IInv, TypeOK, ClientInv, ServerInv, Current, Pending, Ahead, Tip
  <2> QED
    BY <1>t, <2>1, <2>2 DEF IInv
<1> QED
  BY <1>1, <1>2, <1>3, <1>4, <1>5 DEF World

(* Steps of the client.                                                    *)
LEMMA ClientIInv == IInv /\ Client => IInv'
<1> SUFFICES ASSUME IInv, Client PROVE IInv'
  OBVIOUS
<1>t. TypeOK'
  BY ClientType DEF IInv
<1>k. Pending(glast_event_check) =>
        /\ log[glast_event_check] = Unsent(confirmed + 1)
        /\ confirmed + 1 <= nlogged
  BY PendingHead
<1> USE DEF logVars, clientVars, netVars, history
<1>1. CASE StateInit
  <2>1. Pending(glast_event_check) /\ glast_event_check # glast_event
    BY <1>1, ReaderBehind DEF StateInit
  <2>2. log[glast_event_check].sent = AA
    BY <2>1, <1>k DEF Unsent
  <2>3. /\ state' = "CONNECT" /\ state = "IDEAL"
        /\ UNCHANGED <<logVars, writing, history, netVars, event_first_flag, frame,
                       delivered>>
    BY <1>1, <2>2 DEF StateInit
  <2>4. WindowInv' /\ FreeInv' /\ SentMeansDelivered'
    BY <2>3, RingKept
  <2>5. ClientInv' /\ ServerInv'
    BY <2>1, <2>3 DEF IInv, ClientInv, ServerInv, Current, Pending, Ahead, Tip
  <2> QED
    BY <1>t, <2>4, <2>5 DEF IInv
<1>2. ASSUME NEW outcome \in {"open", "opening", "closed"}, StateConnect(outcome)
      PROVE  IInv'
  <2>1. WindowInv' /\ FreeInv' /\ SentMeansDelivered'
    BY <1>2, RingKept DEF StateConnect
  <2>2. ClientInv' /\ ServerInv'
    BY <1>2 DEF StateConnect, IInv, ClientInv, ServerInv, Current, Pending, Ahead, Tip
  <2> QED
    BY <1>t, <2>1, <2>2 DEF IInv
<1>p. state = "SEND" => Current(Packet) /\ Pending(glast_event_check)
  BY <1>k DEF IInv, ClientInv, Packet, Current, Unsent
<1>3. CASE SendOk
  <2>1. WindowInv' /\ FreeInv' /\ SentMeansDelivered'
    BY <1>3, RingKept DEF SendOk
  <2>2. ClientInv' /\ ServerInv'
    BY <1>3, <1>p DEF SendOk, IInv, ClientInv, ServerInv, Current, Pending, Ahead, Tip
  <2> QED
    BY <1>t, <2>1, <2>2 DEF IInv
<1>4. CASE SendAgain
  <2>1. WindowInv' /\ FreeInv' /\ SentMeansDelivered'
    BY <1>4, RingKept DEF SendAgain
  <2>2. ClientInv' /\ ServerInv'
    BY <1>4, <1>p DEF SendAgain, IInv, ClientInv, ServerInv, Current, Pending, Ahead, Tip
  <2> QED
    BY <1>t, <2>1, <2>2 DEF IInv
<1>5. CASE SendFail
  <2>1. WindowInv' /\ FreeInv' /\ SentMeansDelivered'
    BY <1>5, RingKept DEF SendFail
  <2>2. ClientInv' /\ ServerInv'
    BY <1>5, <1>p DEF SendFail, IInv, ClientInv, ServerInv, Current, Pending, Ahead, Tip
  <2> QED
    BY <1>t, <2>1, <2>2 DEF IInv
<1>7. CASE ReceiveTimeout
  <2>1. WindowInv' /\ FreeInv' /\ SentMeansDelivered'
    BY <1>7, RingKept DEF ReceiveTimeout
  <2>2. ClientInv' /\ ServerInv'
    BY <1>7 DEF ReceiveTimeout, IInv, ClientInv, ServerInv, Current, Pending, Ahead, Tip
  <2> QED
    BY <1>t, <2>1, <2>2 DEF IInv
<1>8. CASE StateClose
  <2>1. WindowInv' /\ FreeInv' /\ SentMeansDelivered'
    BY <1>8, RingKept DEF StateClose, Abandon
  <2>2. ClientInv'
    BY <1>8 DEF StateClose, Abandon, IInv, ClientInv, Current, Pending, Ahead, Tip
  <2>3. conn = "sent" => 1 <= frame.ev /\ frame.ev <= confirmed + 1 /\ frame.ev <= nlogged
    BY <1>k DEF IInv, TypeOK, ClientInv, Current
  <2>4. ServerInv'
    BY <1>8, <2>3 DEF StateClose, Abandon, IInv, ServerInv
  <2> QED
    BY <1>t, <2>1, <2>2, <2>4 DEF IInv
<1>6. CASE Receive
  <2>1. CASE reply # glast_event_check
    <3>1. WindowInv' /\ FreeInv' /\ SentMeansDelivered'
      BY <1>6, <2>1, RingKept DEF Receive, CheckEventReceive
    <3>2. ClientInv' /\ ServerInv'
      BY <1>6, <2>1
      DEF Receive, CheckEventReceive, IInv, ClientInv, ServerInv, Current, Pending, Ahead, Tip
    <3> QED
      BY <1>t, <3>1, <3>2 DEF IInv
  <2>2. CASE reply = glast_event_check
    <3> DEFINE c == glast_event_check
    <3>a. c \in Slots /\ Tip \in Slots /\ NextSlot(c) \in Slots /\ confirmed \in Nat
          /\ nlogged \in Nat
      BY NextSlotType DEF IInv, TypeOK, Tip
    <3>b. reply # NoSlot
      BY <2>2, <3>a DEF Slots, NoSlot
    <3>c. confirmed + 1 \in delivered /\ Pending(c)
      BY <1>6, <3>b DEF Receive, IInv, ClientInv
    <3>d. log[c] = Unsent(confirmed + 1)
      BY <3>c, <1>k
    <3>e. log' = [log EXCEPT ![c] = [save |-> Zero, sent |-> Zero, ev |-> confirmed + 1]]
      BY <1>6, <2>2, <3>a, <3>d
      DEF Receive, CheckEventReceive, Program, Unsent, FlashAnd, FF, AA, Zero, IInv, TypeOK
    <3>f. /\ glast_event_check' = NextSlot(c) /\ confirmed' = confirmed + 1
          /\ Tip' = Tip /\ nlogged' = nlogged
      BY <1>6, <2>2 DEF Receive, CheckEventReceive, Tip
    <3>g. \A i \in Slots : Ahead(i)' < Ahead(Tip)' =>
             i # c /\ Ahead(i) = Ahead(i)' + 1 /\ Ahead(i) < Ahead(Tip)
      BY <3>a, <3>c, <3>f, MaxEventsAssumption DEF Ahead, Pending, NextSlot, Slots
    <3>h. Ahead(Tip)' = Ahead(Tip) - 1
      BY <3>a, <3>c, <3>f, MaxEventsAssumption DEF Ahead, Pending, NextSlot, Slots
    <3>i. Ahead(Tip) \in Int /\ \A i \in Slots : Ahead(i) \in Int /\ Ahead(i)' \in Int
      BY <3>a, <3>f, MaxEventsAssumption DEF Ahead, Slots
    <3>1. WindowInv'
      <4>0. (writing => NextSlot(glast_event) # glast_event_check)'
        <5>1. glast_event # c /\ glast_event \in Slots /\ glast_event' = glast_event
          BY <1>6 DEF Receive, IInv, TypeOK, ClientInv
        <5> QED
          BY <5>1, <3>a, <3>f, MaxEventsAssumption DEF NextSlot, Slots
      <4>1. nlogged' = confirmed' + Ahead(Tip)'
        BY <3>a, <3>f, <3>h, <3>i DEF IInv, WindowInv
      <4>2. ASSUME NEW i \in Slots, Pending(i)'
            PROVE  log'[i] = Unsent(confirmed' + 1 + Ahead(i)')
        <5>1. i # c /\ Ahead(i) = Ahead(i)' + 1 /\ Pending(i)
          BY <4>2, <3>g DEF Pending
        <5>2. log[i] = Unsent(confirmed + 1 + Ahead(i))
          BY <5>1 DEF IInv, WindowInv
        <5>3. confirmed + 1 + Ahead(i) = confirmed' + 1 + Ahead(i)'
          BY <5>1, <3>a, <3>f, <3>i
        <5> QED
          BY <5>1, <5>2, <5>3, <3>e, <3>a DEF IInv, TypeOK
      <4> QED
        BY <4>0, <4>1, <4>2 DEF WindowInv
    <3>2. FreeInv'
      BY <3>a, <3>d, <3>e, <3>f DEF IInv, TypeOK, FreeInv, Erased, Unsent, FF, AA, Zero
    <3>3. SentMeansDelivered'
      <4>1. delivered' = delivered
        BY <1>6 DEF Receive
      <4> QED
        BY <4>1, <3>a, <3>c, <3>e DEF IInv, TypeOK, SentMeansDelivered
    <3>4. ClientInv'
      BY <1>6, <3>f DEF Receive, IInv, ClientInv
    <3>5. ServerInv'
      <4>1. delivered' = delivered /\ stray' = stray
        BY <1>6 DEF Receive
      <4>2. \A e \in 1 .. confirmed + 1 : e \in 1 .. confirmed \/ e = confirmed + 1
        BY <3>a
      <4>3. 1 .. confirmed + 1 \subseteq delivered
        BY <4>2, <3>c DEF IInv, ServerInv
      <4>4. \A e \in Int : e <= confirmed + 1 => e <= confirmed + 1 + 1
        BY <3>a
      <4> QED
        BY <4>1, <4>3, <4>4, <3>f DEF IInv, ServerInv, TypeOK, Frame
    <3> QED
      BY <1>t, <3>1, <3>2, <3>3, <3>4, <3>5 DEF IInv
  <2> QED
    BY <2>1, <2>2
<1> QED
  BY <1>1, <1>2, <1>3, <1>4, <1>5, <1>6, <1>7, <1>8 DEF Client

(* The writer's pointer steps past the event it has written.               *)
LEMMA LogAdvanceIInv == IInv /\ LogAdvance => IInv'
<1> SUFFICES ASSUME IInv, LogAdvance PROVE IInv'
  OBVIOUS
<1> USE DEF logVars, clientVars, netVars, history
<1>1. Tip' = Tip /\ UNCHANGED <<log, glast_event_check, clientVars, netVars, delivered,
                               nlogged, confirmed>>
  BY DEF LogAdvance, Tip
<1>2. \A i \in Slots : Ahead(i)' = Ahead(i) /\ Pending(i)' = Pending(i)
  BY <1>1 DEF Ahead, Pending
<1>3. Ahead(Tip)' = Ahead(Tip)
  BY <1>1 DEF Ahead
<1>4. writing' = FALSE /\ glast_event' # glast_event_check /\ glast_event_check \in Slots
  BY DEF LogAdvance, IInv, WindowInv, TypeOK
<1>5. WindowInv'
  BY <1>1, <1>2, <1>3, <1>4 DEF IInv, WindowInv
<1>6. FreeInv' /\ SentMeansDelivered'
  BY <1>1 DEF IInv, FreeInv, SentMeansDelivered
<1>7. ClientInv' /\ ServerInv'
  BY <1>1, <1>2, <1>4 DEF IInv, ClientInv, ServerInv, Current
<1>8. TypeOK'
  BY LogAdvanceType DEF IInv
<1> QED
  BY <1>5, <1>6, <1>7, <1>8 DEF IInv

(* The write itself: with room left, the slot is erased when the event is  *)
(* programmed, and an erase on the way hits no slot that still pends.      *)
LEMMA LogWriteIInv == IInv /\ Room /\ LogWrite => IInv'
<1> SUFFICES ASSUME IInv, Room, LogWrite PROVE IInv'
  OBVIOUS
<1> USE DEF logVars, clientVars, netVars, history
<1> DEFINE g == glast_event  c == glast_event_check
           base == IF AtSectorStart(g) THEN EraseSector(log, g) ELSE log
           rec == Unsent(nlogged + 1)
<1>a. g \in Slots /\ c \in Slots /\ NextSlot(g) \in Slots /\ nlogged \in Nat
      /\ confirmed \in Nat /\ log \in [Slots -> Record]
  BY NextSlotType DEF IInv, TypeOK
<1>b. Tip = g /\ Tip' = NextSlot(g) /\ NextSlot(g) # c
  BY DEF LogWrite, Tip, Room
<1>c. UNCHANGED <<glast_event, glast_event_check, clientVars, netVars, delivered, confirmed>>
      /\ nlogged' = nlogged + 1
  BY DEF LogWrite
<1>d. base[g] = Erased
  <2>1. CASE AtSectorStart(g)
    BY <2>1, <1>a DEF EraseSector
  <2>2. CASE ~ AtSectorStart(g)
    BY <2>2, <1>a, <1>b DEF IInv, FreeInv, Slots
  <2> QED
    BY <2>1, <2>2
<1>e. base \in [Slots -> Record]
  BY <1>a, EraseType
<1>f. log' = [base EXCEPT ![g] = rec]
  <2>1. log' = Program(base, g, rec)
    BY DEF LogWrite
  <2>2. FlashAnd(FF, rec.save) = rec.save /\ FlashAnd(FF, rec.sent) = rec.sent
        /\ FlashAnd(FF, rec.ev) = rec.ev
    BY DEF FlashAnd
  <2>3. [save |-> rec.save, sent |-> rec.sent, ev |-> rec.ev] = rec
    BY DEF Unsent
  <2> QED
    BY <2>1, <2>2, <2>3, <1>a, <1>d, <1>e DEF Program, Erased
<1>g. \A i \in Slots : Ahead(i)' = Ahead(i) /\ Ahead(i) \in Nat
  BY <1>a, <1>c, MaxEventsAssumption DEF Ahead, Slots
<1>h. Ahead(NextSlot(g)) = Ahead(g) + 1
  BY <1>a, <1>b, MaxEventsAssumption DEF Ahead, NextSlot, Slots
<1>i. Ahead(Tip)' = Ahead(Tip) + 1 /\ Ahead(Tip) = Ahead(g)
  BY <1>a, <1>b, <1>g, <1>h
<1>j. \A i \in Slots : Ahead(i) = Ahead(g) => i = g
  BY <1>a, MaxEventsAssumption DEF Ahead, Slots
<1>k. ASSUME NEW i \in Slots, Pending(i) PROVE log'[i] = log[i]
  <2>1. i # g /\ Ahead(i) < Ahead(g)
    BY <1>k, <1>i, <1>g, <1>a DEF Pending
  <2>2. base[i] = log[i]
    <3>1. CASE ~ AtSectorStart(g)
      BY <3>1
    <3>2. CASE AtSectorStart(g)
      <4>1. g # c
        BY <2>1, <1>a, MaxEventsAssumption DEF Ahead, Slots
      <4>2. SectorOf(c) # SectorOf(g)
        BY <4>1, <3>2 DEF Room
      <4>3. c < g \/ c >= g + SECTOR
        BY <4>2, <3>2, <1>a, SectorRange, SectorAssumption DEF Slots
      <4>4. i < g \/ i >= g + SECTOR
        BY <4>3, <2>1, <1>a, SectorAssumption, MaxEventsAssumption DEF Ahead, Slots
      <4>5. SectorOf(i) # SectorOf(g)
        BY <4>4, <3>2, <1>a, SectorRange, SectorAssumption DEF Slots
      <4> QED
        BY <3>2, <4>5, <1>a DEF EraseSector
    <3> QED
      BY <3>1, <3>2
  <2> QED
    BY <2>1, <2>2, <1>e, <1>f
<1>1. WindowInv'
  <2>1. nlogged' = confirmed' + Ahead(Tip)'
    BY <1>a, <1>c, <1>g, <1>i DEF IInv, WindowInv
  <2>2. ASSUME NEW i \in Slots, Pending(i)' PROVE log'[i] = Unsent(confirmed' + 1 + Ahead(i)')
    <3>1. Ahead(i) < Ahead(g) + 1
      BY <2>2, <1>g, <1>i DEF Pending
    <3>2. CASE i = g
      <4>1. log'[i] = Unsent(nlogged + 1)
        BY <3>2, <1>a, <1>e, <1>f
      <4>2. nlogged + 1 = confirmed' + 1 + Ahead(i)'
        BY <3>2, <1>a, <1>c, <1>g, <1>i DEF IInv, WindowInv
      <4> QED
        BY <4>1, <4>2
    <3>3. CASE i # g
      <4>1. Pending(i)
        BY <3>1, <3>3, <1>a, <1>g, <1>i, <1>j DEF Pending
      <4>2. log'[i] = Unsent(confirmed + 1 + Ahead(i))
        BY <4>1, <1>k DEF IInv, WindowInv
      <4> QED
        BY <4>2, <1>c, <1>g
    <3> QED
      BY <3>2, <3>3
  <2>3. NextSlot(glast_event') # glast_event_check'
    BY <1>b, <1>c
  <2> QED
    BY <2>1, <2>2, <2>3 DEF WindowInv
<1>2. FreeInv'
  <2> SUFFICES ASSUME ~ AtSectorStart(NextSlot(g)), NEW i \in Slots,
                      SectorOf(i) = SectorOf(NextSlot(g)), i >= NextSlot(g)
               PROVE  log'[i] = Erased
    BY <1>b DEF FreeInv
  <2>1. g < MAX_EVENTS /\ NextSlot(g) = g + 1
    <3>1. 0 % SECTOR = 0
      BY SectorAssumption, DivFacts
    <3> QED
      BY <3>1, <1>a DEF NextSlot, AtSectorStart, Slots
  <2>2. SectorOf(i) = SectorOf(g) /\ i > g
    BY <2>1, <1>a, SectorStep DEF Slots
  <2>3. base[i] = Erased
    BY <2>2, <1>a, <1>b DEF EraseSector, IInv, FreeInv, Slots
  <2> QED
    BY <2>2, <2>3, <1>a, <1>e, <1>f DEF Slots
<1>3. SentMeansDelivered'
  <2> SUFFICES ASSUME NEW i \in Slots, log'[i].sent = Zero PROVE log'[i].ev \in delivered
    BY <1>c DEF SentMeansDelivered
  <2>1. i # g
    BY <1>a, <1>e, <1>f DEF Unsent, AA, Zero
  <2>2. log'[i] = base[i]
    BY <2>1, <1>e, <1>f
  <2>3. base[i] = Erased \/ base[i] = log[i]
    BY DEF EraseSector
  <2> QED
    BY <2>2, <2>3 DEF IInv, SentMeansDelivered, Erased, FF, Zero
<1>4. ClientInv'
  <2>1. \A i \in Slots : Pending(i) => Pending(i)'
    BY <1>a, <1>b, <1>g, <1>i DEF Pending
  <2> QED
    BY <2>1, <1>a, <1>c DEF IInv, ClientInv, Current
<1>5. ServerInv'
  BY <1>a, <1>c DEF IInv, ServerInv, TypeOK, Frame
<1>6. TypeOK'
  BY LogWriteType DEF IInv
<1> QED
  BY <1>1, <1>2, <1>3, <1>4, <1>5, <1>6 DEF IInv

(* The heartbeat's hold touches nothing the invariant is about.            *)
LEMMA StutterIInv == IInv /\ (SetHold \/ UNCHANGED vars) => IInv'
<1> SUFFICES ASSUME IInv, SetHold \/ UNCHANGED vars PROVE IInv'
  OBVIOUS
<1> USE DEF logVars, clientVars, netVars, history, vars
<1>1. UNCHANGED <<logVars, writing, clientVars, netVars, delivered, history, resets>>
  BY DEF SetHold
<1>2. TypeOK'
  BY NextType DEF Next, IInv
<1>3. WindowInv' /\ FreeInv' /\ SentMeansDelivered'
  BY <1>1, RingKept
<1>4. ClientInv' /\ ServerInv'
  BY <1>1 DEF IInv, ClientInv, ServerInv, Current, Pending, Ahead, Tip
<1> QED
  BY <1>2, <1>3, <1>4 DEF IInv

(* Every step keeps the strengthened invariant.                            *)
LEMMA NextIInv == IInv /\ [Next]_vars => IInv'
BY LogWriteIInv, LogAdvanceIInv, ClientIInv, WorldIInv, StutterIInv DEF Next

(* The strengthened invariant: ring, client and server agree.              *)
THEOREM Invariance == Spec => []IInv
BY InitIInv, NextIInv, PTL DEF Spec

(* An event that the log marks as sent is one the server has taken.        *)
THEOREM SentCorrect == Spec => []SentMeansDelivered
<1>1. IInv => SentMeansDelivered
  BY DEF IInv
<1> QED
  BY <1>1, Invariance, PTL

(* A frame on its way, or answered, is the one of the slot that the        *)
(* response will mark.                                                     *)
THEOREM FrameCorrect == Spec => []FrameMatchesSlot
<1>1. IInv => FrameMatchesSlot
  <2> SUFFICES ASSUME IInv, conn \in {"sent", "answered"}
               PROVE  log[frame.mid] = Unsent(frame.ev) /\ frame.mid = glast_event_check
    BY DEF FrameMatchesSlot
  <2>1. Current(frame) /\ Pending(glast_event_check)
    BY DEF IInv, ClientInv
  <2> QED
    BY <2>1, PendingHead DEF Current
<1> QED
  BY <1>1, Invariance, PTL

(* As long as the outages leave room in the ring, no logged event is lost. *)
THEOREM NoLoss == Spec => []NoEventLost
<1>1. IInv => NoEventLost
  <2> SUFFICES ASSUME IInv, NEW e \in 1 .. nlogged, e \notin delivered
               PROVE  \E i \in Slots : Pending(i) /\ log[i] = Unsent(e)
    BY DEF NoEventLost
  <2>1. Tip \in Slots /\ glast_event_check \in Slots /\ confirmed \in Nat
        /\ nlogged \in Nat /\ e \in Nat
    BY NextSlotType DEF IInv, TypeOK, Tip
  <2>2. e > confirmed /\ e <= confirmed + Ahead(Tip)
    BY <2>1 DEF IInv, ServerInv, WindowInv
  <2> DEFINE k == e - confirmed - 1
             j == IF glast_event_check + k <= MAX_EVENTS THEN glast_event_check + k
                  ELSE glast_event_check + k - MAX_EVENTS - 1
  <2>3. k \in Nat /\ k < Ahead(Tip) /\ Ahead(Tip) <= MAX_EVENTS
    BY <2>1, <2>2, MaxEventsAssumption DEF Ahead, Slots
  <2>4. j \in Slots /\ Ahead(j) = k
    BY <2>1, <2>3, MaxEventsAssumption DEF Ahead, Slots
  <2>5. Pending(j)
    BY <2>3, <2>4 DEF Pending
  <2>6. log[j] = Unsent(confirmed + 1 + k)
    BY <2>4, <2>5 DEF IInv, WindowInv
  <2>7. confirmed + 1 + k = e
    BY <2>1
  <2> QED
    BY <2>4, <2>5, <2>6, <2>7
<1> QED
  BY <1>1, Invariance, PTL

-----------------------------------------------------------------------------
(* Every step of the cabinet, the network and the server is a step of the  *)
(* plain queue or leaves it alone.                                         *)
LEMMA QueueStep == IInv /\ [Next]_vars => [Queue!Next]_<<nlogged, confirmed, delivered>>
<1> SUFFICES ASSUME IInv, [Next]_vars
             PROVE  [Queue!Next]_<<nlogged, confirmed, delivered>>
  OBVIOUS
<1> USE DEF logVars, clientVars, netVars, history, Queue!Next
<1>k. Pending(glast_event_check) => confirmed + 1 <= nlogged
  BY PendingHead
<1>n. confirmed \in Nat /\ nlogged \in Nat
  BY DEF IInv, TypeOK
<1>1. CASE Room /\ LogWrite
  BY <1>1 DEF LogWrite, Queue!Log
<1>2. CASE LogAdvance \/ SetHold \/ UNCHANGED vars
  BY <1>2 DEF LogAdvance, SetHold, vars
<1>3. CASE Client
  <2>1. CASE Receive
    <3>1. CASE reply = glast_event_check
      <4>1. confirmed + 1 \in delivered
        BY <2>1, <3>1 DEF Receive, IInv, TypeOK, ClientInv, Slots, NoSlot
      <4> QED
        BY <2>1, <3>1, <4>1 DEF Receive, CheckEventReceive, Queue!Forget
    <3>2. CASE reply # glast_event_check
      BY <2>1, <3>2 DEF Receive, CheckEventReceive
    <3> QED
      BY <3>1, <3>2
  <2>2. CASE ~ Receive
    BY <1>3, <2>2 DEF Client, StateInit, StateConnect, SendOk, SendAgain, SendFail,
                      ReceiveTimeout, StateClose, Abandon
  <2> QED
    BY <2>1, <2>2
<1>4. CASE World
  <2>1. ASSUME conn = "sent", nlogged' = nlogged, confirmed' = confirmed,
               delivered' \in {delivered, delivered \union {frame.ev}}
        PROVE  [Queue!Next]_<<nlogged, confirmed, delivered>>
    <3>1. frame.ev = confirmed + 1 /\ confirmed < nlogged
      BY <2>1, <1>k, <1>n DEF IInv, ClientInv, Current
    <3> QED
      BY <2>1, <3>1 DEF Queue!Deliver
  <2>2. CASE Serve \/ ServeBadly
    BY <2>1, <2>2 DEF Serve, ServeBadly
  <2>3. ASSUME NEW f \in stray, LateArrival(f)
        PROVE  [Queue!Next]_<<nlogged, confirmed, delivered>>
    <3>1. f.ev \in Int /\ 1 <= f.ev /\ f.ev <= confirmed + 1 /\ f.ev <= nlogged
      BY DEF IInv, TypeOK, Frame, ServerInv
    <3>2. CASE f.ev <= confirmed
      <4>1. f.ev \in delivered
        BY <3>1, <3>2, <1>n DEF IInv, ServerInv
      <4>2. delivered' = delivered
        BY <2>3, <4>1 DEF LateArrival
      <4> QED
        BY <2>3, <4>2 DEF LateArrival
    <3>3. CASE f.ev = confirmed + 1
      BY <2>3, <3>1, <3>3, <1>n DEF LateArrival, Queue!Deliver
    <3> QED
      BY <3>1, <3>2, <3>3, <1>n
  <2>4. CASE Establish \/ \E f \in stray : Loss(f)
    BY <2>4 DEF Establish, Loss
  <2> QED
    BY <1>4, <2>2, <2>3, <2>4 DEF World
<1> QED
  BY <1>1, <1>2, <1>3, <1>4 DEF Next

(* The event log and its client implement the plain queue.                 *)
THEOREM ImplementsQueue == Spec => QueueSpec
<1>1. Init => Queue!Init
  BY DEF Init, Queue!Init
<1> QED
  BY <1>1, QueueStep, Invariance, PTL DEF Spec, QueueSpec, Queue!Spec

-----------------------------------------------------------------------------
(* With resets, and however long an outage: what is written of the ring    *)
(* lies before the tip, what is blank in one piece from the tip on, up to  *)
(* the end of a sector at least, so that a record is programmed into a     *)
(* blank slot and the scan of prot_init_event finds the tip again.         *)
Blank(l, i) == l[i].save = FF
Unmixed(l) == \A i \in Slots : l[i].ev # 0 /\ (Blank(l, i) <=> l[i].ev = FF)
WrittenBelow(l, t) == \A i \in Slots : i < t => ~ Blank(l, i)
BlankRun(l, t) ==
  \A i, j \in 0 .. MAX_EVENTS - 1 : t <= i /\ i <= j /\ Blank(l, j) => Blank(l, i)
SectorReady(l, t) ==
  ~ AtSectorStart(t) => \A i \in Slots : SectorOf(i) = SectorOf(t) /\ i >= t => Blank(l, i)
Ring(l, t) == Unmixed(l) /\ WrittenBelow(l, t) /\ BlankRun(l, t) /\ SectorReady(l, t)

HarshInv == TypeOK /\ Ring(log, Tip)

(* Among numbers one is the least, and of the slots one is the greatest.   *)
LEMMA LeastExists ==
  ASSUME NEW S \in SUBSET Nat, S # {}
  PROVE  \E m \in S : \A k \in S : m <= k
<1>1. \E x \in S : \A y \in S : ~ (<<y, x>> \in OpToRel(<, Nat))
  BY WFMin, NatLessThanWellFounded, Zenon
<1>2. PICK x \in S : \A y \in S : ~ (<<y, x>> \in OpToRel(<, Nat))
  BY <1>1
<1>3. \A y \in S : ~ (y < x)
  BY <1>2, Zenon DEF OpToRel
<1> QED
  BY <1>3
LEMMA GreatestExists ==
  ASSUME NEW S \in SUBSET Slots, S # {}
  PROVE  \E m \in S : \A k \in S : m >= k
<1> DEFINE U == {MAX_EVENTS - k : k \in S}
<1>1. \A k \in S : k \in Nat /\ MAX_EVENTS - k \in Nat
  BY MaxEventsAssumption DEF Slots
<1>2. U \in SUBSET Nat /\ U # {}
  BY <1>1
<1>3. PICK u \in U : \A v \in U : u <= v
  <2> HIDE DEF U
  <2> QED
    BY <1>2, LeastExists
<1>4. PICK m \in S : u = MAX_EVENTS - m
  BY <1>3
<1>5. \A k \in S : MAX_EVENTS - m <= MAX_EVENTS - k
  BY <1>3, <1>4
<1> QED
  BY <1>1, <1>4, <1>5, MaxEventsAssumption

(* The first sector begins the ring.                                       *)
LEMMA RingStart == 0 \in Slots /\ AtSectorStart(0)
<1>1. 0 % SECTOR = 0
  BY SectorAssumption, DivFacts
<1> QED
  BY <1>1, MaxEventsAssumption DEF Slots, AtSectorStart

(* The first scan of prot_init_event finds the tip, if it can be seen, and *)
(* no blank slot at all if it cannot.                                      *)
LEMMA BootFindsTip ==
  ASSUME NEW l, NEW t \in Slots, WrittenBelow(l, t), BlankRun(l, t)
  PROVE  /\ Blank(l, t) /\ t # MAX_EVENTS => BootEvent(l) = t
         /\ ~ (Blank(l, t) /\ t # MAX_EVENTS) =>
              BootEvent(l) = 0 /\ \A i \in 0 .. MAX_EVENTS - 1 : ~ Blank(l, i)
<1> DEFINE free == {i \in 0 .. MAX_EVENTS - 1 : l[i].save = FF}
<1>1. BootEvent(l) = IF free = {} THEN 0 ELSE LeastOf(free)
  BY DEF BootEvent
<1>2. \A i \in free : i \in Slots /\ i \in Nat /\ i < MAX_EVENTS /\ t <= i
  BY MaxEventsAssumption DEF Slots, WrittenBelow, Blank
<1>3. t \in Nat /\ (t # MAX_EVENTS => t \in 0 .. MAX_EVENTS - 1)
  BY MaxEventsAssumption DEF Slots
<1>4. ASSUME Blank(l, t), t # MAX_EVENTS PROVE BootEvent(l) = t
  <2>1. t \in free
    BY <1>3, <1>4 DEF Blank
  <2> HIDE DEF free
  <2>2. \A i \in free : (\A j \in free : i <= j) => i = t
    BY <1>2, <1>3, <2>1
  <2>3. LeastOf(free) = t
    BY <1>2, <2>1, <2>2 DEF LeastOf
  <2> QED
    BY <1>1, <2>1, <2>3
<1>5. ASSUME ~ (Blank(l, t) /\ t # MAX_EVENTS)
      PROVE  BootEvent(l) = 0 /\ \A i \in 0 .. MAX_EVENTS - 1 : ~ Blank(l, i)
  <2>1. ASSUME NEW i \in free PROVE FALSE
    <3>1. t # MAX_EVENTS /\ t <= i /\ i \in 0 .. MAX_EVENTS - 1 /\ Blank(l, i)
      BY <1>2, <1>3, MaxEventsAssumption DEF Blank
    <3>2. Blank(l, t)
      BY <1>3, <3>1 DEF BlankRun
    <3> QED
      BY <1>5, <3>1, <3>2
  <2>2. free = {}
    BY <2>1
  <2>3. \A i \in 0 .. MAX_EVENTS - 1 : ~ Blank(l, i)
    BY <2>2 DEF Blank
  <2> QED
    BY <1>1, <2>2, <2>3
<1> QED
  BY <1>4, <1>5

(* Its second scan ends at the slot that begins the highest unbroken run   *)
(* of unsent slots above slot 0, or at the writer's when there is none.    *)
LEMMA BootCheckFacts ==
  ASSUME NEW l, NEW g \in Slots
  PROVE  LET unsent == {i \in 1 .. MAX_EVENTS : l[i].sent = AA}
             c == BootCheck(l, g)
         IN  /\ c \in Slots
             /\ unsent = {} => c = g
             /\ unsent # {} => \E top \in unsent :
                  /\ \A i \in unsent : top >= i
                  /\ c \in unsent /\ UnsentRun(l, c, top)
                  /\ \A i \in unsent : UnsentRun(l, i, top) => c <= i
<1> DEFINE unsent == {i \in 1 .. MAX_EVENTS : l[i].sent = AA}
           top == CHOOSE i \in unsent : \A j \in unsent : i >= j
           runs == {i \in unsent : UnsentRun(l, i, top)}
<1>1. BootCheck(l, g) = IF unsent = {} THEN g ELSE LeastOf(runs)
  BY DEF BootCheck
<1>2. unsent \in SUBSET Slots /\ unsent \in SUBSET Nat
  BY MaxEventsAssumption DEF Slots
<1>3. ASSUME unsent # {}
      PROVE  /\ top \in unsent /\ \A i \in unsent : top >= i
             /\ LeastOf(runs) \in runs /\ \A i \in runs : LeastOf(runs) <= i
  <2>1. top \in unsent /\ \A i \in unsent : top >= i
    <3> HIDE DEF unsent
    <3>1. \E m \in unsent : \A k \in unsent : m >= k
      BY <1>2, <1>3, GreatestExists
    <3> QED
      BY <3>1
  <2> HIDE DEF top
  <2>2. UnsentRun(l, top, top)
    <3>1. \A j \in top .. top : j = top
      BY <1>2, <2>1
    <3> QED
      BY <2>1, <3>1 DEF UnsentRun
  <2>3. runs \in SUBSET Nat /\ runs # {}
    BY <1>2, <2>1, <2>2
  <2>4. LeastOf(runs) \in runs /\ \A i \in runs : LeastOf(runs) <= i
    <3> HIDE DEF runs
    <3>1. \E m \in runs : \A k \in runs : m <= k
      BY <2>3, LeastExists
    <3> QED
      BY <3>1 DEF LeastOf
  <2> QED
    BY <2>1, <2>4
<1> HIDE DEF top
<1>4. unsent # {} => LeastOf(runs) \in unsent /\ UnsentRun(l, LeastOf(runs), top)
                     /\ \A i \in unsent : UnsentRun(l, i, top) => LeastOf(runs) <= i
  BY <1>3
<1> HIDE DEF runs
<1>5. BootCheck(l, g) \in Slots
  BY <1>1, <1>2, <1>4
<1> QED
  BY <1>1, <1>3, <1>4, <1>5

(* After a restart the ring is as it was, from the pointer that was found. *)
LEMMA BootKeepsRing ==
  ASSUME NEW l, NEW t \in Slots, Ring(l, t)
  PROVE  BootEvent(l) \in Slots /\ Ring(l, BootEvent(l))
<1>1. CASE Blank(l, t) /\ t # MAX_EVENTS
  BY <1>1, BootFindsTip DEF Ring
<1>2. CASE ~ (Blank(l, t) /\ t # MAX_EVENTS)
  <2>1. BootEvent(l) = 0 /\ \A i \in 0 .. MAX_EVENTS - 1 : ~ Blank(l, i)
    BY <1>2, BootFindsTip DEF Ring
  <2>2. Ring(l, 0)
    BY <2>1, RingStart, MaxEventsAssumption
       DEF Ring, WrittenBelow, BlankRun, SectorReady, Slots
  <2> QED
    BY <2>1, <2>2, RingStart
<1> QED
  BY <1>1, <1>2

(* An erase of the sector that is entered leaves the tip where it is.      *)
LEMMA EraseKeepsRing ==
  ASSUME NEW l \in [Slots -> Record], NEW t \in Slots, Ring(l, t), AtSectorStart(t)
  PROVE  Ring(EraseSector(l, t), t) /\ Blank(EraseSector(l, t), t)
<1> DEFINE e == EraseSector(l, t)
<1>1. \A i \in Slots : e[i] = IF SectorOf(i) = SectorOf(t) THEN Erased ELSE l[i]
  BY DEF EraseSector
<1>2. Erased.save = FF /\ Erased.ev = FF /\ FF # 0
  BY DEF Erased, FF
<1>3. \A i \in Slots : SectorOf(i) = SectorOf(t) <=> t <= i /\ i < t + SECTOR
  BY SectorRange
<1>4. t \in Nat /\ SECTOR \in Nat /\ MAX_EVENTS \in Nat
      /\ \A i \in Slots : i \in Nat /\ i <= MAX_EVENTS
  BY MaxEventsAssumption, SectorAssumption DEF Slots
<1> HIDE DEF e
<1>5. Unmixed(e)
  BY <1>1, <1>2 DEF Ring, Unmixed, Blank
<1>6. WrittenBelow(e, t)
  BY <1>1, <1>3, <1>4 DEF Ring, WrittenBelow, Blank
<1>7. BlankRun(e, t)
  <2> SUFFICES ASSUME NEW i \in 0 .. MAX_EVENTS - 1, NEW j \in 0 .. MAX_EVENTS - 1,
                      t <= i, i <= j, Blank(e, j)
               PROVE  Blank(e, i)
    BY DEF BlankRun
  <2>1. i \in Slots /\ j \in Slots /\ i \in Nat /\ j \in Nat
    BY <1>4 DEF Slots
  <2>2. CASE i < t + SECTOR
    BY <1>1, <1>2, <1>3, <2>1, <2>2 DEF Blank
  <2>3. CASE ~ i < t + SECTOR
    <3>1. SectorOf(i) # SectorOf(t) /\ SectorOf(j) # SectorOf(t)
      BY <1>3, <1>4, <2>1, <2>3
    <3>2. Blank(l, j)
      BY <1>1, <2>1, <3>1 DEF Blank
    <3>3. Blank(l, i)
      BY <3>2 DEF Ring, BlankRun
    <3> QED
      BY <1>1, <2>1, <3>1, <3>3 DEF Blank
  <2> QED
    BY <2>2, <2>3
<1>8. SectorReady(e, t)
  BY DEF SectorReady
<1>9. Blank(e, t)
  BY <1>1, <1>2 DEF Blank
<1> QED
  BY <1>5, <1>6, <1>7, <1>8, <1>9 DEF Ring, e

(* A record programmed into the blank slot at the tip moves the tip on.    *)
LEMMA WriteKeepsRing ==
  ASSUME NEW l \in [Slots -> Record], NEW t \in Slots, Ring(l, t), Blank(l, t),
         AtSectorStart(t) => \A i \in Slots : SectorOf(i) = SectorOf(t) => Blank(l, i),
         NEW e \in Nat \ {0}
  PROVE  /\ Ring(Program(l, t, Unsent(e)), NextSlot(t))
         /\ \A i \in Slots \ {t} : Program(l, t, Unsent(e))[i] = l[i]
         /\ Program(l, t, Unsent(e))[t].save = Zero
         /\ (l[t].sent = FF => Program(l, t, Unsent(e))[t].sent = AA)
<1> DEFINE p == Program(l, t, Unsent(e))
<1>1. /\ \A i \in Slots \ {t} : p[i] = l[i]
      /\ p[t].save = Zero /\ p[t].ev = e /\ (l[t].sent = FF => p[t].sent = AA)
  <2>1. l[t].save = FF /\ l[t].ev = FF
    BY DEF Ring, Unmixed, Blank
  <2>2. FlashAnd(FF, Zero) = Zero /\ FlashAnd(FF, e) = e /\ FlashAnd(FF, AA) = AA
    BY DEF FlashAnd
  <2>3. Unsent(e).save = Zero /\ Unsent(e).ev = e /\ Unsent(e).sent = AA
    BY DEF Unsent
  <2>4. p = [l EXCEPT ![t] = [save |-> FlashAnd(l[t].save, Zero),
                              sent |-> FlashAnd(l[t].sent, AA), ev |-> FlashAnd(l[t].ev, e)]]
    BY <2>3 DEF Program
  <2> HIDE DEF p
  <2> QED
    BY <2>1, <2>2, <2>4
<1>2. /\ t \in Nat /\ MAX_EVENTS \in Nat /\ MAX_EVENTS > 0 /\ t <= MAX_EVENTS
      /\ \A i \in Slots : i \in Nat /\ i <= MAX_EVENTS
  BY MaxEventsAssumption DEF Slots
<1> HIDE DEF p
<1>3. ~ Blank(p, t) /\ \A i \in Slots \ {t} : Blank(p, i) <=> Blank(l, i)
  BY <1>1 DEF Blank, Zero, FF
<1>4. Unmixed(p)
  <2>1. p[t].ev # 0 /\ p[t].ev # FF
    BY <1>1 DEF FF
  <2>2. \A i \in Slots \ {t} : p[i].ev # 0 /\ (Blank(p, i) <=> p[i].ev = FF)
    BY <1>1, <1>3 DEF Ring, Unmixed
  <2> QED
    BY <1>3, <2>1, <2>2 DEF Unmixed
<1>5. CASE t = MAX_EVENTS
  <2>1. NextSlot(t) = 0
    BY <1>2, <1>5 DEF NextSlot
  <2>2. WrittenBelow(p, 0) /\ SectorReady(p, 0)
    BY <1>2, RingStart DEF WrittenBelow, SectorReady
  <2>3. \A i \in 0 .. MAX_EVENTS - 1 : ~ Blank(p, i)
    <3>1. \A i \in 0 .. MAX_EVENTS - 1 : i \in Slots \ {t} /\ i < t
      BY <1>2, <1>5 DEF Slots
    <3> QED
      BY <1>3, <3>1 DEF Ring, WrittenBelow
  <2>4. BlankRun(p, 0)
    BY <2>3 DEF BlankRun
  <2> QED
    BY <1>1, <1>4, <2>1, <2>2, <2>4 DEF Ring, p
<1>6. CASE t # MAX_EVENTS
  <2>1. NextSlot(t) = t + 1 /\ t + 1 \in Slots /\ t < MAX_EVENTS
    BY <1>2, <1>6 DEF NextSlot, Slots
  <2>2. WrittenBelow(p, t + 1)
    <3> SUFFICES ASSUME NEW i \in Slots, i < t + 1 PROVE ~ Blank(p, i)
      BY DEF WrittenBelow
    <3>1. i = t \/ i < t
      BY <1>2
    <3> QED
      BY <1>2, <1>3, <3>1 DEF Ring, WrittenBelow
  <2>3. BlankRun(p, t + 1)
    <3> SUFFICES ASSUME NEW i \in 0 .. MAX_EVENTS - 1, NEW j \in 0 .. MAX_EVENTS - 1,
                        t + 1 <= i, i <= j, Blank(p, j)
                 PROVE  Blank(p, i)
      BY DEF BlankRun
    <3>1. i \in Slots \ {t} /\ j \in Slots \ {t} /\ t <= i
      BY <1>2 DEF Slots
    <3>2. Blank(l, i)
      BY <1>3, <3>1 DEF Ring, BlankRun
    <3> QED
      BY <1>3, <3>1, <3>2
  <2>4. SectorReady(p, t + 1)
    <3> SUFFICES ASSUME ~ AtSectorStart(t + 1), NEW i \in Slots,
                        SectorOf(i) = SectorOf(t + 1), i >= t + 1
                 PROVE  Blank(p, i)
      BY DEF SectorReady
    <3>1. SectorOf(i) = SectorOf(t) /\ i # t /\ i >= t
      BY <1>2, <2>1, SectorStep
    <3>2. Blank(l, i)
      BY <3>1 DEF Ring, SectorReady
    <3> QED
      BY <1>3, <3>1, <3>2
  <2> QED
    BY <1>1, <1>4, <2>1, <2>2, <2>3, <2>4 DEF Ring, p
<1> QED
  BY <1>5, <1>6

(* A response marks a slot sent and leaves its event and marker alone.     *)
LEMMA MarkKeepsRing ==
  ASSUME NEW l \in [Slots -> Record], NEW c \in Slots, NEW t \in Slots, Ring(l, t)
  PROVE  LET p == Program(l, c, [l[c] EXCEPT !.sent = Zero])
         IN  /\ Ring(p, t) /\ p[c].sent = Zero
             /\ \A i \in Slots \ {c} : p[i] = l[i]
             /\ \A i \in Slots : p[i].save = l[i].save
<1> DEFINE p == Program(l, c, [l[c] EXCEPT !.sent = Zero])
<1>1. /\ \A i \in Slots : p[i].save = l[i].save /\ p[i].ev = l[i].ev
      /\ \A i \in Slots \ {c} : p[i] = l[i]
      /\ p[c].sent = Zero
  <2>1. l[c] \in Record
    OBVIOUS
  <2>2. /\ FlashAnd(l[c].save, l[c].save) = l[c].save /\ FlashAnd(l[c].ev, l[c].ev) = l[c].ev
        /\ FlashAnd(l[c].sent, Zero) = Zero
    BY DEF FlashAnd, Zero, FF
  <2>3. p = [l EXCEPT ![c] = [save |-> l[c].save, sent |-> Zero, ev |-> l[c].ev]]
    BY <2>1, <2>2 DEF Program, Record
  <2> HIDE DEF p
  <2> QED
    BY <2>3
<1> HIDE DEF p
<1>2. \A i \in Slots : Blank(p, i) <=> Blank(l, i)
  BY <1>1 DEF Blank
<1>3. Unmixed(p) /\ WrittenBelow(p, t) /\ SectorReady(p, t)
  BY <1>1, <1>2 DEF Ring, Unmixed, WrittenBelow, SectorReady
<1>4. BlankRun(p, t)
  <2>1. \A i \in 0 .. MAX_EVENTS - 1 : i \in Slots
    BY MaxEventsAssumption DEF Slots
  <2> QED
    BY <1>2, <2>1 DEF Ring, BlankRun
<1>5. Ring(p, t)
  BY <1>3, <1>4 DEF Ring
<1> QED
  BY <1>1, <1>5 DEF p

(* A restart keeps the types.                                              *)
LEMMA ResetType == TypeOK /\ (Reset \/ ResetInLog) => TypeOK'
<1> SUFFICES ASSUME TypeOK, Reset \/ ResetInLog PROVE TypeOK'
  OBVIOUS
<1>1. PICK l \in [Slots -> Record] : Restart(l)
  BY EraseType DEF Reset, ResetInLog, TypeOK
<1>2. BootEvent(l) \in Slots
  <2> DEFINE free == {i \in 0 .. MAX_EVENTS - 1 : l[i].save = FF}
  <2>1. BootEvent(l) = IF free = {} THEN 0 ELSE LeastOf(free)
    BY DEF BootEvent
  <2>2. free \in SUBSET Nat /\ free \in SUBSET Slots
    BY MaxEventsAssumption DEF Slots
  <2> HIDE DEF free
  <2>3. free # {} => LeastOf(free) \in free
    <3> SUFFICES ASSUME free # {} PROVE LeastOf(free) \in free
      OBVIOUS
    <3>1. \E m \in free : \A k \in free : m <= k
      BY <2>2, LeastExists
    <3> QED
      BY <3>1 DEF LeastOf
  <2> QED
    BY <2>1, <2>2, <2>3, RingStart
<1>3. BootCheck(l, BootEvent(l)) \in Slots
  BY <1>2, BootCheckFacts
<1>4. /\ log' \in [Slots -> Record] /\ glast_event' \in Slots /\ glast_event_check' \in Slots
      /\ writing' = FALSE /\ hold' = FALSE /\ event_first_flag' = FALSE /\ state' = "IDEAL"
      /\ UNCHANGED <<frame, delivered, history>> /\ conn' = "closed" /\ reply' = NoSlot
      /\ stray' \in {stray, stray \union {frame}} /\ resets' = resets + 1
  BY <1>1, <1>2, <1>3 DEF Restart, Abandon
<1>5. writing' \in BOOLEAN /\ hold' \in BOOLEAN /\ event_first_flag' \in BOOLEAN
  BY <1>4
<1>6. stray' \subseteq Frame /\ frame' \in Frame
  BY <1>4 DEF TypeOK
<1>7. state' \in ClientStates /\ conn' \in ConnStates /\ reply' \in Slots \union {NoSlot}
  BY <1>4 DEF ClientStates, ConnStates
<1>8. delivered' \subseteq Int /\ nlogged' \in Nat /\ confirmed' \in Nat /\ resets' \in Nat
  BY <1>4 DEF TypeOK, history
<1> QED
  BY <1>4, <1>5, <1>6, <1>7, <1>8 DEF TypeOK

(* The ring is whole after every step, whatever the outage: nothing here   *)
(* needs room between the writer and the reader.                           *)
LEMMA HarshStep == HarshInv /\ [HarshNext]_vars => HarshInv'
<1> SUFFICES ASSUME HarshInv, [HarshNext]_vars PROVE HarshInv'
  OBVIOUS
<1> USE DEF logVars, clientVars, netVars, history
<1>t. /\ TypeOK /\ log \in [Slots -> Record] /\ glast_event \in Slots
      /\ glast_event_check \in Slots /\ Tip \in Slots /\ Ring(log, Tip)
  BY NextSlotType DEF HarshInv, TypeOK, Tip
<1>1. CASE LogWrite
  <2> DEFINE g == glast_event
             base == IF AtSectorStart(g) THEN EraseSector(log, g) ELSE log
  <2>1. /\ log' = Program(base, g, Unsent(nlogged + 1)) /\ Tip = g /\ Tip' = NextSlot(g)
        /\ nlogged + 1 \in Nat \ {0}
    BY <1>1, <1>t DEF LogWrite, Tip, TypeOK
  <2>2. base \in [Slots -> Record]
    BY <1>t, EraseType
  <2>3. Ring(base, g) /\ Blank(base, g)
        /\ (AtSectorStart(g) => \A i \in Slots : SectorOf(i) = SectorOf(g) => Blank(base, i))
    <3>1. CASE AtSectorStart(g)
      <4>1. \A i \in Slots : SectorOf(i) = SectorOf(g) => EraseSector(log, g)[i].save = FF
        BY DEF EraseSector, Erased
      <4> QED
        BY <1>t, <2>1, <3>1, <4>1, EraseKeepsRing DEF Blank
    <3>2. CASE ~ AtSectorStart(g)
      <4>1. Blank(log, g)
        BY <1>t, <2>1, <3>2 DEF Ring, SectorReady, Slots
      <4> QED
        BY <1>t, <2>1, <3>2, <4>1
    <3> QED
      BY <3>1, <3>2
  <2> HIDE DEF base
  <2>4. Ring(log', Tip')
    BY <1>t, <2>1, <2>2, <2>3, WriteKeepsRing
  <2> QED
    BY <1>1, <1>t, <2>4, LogWriteType DEF HarshInv
<1>2. CASE LogAdvance
  <2>1. Tip' = Tip /\ log' = log
    BY <1>2 DEF LogAdvance, Tip
  <2> QED
    BY <1>2, <1>t, <2>1, LogAdvanceType DEF HarshInv
<1>3. CASE Receive /\ reply = glast_event_check
  <2>1. log' = Program(log, glast_event_check, [log[glast_event_check] EXCEPT !.sent = Zero])
        /\ Tip' = Tip
    BY <1>3 DEF Receive, CheckEventReceive, Tip
  <2>2. Ring(log', Tip')
    BY <1>t, <2>1, MarkKeepsRing
  <2>3. Client
    BY <1>3 DEF Client
  <2> QED
    BY <1>t, <2>2, <2>3, ClientType DEF HarshInv
<1>4. CASE (Client /\ ~ (Receive /\ reply = glast_event_check)) \/ World \/ SetHold
           \/ UNCHANGED vars
  <2>1. UNCHANGED <<log, glast_event, writing>>
    <3>1. CASE Client /\ ~ (Receive /\ reply = glast_event_check)
      BY <3>1 DEF Client, StateInit, StateConnect, SendOk, SendAgain, SendFail,
                  Receive, CheckEventReceive, ReceiveTimeout, StateClose
    <3>2. CASE World
      BY <3>2 DEF World, Establish, Serve, ServeBadly, LateArrival, Loss
    <3> QED
      BY <1>4, <3>1, <3>2 DEF SetHold, vars
  <2>2. Tip' = Tip
    BY <2>1 DEF Tip
  <2>3. TypeOK'
    <3>1. CASE SetHold \/ UNCHANGED vars
      BY <1>t, <3>1, NextType DEF Next
    <3> QED
      BY <1>4, <1>t, <3>1, ClientType, WorldType
  <2> QED
    BY <1>t, <2>1, <2>2, <2>3 DEF HarshInv
<1>5. CASE Reset \/ ResetInLog
  <2>1. PICK l : Restart(l) /\ Ring(l, Tip)
    <3>1. CASE Reset
      BY <1>t, <3>1 DEF Reset
    <3>2. CASE ResetInLog
      BY <1>t, <3>2, EraseKeepsRing DEF ResetInLog, Tip
    <3> QED
      BY <1>5, <3>1, <3>2
  <2>2. log' = l /\ Tip' = BootEvent(l)
    BY <2>1 DEF Restart, Tip
  <2> QED
    BY <1>5, <1>t, <2>1, <2>2, ResetType, BootKeepsRing DEF HarshInv
<1> QED
  BY <1>1, <1>2, <1>3, <1>4, <1>5 DEF HarshNext

LEMMA HarshInit == Init => HarshInv
<1> SUFFICES ASSUME Init PROVE HarshInv
  OBVIOUS
<1>1. Tip = 0 /\ \A i \in Slots : log[i] = Erased
  BY DEF Init, Tip
<1>2. Ring(log, 0)
  <2>1. \A i \in 0 .. MAX_EVENTS - 1 : i \in Slots
    BY MaxEventsAssumption DEF Slots
  <2>2. \A i \in Slots : ~ i < 0
    BY MaxEventsAssumption DEF Slots
  <2>3. Erased.save = FF /\ Erased.ev = FF /\ FF # 0
    BY DEF Erased, FF
  <2>4. \A i \in Slots : Blank(log, i) /\ log[i].ev = FF
    BY <1>1, <2>3 DEF Blank
  <2> QED
    BY <2>1, <2>2, <2>3, <2>4
       DEF Ring, Unmixed, WrittenBelow, BlankRun, SectorReady
<1> QED
  BY <1>1, <1>2, InitType DEF HarshInv

(* Whatever resets and however long an outage, an event is programmed into *)
(* a blank slot only: the marker and the event of a slot agree.            *)
THEOREM NeverMixedCorrect == HarshSpec => []NeverMixed
<1>1. HarshInv => NeverMixed
  BY DEF HarshInv, Ring, Unmixed, Blank, NeverMixed
<1> QED
  BY <1>1, HarshInit, HarshStep, PTL DEF HarshSpec

(* In whatever step a reset falls, the writer's pointer is found again,    *)
(* unless it is at a slot that still holds an event of the lap before.     *)
LEMMA ResetFinds == HarshInv /\ [HarshNext]_vars
                      => [resets' # resets /\ TipVisible => glast_event' = Tip]_vars
<1> SUFFICES ASSUME HarshInv, HarshNext, resets' # resets, TipVisible
             PROVE  glast_event' = Tip
  OBVIOUS
<1> USE DEF logVars, clientVars, netVars, history
<1>t. /\ log \in [Slots -> Record] /\ glast_event \in Slots /\ Tip \in Slots /\ Ring(log, Tip)
  BY NextSlotType DEF HarshInv, TypeOK, Tip
<1>1. Reset \/ ResetInLog
  <2>1. ~ (LogWrite \/ LogAdvance \/ SetHold)
    BY DEF LogWrite, LogAdvance, SetHold
  <2>2. ~ Client
    BY DEF Client, StateInit, StateConnect, SendOk, SendAgain, SendFail, Receive,
           ReceiveTimeout, StateClose
  <2>3. ~ World
    BY DEF World, Establish, Serve, ServeBadly, LateArrival, Loss
  <2> QED
    BY <2>1, <2>2, <2>3 DEF HarshNext
<1>2. PICK l : Restart(l) /\ Ring(l, Tip) /\ Blank(l, Tip)
  <2>1. CASE Reset
    BY <1>t, <2>1 DEF Reset, TipVisible, Blank
  <2>2. CASE ResetInLog
    BY <1>t, <2>2, EraseKeepsRing DEF ResetInLog, Tip
  <2> QED
    BY <1>1, <2>1, <2>2
<1> QED
  BY <1>2, <1>t, BootFindsTip DEF Ring, Restart, TipVisible

(* The first scan of prot_init_event finds the slot of the next event, in  *)
(* whatever step the reset fell, if that slot is blank and not the last.   *)
THEOREM ResetFindsCorrect == ResetSpec => ResetFindsWriter
<1>1. [ResetNext]_vars => [HarshNext]_vars
  BY DEF ResetNext, Next, HarshNext
<1> QED
  BY <1>1, HarshInit, HarshStep, ResetFinds, PTL DEF ResetSpec, ResetFindsWriter

-----------------------------------------------------------------------------
(* With room left between the writer and the reader: what is unsent lies   *)
(* without a gap below the tip, and without a gap from the reader on when  *)
(* the tip has wrapped, so that the one run which the second scan of       *)
(* prot_init_event follows down holds all of it, above slot 0.             *)
Due(l, i) == l[i].sent = AA
DueAbove(l, c, t) ==
  c > t => \A i, j, k \in c .. MAX_EVENTS :
             i <= j /\ j <= k /\ Due(l, i) /\ Due(l, k) => Due(l, j)
DueBelow(l, t) ==
  \A i, j \in 1 .. MAX_EVENTS : i <= j /\ j < t /\ Due(l, i) => Due(l, j)
NoneBehind(l, c, t) == c <= t => \A i \in 1 .. c - 1 : ~ Due(l, i)
BlankUnused(l) == \A i \in Slots : Blank(l, i) => l[i].sent = FF
Backlog(l, c, t) ==
  DueAbove(l, c, t) /\ DueBelow(l, t) /\ NoneBehind(l, c, t) /\ BlankUnused(l)

(* The client is never busy with a slot that is yet to be written, also    *)
(* while prot_log_event waits.                                             *)
ReaderInv ==
  /\ writing => Tip # glast_event_check
  /\ state \in {"CONNECT", "SEND", "WAIT", "RECEIVE"} =>
       glast_event_check # glast_event /\ ~ Blank(log, glast_event_check)

ResetInv == HarshInv /\ Backlog(log, glast_event_check, Tip) /\ ReaderInv

(* The slots that await upload, as positions.                              *)
Window(c, t, i) == IF c <= t THEN c <= i /\ i < t ELSE c <= i \/ i < t
LEMMA PendingWindow ==
  ASSUME NEW i \in Slots, glast_event_check \in Slots, Tip \in Slots
  PROVE  Pending(i) <=> Window(glast_event_check, Tip, i)
BY MaxEventsAssumption DEF Pending, Ahead, Window, Slots

(* No two slots have the same next one.                                    *)
LEMMA NextSlotInjective ==
  ASSUME NEW i \in Slots, NEW j \in Slots, i # j
  PROVE  NextSlot(i) # NextSlot(j)
BY MaxEventsAssumption DEF NextSlot, Slots

(* An erase hits nothing that is unsent, with room left.                   *)
LEMMA EraseKeepsBacklog ==
  ASSUME NEW l \in [Slots -> Record], NEW c \in Slots, NEW t \in Slots, Backlog(l, c, t),
         AtSectorStart(t), c = t \/ SectorOf(c) # SectorOf(t)
  PROVE  /\ Backlog(EraseSector(l, t), c, t)
         /\ \A i \in Slots : Window(c, t, i) \/ (i = c /\ c # t) => EraseSector(l, t)[i] = l[i]
<1> DEFINE e == EraseSector(l, t)
<1>1. /\ c \in Nat /\ t \in Nat /\ SECTOR \in Nat /\ SECTOR > 0 /\ MAX_EVENTS \in Nat
      /\ \A i \in 1 .. MAX_EVENTS : i \in Slots
      /\ \A i \in Slots : i \in Nat /\ i <= MAX_EVENTS
  BY MaxEventsAssumption, SectorAssumption DEF Slots
<1>2. ASSUME NEW i \in Slots, i < t \/ (c > t /\ i >= c) PROVE e[i] = l[i]
  <2>1. c > t => c >= t + SECTOR
    BY <1>1, SectorRange
  <2>2. SectorOf(i) # SectorOf(t)
    BY <1>1, <1>2, <2>1, SectorRange
  <2> QED
    BY <2>2 DEF EraseSector
<1>3. \A i \in Slots : e[i] = Erased \/ e[i] = l[i]
  BY DEF EraseSector
<1> HIDE DEF e
<1>4. DueAbove(e, c, t)
  <2>1. c > t => \A i \in c .. MAX_EVENTS : e[i] = l[i]
    <3>1. \A i \in c .. MAX_EVENTS : i \in Slots /\ i >= c
      BY <1>1 DEF Slots
    <3> QED
      BY <1>2, <3>1
  <2> QED
    BY <2>1 DEF Backlog, DueAbove, Due
<1>5. DueBelow(e, t)
  <2> SUFFICES ASSUME NEW i \in 1 .. MAX_EVENTS, NEW j \in 1 .. MAX_EVENTS,
                      i <= j, j < t, Due(e, i)
               PROVE  Due(e, j)
    BY DEF DueBelow
  <2>1. i \in Slots /\ j \in Slots /\ i < t
    BY <1>1
  <2>2. e[i] = l[i] /\ e[j] = l[j]
    BY <1>2, <2>1
  <2> QED
    BY <2>2 DEF Backlog, DueBelow, Due
<1>6. NoneBehind(e, c, t)
  <2> SUFFICES ASSUME c <= t, NEW i \in 1 .. c - 1 PROVE ~ Due(e, i)
    BY DEF NoneBehind
  <2>1. i \in Slots /\ i < t
    BY <1>1 DEF Slots
  <2>2. e[i] = l[i]
    BY <1>2, <2>1
  <2> QED
    BY <2>2 DEF Backlog, NoneBehind, Due
<1>7. BlankUnused(e)
  <2>1. Erased.sent = FF
    BY DEF Erased
  <2> QED
    BY <1>3, <2>1 DEF Backlog, BlankUnused, Blank
<1>8. \A i \in Slots : Window(c, t, i) \/ (i = c /\ c # t) => i < t \/ (c > t /\ i >= c)
  BY <1>1 DEF Window
<1>9. \A i \in Slots : Window(c, t, i) \/ (i = c /\ c # t) => e[i] = l[i]
  BY <1>2, <1>8
<1> QED
  BY <1>4, <1>5, <1>6, <1>7, <1>9 DEF Backlog, e

(* The newest event joins the ones below the tip; where the tip wraps,     *)
(* they become the ones above it.                                          *)
LEMMA WriteKeepsBacklog ==
  ASSUME NEW c \in Slots, NEW t \in Slots, NEW l, NEW p, Backlog(l, c, t),
         NextSlot(t) # c, \A i \in Slots \ {t} : p[i] = l[i],
         p[t].save = Zero, p[t].sent = AA
  PROVE  Backlog(p, c, NextSlot(t))
<1>1. /\ c \in Nat /\ t \in Nat /\ MAX_EVENTS \in Nat /\ t <= MAX_EVENTS /\ c <= MAX_EVENTS
      /\ \A i \in 1 .. MAX_EVENTS : i \in Slots
      /\ \A i \in c .. MAX_EVENTS : i \in Slots
  BY MaxEventsAssumption DEF Slots
<1>2. Due(p, t) /\ \A i \in Slots \ {t} : Due(p, i) <=> Due(l, i)
  BY DEF Due
<1>3. BlankUnused(p)
  BY DEF Backlog, BlankUnused, Blank, Zero, FF
<1>4. ASSUME NEW i \in 1 .. MAX_EVENTS, NEW j \in 1 .. MAX_EVENTS, i <= j, j <= t, Due(p, i)
      PROVE  Due(p, j)
  <2>1. CASE j = t
    BY <1>2, <2>1
  <2>2. CASE j # t
    <3>1. i \in Slots \ {t} /\ j \in Slots \ {t} /\ j < t
      BY <1>1, <1>4, <2>2
    <3>2. Due(l, j)
      BY <1>2, <1>4, <3>1 DEF Backlog, DueBelow
    <3> QED
      BY <1>2, <3>1, <3>2
  <2> QED
    BY <2>1, <2>2
<1>5. CASE t = MAX_EVENTS
  <2>1. NextSlot(t) = 0 /\ c > 0
    BY <1>1, <1>5 DEF NextSlot
  <2>2. DueAbove(p, c, 0)
    <3>1. \A i \in c .. MAX_EVENTS : i \in 1 .. MAX_EVENTS /\ i <= t
      BY <1>1, <1>5, <2>1
    <3> QED
      BY <1>4, <3>1 DEF DueAbove
  <2>3. DueBelow(p, 0) /\ NoneBehind(p, c, 0)
    BY <1>1, <2>1 DEF DueBelow, NoneBehind
  <2> QED
    BY <1>3, <2>1, <2>2, <2>3 DEF Backlog
<1>6. CASE t # MAX_EVENTS
  <2>1. NextSlot(t) = t + 1 /\ c # t + 1
    BY <1>1, <1>6 DEF NextSlot
  <2>2. DueAbove(p, c, t + 1)
    <3>1. c > t + 1 => c > t /\ \A i \in c .. MAX_EVENTS : i \in Slots \ {t}
      BY <1>1
    <3> QED
      BY <1>2, <3>1 DEF Backlog, DueAbove
  <2>3. DueBelow(p, t + 1)
    <3>1. \A j \in 1 .. MAX_EVENTS : j < t + 1 => j <= t
      BY <1>1
    <3> QED
      BY <1>4, <3>1 DEF DueBelow
  <2>4. NoneBehind(p, c, t + 1)
    <3>1. c <= t + 1 => c <= t /\ \A i \in 1 .. c - 1 : i \in Slots \ {t}
      BY <1>1, <2>1 DEF Slots
    <3> QED
      BY <1>2, <3>1 DEF Backlog, NoneBehind
  <2> QED
    BY <1>3, <2>1, <2>2, <2>3, <2>4 DEF Backlog
<1> QED
  BY <1>5, <1>6

(* The reader leaves only what is not unsent behind.                       *)
LEMMA PassKeepsBacklog ==
  ASSUME NEW c \in Slots, NEW t \in Slots, NEW l, Backlog(l, c, t), c # t, ~ Due(l, c)
  PROVE  Backlog(l, NextSlot(c), t)
<1>1. /\ c \in Nat /\ t \in Nat /\ MAX_EVENTS \in Nat /\ c <= MAX_EVENTS
  BY MaxEventsAssumption DEF Slots
<1>2. CASE c = MAX_EVENTS
  <2>1. NextSlot(c) = 0
    BY <1>1, <1>2 DEF NextSlot
  <2>2. DueAbove(l, 0, t) /\ NoneBehind(l, 0, t)
    BY <1>1 DEF DueAbove, NoneBehind
  <2> QED
    BY <2>1, <2>2 DEF Backlog
<1>3. CASE c # MAX_EVENTS
  <2>1. NextSlot(c) = c + 1
    BY <1>1, <1>3 DEF NextSlot
  <2>2. DueAbove(l, c + 1, t)
    <3>1. c + 1 > t => c > t
      BY <1>1
    <3>2. \A i \in c + 1 .. MAX_EVENTS : i \in c .. MAX_EVENTS
      BY <1>1
    <3> QED
      BY <3>1, <3>2 DEF Backlog, DueAbove
  <2>3. NoneBehind(l, c + 1, t)
    <3> SUFFICES ASSUME c + 1 <= t, NEW i \in 1 .. (c + 1) - 1 PROVE ~ Due(l, i)
      BY DEF NoneBehind
    <3>1. c <= t /\ (i = c \/ i \in 1 .. c - 1)
      BY <1>1
    <3> QED
      BY <3>1 DEF Backlog, NoneBehind
  <2> QED
    BY <2>1, <2>2, <2>3 DEF Backlog
<1> QED
  BY <1>2, <1>3

(* A response takes the slot at the reader's pointer from the unsent ones. *)
LEMMA MarkKeepsBacklog ==
  ASSUME NEW c \in Slots, NEW t \in Slots, NEW l, NEW p, Backlog(l, c, t), c # t,
         \A i \in Slots \ {c} : p[i] = l[i], p[c].sent = Zero, ~ Blank(p, c)
  PROVE  Backlog(p, c, t) /\ ~ Due(p, c)
<1>1. /\ c \in Nat /\ t \in Nat /\ MAX_EVENTS \in Nat /\ c <= MAX_EVENTS
      /\ \A i \in 1 .. MAX_EVENTS : i \in Slots
      /\ \A i \in c .. MAX_EVENTS : i \in Slots
  BY MaxEventsAssumption DEF Slots
<1>2. ~ Due(p, c) /\ \A i \in Slots \ {c} : Due(p, i) <=> Due(l, i)
  BY DEF Due, Zero, AA
<1>3. BlankUnused(p)
  BY DEF Backlog, BlankUnused, Blank
<1>4. DueAbove(p, c, t)
  <2> SUFFICES ASSUME c > t, NEW i \in c .. MAX_EVENTS, NEW j \in c .. MAX_EVENTS,
                      NEW k \in c .. MAX_EVENTS, i <= j, j <= k, Due(p, i), Due(p, k)
               PROVE  Due(p, j)
    BY DEF DueAbove
  <2>1. i # c /\ j # c /\ k # c
    BY <1>1, <1>2
  <2>2. Due(l, i) /\ Due(l, k)
    BY <1>1, <1>2, <2>1
  <2>3. Due(l, j)
    BY <2>2 DEF Backlog, DueAbove
  <2> QED
    BY <1>1, <1>2, <2>1, <2>3
<1>5. DueBelow(p, t)
  <2> SUFFICES ASSUME NEW i \in 1 .. MAX_EVENTS, NEW j \in 1 .. MAX_EVENTS,
                      i <= j, j < t, Due(p, i)
               PROVE  Due(p, j)
    BY DEF DueBelow
  <2>1. i # c /\ Due(l, i)
    BY <1>1, <1>2
  <2>2. Due(l, j)
    BY <2>1 DEF Backlog, DueBelow
  <2>3. j # c
    <3> SUFFICES ASSUME j = c PROVE FALSE
      OBVIOUS
    <3>1. i \in 1 .. c - 1 /\ c <= t
      BY <1>1, <2>1
    <3> QED
      BY <2>1, <3>1 DEF Backlog, NoneBehind
  <2> QED
    BY <1>1, <1>2, <2>2, <2>3
<1>6. NoneBehind(p, c, t)
  <2>1. \A i \in 1 .. c - 1 : i \in Slots \ {c}
    BY <1>1 DEF Slots
  <2> QED
    BY <1>2, <2>1 DEF Backlog, NoneBehind
<1> QED
  BY <1>2, <1>3, <1>4, <1>5, <1>6 DEF Backlog

(* The second scan keeps what is unsent together, and ends no further than *)
(* at the oldest event that still awaits its upload, slot 0 apart.         *)
LEMMA BootKeepsBacklog ==
  ASSUME NEW l, NEW c \in Slots, NEW t \in Slots, Ring(l, t), Backlog(l, c, t),
         NEW b \in Slots, b = BootEvent(l)
  PROVE  /\ BootCheck(l, b) \in Slots /\ Backlog(l, BootCheck(l, b), b)
         /\ Blank(l, t) /\ t # MAX_EVENTS =>
              \A i \in Slots \ {0} : Window(c, t, i) /\ Due(l, i) => Window(BootCheck(l, b), b, i)
<1> DEFINE unsent == {i \in 1 .. MAX_EVENTS : l[i].sent = AA}
           d == BootCheck(l, b)
<1>0. /\ c \in Nat /\ t \in Nat /\ MAX_EVENTS \in Nat /\ MAX_EVENTS > 0 /\ t <= MAX_EVENTS
      /\ \A i \in unsent : i \in 1 .. MAX_EVENTS /\ i \in Nat /\ Due(l, i)
      /\ \A i \in 1 .. MAX_EVENTS : Due(l, i) => i \in unsent
  BY MaxEventsAssumption DEF Slots, Due
<1>1. /\ d \in Slots /\ (unsent = {} => d = b)
      /\ unsent # {} => \E top \in unsent :
           /\ \A i \in unsent : top >= i
           /\ d \in unsent /\ UnsentRun(l, d, top)
           /\ \A i \in unsent : UnsentRun(l, i, top) => d <= i
  BY BootCheckFacts
<1> HIDE DEF d, unsent
<1>2. d \in Nat /\ b \in Nat
  BY <1>1, MaxEventsAssumption DEF Slots
<1>3. BlankUnused(l)
  BY DEF Backlog
<1>4. ASSUME NEW top \in unsent, \A i \in unsent : top >= i, d \in unsent, UnsentRun(l, d, top)
      PROVE  DueAbove(l, d, b)
  <2> SUFFICES ASSUME NEW i \in d .. MAX_EVENTS, NEW j \in d .. MAX_EVENTS,
                      NEW k \in d .. MAX_EVENTS, i <= j, j <= k, Due(l, k)
               PROVE  Due(l, j)
    BY DEF DueAbove
  <2>1. k \in unsent
    BY <1>0, <1>4
  <2>2. j \in d .. top
    BY <1>0, <1>2, <1>4, <2>1
  <2> QED
    BY <1>4, <2>2 DEF UnsentRun, Due
<1>5. CASE unsent = {}
  <2>1. \A i \in 1 .. MAX_EVENTS : ~ Due(l, i)
    BY <1>0, <1>5
  <2>2. d = b /\ b <= MAX_EVENTS
    BY <1>1, <1>5, <1>0 DEF Slots
  <2>3. \A i \in 1 .. d - 1 : i \in 1 .. MAX_EVENTS
    BY <1>0, <1>2, <2>2
  <2>4. DueAbove(l, d, b) /\ DueBelow(l, b) /\ NoneBehind(l, d, b)
    BY <1>2, <2>1, <2>2, <2>3 DEF DueAbove, DueBelow, NoneBehind
  <2>5. \A i \in Slots \ {0} : ~ Due(l, i)
    BY <1>0, <2>1 DEF Slots
  <2> QED
    BY <1>1, <1>3, <2>4, <2>5 DEF Backlog, d
<1>6. CASE unsent # {} /\ ~ (Blank(l, t) /\ t # MAX_EVENTS)
  <2>1. b = 0
    BY <1>6, BootFindsTip DEF Ring
  <2>2. DueAbove(l, d, b)
    BY <1>1, <1>4, <1>6
  <2>3. DueBelow(l, b) /\ NoneBehind(l, d, b)
    BY <1>2, <2>1 DEF DueBelow, NoneBehind
  <2> QED
    BY <1>1, <1>3, <1>6, <2>2, <2>3 DEF Backlog, d
<1>7. CASE unsent # {} /\ Blank(l, t) /\ t # MAX_EVENTS
  <2>1. b = t
    BY <1>7, BootFindsTip DEF Ring
  <2>2. PICK top \in unsent :
          /\ \A i \in unsent : top >= i
          /\ d \in unsent /\ UnsentRun(l, d, top)
          /\ \A i \in unsent : UnsentRun(l, i, top) => d <= i
    BY <1>1, <1>7
  <2>3. top \in Nat /\ d <= top /\ d \in 1 .. MAX_EVENTS /\ top \in 1 .. MAX_EVENTS
    BY <1>0, <2>2
  <2>4. d > t \/ top < t
    <3>1. ~ Due(l, t)
      BY <1>3, <1>7 DEF BlankUnused, Due, FF, AA
    <3>2. t \notin d .. top
      BY <2>2, <3>1 DEF UnsentRun, Due
    <3> QED
      BY <1>0, <1>2, <2>3, <3>2
  <2>5. ASSUME NEW i \in 1 .. MAX_EVENTS, Due(l, i), top < t PROVE d <= i
    <3>1. i \in unsent /\ i <= top
      BY <1>0, <2>2, <2>5
    <3>2. ASSUME NEW j \in i .. top PROVE Due(l, j)
      <4>1. j \in 1 .. MAX_EVENTS /\ i <= j /\ j < t
        BY <1>0, <2>3, <2>5
      <4> QED
        BY <2>5, <4>1 DEF Backlog, DueBelow
    <3>3. UnsentRun(l, i, top)
      BY <3>2 DEF UnsentRun, Due
    <3> QED
      BY <2>2, <3>1, <3>3
  <2>6. DueAbove(l, d, t)
    BY <1>4, <2>1, <2>2
  <2>7. NoneBehind(l, d, t)
    <3> SUFFICES ASSUME d <= t, NEW i \in 1 .. d - 1, Due(l, i) PROVE FALSE
      BY DEF NoneBehind
    <3>1. top < t /\ i \in 1 .. MAX_EVENTS /\ i < d
      BY <1>0, <1>2, <2>3, <2>4
    <3> QED
      BY <1>2, <2>5, <3>1
  <2>8. ASSUME NEW i \in Slots \ {0}, Window(c, t, i), Due(l, i)
        PROVE  Window(d, t, i)
    <3>1. i \in 1 .. MAX_EVENTS /\ i \in unsent /\ i <= top
      BY <1>0, <2>2, <2>8 DEF Slots
    <3>2. CASE i < t /\ d > t
      BY <1>0, <1>2, <3>1, <3>2 DEF Window
    <3>3. CASE i < t /\ top < t
      <4>1. d <= i
        BY <2>5, <2>8, <3>1, <3>3
      <4> QED
        BY <1>0, <1>2, <3>1, <3>3, <4>1 DEF Window
    <3>4. CASE ~ i < t
      <4>1. c > t /\ i >= c
        BY <1>0, <2>8, <3>1, <3>4 DEF Window
      <4>2. d > t
        BY <1>0, <2>3, <2>4, <3>1, <3>4
      <4>3. ASSUME NEW j \in i .. top PROVE Due(l, j)
        <5>1. /\ i \in c .. MAX_EVENTS /\ j \in c .. MAX_EVENTS /\ top \in c .. MAX_EVENTS
              /\ i <= j /\ j <= top
          BY <1>0, <2>3, <3>1, <4>1
        <5>2. Due(l, top)
          BY <1>0
        <5> QED
          BY <2>8, <4>1, <5>1, <5>2 DEF Backlog, DueAbove
      <4>4. UnsentRun(l, i, top)
        BY <4>3 DEF UnsentRun, Due
      <4>5. d <= i
        BY <2>2, <3>1, <4>4
      <4> QED
        BY <1>0, <1>2, <4>2, <4>5 DEF Window
    <3> QED
      BY <2>4, <3>2, <3>3, <3>4
  <2>9. Backlog(l, d, b)
    BY <1>3, <2>1, <2>6, <2>7 DEF Backlog
  <2> QED
    BY <1>1, <2>1, <2>8, <2>9 DEF d
<1> QED
  BY <1>5, <1>6, <1>7

(* Every step, resets included, keeps backlog and reader, with room left.  *)
LEMMA ResetStep == ResetInv /\ [ResetNext]_vars => ResetInv'
<1> SUFFICES ASSUME ResetInv, [ResetNext]_vars PROVE ResetInv'
  OBVIOUS
<1> USE DEF logVars, clientVars, netVars, history
<1> DEFINE c == glast_event_check
<1>t. /\ TypeOK /\ log \in [Slots -> Record] /\ glast_event \in Slots /\ c \in Slots
      /\ Tip \in Slots /\ Ring(log, Tip) /\ Backlog(log, c, Tip) /\ ReaderInv
      /\ writing \in BOOLEAN
  BY NextSlotType DEF ResetInv, HarshInv, TypeOK, Tip
<1>h. HarshInv'
  <2>1. [HarshNext]_vars
    BY DEF ResetNext, Next, HarshNext
  <2> QED
    BY <2>1, HarshStep DEF ResetInv
<1>1. CASE Room /\ LogWrite
  <2> DEFINE g == glast_event
             base == IF AtSectorStart(g) THEN EraseSector(log, g) ELSE log
  <2>1. /\ log' = Program(base, g, Unsent(nlogged + 1)) /\ Tip = g /\ Tip' = NextSlot(g)
        /\ nlogged + 1 \in Nat \ {0} /\ NextSlot(g) # c /\ writing'
        /\ UNCHANGED <<glast_event, glast_event_check, state>>
        /\ (AtSectorStart(g) => c = g \/ SectorOf(c) # SectorOf(g))
    BY <1>1, <1>t DEF LogWrite, Tip, TypeOK, Room
  <2>2. base \in [Slots -> Record]
    BY <1>t, EraseType
  <2>3. /\ Ring(base, g) /\ Blank(base, g) /\ Backlog(base, c, g)
        /\ (AtSectorStart(g) => \A i \in Slots : SectorOf(i) = SectorOf(g) => Blank(base, i))
        /\ (c # g => base[c] = log[c])
    <3>1. CASE AtSectorStart(g)
      <4>1. \A i \in Slots : SectorOf(i) = SectorOf(g) => EraseSector(log, g)[i].save = FF
        BY DEF EraseSector, Erased
      <4>2. Ring(EraseSector(log, g), g) /\ Blank(EraseSector(log, g), g)
        BY <1>t, <2>1, <3>1, EraseKeepsRing
      <4>3. /\ Backlog(EraseSector(log, g), c, g)
            /\ (c # g => EraseSector(log, g)[c] = log[c])
        BY <1>t, <2>1, <3>1, EraseKeepsBacklog
      <4> QED
        BY <3>1, <4>1, <4>2, <4>3 DEF Blank
    <3>2. CASE ~ AtSectorStart(g)
      <4>1. Blank(log, g)
        BY <1>t, <2>1, <3>2 DEF Ring, SectorReady, Slots
      <4> QED
        BY <1>t, <2>1, <3>2, <4>1
    <3> QED
      BY <3>1, <3>2
  <2> HIDE DEF base
  <2>4. base[g].sent = FF
    BY <1>t, <2>3 DEF Backlog, BlankUnused
  <2>5. /\ \A i \in Slots \ {g} : log'[i] = base[i]
        /\ log'[g].save = Zero /\ log'[g].sent = AA
    BY <1>t, <2>1, <2>2, <2>3, <2>4, WriteKeepsRing
  <2>6. Backlog(log', c, Tip')
    BY <1>t, <2>1, <2>3, <2>5, WriteKeepsBacklog
  <2>7. ReaderInv'
    <3>1. c # g => log'[c] = log[c]
      BY <1>t, <2>3, <2>5
    <3> QED
      BY <1>t, <2>1, <3>1 DEF ReaderInv, Blank
  <2> QED
    BY <1>h, <2>1, <2>6, <2>7 DEF ResetInv
<1>2. CASE LogAdvance
  <2>1. Tip' = Tip /\ UNCHANGED <<log, glast_event_check, state>> /\ writing /\ ~ writing'
        /\ glast_event' = Tip
    BY <1>2 DEF LogAdvance, Tip
  <2>2. ReaderInv'
    BY <1>t, <2>1 DEF ReaderInv
  <2> QED
    BY <1>h, <1>t, <2>1, <2>2 DEF ResetInv
<1>c. ASSUME c # glast_event
      PROVE  c # Tip /\ (writing => Tip # NextSlot(c))
  <2>1. CASE writing
    BY <1>c, <1>t, <2>1, NextSlotInjective DEF ReaderInv, Tip
  <2>2. CASE ~ writing
    BY <1>c, <2>2 DEF Tip
  <2> QED
    BY <2>1, <2>2
<1>3. CASE StateInit
  <2>1. c # glast_event /\ UNCHANGED <<log, glast_event, writing>> /\ Tip' = Tip
        /\ state = "IDEAL"
    BY <1>3 DEF StateInit, Tip
  <2>2. CASE log[c].sent = AA
    <3>1. state' = "CONNECT" /\ glast_event_check' = c
      BY <1>3, <2>2 DEF StateInit
    <3>2. ~ Blank(log, c)
      BY <1>t, <2>2 DEF Backlog, BlankUnused, FF, AA
    <3>3. ReaderInv'
      BY <1>t, <2>1, <3>1, <3>2 DEF ReaderInv, Blank
    <3> QED
      BY <1>h, <1>t, <2>1, <3>1, <3>3 DEF ResetInv
  <2>3. CASE log[c].sent # AA
    <3>1. state' = "IDEAL" /\ glast_event_check' = NextSlot(c)
      BY <1>3, <2>1, <2>3 DEF StateInit
    <3>2. Backlog(log, NextSlot(c), Tip)
      BY <1>t, <1>c, <2>1, <2>3, PassKeepsBacklog DEF Due
    <3>3. ReaderInv'
      BY <1>c, <2>1, <3>1 DEF ReaderInv
    <3> QED
      BY <1>h, <2>1, <3>1, <3>2, <3>3 DEF ResetInv
  <2> QED
    BY <2>2, <2>3
<1>4. CASE Receive
  <2>1. /\ state \in {"WAIT", "RECEIVE"} /\ state' = "CLOSE"
        /\ UNCHANGED <<glast_event, writing>> /\ Tip' = Tip
    BY <1>4 DEF Receive, Tip
  <2>2. c # glast_event /\ ~ Blank(log, c)
    BY <1>t, <2>1 DEF ReaderInv
  <2>3. CASE reply = c
    <3>1. /\ log' = Program(log, c, [log[c] EXCEPT !.sent = Zero])
          /\ glast_event_check' = NextSlot(c)
      BY <1>4, <2>3 DEF Receive, CheckEventReceive
    <3>2. /\ log'[c].sent = Zero /\ \A i \in Slots \ {c} : log'[i] = log[i]
          /\ log'[c].save = log[c].save
      BY <1>t, <3>1, MarkKeepsRing
    <3>3. Backlog(log', c, Tip) /\ ~ Due(log', c)
      BY <1>t, <1>c, <2>2, <3>2, MarkKeepsBacklog DEF Blank
    <3>4. Backlog(log', NextSlot(c), Tip)
      BY <1>t, <1>c, <2>2, <3>3, PassKeepsBacklog
    <3>5. ReaderInv'
      BY <1>c, <2>1, <2>2, <3>1 DEF ReaderInv
    <3> QED
      BY <1>h, <2>1, <3>1, <3>4, <3>5 DEF ResetInv
  <2>4. CASE reply # c
    <3>1. UNCHANGED <<log, glast_event_check>>
      BY <1>4, <2>4 DEF Receive, CheckEventReceive
    <3>2. ReaderInv'
      BY <1>t, <2>1, <3>1 DEF ReaderInv
    <3> QED
      BY <1>h, <1>t, <2>1, <3>1, <3>2 DEF ResetInv
  <2> QED
    BY <2>3, <2>4
<1>5. CASE (Client /\ ~ StateInit /\ ~ Receive) \/ World \/ SetHold \/ UNCHANGED vars
  <2>1. /\ UNCHANGED <<log, glast_event, glast_event_check, writing>>
        /\ state' \in {"CONNECT", "SEND", "WAIT", "RECEIVE"} =>
             state \in {"CONNECT", "SEND", "WAIT", "RECEIVE"}
    <3>1. CASE Client /\ ~ StateInit /\ ~ Receive
      BY <3>1 DEF Client, StateConnect, SendOk, SendAgain, SendFail, ReceiveTimeout, StateClose
    <3>2. CASE World
      BY <3>2 DEF World, Establish, Serve, ServeBadly, LateArrival, Loss
    <3> QED
      BY <1>5, <3>1, <3>2 DEF SetHold, vars
  <2>2. Tip' = Tip
    BY <2>1 DEF Tip
  <2>3. ReaderInv'
    BY <1>t, <2>1, <2>2 DEF ReaderInv
  <2> QED
    BY <1>h, <1>t, <2>1, <2>2, <2>3 DEF ResetInv
<1>6. CASE Reset \/ (Room /\ ResetInLog)
  <2>1. PICK l : Restart(l) /\ Ring(l, Tip) /\ Backlog(l, c, Tip)
    <3>1. CASE Reset
      BY <1>t, <3>1 DEF Reset
    <3>2. CASE Room /\ ResetInLog
      BY <1>t, <3>2, EraseKeepsRing, EraseKeepsBacklog DEF ResetInLog, Room, Tip
    <3> QED
      BY <1>6, <3>1, <3>2
  <2>2. /\ log' = l /\ Tip' = BootEvent(l) /\ glast_event_check' = BootCheck(l, BootEvent(l))
        /\ ~ writing' /\ state' = "IDEAL"
    BY <2>1 DEF Restart, Tip
  <2>3. BootEvent(l) \in Slots
    BY <1>t, <2>1, BootKeepsRing
  <2>4. Backlog(l, BootCheck(l, BootEvent(l)), BootEvent(l))
    BY <1>t, <2>1, <2>3, BootKeepsBacklog
  <2>5. ReaderInv'
    BY <2>2 DEF ReaderInv
  <2> QED
    BY <1>h, <2>2, <2>4, <2>5 DEF ResetInv
<1> QED
  BY <1>1, <1>2, <1>3, <1>4, <1>5, <1>6 DEF ResetNext, Next, Client

(* Nothing is unsent in an empty ring.                                     *)
LEMMA ResetInit == Init => ResetInv
<1> SUFFICES ASSUME Init PROVE ResetInv
  OBVIOUS
<1>1. glast_event_check = 0 /\ Tip = 0 /\ \A i \in Slots : log[i].sent = FF
  BY DEF Init, Tip, Erased
<1>2. \A i \in Slots : ~ Due(log, i)
  BY <1>1 DEF Due, FF, AA
<1>3. Backlog(log, 0, 0)
  <2>1. \A i \in 1 .. MAX_EVENTS : i \in Slots
    BY MaxEventsAssumption DEF Slots
  <2> QED
    BY <1>1, <1>2, <2>1 DEF Backlog, DueAbove, DueBelow, NoneBehind, BlankUnused
<1>4. ReaderInv
  BY DEF Init, ReaderInv
<1> QED
  BY <1>1, <1>3, <1>4, HarshInit DEF ResetInv

(* Erasing the tip's sector leaves a slot that awaits upload as it is.     *)
LEMMA EraseKeepsDue ==
  ASSUME NEW l \in [Slots -> Record], NEW c \in Slots, NEW t \in Slots, Backlog(l, c, t),
         AtSectorStart(t), c = t \/ SectorOf(c) # SectorOf(t),
         NEW i \in Slots, Window(c, t, i)
  PROVE  EraseSector(l, t)[i] = l[i]
BY EraseKeepsBacklog

(* Between the reader and the tip, a slot is fewer steps from the reader.  *)
LEMMA WindowAhead ==
  ASSUME NEW c \in Slots, NEW t \in Slots, NEW i \in Slots, Window(c, t, i)
  PROVE  (IF i >= c THEN i - c ELSE i - c + MAX_EVENTS + 1)
           < (IF t >= c THEN t - c ELSE t - c + MAX_EVENTS + 1)
BY MaxEventsAssumption DEF Window, Slots

(* A reset gives no event up, as long as there is room and the tip can be  *)
(* seen: what awaited its upload above slot 0 awaits it still.             *)
THEOREM ResetKeepsCorrect == ResetSpec => ResetKeepsPending
<1>1. ResetInv /\ [ResetNext]_vars
        => [resets' # resets /\ TipVisible =>
              \A i \in Slots \ {0} : Pending(i) /\ log[i].sent = AA => Pending(i)']_vars
  <2> SUFFICES ASSUME ResetInv, ResetNext, resets' # resets, TipVisible,
                      NEW i \in Slots \ {0}, Pending(i), log[i].sent = AA
               PROVE  Pending(i)'
    OBVIOUS
  <2> USE DEF logVars, clientVars, netVars, history
  <2> DEFINE c == glast_event_check
  <2>t. /\ log \in [Slots -> Record] /\ glast_event \in Slots /\ c \in Slots
        /\ Tip \in Slots /\ Ring(log, Tip) /\ Backlog(log, c, Tip)
    BY NextSlotType DEF ResetInv, HarshInv, TypeOK, Tip
  <2>1. Reset \/ (Room /\ ResetInLog)
    <3>1. ~ (LogWrite \/ LogAdvance \/ SetHold)
      BY DEF LogWrite, LogAdvance, SetHold
    <3>2. ~ Client
      BY DEF Client, StateInit, StateConnect, SendOk, SendAgain, SendFail, Receive,
             ReceiveTimeout, StateClose
    <3>3. ~ World
      BY DEF World, Establish, Serve, ServeBadly, LateArrival, Loss
    <3> QED
      BY <3>1, <3>2, <3>3 DEF ResetNext, Next
  <2>2. Window(c, Tip, i)
    BY <2>t, PendingWindow
  <2>3. PICK l : /\ Restart(l) /\ Ring(l, Tip) /\ Backlog(l, c, Tip) /\ Blank(l, Tip)
                 /\ l[i] = log[i]
    <3>1. CASE Reset
      BY <2>t, <3>1 DEF Reset, TipVisible, Blank
    <3>2. CASE Room /\ ResetInLog
      <4> DEFINE e == EraseSector(log, Tip)
      <4>1. /\ Restart(e) /\ AtSectorStart(Tip) /\ (c = Tip \/ SectorOf(c) # SectorOf(Tip))
        BY <3>2 DEF ResetInLog, Room, Tip
      <4>2. Ring(e, Tip) /\ Blank(e, Tip)
        BY <2>t, <4>1, EraseKeepsRing
      <4>3. Backlog(e, c, Tip)
        BY <2>t, <4>1, EraseKeepsBacklog
      <4>4. e[i] = log[i]
        BY <2>t, <2>2, <4>1, EraseKeepsDue
      <4> QED
        BY <4>1, <4>2, <4>3, <4>4
    <3> QED
      BY <2>1, <3>1, <3>2
  <2>4. /\ Tip' = BootEvent(l) /\ glast_event_check' = BootCheck(l, BootEvent(l))
        /\ glast_event' = BootEvent(l)
    BY <2>3 DEF Restart, Tip
  <2>5. BootEvent(l) \in Slots
    BY <2>t, <2>3, BootKeepsRing
  <2>6. /\ BootCheck(l, BootEvent(l)) \in Slots
        /\ Window(BootCheck(l, BootEvent(l)), BootEvent(l), i)
    BY <2>t, <2>2, <2>3, <2>5, BootKeepsBacklog DEF TipVisible, Due
  <2>7. /\ glast_event_check' \in Slots /\ Tip' \in Slots
        /\ Window(glast_event_check', Tip', i)
    BY <2>4, <2>5, <2>6
  <2>8. Pending(i)' <=> Ahead(i)' < Ahead(Tip)'
    BY DEF Pending
  <2>9. Ahead(i)' = IF i >= glast_event_check' THEN i - glast_event_check'
                     ELSE i - glast_event_check' + MAX_EVENTS + 1
    BY DEF Ahead
  <2>10. Ahead(Tip)' = IF Tip' >= glast_event_check' THEN Tip' - glast_event_check'
                       ELSE Tip' - glast_event_check' + MAX_EVENTS + 1
    BY DEF Ahead
  <2>11. Ahead(i)' < Ahead(Tip)'
    BY <2>7, <2>9, <2>10, WindowAhead
  <2> QED
    BY <2>8, <2>11
<1> QED
  BY <1>1, ResetInit, ResetStep, PTL DEF ResetSpec, ResetKeepsPending
=============================================================================
