---------------------------- MODULE EventUpload -----------------------------
(***************************************************************************)
(* How an event gets from the cabinet to the server: prot_log_event writes *)
(* it into the flash ring, the event client of tcp_client_event.c sends    *)
(* the slot at glast_event_check over a connection of its own, and only    *)
(* the server's response marks the slot sent and moves the pointer on.     *)
(*                                                                         *)
(* There is one thread.  The client is polled from every delay() and every *)
(* key wait of the main loop, also from the delay(10) in the middle of     *)
(* prot_log_event, so its steps fall between any two steps of the menus;   *)
(* only the receive loop inside tcpClienteventStateSend keeps the thread.  *)
(***************************************************************************)
EXTENDS EventFlash

CONSTANTS MAX_LOGGED, \* bound of the model: events logged in a behaviour
          MAX_RESETS  \* bound of the model: resets in a behaviour

ASSUME BoundsAssumption == MAX_LOGGED \in Nat /\ MAX_RESETS \in Nat

VARIABLES
  log,               \* the slots of EVENT_BLOCK
  glast_event,       \* slot the next event is written to
  glast_event_check, \* slot whose upload is due
  writing,           \* prot_log_event is in its delay(10)
  state,             \* state of the event client
  hold,              \* hb_event_loginflag
  event_first_flag,  \* the packet is built and its send is being retried
  frame,             \* the packet in buffer: message id and event
  conn,              \* what the client's socket and the link have done so far
  reply,             \* message id of the response on its way
  stray,             \* frames of closed connections still on the network
  delivered,         \* events the server has taken
  nlogged,           \* events logged so far
  confirmed,         \* responses accepted so far
  resets             \* resets so far

logVars    == <<log, glast_event, glast_event_check>>
clientVars == <<state, event_first_flag, frame>>
netVars    == <<conn, reply, stray>>
history    == <<nlogged, confirmed>>
vars == <<logVars, writing, hold, clientVars, netVars, delivered, history, resets>>

(* SEND and WAIT are both TCP_CLIENT_EVENT_STATE_SEND: WAIT is the receive *)
(* loop that follows a send.                                               *)
ClientStates == {"IDEAL", "CONNECT", "SEND", "WAIT", "RECEIVE", "CLOSE"}
ConnStates   == {"closed", "opening", "open", "sent", "answered"}
NoSlot  == -1
Frame   == [mid : Slots, ev : Int]

TypeOK ==
  /\ log \in [Slots -> Record]
  /\ glast_event \in Slots /\ glast_event_check \in Slots
  /\ writing \in BOOLEAN /\ hold \in BOOLEAN /\ event_first_flag \in BOOLEAN
  /\ state \in ClientStates
  /\ frame \in Frame /\ stray \subseteq Frame
  /\ conn \in ConnStates /\ reply \in Slots \union {NoSlot}
  /\ delivered \subseteq Int
  /\ nlogged \in Nat /\ confirmed \in Nat /\ resets \in Nat

Init ==
  /\ log = [i \in Slots |-> Erased]
  /\ glast_event = 0 /\ glast_event_check = 0
  /\ writing = FALSE /\ hold = FALSE /\ event_first_flag = FALSE
  /\ state = "IDEAL"
  /\ frame = [mid |-> 0, ev |-> FF] /\ stray = {}
  /\ conn = "closed" /\ reply = NoSlot
  /\ delivered = {}
  /\ nlogged = 0 /\ confirmed = 0 /\ resets = 0

-----------------------------------------------------------------------------
(* The slot after the newest event, whether or not glast_event is past it. *)
Tip == IF writing THEN NextSlot(glast_event) ELSE glast_event

(* Slots from the reader's pointer on, and the slots that await upload.    *)
Ahead(i) ==
  IF i >= glast_event_check THEN i - glast_event_check
  ELSE i - glast_event_check + MAX_EVENTS + 1
Pending(i) == Ahead(i) < Ahead(Tip)

(* The reader is never so far behind that the next event would reach its   *)
(* slot, or would erase the sector it is in.                               *)
Room ==
  /\ NextSlot(glast_event) # glast_event_check
  /\ \/ ~ AtSectorStart(glast_event)
     \/ glast_event = glast_event_check
     \/ SectorOf(glast_event) # SectorOf(glast_event_check)

(* The main loop runs, or is inside a delay() of its own.                  *)
MainRuns == state # "WAIT"

(* A variant of LogWrite that enters a sector without erasing it.          *)
LogWriteNoErase ==
  /\ MainRuns /\ ~ writing /\ nlogged < MAX_LOGGED
  /\ log' = Program(log, glast_event, Unsent(nlogged + 1))
  /\ writing' = TRUE
  /\ nlogged' = nlogged + 1
  /\ UNCHANGED <<glast_event, glast_event_check, hold, clientVars, netVars,
                 delivered, confirmed, resets>>
(* prot_log_event up to its delay(10).                                     *)
LogWrite ==
  /\ MainRuns /\ ~ writing /\ nlogged < MAX_LOGGED
  /\ LET base == IF AtSectorStart(glast_event)
                 THEN EraseSector(log, glast_event) ELSE log
     IN  log' = Program(base, glast_event, Unsent(nlogged + 1))
  /\ writing' = TRUE
  /\ nlogged' = nlogged + 1
  /\ UNCHANGED <<glast_event, glast_event_check, hold, clientVars, netVars,
                 delivered, confirmed, resets>>

(* prot_log_event after its delay(10).                                     *)
LogAdvance ==
  /\ MainRuns /\ writing
  /\ glast_event' = NextSlot(glast_event)
  /\ writing' = FALSE
  /\ UNCHANGED <<log, glast_event_check, hold, clientVars, netVars, delivered,
                 history, resets>>

(* The main loop and the heartbeat client set and clear hb_event_loginflag.*)
SetHold ==
  /\ MainRuns
  /\ hold' \in BOOLEAN \ {hold}
  /\ UNCHANGED <<logVars, writing, clientVars, netVars, delivered, history, resets>>

-----------------------------------------------------------------------------
(* A variant of StateInit that does not pass over a slot already sent.     *)
StateInitWaits ==
  /\ state = "IDEAL" /\ ~ hold /\ glast_event_check # glast_event
  /\ log[glast_event_check].sent = AA
  /\ state' = "CONNECT"
  /\ UNCHANGED <<logVars, writing, hold, event_first_flag, frame, netVars,
                 delivered, history, resets>>

(* tcpClienteventStateInit: connect for an unsent slot, pass over others.  *)
StateInit ==
  /\ state = "IDEAL" /\ ~ hold /\ glast_event_check # glast_event
  /\ IF log[glast_event_check].sent = AA
     THEN /\ state' = "CONNECT"
          /\ UNCHANGED glast_event_check
     ELSE /\ glast_event_check' = NextSlot(glast_event_check)
          /\ UNCHANGED state
  /\ UNCHANGED <<log, glast_event, writing, hold, event_first_flag, frame, netVars,
                 delivered, history, resets>>

(* tcpClienteventStateConnect: socketConnect may succeed, time out with    *)
(* the handshake still under way, or fail as socketOpen may.               *)
StateConnect(outcome) ==
  /\ state = "CONNECT"
  /\ conn' = outcome
  /\ state' = IF outcome = "closed" THEN "CLOSE" ELSE "SEND"
  /\ UNCHANGED <<logVars, writing, hold, event_first_flag, frame, reply, stray,
                 delivered, history, resets>>

(* A variant of Packet that reads the slot at the wrong pointer.           *)
PacketOfWriter ==
  IF event_first_flag THEN frame
  ELSE [mid |-> glast_event, ev |-> log[glast_event].ev]

(* handle_protocol_packet, run once per packet: event_first_flag says that *)
(* buffer already holds it.                                                *)
Packet ==
  IF event_first_flag THEN frame
  ELSE [mid |-> glast_event_check, ev |-> log[glast_event_check].ev]

(* tcpClienteventStateSend: sent, to be sent again, or given up.           *)
SendOk ==
  /\ state = "SEND" /\ conn = "open"
  /\ frame' = Packet /\ event_first_flag' = FALSE
  /\ conn' = "sent" /\ state' = "WAIT"
  /\ UNCHANGED <<logVars, writing, hold, reply, stray, delivered, history, resets>>
SendAgain ==
  /\ state = "SEND" /\ conn \in {"open", "opening"}
  /\ frame' = Packet /\ event_first_flag' = TRUE
  /\ UNCHANGED <<logVars, writing, hold, state, netVars, delivered, history, resets>>
SendFail ==
  /\ state = "SEND"
  /\ frame' = Packet /\ event_first_flag' = FALSE
  /\ state' = "CLOSE"
  /\ UNCHANGED <<logVars, writing, hold, netVars, delivered, history, resets>>

(* A variant of CheckEventReceive that does not compare the message id.    *)
MarkAnySent ==
  /\ log' = Program(log, glast_event_check,
                    [log[glast_event_check] EXCEPT !.sent = Zero])
  /\ glast_event_check' = NextSlot(glast_event_check)
  /\ confirmed' = confirmed + 1
(* check_event_receive: only a response with the id of the slot at the     *)
(* reader's pointer marks the slot sent and moves the pointer.             *)
CheckEventReceive ==
  IF reply = glast_event_check
  THEN /\ log' = Program(log, glast_event_check,
                         [log[glast_event_check] EXCEPT !.sent = Zero])
       /\ glast_event_check' = NextSlot(glast_event_check)
       /\ confirmed' = confirmed + 1
  ELSE UNCHANGED <<log, glast_event_check, confirmed>>

(* A response arrives in the receive loop or in tcpClienteventStatereceive.*)
Receive ==
  /\ state \in {"WAIT", "RECEIVE"} /\ conn = "answered"
  /\ CheckEventReceive
  /\ conn' = "open" /\ reply' = NoSlot
  /\ state' = "CLOSE"
  /\ UNCHANGED <<glast_event, writing, hold, event_first_flag, frame, stray,
                 delivered, nlogged, resets>>

(* 20 s in the receive loop, then one more second from the main loop.      *)
ReceiveTimeout ==
  /\ state \in {"WAIT", "RECEIVE"}
  /\ state' = IF state = "WAIT" THEN "RECEIVE" ELSE "CLOSE"
  /\ UNCHANGED <<logVars, writing, hold, event_first_flag, frame, netVars,
                 delivered, history, resets>>

(* What the network does with a connection the cabinet is done with.       *)
Abandon ==
  /\ conn' = "closed" /\ reply' = NoSlot
  /\ stray' = IF conn = "sent" THEN stray \union {frame} ELSE stray

(* A variant of StateClose that goes on to the next slot, sent or not.     *)
StateCloseMovesOn ==
  /\ state = "CLOSE"
  /\ Abandon
  /\ state' = "IDEAL"
  /\ glast_event_check' = IF glast_event_check = glast_event THEN glast_event_check
                          ELSE NextSlot(glast_event_check)
  /\ UNCHANGED <<log, glast_event, writing, hold, event_first_flag, frame, delivered,
                 history, resets>>

(* tcpClienteventStateClose.                                               *)
StateClose ==
  /\ state = "CLOSE"
  /\ Abandon
  /\ state' = "IDEAL"
  /\ UNCHANGED <<logVars, writing, hold, event_first_flag, frame, delivered,
                 history, resets>>

-----------------------------------------------------------------------------
(* The network and the server, which are not part of the repository.       *)
Establish ==
  /\ conn = "opening" /\ conn' = "open"
  /\ UNCHANGED <<logVars, writing, hold, clientVars, reply, stray, delivered,
                 history, resets>>

(* The server takes the frame and answers with its id, in time or not.     *)
Serve ==
  /\ conn = "sent" /\ conn' = "answered"
  /\ delivered' = delivered \union {frame.ev}
  /\ reply' = frame.mid
  /\ UNCHANGED <<logVars, writing, hold, clientVars, stray, history, resets>>

(* Or the answer is of no use, another length, id or serial number or a    *)
(* bad checksum, whether or not the server has taken the frame.            *)
ServeBadly ==
  /\ conn = "sent" /\ conn' = "answered"
  /\ delivered' \in {delivered, delivered \union {frame.ev}}
  /\ reply' = NoSlot
  /\ UNCHANGED <<logVars, writing, hold, clientVars, stray, history, resets>>

(* A frame of a closed connection reaches the server late, or is lost.     *)
LateArrival(f) ==
  /\ stray' = stray \ {f}
  /\ delivered' = delivered \union {f.ev}
  /\ UNCHANGED <<logVars, writing, hold, clientVars, conn, reply, history, resets>>
Loss(f) ==
  /\ stray' = stray \ {f}
  /\ UNCHANGED <<logVars, writing, hold, clientVars, conn, reply, delivered, history,
                 resets>>

(* Power failure, watchdog or RESET_TARGET leaves the flash as l; then     *)
(* prot_init_event.                                                        *)
Restart(l) ==
  /\ resets < MAX_RESETS /\ resets' = resets + 1
  /\ log' = l
  /\ glast_event' = BootEvent(l)
  /\ glast_event_check' = BootCheck(l, BootEvent(l))
  /\ writing' = FALSE /\ hold' = FALSE /\ event_first_flag' = FALSE
  /\ state' = "IDEAL"
  /\ Abandon
  /\ UNCHANGED <<frame, delivered, history>>
Reset == Restart(log)

(* The reset falls between the erase and the write of prot_log_event.      *)
ResetInLog ==
  /\ MainRuns /\ ~ writing /\ nlogged < MAX_LOGGED
  /\ AtSectorStart(glast_event)
  /\ Restart(EraseSector(log, glast_event))

-----------------------------------------------------------------------------
Client ==
  \/ StateInit
  \/ \E outcome \in {"open", "opening", "closed"} : StateConnect(outcome)
  \/ SendOk \/ SendAgain \/ SendFail
  \/ Receive \/ ReceiveTimeout
  \/ StateClose

World ==
  \/ Establish
  \/ Serve \/ ServeBadly
  \/ \E f \in stray : LateArrival(f) \/ Loss(f)

(* Powered on all the time, and never too far behind.                      *)
Next ==
  \/ Room /\ LogWrite
  \/ LogAdvance
  \/ SetHold
  \/ Client
  \/ World

Spec == Init /\ [][Next]_vars

(* The same with resets.                                                   *)
ResetNext == Next \/ Reset \/ (Room /\ ResetInLog)
ResetSpec == Init /\ [][ResetNext]_vars

(* With resets, and out of reach of the server for as long as it may be.   *)
HarshNext ==
  \/ LogWrite \/ LogAdvance \/ SetHold \/ Client \/ World
  \/ Reset \/ ResetInLog

(* delay() returns after its ticks and polls the client; the main loop     *)
(* clears hb_event_loginflag on every turn, only to set it again, so hold  *)
(* is off again and again but not for good: StateInit needs SF.  The link  *)
(* and the server work again and again, the answer within the time the     *)
(* client waits for it, though any one attempt may fail.                   *)
Fairness ==
  /\ WF_vars(LogAdvance) /\ WF_vars(StateClose) /\ WF_vars(ReceiveTimeout)
  /\ SF_vars(SetHold /\ hold) /\ SF_vars(StateInit)
  /\ SF_vars(StateConnect("open"))
  /\ WF_vars(SendOk \/ SendFail) /\ SF_vars(SendOk)
  /\ SF_vars(state \in {"WAIT", "RECEIVE"} /\ Serve)
  /\ SF_vars(Receive /\ reply # NoSlot)

FairSpec  == Spec /\ Fairness
HarshSpec == Init /\ [][HarshNext]_vars /\ Fairness

-----------------------------------------------------------------------------
(* The server took every event the log marks as sent: an event is never    *)
(* counted as uploaded on the strength of a response to another one, nor   *)
(* because its slot was marked before the event was there.                 *)
SentMeansDelivered ==
  \A i \in Slots : log[i].sent = Zero => log[i].ev \in delivered

(* Every logged event is with the server or waits, intact, between the     *)
(* reader's pointer and the writer's: no erase, wrap or skip loses one.    *)
NoEventLost ==
  \A e \in 1 .. nlogged :
    e \in delivered \/ \E i \in Slots : Pending(i) /\ log[i] = Unsent(e)

(* The client, while it is about to send or waits for a response, is never *)
(* left with a slot that another event, or an erase, has taken meanwhile.  *)
FrameMatchesSlot ==
  conn \in {"sent", "answered"} =>
    log[frame.mid] = Unsent(frame.ev) /\ frame.mid = glast_event_check

(* A record is only ever programmed into an erased slot, whatever resets   *)
(* and however long an outage: the markers and the event agree.            *)
NeverMixed == \A i \in Slots : log[i].ev # 0 /\ (log[i].save = FF <=> log[i].ev = FF)

(* The ring, the pointers and the connections implement the plain queue:   *)
(* events reach the server in the order of their logging, and each is      *)
(* forgotten only when the server has it.                                  *)
Queue == INSTANCE EventQueue
  WITH logged <- nlogged, forgotten <- confirmed, taken <- delivered
QueueSpec == Queue!Spec

(* The slot after the newest event can be found by its erased marker.      *)
TipVisible == log[Tip].save = FF /\ Tip # MAX_EVENTS

(* A reset finds the writer's pointer again, in whatever step it falls,    *)
(* also between the write and the pointer's step in prot_log_event.        *)
ResetFindsWriter == [][resets' # resets /\ TipVisible => glast_event' = Tip]_vars

(* And the reader's: every slot from 1 up that awaited its upload before   *)
(* the reset awaits it afterwards.  The second scan of prot_init_event     *)
(* ends above slot 0, so an event there is passed over.                    *)
ResetKeepsPending ==
  [][resets' # resets /\ TipVisible =>
       \A i \in Slots \ {0} : Pending(i) /\ log[i].sent = AA => Pending(i)']_vars

(* However long the outage and whenever the resets, the reader reaches the *)
(* writer again and again: it never wedges on an erased or sent slot.      *)
CatchesUp == []<>(glast_event_check = glast_event)

(* Every event is confirmed in the end.                                    *)
EveryEventConfirmed ==
  \A e \in 1 .. MAX_LOGGED : nlogged >= e ~> confirmed >= e

=============================================================================
