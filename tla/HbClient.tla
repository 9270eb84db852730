------------------------------- MODULE HbClient -------------------------------
(***************************************************************************)
(* The heartbeat client: the state machine that the main loop polls from   *)
(* every wait, through which the server reaches the cabinet.  It calls the *)
(* server when ghb_time has run out, sends a heartbeat, then carries out   *)
(* one command at a time and sends its reply from the buffer the heartbeat *)
(* was in.  flag_init, ghb_time and hb_event_loginflag are also written by *)
(* the main loop, between any two polls.                                   *)
(***************************************************************************)
EXTENDS Integers

CONSTANTS
  SOCKETS,     \* sockets of the network stack
  OTHERS,      \* how many of them the other clients may hold
  RETRIES,     \* polls for the address of a host name before it is given up
  MAX_CMDS,    \* bound of the model: frames of the server in a behaviour
  MAX_PRESSES  \* bound of the model: keys pressed in a behaviour

ASSUME SocketsAssumption ==
  SOCKETS \in Nat \ {0} /\ OTHERS \in 0 .. SOCKETS /\ RETRIES \in Nat \ {0}
ASSUME BoundsAssumption == MAX_CMDS \in Nat /\ MAX_PRESSES \in Nat

VARIABLES
  state,             \* tcpClientState of the heartbeat client
  flag_init,         \* the heartbeat of this connection has been built
  event_first_flag,  \* the frame to send has been prepared
  buffer,            \* the frame in buffer[]
  due,               \* ghb_time = 0
  paused,            \* total_comm_time = 0
  hold,              \* hb_event_loginflag
  host,              \* sys_t.conn_type = HOSTADDR
  dns, fail_cnt,     \* the entry of the name in the resolver, polls that failed
  owned, leaked, others, \* sockets: clientSockethb, those it forgot, other clients'
  inbox,             \* what the server has sent and netTask received
  first, last,       \* history: first and last frame sent on this connection
  asked, pressed,    \* history: last command, was a key pressed since the call
  cmds, presses      \* bounds

flags   == <<flag_init, event_first_flag>>
timers  == <<due, paused, hold>>
lookup  == <<host, dns, fail_cnt>>
sockets == <<owned, leaked, others>>
history == <<first, last, asked, pressed>>
bounds  == <<cmds, presses>>
vars == <<state, flags, buffer, timers, lookup, sockets, inbox, history, bounds>>

States == {"IDEAL", "CONNECT", "SEND", "RECEIVE", "CLOSE"}
(* reply: a command with an answer.  config: SET_CONFIG, with an answer.   *)
(* mute: a command that builds no frame.  bad: a wrong CRC or serial.      *)
Commands == {"reply", "config", "mute", "bad", "close", "restart"}
None == "none"

(* here: built on this connection.  fresh: not sent before.                *)
Frames == [kind : {"heartbeat", "reply", "junk"}, here : BOOLEAN, fresh : BOOLEAN]
NoFrame == [kind |-> None, here |-> FALSE, fresh |-> FALSE]
Frame(kind) == [kind |-> kind, here |-> TRUE, fresh |-> TRUE]

TypeOK ==
  /\ state \in States /\ flag_init \in BOOLEAN /\ event_first_flag \in BOOLEAN
  /\ buffer \in Frames
  /\ due \in BOOLEAN /\ paused \in BOOLEAN /\ hold \in BOOLEAN
  /\ host \in BOOLEAN /\ dns \in {"unknown", "asked", "cached"}
  /\ fail_cnt \in 0 .. RETRIES - 1
  /\ owned \in BOOLEAN /\ leaked \in 0 .. SOCKETS /\ others \in 0 .. OTHERS
  /\ (IF owned THEN 1 ELSE 0) + leaked + others <= SOCKETS
  /\ inbox \in Commands \union {None}
  /\ first \in Frames \union {NoFrame} /\ last \in Frames \union {NoFrame}
  /\ asked \in Commands \union {None} /\ pressed \in BOOLEAN
  /\ cmds \in 0 .. MAX_CMDS /\ presses \in 0 .. MAX_PRESSES

(* Boot replaces a heartbeat interval of 0 by 2 minutes.                   *)
Init ==
  /\ state = "IDEAL" /\ flag_init = FALSE /\ event_first_flag = FALSE
  /\ buffer = [kind |-> "junk", here |-> FALSE, fresh |-> FALSE]
  /\ due = FALSE /\ paused = FALSE /\ hold = FALSE
  /\ dns = "unknown" /\ fail_cnt = 0
  /\ owned = FALSE /\ leaked = 0 /\ others = 0 /\ inbox = None
  /\ first = NoFrame /\ last = NoFrame /\ asked = None /\ pressed = FALSE
  /\ host \in BOOLEAN /\ cmds = 0 /\ presses = 0
Restart ==
  /\ state' = "IDEAL" /\ flag_init' = FALSE /\ event_first_flag' = FALSE
  /\ buffer' = [kind |-> "junk", here |-> FALSE, fresh |-> FALSE]
  /\ due' = FALSE /\ paused' = FALSE /\ hold' = FALSE
  /\ dns' = "unknown" /\ fail_cnt' = 0
  /\ owned' = FALSE /\ leaked' = 0 /\ others' = 0 /\ inbox' = None
  /\ first' = NoFrame /\ last' = NoFrame /\ asked' = None /\ pressed' = FALSE
  /\ UNCHANGED host

FreeSockets == SOCKETS - (IF owned THEN 1 ELSE 0) - leaked - others

-----------------------------------------------------------------------------
(* The second of the ticker, once ghb_time reaches 0.                      *)
Tick ==
  /\ ~ due /\ due' = TRUE
  /\ UNCHANGED <<state, flags, buffer, paused, hold, lookup, sockets, inbox,
                 history, bounds>>

(* The main loop around a card, the alarms or a firmware update.           *)
MainHold ==
  /\ hold' \in BOOLEAN \ {hold}
  /\ UNCHANGED <<state, flags, buffer, due, paused, lookup, sockets, inbox,
                 history, bounds>>

(* A PIN is entered; or the up arrow, which also calls the server.         *)
Press ==
  /\ presses < MAX_PRESSES /\ presses' = presses + 1
  /\ flag_init' = FALSE /\ pressed' = TRUE
  /\ due' \in {FALSE, due}
  /\ UNCHANGED <<state, event_first_flag, buffer, paused, hold, lookup, sockets,
                 inbox, first, last, asked, cmds>>

(* The other clients open and close their sockets.                         *)
OtherClients ==
  /\ others' \in 0 .. OTHERS /\ others' # others
  /\ others' - others <= FreeSockets
  /\ UNCHANGED <<state, flags, buffer, timers, lookup, owned, leaked, inbox,
                 history, bounds>>

(* The resolver answers, or forgets an answer when it is too old.          *)
Resolver ==
  /\ \/ dns = "asked" /\ dns' \in {"cached", "unknown"}
     \/ dns = "cached" /\ dns' = "unknown"
  /\ UNCHANGED <<state, flags, buffer, timers, host, fail_cnt, sockets, inbox,
                 history, bounds>>

(* netTask receives a frame of the server, at any time while connected.    *)
ServerSends ==
  /\ state \in {"SEND", "RECEIVE"} /\ inbox = None
  /\ cmds < MAX_CMDS /\ cmds' = cmds + 1
  /\ inbox' \in Commands
  /\ UNCHANGED <<state, flags, buffer, timers, lookup, sockets, history, presses>>

-----------------------------------------------------------------------------
(* The poll in IDEAL takes the hold, or gives it back whoever took it.     *)
(* StateInitHolds is a variant that leaves the hold as it is.              *)
StateInitHolds ==
  /\ state = "IDEAL"
  /\ IF due
     THEN /\ hold' = TRUE /\ state' = "CONNECT"
          /\ buffer' = [buffer EXCEPT !.here = FALSE]
          /\ first' = NoFrame /\ last' = NoFrame /\ asked' = None /\ pressed' = FALSE
     ELSE UNCHANGED <<state, hold, buffer, history>>
  /\ UNCHANGED <<flags, due, paused, lookup, sockets, inbox, bounds>>
StateInit ==
  /\ state = "IDEAL"
  /\ hold' = due
  /\ IF due
     THEN /\ state' = "CONNECT"
          /\ buffer' = [buffer EXCEPT !.here = FALSE]
          /\ first' = NoFrame /\ last' = NoFrame /\ asked' = None /\ pressed' = FALSE
     ELSE UNCHANGED <<state, buffer, history>>
  /\ UNCHANGED <<flags, due, paused, lookup, sockets, inbox, bounds>>

(* socketOpen comes first in every poll of CONNECT.  The pointer to a      *)
(* socket that an earlier poll opened is overwritten.                      *)
NoSocket ==
  /\ state = "CONNECT" /\ FreeSockets = 0
  /\ state' = "CLOSE"
  /\ owned' = FALSE /\ leaked' = leaked + IF owned THEN 1 ELSE 0
  /\ UNCHANGED <<flags, buffer, timers, lookup, others, inbox, history, bounds>>

(* OpenedAlways is a variant that does not look at what socketOpen returns.*)
OpenedAlways ==
  /\ state = "CONNECT"
  /\ owned' = TRUE /\ leaked' = leaked + IF owned THEN 1 ELSE 0
  /\ UNCHANGED <<flags, buffer, timers, host, others, inbox, history, bounds>>
Opened ==
  /\ state = "CONNECT" /\ FreeSockets > 0
  /\ owned' = TRUE /\ leaked' = leaked + IF owned THEN 1 ELSE 0
  /\ UNCHANGED <<flags, buffer, timers, host, others, inbox, history, bounds>>

(* getHostByName asks without waiting: the state is polled again.          *)
LookupInProgress ==
  /\ Opened /\ host /\ dns # "cached" /\ fail_cnt + 1 < RETRIES
  /\ dns' = "asked" /\ fail_cnt' = fail_cnt + 1
  /\ UNCHANGED state

(* With the address, and after a failed lookup with whatever the local     *)
(* variable held, the code goes on to socketConnect, whose time-out counts *)
(* as a success.                                                           *)
Connect ==
  /\ Opened
  /\ \/ ~ host /\ UNCHANGED <<dns, fail_cnt>>
     \/ host /\ dns = "cached" /\ UNCHANGED <<dns, fail_cnt>>
     \/ host /\ dns # "cached"
        /\ \/ UNCHANGED <<dns, fail_cnt>>
           \/ fail_cnt + 1 = RETRIES /\ fail_cnt' = 0 /\ dns' = "asked"
  /\ state' \in {"SEND", "CLOSE"}

-----------------------------------------------------------------------------
(* handle_hb_protocol_packet: the heartbeat, unless it has been built.     *)
(* PreparedAlways is a variant that does not look at flag_init.            *)
PreparedAlways == IF event_first_flag THEN buffer ELSE Frame("heartbeat")
Prepared == IF event_first_flag \/ flag_init THEN buffer ELSE Frame("heartbeat")

Prepare == flag_init' = (flag_init \/ ~ event_first_flag)

(* The frame is sent.  For two seconds what has come in is read into the   *)
(* buffer and dropped.                                                     *)
Sent ==
  /\ state = "SEND" /\ state' = "RECEIVE"
  /\ Prepare /\ event_first_flag' = FALSE
  /\ last' = Prepared /\ first' = IF first = NoFrame THEN Prepared ELSE first
  /\ buffer' = IF inbox = None THEN [Prepared EXCEPT !.fresh = FALSE]
               ELSE [kind |-> "junk", here |-> TRUE, fresh |-> FALSE]
  /\ inbox' = None
  /\ UNCHANGED <<timers, lookup, sockets, asked, pressed, bounds>>

(* No room in the socket: the next poll sends the same frame.              *)
SendLater ==
  /\ state = "SEND"
  /\ Prepare /\ event_first_flag' = TRUE /\ buffer' = Prepared
  /\ UNCHANGED <<state, timers, lookup, sockets, inbox, history, bounds>>

(* An error, or no room for 20 seconds.                                    *)
SendFails ==
  /\ state = "SEND" /\ state' = "CLOSE"
  /\ Prepare /\ event_first_flag' = FALSE /\ buffer' = Prepared
  /\ due' = FALSE
  /\ UNCHANGED <<paused, hold, lookup, sockets, inbox, history, bounds>>

-----------------------------------------------------------------------------
(* A frame is checked and its command carried out.  A command without an   *)
(* answer leaves the buffer alone, and SEND sends what is in it.           *)
Carry(next) ==
  /\ state = "RECEIVE"
  /\ asked' = inbox /\ inbox' = None
  /\ state' = next
  /\ UNCHANGED <<flags, hold, lookup, sockets, first, last, pressed, bounds>>

Answer ==
  /\ inbox = "reply" /\ Carry("SEND")
  /\ buffer' = Frame("reply")
  /\ UNCHANGED <<due, paused>>

Configure ==
  /\ inbox = "config" /\ Carry("SEND")
  /\ buffer' = Frame("reply")
  /\ paused' \in BOOLEAN /\ due' = FALSE

NoAnswer == inbox = "mute" /\ Carry("SEND") /\ UNCHANGED <<buffer, due, paused>>
Refuse   == inbox = "bad" /\ Carry("CLOSE") /\ UNCHANGED <<buffer, due, paused>>

(* CMD_CLOSE_CONN, and CMD_FW_UPLOAD, which delays the next call.          *)
EndOfSession ==
  /\ inbox = "close" /\ Carry("CLOSE")
  /\ due' \in {FALSE, due}
  /\ UNCHANGED <<buffer, paused>>

ResetTarget == state = "RECEIVE" /\ inbox = "restart" /\ Restart /\ UNCHANGED bounds

(* Nothing for 30 seconds.                                                 *)
(* ReceiveForever is a variant without the time-out.                       *)
ReceiveForever == state = "RECEIVE" /\ inbox = None /\ UNCHANGED vars
ReceiveTimeout ==
  /\ state = "RECEIVE" /\ inbox = None
  /\ state' = "CLOSE"
  /\ UNCHANGED <<flags, buffer, timers, lookup, sockets, inbox, history, bounds>>

(* The next call is total_comm_time minutes away, at once when that is 0.  *)
(* CloseInit is a variant that does not reset flag_init, CloseOpen one     *)
(* that does not close the socket.                                         *)
CloseInit ==
  /\ state = "CLOSE" /\ state' = "IDEAL"
  /\ due' = paused /\ owned' = FALSE /\ inbox' = None
  /\ UNCHANGED <<flags, buffer, paused, hold, lookup, leaked, others, history, bounds>>
CloseOpen ==
  /\ state = "CLOSE" /\ state' = "IDEAL"
  /\ flag_init' = FALSE /\ due' = paused /\ inbox' = None
  /\ UNCHANGED <<event_first_flag, buffer, paused, hold, lookup, sockets, history, bounds>>
Close ==
  /\ state = "CLOSE" /\ state' = "IDEAL"
  /\ flag_init' = FALSE /\ due' = paused
  /\ owned' = FALSE /\ inbox' = None
  /\ UNCHANGED <<event_first_flag, buffer, paused, hold, lookup, leaked, others,
                 history, bounds>>

-----------------------------------------------------------------------------
Receive == Answer \/ Configure \/ NoAnswer \/ Refuse \/ EndOfSession \/ ResetTarget
Connecting == NoSocket \/ LookupInProgress \/ Connect
Sending == Sent \/ SendFails

Next ==
  \/ Tick \/ MainHold \/ Press \/ OtherClients \/ Resolver \/ ServerSends
  \/ StateInit \/ Connecting \/ Sending \/ SendLater
  \/ Receive \/ ReceiveTimeout \/ Close

(* The main loop polls from every wait and the ticker counts.  A send and  *)
(* a wait end by their time-outs.  A poll takes milliseconds and ghb_time  *)
(* seconds, so that not every poll in IDEAL finds it run out.  Of the main *)
(* loop, the resolver and the server nothing is assumed.                   *)
Fairness ==
  /\ WF_vars(Tick)
  /\ WF_vars(StateInit) /\ SF_vars(StateInit /\ ~ due) /\ WF_vars(Connecting) /\ WF_vars(Sending)
  /\ WF_vars(Receive) /\ WF_vars(ReceiveTimeout) /\ WF_vars(Close)

Spec == Init /\ [][Next]_vars /\ Fairness

-----------------------------------------------------------------------------
(* The first frame of a connection is a heartbeat built on it: no reply of *)
(* an earlier connection and no frame that failed to go out then (two      *)
(* flags with three writers see to it).                                    *)
OpensWithHeartbeat == first # NoFrame => first = Frame("heartbeat")

(* A command with an answer, carried out on a connection during which no   *)
(* key was pressed, has been answered when the next one is waited for.     *)
CommandAnswered ==
  state = "RECEIVE" /\ asked \in {"reply", "config"} /\ ~ pressed
    => last = Frame("reply")

(* With the address of the server configured the client never loses track  *)
(* of a socket, and between calls it holds none.                           *)
SocketsReturned == (state = "IDEAL" => ~ owned) /\ (~ host => leaked = 0)

(* No session lasts for ever: the client comes back to call again.         *)
KeepsCalling == []<>(state = "CONNECT")

(* While heartbeats are not paused, the hold that keeps the event client   *)
(* from calling is given back again and again.                             *)
HoldReleased == <>[](~ paused) => []<>(~ hold)
=============================================================================
