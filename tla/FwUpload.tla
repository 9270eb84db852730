------------------------------- MODULE FwUpload -------------------------------
(***************************************************************************)
(* A firmware upload.  A new image comes in packets of 256 bytes, over the *)
(* telnet server or the firmware client; both give what they receive to    *)
(* the same handle_ftp_char and fw_download_sd, which fill BOOT_BLOCK and  *)
(* mark it for the boot loader when the checksum is right.  fw_flag says   *)
(* how far the upload is, and keeps the main loop from doing anything else.*)
(*                                                                         *)
(* fw_download_sd waits in delay(1) after each erase, and in the delay()   *)
(* of system_restart, and delay() polls the network tasks: the handler     *)
(* that is waiting, and the other one, may be entered again there.  stack  *)
(* holds the handlers that have been entered, the innermost last.          *)
(***************************************************************************)
EXTENDS Integers, Sequences

CONSTANTS
  LEN,          \* packets of the image, the announced fw_datalen
  U16,          \* 2^16: packet_num is a u16_t
  SECTORS,      \* BOOT_BLOCK_SIZE, the sectors of the boot block
  PACKETS,      \* packets a sector holds
  BUFFER,       \* packets a receive buffer holds
  MAX_DEPTH,    \* bound of the model: handlers entered in one another
  MAX_COMMANDS  \* bound of the model: CMD_FW_UPLOADs between two resets

ASSUME ImageAssumption ==
  /\ LEN \in Nat /\ U16 \in Nat /\ LEN >= 3 /\ LEN < U16
  /\ SECTORS \in Nat \ {0} /\ PACKETS \in Nat \ {0} /\ BUFFER \in Nat \ {0}
ASSUME BoundsAssumption ==
  MAX_DEPTH \in Nat \ {0} /\ MAX_COMMANDS \in Nat

VARIABLES
  fw_flag,     \* 0 none, 1 uploading, 2 timed out, 3 complete
  ftp_option,  \* FW_UPLOAD_TCP: what is received are packets
  fw_datalen, packet_num,
  block, mark, \* BOOT_BLOCK: the packets written, and code[24] = '1' in the first
  state,       \* the state of each handler
  next,        \* what its peer sends next on the connection
  buf, pos,    \* what is in its buffer, and how much of it has been handled
  stack,       \* the handlers entered, and where they are
  login, wait_status, \* glogin_user; a command waits for the logout
  disturbed,   \* history: not one connection, or not one handler at a time
  commands     \* bound

upload  == <<fw_flag, ftp_option, fw_datalen, packet_num>>
flash   == <<block, mark>>
streams == <<next, buf, pos>>
session == <<login, wait_status>>
vars == <<upload, flash, state, streams, stack, session, disturbed, commands>>

Handlers == {"telnet", "client"}
Blocks == 1 .. LEN - 2 \* what the checksum covers

(* What a peer sends: the announcement, then the packets 0 to LEN - 1.     *)
CMD  == -1
JUNK == -2 \* 256 bytes that are not one packet of the image

States == {"LISTEN", "RECEIVE", "EXECUTE", "WAIT", "INIT", "IDEAL", "CONNECT", "SEND", "CLOSE"}
Frame == [who : Handlers \union {"main"}, at : {"loop", "erase", "message", "restart"},
          usi : 0 .. SECTORS] \* in "erase": the sectors that have been erased
CountType ==
  /\ fw_flag \in 0 .. 3 /\ fw_datalen \in {0, LEN} /\ packet_num \in 0 .. U16 - 1
  /\ commands \in 0 .. MAX_COMMANDS
SwitchType == {ftp_option, mark, login, wait_status, disturbed} \subseteq BOOLEAN
FlashType  == block \in [Blocks -> {"erased", "right", "wrong"}]
StreamType ==
  /\ state \in [Handlers -> States]
  /\ next \in [Handlers -> CMD .. LEN]
  /\ buf \in [Handlers -> Seq(CMD .. LEN - 1)] /\ pos \in [Handlers -> 0 .. BUFFER]
  /\ \A h \in Handlers : Len(buf[h]) <= BUFFER
StackType  == stack \in Seq(Frame) /\ Len(stack) <= MAX_DEPTH
TypeOK == CountType /\ SwitchType /\ FlashType /\ StreamType /\ StackType

Volatile ==
  [fw_flag |-> 0, ftp_option |-> FALSE, fw_datalen |-> 0, packet_num |-> 0,
   state |-> [h \in Handlers |-> IF h = "telnet" THEN "LISTEN" ELSE "INIT"],
   next |-> [h \in Handlers |-> CMD], buf |-> [h \in Handlers |-> <<>>],
   pos |-> [h \in Handlers |-> 0]]
Init ==
  /\ fw_flag = 0 /\ ftp_option = FALSE /\ fw_datalen = 0 /\ packet_num = 0
  /\ state = Volatile.state /\ next = Volatile.next
  /\ buf = Volatile.buf /\ pos = Volatile.pos /\ stack = <<>>
  /\ login = FALSE /\ wait_status = FALSE /\ disturbed = FALSE
  /\ commands = 0
  /\ block = [b \in Blocks |-> "erased"] /\ mark = FALSE

(* Power failure, or the watchdog once system_restart has stopped feeding  *)
(* it.  The boot loader is not part of the repository.                     *)
Restart ==
  /\ fw_flag' = 0 /\ ftp_option' = FALSE /\ fw_datalen' = 0 /\ packet_num' = 0
  /\ state' = Volatile.state /\ next' = Volatile.next
  /\ buf' = Volatile.buf /\ pos' = Volatile.pos /\ stack' = <<>>
  /\ login' = FALSE /\ wait_status' = FALSE /\ disturbed' = FALSE
  /\ commands' = 0
  /\ UNCHANGED flash
PowerFails == Restart
Watchdog == (\E i \in 1 .. Len(stack) : stack[i].at = "restart") /\ Restart

-----------------------------------------------------------------------------
(* The network tasks are polled from every wait.                           *)
Top == stack[Len(stack)]
Polled == stack # <<>> => Top.at # "loop"
Push(who, at) == Append(stack, [who |-> who, at |-> at, usi |-> 0])
Become(at, usi) == [stack EXCEPT ![Len(stack)] = [Top EXCEPT !.at = at, !.usi = usi]]
(* system_restart, whoever calls it: it never returns.                     *)
Restarts == [stack EXCEPT ![Len(stack)] = [who |-> "main", at |-> "restart", usi |-> 0]]
Pop == SubSeq(stack, 1, Len(stack) - 1)

(* What a read takes from the connection.                                  *)
Taken(h, n) == buf[h] \o [i \in 1 .. n |-> next[h] + i - 1]
(* ReadsWhole is a variant that forgets what the buffer holds already.     *)
ReadsWhole(h) == {n \in 1 .. BUFFER : n + next[h] <= LEN}
Reads(h) == {n \in 1 .. BUFFER : n + Len(buf[h]) <= BUFFER /\ n + next[h] <= LEN}

(* The announcement: FIRMWARE_UPGRADE, FIRMWARE_UPGRADE_WEB.               *)
Announce ==
  /\ fw_flag' = 1 /\ ftp_option' = TRUE /\ fw_datalen' = LEN
  /\ UNCHANGED packet_num

(* The end of a connection, with what its peer had not sent.               *)
Ended(h) == next' = [next EXCEPT ![h] = CMD] /\ disturbed' = TRUE

-----------------------------------------------------------------------------
(* The telnet server.                                                      *)
Listen ==
  /\ Polled /\ state["telnet"] = "LISTEN"
  /\ state' = [state EXCEPT !["telnet"] = "RECEIVE"]
  /\ buf' = [buf EXCEPT !["telnet"] = <<>>]
  /\ disturbed' = (disturbed \/ ftp_option)
  /\ UNCHANGED <<upload, flash, next, pos, stack, session, commands>>

TelnetReceive ==
  /\ Polled /\ state["telnet"] = "RECEIVE"
  /\ \E n \in Reads("telnet") :
       /\ buf' = [buf EXCEPT !["telnet"] = Taken("telnet", n)]
       /\ next' = [next EXCEPT !["telnet"] = @ + n]
  /\ state' = [state EXCEPT !["telnet"] = "EXECUTE"]
  /\ UNCHANGED <<upload, flash, pos, stack, session, disturbed, commands>>

(* Nothing for five minutes.                                               *)
(* TelnetTimeoutForgets is a variant that leaves fw_flag alone.            *)
TelnetTimeoutForgets ==
  /\ Polled /\ state["telnet"] = "RECEIVE"
  /\ state' = [state EXCEPT !["telnet"] = "LISTEN"]
  /\ Ended("telnet")
  /\ UNCHANGED <<upload, flash, buf, pos, stack, session, commands>>
TelnetTimeout ==
  /\ Polled /\ state["telnet"] = "RECEIVE"
  /\ fw_flag' = IF fw_flag # 0 THEN 2 ELSE 0
  /\ state' = [state EXCEPT !["telnet"] = "LISTEN"]
  /\ Ended("telnet")
  /\ UNCHANGED <<ftp_option, fw_datalen, packet_num, flash, buf, pos, stack, session,
                 commands>>

(* The connection is lost.  fw_flag stays.                                 *)
TelnetLost ==
  /\ Polled /\ state["telnet"] = "RECEIVE"
  /\ state' = [state EXCEPT !["telnet"] = "LISTEN"]
  /\ Ended("telnet")
  /\ UNCHANGED <<upload, flash, buf, pos, stack, session, commands>>

(* telnetServerStateExecute: while somebody is logged in it waits.         *)
ExecuteLater ==
  /\ Polled /\ state["telnet"] = "EXECUTE" /\ login
  /\ state' = [state EXCEPT !["telnet"] = "WAIT"] /\ wait_status' = TRUE
  /\ UNCHANGED <<upload, flash, streams, stack, login, disturbed, commands>>

(* The command has to come alone; a longer one is refused.                 *)
ExecuteCommand ==
  /\ Polled /\ state["telnet"] = "EXECUTE" /\ ~ login /\ ~ ftp_option
  /\ IF Len(buf["telnet"]) = 1
     THEN /\ Announce /\ state' = [state EXCEPT !["telnet"] = "RECEIVE"]
          /\ disturbed' = (disturbed \/ fw_flag # 0) /\ UNCHANGED next
     ELSE /\ UNCHANGED upload /\ state' = [state EXCEPT !["telnet"] = "LISTEN"]
          /\ Ended("telnet")
  /\ buf' = [buf EXCEPT !["telnet"] = <<>>]
  /\ UNCHANGED <<flash, pos, stack, session, commands>>

ExecutePackets ==
  /\ Polled /\ state["telnet"] = "EXECUTE" /\ ~ login /\ ftp_option
  /\ Len(stack) < MAX_DEPTH
  /\ state' = [state EXCEPT !["telnet"] = "WAIT"]
  /\ stack' = Push("telnet", "loop") /\ pos' = [pos EXCEPT !["telnet"] = 0]
  /\ disturbed' = (disturbed \/ stack # <<>>)
  /\ UNCHANGED <<fw_flag, ftp_option, fw_datalen, packet_num, flash, next, buf, session,
                 commands>>

(* telnetserverwait, also while the command it waits for is being carried  *)
(* out: only wait_status keeps it from being carried out twice, and the    *)
(* time-out does not ask what it is that is waited for.                    *)
Resume ==
  /\ Polled /\ state["telnet"] = "WAIT" /\ wait_status /\ ~ login
  /\ state' = [state EXCEPT !["telnet"] = "EXECUTE"] /\ wait_status' = FALSE
  /\ UNCHANGED <<upload, flash, streams, stack, login, disturbed, commands>>
WaitTimeout ==
  /\ Polled /\ state["telnet"] = "WAIT"
  /\ state' = [state EXCEPT !["telnet"] = "LISTEN"]
  /\ Ended("telnet")
  /\ UNCHANGED <<upload, flash, buf, pos, stack, session, commands>>

-----------------------------------------------------------------------------
(* The firmware client, which CMD_FW_UPLOAD of the heartbeat server        *)
(* starts; a menu only asks the server for it.                             *)
FwCommand ==
  /\ Polled /\ commands < MAX_COMMANDS /\ commands' = commands + 1
  /\ fw_flag' = 1 /\ state' = [state EXCEPT !["client"] = "IDEAL"]
  /\ disturbed' = (disturbed \/ ftp_option)
  /\ UNCHANGED <<ftp_option, fw_datalen, packet_num, flash, streams, stack,
                 session>>

(* A poll takes the client from a state to another.                        *)
ClientGoes(from, to) ==
  /\ Polled /\ state["client"] = from
  /\ state' = [state EXCEPT !["client"] = to]
  /\ UNCHANGED <<upload, flash, streams, stack, session, disturbed, commands>>
ClientInit  == ClientGoes("IDEAL", "CONNECT") \* with an address
NoConnect   == ClientGoes("CONNECT", "CLOSE") \* no socket, or refused
ClientSend  == ClientGoes("SEND", "RECEIVE")
ClientClose == ClientGoes("CLOSE", "IDEAL")
ClientWait  == ClientGoes("WAIT", "CLOSE")
ClientConnect ==
  /\ Polled /\ state["client"] = "CONNECT"
  /\ state' = [state EXCEPT !["client"] = "SEND"]
  /\ next' = [next EXCEPT !["client"] = CMD]
  /\ disturbed' = (disturbed \/ ftp_option)
  /\ UNCHANGED <<upload, flash, buf, pos, stack, session, commands>>

(* The sixth send that fails; serveripno, which counts them, is left out.  *)
ClientGivesUp ==
  /\ Polled /\ state["client"] = "SEND" /\ Len(stack) < MAX_DEPTH
  /\ state' = [state EXCEPT !["client"] = "CLOSE"]
  /\ stack' = Push("main", "restart")
  /\ UNCHANGED <<upload, flash, streams, session, disturbed, commands>>

(* Of the announcement only that is taken: what came with it is dropped.   *)
(* Byte 4 of the buffer tells it, which may be one that has been left.     *)
ClientReceive ==
  /\ Polled /\ state["client"] = "RECEIVE" /\ ~ ftp_option
  /\ \E n \in Reads("client") :
       /\ next' = [next EXCEPT !["client"] = @ + n]
       /\ disturbed' = (disturbed \/ n > 1 \/ buf["client"] # <<>>)
  /\ buf' = [buf EXCEPT !["client"] = <<>>]
  /\ Announce
  /\ UNCHANGED <<flash, state, pos, stack, session, commands>>

(* Something else, or the beginning of one only: the connection is closed, *)
(* and what has come, however much, stays in the buffer as one piece that  *)
(* is no packet.                                                           *)
ClientRefuse ==
  /\ Polled /\ state["client"] = "RECEIVE" /\ ~ ftp_option
  /\ buf' = [buf EXCEPT !["client"] = <<CMD>>]
  /\ state' = [state EXCEPT !["client"] = "WAIT"]
  /\ Ended("client")
  /\ UNCHANGED <<upload, flash, pos, stack, session, commands>>

(* A read goes behind what is in the buffer, and succeeds when that is     *)
(* full.  The whole buffer is then handled, also when the handler is       *)
(* already at it.                                                          *)
ClientPackets ==
  /\ Polled /\ state["client"] = "RECEIVE" /\ ftp_option
  /\ Len(stack) < MAX_DEPTH
  /\ \E n \in Reads("client") \union (IF Len(buf["client"]) = BUFFER THEN {0} ELSE {}) :
       /\ buf' = [buf EXCEPT !["client"] = Taken("client", n)]
       /\ next' = [next EXCEPT !["client"] = @ + n]
  /\ stack' = Push("client", "loop") /\ pos' = [pos EXCEPT !["client"] = 0]
  /\ disturbed' = (disturbed \/ stack # <<>>)
  /\ UNCHANGED <<fw_flag, ftp_option, fw_datalen, packet_num, flash, state, session,
                 commands>>

(* Five minutes after the connection, however much has come in, and also   *)
(* when the peer has closed it.                                            *)
ClientTimeout ==
  /\ Polled /\ state["client"] = "RECEIVE"
  /\ fw_flag' = IF fw_flag # 0 THEN 2 ELSE 0
  /\ state' = [state EXCEPT !["client"] = "CLOSE"]
  /\ Ended("client")
  /\ UNCHANGED <<ftp_option, fw_datalen, packet_num, flash, buf, pos, stack, session,
                 commands>>

-----------------------------------------------------------------------------
(* The loop over the buffer: handle_ftp_char and fw_download_sd.           *)
At(h) == stack # <<>> /\ Top.who = h /\ Top.at = "loop"
Here(h) == At(h) /\ pos[h] < Len(buf[h])
Step(h) == pos' = [pos EXCEPT ![h] = @ + 1]
First(h) == buf[h][pos[h] + 1]
(* The bytes of packets are counted over the borders of reads, connections *)
(* and channels.  A connection that ends within a packet, a buffer that is *)
(* handled twice or the other channel shift the packets, or shift them     *)
(* back; what is no packet can then fill one up.                           *)
Packets(h) == ({First(h)} \ {CMD}) \union (IF disturbed THEN {JUNK} ELSE {})
Tagged(p) == p \in {0, LEN - 1}
(* Past the announced end it is counted on, until it comes round to the    *)
(* first packet again.                                                     *)
Counted == IF packet_num + 1 = U16 THEN 0 ELSE packet_num + 1

(* The last packet is known by its number only.  IsLastLate is a variant   *)
(* that is one off.                                                        *)
IsLastLate == packet_num = fw_datalen
IsLast == packet_num + 1 = fw_datalen

(* A packet programmed where it does not belong, or over another one.      *)
Programmed(p) ==
  [b \in Blocks |-> IF b # packet_num THEN block[b]
                    ELSE IF p = b /\ block[b] # "wrong" THEN "right" ELSE "wrong"]

(* What is no packet, but taken for a part of one.                         *)
FeedCommand(h) ==
  /\ Here(h) /\ First(h) = CMD /\ Step(h)
  /\ disturbed' = TRUE
  /\ UNCHANGED <<fw_flag, ftp_option, fw_datalen, packet_num, flash, state, next, buf,
                 stack, session, commands>>

(* After a time-out, or as the first packet without the tag.               *)
FeedNothing(h) ==
  /\ Here(h) /\ Step(h)
  /\ \E p \in Packets(h) : fw_flag = 2 \/ (packet_num = 0 /\ ~ Tagged(p))
  /\ UNCHANGED <<upload, flash, state, next, buf, stack, session, disturbed, commands>>

SectorErased(s) ==
  [b \in Blocks |-> IF s * PACKETS <= b /\ b < (s + 1) * PACKETS THEN "erased" ELSE block[b]]

(* The first packet erases the boot block, a sector at a time and with a   *)
(* wait after each, and is not written.  It is counted when the last       *)
(* sector has been erased.                                                 *)
(* FeedFirstKeeps is a variant that begins with the second sector.         *)
FeedFirstKeeps(h) ==
  /\ Here(h) /\ Step(h) /\ fw_flag # 2
  /\ packet_num = 0 /\ \E p \in Packets(h) : Tagged(p)
  /\ stack' = Become("erase", 1)
  /\ UNCHANGED <<upload, flash, state, next, buf, session, disturbed, commands>>
FeedFirst(h) ==
  /\ Here(h) /\ Step(h) /\ fw_flag # 2
  /\ packet_num = 0 /\ \E p \in Packets(h) : Tagged(p)
  /\ block' = SectorErased(0) /\ mark' = FALSE
  /\ stack' = Become("erase", 1)
  /\ UNCHANGED <<upload, state, next, buf, session, disturbed, commands>>
EraseNext ==
  /\ stack # <<>> /\ Top.at = "erase" /\ Top.usi < SECTORS
  /\ block' = SectorErased(Top.usi)
  /\ stack' = Become("erase", Top.usi + 1)
  /\ UNCHANGED <<upload, mark, state, streams, session, disturbed, commands>>
EraseEnd ==
  /\ stack # <<>> /\ Top.at = "erase" /\ Top.usi = SECTORS
  /\ packet_num' = Counted
  /\ stack' = Become("loop", 0)
  /\ UNCHANGED <<fw_flag, ftp_option, fw_datalen, flash, state, streams, session,
                 disturbed, commands>>
Erase == EraseNext \/ EraseEnd

FeedData(h) ==
  /\ Here(h) /\ Step(h) /\ fw_flag # 2
  /\ packet_num > 0 /\ ~ IsLast
  /\ \E p \in Packets(h) : block' = Programmed(p)
  /\ packet_num' = Counted
  /\ UNCHANGED <<fw_flag, ftp_option, fw_datalen, mark, state, next, buf, stack,
                 session, disturbed, commands>>

(* crc_calculation_fw over what has been written, and the checksum in the  *)
(* packet.  WholeShort is a variant that leaves out the last packet        *)
(* written, WholeLong one that goes on to the next.                        *)
WholeShort(p) == p = LEN - 1 /\ \A b \in 1 .. fw_datalen - 3 : block[b] = "right"
WholeLong(p) ==
  p = LEN - 1 /\ \A b \in 1 .. fw_datalen - 1 : b \in Blocks /\ block[b] = "right"
Whole(p) == p = LEN - 1 /\ \A b \in 1 .. fw_datalen - 2 : block[b] = "right"

FeedLast(h) ==
  /\ Here(h) /\ Step(h) /\ fw_flag # 2
  /\ packet_num > 0 /\ IsLast
  /\ packet_num' = 0
  /\ \E p \in Packets(h) :
       fw_flag' = (IF Whole(p) THEN 3 ELSE 0) /\ mark' = (mark \/ Whole(p))
  /\ stack' = Restarts
  /\ UNCHANGED <<ftp_option, fw_datalen, block, state, next, buf, session, disturbed,
                 commands>>

(* The end of the buffer, or of one that a nested handler has emptied.     *)
FeedEnd(h) ==
  /\ At(h) /\ pos[h] >= Len(buf[h])
  /\ buf' = [buf EXCEPT ![h] = <<>>] /\ pos' = [pos EXCEPT ![h] = 0]
  /\ state' = [state EXCEPT ![h] = "RECEIVE"]
  /\ stack' = Pop
  /\ UNCHANGED <<fw_flag, ftp_option, fw_datalen, packet_num, flash, next, session,
                 disturbed, commands>>

Feed(h) == FeedCommand(h) \/ FeedNothing(h) \/ FeedFirst(h) \/ FeedData(h) \/ FeedLast(h)
           \/ FeedEnd(h)

-----------------------------------------------------------------------------
(* The main loop: sessions, and the end of an upload that has timed out,   *)
(* announced with a message.  eraseboot_sdcard erases the first sector,    *)
(* and the mark with it.                                                   *)
Login ==
  /\ stack = <<>> /\ ~ login /\ fw_flag = 0 /\ login' = TRUE
  /\ UNCHANGED <<upload, flash, state, streams, stack, wait_status, disturbed, commands>>
Logout ==
  /\ login /\ login' = FALSE
  /\ UNCHANGED <<upload, flash, state, streams, stack, wait_status, disturbed, commands>>
FwMenu ==
  /\ stack = <<>> /\ login /\ fw_flag' = 1
  /\ UNCHANGED <<ftp_option, fw_datalen, packet_num, flash, state, streams, stack,
                 session, disturbed, commands>>
MainTimeout ==
  /\ stack = <<>> /\ ~ login /\ fw_flag = 2 /\ stack' = Push("main", "message")
  /\ UNCHANGED <<upload, flash, state, streams, session, disturbed, commands>>
EraseBoot ==
  /\ stack # <<>> /\ Top.at = "message" /\ stack' = Restarts
  /\ block' = SectorErased(0) /\ mark' = FALSE
  /\ UNCHANGED <<upload, state, streams, session, disturbed, commands>>

TelnetPoll == Listen \/ TelnetReceive \/ TelnetTimeout \/ ExecuteLater \/ ExecuteCommand
              \/ ExecutePackets \/ Resume \/ WaitTimeout
ClientPoll == ClientInit \/ NoConnect \/ ClientConnect \/ ClientSend \/ ClientGivesUp
              \/ ClientReceive \/ ClientRefuse \/ ClientWait \/ ClientPackets
              \/ ClientTimeout \/ ClientClose

Next ==
  \/ PowerFails \/ Watchdog
  \/ TelnetPoll \/ TelnetLost \/ ClientPoll \/ FwCommand
  \/ (\E h \in Handlers : Feed(h)) \/ Erase
  \/ Login \/ Logout \/ FwMenu \/ MainTimeout \/ EraseBoot

(* Every wait polls the network tasks; polls do not put off the end of a   *)
(* wait and the main loop for ever; sessions end; once system_restart has  *)
(* begun nothing feeds the watchdog.  Somebody connects to the telnet      *)
(* server again and again, and of those connections one again and again    *)
(* is not lost but falls silent.  Nothing is asked of the firmware client  *)
(* and its server.                                                         *)
Fairness ==
  /\ WF_vars(\E h \in Handlers : Feed(h)) /\ WF_vars(TelnetPoll)
  /\ WF_vars(Watchdog) /\ WF_vars(Logout)
  /\ SF_vars(Erase \/ EraseBoot \/ MainTimeout) /\ SF_vars(TelnetTimeout)
Spec == Init /\ [][Next]_vars /\ Fairness

-----------------------------------------------------------------------------
(* A block marked for the boot loader holds the image: whatever            *)
(* connections were lost and begun, whichever handlers were entered in one *)
(* another, and wherever the power failed.                                 *)
MarkMeansImage == mark => \A b \in Blocks : block[b] = "right"

(* An image that the boot block has room for, and that comes over one      *)
(* connection with no handler entered while another waits, is accepted.    *)
Fits == LEN - 1 <= SECTORS * PACKETS
UploadAccepted ==
  [][Fits /\ fw_flag = 1 /\ fw_flag' = 0 /\ stack' # <<>> => disturbed]_vars

(* And is never written past its announced end, which is only compared for *)
(* equality.                                                               *)
WithinImage == ~ disturbed /\ ftp_option => packet_num < fw_datalen

(* An upload ends, one way or the other: until then nobody can log in and  *)
(* the event client stands still.                                          *)
UploadEnds == fw_flag # 0 ~> fw_flag = 0
=============================================================================
