# Verification of the MyKee key cabinet (KMS_Reorg)

The repository is the firmware of a key cabinet on an LPC2378. The cabinet
holds up to 16 fobs in slots with an i-button reader and a solenoid each. Users
log in, take the fobs of a task and bring them back; the cabinet keeps users,
tasks, fobs and a log of events in a serial flash, raises alarms, and talks to
a server over TCP. There is no operating system (`USE_NO_RTOS`): one main loop,
which polls the network tasks from every wait, and two timer interrupts.

This directory holds TLA+ modules of the parts in which that goes on, the TLC
configurations that check them on small instances, and proofs for TLAPS of what
matters most. Paths below are relative to `src/new-mykee-lite/src/`.

    tlc -config EventUpload_safe.cfg EventUpload      # a run
    tlapm EventUploadProofs.tla                       # the proofs of a module

`PROJECT.json` lists the runs with their properties, for every definition the
lines it models, for every property a mutation of the code that breaks it, the
hazards and the findings.

## 1. The system

### How it runs

- `main()` (main.c) initialises, restores what flash keeps, and loops: firmware
  upload, card, keypad and PIN sessions, `key_check_2()`, `alarm_handler()`,
  the alignment at midnight.
- `delay()` (main.c:149) and `key1()` (main.c:179) are the waits. Each polls
  `netTask`, `telnetServerTask`, `tcpClientfwTask`, `tcpClienthbTask` and
  `tcpClienteventTask`. **Every wait is therefore a point at which five other
  state machines take a step**, on the same globals (`user_t`, `task_t`,
  `event_t`, `sys_t`, `writevalue`, the flags). Some waits lie inside what reads
  like one operation: in `prot_log_event`, between the sectors of an erase, in
  the alignment, in the middle of a session.
- `TICKER_Handler` (Drivers/TIMER/timer.c:88) interrupts anything: timers,
  sensors, and the deadlines of the fobs.
- The flash (Middleware/EEPROM, mci_menu.c) programs bits from 1 to 0 and
  erases whole 64 KB sectors. A reset, by power, by the watchdog or by
  `system_restart()`, may fall between any two operations.

### Components

| Component | Where | State | Operations |
|---|---|---|---|
| Event log | protocol_comm.c | ring of records in EVENT_BLOCK, `glast_event`, `glast_event_check` | `prot_log_event`, `prot_init_event` |
| Event client | tcp_client_event.c | its state, socket, packet | six states polled; marks a record as sent on the server's answer |
| Alarms | timer.c, login_menu.c | `ULALARMS`, `KeyTask_TimeLimit[]`, `uik1`, flags in flash | the interrupt sets, `alarm_handler` handles and clears |
| User and task tables | protocol_comm.c, mci_menu.c, login_menu.c | USER_BLOCK, TASK_BLOCK, BACKUP_BLOCK, `self_user_allign` | add, change, delete, self alignment, its restart at boot |
| Heartbeat client | tcp_client_hb.c | its state, `flag_init`, `ghb_time`, hold flag, socket, buffer | calls the server, carries out its commands |
| Sessions | task_management.c, login_menu.c, key_menu.c | `user_t`, `task_t`, slots, doors, `key_events_t` | login, task, second user, release, removal, return, wrong fobs, `key_check_2` |
| Firmware upload | telnet_server.c, tcp_client_fw.c | `fw_flag`, `ftp_option`, `packet_num`, boot block | two channels, `fw_download_sd`, time-outs, restarts |
| Key registration, emergency access | key_menu.c, mci_menu.c, main.c | `org_key_data`, `key1_t`, `key_events_t`, deadlines, their sectors in flash | `total_register`, `addnewkeys`, `emerg_remove_return_key`, restore at boot |
| Biometric users | bio.c, mci_menu.c | `finger_enabled`, `bio_delete_flag`, templates in the fingerprint module | enrol, verify, delete, clean up, alignment of the flags |
| Input and output | pin_menu.c, Middleware | keypad, card, LCD, LED, buzzer | drivers and dialogues |
| Configuration, diagnostics | util_menu.c, aka_sys.c, telnet_server.c | system and communication records | menus and commands |
| Vendored | cyclone_tcp, cyclone_crypto, common, nxp | network stack | not modelled, but for how it is used |

### How they interact

- *Main loop → event log → event client*: a session logs; the client reads the
  record at its own pointer and moves it on.
- *Heartbeat client → tables, sessions*: a command runs inside a wait of
  whatever the main loop is doing, and uses the session's `user_t` and `task_t`.
- *Heartbeat client ↔ event client ↔ main loop*: `hb_event_loginflag` holds the
  event client back; two owners set it and either clears it.
- *Heartbeat client → firmware client → boot block ← telnet server*: two
  channels feed one `fw_download_sd`. `fw_flag` stops logins and, in
  `tcpClienteventTask` (tcp_client_event.c:76), the event client.
- *Interrupt ↔ main loop*: `ULALARMS` and the deadlines, without any lock.
- *Tables ↔ alignment*: both tables use one backup block and one flag word.
- *Sessions, check, menus, emergency access, commands → slot records*: each
  changes them in memory and then writes all records of a kind.
- *Fingerprint module ↔ user table*: templates in one, the flag that lets them
  open a session in the other, changed by bio.c one after the other, with the
  heartbeat client in each wait between.

### What is hard here, and what makes each part correct

- **Event log**: a record must reach the server although frames and answers are
  lost, late or of another connection; both pointers exist in memory only and
  are found again by scanning markers. *Correct* if nothing logged is lost,
  nothing is taken for sent that is not, the order is kept, and uploads never
  stop for good.
- **Alarms**: read-modify-write against an interrupt, and marks that turn a
  condition into an edge. *Correct* if an overdue key is reported once, and its
  alarm goes away only with its cause.
- **Tables**: several flash operations to one change, an alignment of hundreds.
  *Correct* if the server's picture of them is right and searches end where they
  should.
- **Heartbeat client**: three writers of its flags and one buffer for all
  frames. *Correct* if it greets before it answers, answers what it is asked,
  returns its sockets and always calls again.
- **Sessions**: people and the server act between any two scans. *Correct* if
  slots are locked when nobody is there, users get their own fobs only, and the
  log ends up agreeing with the slots.
- **Slot records**: four writers, two copies, three records of one slot.
  *Correct* if a restart brings back what the checks go by, and a fob that is
  out has the deadline of its own taking.
- **Biometric users**: two stores and no transaction between them. *Correct* if
  flags and templates agree between two pieces of work, and a finger opens a
  session only as its owner.
- **Upload**: `fw_download_sd` is re-entered from its own waits. *Correct* if
  what is marked for the boot loader is the image, and every upload ends.

## 2. The modules

| Module | Models | Use |
|---|---|---|
| `EventFlash` | flash operations, the ring, the two boot scans | no state of its own |
| `EventUpload` | log, client, network, server, resets | extends EventFlash |
| `EventQueue` | what they promise: an abstract queue | refined by EventUpload |
| `EventUploadProofs` | types, safety, refinement and the boot scans, proved | TLAPS |
| `Alarms` | interrupt, alarm handler, sessions as far as they touch alarms | |
| `AlarmsProofs` | types, the dropped alarm, the event once, proved | TLAPS |
| `RecordTables` | both tables, commands, alignment, resets | |
| `RecordTablesProofs` | types, tables as told, searches, proved | TLAPS |
| `HbClient` | heartbeat client, its timers, sockets, resolver | |
| `HbClientProofs` | types, greeting, answers, sockets, proved | TLAPS |
| `KeyCabinet`, `MCKeyCabinet` | sessions and the check between them; an instance | |
| `KeyCabinetProofs` | types, locks, rights and the log, proved | TLAPS |
| `KeyRecords` | slot records in memory and flash, registration, emergency access, restore | |
| `KeyRecordsProofs` | types, registrations and deadlines, proved | TLAPS |
| `Biometric` | templates, flags, the menus and the cleanup that change both | |
| `BiometricProofs` | types, flags against templates, fingers, proved | TLAPS |
| `FwUpload` | both upload channels, re-entrance, restarts | |
| `FwUploadProofs` | types, the mark, the end of the image, acceptance, proved | TLAPS |

Conventions: variables, states and handlers keep the names they have in the
source. A constant that is a bound of the model and not of the code says so
where it is declared. A definition that its comment calls a variant is a slip
that the properties are shown to catch; no specification uses it.

### EventFlash, EventUpload, EventQueue

A record keeps the marker bytes the code looks at (`save`, `sent`) and the
number of the event. `LogWrite` and `LogAdvance` are the two halves of
`prot_log_event`, with its `delay(10)` between. The client has one action per
handler and outcome: `StateInit`, `StateConnect(outcome)`, `SendOk`,
`SendAgain`, `SendFail`, `Receive`, `ReceiveTimeout`, `StateClose`; the receive
loop inside the send state is the state WAIT. The network may complete a
connection late, lose a frame, deliver one of a closed connection, lose or spoil
an answer. `Reset` and `ResetInLog` (between erase and write) run
`prot_init_event`, the `BootEvent` and `BootCheck` scans of the markers.

`Room` is the assumption that the reader is never so far behind that the next
event would overwrite or erase what it has not sent (28 000 records, 2 048 to a
sector); `HarshSpec` does without it. `EventQueue` has three counters: `logged`,
`forgotten` (the client is done with it) and `taken` (the server has it), and
the actions `Log`, `Deliver` and `Forget`; `Queue == INSTANCE EventQueue WITH ...`
in EventUpload is the refinement mapping.

### Alarms

`TICKER_Handler` is the one-second branch. Each `ULALARMS |=` or `&= ~` of the
main loop is a `Load` and a `StoreAlarms`. `alarm_handler` is its sections in
order. Deadlines are the seconds that remain; flash holds a copy, and a reset
(`Boot`) brings it back. `write_key_sd` erases the records of all the keys and
writes them again: `ResetInWrite(n)` falls after n of them in the write of a
taking, a return or a cleared flag, `ResetInOther(n)` in one of a menu or of a
command that comes in a wait; both leave the flags of the others set and their deadlines at 0xFFFFFFFF, which is the mark of
one that has passed (`Raised`). A session is present as far as it sets and clears
deadlines and opens the door; `KeyCheck` is `key_check_2`'s part in it. A reset in
the write of the key log, which takes slots out of use, is in KeyRecords. AC and
battery sensors are in the module, but the runs let the doors change only.

History: `torn` are keys whose flag a reset has kept from the flash, between event
and write, or left erased after the event, in a write for any key; a key leaves it
with the next taking. `fresh` are keys whose alarm no load of the word and no scan
has met.

### RecordTables

A step is one flash operation. `Modify` and `Delete` begin a command, which zeroes
the old record, writes the system sector when users are to be aligned, and
writes the new record into the first erased slot. `Align` is the alignment of
login_menu.c and mci_menu.c: copy to the backup block, erase, write back, for
each table; a reset anywhere starts it again at boot. A record is its id and one
value for all its other fields. A half-written record is `Mixed`.

`Spec` keeps every table within one flash sector (`Fits`: 512 users, 512
tasks); `FullSpec` does not, and there the erase loops miss the other sectors.

### HbClient

Every state of the client, with `flag_init`, `event_first_flag`, `ghb_time` (run
out or not), the hold, the sockets it owns and those it has lost track of, and
the resolver. `Tick`, `MainHold`, `Press`, `OtherClients`, `Resolver` and
`ServerSends` are the world around it. A command is one of six classes, by what
it does to this state machine.

### KeyCabinet

`pc` is the wait in which the main loop is: idle, PIN, door, task menu, scan,
removal, return, wrong fob, closing. People (`Pull`, `Put`, `CloseDoor`) act
whenever the code waits, and are seen only when it scans (`seen`). `Server` is a
command that overwrites `user_t` or `task_t` in a wait. PINs are distinct, all
users enabled, all fobs registered at the start, a time window is a choice, and a
wrong fob differs in every byte. What registers fobs is in KeyRecords.

A session that begins with the return of a fob (mode 0) may go on to take one:
task_management.c:1604 and 1640 turn it to taking without a look at the second
user the task asks for, whom only the selection has asked. `TurnedReturn` names
that case, and `RightsRespected` excuses it.

### KeyRecords

For each slot: the fob that is in it (`slot`, the world), the one the checks
expect (`org`, org_key_data), the key record in memory and in flash (`mem`,
`keys`: fob and task_removal_time), the event record in both (`status`,
`events`) and the deadline in memory (`limit`, KeyTask_TimeLimit). `pc` is where
the one thread waits. A change of a record is followed by the write of its
sector (`WriteKeys`, `WriteEvents`), which nothing interrupts but a reset:
`ResetInKeys(n)` and `ResetInEvents(n)` leave the first n records new and the
others erased. `TakeKey` and `TakeLimit`, `ReturnKey` and `ReturnLimit` are the
two halves of a taking and a return in user_mykee_task, split where the log of
the event polls; the `Emergency...` actions those of emerg_remove_return_key;
`RegisterKey`, `AddKey`, `MenuEnd` and `CreateEvents` the two menus;
`KeyCommand` is CMD_ADD_KEY or CMD_DELETE_KEY in any wait; `Boot`, `BootService`
and `BootRestore` what main does before its loop.

History: `taking` is the deadline of the taking that has emptied a slot.
`overtaken` are slots whose record a command has read back from flash while a
menu was registering it. `excused` are slots whose deadline is not the taking's
for a reason that lies in the code: a return that nobody logged or a new
registration has left the old one (key_menu.c:470), or a reset has cut the
taking, the return or the record. A slot leaves `excused` with the next step
that sets its deadline.

### Biometric

The user table as far as it concerns fingers (id, login type, `finger_enabled`),
the templates in the module (two of a user, by the user's id), `bio_delete_flag`
and the session a finger has opened. `pc` is the wait in which the main loop is.
Enrolment is `ChooseNew`, two times `EnrolDone`, `EnrolFails` or `EnrolUnheard`
(stored, but the answer lost), `Undo` after a failure, `save_user_details`.
Deletion is `ChooseEnrolled`, two times `DeleteFinger`, `chage_bioflag`, and the
alignment that makes the flag 0xFF again, as an erase and a restore between
which only a reset can fall. The cleanup of bio_verification is `Scan`,
`ScanFinger` and `ScanWrite` for each slot. `CmdAddModUser`, `CmdAddEditUserT`
and `CmdDelUser` fall into any wait. `who`, the person a record and a template
belong to, is not in the code: it is what the properties compare.

The answers of the module are abstracted to what the code makes of them:
`delete_userrecord` reads whatever is in the buffer, so its result (`ok`) and
what the module did (`done`) may differ; each difference counts as a fault. The
shared record `user_t` is followed where it is read after a wait, in the
cleanup; `enabled`, the card and the PIN of a user, and the packets, are left
out. Ids are cut to `WIDTH` where an argument is a `u16_t`: an edited record takes
the flag of the id its own is cut to, a deletion in the menu clears the flags of
that id (of all users when it is 0), and a finger opens the session with its record.

History: `excused` are ids for which an answer was lost, a command came into
their cleanup or a reset into the work on them, deleted users whose
templates the code leaves in the module, and ids that are cut with those they
are cut to; `crossed` are ids deleted in the middle
of their enrolment.

### FwUpload

A packet is 256 bytes; a receive buffer of 530 bytes holds two (`BUFFER`).
`handle_ftp_char` counts bytes and pays no heed to the borders of reads, so reads
are taken to end with packets. Once a connection has been lost, a buffer handled
twice or the other channel used (`disturbed`), the packets may lie anywhere, and
what the handler takes for one is a packet of the image or `JUNK`; that is more
than the code can do, which keeps its offset between two such events. `stack` holds the handlers that have
been entered: at the loop over the buffer, in an erase, at the main loop's
message, or in `system_restart`, from which nothing returns (it sets the watchdog
to 2.1 s and waits 4 s). While the top is in a wait, every handler may be polled,
also the one that waits. `FeedFirst`, `FeedData` and `FeedLast` are the three
branches of `fw_download_sd`. The first erases the boot block a sector at a time
(`SECTORS` of `PACKETS` packets each) with a wait after every one: `FeedFirst` is
the first of them, with the mark, `EraseNext` each other, `EraseEnd` the count
after the last, and each handler keeps in `usi` how far it is. `packet_num` is a
`u16_t` and comes round at `U16`; nothing else keeps it within the image.
`ClientRefuse` is an announcement the firmware client does not take.

## 3. The runs

| Run | Bounds | Checks |
|---|---|---|
| `EventUpload_safe` | ring of 5, sectors of 2, 6 events | types, safety, refinement of EventQueue, every event confirmed |
| `EventUpload_reset` | ring of 6, sectors of 3, 8 events, 1 reset | the boot scans over a reset in any step |
| `EventUpload_outage` | ring of 3, sectors of 2, 4 events, 1 reset, no Room | nothing programmed over a record; the reader never wedges |
| `Alarms_keys` | 2 keys, the door | alarm word against the interrupt; the scan reaches every key |
| `Alarms_reset` | 2 keys, the door, the service door open at first, one fob that moves with nobody logged in, 1 reset | overdue logged once |
| `RecordTables_sector` | 4 slots, sector of 3, 2 users, 1 task, 1 reset | tables as told, searches |
| `RecordTables_sectors` | 4 slots, sectors of 2, 3 users | *violation*: a table over two sectors |
| `HbClient_calls` | 4 sockets, 30 polls, 3 commands, 1 key | greeting, answers, sockets, calling again, the hold |
| `KeyCabinet_sessions` | 2 users, 3 tasks, 2 fobs, 2 logins, 2 moves, 1 command | locks, rights, log, custody |
| `KeyRecords_slots` | 2 slots, 3 fobs (2 of one family), 1 move, 2 takings, 1 menu, 1 command, 1 reset | registrations, deadlines, records against slots |
| `Biometric_users` | 3 slots, 2 people, 3 commands, 1 fault, 1 reset; ids 1, 2 and 3 of which 2 is cut to 0 and 3 to 1 | flags against templates, fingers against sessions |
| `FwUpload_channels` | image of 3 packets, 2 to a buffer, 2 sectors of 1, counts below 4, 2 handlers in one another | mark, accepted, ends |

Why the bounds are enough: the rings are long enough that the writer
wraps and enters a sector again, with more events than slots; a table has
more slots than ids and an alignment has something to move, to drop and to keep;
two keys are needed for the scan to pass one by and for a write of one key to lose
the record of another, two fobs for a wrong one; two
logins for a session to see what one before it has left; two takings for the
deadline of one to meet that of another, and two slots for a sector write to
concern a slot the change is not about; two people for an id to be given to somebody
else, three ids for one that fits its argument, one that is cut to it and one that
is cut to 0, and three slots for a command to move a record behind
the cleanup's place, with three commands to give, take away and give again; with two handlers in
one another both channels and the re-entrance of one occur, and an image of three
packets has a first, a middle and a last, with the middle in a later sector than
the first and one count past the image before it comes round. What depends on the size itself, the
arithmetic of the ring and the length of the image, is proved for all sizes. The
safety of FwUpload's proof invariant has also been checked by TLC with an image
of 4 packets and 3 handlers, in sectors of two (9.3 million states).

Deadlock is checked except in the EventUpload runs, where the bound on events,
with all of them confirmed and no hold to toggle, stops the model, and in
KeyRecords_slots, where the bounds on moves, takings and menus do.

### Fairness

- `EventUpload!Fairness`: `delay()` returns and polls. The main loop clears the
  hold on every turn only to set it again, so it is off again and again but not
  for good: `StateInit` needs strong fairness. Link and server work again and
  again, though any one attempt may fail. *No upload of firmware hangs*: while
  `fw_flag` is set the client does nothing (see FwUpload!UploadEnds).
- `Alarms!Fairness`: the timer runs, the main loop goes on, users do not take and
  return for ever, and a door is closed in the end.
- `HbClient!Fairness`: polls and ticks go on; each wait has its time-out; not
  every poll finds the timer run out. Nothing of the server and the resolver.
- `KeyCabinet!FairSpec`: each wait has a time-out, but for
  `wrong_unauth_key_check`, which needs the door closed.
- `KeyRecords!Fairness`: sector writes, menus and the boot go on by themselves; the
  emergency access ends by its time-out (key_menu.c:1703) and `key_check_2` runs on
  each turn of the main loop, but both may be disabled again and again by a
  command's sector write or a session, hence strong fairness.
- `FwUpload!Fairness`: the network is polled, waits and the main loop go on, sessions end, the watchdog fires once
  `system_restart` has begun; somebody connects to the telnet server again and
  again, and some of those connections fall silent rather than being lost. The
  code gives an upload up only by the time-out of a connection: with no
  connection at all it never ends, which is why this must be assumed.

## 4. The properties

*Event log.* `SentMeansDelivered`: a record marked as sent is with the server.
`NoEventLost`: what is not with the server waits, intact, in the ring.
`FrameMatchesSlot`: an awaited answer is about the slot that will be marked.
`QueueSpec`: all of it implements the abstract queue. `EveryEventConfirmed`,
`CatchesUp`: liveness. `ResetFindsWriter`, `ResetKeepsPending`: the boot scans.
`NeverMixed`: programming only erased slots. In an outage long enough for the
writer to lap the reader `SentMeansDelivered` does not hold and is not claimed:
a record may be marked by the answer to the one that was there before.

*Alarms.* `AlarmDropped`: TASK_OVERDUE goes away only with no key overdue that
a scan has met. `ScanReaches`. `OverdueOnce`: one event for each removal, over
resets, but for the keys in `torn`; without the exception TLC finds
the second event.

*Tables.* `TablesAsTold`, `SearchFinds`. An alignment that a reset
cuts after its erase loses records; `excused` says which, and the property that
no others are.

*Heartbeat.* `OpensWithHeartbeat`, `CommandAnswered`, `SocketsReturned`,
`KeepsCalling`, `HoldReleased`. A reply is lost when a key is pressed between a
command and its answer, and sockets are lost with a host name configured; the
properties leave these two out and the hazards list them.

*Sessions.* `LockedAfterSession`, `RightsRespected`, `LoggedForUser`,
`CustodySettles`.

*Slot records.* `RegistrationDurable`: outside the menus the registration in flash
is the one the checks go by. `DeadlineOfTaking`: a fob that is out has the
deadline of its own taking, in memory and in flash. `StatusSettles`: once nobody
moves it, the record of a slot says whether its fob is there.

*Biometric users.* `FlagMatchesTemplates`: between two pieces of work a live user
with the flag has both fingers in the module and nobody else has any.
`FingerOpensOwn`: a session that the finger of an id below 2^16 opens runs with the
record of that person. The ids an id of 2^16 and more is taken for are excused, not
ruled out. Each claims everything but the ids or slots its history variable names;
without that exception TLC finds the behaviour the variable's comment describes.

*Upload.* `MarkMeansImage`: a marked boot block holds the image. `UploadAccepted`:
one that the boot block has room for and that comes over one connection, with no
re-entrance, is accepted.
`WithinImage`: it is not written past its end. `UploadEnds`.

### Finding

`RecordTables_sectors`: the erase loops step by 1000 and not by a sector, so the
alignment erases the first sector only; with more than 512 users a deleted user
is still there afterwards, although menu_main.h:72 gives the users "Sector 6 to
9".

## 5. What is proved

`EventUploadProofs`, for every ring and sector size and any number of events
(under `Room`, without resets): `TypeCorrect`, `SentCorrect`, `FrameCorrect`,
`NoLoss`, `ImplementsQueue`. The three safety properties are not inductive, since
an answer's effect depends on what the ring holds around the pointer. The
invariant `IInv` adds: the slots from the reader to the tip hold, in order, the
events that are not confirmed (`WindowInv`); the rest of the tip's sector is
erased (`FreeInv`), so that the writer programs erased slots; whenever a frame is
out it is that of the oldest pending event (`ClientInv`); the server has the
confirmed events, perhaps the next one, and no others are on their way
(`ServerInv`). `LogWriteIInv` is the step that needs most: an erase on entering a
sector must miss the window, which is where `Room` comes in, with the arithmetic
of sectors in `SectorRange` and `SectorStep`. `ImplementsQueue` maps each step to
`Log`, `Deliver`, `Forget` or a stutter, with the mapping of `Queue`.

With resets (`ResetSpec`, and `HarshSpec` without `Room`), for any number of them:
`NeverMixedCorrect`, `ResetFindsCorrect`, `ResetKeepsCorrect`. After a reset the
pointers are what the two scans of `prot_init_event` read out of the flash, so
the invariants are about the ring and not about the pointers. `Ring`: every slot
below the tip is written, the blank slots from the tip on are in one run, and
the rest of the tip's sector is blank. It holds in every outage, and the first
two theorems need no more than it: an event meets a blank slot, and the first
scan ends at the tip (`BootFindsTip`). Whether the second scan finds the reader
depends on what is unsent: `Backlog` says that it lies without a gap below the
tip, without a gap above the reader when the tip has wrapped, and that nothing
behind the reader is unsent. `Room` is what keeps an erase from cutting that run
(`EraseKeepsBacklog`); the client's marks only shorten it at the reader's end
(`MarkKeepsBacklog`), and the scan follows it down (`BootKeepsBacklog`).
`LeastExists` and `GreatestExists` give the `CHOOSE` of the scans a value, by
the well-foundedness of the naturals. Slot 0, which the second scan does not
reach, is left out by the property itself.

`FwUploadProofs`, for every length of the image, number and size of sectors, buffer
size and depth of re-entrance: `TypeCorrect`, whose substance is that no read runs
over a receive buffer (that a count stays below `U16` is only its width), and
`MarkCorrect`. That the mark stands for the image is
not inductive: a packet programmed, or counted, after the mark was set would
spoil it. `MarkInv` says why there is none: once marked, `packet_num` is 0, so
the next packet to do anything erases the mark first; and every erase that
is still waiting lies below a `system_restart` (`ErasesAreOver`), so that none
comes back to erase another sector or to count a packet.

`KeyRecordsProofs`, for every number of slots and fobs and any number of takings,
menus, commands and resets: `TypeCorrect`, `RegistrationCorrect`,
`DeadlineCorrect`. Both properties speak of the states in which the thread is
between two steps; the invariant says what holds in the others. `FobsInv`: the
records in memory and in flash name the same fobs but while a menu is at work or
its write is due, and memory agrees with `org` but for overtaken slots.
`EventsInv`: so do the event records but while their write is due. `PendingInv`:
what a taking or a return will still do concerns the slot `cur`. `DeadlineInv`:
every slot that is not excused either is the one such a step is about or is
settled, that is, in or with its own deadline in both copies. `OthersKept` is the
lemma that a step about one slot leaves the others settled although the write
covers them all.

`KeyCabinetProofs`, for any users, tasks, fobs and rights: `TypeCorrect`,
`LockCorrect`, `RightsCorrect`, `LoggedCorrect`. The properties speak of the slot
being released; whether it may be is decided several waits earlier, so the
invariant says what a session has gathered in each wait. `LockInv`: only the fob
entered, in the loop over the fobs, and the slot of a wrong one are released.
`RightsInv`, while no command has disturbed the session: `user_t` is the record of
the user who logged in, from the door on `task_t` is one of that user's tasks or
the list to choose from has only these, and from the loop over the fobs on the
second user has been there (or the session is a `TurnedReturn`).

`HbClientProofs`, for any number of sockets, retries, commands and pressed keys:
`TypeCorrect`, `OpensCorrect`, `AnswerCorrect`, `SocketsCorrect`. Three places
write `flag_init` and `event_first_flag`, one of them in every wait for a key;
`FlagsInv` says what the two mean in each state of the client, in particular that
`flag_init` is clear before a call and that without a pressed key it stays set
behind a frame. `ReplyInv` keeps the reply of a command in the buffer until it is
sent, `SocketInv` says in which states a socket is held.

`AlarmsProofs`, for any number of keys and any limits: `TypeCorrect`,
`OnceCorrect`, `DropCorrect`. The store of the word relies on what was seen at its
load, and the end of the scan on what was seen key by key in several calls of
`alarm_handler`, with the interrupt between any two. `DropInv` carries both: each
overdue key that the scan has passed with nothing found, or that the loaded word
does not know of, is one the interrupt has raised since, or a reset brought back
(`fresh`). `ScanInv` ties
the number of overdue keys found to the place of the scan, `OnceInv` the log to
the flag in flash, for every key that is not in `torn`: `WrittenFlags` says that a
cut write of the key records, where it has written, has written no flag back.

`FwUploadProofs` also has `WithinCorrect`: on one connection with one handler at a
time the count of packets stays below that of the image, because packets are only
counted by the handler at the bottom of the stack and while the upload is on
(`HandlerInv`).

Its `AcceptedCorrect` is the action property that an undisturbed upload of an
image that the boot block has room for (`Fits`; the code does not ask), when it
comes to its last packet, is marked and not refused. The check that may refuse it
compares the boot block with the image, so `OrderInv` has to say that the packets
come in order, from a peer's stream through its buffer to the block: what is in a
buffer and what its peer sends next are consecutive (`InOrder`), exactly one peer
feeds the upload, beginning with the packet that is expected, with the packets
before it in the block (`Feeds`, `FilledTo`) or, while that is erased, the first
sectors erased (`ErasedTo`), and the other one's announcement
still waits (`Waits`) and will disturb when it is handled. `OtherOrder` and
`FeedOrder` are the steps of the rest and of the handler; `TakenOrder` and
`FilledFurther` the facts on sequences and blocks they share.

`RecordTablesProofs`, for any number of slots, ids, contents and resets and any
size of a sector that is not above the number of slots: `TypeCorrect`,
`TablesCorrect`, `SearchCorrect`. They are about `Spec`, where the server adds to a
table only while it fits in one sector (`Fits`); beyond that the finding's run
refutes `TablesAsTold`. From the erase of an alignment on, the records are in the
backup only, and a reset there starts over from what is left of both. `AlignInv`
says how far copy and restore have come: each record written back is one of
those read so far, and each of those that is not zeroed has been written back.
`ToldInv` compares what the server was told with the block that holds the records
(`Source`), and `TablesInv` keeps a table without gaps and an id in it once, which
is what the searches rely on. `CommandInv`: a change that has zeroed the old
record has room for the new one.

`BiometricProofs`, for any number of slots, ids, people, commands, faults and resets:
`TypeCorrect`, `FlagsCorrect` and `FingerCorrect`. No bound on the ids is assumed:
`check_user_bio`, `chage_bioflag` and `delete_user_details` cut an id to 16 bits and
act on another user (section 6), so `excused` takes the ids such a step hits, and
`FingerOpensOwn` is about sessions of ids below 2^16; the theorems say that nobody
else is hit. Flag and templates
are changed one after the other with waits between, in which commands come and
the power may fail.
`MatchInv` says, for every id, which of the two fingers each step of an enrolment,
a deletion or the cleanup may have left (`Left`); `MenuInv` that the one enrolled
is still the one chosen, or deleted meanwhile; `ScanInv` that the cleanup writes
back the record it has read, or that each id it may touch instead is excused.
`FingerOpensOwn` is inductive only with `OwnInv`: a flag and a template of one id
are of one person, unless the server deleted the id during its enrolment.

The assumptions are those the modules state about their constants. Every safety invariant, every action property and the refinement
that a passing run checks is a theorem. Only model-checked is liveness, which the
prover cannot reach: `EveryEventConfirmed`, `CatchesUp`, `ScanReaches`,
`KeepsCalling`, `HoldReleased`, `CustodySettles`, `StatusSettles`, `UploadEnds`.
The theorems of Alarms, KeyRecords, KeyCabinet and EventUpload are about
specifications without fairness; a run with fairness checks the same properties
with what its liveness needs, which only takes behaviours away. The inductive
invariants were checked by TLC before they were proved; that of the boot scans on
rings of up to 6 with two resets (3.6 million states), that of Biometric with three
ids of which two are cut and four commands (6.9 million).

## 6. What is not modelled, and what was only observed

Not modelled: drivers, displays, dialogues and diagnostics (input and output, or
single records written at once); calendar arithmetic; Bluetooth (not in this
build); the set-up functions of the fingerprint module, which nothing calls; the
boot loader, which is not in the repository; `write_system_sd`, a single step.
The vendored network stack (CycloneTCP and CycloneCRYPTO, some 200 000 of the
repository's lines against 18 600 of the firmware's own) is third-party code and
present as what the firmware relies on.

Seen while reading, and in no property, since nothing in the repository says
what should be:

- the second boot scan stops above slot 0, so an event there is passed over;
- `key_check_2` leaves the deadline of a fob put back with nobody logged in, and so
  do a new registration and service mode (`excused` in KeyRecords);
- `ULALARMS` is changed in the main loop by load and store: the interrupt between
  them sets TASK_OVERDUE and marks the key, the store drops the bit, and the marked
  key is never looked at again (`fresh` in Alarms);
- a reset in `write_key_sd` (mci_menu.c:442) leaves keys the write is not about with
  flag and deadline erased, so that their overdue event is logged again once any
  key raises TASK_OVERDUE (`torn` in Alarms);
- a server command in a wait of a session replaces `task_t` or `user_t`, and the
  session then releases the fob of another task (`disturbed` in KeyCabinet);
- the emergency access logs EVT_ERGY_KEY_RETURN for an empty slot without a
  registered fob (key_menu.c:1833); a fob taken after its last scan is logged as an
  unauthorised removal; 252 does not cancel the key entered;
- CMD_DELETE_KEY marks key1_t[flag_return] without the 1 that CMD_ADD_KEY subtracts
  (tcp_client_hb.c:686); CMD_ADD_KEY in a wait of `total_register` undoes the
  registration in flash (`overtaken`); `addnewkeys` takes a fob of the same family
  for the one registered (key_menu.c:254); an event record left erased is never
  repaired, and an erased key record restores a deadline of 0xFFFFFFFF;
- `TskTimeout_stamp_t.ticks` has 8 entries and is indexed up to 15 (timer.c:142);
- the holder of a fob is kept in 16 bits (protocol_comm.c:174);
- `delete_task` leaves its id with users (task_management.c:377), `modify_user`
  sets `self_user_allign` to 1 and so drops a pending task alignment
  (protocol_comm.c:257), a full table zeroes the old record before it answers
  overflow (protocol_comm.c:267);
- a heartbeat interval of 0 means never and is turned into at once by the close
  of that connection (tcp_client_hb.c:1277); commands without an answer resend
  the buffer (tcp_client_hb.c:1093);
- `uik1` is cleared only when no key at all is overdue (login_menu.c:318);
- the percentage of the upload divides by `fw_datalen`, 0 after CMD_FW_UPLOAD
  until the image is announced (main.c:805); CMD_FW_UPLOAD turns `fw_flag` 2 back
  into 1; an announcement the firmware client refuses stays in its buffer and is
  what later ones are judged by (tcp_client_fw.c:282); `fw_first_flag` is not cleared by a send that succeeds;
  `tcpClientStatefwInit` connects although `gfw_time` has not run out;
  `eraseboot_sdcard` steps by 1 and erases one sector; an image of more than the
  four sectors the boot block has is not refused and written over what follows;
- `finger_enabled` is programmed in place and cannot go from 0 to 1 (bio.c:605), so a
  user the cleanup has left with 0 cannot enrol before an alignment;
- `biometric_init` is never called, and `fingerprint` is set only by the first PIN or
  card login after a boot (main.c:836, 886): until then no finger is looked for;
- CMD_ADD_EDIT_USER_T edits user 3333 whatever it is sent and alone sets
  `bio_delete_flag`; a user whom CMD_ADD_MOD_USER moves off finger login still
  enters by finger; a cleanup asked for while one is past the user's slot, or
  before a reset, is lost;
- `check_user_bio`, `chage_bioflag` and `delete_user_details` cut ids to 16 bits: a
  multiple of 65536 disables the fingers of all users (bio.c:1199 says "user code
  must be >0"); ENTER at the end of the list enrols user 0 (bio.c:954);
- `self_user_allign_bio` has no mark for a restart: a reset between its erase and
  its restore loses all users; `delete_alluser` erases the tasks' block as well
  (bio.c:1331) and ignores a failure of the module.

## 7. Plan

Done, in this order: EventUpload with its proofs, Alarms, RecordTables, HbClient,
KeyCabinet, FwUpload with its proofs, KeyRecords with its proofs, Biometric, then
the proofs of KeyCabinet, HbClient, Alarms, Biometric and RecordTables, of
UploadAccepted and of EventUpload's resets.
Next:

1. *Composition*: HbClient's commands with KeyCabinet's sessions and the tables;
   the event client with an upload that holds it back; KeyCabinet over KeyRecords,
   so that a session works with slots that are registered in the run.
2. *Sector records*: `write_system_sd` as erase and write, and what main.c:285-330
   repairs after a reset in it.
3. *Proofs*: the invariants of what 1 and 2 add, and abstract specifications for
   the tables and the slot records, refined as EventQueue is.
