----------------------------- MODULE EventFlash -----------------------------
(***************************************************************************)
(* The event log of the cabinet as the SPI flash holds it: 32-byte EVENTS  *)
(* records in the slots 0..MAX_EVENTS of EVENT_BLOCK, SECTOR slots to an   *)
(* erase sector.  The module has no state of its own: it gives the flash   *)
(* operations (program, erase), the step to the next slot, and the two     *)
(* scans by which prot_init_event finds the pointers again after a reset.  *)
(*                                                                         *)
(* A slot keeps the two marker bytes the code looks at and the event.      *)
(* Events are numbered 1, 2, ... in the order they are logged: code, user, *)
(* task, key and ticks travel together and nothing here tells them apart.  *)
(***************************************************************************)
EXTENDS Integers

CONSTANTS MAX_EVENTS, \* index of the last slot (28000 in menu_main.h)
          SECTOR      \* slots in one erase sector (0x10000 / 32 = 2048)

ASSUME MaxEventsAssumption == MAX_EVENTS \in Nat \ {0}
ASSUME SectorAssumption == SECTOR \in Nat \ {0, 1}

Slots == 0 .. MAX_EVENTS

FF   == -1   \* an erased byte, or an erased field: every bit set
AA   == 170  \* sent_event of an event that waits for its upload
Zero == 0    \* every bit programmed

Record == [save : {FF, Zero}, sent : {FF, AA, Zero}, ev : Int]
Erased == [save |-> FF, sent |-> FF, ev |-> FF]
Unsent(e) == [save |-> Zero, sent |-> AA, ev |-> e]

(* NOR flash: programming clears bits and never sets one.  Two different   *)
(* values programmed over each other leave neither: 0 stands for the mix.  *)
FlashAnd(x, y) ==
  IF x = FF THEN y ELSE IF y = FF \/ x = y THEN x ELSE Zero

(* write_event_sd: WrBytes programs the record over what the slot holds.   *)
Program(log, i, r) ==
  [log EXCEPT ![i] = [save |-> FlashAnd(@.save, r.save),
                      sent |-> FlashAnd(@.sent, r.sent),
                      ev   |-> FlashAnd(@.ev, r.ev)]]

AtSectorStart(i) == i % SECTOR = 0
SectorOf(i) == i \div SECTOR

(* SectorErase: the whole sector of the slot, written or not, sent or not. *)
EraseSector(log, i) ==
  [j \in Slots |-> IF SectorOf(j) = SectorOf(i) THEN Erased ELSE log[j]]

(* Both pointers run over 0..MAX_EVENTS; NextSlotLong is a variant that    *)
(* does not wrap.                                                          *)
NextSlotLong(i) == i + 1
NextSlot(i) == IF i < MAX_EVENTS THEN i + 1 ELSE 0

-----------------------------------------------------------------------------
(* prot_init_event, first loop: the first slot below MAX_EVENTS whose      *)
(* save_event still reads 0xFF; slot 0 when there is none.                 *)
LeastOf(S) == CHOOSE i \in S : \A j \in S : i <= j
(* BootEventLast is a variant that takes the last such slot.               *)
BootEventLast(log) ==
  LET free == {i \in 0 .. MAX_EVENTS - 1 : log[i].save = FF}
  IN  IF free = {} THEN 0 ELSE CHOOSE i \in free : \A j \in free : i >= j
BootEvent(log) ==
  LET free == {i \in 0 .. MAX_EVENTS - 1 : log[i].save = FF}
  IN  IF free = {} THEN 0 ELSE LeastOf(free)

(* prot_init_event, second loop, from MAX_EVENTS down to 1: the lowest     *)
(* slot of the highest unbroken run of 0xAA; the writer's slot when no     *)
(* slot but possibly slot 0 is unsent.                                     *)
UnsentRun(log, lo, hi) == \A j \in lo .. hi : log[j].sent = AA
(* BootCheckLowest is a variant that takes the lowest unsent slot of all.  *)
BootCheckLowest(log, g) ==
  LET unsent == {i \in 1 .. MAX_EVENTS : log[i].sent = AA}
  IN  IF unsent = {} THEN g ELSE LeastOf(unsent)
BootCheck(log, g) ==
  LET unsent == {i \in 1 .. MAX_EVENTS : log[i].sent = AA}
      top    == CHOOSE i \in unsent : \A j \in unsent : i >= j
  IN  IF unsent = {} THEN g ELSE LeastOf({i \in unsent : UnsentRun(log, i, top)})

=============================================================================
