----------------------------- MODULE EventQueue -----------------------------
(***************************************************************************)
(* What the event log and its client promise together, with no slots,      *)
(* pointers, frames or connections: events are numbered as they are        *)
(* logged, the server has taken a prefix of them, and the cabinet forgets  *)
(* an event, oldest first, only once the server has it.  An event may      *)
(* reach the server again; that changes nothing here.                      *)
(***************************************************************************)
EXTENDS Integers

VARIABLES logged,    \* events logged
          forgotten, \* events the cabinet no longer keeps for upload
          taken      \* events the server has

Init == logged = 0 /\ forgotten = 0 /\ taken = {}

Log == logged' = logged + 1 /\ UNCHANGED <<forgotten, taken>>

(* Only the oldest event still kept is ever on its way.                    *)
Deliver ==
  /\ forgotten < logged
  /\ taken' = taken \union {forgotten + 1}
  /\ UNCHANGED <<logged, forgotten>>

Forget ==
  /\ forgotten + 1 \in taken
  /\ forgotten' = forgotten + 1
  /\ UNCHANGED <<logged, taken>>

Next == Log \/ Deliver \/ Forget

Spec == Init /\ [][Next]_<<logged, forgotten, taken>>

=============================================================================
