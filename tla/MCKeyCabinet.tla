---------------------------- MODULE MCKeyCabinet ----------------------------
(* One user with one fob, one with a task of two fobs and one of a fob     *)
(* that takes two users.                                                   *)
EXTENDS KeyCabinet
CONSTANTS a, b, t1, t2, t3, k1, k2
MCUsers == {a, b}
MCTasks == {t1, t2, t3}
MCKeys  == {k1, k2}
MCTasksOf == [u \in MCUsers |-> IF u = a THEN {t1} ELSE {t2, t3}]
MCKeysOf  == [t \in MCTasks |-> CASE t = t1 -> {k1} [] t = t2 -> {k1, k2} [] t = t3 -> {k2}]
MCApprovers == [t \in MCTasks |-> IF t = t3 THEN {a, b} ELSE {}]
MCCardOnly == {a}
=============================================================================
