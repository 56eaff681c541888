----------------------------- MODULE MCLifecycle -----------------------------
(* Lifecycle for model checking: one connection with several writers, one  *)
(* rebuilt slot, two slots that share a buffer manager, a shared pool.     *)
EXTENDS Lifecycle

Conf(slots, lives, users) ==
  [slots |-> slots, lives |-> lives, users |-> users, wakers |-> {}, senders |-> {},
   faults |-> FALSE, close |-> FALSE, refusals |-> 0, breaks |-> FALSE,
   peer |-> FALSE, loops |-> {"read"}]

Writers == [Conf({}, {1}, {}) EXCEPT
  !.wakers = {"a", "b"}, !.senders = {"b"}, !.loops = {"read", "write"}]
Breaks == [Writers EXCEPT !.faults = TRUE]
Closes == [Writers EXCEPT !.close = TRUE, !.loops = {"write"}]
Rebuilds == [Conf({1}, {1, 2}, {}) EXCEPT !.faults = TRUE, !.refusals = 2]
Moves == [Conf({1}, {1, 2}, {1}) EXCEPT !.faults = TRUE]
Stops == [Conf({1}, {1, 2}, {}) EXCEPT !.faults = TRUE, !.close = TRUE]
Shares == [Conf({1, 2}, {1, 2, 3}, {}) EXCEPT !.faults = TRUE]
Pools == [Conf({}, {1}, {1, 2}) EXCEPT !.close = TRUE, !.breaks = TRUE, !.peer = TRUE]

AllKinds == {Breaks, Closes, Rebuilds, Moves, Stops, Shares, Pools}
===========================================================================
