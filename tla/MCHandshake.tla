---------------------------- MODULE MCHandshake ----------------------------
(* Handshake for model checking: every client configuration against every  *)
(* kind of peer.  The intervals are one that is zero, one that becomes     *)
(* zero in microseconds, and one that loses its fraction.                  *)
EXTENDS Handshake

AllConfs ==
  {c \in [mode     : {"legacy", "v4", "v5"},
          fallback : BOOLEAN,
          wakeup   : {"default", "polling", "eventfd"},
          interval : {0, 10, 2500},
          mem      : {"file", "memfd"},
          peer     : {"rs", "v4", "legacy", "rejects", "v6", "mute"}] :
     /\ c.wakeup # "polling" => c.interval = 0
     /\ c.mode = "legacy" => ~c.fallback}

\* Capacities at the edges of their rounding; the default slice sizes, sizes
\* that are out of order and not aligned, a class too large for its share, and
\* one pair that verify refuses.
Pair(s, p) == [size |-> s, percent |-> p]

AllShapes ==
  [queue_cap : {0, 1, 8, 9, 124, 125, 8192},
   arm       : BOOLEAN,
   mem       : {1048575, 1048576, 1048577},
   pairs     : {<<Pair(8172, 50), Pair(32748, 30), Pair(131052, 20)>>,
                <<Pair(4097, 30), Pair(1, 70)>>,
                <<Pair(900000, 1), Pair(64, 99)>>,
                <<Pair(64, 60), Pair(128, 60)>>}]
============================================================================
