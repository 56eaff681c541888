-------------------------------- MODULE Queue --------------------------------
(***************************************************************************)
(* The event queue of protocols V2 to V4 (queue.rs) with its wakeup: any   *)
(* number of producers behind a process-local mutex, one consumer in the   *)
(* other process, and working_flag.  One action per access to shared       *)
(* memory; a position is an i64 that never wraps in practice.              *)
(***************************************************************************)
EXTENDS Integers, Sequences

CONSTANTS
  Producers,  \* the tasks that call put and then wake_up_peer
  Cap,        \* elements of the queue
  MaxPos,     \* no put starts once this many elements have been put
  None

ASSUME CapAssumption == Cap \in Nat \ {0}
ASSUME MaxPosAssumption == MaxPos \in Nat
ASSUME NoneAssumption == None \notin Producers /\ "torn" \notin Producers

VARIABLES
  head, tail, working_flag,  \* the shared header
  cell,    \* the elements: who put it, or "torn" while its fields are being written
  lock,    \* the producer that holds Queue.lock
  pc,      \* each producer: "idle", "write", "store", "mark", "wake", "full"
  event,   \* whether a polling event or the eventfd is pending
  cpc,     \* the consumer: "wait", "pop", "read", "advance", "clear", "size", "set"
  got,     \* the element pop is returning
  puts,    \* ghost: the elements in the order their put returned
  pops     \* ghost: the elements pop returned

vars == <<head, tail, working_flag, cell, lock, pc, event, cpc, got, puts, pops>>

Init ==
  /\ head = 0 /\ tail = 0 /\ working_flag = 0
  /\ cell = [i \in 0..(Cap - 1) |-> None]
  /\ lock = None /\ pc = [p \in Producers |-> "idle"] /\ event = FALSE
  /\ cpc = "wait" /\ got = None /\ puts = <<>> /\ pops = <<>>

(* queue_offset: where the element of a position is. *)
Index(n) == n % Cap

Goto(p, l) == pc' = [pc EXCEPT ![p] = l]

(* Mutant: the fullness check is off by one. *)
PutBeginOffByOne(p) ==
  /\ pc[p] \in {"idle", "full"} /\ lock = None /\ tail < MaxPos
  /\ IF tail - head > Cap THEN Goto(p, "full") /\ lock' = None
                          ELSE Goto(p, "write") /\ lock' = p
  /\ UNCHANGED <<head, tail, working_flag, cell, event, cpc, got, puts, pops>>

(* put takes the lock and compares tail with the consumer's head. *)
PutBegin(p) ==
  /\ pc[p] \in {"idle", "full"} /\ lock = None /\ tail < MaxPos
  /\ IF tail - head >= Cap THEN Goto(p, "full") /\ lock' = None
                           ELSE Goto(p, "write") /\ lock' = p
  /\ UNCHANGED <<head, tail, working_flag, cell, event, cpc, got, puts, pops>>

(* The three fields of the element, one after the other. *)
WriteElement(p) ==
  /\ pc[p] = "write"
  /\ \/ cell[Index(tail)] # "torn" /\ cell' = [cell EXCEPT ![Index(tail)] = "torn"] /\ pc' = pc
     \/ cell[Index(tail)] = "torn" /\ cell' = [cell EXCEPT ![Index(tail)] = p] /\ Goto(p, "store")
  /\ UNCHANGED <<head, tail, working_flag, lock, event, cpc, got, puts, pops>>

(* The element is published and the lock released. *)
StoreTail(p) ==
  /\ pc[p] = "store"
  /\ tail' = tail + 1 /\ lock' = None /\ puts' = Append(puts, p)
  /\ Goto(p, "mark")
  /\ UNCHANGED <<head, working_flag, cell, event, cpc, got, pops>>

(* wake_up_peer: the producer that moves the flag from 0 to 1 sends the event. *)
MarkWorking(p) ==
  /\ pc[p] = "mark"
  /\ IF working_flag = 0 THEN working_flag' = 1 /\ Goto(p, "wake")
                         ELSE working_flag' = working_flag /\ Goto(p, "idle")
  /\ UNCHANGED <<head, tail, cell, lock, event, cpc, got, puts, pops>>

SendEvent(p) ==
  /\ pc[p] = "wake" /\ event' = TRUE /\ Goto(p, "idle")
  /\ UNCHANGED <<head, tail, working_flag, cell, lock, cpc, got, puts, pops>>

-----------------------------------------------------------------------------
(* drain_recv_queue_v4. *)

Woken ==
  /\ cpc = "wait" /\ event /\ event' = FALSE /\ cpc' = "pop"
  /\ UNCHANGED <<head, tail, working_flag, cell, lock, pc, got, puts, pops>>

(* Mutant: the emptiness check is off by one. *)
PopCheckOffByOne ==
  /\ cpc = "pop" /\ cpc' = IF head + 1 >= tail THEN "clear" ELSE "read"
  /\ UNCHANGED <<head, tail, working_flag, cell, lock, pc, event, got, puts, pops>>

PopCheck ==
  /\ cpc = "pop" /\ cpc' = IF head >= tail THEN "clear" ELSE "read"
  /\ UNCHANGED <<head, tail, working_flag, cell, lock, pc, event, got, puts, pops>>

PopRead ==
  /\ cpc = "read" /\ got' = cell[Index(head)] /\ cpc' = "advance"
  /\ UNCHANGED <<head, tail, working_flag, cell, lock, pc, event, puts, pops>>

PopAdvance ==
  /\ cpc = "advance" /\ head' = head + 1 /\ cpc' = "pop"
  /\ pops' = Append(pops, got) /\ got' = None
  /\ UNCHANGED <<tail, working_flag, cell, lock, pc, event, puts>>

(* mark_not_working: clear the flag, look at the size, and take the flag   *)
(* back if something was put in the meantime.                              *)
ClearFlag ==
  /\ cpc = "clear" /\ working_flag' = 0 /\ cpc' = "size"
  /\ UNCHANGED <<head, tail, cell, lock, pc, event, got, puts, pops>>

(* Mutant: the consumer sleeps without looking at the size again. *)
SizeIgnored ==
  /\ cpc = "size" /\ cpc' = "wait"
  /\ UNCHANGED <<head, tail, working_flag, cell, lock, pc, event, got, puts, pops>>

CheckSize ==
  /\ cpc = "size" /\ cpc' = IF tail - head = 0 THEN "wait" ELSE "set"
  /\ UNCHANGED <<head, tail, working_flag, cell, lock, pc, event, got, puts, pops>>

SetFlag ==
  /\ cpc = "set" /\ working_flag' = 1 /\ cpc' = "pop"
  /\ UNCHANGED <<head, tail, cell, lock, pc, event, got, puts, pops>>

Producer(p) ==
  PutBegin(p) \/ WriteElement(p) \/ StoreTail(p) \/ MarkWorking(p) \/ SendEvent(p)

Consumer ==
  Woken \/ PopCheck \/ PopRead \/ PopAdvance \/ ClearFlag \/ CheckSize \/ SetFlag

Next == (\E p \in Producers : Producer(p)) \/ Consumer

Spec == Init /\ [][Next]_vars

(* Every task that has begun a call goes on with it. *)
FairSpec ==
  /\ Spec /\ WF_vars(Consumer)
  /\ \A p \in Producers : WF_vars(WriteElement(p) \/ StoreTail(p) \/ MarkWorking(p) \/ SendEvent(p))

-----------------------------------------------------------------------------
(* Type correctness of the header, the elements and the tasks. *)
TypeOK ==
  /\ head \in Nat /\ tail \in Nat /\ working_flag \in 0..1 /\ event \in BOOLEAN
  /\ cell \in [0..(Cap - 1) -> Producers \union {None, "torn"}]
  /\ lock \in Producers \union {None}
  /\ pc \in [Producers -> {"idle", "full", "write", "store", "mark", "wake"}]
  /\ cpc \in {"wait", "pop", "read", "advance", "clear", "size", "set"}
  /\ got \in Producers \union {None, "torn"}

(* pop returns the elements put, whole and in the order of the puts: the   *)
(* bounds check keeps put away from elements pop has yet to read.          *)
Fifo ==
  /\ Len(pops) = head /\ Len(puts) = tail
  /\ \A i \in 1..Len(pops) : i <= Len(puts) /\ pops[i] = puts[i]

(* The consumer never sleeps on a queue with an element in it unless a     *)
(* wakeup is on its way: the event is pending, or a producer is about to   *)
(* claim the flag or to send the event.                                    *)
NoLostWakeup ==
  cpc = "wait" /\ tail > head =>
    event \/ \E p \in Producers : pc[p] \in {"mark", "wake"}

(* The flag is honest: while it is set the consumer is draining, or the    *)
(* producer that set it, and nobody else, has yet to wake the consumer.    *)
FlagIsHonest ==
  cpc \in {"wait", "size"} /\ working_flag = 1 => event \/ \E p \in Producers : pc[p] = "wake"

(* Every element put is popped, as long as the tasks keep running. *)
EveryPutIsPopped == \A n \in 1..MaxPos : tail >= n ~> head >= n

-----------------------------------------------------------------------------
(* The inductive invariant behind Fifo and NoLostWakeup. *)

HistoriesMatch ==
  /\ puts \in Seq(Producers) /\ pops \in Seq(Producers)
  /\ Fifo

Bounds == head <= tail /\ tail <= head + Cap

(* The lock's holder is the one producer inside put, and it has room. *)
LockHeld ==
  /\ \A p \in Producers : pc[p] \in {"write", "store"} <=> lock = p
  /\ lock # None => tail < head + Cap

(* The elements between head and tail are the ones put there. *)
CellsMatch ==
  /\ \A n \in head..(tail - 1) : cell[Index(n)] = puts[n + 1]
  /\ \A p \in Producers : pc[p] = "store" => cell[Index(tail)] = p

ConsumerHoldsHead ==
  /\ cpc \in {"read", "advance"} => head < tail
  /\ cpc = "advance" => got = puts[head + 1]

(* Asleep on an element with the flag clear: its producer has yet to look at the flag. *)
ClearFlagIsSeen ==
  cpc = "wait" /\ tail > head /\ working_flag = 0 => \E p \in Producers : pc[p] = "mark"

DataInv ==
  /\ TypeOK /\ HistoriesMatch /\ Bounds /\ LockHeld /\ CellsMatch /\ ConsumerHoldsHead

IndInv == DataInv /\ FlagIsHonest /\ ClearFlagIsSeen
=============================================================================
