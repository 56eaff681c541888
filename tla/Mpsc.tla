-------------------------------- MODULE Mpsc --------------------------------
(***************************************************************************)
(* The multi-producer, single-consumer ring of v5/mpsc.rs, one action per  *)
(* access to a shared word.                                                *)
(*                                                                         *)
(* Producers share one mapping, and with it one head_cache.  pc[p] says    *)
(* which line of try_push producer p runs next, or how the last call ended *)
(* ("idle" after true, "full" after false); cpc does so for try_pop.       *)
(* Positions are u64 and never wrap in practice, so tail and head are      *)
(* naturals; wrapping_sub on a stale tail does wrap, see ExceedsMask.      *)
(***************************************************************************)
EXTENDS Integers, Sequences

CONSTANTS
  Producers,  \* the threads that call try_push
  Values,     \* the payloads
  Cap,        \* slots of the ring: mask + 1
  MaxPos,     \* no push starts once this many positions are claimed
  None

ASSUME CapAssumption == Cap \in Nat \ {0}
ASSUME MaxPosAssumption == MaxPos \in Nat
ASSUME NoneAssumption == None \notin Producers /\ None \notin Values

VARIABLES
  head, tail,  \* MpscHeader
  turn,        \* the turn counter of each slot
  slot,        \* the payload bytes of each slot
  head_cache,  \* the newest head a push has stored, private to the producers' mapping
  pc,          \* where each producer is in try_push
  pos,         \* its local tail, then the position it claimed
  hd,          \* its local head
  val,         \* the value it pushes
  cpc,         \* where the consumer is in try_pop
  got,         \* the value the consumer read from the head slot
  popped       \* the value try_pop returned last

prodVars == <<pc, pos, hd, val>>
consVars == <<cpc, got, popped>>
vars == <<head, tail, turn, slot, head_cache, prodVars, consVars>>

Mask == Cap - 1
Slots == 0..Mask

(* slot_ptr: the slot of a position, position & mask (Cap is a power of 2 in the code). *)
SlotOf(position) == position % Cap

(* turn: the lap of a position. *)
Lap(position) == position \div Cap

Free(position) == 2 * Lap(position)
Published(position) == 2 * Lap(position) + 1

(* Mutant: room for one position too many. *)
ExceedsCap(t, h) == t - h \notin 0..Cap

(* t.wrapping_sub(h) > mask on u64: a stale t behind h wraps to a huge difference. *)
ExceedsMask(t, h) == t - h \notin 0..Mask

(* `new` zeroes the mapping: positions, turns and payloads all start at zero. *)
Init ==
  /\ head = 0 /\ tail = 0
  /\ turn = [s \in Slots |-> 0]
  /\ slot = [s \in Slots |-> None]
  /\ head_cache = 0
  /\ pc = [p \in Producers |-> "idle"]
  /\ pos = [p \in Producers |-> 0]
  /\ hd = [p \in Producers |-> 0]
  /\ val = [p \in Producers |-> None]
  /\ cpc = "idle" /\ got = None /\ popped = None

-----------------------------------------------------------------------------
(* try_push *)

Goto(p, l) == pc' = [pc EXCEPT ![p] = l]

(* The call returns and its locals are gone. *)
Return(p, l) ==
  /\ Goto(p, l)
  /\ pos' = [pos EXCEPT ![p] = 0]
  /\ val' = [val EXCEPT ![p] = None]

(* The call: loads tail. *)
LoadTail(p, v) ==
  /\ pc[p] \in {"idle", "full"}
  /\ tail < MaxPos
  /\ Goto(p, "check")
  /\ val' = [val EXCEPT ![p] = v]
  /\ pos' = [pos EXCEPT ![p] = tail]
  /\ UNCHANGED <<head, tail, turn, slot, head_cache, hd, consVars>>

(* The ring is compared with the cached head first. *)
CheckCache(p) ==
  /\ pc[p] = "check"
  /\ Goto(p, IF ExceedsMask(pos[p], head_cache) THEN "reload" ELSE "cas")
  /\ UNCHANGED <<head, tail, turn, slot, head_cache, pos, hd, val, consVars>>

LoadHead(p) ==
  /\ pc[p] = "reload"
  /\ hd' = [hd EXCEPT ![p] = head]
  /\ Goto(p, "store")
  /\ UNCHANGED <<head, tail, turn, slot, head_cache, pos, val, consVars>>

(* Stores the copy; returns false if the ring is full against the loaded head. *)
StoreCache(p) ==
  /\ pc[p] = "store"
  /\ head_cache' = hd[p]
  /\ hd' = [hd EXCEPT ![p] = 0]
  /\ IF ExceedsMask(pos[p], hd[p])
     THEN Return(p, "full")
     ELSE Goto(p, "cas") /\ UNCHANGED <<pos, val>>
  /\ UNCHANGED <<head, tail, turn, slot, consVars>>

(* compare_exchange_weak succeeds: the position is claimed. *)
ClaimTail(p) ==
  /\ pc[p] = "cas"
  /\ tail = pos[p]
  /\ tail' = tail + 1
  /\ Goto(p, "wait")
  /\ UNCHANGED <<head, turn, slot, head_cache, pos, hd, val, consVars>>

(* It fails, because tail moved or spuriously: loop with the current tail. *)
RetryTail(p) ==
  /\ pc[p] = "cas"
  /\ pos' = [pos EXCEPT ![p] = tail]
  /\ Goto(p, "check")
  /\ UNCHANGED <<head, tail, turn, slot, head_cache, hd, val, consVars>>

(* The spin on the slot's turn, left once the slot is writable. *)
AwaitTurn(p) ==
  /\ pc[p] = "wait"
  /\ turn[SlotOf(pos[p])] = Free(pos[p])
  /\ Goto(p, "write")
  /\ UNCHANGED <<head, tail, turn, slot, head_cache, pos, hd, val, consVars>>

WritePayload(p) ==
  /\ pc[p] = "write"
  /\ slot' = [slot EXCEPT ![SlotOf(pos[p])] = val[p]]
  /\ Goto(p, "publish")
  /\ UNCHANGED <<head, tail, turn, head_cache, pos, hd, val, consVars>>

(* Mutant: the published turn is one lap ahead. *)
PublishNextLap(p) ==
  /\ pc[p] = "publish"
  /\ turn' = [turn EXCEPT ![SlotOf(pos[p])] = Published(pos[p]) + 2]
  /\ Return(p, "idle")
  /\ UNCHANGED <<head, tail, slot, head_cache, hd, consVars>>

PublishTurn(p) ==
  /\ pc[p] = "publish"
  /\ turn' = [turn EXCEPT ![SlotOf(pos[p])] = Published(pos[p])]
  /\ Return(p, "idle")
  /\ UNCHANGED <<head, tail, slot, head_cache, hd, consVars>>

-----------------------------------------------------------------------------
(* try_pop: head is written by the consumer alone, so its load is stable. *)

(* Mutant: any claimed head is taken, published or not. *)
LoadTailOnly ==
  /\ cpc \in {"idle", "Empty", "HeadNotReady"}
  /\ cpc' = IF head # tail THEN "read" ELSE "tail"
  /\ UNCHANGED <<head, tail, turn, slot, head_cache, prodVars, got, popped>>

LoadTurn ==
  /\ cpc \in {"idle", "Empty", "HeadNotReady"}
  /\ cpc' = IF turn[SlotOf(head)] = Published(head) THEN "read" ELSE "tail"
  /\ UNCHANGED <<head, tail, turn, slot, head_cache, prodVars, got, popped>>

(* Not published: tail tells an unclaimed head from one being filled. *)
NotReady ==
  /\ cpc = "tail"
  /\ cpc' = IF head = tail THEN "Empty" ELSE "HeadNotReady"
  /\ UNCHANGED <<head, tail, turn, slot, head_cache, prodVars, got, popped>>

ReadPayload ==
  /\ cpc = "read"
  /\ got' = slot[SlotOf(head)]
  /\ cpc' = "free"
  /\ UNCHANGED <<head, tail, turn, slot, head_cache, prodVars, popped>>

(* The slot is released for the next lap before head moves. *)
FreeSlot ==
  /\ cpc = "free"
  /\ turn' = [turn EXCEPT ![SlotOf(head)] = 2 * (Lap(head) + 1)]
  /\ cpc' = "advance"
  /\ UNCHANGED <<head, tail, slot, head_cache, prodVars, got, popped>>

AdvanceHead ==
  /\ cpc = "advance"
  /\ head' = head + 1
  /\ popped' = got
  /\ got' = None
  /\ cpc' = "idle"
  /\ UNCHANGED <<tail, turn, slot, head_cache, prodVars>>

-----------------------------------------------------------------------------
try_push(p) ==
  \/ \E v \in Values : LoadTail(p, v)
  \/ CheckCache(p) \/ LoadHead(p) \/ StoreCache(p)
  \/ ClaimTail(p) \/ RetryTail(p)
  \/ AwaitTurn(p) \/ WritePayload(p) \/ PublishTurn(p)

try_pop == LoadTurn \/ NotReady \/ ReadPayload \/ FreeSlot \/ AdvanceHead

Next == (\E p \in Producers : try_push(p)) \/ try_pop

Spec == Init /\ [][Next]_vars

(* Every thread keeps running; a spurious CAS failure does not repeat forever. *)
Fairness ==
  /\ \A p \in Producers :
       /\ WF_vars(CheckCache(p) \/ LoadHead(p) \/ StoreCache(p))
       /\ WF_vars(ClaimTail(p) \/ RetryTail(p))
       /\ SF_vars(ClaimTail(p))
       /\ WF_vars(AwaitTurn(p) \/ WritePayload(p) \/ PublishTurn(p))
  /\ WF_vars(try_pop)

FairSpec == Spec /\ Fairness

-----------------------------------------------------------------------------
(* Properties *)

(* Type correctness of the ring's words and of each thread's locals. *)
TypeOK ==
  /\ head \in Nat /\ tail \in Nat /\ head_cache \in Nat
  /\ turn \in [Slots -> Nat]
  /\ slot \in [Slots -> Values \union {None}]
  /\ pc \in [Producers -> {"idle", "full", "check", "reload", "store", "cas",
                           "wait", "write", "publish"}]
  /\ pos \in [Producers -> Nat]
  /\ hd \in [Producers -> Nat]
  /\ val \in [Producers -> Values \union {None}]
  /\ cpc \in {"idle", "Empty", "HeadNotReady", "tail", "read", "free", "advance"}
  /\ got \in Values \union {None}
  /\ popped \in Values \union {None}

(* Producer p holds a claimed position that it has not published. *)
InFlight(p) == pc[p] \in {"wait", "write", "publish"}

(* The check against head_cache, which is stale and can even move backwards  *)
(* when two pushes store it, never lets try_push claim more than Cap         *)
(* positions, and the copy never overstates head.                            *)
RingBounds == head <= tail /\ tail <= head + Cap /\ head_cache <= head

(* try_push's spin never waits: because try_pop releases the slot before it  *)
(* moves head, a claimed position's slot is already free for its lap.        *)
ClaimedSlotIsFree ==
  \A p \in Producers : pc[p] = "wait" => turn[SlotOf(pos[p])] = Free(pos[p])

(* The unsynchronised payload accesses of try_push and try_pop never meet:   *)
(* no two producers write one slot, and none writes the slot being read.     *)
NoSlotRace ==
  \A p \in Producers : pc[p] = "write" =>
    /\ \A q \in Producers \ {p} : pc[q] = "write" => SlotOf(pos[q]) # SlotOf(pos[p])
    /\ cpc = "read" => SlotOf(head) # SlotOf(pos[p])

(* The inductive invariant behind the properties above. *)
Pending(n) == \E p \in Producers : InFlight(p) /\ pos[p] = n

(* What a producer read is still good enough when it acts on it. *)
LocalsAreSafe ==
  \A p \in Producers :
    /\ pc[p] = "store" => hd[p] <= head
    /\ pc[p] = "cas" => pos[p] < head + Cap
    /\ InFlight(p) => head <= pos[p] /\ pos[p] < tail

ClaimsAreDistinct ==
  \A p, q \in Producers : InFlight(p) /\ InFlight(q) /\ pos[p] = pos[q] => p = q

(* The turn of each of the Cap positions from head on, by the state of the position. *)
TurnOf(n) ==
  IF n >= tail \/ Pending(n) THEN Free(n)
  ELSE IF n = head /\ cpc = "advance" THEN Free(n) + 2
  ELSE Published(n)

TurnsMatch == \A n \in head..(head + Mask) : turn[SlotOf(n)] = TurnOf(n)

ConsumerHoldsHead ==
  cpc \in {"read", "free", "advance"} => head < tail /\ ~ Pending(head)

IndInv ==
  /\ TypeOK /\ RingBounds /\ LocalsAreSafe /\ ClaimsAreDistinct
  /\ TurnsMatch /\ ConsumerHoldsHead

(* For the refinement: the payload a thread holds is the one in the slot. *)
PayloadsMatch ==
  /\ \A p \in Producers :
       /\ pc[p] \notin {"idle", "full"} => val[p] \in Values
       /\ pc[p] = "publish" => slot[SlotOf(pos[p])] = val[p]
  /\ cpc \in {"free", "advance"} => got = slot[SlotOf(head)]

(* The positions between head and tail as ClaimQueue sees them. *)
Entry(n) ==
  IF \E p \in Producers : InFlight(p) /\ pos[p] = n
  THEN LET p == CHOOSE p \in Producers : InFlight(p) /\ pos[p] = n
       IN  [val |-> val[p], by |-> p]
  ELSE [val |-> slot[SlotOf(n)], by |-> None]

Claimed == [i \in 1..(tail - head) |-> Entry(head + i - 1)]

Abstract == INSTANCE ClaimQueue WITH claims <- Claimed, out <- popped

(* try_push and try_pop implement the bounded claim queue: a push takes      *)
(* effect when its CAS claims a position, values leave in claim order, each  *)
(* exactly once and unchanged, and none is taken before it is published.     *)
ImplementsClaimQueue == Abstract!QSpec

(* Everything try_push claims is popped, as long as the threads keep running *)
(* and the consumer keeps calling try_pop.                                   *)
EveryClaimIsPopped == \A n \in 1..MaxPos : tail >= n ~> head >= n
=============================================================================
