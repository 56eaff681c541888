----------------------------- MODULE MpscProofs -----------------------------
(***************************************************************************)
(* The ring's safety for every capacity and every set of producers.        *)
(***************************************************************************)
EXTENDS Mpsc, TLAPS

(* A position decomposes uniquely into its lap and its slot. *)
LEMMA Decompose ==
  ASSUME NEW n \in Nat
  PROVE  /\ Lap(n) \in Nat /\ SlotOf(n) \in Slots
         /\ n = Cap * Lap(n) + SlotOf(n)
  BY CapAssumption DEF Lap, SlotOf, Slots, Mask

(* One lap later a position is back on its slot. *)
LEMMA NextLap ==
  ASSUME NEW n \in Nat
  PROVE  SlotOf(n + Cap) = SlotOf(n) /\ Lap(n + Cap) = Lap(n) + 1
  BY CapAssumption, SMTT(30) DEF Lap, SlotOf

(* Fewer than Cap positions apart, two positions have different slots. *)
LEMMA SlotsDiffer ==
  ASSUME NEW m \in Nat, NEW n \in Nat, m < n, n < m + Cap
  PROVE  SlotOf(m) # SlotOf(n)
<1>1. SUFFICES ASSUME SlotOf(m) = SlotOf(n) PROVE FALSE
  OBVIOUS
<1>2. n - m = Cap * (Lap(n) - Lap(m))
  BY <1>1, Decompose, CapAssumption DEF Slots, Mask
<1>3. Lap(n) - Lap(m) \in Int
  BY Decompose
<1>4. CASE Lap(n) - Lap(m) <= 0
  BY <1>2, <1>3, <1>4, CapAssumption, SMTT(30)
<1>5. CASE Lap(n) - Lap(m) >= 1
  BY <1>2, <1>3, <1>5, CapAssumption, SMTT(30)
<1> QED BY <1>3, <1>4, <1>5

-----------------------------------------------------------------------------
(* Every step of try_push and try_pop keeps the variables in their types. *)
LEMMA TypeStep ==
  ASSUME TypeOK, [Next]_vars PROVE TypeOK'
<1> USE DEF TypeOK, Goto
<1>1. ASSUME NEW p \in Producers, NEW v \in Values, LoadTail(p, v) PROVE TypeOK'
  BY <1>1 DEF LoadTail, consVars
<1>2. ASSUME NEW p \in Producers, CheckCache(p) PROVE TypeOK'
  BY <1>2 DEF CheckCache, consVars
<1>3. ASSUME NEW p \in Producers, LoadHead(p) PROVE TypeOK'
  BY <1>3 DEF LoadHead, consVars
<1>4. ASSUME NEW p \in Producers, StoreCache(p) PROVE TypeOK'
  BY <1>4 DEF StoreCache, Return, consVars
<1>5. ASSUME NEW p \in Producers, ClaimTail(p) PROVE TypeOK'
  BY <1>5 DEF ClaimTail, consVars
<1>6. ASSUME NEW p \in Producers, RetryTail(p) PROVE TypeOK'
  BY <1>6 DEF RetryTail, consVars
<1>7. ASSUME NEW p \in Producers, AwaitTurn(p) PROVE TypeOK'
  BY <1>7 DEF AwaitTurn, consVars
<1>8. ASSUME NEW p \in Producers, WritePayload(p) PROVE TypeOK'
  BY <1>8 DEF WritePayload, consVars
<1>9. ASSUME NEW p \in Producers, PublishTurn(p) PROVE TypeOK'
  <2>1. Lap(pos[p]) \in Nat /\ SlotOf(pos[p]) \in Slots
    BY Decompose
  <2> QED BY <1>9, <2>1 DEF PublishTurn, Return, Published, consVars
<1>10. CASE LoadTurn
  BY <1>10 DEF LoadTurn, prodVars
<1>11. CASE NotReady
  BY <1>11 DEF NotReady, prodVars
<1>12. CASE ReadPayload
  BY <1>12, Decompose DEF ReadPayload, prodVars
<1>13. CASE FreeSlot
  BY <1>13, Decompose DEF FreeSlot, prodVars
<1>14. CASE AdvanceHead
  BY <1>14 DEF AdvanceHead, prodVars
<1>15. CASE UNCHANGED vars
  BY <1>15 DEF vars, prodVars, consVars
<1> QED
  BY <1>1, <1>2, <1>3, <1>4, <1>5, <1>6, <1>7, <1>8, <1>9, <1>10, <1>11,
     <1>12, <1>13, <1>14, <1>15 DEF Next, try_push, try_pop

(* A step that leaves the ring, the claims and the consumer's place alone    *)
(* keeps the parts of the invariant that are about them.                     *)
LEMMA SameClaims ==
  ASSUME IndInv, UNCHANGED <<head, tail, turn, cpc>>,
         \A p \in Producers : InFlight(p)' <=> InFlight(p),
         \A p \in Producers : InFlight(p) => pos'[p] = pos[p]
  PROVE  ClaimsAreDistinct' /\ TurnsMatch' /\ ConsumerHoldsHead'
<1>1. ASSUME NEW n \in Nat PROVE Pending(n)' <=> Pending(n)
  BY DEF Pending
<1>2. ClaimsAreDistinct'
  BY DEF IndInv, ClaimsAreDistinct
<1>3. ASSUME NEW n \in head..(head + Mask) PROVE turn'[SlotOf(n)] = TurnOf(n)'
  <2>1. n \in Nat
    BY DEF IndInv, TypeOK
  <2>2. TurnOf(n)' = TurnOf(n)
    BY <1>1, <2>1 DEF TurnOf
  <2> QED BY <2>2 DEF IndInv, TurnsMatch
<1>4. TurnsMatch'
  BY <1>3 DEF TurnsMatch
<1>5. ConsumerHoldsHead'
  BY <1>1 DEF IndInv, ConsumerHoldsHead, TypeOK
<1> QED BY <1>2, <1>4, <1>5

(* The CAS on tail: the position is new, the ring has room for it, its turn  *)
(* is already Free.                                                          *)
LEMMA ClaimStep ==
  ASSUME IndInv, NEW p \in Producers, ClaimTail(p) PROVE IndInv'
<1> USE DEF IndInv
<1>1. TypeOK'
  BY TypeStep DEF Next, try_push
<1>2. /\ tail = pos[p] /\ tail' = tail + 1 /\ head' = head /\ turn' = turn
      /\ cpc' = cpc /\ pos' = pos /\ hd' = hd /\ head_cache' = head_cache
      /\ pc' = [pc EXCEPT ![p] = "wait"] /\ pc[p] = "cas"
  BY DEF ClaimTail, Goto, consVars
<1>3. tail < head + Cap
  BY <1>2 DEF LocalsAreSafe
<1>4. RingBounds'
  BY <1>2, <1>3, CapAssumption DEF RingBounds, TypeOK
<1>5. LocalsAreSafe'
  BY <1>2 DEF LocalsAreSafe, TypeOK, RingBounds, InFlight
<1>6. ClaimsAreDistinct'
  BY <1>2 DEF ClaimsAreDistinct, LocalsAreSafe, InFlight, TypeOK
<1>7. ASSUME NEW n \in Nat PROVE Pending(n)' <=> (Pending(n) \/ n = tail)
  BY <1>2 DEF Pending, InFlight, TypeOK
<1>8. TurnsMatch'
  <2>1. SUFFICES ASSUME NEW n \in head..(head + Mask)
                 PROVE  turn[SlotOf(n)] = TurnOf(n)'
    BY <1>2 DEF TurnsMatch
  <2>2. n \in Nat /\ turn[SlotOf(n)] = TurnOf(n)
    BY DEF TypeOK, TurnsMatch
  <2> QED BY <1>2, <1>7, <2>2 DEF TurnOf, TypeOK
<1>9. ConsumerHoldsHead'
  BY <1>2, <1>7 DEF ConsumerHoldsHead, TypeOK
<1> QED BY <1>1, <1>4, <1>5, <1>6, <1>8, <1>9

(* Publishing the turn of a claimed position ends the claim. *)
LEMMA PublishStep ==
  ASSUME IndInv, NEW p \in Producers, PublishTurn(p) PROVE IndInv'
<1> USE DEF IndInv
<1>1. TypeOK'
  BY TypeStep DEF Next, try_push
<1>2. /\ tail' = tail /\ head' = head /\ cpc' = cpc /\ hd' = hd
      /\ head_cache' = head_cache
      /\ turn' = [turn EXCEPT ![SlotOf(pos[p])] = Published(pos[p])]
      /\ pos' = [pos EXCEPT ![p] = 0]
      /\ pc' = [pc EXCEPT ![p] = "idle"] /\ pc[p] = "publish"
  BY DEF PublishTurn, Return, Goto, consVars
<1>3. pos[p] \in Nat /\ head <= pos[p] /\ pos[p] < tail /\ InFlight(p)
  BY <1>2 DEF LocalsAreSafe, InFlight, TypeOK
<1>4. RingBounds'
  BY <1>2 DEF RingBounds
<1>5. LocalsAreSafe'
  BY <1>2 DEF LocalsAreSafe, TypeOK, InFlight
<1>6. ClaimsAreDistinct'
  BY <1>2 DEF ClaimsAreDistinct, InFlight, TypeOK
<1>7. ASSUME NEW n \in Nat PROVE Pending(n)' <=> (Pending(n) /\ n # pos[p])
  BY <1>2, <1>3 DEF Pending, InFlight, TypeOK, ClaimsAreDistinct
<1>8. ~ (pos[p] = head /\ cpc = "advance")
  BY <1>3 DEF ConsumerHoldsHead, Pending
<1>9. TurnsMatch'
  <2>1. SUFFICES ASSUME NEW n \in head..(head + Mask)
                 PROVE  turn'[SlotOf(n)] = TurnOf(n)'
    BY <1>2 DEF TurnsMatch
  <2>2. n \in Nat /\ turn[SlotOf(n)] = TurnOf(n)
    BY DEF TypeOK, TurnsMatch
  <2>3. CASE n = pos[p]
    <3>1. TurnOf(n)' = Published(n)
      BY <1>2, <1>3, <1>7, <1>8, <2>2, <2>3 DEF TurnOf, TypeOK
    <3>2. turn'[SlotOf(n)] = Published(n)
      BY <1>2, <2>2, <2>3, Decompose DEF TypeOK
    <3> QED BY <3>1, <3>2
  <2>4. CASE n # pos[p]
    <3>1. SlotOf(n) # SlotOf(pos[p])
      <4>1. pos[p] < n + Cap /\ n < pos[p] + Cap
        BY <1>3, <2>2, CapAssumption DEF RingBounds, TypeOK, Mask
      <4> QED BY <1>3, <2>2, <2>4, <4>1, SlotsDiffer
    <3>2. turn'[SlotOf(n)] = turn[SlotOf(n)]
      BY <1>2, <2>2, <3>1, Decompose DEF TypeOK
    <3>3. TurnOf(n)' = TurnOf(n)
      BY <1>2, <1>7, <2>2, <2>4 DEF TurnOf
    <3> QED BY <2>2, <3>2, <3>3
  <2> QED BY <2>3, <2>4
<1>10. ConsumerHoldsHead'
  BY <1>2, <1>7 DEF ConsumerHoldsHead, TypeOK
<1> QED BY <1>1, <1>4, <1>5, <1>6, <1>9, <1>10

(* The head store: one position leaves, the one a lap later comes into view. *)
LEMMA AdvanceStep ==
  ASSUME IndInv, AdvanceHead PROVE IndInv'
<1> USE DEF IndInv
<1>1. TypeOK'
  BY TypeStep DEF Next, try_pop
<1>2. /\ cpc = "advance" /\ cpc' = "idle" /\ head' = head + 1 /\ tail' = tail
      /\ turn' = turn /\ head_cache' = head_cache
      /\ pc' = pc /\ pos' = pos /\ hd' = hd
  BY DEF AdvanceHead, prodVars
<1>3. head < tail /\ ~ Pending(head)
  BY <1>2 DEF ConsumerHoldsHead
<1>4. RingBounds'
  BY <1>2, <1>3, CapAssumption DEF RingBounds, TypeOK
<1>5. LocalsAreSafe'
  BY <1>2, <1>3, CapAssumption DEF LocalsAreSafe, TypeOK, Pending, InFlight
<1>6. ClaimsAreDistinct'
  BY <1>2 DEF ClaimsAreDistinct, InFlight
<1>7. ASSUME NEW n \in Nat PROVE Pending(n)' <=> Pending(n)
  BY <1>2 DEF Pending, InFlight
<1>8. TurnsMatch'
  <2>1. SUFFICES ASSUME NEW n \in (head + 1)..(head + 1 + Mask)
                 PROVE  turn[SlotOf(n)] = TurnOf(n)'
    BY <1>2 DEF TurnsMatch
  <2>2. n \in Nat
    BY DEF TypeOK
  <2>3. CASE n \in head..(head + Mask)
    <3>1. turn[SlotOf(n)] = TurnOf(n)
      BY <2>3 DEF TurnsMatch
    <3> QED BY <1>2, <1>7, <2>1, <2>2, <3>1 DEF TurnOf, TypeOK
  <2>4. CASE n = head + Cap
    <3>1. turn[SlotOf(head)] = Free(head) + 2
      <4>1. head \in head..(head + Mask)
        BY CapAssumption DEF TypeOK, Mask
      <4> QED BY <1>2, <1>3, <4>1 DEF TurnsMatch, TurnOf, TypeOK
    <3>2. turn[SlotOf(n)] = Free(n)
      BY <2>4, <3>1, NextLap, Decompose DEF Free, TypeOK
    <3>3. n >= tail
      BY <2>4 DEF RingBounds, TypeOK
    <3> QED BY <1>2, <3>2, <3>3 DEF TurnOf
  <2> QED BY <2>1, <2>3, <2>4, CapAssumption DEF TypeOK, Mask
<1>9. ConsumerHoldsHead'
  BY <1>2 DEF ConsumerHoldsHead
<1> QED BY <1>1, <1>4, <1>5, <1>6, <1>8, <1>9

(* The other steps of try_pop touch at most the turn of the head slot. *)
LEMMA ConsumerStep ==
  ASSUME IndInv, LoadTurn \/ NotReady \/ ReadPayload \/ FreeSlot PROVE IndInv'
<1> USE DEF IndInv
<1>1. TypeOK'
  BY TypeStep DEF Next, try_pop
<1>2. /\ head' = head /\ tail' = tail /\ head_cache' = head_cache
      /\ pc' = pc /\ pos' = pos /\ hd' = hd
  BY DEF LoadTurn, NotReady, ReadPayload, FreeSlot, prodVars
<1>3. RingBounds' /\ LocalsAreSafe' /\ ClaimsAreDistinct'
  BY <1>2 DEF RingBounds, LocalsAreSafe, ClaimsAreDistinct, InFlight
<1>4. \A n \in Nat : Pending(n)' <=> Pending(n)
  BY <1>2 DEF Pending, InFlight
<1>5. head \in head..(head + Mask) /\ head \in Nat
  BY CapAssumption DEF TypeOK, Mask
<1>6. ConsumerHoldsHead'
  <2>1. CASE LoadTurn /\ cpc' = "read"
    <3>1. turn[SlotOf(head)] = Published(head) /\ cpc # "advance"
      BY <2>1 DEF LoadTurn
    <3>2. turn[SlotOf(head)] = TurnOf(head)
      BY <1>5 DEF TurnsMatch
    <3>3. Published(head) # Free(head)
      BY <1>5, Decompose DEF Published, Free
    <3>4. head < tail /\ ~ Pending(head)
      BY <3>1, <3>2, <3>3 DEF TurnOf, TypeOK
    <3> QED BY <1>2, <1>4, <3>4 DEF ConsumerHoldsHead, TypeOK
  <2>2. CASE (LoadTurn /\ cpc' # "read") \/ NotReady
    BY <2>2 DEF LoadTurn, NotReady, ConsumerHoldsHead
  <2>3. CASE ReadPayload \/ FreeSlot
    BY <1>2, <1>4, <2>3 DEF ReadPayload, FreeSlot, ConsumerHoldsHead, TypeOK
  <2> QED BY <2>1, <2>2, <2>3
<1>7. TurnsMatch'
  <2>1. SUFFICES ASSUME NEW n \in head..(head + Mask)
                 PROVE  turn'[SlotOf(n)] = TurnOf(n)'
    BY <1>2 DEF TurnsMatch
  <2>2. n \in Nat /\ turn[SlotOf(n)] = TurnOf(n)
    BY DEF TypeOK, TurnsMatch
  <2>3. CASE LoadTurn \/ NotReady \/ ReadPayload
    <3>1. turn' = turn /\ (cpc = "advance" <=> cpc' = "advance")
      BY <2>3 DEF LoadTurn, NotReady, ReadPayload
    <3> QED BY <1>2, <1>4, <2>2, <3>1 DEF TurnOf
  <2>4. CASE FreeSlot
    <3>1. /\ turn' = [turn EXCEPT ![SlotOf(head)] = 2 * (Lap(head) + 1)]
          /\ cpc = "free" /\ cpc' = "advance"
      BY <2>4 DEF FreeSlot
    <3>2. head < tail /\ ~ Pending(head)
      BY <3>1 DEF ConsumerHoldsHead
    <3>3. CASE n = head
      <4>1. TurnOf(n)' = Free(n) + 2
        BY <1>2, <1>4, <2>2, <3>1, <3>2, <3>3 DEF TurnOf, TypeOK
      <4> QED BY <2>2, <3>1, <3>3, <4>1, Decompose DEF Free, TypeOK
    <3>4. CASE n # head
      <4>1. SlotOf(n) # SlotOf(head)
        BY <1>5, <2>2, <3>4, SlotsDiffer, CapAssumption DEF Mask
      <4>2. turn'[SlotOf(n)] = turn[SlotOf(n)]
        BY <1>5, <2>2, <3>1, <4>1, Decompose DEF TypeOK
      <4>3. TurnOf(n)' = TurnOf(n)
        BY <1>2, <1>4, <2>2, <3>4 DEF TurnOf
      <4> QED BY <2>2, <4>2, <4>3
    <3> QED BY <3>3, <3>4
  <2> QED BY <2>3, <2>4
<1> QED BY <1>1, <1>3, <1>6, <1>7

(* try_push's steps before its claim and its payload write change only the   *)
(* producer's locals, head_cache and the payload bytes.                      *)
LEMMA LocalStep ==
  ASSUME IndInv, NEW p \in Producers,
         \/ \E v \in Values : LoadTail(p, v)
         \/ CheckCache(p) \/ LoadHead(p) \/ StoreCache(p) \/ RetryTail(p)
         \/ AwaitTurn(p) \/ WritePayload(p)
  PROVE  IndInv'
<1> USE DEF IndInv
<1>1. TypeOK'
  BY TypeStep DEF Next, try_push
<1>2. UNCHANGED <<head, tail, turn, cpc>>
  BY DEF LoadTail, CheckCache, LoadHead, StoreCache, RetryTail, AwaitTurn,
         WritePayload, consVars
<1>3. /\ \A q \in Producers : InFlight(q)' <=> InFlight(q)
      /\ \A q \in Producers : InFlight(q) => pos'[q] = pos[q]
  BY DEF LoadTail, CheckCache, LoadHead, StoreCache, RetryTail, AwaitTurn,
         WritePayload, Return, Goto, InFlight, TypeOK
<1>4. ClaimsAreDistinct' /\ TurnsMatch' /\ ConsumerHoldsHead'
  BY <1>2, <1>3, SameClaims
<1>5. RingBounds'
  BY <1>2 DEF RingBounds, LocalsAreSafe, LoadTail, CheckCache, LoadHead,
              StoreCache, RetryTail, AwaitTurn, WritePayload
<1>6. LocalsAreSafe'
  <2>1. CASE CheckCache(p)
    BY <1>2, <2>1, CapAssumption
    DEF CheckCache, Goto, LocalsAreSafe, RingBounds, TypeOK, InFlight,
        ExceedsMask, Mask
  <2>2. CASE StoreCache(p)
    BY <1>2, <2>2, CapAssumption
    DEF StoreCache, Return, Goto, LocalsAreSafe, RingBounds, TypeOK, InFlight,
        ExceedsMask, Mask
  <2>3. CASE \/ \E v \in Values : LoadTail(p, v)
             \/ LoadHead(p) \/ RetryTail(p) \/ AwaitTurn(p) \/ WritePayload(p)
    BY <1>2, <2>3 DEF LoadTail, LoadHead, RetryTail, AwaitTurn, WritePayload,
                      Goto, LocalsAreSafe, TypeOK, InFlight
  <2> QED BY <2>1, <2>2, <2>3
<1> QED BY <1>1, <1>4, <1>5, <1>6

(* The inductive invariant of the ring. *)
LEMMA Inductive ==
  Spec => []IndInv
<1>1. Init => IndInv
  <2>1. SUFFICES ASSUME Init PROVE IndInv
    OBVIOUS
  <2>2. TypeOK
    BY <2>1, CapAssumption DEF Init, TypeOK
  <2>3. RingBounds /\ LocalsAreSafe /\ ClaimsAreDistinct /\ ConsumerHoldsHead
    BY <2>1, CapAssumption DEF Init, RingBounds, LocalsAreSafe,
                               ClaimsAreDistinct, ConsumerHoldsHead, InFlight
  <2>4. ASSUME NEW n \in head..(head + Mask) PROVE turn[SlotOf(n)] = TurnOf(n)
    <3>1. n \in Nat /\ n < Cap
      BY <2>1, CapAssumption DEF Init, Mask
    <3>2. Lap(n) = 0
      BY <3>1, CapAssumption DEF Lap
    <3> QED BY <2>1, <3>1, <3>2, Decompose DEF Init, TurnOf, Free
  <2> QED BY <2>2, <2>3, <2>4 DEF IndInv, TurnsMatch
<1>2. IndInv /\ [Next]_vars => IndInv'
  <2>1. SUFFICES ASSUME IndInv, [Next]_vars PROVE IndInv'
    OBVIOUS
  <2>2. CASE UNCHANGED vars
    BY <2>1, <2>2 DEF vars, prodVars, consVars, IndInv, TypeOK, RingBounds,
       LocalsAreSafe, ClaimsAreDistinct, TurnsMatch, TurnOf, Pending, InFlight,
       ConsumerHoldsHead
  <2>3. ASSUME NEW p \in Producers, try_push(p) PROVE IndInv'
    BY <2>1, <2>3, LocalStep, ClaimStep, PublishStep DEF try_push
  <2>4. CASE try_pop
    BY <2>1, <2>4, ConsumerStep, AdvanceStep DEF try_pop
  <2> QED BY <2>1, <2>2, <2>3, <2>4 DEF Next
<1> QED BY <1>1, <1>2, PTL DEF Spec

-----------------------------------------------------------------------------
(* The variables of try_push and try_pop keep their types. *)
THEOREM TypeCorrect == Spec => []TypeOK
  BY Inductive, PTL DEF IndInv

(* try_push never claims more than Cap positions, however stale head_cache   *)
(* is, and head_cache never overstates head.                                 *)
THEOREM BoundsHold == Spec => []RingBounds
  BY Inductive, PTL DEF IndInv

(* A claimed slot is already free for its lap: try_push's spin never waits. *)
THEOREM SpinNeverWaits == Spec => []ClaimedSlotIsFree
<1>1. IndInv => ClaimedSlotIsFree
  <2>1. SUFFICES ASSUME IndInv, NEW p \in Producers, pc[p] = "wait"
                 PROVE  turn[SlotOf(pos[p])] = Free(pos[p])
    BY DEF ClaimedSlotIsFree
  <2>2. InFlight(p) /\ pos[p] \in Nat
    BY <2>1 DEF InFlight, IndInv, TypeOK
  <2>3. pos[p] \in head..(head + Mask)
    BY <2>1, <2>2, CapAssumption DEF IndInv, LocalsAreSafe, RingBounds, TypeOK, Mask
  <2>4. Pending(pos[p])
    BY <2>2 DEF Pending
  <2> QED BY <2>1, <2>3, <2>4 DEF IndInv, TurnsMatch, TurnOf
<1> QED BY <1>1, Inductive, PTL

(* No two threads ever access one slot's payload together. *)
THEOREM PayloadRaceFree == Spec => []NoSlotRace
<1>1. IndInv => NoSlotRace
  <2>1. SUFFICES ASSUME IndInv, NEW p \in Producers, pc[p] = "write"
                 PROVE  /\ \A q \in Producers \ {p} :
                             pc[q] = "write" => SlotOf(pos[q]) # SlotOf(pos[p])
                        /\ cpc = "read" => SlotOf(head) # SlotOf(pos[p])
    BY DEF NoSlotRace
  <2>2. ASSUME NEW q \in Producers, pc[q] = "write"
        PROVE  /\ InFlight(q) /\ pos[q] \in Nat
               /\ head <= pos[q] /\ pos[q] < head + Cap
    BY <2>1, <2>2, CapAssumption
    DEF IndInv, InFlight, LocalsAreSafe, RingBounds, TypeOK
  <2>3. ASSUME NEW m \in Nat, NEW n \in Nat, m # n, head <= m, m < head + Cap,
               head <= n, n < head + Cap
        PROVE  SlotOf(m) # SlotOf(n)
    BY <2>1, <2>3, SlotsDiffer, CapAssumption DEF IndInv, TypeOK
  <2>4. ASSUME NEW q \in Producers \ {p}, pc[q] = "write"
        PROVE  SlotOf(pos[q]) # SlotOf(pos[p])
    BY <2>1, <2>2, <2>3, <2>4 DEF IndInv, ClaimsAreDistinct
  <2>5. ASSUME cpc = "read" PROVE SlotOf(head) # SlotOf(pos[p])
    <3>1. head # pos[p] /\ head \in Nat /\ head < head + Cap
      BY <2>1, <2>2, <2>5, CapAssumption DEF IndInv, ConsumerHoldsHead, Pending, TypeOK
    <3> QED BY <2>1, <2>2, <2>3, <3>1 DEF IndInv, TypeOK
  <2> QED BY <2>4, <2>5
<1> QED BY <1>1, Inductive, PTL
=============================================================================
