--------------------------- MODULE MpscRefinement ---------------------------
(***************************************************************************)
(* The ring implements the bounded claim queue, for every capacity.        *)
(***************************************************************************)
EXTENDS MpscProofs, SequenceTheorems

(* Payload writes stay out of the slots other threads are using. *)
LEMMA PayloadStep ==
  ASSUME IndInv, PayloadsMatch, [Next]_vars PROVE PayloadsMatch'
<1> USE DEF PayloadsMatch, Goto
<1>1. TypeOK /\ head \in Nat
  BY DEF IndInv, TypeOK
<1>2. ASSUME NEW p \in Producers,
             \/ \E v \in Values : LoadTail(p, v)
             \/ CheckCache(p) \/ LoadHead(p) \/ RetryTail(p)
             \/ AwaitTurn(p) \/ ClaimTail(p)
      PROVE  PayloadsMatch'
  BY <1>1, <1>2 DEF LoadTail, CheckCache, LoadHead, RetryTail, AwaitTurn,
                    ClaimTail, TypeOK, consVars
<1>3. ASSUME NEW p \in Producers, StoreCache(p) \/ PublishTurn(p)
      PROVE  PayloadsMatch'
  BY <1>1, <1>3 DEF StoreCache, PublishTurn, Return, TypeOK, consVars
<1>4. ASSUME NEW p \in Producers, WritePayload(p) PROVE PayloadsMatch'
  <2>1. /\ pc[p] = "write" /\ pc' = [pc EXCEPT ![p] = "publish"]
        /\ slot' = [slot EXCEPT ![SlotOf(pos[p])] = val[p]]
        /\ pos' = pos /\ val' = val /\ cpc' = cpc /\ got' = got /\ head' = head
    BY <1>4 DEF WritePayload, consVars
  <2>2. ASSUME NEW m \in Nat, NEW n \in Nat, m # n, head <= m, m < head + Cap,
               head <= n, n < head + Cap
        PROVE  SlotOf(m) # SlotOf(n)
    BY <1>1, <2>2, SlotsDiffer, CapAssumption
  <2>3. ASSUME NEW q \in Producers, InFlight(q)
        PROVE  pos[q] \in Nat /\ head <= pos[q] /\ pos[q] < head + Cap
    BY <1>1, <2>3, CapAssumption DEF IndInv, LocalsAreSafe, RingBounds, TypeOK
  <2>4. InFlight(p) /\ SlotOf(pos[p]) \in Slots
    BY <2>1, <2>3, Decompose DEF InFlight
  <2>5. ASSUME NEW q \in Producers, pc'[q] = "publish"
        PROVE  slot'[SlotOf(pos'[q])] = val'[q]
    <3>1. CASE q = p
      BY <1>1, <2>1, <2>4, <3>1 DEF TypeOK
    <3>2. CASE q # p
      <4>1. InFlight(q) /\ pos[q] # pos[p] /\ pc[q] = "publish"
        BY <1>1, <2>1, <2>4, <2>5, <3>2 DEF InFlight, IndInv, ClaimsAreDistinct, TypeOK
      <4>2. SlotOf(pos[q]) # SlotOf(pos[p]) /\ SlotOf(pos[q]) \in Slots
        BY <2>2, <2>3, <2>4, <4>1, Decompose
      <4> QED BY <1>1, <2>1, <4>1, <4>2 DEF TypeOK
    <3> QED BY <3>1, <3>2
  <2>6. ASSUME cpc \in {"free", "advance"} PROVE slot'[SlotOf(head)] = slot[SlotOf(head)]
    <3>1. head # pos[p] /\ head < head + Cap
      BY <1>1, <2>4, <2>6, CapAssumption DEF IndInv, ConsumerHoldsHead, Pending
    <3>2. SlotOf(head) # SlotOf(pos[p]) /\ SlotOf(head) \in Slots
      BY <1>1, <2>2, <2>3, <2>4, <3>1, Decompose
    <3> QED BY <1>1, <2>1, <3>2 DEF TypeOK
  <2>7. \A q \in Producers : pc'[q] \notin {"idle", "full"} => val'[q] \in Values
    BY <1>1, <2>1 DEF TypeOK
  <2> QED BY <2>1, <2>5, <2>6, <2>7
<1>5. CASE try_pop
  BY <1>5 DEF try_pop, LoadTurn, NotReady, ReadPayload, FreeSlot, AdvanceHead, prodVars
<1>6. CASE UNCHANGED vars
  BY <1>6 DEF vars, prodVars, consVars
<1> QED BY <1>2, <1>3, <1>4, <1>5, <1>6 DEF Next, try_push

-----------------------------------------------------------------------------
(* What the refinement mapping makes of a position that is being filled ... *)
LEMMA EntryPending ==
  IndInv => \A q \in Producers : \A m \in Nat :
              InFlight(q) /\ pos[q] = m => Entry(m) = [val |-> val[q], by |-> q]
  BY DEF IndInv, ClaimsAreDistinct, Entry

(* ... and of one that is published. *)
LEMMA EntryPublished ==
  IndInv => \A m \in Nat : ~ Pending(m) => Entry(m) = [val |-> slot[SlotOf(m)], by |-> None]
  BY DEF Entry, Pending

(* An entry whose claim and payload stay is the same after the step. *)
LEMMA EntrySame ==
  ASSUME IndInv, IndInv', NEW n \in Nat,
         \A q \in Producers : InFlight(q) /\ pos[q] = n <=> InFlight(q)' /\ pos'[q] = n,
         \A q \in Producers : InFlight(q) /\ pos[q] = n => val'[q] = val[q],
         ~ Pending(n) => slot'[SlotOf(n)] = slot[SlotOf(n)]
  PROVE  Entry(n)' = Entry(n)
<1>1. (IndInv => \A q \in Producers : \A m \in Nat :
         InFlight(q) /\ pos[q] = m => Entry(m) = [val |-> val[q], by |-> q])'
  BY EntryPending, PTL
<1>2. (IndInv => \A m \in Nat :
         ~ Pending(m) => Entry(m) = [val |-> slot[SlotOf(m)], by |-> None])'
  BY EntryPublished, PTL
<1>3. CASE Pending(n)
  <2>1. PICK q \in Producers : InFlight(q) /\ pos[q] = n
    BY <1>3 DEF Pending
  <2>2. Entry(n) = [val |-> val[q], by |-> q]
    BY <2>1, EntryPending
  <2>3. InFlight(q)' /\ pos'[q] = n /\ val'[q] = val[q]
    BY <2>1
  <2>4. Entry(n)' = [val |-> val'[q], by |-> q]
    BY <1>1, <2>3
  <2> QED BY <2>2, <2>3, <2>4
<1>4. CASE ~ Pending(n)
  <2>1. ~ Pending(n)'
    BY <1>4 DEF Pending
  <2>2. Entry(n)' = [val |-> slot'[SlotOf(n)], by |-> None]
    BY <1>2, <2>1
  <2> QED BY <1>4, <2>2, EntryPublished
<1> QED BY <1>3, <1>4

(* The mapped queue is a sequence of length tail - head. *)
LEMMA ClaimedLength ==
  IndInv => /\ tail - head \in Nat
            /\ Len(Claimed) = tail - head
            /\ \A i \in 1..(tail - head) : Claimed[i] = Entry(head + i - 1)
<1>1. SUFFICES ASSUME IndInv
               PROVE  /\ tail - head \in Nat
                      /\ Len(Claimed) = tail - head
                      /\ \A i \in 1..(tail - head) : Claimed[i] = Entry(head + i - 1)
  OBVIOUS
<1>2. tail - head \in Nat
  BY <1>1 DEF IndInv, TypeOK, RingBounds
<1> QED BY <1>2 DEF Claimed

(* Steps that neither claim, publish nor pop are invisible in the queue. *)
LEMMA QueueSame ==
  ASSUME IndInv, IndInv', head' = head, tail' = tail,
         \A n \in head..(tail - 1) : Entry(n)' = Entry(n)
  PROVE  Claimed' = Claimed
<1>1. head \in Nat /\ tail \in Nat
  BY DEF IndInv, TypeOK
<1>2. ASSUME NEW i \in 1..(tail - head) PROVE Entry(head + i - 1)' = Entry(head + i - 1)
  <2>1. head + i - 1 \in head..(tail - 1)
    BY <1>1
  <2>2. (head + i - 1)' = head + i - 1
    OBVIOUS
  <2> QED BY <2>1, <2>2
<1> QED BY <1>2 DEF Claimed

-----------------------------------------------------------------------------
(* The CAS on tail is the abstract claim. *)
LEMMA ClaimSimulates ==
  ASSUME IndInv, IndInv', PayloadsMatch, NEW p \in Producers, ClaimTail(p)
  PROVE  val[p] \in Values /\ Abstract!Claim(p, val[p])
<1>1. /\ pc[p] = "cas" /\ tail = pos[p] /\ tail' = tail + 1 /\ head' = head
      /\ slot' = slot /\ pos' = pos /\ val' = val /\ popped' = popped
      /\ pc' = [pc EXCEPT ![p] = "wait"] /\ TypeOK
  BY DEF ClaimTail, Goto, consVars, IndInv
<1>2. head \in Nat /\ tail \in Nat /\ head <= tail /\ tail < head + Cap /\ Cap \in Nat
  BY <1>1, CapAssumption DEF IndInv, TypeOK, RingBounds, LocalsAreSafe
<1>3. val[p] \in Values
  BY <1>1 DEF PayloadsMatch
<1>4. ASSUME NEW n \in head..(tail - 1) PROVE Entry(n)' = Entry(n)
  <2>1. n \in Nat /\ n # tail
    BY <1>2
  <2> QED BY <1>1, <2>1, EntrySame DEF InFlight, TypeOK
<1>5. ASSUME NEW n \in Nat, n = tail PROVE Entry(n)' = [val |-> val[p], by |-> p]
  <2>1. (IndInv => \A q \in Producers : \A m \in Nat :
           InFlight(q) /\ pos[q] = m => Entry(m) = [val |-> val[q], by |-> q])'
    BY EntryPending, PTL
  <2>2. InFlight(p)' /\ pos'[p] = n /\ val'[p] = val[p]
    BY <1>1, <1>5 DEF InFlight, TypeOK
  <2> QED BY <2>1, <2>2
<1>6. Len(Claimed) = tail - head
  BY ClaimedLength
<1>7. ASSUME NEW i \in 1..(tail - head) PROVE Claimed[i].by # p
  <2>1. head + i - 1 \in Nat /\ Claimed[i] = Entry(head + i - 1)
    BY <1>2, ClaimedLength
  <2>2. CASE Pending(head + i - 1)
    <3>1. PICK q \in Producers : InFlight(q) /\ pos[q] = head + i - 1
      BY <2>2 DEF Pending
    <3>2. q # p
      BY <1>1, <3>1 DEF InFlight
    <3> QED BY <2>1, <3>1, <3>2, EntryPending
  <2>3. CASE ~ Pending(head + i - 1)
    BY <2>1, <2>3, EntryPublished, NoneAssumption
  <2> QED BY <2>2, <2>3
<1>8. Claimed' = Append(Claimed, [val |-> val[p], by |-> p])
  <2> DEFINE e == [val |-> val[p], by |-> p]
  <2>1. Append(Claimed, e) = [i \in 1..(tail - head + 1) |->
                                IF i = tail - head + 1 THEN e ELSE Claimed[i]]
    BY <1>2, <1>6 DEF Claimed
  <2>2. Claimed' = [i \in 1..(tail - head + 1) |-> Entry(head + i - 1)']
    BY <1>1, <1>2 DEF Claimed
  <2>3. ASSUME NEW i \in 1..(tail - head + 1)
        PROVE  Entry(head + i - 1)' = IF i = tail - head + 1 THEN e ELSE Claimed[i]
    <3>1. PICK n \in Nat : n = head + i - 1
      BY <1>2
    <3>2. Entry(head + i - 1)' = Entry(n)'
      BY <1>1, <3>1
    <3>3. CASE i = tail - head + 1
      BY <1>2, <1>5, <3>1, <3>2, <3>3
    <3>4. CASE i # tail - head + 1
      <4>1. n \in head..(tail - 1) /\ i \in 1..(tail - head)
        BY <1>2, <3>1, <3>4
      <4> QED BY <1>4, <3>1, <3>2, <3>4, <4>1, ClaimedLength
    <3> QED BY <3>3, <3>4
  <2> QED BY <2>1, <2>2, <2>3
<1> QED
  BY <1>1, <1>2, <1>3, <1>6, <1>7, <1>8 DEF Abstract!Claim

(* The turn store that publishes the payload is the abstract publication. *)
LEMMA PublishSimulates ==
  ASSUME IndInv, IndInv', PayloadsMatch, NEW p \in Producers, PublishTurn(p)
  PROVE  Abstract!Publish(p)
<1>1. /\ pc[p] = "publish" /\ tail' = tail /\ head' = head /\ slot' = slot
      /\ pos' = [pos EXCEPT ![p] = 0] /\ val' = [val EXCEPT ![p] = None]
      /\ popped' = popped /\ pc' = [pc EXCEPT ![p] = "idle"] /\ TypeOK
  BY DEF PublishTurn, Return, Goto, consVars, IndInv
<1>2. /\ head \in Nat /\ tail \in Nat /\ pos[p] \in Nat
      /\ InFlight(p) /\ head <= pos[p] /\ pos[p] < tail
  BY <1>1 DEF IndInv, TypeOK, LocalsAreSafe, InFlight
<1>3. PICK k \in 1..(tail - head) : head + k - 1 = pos[p]
  <2>1. /\ pos[p] - head + 1 \in 1..(tail - head)
        /\ head + (pos[p] - head + 1) - 1 = pos[p]
    BY <1>2
  <2> QED BY <2>1
<1>4. Claimed[k] = [val |-> val[p], by |-> p]
  BY <1>2, <1>3, ClaimedLength, EntryPending
<1>5. ASSUME NEW n \in head..(tail - 1), n # pos[p] PROVE Entry(n)' = Entry(n)
  <2>1. n \in Nat
    BY <1>2
  <2> QED BY <1>1, <1>2, <1>5, <2>1, EntrySame DEF InFlight, TypeOK
<1>6. ASSUME NEW n \in Nat, n = pos[p] PROVE Entry(n)' = [val |-> val[p], by |-> None]
  <2>1. (IndInv => \A m \in Nat :
           ~ Pending(m) => Entry(m) = [val |-> slot[SlotOf(m)], by |-> None])'
    BY EntryPublished, PTL
  <2>2. ~ Pending(n)'
    BY <1>1, <1>2, <1>6 DEF Pending, InFlight, TypeOK, IndInv, ClaimsAreDistinct
  <2>3. slot'[SlotOf(n)] = val[p]
    BY <1>1, <1>6 DEF PayloadsMatch
  <2> QED BY <2>1, <2>2, <2>3
<1>7. Claimed' = [Claimed EXCEPT ![k].by = None]
  <2>1. Claimed' = [i \in 1..(tail - head) |-> Entry(head + i - 1)']
    BY <1>1 DEF Claimed
  <2>2. [Claimed EXCEPT ![k].by = None]
          = [i \in 1..(tail - head) |->
               IF i = k THEN [val |-> val[p], by |-> None] ELSE Claimed[i]]
    <3>1. [Claimed[k] EXCEPT !.by = None] = [val |-> val[p], by |-> None]
      BY <1>4
    <3>2. DOMAIN Claimed = 1..(tail - head)
      BY DEF Claimed
    <3> QED BY <1>3, <3>1, <3>2
  <2>3. ASSUME NEW i \in 1..(tail - head)
        PROVE  Entry(head + i - 1)'
                 = IF i = k THEN [val |-> val[p], by |-> None] ELSE Claimed[i]
    <3>1. PICK n \in Nat : n = head + i - 1
      BY <1>2
    <3>2. Entry(head + i - 1)' = Entry(n)'
      BY <1>1, <3>1
    <3>3. CASE i = k
      BY <1>3, <1>6, <3>1, <3>2, <3>3
    <3>4. CASE i # k
      <4>1. n \in head..(tail - 1) /\ n # pos[p]
        BY <1>2, <1>3, <3>1, <3>4
      <4> QED BY <1>5, <3>1, <3>2, <3>4, <4>1, ClaimedLength
    <3> QED BY <3>3, <3>4
  <2> QED BY <2>1, <2>2, <2>3
<1>8. Len(Claimed) = tail - head
  BY ClaimedLength
<1>9. k \in 1..Len(Claimed) /\ Claimed[k].by = p
  BY <1>3, <1>4, <1>8
<1> QED BY <1>1, <1>7, <1>9 DEF Abstract!Publish

(* The head store is the abstract pop, and returns the head's value. *)
LEMMA PopSimulates ==
  ASSUME IndInv, IndInv', PayloadsMatch, AdvanceHead PROVE Abstract!Pop
<1>1. /\ cpc = "advance" /\ head' = head + 1 /\ tail' = tail /\ popped' = got
      /\ slot' = slot /\ pc' = pc /\ pos' = pos /\ val' = val
  BY DEF AdvanceHead, prodVars
<1>2. head \in Nat /\ tail \in Nat /\ head < tail /\ ~ Pending(head)
  BY <1>1 DEF IndInv, TypeOK, ConsumerHoldsHead
<1>3. got = slot[SlotOf(head)]
  BY <1>1 DEF PayloadsMatch
<1>4. Len(Claimed) = tail - head /\ Claimed[1] = Entry(head)
  <2>1. 1 \in 1..(tail - head) /\ head + 1 - 1 = head
    BY <1>2
  <2> QED BY <2>1, ClaimedLength
<1>5. Claimed[1] = [val |-> got, by |-> None]
  BY <1>2, <1>3, <1>4, EntryPublished
<1>6. ASSUME NEW n \in Nat PROVE Entry(n)' = Entry(n)
  BY <1>1, EntrySame DEF InFlight
<1>7. Claimed' = Tail(Claimed)
  <2>1. Claimed' = [i \in 1..(tail - head - 1) |-> Entry(head + i - 1)']
    BY <1>1, <1>2 DEF Claimed
  <2>2. Tail(Claimed) = [i \in 1..(tail - head - 1) |-> Claimed[i + 1]]
    <3> DEFINE S == {Entry(head + i - 1) : i \in 1..(tail - head)}
    <3>0. Claimed \in [1..(tail - head) -> S] /\ tail - head \in Nat
      BY <1>2 DEF Claimed
    <3>1. Claimed \in Seq(S) /\ Claimed # <<>>
      <4> HIDE DEF S
      <4>1. Claimed # <<>>
        BY <1>2, <1>4
      <4>2. Claimed \in Seq(S)
        BY <3>0
      <4> QED BY <4>1, <4>2
    <3>2. /\ Tail(Claimed) \in Seq(S) /\ Len(Tail(Claimed)) = Len(Claimed) - 1
          /\ \A i \in 1..Len(Tail(Claimed)) : Tail(Claimed)[i] = Claimed[i + 1]
      BY <3>1, HeadTailProperties
    <3>3. Tail(Claimed) \in [1..(tail - head - 1) -> S]
      BY <1>4, <3>2, LenProperties
    <3> HIDE DEF S
    <3> QED BY <1>2, <1>4, <3>2, <3>3
  <2>3. ASSUME NEW i \in 1..(tail - head - 1)
        PROVE  Entry(head + i - 1)' = Claimed[i + 1]
    <3>1. PICK n \in Nat : n = head + i
      BY <1>2
    <3>2. Entry(head + i - 1)' = Entry(n)'
      <4>1. (head + i - 1)' = n
        BY <1>1, <1>2, <3>1
      <4> QED BY <4>1
    <3>3. i + 1 \in 1..(tail - head) /\ head + (i + 1) - 1 = n
      BY <1>2, <3>1
    <3>4. Claimed[i + 1] = Entry(n)
      BY <3>3, ClaimedLength
    <3> QED BY <1>6, <3>2, <3>4
  <2> QED BY <2>1, <2>2, <2>3
<1>8. Head(Claimed) = Claimed[1] /\ Claimed # <<>>
  BY <1>2, <1>4 DEF Claimed
<1> QED BY <1>1, <1>5, <1>7, <1>8 DEF Abstract!Pop, Abstract!HeadReady

(* All other steps are invisible. *)
LEMMA StutterSimulates ==
  ASSUME IndInv, IndInv', PayloadsMatch,
         \/ \E p \in Producers :
              \/ \E v \in Values : LoadTail(p, v)
              \/ CheckCache(p) \/ LoadHead(p) \/ StoreCache(p) \/ RetryTail(p)
              \/ AwaitTurn(p) \/ WritePayload(p)
         \/ LoadTurn \/ NotReady \/ ReadPayload \/ FreeSlot
         \/ UNCHANGED vars
  PROVE  Claimed' = Claimed /\ popped' = popped
<1> USE DEF IndInv
<1>1. head' = head /\ tail' = tail /\ popped' = popped /\ TypeOK
  BY DEF LoadTail, CheckCache, LoadHead, StoreCache, RetryTail, AwaitTurn, WritePayload,
         LoadTurn, NotReady, ReadPayload, FreeSlot, vars, prodVars, consVars
<1>2. /\ \A q \in Producers : InFlight(q)' <=> InFlight(q)
      /\ \A q \in Producers : InFlight(q) => pos'[q] = pos[q] /\ val'[q] = val[q]
  BY <1>1 DEF LoadTail, CheckCache, LoadHead, StoreCache, RetryTail, AwaitTurn, WritePayload,
         LoadTurn, NotReady, ReadPayload, FreeSlot, vars, prodVars, consVars,
         Return, Goto, InFlight, TypeOK
<1>3. ASSUME NEW n \in head..(tail - 1), ~ Pending(n)
      PROVE  slot'[SlotOf(n)] = slot[SlotOf(n)]
  <2>1. n \in Nat /\ n < head + Cap
    BY <1>1, CapAssumption DEF TypeOK, RingBounds
  <2>2. ASSUME NEW p \in Producers, WritePayload(p)
        PROVE  slot'[SlotOf(n)] = slot[SlotOf(n)]
    <3>1. InFlight(p) /\ slot' = [slot EXCEPT ![SlotOf(pos[p])] = val[p]]
      BY <2>2 DEF WritePayload, InFlight
    <3>2. /\ pos[p] # n /\ pos[p] \in Nat /\ head <= pos[p] /\ pos[p] < head + Cap
          /\ head \in Nat
      BY <1>1, <1>3, <3>1, CapAssumption DEF Pending, LocalsAreSafe, RingBounds, TypeOK
    <3>3. SlotOf(n) # SlotOf(pos[p])
      BY <2>1, <3>2, SlotsDiffer, CapAssumption
    <3>4. SlotOf(n) \in Slots
      BY <2>1, Decompose
    <3> QED BY <1>1, <3>1, <3>3, <3>4 DEF TypeOK
  <2>3. CASE slot' = slot
    BY <2>3
  <2> QED
    BY <2>2, <2>3 DEF LoadTail, CheckCache, LoadHead, StoreCache, RetryTail,
       AwaitTurn, LoadTurn, NotReady, ReadPayload, FreeSlot, vars
<1>4. ASSUME NEW n \in head..(tail - 1) PROVE Entry(n)' = Entry(n)
  <2>1. n \in Nat
    BY <1>1 DEF TypeOK
  <2> QED BY <1>2, <1>3, <2>1, EntrySame
<1> QED BY <1>1, <1>4, QueueSame

(* The ring implements the bounded claim queue: try_push takes effect at its *)
(* CAS, values leave in claim order, once each and unchanged, and only after *)
(* they are published.                                                       *)
THEOREM RingRefines == Spec => ImplementsClaimQueue
<1>1. Init => PayloadsMatch
  BY DEF Init, PayloadsMatch
<1>2. IndInv /\ PayloadsMatch /\ [Next]_vars => PayloadsMatch'
  BY PayloadStep
<1>3. Init => Abstract!QInit
  BY DEF Init, Abstract!QInit, Claimed
<1>4. IndInv /\ IndInv' /\ PayloadsMatch /\ [Next]_vars
        => [Abstract!QNext]_(Abstract!queueVars)
  <2>1. SUFFICES ASSUME IndInv, IndInv', PayloadsMatch, [Next]_vars
                 PROVE  [Abstract!QNext]_(Abstract!queueVars)
    OBVIOUS
  <2>2. ASSUME NEW p \in Producers, ClaimTail(p) PROVE Abstract!QNext
    BY <2>1, <2>2, ClaimSimulates DEF Abstract!QNext
  <2>3. ASSUME NEW p \in Producers, PublishTurn(p) PROVE Abstract!QNext
    BY <2>1, <2>3, PublishSimulates DEF Abstract!QNext
  <2>4. CASE AdvanceHead
    BY <2>1, <2>4, PopSimulates DEF Abstract!QNext
  <2>5. ASSUME Claimed' = Claimed, popped' = popped
        PROVE  UNCHANGED Abstract!queueVars
    BY <2>5 DEF Abstract!queueVars
  <2> QED
    BY <2>1, <2>2, <2>3, <2>4, <2>5, StutterSimulates DEF Next, try_push, try_pop
<1> QED
  BY <1>1, <1>2, <1>3, <1>4, Inductive, PTL DEF Spec, ImplementsClaimQueue, Abstract!QSpec
=============================================================================
