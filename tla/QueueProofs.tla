----------------------------- MODULE QueueProofs -----------------------------
(***************************************************************************)
(* The event queue of V2 to V4 is a FIFO and never loses a wakeup, for     *)
(* every capacity and every set of producers.                              *)
(***************************************************************************)
EXTENDS Queue, SequenceTheorems, TLAPS

(* A position's index is in the queue's memory. *)
LEMMA IndexInRange ==
  ASSUME NEW n \in Nat PROVE Index(n) \in 0..(Cap - 1)
  BY CapAssumption DEF Index

(* Fewer than Cap positions apart, two positions have different indexes. *)
LEMMA IndexesDiffer ==
  ASSUME NEW m \in Nat, NEW n \in Nat, m < n, n < m + Cap
  PROVE  Index(m) # Index(n)
<1> SUFFICES ASSUME Index(m) = Index(n) PROVE FALSE
  OBVIOUS
<1> DEFINE d == (n \div Cap) - (m \div Cap)
<1>1. d \in Int /\ n - m = Cap * d
  BY CapAssumption DEF Index
<1>2. CASE d <= 0
  BY <1>1, <1>2, CapAssumption, SMTT(30)
<1>3. CASE d >= 1
  BY <1>1, <1>3, CapAssumption, SMTT(30)
<1> HIDE DEF d
<1> QED BY <1>1, <1>2, <1>3

-----------------------------------------------------------------------------
(* put keeps the elements that are queued, and queues its own. *)
LEMMA PutStep ==
  ASSUME DataInv, NEW p \in Producers,
         PutBegin(p) \/ WriteElement(p) \/ StoreTail(p)
  PROVE  DataInv'
<1> USE NoneAssumption, CapAssumption
<1> USE DEF DataInv
<1>t. /\ head \in Nat /\ tail \in Nat /\ head <= tail /\ tail <= head + Cap
      /\ Index(tail) \in 0..(Cap - 1) /\ \A n \in Nat : Index(n) \in 0..(Cap - 1)
  BY IndexInRange DEF TypeOK, Bounds
<1>1. CASE PutBegin(p)
  <2> USE <1>1, <1>t DEF PutBegin, Goto
  <2>1. TypeOK'
    BY ONLY DataInv, PutBegin(p), p \in Producers DEF DataInv, PutBegin, Goto, TypeOK
  <2>2. HistoriesMatch' /\ Bounds'
    BY DEF HistoriesMatch, Fifo, Bounds
  <2>3. LockHeld'
    BY DEF LockHeld, TypeOK
  <2>4. CellsMatch' /\ ConsumerHoldsHead'
    BY DEF CellsMatch, ConsumerHoldsHead, TypeOK
  <2> QED BY <2>1, <2>2, <2>3, <2>4
<1>2. CASE WriteElement(p)
  <2> USE <1>2, <1>t DEF WriteElement, Goto
  <2>1. lock = p /\ tail < head + Cap
    BY DEF LockHeld, TypeOK
  <2>2. TypeOK'
    <3>1. cell' \in [0..(Cap - 1) -> Producers \union {None, "torn"}]
      BY ONLY DataInv, WriteElement(p), p \in Producers DEF DataInv, WriteElement, TypeOK
    <3> QED
      BY ONLY <3>1, DataInv, WriteElement(p), p \in Producers
         DEF DataInv, WriteElement, Goto, TypeOK
  <2>3. HistoriesMatch' /\ Bounds'
    BY DEF HistoriesMatch, Fifo, Bounds
  <2>4. LockHeld'
    BY DEF LockHeld, TypeOK
  <2>5. \A n \in head..(tail - 1) : cell'[Index(n)] = cell[Index(n)]
    <3>1. \A n \in head..(tail - 1) : Index(n) # Index(tail) /\ Index(n) \in 0..(Cap - 1)
      BY <2>1, IndexesDiffer
    <3> QED BY ONLY <3>1, WriteElement(p), DataInv DEF WriteElement, DataInv, TypeOK
  <2>6. \A q \in Producers : pc'[q] = "store" => q = p
    BY <2>1 DEF LockHeld, TypeOK
  <2>7. CellsMatch'
    BY <2>5, <2>6 DEF CellsMatch, TypeOK
  <2>8. ConsumerHoldsHead'
    BY DEF ConsumerHoldsHead
  <2> QED BY <2>2, <2>3, <2>4, <2>7, <2>8
<1>3. CASE StoreTail(p)
  <2> USE <1>3, <1>t DEF StoreTail, Goto
  <2>1. lock = p /\ tail < head + Cap /\ cell[Index(tail)] = p
    BY DEF LockHeld, CellsMatch, TypeOK
  <2>2. TypeOK' /\ Bounds'
    <3>1. Bounds'
      BY <2>1 DEF Bounds
    <3>2. TypeOK'
      BY ONLY DataInv, StoreTail(p), p \in Producers DEF DataInv, StoreTail, Goto, TypeOK
    <3> QED BY <3>1, <3>2
  <2>3. /\ puts' \in Seq(Producers) /\ Len(puts') = tail' /\ puts'[tail + 1] = p
        /\ \A i \in 1..tail : puts'[i] = puts[i]
    <3>1. puts \in Seq(Producers) /\ Len(puts) = tail /\ puts' = Append(puts, p)
      BY DEF HistoriesMatch, Fifo
    <3>2. tail' = tail + 1
      OBVIOUS
    <3>3. /\ Append(puts, p) \in Seq(Producers) /\ Len(Append(puts, p)) = tail + 1
          /\ \A i \in 1..tail : Append(puts, p)[i] = puts[i]
          /\ Append(puts, p)[tail + 1] = p
      BY ONLY <3>1, p \in Producers, AppendProperties
    <3> QED BY ONLY <3>1, <3>2, <3>3
  <2>4. HistoriesMatch'
    BY <2>3 DEF HistoriesMatch, Fifo
  <2>5. LockHeld'
    BY <2>1 DEF LockHeld, TypeOK
  <2>6. CellsMatch'
    <3>1. \A n \in head'..(tail' - 1) : cell'[Index(n)] = puts'[n + 1]
      <4> SUFFICES ASSUME NEW n \in head'..(tail' - 1)
                   PROVE  cell'[Index(n)] = puts'[n + 1]
        OBVIOUS
      <4>0. n \in Nat /\ (n = tail \/ n \in head..(tail - 1))
        OBVIOUS
      <4>1. CASE n = tail
        BY <2>1, <2>3, <4>1
      <4>2. CASE n \in head..(tail - 1)
        <5>1. cell[Index(n)] = puts[n + 1] /\ n + 1 \in 1..tail
          BY <4>2 DEF CellsMatch
        <5> QED BY <5>1, <2>3
      <4> QED BY <4>0, <4>1, <4>2
    <3>2. \A q \in Producers : pc'[q] # "store"
      BY <2>1 DEF LockHeld, TypeOK
    <3> QED BY <3>1, <3>2 DEF CellsMatch
  <2>7. ConsumerHoldsHead'
    BY <2>3 DEF ConsumerHoldsHead
  <2> QED BY <2>2, <2>4, <2>5, <2>6, <2>7
<1> QED BY <1>1, <1>2, <1>3

(* The steps that touch only the flag and the event keep the data. *)
LEMMA FlagStep ==
  ASSUME DataInv,
         \/ \E p \in Producers : MarkWorking(p) \/ SendEvent(p)
         \/ Woken \/ ClearFlag \/ CheckSize \/ SetFlag \/ UNCHANGED vars
  PROVE  DataInv'
<1>1. /\ UNCHANGED <<head, tail, cell, lock, got, puts, pops>>
      /\ cpc' \in {"read", "advance"} => cpc' = cpc
      /\ \A q \in Producers : \A l \in {"write", "store"} : pc'[q] = l <=> pc[q] = l
  BY DEF DataInv, TypeOK, MarkWorking, SendEvent, Woken, ClearFlag, CheckSize, SetFlag, vars, Goto
<1>2. TypeOK'
  <2> USE DEF DataInv, TypeOK, Goto
  <2>1. ASSUME NEW p \in Producers, MarkWorking(p) PROVE TypeOK'
    BY <2>1 DEF MarkWorking
  <2>2. ASSUME NEW p \in Producers, SendEvent(p) PROVE TypeOK'
    BY <2>2 DEF SendEvent
  <2>3. CASE Woken
    BY <2>3 DEF Woken
  <2>4. CASE ClearFlag \/ CheckSize \/ SetFlag
    BY <2>4 DEF ClearFlag, CheckSize, SetFlag
  <2>5. CASE UNCHANGED vars
    BY <2>5 DEF vars
  <2> QED BY <2>1, <2>2, <2>3, <2>4, <2>5
<1>3. HistoriesMatch' /\ Bounds' /\ LockHeld' /\ CellsMatch' /\ ConsumerHoldsHead'
  BY <1>1 DEF DataInv, HistoriesMatch, Fifo, Bounds, LockHeld, CellsMatch, ConsumerHoldsHead
<1> QED BY <1>2, <1>3 DEF DataInv

(* pop returns the element put at its position. *)
LEMMA PopStep ==
  ASSUME DataInv, PopCheck \/ PopRead \/ PopAdvance
  PROVE  DataInv'
<1> USE CapAssumption
<1>t. /\ head \in Nat /\ tail \in Nat /\ head <= tail /\ tail <= head + Cap
      /\ Index(head) \in 0..(Cap - 1)
  BY IndexInRange DEF DataInv, TypeOK, Bounds
<1>h. /\ puts \in Seq(Producers) /\ pops \in Seq(Producers)
      /\ Len(puts) = tail /\ Len(pops) = head
      /\ \A i \in 1..head : pops[i] = puts[i]
  BY DEF DataInv, HistoriesMatch, Fifo
<1>1. CASE PopCheck
  <2>1. TypeOK'
    BY <1>1 DEF DataInv, TypeOK, PopCheck
  <2>2. HistoriesMatch' /\ Bounds' /\ LockHeld' /\ CellsMatch'
    BY <1>1 DEF PopCheck, DataInv, HistoriesMatch, Fifo, Bounds, LockHeld, CellsMatch
  <2>3. ConsumerHoldsHead'
    BY <1>1, <1>t DEF PopCheck, ConsumerHoldsHead
  <2> QED BY <2>1, <2>2, <2>3 DEF DataInv
<1>2. CASE PopRead
  <2>1. head < tail /\ cell[Index(head)] = puts[head + 1]
    BY <1>2, <1>t DEF PopRead, DataInv, ConsumerHoldsHead, CellsMatch
  <2>2. TypeOK'
    BY <1>2, <1>t DEF DataInv, TypeOK, PopRead
  <2>3. HistoriesMatch' /\ Bounds' /\ LockHeld' /\ CellsMatch'
    BY <1>2 DEF PopRead, DataInv, HistoriesMatch, Fifo, Bounds, LockHeld, CellsMatch
  <2>4. ConsumerHoldsHead'
    BY <1>2, <2>1 DEF PopRead, ConsumerHoldsHead
  <2> QED BY <2>2, <2>3, <2>4 DEF DataInv
<1>3. CASE PopAdvance
  <2>1. head < tail /\ got = puts[head + 1] /\ head' = head + 1 /\ tail' = tail
    BY <1>3 DEF PopAdvance, DataInv, ConsumerHoldsHead
  <2>2. got \in Producers /\ pops' = Append(pops, got) /\ puts' = puts
    BY <1>3, <1>t, <1>h, <2>1 DEF PopAdvance
  <2>3. /\ pops' \in Seq(Producers) /\ Len(pops') = head + 1
        /\ \A i \in 1..head : pops'[i] = pops[i]
        /\ pops'[head + 1] = got
    BY ONLY <2>2, <1>h, AppendProperties
  <2>4. HistoriesMatch'
    <3>1. \A i \in 1..(head + 1) : i <= tail /\ pops'[i] = puts[i]
      <4> SUFFICES ASSUME NEW i \in 1..(head + 1) PROVE i <= tail /\ pops'[i] = puts[i]
        OBVIOUS
      <4>1. CASE i = head + 1
        BY <4>1, <2>1, <2>3, <1>t
      <4>2. CASE i \in 1..head
        BY <4>2, <2>3, <1>h, <1>t
      <4> QED BY <4>1, <4>2, <1>t
    <3> QED BY <3>1, <2>1, <2>2, <2>3, <1>h DEF HistoriesMatch, Fifo
  <2>5. TypeOK'
    BY <1>3, <1>t, NoneAssumption DEF DataInv, TypeOK, PopAdvance
  <2>6. Bounds' /\ LockHeld'
    BY <1>3, <1>t, <2>1 DEF PopAdvance, DataInv, Bounds, LockHeld
  <2>7. CellsMatch' /\ ConsumerHoldsHead'
    BY <1>3, <1>t, <2>1 DEF PopAdvance, DataInv, CellsMatch, ConsumerHoldsHead
  <2> QED BY <2>4, <2>5, <2>6, <2>7 DEF DataInv
<1> QED BY <1>1, <1>2, <1>3

-----------------------------------------------------------------------------
(* Every step keeps the promise of a wakeup. *)
LEMMA WakeStep ==
  ASSUME DataInv, FlagIsHonest, ClearFlagIsSeen, [Next]_vars
  PROVE  FlagIsHonest' /\ ClearFlagIsSeen'
<1> USE DEF FlagIsHonest, ClearFlagIsSeen, Goto
<1>t. /\ pc \in [Producers -> {"idle", "full", "write", "store", "mark", "wake"}]
      /\ head \in Nat /\ tail \in Nat /\ working_flag \in 0..1 /\ head <= tail
  BY DEF DataInv, TypeOK, Bounds
<1>1. ASSUME NEW p \in Producers, PutBegin(p) \/ WriteElement(p)
      PROVE  FlagIsHonest' /\ ClearFlagIsSeen'
  <2>1. /\ UNCHANGED <<head, tail, working_flag, event, cpc>>
        /\ \A q \in Producers : \A l \in {"mark", "wake"} : pc[q] = l => pc'[q] = l
    BY <1>1, <1>t DEF PutBegin, WriteElement
  <2> QED BY <2>1
<1>2. ASSUME NEW p \in Producers, StoreTail(p)
      PROVE  FlagIsHonest' /\ ClearFlagIsSeen'
  <2>1. /\ UNCHANGED <<working_flag, event, cpc>> /\ pc'[p] = "mark"
        /\ \A q \in Producers : pc[q] = "wake" => pc'[q] = "wake"
    BY <1>2, <1>t DEF StoreTail
  <2> QED BY <2>1
<1>3. ASSUME NEW p \in Producers, MarkWorking(p)
      PROVE  FlagIsHonest' /\ ClearFlagIsSeen'
  <2>1. /\ UNCHANGED <<head, tail, event, cpc>> /\ working_flag' = 1
        /\ working_flag = 0 => pc'[p] = "wake"
        /\ \A q \in Producers : pc[q] = "wake" => pc'[q] = "wake"
    BY <1>3, <1>t DEF MarkWorking
  <2> QED BY <2>1, <1>t
<1>4. ASSUME NEW p \in Producers, SendEvent(p)
      PROVE  FlagIsHonest' /\ ClearFlagIsSeen'
  <2>1. /\ UNCHANGED <<head, tail, working_flag, cpc>> /\ event'
        /\ \A q \in Producers : pc[q] = "mark" => pc'[q] = "mark"
    BY <1>4, <1>t DEF SendEvent
  <2> QED BY <2>1
<1>5. CASE Woken \/ PopCheck \/ PopRead \/ PopAdvance \/ SetFlag
  BY <1>5 DEF Woken, PopCheck, PopRead, PopAdvance, SetFlag
<1>6. CASE ClearFlag
  BY <1>6 DEF ClearFlag
<1>7. CASE CheckSize
  BY <1>7, <1>t DEF CheckSize
<1>8. CASE UNCHANGED vars
  BY <1>8 DEF vars
<1> QED BY <1>1, <1>2, <1>3, <1>4, <1>5, <1>6, <1>7, <1>8 DEF Next, Producer, Consumer

(* IndInv is an invariant of the queue. *)
LEMMA Inductive == Spec => []IndInv
<1>1. Init => IndInv
  <2> SUFFICES ASSUME Init PROVE IndInv
    OBVIOUS
  <2>1. TypeOK
    BY CapAssumption DEF Init, TypeOK
  <2>2. HistoriesMatch /\ Bounds /\ LockHeld
    BY CapAssumption, NoneAssumption DEF Init, HistoriesMatch, Fifo, Bounds, LockHeld
  <2>3. CellsMatch /\ ConsumerHoldsHead /\ FlagIsHonest /\ ClearFlagIsSeen
    BY DEF Init, CellsMatch, ConsumerHoldsHead, FlagIsHonest, ClearFlagIsSeen
  <2> QED BY <2>1, <2>2, <2>3 DEF IndInv, DataInv
<1>2. IndInv /\ [Next]_vars => IndInv'
  <2> SUFFICES ASSUME IndInv, [Next]_vars PROVE IndInv'
    OBVIOUS
  <2>1. DataInv'
    BY PutStep, FlagStep, PopStep DEF IndInv, Next, Producer, Consumer
  <2> QED BY <2>1, WakeStep DEF IndInv
<1> QED BY <1>1, <1>2, PTL DEF Spec

(* Type correctness of the event queue. *)
THEOREM TypeCorrect == Spec => []TypeOK
<1>1. IndInv => TypeOK
  BY DEF IndInv, DataInv
<1> QED BY Inductive, <1>1, PTL

(* pop returns the elements of the puts whole and in order. *)
THEOREM QueueIsFifo == Spec => []Fifo
<1>1. IndInv => Fifo
  BY DEF IndInv, DataInv, HistoriesMatch
<1> QED BY Inductive, <1>1, PTL

(* The working flag never leaves the consumer asleep on an element without *)
(* a wakeup on its way.                                                    *)
THEOREM WakeupIsNeverLost == Spec => []NoLostWakeup
<1>1. IndInv => NoLostWakeup
  BY DEF IndInv, DataInv, TypeOK, FlagIsHonest, ClearFlagIsSeen, NoLostWakeup
<1> QED BY Inductive, <1>1, PTL
=============================================================================
