-------------------------- MODULE StreamReadProofs --------------------------
(* Proofs about StreamRead: a reader never sleeps through a delivery, a    *)
(* half-close or a close, however many units there are.                    *)
EXTENDS StreamRead, TLAPS

(* The initial states: nobody waits. *)
LEMMA InitInd == Init => IndInv
<1> SUFFICES ASSUME Init PROVE IndInv
  OBVIOUS
<1>1. TypeOK
  BY UnitsAssumption DEF Init, TypeOK, Results
<1>2. Registered /\ DataIsAnnounced /\ CloseIsAnnounced
  BY DEF Init, Registered, DataIsAnnounced, CloseIsAnnounced
<1> QED BY <1>1, <1>2 DEF IndInv

(* Every step of the reader keeps its futures matched to the news. *)
LEMMA ReaderStep ==
  IndInv /\ (Reader \/ Cancel \/ \E n \in 1..Units : ReadMore(n) \/ OtherReads(n)) => IndInv'
<1> SUFFICES ASSUME IndInv,
                    Reader \/ Cancel \/ \E n \in 1..Units : ReadMore(n) \/ OtherReads(n)
             PROVE  IndInv'
  OBVIOUS
<1> USE DEF IndInv, TypeOK, Registered, DataIsAnnounced, CloseIsAnnounced, Results
<1>1. CASE \E n \in 1..Units : ReadMore(n)
  BY <1>1, UnitsAssumption DEF ReadMore
<1>2. CASE TakeDelivered
  BY <1>2 DEF TakeDelivered
<1>3. CASE CheckReady
  <2>1. CASE Outcome # "wait"
    BY <1>3, <2>1 DEF CheckReady, DropFutures, Outcome
  <2>2. CASE Outcome = "wait"
    BY <1>3, <2>2 DEF CheckReady, Outcome
  <2> QED BY <2>1, <2>2
<1>4. CASE EnableRecv
  BY <1>4 DEF EnableRecv
<1>5. CASE EnableClose
  BY <1>5 DEF EnableClose
<1>6. CASE Woken
  BY <1>6 DEF Woken
<1>7. CASE Consume
  BY <1>7 DEF Consume
<1>8. CASE Cancel
  BY <1>8 DEF Cancel, DropFutures
<1>9. CASE \E n \in 1..Units : OtherReads(n)
  <2>1. PICK n \in 1..Units : OtherReads(n)
    BY <1>9
  <2>2. CASE buf >= n
    BY <2>1, <2>2, UnitsAssumption DEF OtherReads
  <2>3. CASE ~(buf >= n)
    BY <2>1, <2>3, UnitsAssumption DEF OtherReads
  <2> QED BY <2>2, <2>3
<1> QED BY <1>1, <1>2, <1>3, <1>4, <1>5, <1>6, <1>7, <1>8, <1>9 DEF Reader

(* The event loop and the closing task announce what they change. *)
LEMMA NewsStep ==
  IndInv /\ (EventLoop \/ Close \/ NotifyClosed) => IndInv'
<1> SUFFICES ASSUME IndInv, EventLoop \/ Close \/ NotifyClosed
             PROVE  IndInv'
  OBVIOUS
<1> USE DEF IndInv, TypeOK, Registered, DataIsAnnounced, CloseIsAnnounced, Results
<1>1. CASE AddPending
  BY <1>1 DEF AddPending, readerVars
<1>2. CASE NotifyReadable
  BY <1>2 DEF NotifyReadable, notify_one
<1>3. CASE HalfClose
  BY <1>3 DEF HalfClose, readerVars
<1>4. CASE NotifyHalfClosed
  BY <1>4 DEF NotifyHalfClosed, notify_waiters, readerVars
<1>5. CASE Close
  BY <1>5 DEF Close, readerVars
<1>6. CASE NotifyClosed
  BY <1>6 DEF NotifyClosed, notify_waiters, readerVars
<1>7. CASE DropLate
  BY <1>7 DEF DropLate, readerVars
<1> QED BY <1>1, <1>2, <1>3, <1>4, <1>5, <1>6, <1>7 DEF EventLoop

(* IndInv is an invariant of the stream. *)
LEMMA Inductive == Spec => []IndInv
<1>1. IndInv /\ [Next]_vars => IndInv'
  <2> SUFFICES ASSUME IndInv, [Next]_vars PROVE IndInv'
    OBVIOUS
  <2>1. CASE UNCHANGED vars
    BY <2>1 DEF vars, IndInv, TypeOK, Registered, DataIsAnnounced, CloseIsAnnounced
  <2>2. CASE Next
    BY <2>2, ReaderStep, NewsStep DEF Next
  <2> QED BY <2>1, <2>2
<1> QED BY InitInd, <1>1, PTL DEF Spec

(* For any amount of data: a reader asleep in read_more on a non-empty     *)
(* inbox or a stream that is no longer open is about to be woken.          *)
THEOREM NeverSleepsOverNews == Spec => []NoSleepOverNews
<1>1. IndInv => NoSleepOverNews
  BY DEF IndInv, DataIsAnnounced, CloseIsAnnounced, NoSleepOverNews
<1> QED BY Inductive, <1>1, PTL
=============================================================================
