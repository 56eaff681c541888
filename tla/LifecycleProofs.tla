--------------------------- MODULE LifecycleProofs ---------------------------
(* Proofs about the registry of buffer managers in Lifecycle: for any      *)
(* number of sessions and managers, a session that opens is never handed a *)
(* manager whose memory is gone, although a reference count is changed by  *)
(* taking the entry out and putting it back.                               *)
EXTENDS Lifecycle, TLAPS

(* A manager is in one place: in the registry or in the hands of one       *)
(* holder that has taken it out, and is still mapped there.  Without the   *)
(* hands NoDeadManager is not inductive: PutBack could put back what       *)
(* another holder has unmapped.                                            *)
RegistryType ==
  /\ BUFFER_MANAGERS \in Managers \cup {None}
  /\ hand \in [Holders -> Managers \cup {None}]

OneHolder ==
  \A o, q \in Holders : hand[o] # None /\ hand[o] = hand[q] => o = q

OutIsOut ==
  \A o \in Holders : hand[o] # None => hand[o] # BUFFER_MANAGERS /\ hand[o] \notin unmapped

RegistryInv ==
  /\ RegistryType /\ OneHolder /\ OutIsOut
  /\ BUFFER_MANAGERS \notin unmapped
  /\ None \notin unmapped

(* A process that starts has everybody's manager in the registry. *)
LEMMA InitRegistry == Init => RegistryInv
<1> SUFFICES ASSUME Init PROVE RegistryInv
  OBVIOUS
<1>1. PICK p \in Managers : BUFFER_MANAGERS = IF conf.slots # {} THEN p ELSE None
  BY DEF Init
<1>2. hand = [o \in Holders |-> None] /\ unmapped = {}
  BY DEF Init
<1>3. RegistryType
  BY <1>1, <1>2 DEF RegistryType
<1>4. OneHolder /\ OutIsOut
  BY <1>2 DEF OneHolder, OutIsOut
<1> QED BY <1>2, <1>3, <1>4 DEF RegistryInv

(* get_with_memfd and get_with_file hand out the entry, or a manager that  *)
(* nobody has.                                                             *)
LEMMA GetKeeps ==
  ASSUME NEW p \in Managers, RegistryInv, GetManager(p), hand' = hand
  PROVE  RegistryInv'
<1>1. CASE BUFFER_MANAGERS # None
  BY <1>1 DEF GetManager, RegistryInv, RegistryType, OneHolder, OutIsOut
<1>2. CASE BUFFER_MANAGERS = None
  <2>1. BUFFER_MANAGERS' = p /\ unmapped' = unmapped \ {p} /\ p \in Fresh
    BY <1>2 DEF GetManager
  <2>2. \A o \in Holders : hand[o] # p
    BY <2>1 DEF Fresh
  <2>3. RegistryType' /\ OneHolder'
    BY <2>1 DEF RegistryInv, RegistryType, OneHolder
  <2>4. OutIsOut'
    BY <2>1, <2>2 DEF RegistryInv, OutIsOut
  <2> QED BY <2>1, <2>3, <2>4 DEF RegistryInv
<1> QED BY <1>1, <1>2

(* The first half of add_global_buffer_manager_ref_count: the entry leaves *)
(* the registry for one hand.                                              *)
LEMMA TakeOutKeeps ==
  ASSUME NEW o \in Holders, RegistryInv, TakeOut(o)
  PROVE  RegistryInv'
<1>1. /\ hand' = [hand EXCEPT ![o] = BUFFER_MANAGERS]
      /\ BUFFER_MANAGERS' = None /\ unmapped' = unmapped
  BY DEF TakeOut
<1>2. RegistryType'
  BY <1>1 DEF RegistryInv, RegistryType
<1>3. \A q \in Holders : hand'[q] = IF q = o THEN BUFFER_MANAGERS ELSE hand[q]
  BY <1>1 DEF RegistryInv, RegistryType
<1>4. OneHolder'
  BY <1>3 DEF RegistryInv, OneHolder, OutIsOut
<1>5. OutIsOut'
  BY <1>1, <1>3 DEF RegistryInv, OutIsOut
<1> QED BY <1>1, <1>2, <1>4, <1>5 DEF RegistryInv

(* The second half: what is in the hand goes back, or is unmapped and has  *)
(* then no other place to be in.                                           *)
LEMMA PutBackKeeps ==
  ASSUME NEW o \in Holders, RegistryInv, PutBack(o)
  PROVE  RegistryInv'
<1>1. hand' = [hand EXCEPT ![o] = None]
  BY DEF PutBack
<1>2. \A q \in Holders : hand'[q] = IF q = o THEN None ELSE hand[q]
  BY <1>1 DEF RegistryInv, RegistryType
<1>3. CASE hand[o] = None
  <2>1. BUFFER_MANAGERS' = BUFFER_MANAGERS /\ unmapped' = unmapped
    BY <1>3 DEF PutBack
  <2> QED BY <1>1, <1>2, <2>1 DEF RegistryInv, RegistryType, OneHolder, OutIsOut
<1>4. CASE hand[o] # None /\ ref_count[hand[o]] = 0
  <2>1. BUFFER_MANAGERS' = BUFFER_MANAGERS /\ unmapped' = unmapped \cup {hand[o]}
    BY <1>4 DEF PutBack
  <2>2. \A q \in Holders \ {o} : hand[q] # None => hand[q] # hand[o]
    BY DEF RegistryInv, OneHolder
  <2>3. RegistryType' /\ OneHolder'
    BY <1>1, <1>2, <2>1 DEF RegistryInv, RegistryType, OneHolder
  <2>4. OutIsOut'
    BY <1>2, <2>1, <2>2 DEF RegistryInv, OutIsOut
  <2>5. BUFFER_MANAGERS' \notin unmapped' /\ None \notin unmapped'
    BY <1>4, <2>1 DEF RegistryInv, OutIsOut
  <2> QED BY <2>3, <2>4, <2>5 DEF RegistryInv
<1>5. CASE hand[o] # None /\ ref_count[hand[o]] # 0
  <2>1. BUFFER_MANAGERS' = hand[o] /\ unmapped' = unmapped
    BY <1>5 DEF PutBack
  <2>2. RegistryType' /\ OneHolder'
    BY <1>1, <1>2, <2>1 DEF RegistryInv, RegistryType, OneHolder
  <2>3. OutIsOut'
    BY <1>2, <2>1 DEF RegistryInv, OutIsOut, OneHolder
  <2>4. BUFFER_MANAGERS' \notin unmapped' /\ None \notin unmapped'
    BY <1>5, <2>1 DEF RegistryInv, OutIsOut
  <2> QED BY <2>2, <2>3, <2>4 DEF RegistryInv
<1> QED BY <1>3, <1>4, <1>5

(* The registry as far as RegistryInv looks at it. *)
registry == <<conf, BUFFER_MANAGERS, unmapped, hand>>

(* What the writers, the loops and the peer do does not touch it. *)
LEMMA WireApart ==
  ASSUME \/ \E t \in Tasks : Claim(t) \/ WaitForSend(t) \/ SendTimeout(t) \/ TaskStep(t)
         \/ \E s \in Sessions : WriteLoop(s) \/ ReadLoop(s) \/ PeerReads(s) \/ LinkDown(s)
  PROVE  UNCHANGED registry
<1> USE DEF registry, registryVars
<1>1. ASSUME NEW t \in Tasks, Claim(t) \/ WaitForSend(t) \/ SendTimeout(t)
      PROVE  UNCHANGED registry
  BY <1>1 DEF Claim, WaitForSend, SendTimeout
<1>2. ASSUME NEW t \in Tasks, TaskStep(t) PROVE UNCHANGED registry
  BY <1>2 DEF TaskStep, TryWriteWakeup, QueueWakeup, Send
<1>3. ASSUME NEW s \in Sessions, WriteLoop(s) PROVE UNCHANGED registry
  BY <1>3 DEF WriteLoop, StartLoop, WriteLoopTake, WriteLoopWrite, WriteLoopSent,
              WriteLoopFail, WriteLoopStop, WriteLoopEnd
<1>4. ASSUME NEW s \in Sessions, ReadLoop(s) PROVE UNCHANGED registry
  BY <1>4 DEF ReadLoop, StartLoop, ReadLoopEof, ReadLoopStop
<1>5. ASSUME NEW s \in Sessions, PeerReads(s) \/ LinkDown(s) PROVE UNCHANGED registry
  BY <1>5 DEF PeerReads, PeerFill, PeerHandle, PeerPayload, LinkDown
<1> QED BY <1>1, <1>2, <1>3, <1>4, <1>5

(* Neither do the streams, the pool and the session manager's own close. *)
LEMMA StreamsApart ==
  ASSUME \/ \E s \in Sessions :
              \/ CloseSession(s) \/ ClosePool(s) \/ NotifyClosed(s) \/ CloseStreams(s)
              \/ OpenCircuitBreaker(s) \/ CloseCircuitBreaker(s)
         \/ ManagerClose \/ ManagerCloseSlot \/ ManagerClosed
         \/ \E s \in Sessions, k \in 1..MaxStreams : PeerCloses(s, k)
         \/ \E u \in Users :
              \/ OpenStream(u) \/ PushStream(u) \/ FinishRelease(u) \/ CancelRelease(u)
              \/ \E s \in Sessions :
                   \/ GetOrOpenStream(u, s)
                   \/ PutOrCloseStream(u, "put_back", s) \/ PutOrCloseStream(u, "reuse", s)
         \/ \E i \in Slots :
              RebuildStart(i) \/ RebuildWatch(i) \/ RebuildStop(i) \/ RebuildDone(i)
  PROVE  UNCHANGED registry
<1> USE DEF registry, registryVars
<1>1. ASSUME NEW s \in Sessions,
             \/ CloseSession(s) \/ ClosePool(s) \/ NotifyClosed(s) \/ CloseStreams(s)
             \/ OpenCircuitBreaker(s) \/ CloseCircuitBreaker(s)
      PROVE  UNCHANGED registry
  BY <1>1 DEF CloseSession, ClosePool, NotifyClosed, CloseStreams,
              OpenCircuitBreaker, CloseCircuitBreaker
<1>2. ASSUME ManagerClose \/ ManagerCloseSlot \/ ManagerClosed PROVE UNCHANGED registry
  BY <1>2 DEF ManagerClose, ManagerCloseSlot, ManagerClosed
<1>3. ASSUME NEW u \in Users,
             OpenStream(u) \/ PushStream(u) \/ FinishRelease(u) \/ CancelRelease(u)
      PROVE  UNCHANGED registry
  BY <1>3 DEF OpenStream, PushStream, FinishRelease, CancelRelease
<1>4. ASSUME NEW u \in Users, NEW s \in Sessions,
             \/ GetOrOpenStream(u, s)
             \/ PutOrCloseStream(u, "put_back", s) \/ PutOrCloseStream(u, "reuse", s)
      PROVE  UNCHANGED registry
  BY <1>4 DEF GetOrOpenStream, PutOrCloseStream
<1>6. ASSUME NEW s \in Sessions, NEW k \in 1..MaxStreams, PeerCloses(s, k)
      PROVE  UNCHANGED registry
  BY <1>6 DEF PeerCloses
<1>5. ASSUME NEW i \in Slots,
             RebuildStart(i) \/ RebuildWatch(i) \/ RebuildStop(i) \/ RebuildDone(i)
      PROVE  UNCHANGED registry
  BY <1>5 DEF RebuildStart, RebuildWatch, RebuildStop, RebuildDone
<1> QED BY <1>1, <1>2, <1>3, <1>4, <1>5, <1>6

(* Every step keeps the registry's invariant. *)
LEMMA RegistryStep ==
  ASSUME conf \in Confs, RegistryInv, Next
  PROVE  conf' \in Confs /\ RegistryInv'
<1>1. CASE UNCHANGED registry
  BY <1>1 DEF registry, RegistryInv, RegistryType, OneHolder, OutIsOut
<1>2. ASSUME NEW s \in Sessions, CloseTakeOut(s) \/ ClosePutBack(s)
      PROVE  conf' \in Confs /\ RegistryInv'
  <2>1. Me(s) \in Holders
    BY DEF Holders
  <2>2. conf' = conf
    BY <1>2 DEF CloseTakeOut, ClosePutBack
  <2>3. TakeOut(Me(s)) \/ PutBack(Me(s))
    BY <1>2 DEF CloseTakeOut, ClosePutBack
  <2> QED BY <2>1, <2>2, <2>3, TakeOutKeeps, PutBackKeeps
<1>3. ASSUME NEW i \in Slots, RebuildFail(i) \/ RebuildUndo(i)
      PROVE  conf' \in Confs /\ RegistryInv'
  <2>1. Task(i) \in Holders
    BY DEF Holders
  <2>2. conf' = conf
    BY <1>3 DEF RebuildFail, RebuildUndo
  <2>3. TakeOut(Task(i)) \/ PutBack(Task(i))
    BY <1>3 DEF RebuildFail, RebuildUndo
  <2> QED BY <2>1, <2>2, <2>3, TakeOutKeeps, PutBackKeeps
<1>4. ASSUME NEW i \in Slots, RebuildConnect(i)
      PROVE  conf' \in Confs /\ RegistryInv'
  <2>1. PICK p \in Managers : GetManager(p)
    BY <1>4 DEF RebuildConnect
  <2>2. conf' = conf /\ hand' = hand
    BY <1>4 DEF RebuildConnect
  <2> QED BY <2>1, <2>2, GetKeeps
<1>5. conf.slots \subseteq Slots
  BY ConfsAssumption
<1>6. \/ UNCHANGED registry
      \/ \E s \in Sessions : CloseTakeOut(s) \/ ClosePutBack(s)
      \/ \E i \in Slots : RebuildFail(i) \/ RebuildUndo(i) \/ RebuildConnect(i)
  BY <1>5, WireApart, StreamsApart DEF Next, CloseStep, RebuildStep
<1> QED BY <1>1, <1>2, <1>3, <1>4, <1>6

(* For any number of sessions and managers, and however their opens        *)
(* and closes interleave between the two halves of a count: the manager    *)
(* that the registry hands to the next session is mapped.                  *)
THEOREM RegistryIsAlive == Spec => []NoDeadManager
<1>1. Init => conf \in Confs /\ RegistryInv
  BY InitRegistry DEF Init
<1>2. (conf \in Confs /\ RegistryInv) /\ [Next]_vars => (conf \in Confs /\ RegistryInv)'
  <2> SUFFICES ASSUME conf \in Confs, RegistryInv, [Next]_vars
               PROVE  conf' \in Confs /\ RegistryInv'
    OBVIOUS
  <2>1. CASE UNCHANGED vars
    BY <2>1 DEF vars, registryVars, RegistryInv, RegistryType, OneHolder, OutIsOut
  <2>2. CASE Next
    BY <2>2, RegistryStep
  <2> QED BY <2>1, <2>2
<1>3. conf \in Confs /\ RegistryInv => NoDeadManager
  BY DEF RegistryInv, NoDeadManager
<1> QED BY <1>1, <1>2, <1>3, PTL DEF Spec
=============================================================================
