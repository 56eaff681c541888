----------------------------- MODULE BuffersV5 -----------------------------
(***************************************************************************)
(* The V5 read and write buffers (src/buffer/buf_v5.rs) at work on one     *)
(* segment: writers of the owning process carve blocks, link them into a   *)
(* chain and hand its root to the peer; the peer walks the chain, reads    *)
(* with and without copying, and gives every block back.                   *)
(*                                                                         *)
(* A block moves through these places, and nothing else says whose it is:  *)
(*   pending -> outgoing -> transit -> inbox -> ready -> leases            *)
(*           -> pendingRelease -> rq -> inHand -> the free lists           *)
(* with toFree for what a writer takes back.  Streams, generations and the *)
(* socket path are those of SessionV5; here a message that fell back only  *)
(* matters for the blocks it no longer needs.                              *)
(***************************************************************************)
EXTENDS Segment

CONSTANTS
    QueueCap,   \* bound: roots on their way to the peer
    Watched     \* any offset: the one ReleasedIsReclaimed follows

\* Next to its segment, a configuration bounds what is done with it: sizes are
\* the payload sizes a writer reserves, in units, blocks the blocks in one
\* message, live the blocks allocated at once, leases the zero-copy reads of one
\* block alive at once (without any, a reader takes whole chunks), and closes
\* whether the session ends.
ASSUME BuffersAssumption ==
    /\ QueueCap \in Nat \ {0}
    /\ \A c \in Confs : /\ c.sizes \subseteq Nat \ {0} /\ c.closes \in BOOLEAN
                        /\ c.blocks \in Nat /\ c.live \in Nat /\ c.leases \in Nat

VARIABLES
    pending,    \* V5WriteBuffer::pending of each writer
    fallback,   \* whether its V5WriteBuffer::fallback holds bytes
    outgoing,   \* V5Outgoing::allocs of the flush under way
    toFree,     \* blocks the writer is giving back one by one
    transit,    \* roots in the session's queue
    inbox,      \* V5Inbox::pending of the reading stream
    ready,      \* V5ReadBuffer::ready: offset and unread units of each chunk
    leases      \* how many ShmBufs hold the V5Pin of each block

buffers == <<pending, fallback, outgoing, toFree, transit, inbox, ready, leases>>
vars    == <<conf, segment, buffers>>

Empty == [w \in Writers |-> <<>>]

Init ==
    /\ SegmentInit
    /\ pending = Empty /\ outgoing = Empty /\ toFree = Empty
    /\ fallback = [w \in Writers |-> FALSE]
    /\ transit = <<>> /\ inbox = <<>> /\ ready = <<>>
    /\ leases = [o \in Offsets |-> 0]

LiveBlocks == {o \in Offsets : hdr[o].offset # 0}

----------------------------------------------------------------------------
(* V5WriteBuffer                                                           *)

\* The writer is between two calls on its buffer.
AtRest(w) == op[w].pc = "idle" /\ outgoing[w] = <<>> /\ toFree[w] = <<>>

Fits(w, n) ==
    pending[w] # <<>> /\ hdr[Last(pending[w])].len + n =< hdr[Last(pending[w])].cap

\* reserve, when the last block has room.
ReserveInLast(w, n) ==
    /\ AtRest(w) /\ ~fallback[w] /\ Fits(w, n)
    /\ hdr' = [hdr EXCEPT ![Last(pending[w])].len = @ + n]
    /\ UNCHANGED <<conf, shared, dedicated, cursor, rq, drainer, inHand, op, shutdown,
                   closed, pendingRelease, remoteClosed, buffers>>

\* reserve, when it takes a block of its own.
ReserveBlock(w, n) ==
    /\ AtRest(w) /\ ~fallback[w] /\ ~Fits(w, n) /\ Len(pending[w]) < conf.blocks
    /\ Cardinality(LiveBlocks) < conf.live
    /\ AllocBegin(w, n)
    /\ UNCHANGED <<conf, buffers>>

\* reserve of a stream in fallback, or past the transfer limit: the bytes go to
\* the heap and take the whole message with them.
ReserveHeap(w) ==
    /\ AtRest(w) /\ ~fallback[w]
    /\ fallback' = [fallback EXCEPT ![w] = TRUE]
    /\ UNCHANGED <<conf, segment, pending, outgoing, toFree, transit, inbox, ready, leases>>

\* The new block is linked behind the last one.
Linked(w, got) ==
    LET h == [hdr EXCEPT ![got.at] = Header(got.at, op[w].size, got.cap)]
    IN  IF pending[w] = <<>> THEN h
        ELSE [h EXCEPT ![Last(pending[w])].next = got.at]

\* The allocation tries its next region; without any left the bytes go to the
\* heap.
TryPlace(w) ==
    LET got == Attempt(w)
    IN  /\ Place(w, got)
        /\ IF got.at # 0
           THEN /\ hdr' = Linked(w, got)
                /\ pending' = [pending EXCEPT ![w] = Append(@, got.at)]
                /\ UNCHANGED fallback
           ELSE /\ fallback' = [fallback EXCEPT ![w] = op'[w].pc = "idle"]
                /\ UNCHANGED <<hdr, pending>>
        /\ UNCHANGED <<conf, outgoing, toFree, transit, inbox, ready, leases>>

TakeShm(w) ==
    /\ AtRest(w) /\ ~fallback[w] /\ pending[w] # <<>>
    /\ outgoing' = [outgoing EXCEPT ![w] = pending[w]]
    /\ pending' = [pending EXCEPT ![w] = <<>>]
    /\ UNCHANGED <<conf, segment, fallback, toFree, transit, inbox, ready, leases>>

\* The queue took the root: the blocks are the peer's, and recycle forgets them.
HandOver(w) ==
    /\ outgoing[w] # <<>> /\ Len(transit) < QueueCap
    /\ transit' = Append(transit, Head(outgoing[w]))
    /\ outgoing' = [outgoing EXCEPT ![w] = <<>>]
    /\ UNCHANGED <<conf, segment, pending, fallback, toFree, inbox, ready, leases>>

\* The flush failed or was cancelled, so V5Outgoing drops with its blocks.
DropOutgoing(w) ==
    /\ outgoing[w] # <<>>
    /\ toFree' = [toFree EXCEPT ![w] = outgoing[w]]
    /\ outgoing' = [outgoing EXCEPT ![w] = <<>>]
    /\ UNCHANGED <<conf, segment, pending, fallback, transit, inbox, ready, leases>>

\* The message goes over the socket: its chunks drop once they are written.
TakeFallback(w) ==
    /\ AtRest(w) /\ fallback[w]
    /\ toFree' = [toFree EXCEPT ![w] = pending[w]]
    /\ pending' = [pending EXCEPT ![w] = <<>>]
    /\ fallback' = [fallback EXCEPT ![w] = FALSE]
    /\ UNCHANGED <<conf, segment, outgoing, transit, inbox, ready, leases>>

\* The stream closes or drops with an unsent message.
Discard(w) ==
    /\ AtRest(w) /\ pending[w] # <<>>
    /\ toFree' = [toFree EXCEPT ![w] = pending[w]]
    /\ pending' = [pending EXCEPT ![w] = <<>>]
    /\ fallback' = [fallback EXCEPT ![w] = FALSE]
    /\ UNCHANGED <<conf, segment, outgoing, transit, inbox, ready, leases>>

\* The loops of discard, V5Outgoing::drop and DynShmOwned::drop.
FreeNext(w) ==
    /\ toFree[w] # <<>>
    /\ FreeAt(Head(toFree[w]))
    /\ toFree' = [toFree EXCEPT ![w] = Tail(@)]
    /\ UNCHANGED <<conf, pending, fallback, outgoing, transit, inbox, ready, leases>>

----------------------------------------------------------------------------
(* V5Inbox and V5ReadBuffer                                                *)

Deliver ==
    /\ transit # <<>> /\ ~remoteClosed
    /\ inbox' = Append(inbox, Head(transit)) /\ transit' = Tail(transit)
    /\ UNCHANGED <<conf, segment, pending, fallback, outgoing, toFree, ready, leases>>

\* The stream the message was for is gone or reused: the event loop frees it.
Refuse ==
    /\ transit # <<>> /\ ~remoteClosed
    /\ RemoteFree(Chain(Head(transit))) /\ transit' = Tail(transit)
    /\ UNCHANGED <<conf, pending, fallback, outgoing, toFree, inbox, ready, leases>>

Chunks(root) == [i \in DOMAIN Chain(root) |->
                    [offset |-> Chain(root)[i], left |-> hdr[Chain(root)[i]].len]]

\* drain_pending, with walk_chain of every root.
DrainPending ==
    /\ inbox # <<>> /\ ~remoteClosed
    /\ ready' = ready \o FlattenSeq([i \in DOMAIN inbox |-> Chunks(inbox[i])])
    /\ inbox' = <<>>
    /\ UNCHANGED <<conf, segment, pending, fallback, outgoing, toFree, transit, leases>>

\* Takes n units off the front chunk; a spent one is popped.
Advance(n) ==
    ready' = IF Head(ready).left = n THEN Tail(ready)
             ELSE <<[Head(ready) EXCEPT !.left = @ - n]>> \o Tail(ready)

\* A reader takes one unit of the front chunk or all that is left of it.
Portion == {Head(ready).left} \cup (IF conf.leases > 0 THEN {1} ELSE {})

\* A lease on the front block, which a V5Pin keeps for as long as it lives.
Lease ==
    /\ leases[Head(ready).offset] < conf.leases
    /\ leases' = [leases EXCEPT ![Head(ready).offset] = @ + 1]

\* read_exact_bytes of what the front block holds.
ReadZeroCopy ==
    /\ ready # <<>> /\ Lease
    /\ \E n \in Portion : Advance(n)
    /\ UNCHANGED <<conf, segment, pending, fallback, outgoing, toFree, transit, inbox>>

Peek ==
    /\ ready # <<>> /\ Lease
    /\ UNCHANGED <<conf, segment, pending, fallback, outgoing, toFree, transit, inbox, ready>>

\* read, discard and a read_exact_bytes that spans blocks, block by block: one
\* that is spent and not leased goes back at once (pop_if_spent, release).
ReadCopy ==
    /\ ready # <<>>
    /\ \E n \in Portion :
          /\ Advance(n)
          /\ RemoteFree(IF n = Head(ready).left /\ leases[Head(ready).offset] = 0
                        THEN <<Head(ready).offset>> ELSE <<>>)
    /\ UNCHANGED <<conf, pending, fallback, outgoing, toFree, transit, inbox, leases>>

InReady(o) == \E i \in DOMAIN ready : ready[i].offset = o

\* Mutant: the last ShmBuf gives the block back though the chunk is unread.
DropLeaseEagerly(o) ==
    /\ leases[o] > 0
    /\ leases' = [leases EXCEPT ![o] = @ - 1]
    /\ RemoteFree(IF leases[o] = 1 THEN <<o>> ELSE <<>>)
    /\ UNCHANGED <<conf, pending, fallback, outgoing, toFree, transit, inbox, ready>>

\* A ShmBuf drops; the last holder of a pin gives the block back.
DropLease(o) ==
    /\ leases[o] > 0
    /\ leases' = [leases EXCEPT ![o] = @ - 1]
    /\ RemoteFree(IF leases[o] = 1 /\ ~InReady(o) THEN <<o>> ELSE <<>>)
    /\ UNCHANGED <<conf, pending, fallback, outgoing, toFree, transit, inbox, ready>>

\* The reading stream drops: what it made readable and what its inbox still
\* holds go back, except for leased blocks, whose pins will do it.
DropReader ==
    /\ inbox # <<>> \/ ready # <<>>
    /\ RemoteFree(SelectSeq([i \in DOMAIN ready |-> ready[i].offset],
                            LAMBDA o : leases[o] = 0)
                  \o FlattenSeq([i \in DOMAIN inbox |-> Chain(inbox[i])]))
    /\ ready' = <<>> /\ inbox' = <<>>
    /\ UNCHANGED <<conf, pending, fallback, outgoing, toFree, transit, leases>>

----------------------------------------------------------------------------
Write(w) ==
    \/ \E n \in conf.sizes : ReserveInLast(w, n) \/ ReserveBlock(w, n)
    \/ ReserveHeap(w) \/ TryPlace(w) \/ TakeShm(w) \/ HandOver(w)
    \/ DropOutgoing(w) \/ TakeFallback(w) \/ Discard(w)
    \/ FreeNext(w)

Drain(t) == (DrainPop(t) \/ DrainFree(t) \/ DrainEnd(t)) /\ UNCHANGED <<conf, buffers>>

Clean == (Tick \/ PruneShared \/ PruneDedicated) /\ UNCHANGED <<conf, buffers>>

Read ==
    \/ Deliver \/ Refuse \/ DrainPending \/ ReadZeroCopy \/ Peek \/ ReadCopy \/ DropReader
    \/ \E o \in Offsets : DropLease(o)

Close ==
    /\ conf.closes
    /\ CloseAllSignal \/ CloseAllJoined \/ RemoteCloseAll
    /\ UNCHANGED <<conf, buffers>>

Retry == RetryPendingReleases /\ UNCHANGED <<conf, buffers>>

Next ==
    \/ \E w \in Writers : Write(w)
    \/ \E t \in Threads : Drain(t)
    \/ Clean \/ Read \/ Retry \/ Close

Spec == Init /\ [][Next]_vars

\* The owner's threads run: the cleanup thread comes round, and whoever drains
\* the release queue, which is one thread at a time, goes on.
FairSpec ==
    /\ Spec
    /\ WF_vars(Clean)
    /\ WF_vars(\E t \in Threads : Drain(t))

----------------------------------------------------------------------------
(* Properties                                                              *)

\* Every reference to a block anywhere in the two processes, in no special order.
Roots(s) == FlattenSeq([i \in DOMAIN s |-> Chain(s[i])])

OfWriter(w) == pending[w] \o outgoing[w] \o toFree[w]

LeasedOnly == {o \in Offsets : leases[o] > 0 /\ ~InReady(o)}

OfReader ==
    Roots(transit) \o Roots(inbox) \o [i \in DOMAIN ready |-> ready[i].offset]
        \o SetToSeq(LeasedOnly)

Releasing == pendingRelease \o rq \o (IF inHand = 0 THEN <<>> ELSE <<inHand>>)

References ==
    FlattenSeq([i \in 1..Cardinality(Writers) |-> OfWriter(SetToSeq(Writers)[i])])
        \o OfReader \o Releasing

Span(o) == o..(o + hdr[o].cap - 1)

\* A block is in one hand at a time: no two places of the two processes refer to
\* the same block, so no block is freed twice, handed over twice or freed while
\* it is being read; and while both managers are open every allocated block is
\* in some place from which it will be given back.  This is what V5Outgoing,
\* recycle, V5Pin and release are written for.
OneHand ==
    /\ IsInjective(References)
    /\ closed \/ remoteClosed \/ LiveBlocks \subseteq ToSet(References)

\* Whatever somebody still refers to is allocated, with its header intact: no
\* free, reuse or punch comes before the last reference is gone.  What the peer
\* can still read stays so even when the two managers close in any order.
ReferredIsLive ==
    LET refs == IF closed THEN OfReader ELSE References
    IN  \A i \in DOMAIN refs : IsReadable(refs[i])

\* How many blocks and free list entries hold each unit of a shared region.
Covers(r) ==
    [x \in OffsetOf(r, 0)..(OffsetOf(r, 0) + G.arena - 1) |->
        Cardinality({b \in LiveBlocks : b < SharedEnd /\ x \in Span(b)})
        + MapThenSumSet(LAMBDA c : Cardinality({i \in DOMAIN shared[r].al.free[c] :
                LET from == OffsetOf(r, shared[r].al.free[c][i])
                IN  x \in from..(from + ClassSize(G, c) - 1)}), Classes(G))]

\* Dedicated regions lie back to back from the end of the segment, above the
\* shared area, and a block there is a whole region.
DedicatedStack ==
    /\ \A i \in DOMAIN dedicated :
          dedicated[i].offset + dedicated[i].size
            = IF i = 1 THEN SegSize ELSE dedicated[i - 1].offset
    /\ DedicatedOffset >= SharedEnd
    /\ \A o \in LiveBlocks : o >= SharedEnd =>
          \E i \in DOMAIN dedicated :
              o = dedicated[i].offset /\ hdr[o].cap = dedicated[i].size
              /\ ~dedicated[i].punched

\* The free lists and the allocated blocks tile every shared region: no unit is
\* in two blocks and none is lost, through splits, lazy merges, resets after a
\* punch and refused frees.  A stale region's lists are rebuilt before use.  The
\* dedicated regions tile what is left of the segment from its end.
Tiled ==
    /\ \A r \in DOMAIN shared :
        /\ \A x \in DOMAIN Covers(r) : Covers(r)[x] = 1
        /\ shared[r].allocs = Cardinality({b \in LiveBlocks : b < SharedEnd /\ RegionOf(b) = r})
    /\ DedicatedStack

\* Lazy coalescing costs no capacity: the buddy allocator refuses a request only
\* when no aligned run of free units could hold it.
FreeRun(r, c) ==
    \E u \in Units(G) :
        /\ u % 2^c = 0
        /\ \A x \in u..(u + 2^c - 1) :
              ~\E b \in LiveBlocks : b < SharedEnd /\ OffsetOf(r, x) \in Span(b)

RefusesOnlyWhenFull ==
    G.kind = "buddy" =>
        \A r \in DOMAIN shared : \A c \in Classes(G) :
            RegionAlloc(r, 2^c).at = 0 => ~FreeRun(r, c)

\* What the peer put in the release queue is reclaimed, by whichever thread
\* drains first, unless the manager is shutting down.
ReleasedIsReclaimed ==
    Watched \in ToSet(rq) ~> (Watched \notin ToSet(rq) \/ shutdown)

============================================================================
