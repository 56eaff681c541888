------------------------------ MODULE Segment ------------------------------
(***************************************************************************)
(* The V5 shared-memory segment of one side of a session (src/v5/dynshm.rs *)
(* and src/v5/region.rs): the LocalManager of the process that owns it,    *)
(* with its shared regions, dedicated regions and cleanup thread, and the  *)
(* RemoteManager of the peer that maps it and reports what it has finished *)
(* with over the release queue.                                            *)
(*                                                                         *)
(* Every operation that takes a lock is one step per locked section, so    *)
(* several threads of the owner (writers and the cleanup thread) and the   *)
(* peer interleave between a drain's pops and frees, between the regions   *)
(* an allocation tries and between the regions a prune visits.  Clocks are *)
(* left out: whether a region is old enough to be punched is a choice.     *)
(***************************************************************************)
EXTENDS Allocators

CONSTANTS
    Writers,   \* the threads that allocate: one per writing stream
    RqCap,     \* capacity of the release queue
    Confs      \* the segments considered, see IsConf

Cleaner  == "cleaner"
Threads  == Writers \cup {Cleaner}
NoThread == "none"

\* The arguments of new_with_size: g is the geometry of a shared region, shared
\* how many there are, pinned how many are never punched and dedicated what is
\* left behind them, in units.
IsConf(c) ==
    /\ IsGeometry(c.g)
    /\ c.shared \in Nat /\ c.pinned \in 0..c.shared /\ c.dedicated \in Nat

ASSUME SegmentAssumption ==
    /\ RqCap \in Nat \ {0}
    /\ Writers \cap {Cleaner, NoThread} = {}
    /\ \A c \in Confs : IsConf(c)

VARIABLES
    conf,            \* the segment at hand, chosen once
    shared,          \* shared_regions: allocator, allocs, active, stale of each
    hdr,             \* the DynShmBufferHeader at each offset of the mapping
    dedicated,       \* Dedicated::regions, the lowest last
    cursor,          \* alloc_idx, modulo the pinned regions
    rq,              \* the release queue, a FIFO
    drainer,         \* who holds the consumer's lock of the release queue
    inHand,          \* the offset the drainer popped and has not freed; 0 if none
    op,              \* what each thread of the owner is doing in the manager
    shutdown,        \* Shutdown::closed
    closed,          \* LocalManager::closed
    pendingRelease,  \* RemoteManager::pending_release
    remoteClosed     \* RemoteManager::closed

segment == <<shared, hdr, dedicated, cursor, rq, drainer, inHand, op, shutdown,
             closed, pendingRelease, remoteClosed>>

----------------------------------------------------------------------------
(* Layout: release queue, shared regions, dedicated regions from the end.  *)

G         == conf.g
Base      == 1                              \* RQ_SIZE: no block starts below
SharedEnd == Base + conf.shared * G.arena   \* max_shared_offset
SegSize   == SharedEnd + conf.dedicated
Offsets   == Base..(SegSize - 1)

RegionOf(o) == (o - Base) \div G.arena + 1
UnitOf(o)   == (o - Base) % G.arena
OffsetOf(r, u) == Base + (r - 1) * G.arena + u

\* A header no buffer lives behind.  A free writes only the offset, but nobody
\* looks at the other fields of a header whose offset is zero, and the next
\* allocation writes all four.
ZeroHdr == [offset |-> 0, next |-> 0, len |-> 0, cap |-> 0]
Header(o, n, cap) == [offset |-> o, next |-> 0, len |-> n, cap |-> cap]

NewRegion == [al |-> NewAllocator(G), allocs |-> 0, active |-> FALSE, stale |-> FALSE]

Idle == [pc |-> "idle", size |-> 0, todo |-> <<>>, last |-> FALSE]

SegmentInit ==
    /\ conf \in Confs
    /\ shared = [r \in 1..conf.shared |-> NewRegion]
    /\ hdr = [o \in Offsets |-> ZeroHdr]
    /\ dedicated = <<>>
    /\ cursor = 0
    /\ rq = <<>> /\ drainer = NoThread /\ inHand = 0
    /\ op = [t \in Threads |-> IF t = Cleaner THEN [Idle EXCEPT !.pc = "wait"] ELSE Idle]
    /\ shutdown = FALSE /\ closed = FALSE
    /\ pendingRelease = <<>> /\ remoteClosed = FALSE

----------------------------------------------------------------------------
(* LocalSharedRegion and LocalDedicatedRegion                              *)

\* LocalSharedRegion::alloc of region r: an inactive region is activated, its
\* lists rebuilt if a punch made them stale.
RegionAlloc(r, n) ==
    LET x   == shared[r]
        a   == IF ~x.active /\ x.stale THEN ResetLists(G, x.al) ELSE x.al
        got == Alloc(G, a, n)
        ok  == got.at # None
    IN  [at |-> IF ok THEN OffsetOf(r, got.at) ELSE 0,
         cap |-> got.cap,
         region |-> [al |-> got.a, active |-> TRUE, stale |-> FALSE,
                     allocs |-> (IF x.active THEN x.allocs ELSE 0) + (IF ok THEN 1 ELSE 0)]]

\* LocalSharedRegion::free_at: the buffer header is cleared before the
\* allocator is asked, and the allocator may still refuse.
RegionFree(o) ==
    LET r    == RegionOf(o)
        u    == UnitOf(o)
        live == IsValidOffset(G, u) /\ hdr[o].offset # 0
    IN  /\ hdr' = IF live THEN [hdr EXCEPT ![o] = ZeroHdr] ELSE hdr
        /\ shared' = IF live /\ LiveClass(G, shared[r].al, u) # {}
                     THEN [shared EXCEPT
                             ![r].al = Release(G, @, u),
                             ![r].allocs = IF @ > 0 THEN @ - 1 ELSE 0]
                     ELSE shared
        /\ UNCHANGED dedicated

\* Dedicated::offset: where the lowest dedicated region starts.
DedicatedOffset == IF dedicated = <<>> THEN SegSize ELSE Last(dedicated).offset

IsFreed(d) == hdr[d.offset].offset = 0

\* calc_dedicated_region_size
DedicatedSize(n) == ((n + MaxBlock(G) - 1) \div MaxBlock(G)) * MaxBlock(G)

\* The first freed region of about the right size, 0 when there is none.
Reusable(n) ==
    SelectInSeq(dedicated, LAMBDA d : /\ IsFreed(d)
                                      /\ d.size >= DedicatedSize(n)
                                      /\ d.size =< DedicatedSize(n) + MaxBlock(G))

\* alloc_dedicated, under the lock of the dedicated area.
DedicatedAlloc(n) ==
    LET i   == Reusable(n)
        new == DedicatedOffset - DedicatedSize(n)
    IN  IF i # 0
        THEN [at |-> dedicated[i].offset, cap |-> dedicated[i].size,
              regions |-> [dedicated EXCEPT ![i].punched = FALSE]]
        ELSE IF new >= SharedEnd
        THEN [at |-> new, cap |-> DedicatedSize(n),
              regions |-> Append(dedicated, [offset |-> new, size |-> DedicatedSize(n),
                                             punched |-> FALSE])]
        ELSE [at |-> 0, cap |-> 0, regions |-> dedicated]

DedicatedFree(o) ==
    LET i == SelectInSeq(dedicated, LAMBDA d : d.offset = o)
        live == i # 0 /\ ~IsFreed(dedicated[i])
    IN  /\ hdr' = IF live THEN [hdr EXCEPT ![o] = ZeroHdr] ELSE hdr
        /\ dedicated' = IF live THEN [dedicated EXCEPT ![i].punched = FALSE] ELSE dedicated
        /\ UNCHANGED shared

\* free_at_inner
FreeAtInner(o) == IF o < SharedEnd THEN RegionFree(o) ELSE DedicatedFree(o)


----------------------------------------------------------------------------
(* LocalManager                                                            *)

\* The shared regions in the order alloc tries them: the pinned ones from the
\* cursor on, then the others.
TryOrder(start) ==
    [i \in 1..conf.shared |->
        IF i =< conf.pinned THEN ((start + i - 1) % conf.pinned) + 1 ELSE i]

\* The regions a prune visits: the pinned ones are left alone.
PruneOrder == [i \in 1..(conf.shared - conf.pinned) |-> conf.pinned + i]

\* The part of alloc behind the drain: the cursor moves on when there are
\* pinned regions to spread over.
StartPlacing(t, n) ==
    LET pinned == n =< MaxBlock(G) /\ conf.pinned > 0
        next   == IF pinned THEN (cursor + 1) % conf.pinned ELSE cursor
    IN  /\ cursor' = next
        /\ op' = [op EXCEPT ![t].pc = "place", ![t].size = n, ![t].todo = TryOrder(next)]

\* alloc up to the drain: with releases waiting, and the consumer's lock free,
\* this thread becomes the drainer.
AllocBegin(t, n) ==
    /\ op[t].pc = "idle" /\ ~closed
    /\ IF rq # <<>> /\ drainer = NoThread
       THEN /\ drainer' = t
            /\ op' = [op EXCEPT ![t].pc = "drain", ![t].size = n]
            /\ UNCHANGED cursor
       ELSE StartPlacing(t, n) /\ UNCHANGED drainer
    /\ UNCHANGED <<shared, hdr, dedicated, rq, inHand, shutdown, closed,
                   pendingRelease, remoteClosed>>

\* One turn of drain_rq_inner's loop is a pop and, in a step of its own, the free.
DrainPop(t) ==
    /\ drainer = t /\ inHand = 0 /\ rq # <<>>
    /\ inHand' = Head(rq) /\ rq' = Tail(rq)
    /\ UNCHANGED <<shared, hdr, dedicated, cursor, drainer, op, shutdown, closed,
                   pendingRelease, remoteClosed>>

DrainFree(t) ==
    /\ drainer = t /\ inHand # 0
    /\ FreeAtInner(inHand)
    /\ inHand' = 0
    /\ UNCHANGED <<cursor, rq, drainer, op, shutdown, closed, pendingRelease,
                   remoteClosed>>

DrainEnd(t) ==
    /\ drainer = t /\ inHand = 0 /\ rq = <<>>
    /\ drainer' = NoThread
    /\ IF t = Cleaner
       THEN /\ op' = [op EXCEPT ![t].pc = "prune", ![t].todo = PruneOrder]
            /\ UNCHANGED cursor
       ELSE StartPlacing(t, op[t].size)
    /\ UNCHANGED <<shared, hdr, dedicated, rq, inHand, shutdown, closed,
                   pendingRelease, remoteClosed>>

\* What thread t gets when it tries its next region, or the dedicated area.
IsDedicated(t) == op[t].size > MaxBlock(G)

Attempt(t) ==
    IF IsDedicated(t) THEN DedicatedAlloc(op[t].size)
    ELSE RegionAlloc(Head(op[t].todo), op[t].size)

\* The step of thread t at its next region, which gave `got`: the region keeps
\* what trying did to it, with or without success.
Place(t, got) ==
    /\ op[t].pc = "place" /\ (IsDedicated(t) \/ op[t].todo # <<>>)
    /\ IF IsDedicated(t)
       THEN dedicated' = got.regions /\ UNCHANGED shared
       ELSE shared' = [shared EXCEPT ![Head(op[t].todo)] = got.region] /\ UNCHANGED dedicated
    /\ op' = [op EXCEPT ![t] = IF got.at # 0 \/ IsDedicated(t) \/ Len(op[t].todo) = 1
                               THEN Idle ELSE [@ EXCEPT !.todo = Tail(@)]]
    /\ UNCHANGED <<cursor, rq, drainer, inHand, shutdown, closed, pendingRelease,
                   remoteClosed>>

\* free_at, for a block that never reached the peer.
FreeAt(o) ==
    /\ IF closed THEN UNCHANGED <<shared, hdr, dedicated>> ELSE FreeAtInner(o)
    /\ UNCHANGED <<cursor, rq, drainer, inHand, op, shutdown, closed, pendingRelease,
                   remoteClosed>>

----------------------------------------------------------------------------
(* cleanup_loop: wait for the tick or the shutdown, drain, prune, repeat.  *)

\* Mutant: the cleanup thread only prunes.
TickWithoutDrain ==
    /\ op[Cleaner].pc = "wait"
    /\ op' = [op EXCEPT ![Cleaner] = [pc |-> "prune", size |-> 0, todo |-> PruneOrder,
                                      last |-> shutdown]]
    /\ UNCHANGED <<shared, hdr, dedicated, cursor, rq, drainer, inHand, shutdown, closed,
                   pendingRelease, remoteClosed>>

Tick ==
    /\ op[Cleaner].pc = "wait"
    /\ IF drainer = NoThread
       THEN /\ drainer' = Cleaner
            /\ op' = [op EXCEPT ![Cleaner] = [pc |-> "drain", size |-> 0, todo |-> <<>>,
                                              last |-> shutdown]]
       ELSE /\ op' = [op EXCEPT ![Cleaner] = [pc |-> "prune", size |-> 0,
                                              todo |-> PruneOrder, last |-> shutdown]]
            /\ UNCHANGED drainer
    /\ UNCHANGED <<shared, hdr, dedicated, cursor, rq, inHand, shutdown, closed,
                   pendingRelease, remoteClosed>>

\* What a hole punched in [from, from + size) leaves: zeroes.
Punched(from, size) ==
    [o \in Offsets |-> IF o \in from..(from + size - 1) THEN ZeroHdr ELSE hdr[o]]

\* Mutant: the age alone decides.
PunchIfOld(r) ==
    /\ shared[r].active
    /\ hdr' = Punched(OffsetOf(r, 0), G.arena)
    /\ shared' = [shared EXCEPT
                    ![r].active = FALSE, ![r].stale = TRUE,
                    ![r].al.magic = [u \in Units(G) |-> None]]

\* punch_if_idle of the next region that is not pinned.
PunchIfIdle(r) ==
    /\ shared[r].allocs = 0 /\ shared[r].active
    /\ hdr' = Punched(OffsetOf(r, 0), G.arena)
    /\ shared' = [shared EXCEPT
                    ![r].active = FALSE, ![r].stale = TRUE,
                    ![r].al.magic = [u \in Units(G) |-> None]]

PruneShared ==
    /\ op[Cleaner].pc = "prune" /\ op[Cleaner].todo # <<>>
    /\ \/ PunchIfIdle(Head(op[Cleaner].todo))
       \/ UNCHANGED <<shared, hdr>>
    /\ op' = [op EXCEPT ![Cleaner].todo = Tail(@)]
    /\ UNCHANGED <<dedicated, cursor, rq, drainer, inHand, shutdown, closed,
                   pendingRelease, remoteClosed>>

\* The dedicated half of prune_idle_regions: some of the freed regions are old
\* enough to be punched, then the punched ones at the low end are dropped.
PunchOld(old) ==
    [i \in DOMAIN dedicated |-> IF i \in old THEN [dedicated[i] EXCEPT !.punched = TRUE]
                                ELSE dedicated[i]]

Trim(regions) ==
    LET keep == {i \in DOMAIN regions : ~regions[i].punched}
    IN  IF keep = {} THEN <<>> ELSE SubSeq(regions, 1, Max(keep))

PruneDedicated ==
    /\ op[Cleaner].pc = "prune" /\ op[Cleaner].todo = <<>>
    /\ \E old \in SUBSET {i \in DOMAIN dedicated : ~dedicated[i].punched /\ IsFreed(dedicated[i])} :
          /\ dedicated' = Trim(PunchOld(old))
          /\ hdr' = [o \in Offsets |->
                        IF \E i \in old : o \in dedicated[i].offset
                                                ..(dedicated[i].offset + dedicated[i].size - 1)
                        THEN ZeroHdr ELSE hdr[o]]
    /\ op' = [op EXCEPT ![Cleaner].pc = IF op[Cleaner].last THEN "exit" ELSE "wait",
                        ![Cleaner].last = FALSE]
    /\ UNCHANGED <<shared, cursor, rq, drainer, inHand, shutdown, closed, pendingRelease,
                   remoteClosed>>

\* close_all signals the cleanup thread, joins it, and only then refuses work.
CloseAllSignal ==
    /\ ~shutdown /\ shutdown' = TRUE
    /\ UNCHANGED <<shared, hdr, dedicated, cursor, rq, drainer, inHand, op, closed,
                   pendingRelease, remoteClosed>>

CloseAllJoined ==
    /\ shutdown /\ ~closed /\ op[Cleaner].pc = "exit"
    /\ closed' = TRUE
    /\ UNCHANGED <<shared, hdr, dedicated, cursor, rq, drainer, inHand, op, shutdown,
                   pendingRelease, remoteClosed>>

----------------------------------------------------------------------------
(* RemoteManager                                                           *)

\* read_inner: the header names its own offset and its data fits.
IsReadable(o) == o \in Offsets /\ hdr[o].offset = o /\ hdr[o].len =< hdr[o].cap

\* The blocks a walk from a root visits, for as long as they can be read.
Chain(root) ==
    LET walk[k \in Nat] ==
            IF k = 0 THEN IF IsReadable(root) THEN <<root>> ELSE <<>>
            ELSE LET s == walk[k - 1]
                     n == IF s = <<>> THEN 0 ELSE hdr[Last(s)].next
                 IN  IF n # 0 /\ ~Contains(s, n) /\ IsReadable(n) THEN Append(s, n) ELSE s
    IN  walk[Cardinality(Offsets)]

\* free and free_chain: what is live joins the pending releases, and as many
\* as the queue has room for go to the owner, oldest first (flush_releases).
FlushReleases(pending) ==
    LET k == Min({Len(pending), RqCap - Len(rq)})
    IN  /\ rq' = rq \o SubSeq(pending, 1, k)
        /\ pendingRelease' = SubSeq(pending, k + 1, Len(pending))

RemoteFree(offsets) ==
    /\ IF remoteClosed THEN UNCHANGED <<rq, pendingRelease>>
       ELSE FlushReleases(pendingRelease \o SelectSeq(offsets, LAMBDA o : hdr[o].offset = o))
    /\ UNCHANGED <<shared, hdr, dedicated, cursor, drainer, inHand, op, shutdown, closed,
                   remoteClosed>>

RetryPendingReleases == pendingRelease # <<>> /\ RemoteFree(<<>>)

RemoteCloseAll ==
    /\ ~remoteClosed /\ remoteClosed' = TRUE /\ pendingRelease' = <<>>
    /\ UNCHANGED <<shared, hdr, dedicated, cursor, rq, drainer, inHand, op, shutdown, closed>>

============================================================================
