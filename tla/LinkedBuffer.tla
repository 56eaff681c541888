---------------------------- MODULE LinkedBuffer ----------------------------
(***************************************************************************)
(* The V2 to V4 buffers: the read and the write half of one stream at each *)
(* end (LinkedBuffer), the slices they are made of, the pool both ends     *)
(* take them from (BufferManager) and the zero-copy reads that pin them.   *)
(*                                                                         *)
(* A slice is an id; its header and its bytes are in the shared memory.  A *)
(* byte is its number in the stream, so what a reader gets can be told     *)
(* from what was there before.  BufferList shows what a free list is: here *)
(* it is a sequence whose last slice is never handed out, and an operation *)
(* of a buffer is one step, as its lock or its one owner makes it.  The    *)
(* event queue and the socket are one sequence: their order is SessionV4's *)
(* subject.  A stream is written by one task: close by another handle in   *)
(* the middle of a flush is left out, since nothing in flush_v4 allows it. *)
(***************************************************************************)
EXTENDS Naturals, Sequences, SequencesExt, FiniteSets, TLC

CONSTANTS
  Caps,         \* cap_per_buffer of each free list, ascending
  Class,        \* the list each slice of the pool belongs to
  Heap,         \* bound: allocations outside shared memory alive at once
  HeapCap,      \* DEFAULT_SINGLE_BUFFER_SIZE
  MaxFallback,  \* what a fallback frame can carry
  QueueCap,     \* elements of the event queue
  Leases,       \* bound: zero-copy reads alive at once
  Confs,        \* what the applications do, see conf
  None

Slices == DOMAIN Class
Ids == Slices \union Heap
Ends == {"client", "server"}
Ops == {"chunk", "exact", "peek", "discard", "into", "release", "reuse", "close", "reserve", "write"}

ASSUME PoolAssumption ==
  /\ Class \in Seq(DOMAIN Caps) /\ Heap \intersect Slices = {} /\ 0 \notin Ids
  /\ \A i, j \in DOMAIN Caps : i < j => Caps[i] < Caps[j]
ASSUME ConfsAssumption ==
  \A c \in Confs :
    /\ c.ops \in [Ends -> SUBSET Ops] /\ c.quota \in [Ends -> 0..HeapCap]
    /\ c.sizes \subseteq 1..HeapCap

VARIABLES
  conf,         \* the calls each application makes, the bytes it sends, the sizes it asks for
  pool,         \* the free lists, the headers and bytes of the slices, the free heap ids
  send, recv,   \* the two halves of each end's stream
  pin,          \* what each end's zero-copy reads hold of a slice that left its half: "none",
                \* "retiring" (retire has found it leased), "retired" (its SlicePinState has it)
  lease,        \* the ShmBufs alive
  pending,      \* RecvSide::V4::pending of each end
  wire,         \* what is on its way to each end
  fpc, dpc,     \* flush_v4 of each end: "idle", "retry", "sent"; its event loop: "idle",
                \* "found" (it has the stream), "check" (it has pushed)
  state,        \* StreamShared.state: "open", "half" (the peer closed), then STREAM_CLOSED: as
                \* "closing" until the stream has left the session's map and its buffers are
                \* cleaned, and "closed" after
  in_fallback,
  sent, got     \* ghosts: the bytes each end has sent; what its application read before close

flow == <<pending, wire, fpc, dpc, state, in_fallback, sent, got>>
vars == <<conf, pool, send, recv, pin, lease, flow>>

Blank == [size |-> 0, next |-> 0]
NoBuffer == [list |-> <<>>, w |-> 0, shm |-> TRUE, len |-> 0, slots |-> {}]
CapOf(id) == IF id \in Heap THEN HeapCap ELSE Caps[Class[id]]
Unwritten(id) == [k \in 1..CapOf(id) |-> 0]
Other(e) == CHOOSE x \in Ends : x # e

(* BufferManager::create: every slice is in its list. *)
FreshPool ==
  [free |-> [c \in DOMAIN Caps |-> SetToSortSeq({i \in Slices : Class[i] = c}, <)],
   hdr |-> [i \in Slices |-> Blank], mem |-> [i \in Ids |-> Unwritten(i)],
   heap |-> Heap]

Init ==
  /\ conf \in Confs /\ pool = FreshPool
  /\ send = [e \in Ends |-> NoBuffer] /\ recv = send
  /\ pin = [e \in Ends |-> [i \in Ids |-> "none"]] /\ lease = [l \in Leases |-> None]
  /\ pending = [e \in Ends |-> <<>>] /\ wire = pending
  /\ fpc = [e \in Ends |-> "idle"] /\ dpc = fpc
  /\ state = [e \in Ends |-> "open"] /\ in_fallback = [e \in Ends |-> FALSE]
  /\ sent = [e \in Ends |-> 0] /\ got = [e \in Ends |-> <<>>]

-----------------------------------------------------------------------------
(* An operation of a buffer works on s: the pool, its end's pins, itself.  *)
(* Its slots are the slots of its PinRegistry that a lease shares: one that *)
(* nothing shares (strong_count = 1) is treated as no slot everywhere.     *)
At(e, b) == [pool |-> pool, pin |-> pin[e], buf |-> b]
Keep(e, s) == pool' = s.pool /\ pin' = [pin EXCEPT ![e] = s.pin]

Leased(e, id) == \E l \in Leases : lease[l] # None /\ lease[l].end = e /\ lease[l].id = id

(* SliceList and BufferSlice. *)
PushBack(s, id, wi) == [s EXCEPT !.buf.list = Append(@, [id |-> id, ri |-> 0, wi |-> wi])]
PopFront(s) == [s EXCEPT !.buf.list = Tail(@), !.buf.w = IF @ = 0 THEN 0 ELSE @ - 1]
Size(x) == x.wi - x.ri
Remain(x) == CapOf(x.id) - x.wi
Bytes(mem, x, n) == SubSeq(mem[x.id], x.ri + 1, x.ri + n)
Least(a, b) == IF a < b THEN a ELSE b

(* Mutant: nothing counts as held by a reader. *)
IsPinnedNever(s, id) == FALSE

IsPinned(s, id) == id \in s.buf.slots
HeaderAt(s, id) == s.pool.hdr[id]

(* BufferManager::recycle_buffer, with reset_for_recycle of the header.    *)
(* Whoever gets the slice next may write it, so its bytes are nobody's;    *)
(* the order of a free list makes no difference here.                      *)
recycle_buffer(s, id) ==
  LET t == [s EXCEPT !.pool.mem[id] = Unwritten(id)]
  IN IF id \in Heap THEN [t EXCEPT !.pool.heap = @ \union {id}]
     ELSE [t EXCEPT !.pool.free[Class[id]] = SortSeq(Append(@, id), <), !.pool.hdr[id] = Blank]

(* BufferManager::recycle_buffers: the chain, each link read before its    *)
(* slice goes back.                                                        *)
RECURSIVE recycle_buffers(_, _)
recycle_buffers(s, id) ==
  LET next == HeaderAt(s, id).next
  IN IF next = 0 THEN recycle_buffer(s, id) ELSE recycle_buffers(recycle_buffer(s, id), next)

(* PinRegistry::retire: the slice of a state nobody shares goes back; the  *)
(* rest of the call, for one that is leased, is FinishRetire.              *)
Retire(s, id) ==
  IF IsPinned(s, id) THEN [s EXCEPT !.pin[id] = "retiring", !.buf.slots = @ \ {id}]
  ELSE recycle_buffer(s, id)

read_next_slice(s) == Retire(PopFront(s), Head(s.buf.list).id)

(* LinkedBuffer::recycle. *)
Recycle(s) ==
  [FoldLeft(LAMBDA t, x : Retire(t, x.id), s, s.buf.list) EXCEPT !.buf = NoBuffer]

(* LinkedBuffer::clean: the slices are the peer's now, and are forgotten   *)
(* unless a reader here still looks at one; heap slices are freed.         *)
Clean(s) ==
  LET drop(t, x) ==
        IF IsPinned(t, x.id) THEN Retire(t, x.id)
        ELSE IF x.id \in Heap THEN recycle_buffer(t, x.id) ELSE t
  IN [FoldLeft(drop, s, s.buf.list) EXCEPT !.buf = NoBuffer]

-----------------------------------------------------------------------------
(* Writing. *)
Available(s, c) == Len(s.pool.free[c]) > 1

Pop(s, c) ==
  LET id == Head(s.pool.free[c])
  IN PushBack([s EXCEPT !.pool.free[c] = Tail(@), !.pool.hdr[id].next = 0], id, 0)

(* alloc_shm_buffer: the smallest class that fits and has a slice. *)
Fitting(s, n) == {c \in DOMAIN Caps : n <= Caps[c] /\ Available(s, c)}
alloc_shm_buffer(s, n) == Pop(s, CHOOSE c \in Fitting(s, n) : \A d \in Fitting(s, n) : c <= d)

(* alloc_shm_buffers, from the largest class down, until n bytes are there. *)
RECURSIVE alloc_shm_buffers(_, _, _)
alloc_shm_buffers(s, c, n) ==
  IF c = 0 \/ n = 0 THEN [s |-> s, left |-> n]
  ELSE IF Available(s, c) THEN alloc_shm_buffers(Pop(s, c), c, n - Least(n, Caps[c]))
  ELSE alloc_shm_buffers(s, c - 1, n)

(* The fallback: a slice on the heap, and the whole message with it. *)
AllocHeap(s) ==
  LET id == CHOOSE h \in s.pool.heap : TRUE
  IN PushBack([s EXCEPT !.pool.heap = @ \ {id}, !.buf.shm = FALSE], id, 0)

Alloc(s, n) ==
  LET many == alloc_shm_buffers(s, Len(Caps), n)
  IN IF Fitting(s, n) # {} THEN alloc_shm_buffer(s, n)
     ELSE IF many.left = 0 THEN many.s ELSE AllocHeap(many.s)

(* The write slice, allocated when there is none. *)
Started(s, n) == IF s.buf.w # 0 THEN s ELSE [Alloc(s, n) EXCEPT !.buf.w = 1]

(* BufferSlice::append of all of data to the write slice. *)
Fill(s, data) ==
  LET x == s.buf.list[s.buf.w]
  IN [s EXCEPT !.pool.mem[x.id] = [k \in DOMAIN @ |-> IF k > x.wi /\ k <= x.wi + Len(data)
                                                     THEN data[k - x.wi] ELSE @[k]],
               !.buf.list[s.buf.w].wi = @ + Len(data), !.buf.len = @ + Len(data)]

RECURSIVE write_bytes(_, _)
write_bytes(s, data) ==
  LET t == Started(s, Len(data))
      n == Least(Len(data), Remain(t.buf.list[t.buf.w]))
      rest == SubSeq(data, n + 1, Len(data))
      u == Fill(t, SubSeq(data, 1, n))
      more == IF u.buf.w = Len(u.buf.list) THEN Alloc(u, Len(rest)) ELSE u
  IN IF rest = <<>> THEN u ELSE write_bytes([more EXCEPT !.buf.w = @ + 1], rest)

(* reserve, and the caller's bytes in what it returns: in the write slice, *)
(* in the one after it, or in a new one at the end, whatever is before it. *)
reserve(s, data) ==
  LET n == Len(data)
      t == Started(s, n)
      w == t.buf.w
      new == IF Fitting(t, n) # {} THEN alloc_shm_buffer(t, n) ELSE AllocHeap(t)
  IN IF Remain(t.buf.list[w]) >= n THEN Fill(t, data)
     ELSE IF w < Len(t.buf.list) /\ Remain(t.buf.list[w + 1]) >= n
     THEN Fill([t EXCEPT !.buf.w = w + 1], data)
     ELSE Fill([new EXCEPT !.buf.w = Len(new.buf.list)], data)

(* BufferSlice::update: the header the peer will read. *)
update(hdr, list) ==
  [i \in DOMAIN hdr |->
     LET at == {k \in DOMAIN list : list[k].id = i}
     IN IF at = {} THEN hdr[i]
        ELSE LET k == CHOOSE k \in at : TRUE
             IN [size |-> Size(list[k]), next |-> IF k = Len(list) THEN 0 ELSE list[k + 1].id]]

(* split_from_write. *)
Unused(b) == SubSeq(b.list, b.w + 1, Len(b.list))

(* done: the slices after the write slice go back, the others are linked. *)
Done(s) ==
  LET used == SubSeq(s.buf.list, 1, s.buf.w)
      t == [s EXCEPT !.buf.list = used, !.pool.hdr = update(@, used)]
  IN IF s.buf.shm THEN FoldLeft(LAMBDA u, x : recycle_buffer(u, x.id), t, Unused(s.buf)) ELSE s

-----------------------------------------------------------------------------
(* Reading.  Busy: a retire of this end is under way, its lock held. *)
Busy(e) == \E id \in Ids : pin[e][id] = "retiring"
FrontSlice(s) == Head(s.buf.list)
Took(s, n) == [s EXCEPT !.buf.list[1].ri = @ + n, !.buf.len = @ - n]

RECURSIVE SkipEmpty(_)
SkipEmpty(s) ==
  IF s.buf.list # <<>> /\ Size(FrontSlice(s)) = 0 THEN SkipEmpty(read_next_slice(s)) ELSE s

(* n bytes across slices: read_exact_bytes's slow path, and discard, which *)
(* throws them away.                                                       *)
RECURSIVE Copy(_, _, _)
Copy(s, n, out) ==
  LET k == Least(n, Size(FrontSlice(s)))
      t == Took(s, k)
      o == out \o Bytes(s.pool.mem, FrontSlice(s), k)
  IN IF k = n THEN [s |-> t, out |-> o] ELSE Copy(read_next_slice(t), n - k, o)

(* read_available_into: up to n bytes, out of at most max slices. *)
RECURSIVE IntoFrom(_, _, _, _)
IntoFrom(s, n, max, out) ==
  LET k == Least(n, Size(FrontSlice(s)))
      t == Took(s, k)
      o == out \o Bytes(s.pool.mem, FrontSlice(s), k)
      more == k = Size(FrontSlice(s)) /\ t.buf.len > 0
      u == IF more THEN read_next_slice(t) ELSE t
  IN IF more /\ n > k /\ max > 1 THEN IntoFrom(u, n - k, max - 1, o)
     ELSE [s |-> u, out |-> o]

(* PinRegistry::acquire. *)
Acquire(s) == [s EXCEPT !.buf.slots = @ \union {FrontSlice(s).id}]

Hold(e, s, n) ==
  \E l \in Leases :
    /\ lease[l] = None
    /\ lease' = [lease EXCEPT ![l] = [end |-> e, id |-> FrontSlice(s).id, from |-> FrontSlice(s).ri,
                                      bytes |-> Bytes(s.pool.mem, FrontSlice(s), n)]]

(* A call on the read half: s is what it leaves, out what it returns. *)
Read(e, s, out) ==
  /\ Keep(e, s) /\ recv' = [recv EXCEPT ![e] = s.buf]
  /\ got' = [got EXCEPT ![e] = IF state[e] \in {"open", "half"} THEN @ \o out ELSE @]
  /\ UNCHANGED <<conf, send, pending, wire, fpc, dpc, state, in_fallback, sent>>

Reads(e, call) == call \in conf.ops[e] /\ ~Busy(e)

read_chunk(e) ==
  /\ Reads(e, "chunk") /\ recv[e].len > 0
  /\ LET s == SkipEmpty(At(e, recv[e]))
         n == Size(FrontSlice(s))
     IN /\ Hold(e, s, n) /\ Read(e, Took(Acquire(s), n), Bytes(s.pool.mem, FrontSlice(s), n))

read_exact_bytes(e, n) ==
  /\ Reads(e, "exact") /\ recv[e].len >= n
  /\ LET r == At(e, recv[e])
         s == IF Size(FrontSlice(r)) = 0 THEN read_next_slice(r) ELSE r
         c == Copy(s, n, <<>>)
     IN \/ /\ Size(FrontSlice(s)) >= n
           /\ Hold(e, s, n) /\ Read(e, Took(Acquire(s), n), Bytes(s.pool.mem, FrontSlice(s), n))
        \/ Size(FrontSlice(s)) < n /\ Read(e, c.s, c.out) /\ UNCHANGED lease

(* peek of a slice that is too short copies, and drops its lease again. *)
peek(e, n) ==
  /\ Reads(e, "peek") /\ recv[e].len >= n /\ Size(Head(recv[e].list)) >= n
  /\ Hold(e, At(e, recv[e]), n) /\ Read(e, Acquire(At(e, recv[e])), <<>>)

discard(e, n) ==
  /\ Reads(e, "discard") /\ recv[e].len >= n
  /\ LET c == Copy(At(e, recv[e]), n, <<>>) IN Read(e, c.s, c.out)
  /\ UNCHANGED lease

read_available_into(e, n, max) ==
  /\ Reads(e, "into") /\ recv[e].len > 0
  /\ LET c == IntoFrom(SkipEmpty(At(e, recv[e])), n, max, <<>>) IN Read(e, c.s, c.out)
  /\ UNCHANGED lease

release_previous_read(e) ==
  /\ Reads(e, "release") /\ recv[e].list # <<>>
  /\ Size(Head(recv[e].list)) = 0 /\ recv[e].w = 1
  /\ Read(e, [read_next_slice(At(e, recv[e])) EXCEPT !.buf.w = 0], <<>>)
  /\ UNCHANGED lease

(* release_previous_read_and_reserve: the one slice left, if it was read   *)
(* to the end, becomes a write slice, unless a reader holds it.            *)
Reserved(s) ==
  LET id == FrontSlice(s).id
  IN IF s.buf.len # 0 \/ Len(s.buf.list) # 1 THEN s
     ELSE IF id \in Heap \/ IsPinned(s, id) THEN read_next_slice(s)
     ELSE [s EXCEPT !.pool.hdr[id] = Blank, !.buf.list[1] = [id |-> id, ri |-> 0, wi |-> 0]]

(* release_read_and_reuse: the halves change places.  An application calls *)
(* it between requests: what it has written is flushed.                    *)
release_read_and_reuse(e) ==
  /\ Reads(e, "reuse") /\ fpc[e] = "idle" /\ send[e].list = <<>>
  /\ recv[e].list # <<>>
  /\ LET s == Reserved(At(e, recv[e]))
         swap == s.buf.len = 0 /\ Len(s.buf.list) = 1
     IN /\ Keep(e, s)
        /\ recv' = [recv EXCEPT ![e] = IF swap THEN send[e] ELSE s.buf]
        /\ send' = [send EXCEPT ![e] = IF swap THEN s.buf ELSE send[e]]
  /\ UNCHANGED <<conf, lease, flow>>

(* Mutant: the slice is left with the leases, whether there are any or not. *)
FinishRetireKeeps(e, id) ==
  /\ pin[e][id] = "retiring" /\ pin' = [pin EXCEPT ![e][id] = "retired"] /\ pool' = pool
  /\ UNCHANGED <<conf, send, recv, lease, flow>>

(* The second half of SlicePinState::retire: the slice is left with the    *)
(* leases, or goes back if the last of them is gone by now.                *)
FinishRetire(e, id) ==
  /\ pin[e][id] = "retiring"
  /\ IF Leased(e, id) THEN pin' = [pin EXCEPT ![e][id] = "retired"] /\ pool' = pool
     ELSE Keep(e, [recycle_buffer(At(e, NoBuffer), id) EXCEPT !.pin[id] = "none"])
  /\ UNCHANGED <<conf, send, recv, lease, flow>>

(* An application drops a ShmBuf, whatever its stream is doing.  The last  *)
(* share of a state that holds the slice gives it back.                    *)
DropLease(l) ==
  /\ lease[l] # None /\ lease' = [lease EXCEPT ![l] = None]
  /\ LET e == lease[l].end
         id == lease[l].id
         last == \A k \in Leases \ {l} : lease[k] # None => lease[k].id # id \/ lease[k].end # e
         unshared(b) == IF last THEN [b EXCEPT !.slots = @ \ {id}] ELSE b
     IN /\ IF last /\ pin[e][id] = "retired"
           THEN Keep(e, [recycle_buffer(At(e, NoBuffer), id) EXCEPT !.pin[id] = "none"])
           ELSE UNCHANGED <<pool, pin>>
        /\ recv' = [recv EXCEPT ![e] = unshared(@)] /\ send' = [send EXCEPT ![e] = unshared(@)]
  /\ UNCHANGED <<conf, flow>>

-----------------------------------------------------------------------------
(* Sending. *)
Writes(e, call, n) ==
  /\ call \in conf.ops[e] /\ fpc[e] = "idle" /\ ~Busy(e)
  /\ sent[e] + send[e].len + n <= conf.quota[e] /\ Cardinality(pool.heap) >= 2
NextBytes(e, n) == [k \in 1..n |-> sent[e] + send[e].len + k]
Wrote(e, s) ==
  /\ Keep(e, s) /\ send' = [send EXCEPT ![e] = s.buf]
  /\ UNCHANGED <<conf, recv, lease, flow>>

WriteBytes(e, n) == Writes(e, "write", n) /\ Wrote(e, write_bytes(At(e, send[e]), NextBytes(e, n)))
Reserve(e, n) == Writes(e, "reserve", n) /\ Wrote(e, reserve(At(e, send[e]), NextBytes(e, n)))

Flushes(e) == fpc[e] = "idle" /\ ~Busy(e) /\ send[e].len > 0
QueueRoom(e) == Len(SelectSeq(wire[e], LAMBDA x : x.root # 0)) < QueueCap
Sent(e) == sent' = [sent EXCEPT ![e] = @ + send[e].len]
Post(e, item) == wire' = [wire EXCEPT ![Other(e)] = Append(@, item)]

(* Mutant: only the write slice is copied. *)
MessageOfLast(s) ==
  LET x == s.buf.list[s.buf.w] IN SubSeq(s.pool.mem[x.id], 1, Size(x))

(* write_fallback copies every slice up to the write slice. *)
Message(s) ==
  FoldLeft(LAMBDA out, x : out \o SubSeq(s.pool.mem[x.id], 1, Size(x)), <<>>,
           SubSeq(s.buf.list, 1, s.buf.w))

FlushClosed(e) ==
  /\ Flushes(e) /\ state[e] # "open"
  /\ Wrote(e, Recycle(At(e, send[e])))

(* A message too long for a frame is lost, and the caller told so. *)
FlushFallback(e) ==
  /\ Flushes(e) /\ state[e] = "open" /\ (in_fallback[e] \/ ~send[e].shm)
  /\ in_fallback' = [in_fallback EXCEPT ![e] = TRUE]
  /\ LET s == Done(At(e, send[e]))
         t == Clean(Recycle(s))
     IN /\ Keep(e, t) /\ send' = [send EXCEPT ![e] = t.buf]
        /\ IF send[e].len > MaxFallback THEN UNCHANGED <<wire, sent>>
           ELSE Post(e, [root |-> 0, bytes |-> Message(s)]) /\ Sent(e)
  /\ UNCHANGED <<conf, recv, lease, pending, fpc, dpc, state, got>>

FlushQueue(e) ==
  /\ Flushes(e) /\ state[e] = "open" /\ ~in_fallback[e] /\ send[e].shm
  /\ LET s == Done(At(e, send[e]))
     IN /\ Keep(e, s) /\ send' = [send EXCEPT ![e] = s.buf]
        /\ IF QueueRoom(Other(e))
           THEN /\ fpc' = [fpc EXCEPT ![e] = "sent"] /\ Sent(e)
                /\ Post(e, [root |-> Head(s.buf.list).id, bytes |-> <<>>])
           ELSE fpc' = [fpc EXCEPT ![e] = "retry"] /\ UNCHANGED <<wire, sent>>
  /\ UNCHANGED <<conf, recv, lease, pending, dpc, state, in_fallback, got>>

(* retry_queue_put, until there is room or the retries are used up. *)
RetryPut(e) ==
  /\ fpc[e] = "retry" /\ QueueRoom(Other(e)) /\ fpc' = [fpc EXCEPT ![e] = "sent"]
  /\ Post(e, [root |-> Head(send[e].list).id, bytes |-> <<>>]) /\ Sent(e)
  /\ UNCHANGED <<conf, pool, send, recv, pin, lease, pending, dpc, state, in_fallback, got>>

GiveUp(e) ==
  /\ fpc[e] = "retry" /\ ~Busy(e) /\ fpc' = [fpc EXCEPT ![e] = "idle"]
  /\ LET s == Recycle(At(e, send[e])) IN Keep(e, s) /\ send' = [send EXCEPT ![e] = s.buf]
  /\ UNCHANGED <<conf, recv, lease, pending, wire, dpc, state, in_fallback, sent, got>>

(* After wake_up_peer; the peer may have read and recycled it all by now. *)
FinishFlush(e) ==
  /\ fpc[e] = "sent" /\ ~Busy(e) /\ fpc' = [fpc EXCEPT ![e] = "idle"]
  /\ LET s == Clean(At(e, send[e])) IN Keep(e, s) /\ send' = [send EXCEPT ![e] = s.buf]
  /\ UNCHANGED <<conf, recv, lease, pending, wire, dpc, state, in_fallback, sent, got>>

-----------------------------------------------------------------------------
(* Delivery. *)
Taken(e, at) == dpc[e] = at /\ wire[e] # <<>> /\ wire' = [wire EXCEPT ![e] = Tail(@)]
Pend(e, item) == pending' = [pending EXCEPT ![e] = Append(@, item)] /\ dpc' = [dpc EXCEPT ![e] = "check"]

(* The event loop takes the stream out of the session's map. *)
FindStream(e) ==
  /\ dpc[e] = "idle" /\ wire[e] # <<>> /\ state[e] \in {"open", "closing"} /\ dpc' = [dpc EXCEPT ![e] = "found"]
  /\ UNCHANGED <<conf, pool, send, recv, pin, lease, pending, wire, fpc, state, in_fallback, sent, got>>

(* fill_data_to_read_buffer: the push, of a root or of a payload that was  *)
(* read into an allocation of its own.                                     *)
DeliverRoot(e) ==
  /\ Taken(e, "found") /\ Head(wire[e]).root # 0 /\ Pend(e, [id |-> Head(wire[e]).root, n |-> 0])
  /\ UNCHANGED <<conf, pool, send, recv, pin, lease, fpc, state, in_fallback, sent, got>>

DeliverPayload(e) ==
  /\ Taken(e, "found") /\ Head(wire[e]).root = 0 /\ pool.heap # {}
  /\ LET id == CHOOSE h \in pool.heap : TRUE
         bytes == Head(wire[e]).bytes
     IN /\ Pend(e, [id |-> id, n |-> Len(bytes)])
        /\ pool' = [pool EXCEPT !.heap = @ \ {id},
                                !.mem[id] = bytes \o SubSeq(@, Len(bytes) + 1, HeapCap)]
  /\ UNCHANGED <<conf, send, recv, pin, lease, fpc, state, in_fallback, sent, got>>

(* The stream is not in the session's map any more: drain_recv_queue_v4    *)
(* recycles the chain, and a payload is dropped.  (On the server a new     *)
(* stream takes it; SessionV4 has those lives.)                            *)
DeliverToNobody(e) ==
  /\ Taken(e, "idle") /\ state[e] = "closed"
  /\ IF Head(wire[e]).root = 0 THEN pool' = pool
     ELSE pool' = recycle_buffers(At(e, NoBuffer), Head(wire[e]).root).pool
  /\ UNCHANGED <<conf, send, recv, pin, lease, pending, fpc, dpc, state, in_fallback, sent, got>>

CleanPending(e, s) ==
  FoldLeft(LAMBDA t, x : IF x.n > 0 THEN recycle_buffer(t, x.id) ELSE recycle_buffers(t, x.id),
           s, pending[e])

(* The rest of fill_data_to_read_buffer. *)
CheckClosed(e) ==
  /\ dpc[e] = "check" /\ ~Busy(e) /\ dpc' = [dpc EXCEPT ![e] = "idle"]
  /\ IF state[e] = "open" THEN UNCHANGED <<pool, pin, recv, pending>>
     ELSE LET s == Recycle(CleanPending(e, At(e, recv[e]))) IN
            /\ Keep(e, s) /\ recv' = [recv EXCEPT ![e] = s.buf]
            /\ pending' = [pending EXCEPT ![e] = <<>>]
  /\ UNCHANGED <<conf, send, lease, wire, fpc, state, in_fallback, sent, got>>

(* append_buffer_slice. *)
Appended(s, id, n) ==
  [PushBack(s, id, n) EXCEPT !.buf.w = Len(s.buf.list) + 1, !.buf.len = @ + n,
                             !.buf.shm = @ /\ id \notin Heap]

(* move_pending_data's walk of a chain: slices nothing was written to go   *)
(* back at once.                                                           *)
RECURSIVE Walk(_, _)
Walk(s, id) ==
  LET h == HeaderAt(s, id)
      t == IF h.size = 0 THEN recycle_buffer(s, id) ELSE Appended(s, id, h.size)
      back == IF t.buf.list = <<>> THEN 0 ELSE Last(t.buf.list).id
  IN IF h.next # 0 THEN Walk(t, h.next)
     ELSE IF h.size = 0 /\ back \in Slices THEN [t EXCEPT !.pool.hdr[back].next = 0]
     ELSE t

(* take_delivered, which a reader that wants more than it has calls first. *)
TakeDelivered(e) ==
  /\ pending[e] # <<>> /\ ~Busy(e) /\ pending' = [pending EXCEPT ![e] = <<>>]
  /\ LET take(s, x) == IF x.n > 0 THEN Appended(s, x.id, x.n) ELSE Walk(s, x.id)
         s == FoldLeft(take, At(e, recv[e]), pending[e])
     IN Keep(e, s) /\ recv' = [recv EXCEPT ![e] = s.buf]
  /\ in_fallback' = [in_fallback EXCEPT ![e] = @ \/ \E i \in DOMAIN pending[e] : pending[e][i].n > 0]
  /\ UNCHANGED <<conf, send, lease, wire, fpc, dpc, state, sent, got>>

(* handle_stream_close: the stream leaves the map, its buffers stay. *)
PeerClosed(e) ==
  /\ state[e] = "open" /\ state[Other(e)] = "closed" /\ wire[e] = <<>> /\ dpc[e] = "idle"
  /\ state' = [state EXCEPT ![e] = "half"]
  /\ UNCHANGED <<conf, pool, send, recv, pin, lease, pending, wire, fpc, dpc, in_fallback, sent, got>>

(* close: the state, then clean_local_buffers. *)
Close(e) ==
  /\ "close" \in conf.ops[e] /\ state[e] \in {"open", "half"} /\ fpc[e] = "idle"
  /\ state' = [state EXCEPT ![e] = "closing"]
  /\ UNCHANGED <<conf, pool, send, recv, pin, lease, pending, wire, fpc, dpc, in_fallback, sent, got>>

CleanLocalBuffers(e) ==
  /\ fpc[e] = "idle" /\ ~Busy(e)
  /\ LET s == Recycle(CleanPending(e, At(e, recv[e])))
         t == Recycle([s EXCEPT !.buf = send[e]])
     IN /\ Keep(e, t) /\ recv' = [recv EXCEPT ![e] = s.buf] /\ send' = [send EXCEPT ![e] = t.buf]
  /\ pending' = [pending EXCEPT ![e] = <<>>] /\ state' = [state EXCEPT ![e] = "closed"]
  /\ UNCHANGED <<conf, lease, wire, fpc, dpc, in_fallback, sent, got>>

FinishClose(e) == state[e] = "closing" /\ CleanLocalBuffers(e)

(* The last handle of a stream the peer has closed goes. *)
DropStream(e) == state[e] = "half" /\ CleanLocalBuffers(e)

-----------------------------------------------------------------------------
Next ==
  \/ \E e \in Ends :
       \/ \E n \in conf.sizes :
            \/ WriteBytes(e, n) \/ Reserve(e, n) \/ read_exact_bytes(e, n) \/ peek(e, n)
            \/ discard(e, n) \/ \E max \in 1..2 : read_available_into(e, n, max)
       \/ read_chunk(e) \/ release_previous_read(e) \/ release_read_and_reuse(e)
       \/ FlushClosed(e) \/ FlushFallback(e) \/ FlushQueue(e)
       \/ RetryPut(e) \/ GiveUp(e) \/ FinishFlush(e)
       \/ FindStream(e) \/ DeliverRoot(e) \/ DeliverPayload(e) \/ DeliverToNobody(e) \/ CheckClosed(e)
       \/ TakeDelivered(e) \/ PeerClosed(e) \/ Close(e) \/ FinishClose(e)
       \/ DropStream(e)
       \/ \E id \in Ids : FinishRetire(e, id)
  \/ \E l \in Leases : DropLease(l)

Spec == Init /\ [][Next]_vars

-----------------------------------------------------------------------------
RECURSIVE Chain(_, _)
Chain(id, most) ==
  IF id = 0 \/ most = 0 THEN <<>> ELSE <<id>> \o Chain(pool.hdr[id].next, most - 1)

Times(q, id) == Len(SelectSeq(q, LAMBDA x : x = id))
IdsOf(list) == [k \in DOMAIN list |-> list[k].id]
ChainOf(id) == Chain(id, Cardinality(Slices) + 1)

(* Where a slice is: free, in a half (the write half until the queue has   *)
(* its message), in a chain on its way, or left to the readers of one end. *)
Places(e, id) ==
  LET item(x) == IF x.n > 0 THEN <<x.id>> ELSE ChainOf(x.id)
  IN Times((IF fpc[e] = "sent" THEN <<>> ELSE IdsOf(send[e].list)) \o IdsOf(recv[e].list)
           \o FlattenSeq([k \in DOMAIN pending[e] |-> item(pending[e][k])])
           \o FlattenSeq([k \in DOMAIN wire[e] |-> ChainOf(wire[e][k].root)]), id)
     + IF pin[e][id] = "retiring" \/ (pin[e][id] = "retired" /\ Leased(e, id)) THEN 1 ELSE 0

(* Every slice and every heap allocation is in exactly one place: none is  *)
(* lost and none has two owners, whichever calls the two applications make *)
(* and whenever the last reader of a retired slice goes (LinkedBuffer,     *)
(* PinRegistry, SlicePinState::retire and its Drop, clean and recycle).    *)
(* Nothing stays in the read half of a closed stream, whatever was being   *)
(* delivered to it or taken from its pending list when it closed.          *)
OneHand ==
  /\ \A id \in Ids :
       Places("client", id) + Places("server", id)
       + (IF id \in Heap THEN IF id \in pool.heap THEN 1 ELSE 0
          ELSE Times(pool.free[Class[id]], id)) = 1
  /\ \A e \in Ends :
       state[e] = "closed" /\ dpc[e] = "idle" => pending[e] = <<>> /\ recv[e].list = <<>>

(* What a zero-copy read returned stays as it was until it is dropped,     *)
(* through releases, reuse of the slice for writing, and close             *)
(* (PinRegistry::acquire, is_pinned, retire).                              *)
LeaseIsStable ==
  \A l \in Leases : lease[l] # None =>
    \A k \in DOMAIN lease[l].bytes : pool.mem[lease[l].id][lease[l].from + k] = lease[l].bytes[k]

(* The bytes an application reads before it closes are those the peer      *)
(* sent, in order, with none missing and none twice, however they were cut *)
(* into slices by reserve and write_bytes, done, move_pending_data and the *)
(* reads.                                                                  *)
ReadsWhatWasSent == \A e \in Ends : \A k \in DOMAIN got[e] : got[e][k] = k
=============================================================================
