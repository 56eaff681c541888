------------------------------- MODULE Layout -------------------------------
(* Where the two ends of a session find things in shared memory.  No layout *)
(* is sent: the end that creates a file writes a few words into it, and the *)
(* other one derives the rest from those words, the length of the file and  *)
(* the negotiated version.                                                  *)
(*                                                                          *)
(* A file is its length and the words that were written, the others being   *)
(* zero.  An operator that may return an error yields a set: empty for the  *)
(* error, a singleton for the value.  Offsets are bytes, except that the V5 *)
(* segment, which is longer than 2^31, is counted in pages.                 *)
EXTENDS Integers, Sequences, TLC

RoundUp(n, k) == ((n + k - 1) \div k) * k

File(len, writes) ==
  [len |-> len, words |-> [o \in {w[1] : w \in writes} |-> (CHOOSE w \in writes : w[1] = o)[2]]]

Word(file, o) == IF o \in DOMAIN file.words THEN file.words[o] ELSE 0

------------------------------------------------------------------------------
(* Config::verify: what it refuses and what it rounds.                      *)

MinShareMemory == 1048576

SumPercent(pairs) ==
  LET sum[i \in 0..Len(pairs)] == IF i = 0 THEN 0 ELSE sum[i - 1] + pairs[i].percent
  IN  sum[Len(pairs)]

\* Mutant: the capacity of the queue is taken as it is.
VerifiedAsIs(c) ==
  IF \/ c.mem < MinShareMemory
     \/ c.pairs = <<>>
     \/ \E i \in DOMAIN c.pairs : c.pairs[i].size > c.mem
     \/ SumPercent(c.pairs) # 100
  THEN {}
  ELSE {[c EXCEPT !.pairs = [i \in DOMAIN c.pairs |->
                               [c.pairs[i] EXCEPT !.size = RoundUp(c.pairs[i].size, 4)]]]}

Verified(c) ==
  IF \/ c.mem < MinShareMemory
     \/ c.pairs = <<>>
     \/ \E i \in DOMAIN c.pairs : c.pairs[i].size > c.mem
     \/ SumPercent(c.pairs) # 100
  THEN {}
  ELSE {[c EXCEPT !.queue_cap = RoundUp(c.queue_cap, 8),
                  !.pairs = [i \in DOMAIN c.pairs |->
                               [c.pairs[i] EXCEPT !.size = RoundUp(c.pairs[i].size, 4)]]]}

------------------------------------------------------------------------------
(* The queue pair of V2 to V4.  ARM and RISC-V need the aligned words.      *)

QueueLayout(version, arm) ==
  IF version >= 4 \/ arm
  THEN [name |-> "aligned", flag |-> 4, head |-> 8, tail |-> 16]
  ELSE [name |-> "legacy", flag |-> 20, head |-> 4, tail |-> 12]

QueueHeader == 24
count_queue_mem_size(cap) == QueueHeader + 12 * cap

mapping_from_bytes(file, at, layout) ==
  [start |-> at, cap |-> Word(file, at), flag |-> at + layout.flag,
   head |-> at + layout.head, tail |-> at + layout.tail,
   elements |-> at + QueueHeader, end |-> at + count_queue_mem_size(Word(file, at))]

\* create_from_bytes writes the capacity and maps the result.
QueueCreate(cap, layout) ==
  LET size == count_queue_mem_size(cap) * 2
      file == File(size, {<<0, cap>>, <<size \div 2, cap>>})
  IN  [file |-> file,
       send |-> mapping_from_bytes(file, 0, layout),
       recv |-> mapping_from_bytes(file, size \div 2, layout)]

\* The other end sends where the creator receives.
QueueMapping(file, layout) ==
  IF layout.name = "aligned" /\ file.len % 16 # 0
  THEN {}
  ELSE {[file |-> file,
         send |-> mapping_from_bytes(file, file.len \div 2, layout),
         recv |-> mapping_from_bytes(file, 0, layout)]}

\* The two ends see the same two queues, which lie side by side in the file,
\* and the words of the aligned layout are aligned.
SameQueues(ours, theirs, layout) ==
  /\ theirs.send = ours.recv /\ theirs.recv = ours.send
  /\ ours.send.end <= ours.recv.start /\ ours.recv.end <= ours.file.len
  /\ layout.name = "aligned" =>
       \A q \in {ours.send, ours.recv} : q.head % 8 = 0 /\ q.tail % 8 = 0 /\ q.flag % 4 = 0

------------------------------------------------------------------------------
(* The buffer pool of V2 to V4.                                             *)

ManagerHeader == 8
ListHeader == 36
BufferHeader == 20
count_buffer_list_mem_size(num, size) == ListHeader + num * (size + BufferHeader)

\* The words of a list that push and pop use.
ListAt(at, num, size) ==
  [offset_in_shm |-> at, size |-> at, cap |-> num, head |-> at + 8, tail |-> at + 12,
   cap_per_buffer |-> size, region |-> at + ListHeader, region_len |-> num * (size + BufferHeader)]

\* BufferManager::create, for an offset of zero, over the pairs in the order of
\* their sizes.
PoolCreate(len, pairs) ==
  LET sorted == SortSeq(pairs, LAMBDA a, b : a.size < b.size)
      n      == Len(sorted)
      region == len - ListHeader * n - ManagerHeader
      num(i) == ((region * sorted[i].percent) \div 100) \div (sorted[i].size + BufferHeader)
      at[i \in 1..n + 1] ==
        IF i = 1 THEN ManagerHeader
        ELSE at[i - 1] + count_buffer_list_mem_size(num(i - 1), sorted[i - 1].size)
      fits(i) == /\ num(i) > 0 /\ sorted[i].size > 0
                 /\ SumPercent(SubSeq(sorted, 1, i)) <= 100
                 /\ at[i + 1] <= len
  IN  IF \A i \in 1..n : fits(i)
      THEN {[file  |-> File(len, {<<0, n>>, <<4, at[n + 1] - ManagerHeader>>}
                              \cup {<<at[i] + 4, num(i)>> : i \in 1..n}
                              \cup {<<at[i] + 16, sorted[i].size>> : i \in 1..n}),
             lists |-> [i \in 1..n |-> ListAt(at[i], num(i), sorted[i].size)]]}
      ELSE {}

\* BufferList::mapping
ListMapping(file, at) ==
  LET num  == Word(file, at + 4)
      size == Word(file, at + 16)
  IN  IF file.len < at + ListHeader \/ at + count_buffer_list_mem_size(num, size) > file.len
      THEN {}
      ELSE {ListAt(at, num, size)}

\* BufferManager::mapping
PoolMapping(file) ==
  LET n      == Word(file, 0)
      length == Word(file, 4)
      at[i \in 1..n + 1] ==
        IF i = 1 THEN ManagerHeader
        ELSE at[i - 1] + count_buffer_list_mem_size(Word(file, at[i - 1] + 4),
                                                    Word(file, at[i - 1] + 16))
  IN  IF \/ file.len <= 4
         \/ file.len < ManagerHeader + length
         \/ n = 0
         \/ \E i \in 1..n : ListMapping(file, at[i]) = {}
      THEN {}
      ELSE {[file  |-> file,
             lists |-> [i \in 1..n |-> CHOOSE l \in ListMapping(file, at[i]) : TRUE]]}

\* get_with_memfd and get_with_file outside the registry: the creating end and
\* the mapping one.
PoolFile(create, len, pairs, file) ==
  IF create THEN PoolCreate(len, pairs) ELSE PoolMapping(file)

\* The two ends see the same lists, which follow one another inside the file.
SameLists(ours, theirs) ==
  /\ theirs.lists = ours.lists
  /\ \A i \in DOMAIN ours.lists :
       LET end == ours.lists[i].region + ours.lists[i].region_len
       IN  IF i + 1 \in DOMAIN ours.lists
           THEN end = ours.lists[i + 1].offset_in_shm
           ELSE end <= ours.file.len
  /\ \A i, j \in DOMAIN ours.lists :
       i < j => ours.lists[i].cap_per_buffer <= ours.lists[j].cap_per_buffer

------------------------------------------------------------------------------
(* The rings of V5: the event queue of an end and its release queue.        *)

PageSize == 4096
Powers == {2^k : k \in 0..24}
next_power_of_two(n) == CHOOSE p \in Powers : p >= n /\ \A q \in Powers : q >= n => p <= q
previous_power_of_two(n) == CHOOSE p \in Powers : p <= n /\ \A q \in Powers : q <= n => q <= p

RingHeader == 128
slot_size(payload) == next_power_of_two(8 + payload)
mpsc_mem_size(cap, payload) ==
  RoundUp(RingHeader + next_power_of_two(cap) * slot_size(payload), PageSize)

mpsc_cap(len, payload) ==
  LET slots == (IF len < RingHeader THEN 0 ELSE len - RingHeader) \div slot_size(payload)
  IN  IF slots = 0 THEN 0 ELSE previous_power_of_two(slots)

\* from_raw_parts, the start of both new and map.
Ring(at, len, payload) ==
  IF \/ len % PageSize # 0 \/ len < RingHeader \/ at % 8 # 0
     \/ (len - RingHeader) \div slot_size(payload) = 0
  THEN {}
  ELSE {[base |-> at, slots |-> at + RingHeader, slot |-> slot_size(payload),
         cap |-> previous_power_of_two((len - RingHeader) \div slot_size(payload))]}

EventHeader == 64
ElementSize == 16
queue_mem_size(cap) == EventHeader + mpsc_mem_size(cap, ElementSize)

queue_cap(len) ==
  IF len < EventHeader \/ (len - EventHeader) % PageSize # 0
  THEN 0
  ELSE mpsc_cap(len - EventHeader, ElementSize)

validate_queue_size(size) == size >= EventHeader + PageSize /\ (size - EventHeader) % PageSize = 0

\* MemFile::new of a size and MemFile::map of a descriptor with that size.
MemFile(size) == {s \in {size} : s # 0}

\* DataQueue::create and DataQueue::map.
EventQueueCreate(cap) ==
  {[size |-> f, ring |-> r] : f \in MemFile(queue_mem_size(cap)),
                              r \in Ring(EventHeader, queue_mem_size(cap) - EventHeader, ElementSize)}

EventQueueMap(size) ==
  IF ~validate_queue_size(size) \/ queue_cap(size) = 0
  THEN {}
  ELSE {[size |-> f, ring |-> r] : f \in MemFile(size),
                                   r \in Ring(EventHeader, size - EventHeader, ElementSize)}

\* The two ends see the same ring; it has the room asked for, inside the file.
SameRing(cap, ours, theirs) ==
  /\ theirs = ours
  /\ ours.ring.cap >= cap
  /\ ours.ring.slots + ours.ring.cap * ours.ring.slot <= ours.size

------------------------------------------------------------------------------
(* The segment of V5, in pages.                                             *)

SegmentPages == 1048576
RqPages == 128
RegionPages == 4096

\* new_rq and map_rq, over the front of a segment.
ReleaseQueue(pages) == IF pages < RqPages THEN {} ELSE Ring(0, RqPages * PageSize, 8)

\* LocalManager::new: a quarter of the segment is for shared regions.
SegmentCreate ==
  {[pages |-> f, rq |-> r,
    regions |-> [i \in 1..(SegmentPages \div 4) \div RegionPages |->
                   RqPages + (i - 1) * RegionPages]] :
   f \in MemFile(SegmentPages), r \in ReleaseQueue(SegmentPages)}

\* The size on the wire has 32 bits, into which 4 GiB does not fit: the metadata
\* says zero, and the other end takes that for the default.
ADVERTISED_DYNSHM_SIZE == 0

SegmentMap(pages, advertised) ==
  LET expected == IF advertised = 0 THEN SegmentPages ELSE advertised
  IN  IF pages # expected \/ pages <= RqPages
      THEN {}
      ELSE {[pages |-> f, rq |-> r] : f \in MemFile(pages), r \in ReleaseQueue(pages)}

SameSegment(ours, theirs) ==
  /\ theirs.pages = ours.pages /\ theirs.rq = ours.rq
  /\ ours.rq.slots + ours.rq.cap * ours.rq.slot <= RqPages * PageSize
  /\ \A i \in DOMAIN ours.regions :
       ours.regions[i] >= RqPages /\ ours.regions[i] + RegionPages <= ours.pages
=============================================================================
