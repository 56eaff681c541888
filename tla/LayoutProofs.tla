---------------------------- MODULE LayoutProofs ----------------------------
(* The queue pair of V2 to V4 for every capacity and version: whatever      *)
(* queue_cap a Config asks for, what create_with_memfd and create_with_file *)
(* lay out after verify is what the other end maps.                         *)
EXTENDS Layout, TLAPS

(* The capacity that the creator writes at the start of each queue is the   *)
(* one mapping_from_bytes reads there.                                      *)
LEMMA CapacityIsRead ==
  ASSUME NEW len \in Nat, NEW mid \in Nat, NEW cap \in Nat,
         NEW o \in {0, mid}
  PROVE  Word(File(len, {<<0, cap>>, <<mid, cap>>}), o) = cap
<1> DEFINE writes == {<<0, cap>>, <<mid, cap>>}
           words == [x \in {w[1] : w \in writes} |-> (CHOOSE w \in writes : w[1] = x)[2]]
<1>1. \E w \in writes : w[1] = o
  OBVIOUS
<1>2. (CHOOSE w \in writes : w[1] = o) \in writes
  BY ONLY <1>1
<1>3. (CHOOSE w \in writes : w[1] = o)[2] = cap
  <2> DEFINE c == CHOOSE w \in writes : w[1] = o
  <2>1. c = <<0, cap>> \/ c = <<mid, cap>>
    BY ONLY <1>2
  <2> HIDE DEF c
  <2>2. c[2] = cap
    BY ONLY <2>1
  <2> QED
    BY ONLY <2>2 DEF c
<1>4. o \in {w[1] : w \in writes}
  BY ONLY <1>1
<1>5. words[o] = (CHOOSE w \in writes : w[1] = o)[2] /\ DOMAIN words = {w[1] : w \in writes}
  BY ONLY <1>4
<1>6. File(len, writes).words = words
  BY DEF File
<1> HIDE DEF words, writes
<1> QED
  <2>1. Word(File(len, writes), o) = cap
    BY ONLY <1>3, <1>4, <1>5, <1>6 DEF Word
  <2> QED
    BY ONLY <2>1 DEF writes

(* Rounding to eight makes the file a whole number of sixteen bytes, which  *)
(* the aligned layout asks for, and puts the second queue on a boundary of  *)
(* eight.                                                                   *)
LEMMA Rounded ==
  ASSUME NEW cap \in Nat
  PROVE  LET c == RoundUp(cap, 8)
             size == count_queue_mem_size(c) * 2
         IN  /\ c \in Nat /\ size \in Nat /\ size % 16 = 0
             /\ size \div 2 = count_queue_mem_size(c)
             /\ (size \div 2) % 8 = 0
<1> DEFINE k == (cap + 7) \div 8
<1>1. k \in Nat
  OBVIOUS
<1>2. RoundUp(cap, 8) = k * 8
  BY DEF RoundUp
<1>3. count_queue_mem_size(k * 8) = 24 + 96 * k
  <2> HIDE DEF k
  <2> QED
    BY <1>1 DEF count_queue_mem_size, QueueHeader
<1> HIDE DEF k
<1>4. /\ (24 + 96 * k) * 2 \in Nat
      /\ ((24 + 96 * k) * 2) % 16 = 0
      /\ ((24 + 96 * k) * 2) \div 2 = 24 + 96 * k
      /\ (24 + 96 * k) % 8 = 0
  BY ONLY <1>1
<1> QED
  BY <1>1, <1>2, <1>3, <1>4

(* For every queue_cap, version and architecture, the queue pair made after *)
(* Config::verify is accepted by the other end, which sees the same two     *)
(* queues with the directions exchanged; they do not overlap, fill the file *)
(* exactly, and the words of the aligned layout are aligned.                *)
THEOREM QueuesAgree ==
  ASSUME NEW cap \in Nat, NEW version \in Nat, NEW arm \in BOOLEAN
  PROVE  LET layout == QueueLayout(version, arm)
             ours   == QueueCreate(RoundUp(cap, 8), layout)
         IN  \E theirs \in QueueMapping(ours.file, layout) : SameQueues(ours, theirs, layout)
<1> DEFINE layout == QueueLayout(version, arm)
           c      == RoundUp(cap, 8)
           half   == count_queue_mem_size(c)
           size   == half * 2
           file   == File(size, {<<0, c>>, <<half, c>>})
           theirs == [file |-> file,
                      send |-> mapping_from_bytes(file, half, layout),
                      recv |-> mapping_from_bytes(file, 0, layout)]
           ours   == [file |-> file,
                      send |-> mapping_from_bytes(file, 0, layout),
                      recv |-> mapping_from_bytes(file, half, layout)]
<1>1. c \in Nat /\ size \in Nat /\ size % 16 = 0 /\ size \div 2 = half /\ half % 8 = 0
  BY Rounded
<1>2. half = 24 + 12 * c /\ half \in Nat
  BY <1>1 DEF count_queue_mem_size, QueueHeader
<1>3. Word(file, 0) = c /\ Word(file, half) = c
  BY <1>1, <1>2, CapacityIsRead
<1>4. file.len = size
  BY DEF File
<1>5. QueueCreate(c, layout) = ours
  BY <1>1 DEF QueueCreate
<1>6. theirs \in QueueMapping(file, layout)
  BY <1>1, <1>4 DEF QueueMapping
<1>7. SameQueues(ours, theirs, layout)
  <2>1. /\ ours.send.start = 0 /\ ours.send.end = half
        /\ ours.recv.start = half /\ ours.recv.end = half + half
    BY <1>2, <1>3 DEF mapping_from_bytes, count_queue_mem_size, QueueHeader
  <2>2. /\ ours.send.end <= ours.recv.start
        /\ ours.recv.end <= ours.file.len
    BY <2>1, <1>2, <1>4
  <2>3. ASSUME layout.name = "aligned", NEW q \in {ours.send, ours.recv}
        PROVE  q.head % 8 = 0 /\ q.tail % 8 = 0 /\ q.flag % 4 = 0
    <3>1. layout.flag = 4 /\ layout.head = 8 /\ layout.tail = 16
      BY <2>3 DEF QueueLayout
    <3>2. \E at \in {0, half} : q.head = at + 8 /\ q.tail = at + 16 /\ q.flag = at + 4
      BY <3>1 DEF mapping_from_bytes
    <3>3. \A at \in {0, half} : (at + 8) % 8 = 0 /\ (at + 16) % 8 = 0 /\ (at + 4) % 4 = 0
      <4> HIDE DEF half
      <4> QED
        BY ONLY <1>1, <1>2
    <3> QED
      BY ONLY <3>2, <3>3
  <2>4. theirs.send = ours.recv /\ theirs.recv = ours.send
    OBVIOUS
  <2> QED
    BY <2>2, <2>3, <2>4 DEF SameQueues
<1>8. ours.file = file
  OBVIOUS
<1> HIDE DEF ours, theirs, file, layout, c
<1> QED
  BY <1>5, <1>6, <1>7, <1>8 DEF layout, c
=============================================================================
