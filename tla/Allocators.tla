----------------------------- MODULE Allocators -----------------------------
(***************************************************************************)
(* The two allocators a shared region of the V5 segment can run:           *)
(* BuddyAllocator (src/v5/buddy.rs), the default, and FixedAllocator       *)
(* (src/v5/fixed.rs).  A region calls them under its own lock, so they are *)
(* operators on the allocator's state and not actions.                     *)
(*                                                                         *)
(* Sizes and offsets count units of `min_block`, so the buddy's order n    *)
(* names 2^n units; the block header and the buffer header are part of the *)
(* block they head.  A geometry g is a record of what the constructors are *)
(* given: kind ("buddy" or "fixed"), arena (`arena_size`) and max_order    *)
(* (log2 of `max_block`).  An allocator is a record of                     *)
(*   free   the free block offsets of each class, a LIFO list each         *)
(*          (`free`, `free_lists`);                                        *)
(*   nc     `needs_coalesce`, which only the buddy has;                    *)
(*   magic  for every unit, the value stamped with MAGIC in the header     *)
(*          that starts there, None where no live header does.  It lies in *)
(*          the arena: a reset leaves it alone and a punch clears it.      *)
(***************************************************************************)
EXTENDS Integers, Sequences, FiniteSets, SequencesExt, FiniteSetsExt

None == -1

MaxBlock(g) == 2^g.max_order
Units(g)    == 0..(g.arena - 1)
Classes(g)  == IF g.kind = "buddy" THEN 0..g.max_order ELSE 0..2

IsGeometry(g) ==
    /\ g.kind \in {"buddy", "fixed"}
    /\ g.arena \in Nat \ {0} /\ g.max_order \in Nat
    /\ g.arena % MaxBlock(g) = 0

----------------------------------------------------------------------------
(* The fixed allocator's layout.  LocalSharedRegion::new gives it the      *)
(* smallest block, one in the middle and the largest, for 50, 30 and the   *)
(* rest of the arena; build rounds each area down to whole blocks.         *)

Middle(g) ==
    IF MaxBlock(g) \div 4 =< 1 THEN (1 + MaxBlock(g)) \div 2 ELSE MaxBlock(g) \div 4

ClassSize(g, c) ==
    IF g.kind = "buddy" THEN 2^c ELSE <<1, Middle(g), MaxBlock(g)>>[c + 1]

Counts(g) ==
    LET small  == (g.arena * 50) \div 100
        medium == ((g.arena * 30) \div 100) \div Middle(g)
    IN  <<small, medium, (g.arena - small - medium * Middle(g)) \div MaxBlock(g)>>

Starts(g) ==
    <<0, Counts(g)[1], Counts(g)[1] + Counts(g)[2] * Middle(g)>>

\* The class of the block that starts at a unit; {} when none does.
ClassForOffset(g, u) ==
    {c \in 0..2 : \E i \in 0..(Counts(g)[c + 1] - 1) :
                     u = Starts(g)[c + 1] + i * ClassSize(g, c)}

\* The lists of a built or reset allocator: whole maximum blocks in the buddy,
\* every block of every class in the fixed one.
FullLists(g) ==
    IF g.kind = "buddy"
    THEN [c \in Classes(g) |->
             IF c = g.max_order
             THEN [i \in 1..(g.arena \div MaxBlock(g)) |-> (i - 1) * MaxBlock(g)]
             ELSE <<>>]
    ELSE [c \in Classes(g) |->
             [i \in 1..Counts(g)[c + 1] |-> Starts(g)[c + 1] + (i - 1) * ClassSize(g, c)]]

NewAllocator(g) ==
    [free |-> FullLists(g), nc |-> FALSE, magic |-> [u \in Units(g) |-> None]]

ResetLists(g, a) == [a EXCEPT !.free = FullLists(g), !.nc = FALSE]

----------------------------------------------------------------------------
(* BuddyAllocator                                                          *)

\* order_for, and the choice of a class in FixedAllocator::alloc: the smallest
\* class whose blocks hold n units.
ClassFor(g, n) == Min({c \in Classes(g) : ClassSize(g, c) >= n})

\* The classes from c up that have a free block.
Found(g, free, c) == {d \in Classes(g) : d >= c /\ free[d] # <<>>}

\* One turn of coalesce_until: free buddies of order o become a block of o + 1.
Merge(free, o) ==
    LET list  == ToSet(free[o])
        left  == {x \in list : x % 2^(o + 1) = 0 /\ x + 2^o \in list}
        kept  == list \ (left \cup {x + 2^o : x \in left})
    IN  IF Len(free[o]) < 2 THEN free
        ELSE [free EXCEPT ![o]     = SetToSortSeq(kept, <),
                          ![o + 1] = @ \o SetToSortSeq(left, <)]

\* Mutant: the loop stops one order early.
CoalesceBelow(free, target) ==
    LET upto[o \in 0..target] == IF o < 2 THEN free ELSE Merge(upto[o - 1], o - 2)
    IN  upto[target]

CoalesceUntil(free, target) ==
    LET upto[o \in 0..target] == IF o = 0 THEN free ELSE Merge(upto[o - 1], o - 1)
    IN  upto[target]

\* Coalescing happens only when no list can serve the request; when that does
\* not help either, it is not tried again before the next free.
AfterCoalesce(g, a, c) ==
    IF Found(g, a.free, c) = {} /\ a.nc
    THEN LET merged == CoalesceUntil(a.free, c)
         IN  [a EXCEPT !.free = merged, !.nc = Found(g, merged, c) # {}]
    ELSE a

\* Mutant: only the half next to the block goes back.
SplitOnce(g, a, c) ==
    LET d    == Min(Found(g, a.free, c))
        off  == Last(a.free[d])
    IN  [at |-> off, cap |-> 2^c,
         a  |-> [a EXCEPT
                   !.free = [e \in Classes(g) |->
                                CASE e = d           -> Front(a.free[d])
                                  [] e = c /\ c < d  -> Append(a.free[e], off + 2^e)
                                  [] OTHER           -> a.free[e]],
                   !.magic[off] = c]]

\* The rest of BuddyAllocator::alloc: a block of the smallest order found, and
\* the halves it does not need go to the lists below.
SplitBlock(g, a, c) ==
    LET d    == Min(Found(g, a.free, c))
        off  == Last(a.free[d])
    IN  [at |-> off, cap |-> 2^c,
         a  |-> [a EXCEPT
                   !.free = [e \in Classes(g) |->
                                CASE e = d           -> Front(a.free[d])
                                  [] e \in c..(d - 1) -> Append(a.free[e], off + 2^e)
                                  [] OTHER           -> a.free[e]],
                   !.magic[off] = c]]

\* FixedAllocator::alloc hands a larger block out whole when a class is drained.
PopBlock(g, a, c) ==
    LET d   == Min(Found(g, a.free, c))
        off == Last(a.free[d])
    IN  [at |-> off, cap |-> ClassSize(g, d),
         a  |-> [a EXCEPT !.free[d] = Front(@), !.magic[off] = c]]

\* Allocator::alloc: where the block is (None when nothing can serve the
\* request), what it holds, and the allocator afterwards.
Alloc(g, a, n) ==
    LET c == ClassFor(g, n)
        b == AfterCoalesce(g, a, c)
    IN  IF Found(g, b.free, c) = {}
        THEN [at |-> None, cap |-> 0, a |-> b]
        ELSE IF g.kind = "buddy" THEN SplitBlock(g, b, c) ELSE PopBlock(g, b, c)

\* The class a live block goes back to, {} when its free is refused: the buddy
\* believes the order in the header once it fits the offset ...
LiveOrder(g, a, u) == {c \in Classes(g) : a.magic[u] = c /\ u % 2^c = 0}

\* ... and the fixed allocator goes by where the block lies.
LiveFixed(g, a, u) == {c \in ClassForOffset(g, u) : a.magic[u] # None}

LiveClass(g, a, u) == IF g.kind = "buddy" THEN LiveOrder(g, a, u) ELSE LiveFixed(g, a, u)

IsValidOffset(g, u) == g.kind = "buddy" \/ ClassForOffset(g, u) # {}

\* The free of a block that LiveClass accepts.
Release(g, a, u) ==
    LET c == CHOOSE c \in LiveClass(g, a, u) : TRUE
    IN  [a EXCEPT !.free[c] = Append(@, u),
                  !.nc = @ \/ (g.kind = "buddy" /\ c < g.max_order),
                  !.magic[u] = None]

============================================================================
