---------------------------- MODULE MCBuffersV5 ----------------------------
(***************************************************************************)
(* Segments for model checking BuffersV5: one with a deep buddy allocator, *)
(* one with a region that is pinned and one that is not, one with          *)
(* dedicated regions and one with the fixed allocator.                     *)
(***************************************************************************)
EXTENDS BuffersV5

Buddy(arena, order) == [kind |-> "buddy", arena |-> arena, max_order |-> order]

Split ==
    [g |-> Buddy(4, 2), shared |-> 1, pinned |-> 1, dedicated |-> 0,
     sizes |-> {1, 2, 4}, blocks |-> 1, live |-> 4, leases |-> 0, closes |-> FALSE]
Prunable ==
    [g |-> Buddy(1, 0), shared |-> 3, pinned |-> 2, dedicated |-> 0,
     sizes |-> {1}, blocks |-> 1, live |-> 3, leases |-> 0, closes |-> FALSE]
Leased ==
    [g |-> Buddy(2, 1), shared |-> 1, pinned |-> 0, dedicated |-> 0,
     sizes |-> {1, 2}, blocks |-> 2, live |-> 2, leases |-> 2, closes |-> TRUE]
Dedicated ==
    [g |-> Buddy(1, 0), shared |-> 1, pinned |-> 0, dedicated |-> 5,
     sizes |-> {1, 2, 3}, blocks |-> 1, live |-> 3, leases |-> 0, closes |-> FALSE]
Fixed ==
    [g |-> [kind |-> "fixed", arena |-> 6, max_order |-> 1],
     shared |-> 1, pinned |-> 0, dedicated |-> 0,
     sizes |-> {1}, blocks |-> 1, live |-> 4, leases |-> 0, closes |-> FALSE]

AllKinds == {Split, Prunable, Leased, Dedicated, Fixed}

============================================================================
