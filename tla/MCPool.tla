------------------------------- MODULE MCPool -------------------------------
(* The V2 to V4 pool for model checking: one free list access by access    *)
(* (BufferList), or the buffers of one stream over several lists taken as  *)
(* sequences (LinkedBuffer).  The part that is not explored rests.         *)
EXTENDS LinkedBuffer

CONSTANTS N, Tasks, Roles, Retries

VARIABLES
  part,
  role, size, head, tail, next, hasNext, holders, pc, old, nxt, tries, slice, oldTail

List == INSTANCE BufferList
listVars ==
  <<role, size, head, tail, next, hasNext, holders, pc, old, nxt, tries, slice, oldTail>>

(* A list has slices, pop tries at least once, and a task allocates or     *)
(* recycles.                                                               *)
ASSUME ListAssumption ==
  /\ N \in Nat \ {0} /\ Retries \in Nat \ {0} /\ Roles \subseteq [Tasks -> {"pop", "push"}]

(* One allocating task against two that recycle; or nobody recycles. *)
OneOrAllPop == {<<"pop", "push", "push">>, <<"pop", "pop", "pop">>}

MCCaps == <<1, 2>>
MCClass == <<1, 1, 2, 2, 2>>

Conf(client, server, there, back, sizes) ==
  [ops |-> [e \in Ends |-> IF e = "client" THEN client ELSE server],
   quota |-> [e \in Ends |-> IF e = "client" THEN there ELSE back],
   sizes |-> sizes]

Pins == Conf({"write", "reserve"}, {"chunk", "exact", "peek", "release"}, 4, 0, {1, 2, 3})
Copies == Conf({"write", "reserve"}, {"discard", "into"}, 4, 0, {1, 2, 4})
Closes == Conf({"write", "close"}, {"chunk", "close"}, 3, 0, {1, 2, 3})
Echo == Conf({"write", "discard"}, {"exact", "reuse", "reserve"}, 2, 2, {1, 2})

AllKinds == {Pins, Copies, Closes, Echo}

PoolInit ==
  /\ Init /\ List!Init
  /\ \/ part = "list" /\ conf = Pins
     \/ part = "buffers" /\ role = <<"pop", "pop", "pop">>

PoolNext ==
  \/ part = "list" /\ List!Next /\ UNCHANGED <<part, vars>>
  \/ part = "buffers" /\ Next /\ UNCHANGED <<part, listVars>>

PoolSpec == PoolInit /\ [][PoolNext]_<<part, vars, listVars>>

(* BufferList's property: while nobody is inside pop or push the chain     *)
(* from head to tail is the slices not handed out, and size counts them.   *)
ChainIsWhole == List!ChainIsWhole
=============================================================================
