----------------------------- MODULE BufferList -----------------------------
(***************************************************************************)
(* The lock-free free list of the V2 to V4 buffer pool (buffer/list.rs),   *)
(* shared by the tasks of both processes: one action per access to the     *)
(* shared header or to a slice's header.  A slice is its number.           *)
(***************************************************************************)
EXTENDS Integers, FiniteSets, Functions

CONSTANTS
  N,        \* slices of the list: buffer_num
  Tasks,    \* the tasks of both processes
  Roles,    \* the ways considered of who allocates ("pop") and who recycles ("push")
  Retries,  \* attempts of one pop (200 in the code)
  None

Slices == 0..(N - 1)

VARIABLES
  role,              \* what each task does with the list, over and over
  size, head, tail,  \* the list's header
  next, hasNext,     \* each slice's next_buffer_offset and HAS_NEXT_BUFFER_FLAG
  holders,           \* ghost: how many owners each slice has outside the list
  pc,                \* each task
  old, nxt, tries,   \* each popper: old_head, what it read behind it, attempts left
  slice, oldTail     \* each pusher: what it recycles, old_tail

Poppers == {t \in Tasks : role[t] = "pop"}
Pushers == Tasks \ Poppers

popVars == <<old, nxt, tries>>
pushVars == <<slice, oldTail>>
vars == <<role, size, head, tail, next, hasNext, holders, pc, popVars, pushVars>>

Init ==
  /\ role \in Roles /\ size = N /\ head = 0 /\ tail = N - 1
  /\ next = [b \in Slices |-> IF b < N - 1 THEN b + 1 ELSE 0]
  /\ hasNext = [b \in Slices |-> b < N - 1]
  /\ holders = [b \in Slices |-> 0]
  /\ pc = [t \in Tasks |-> "idle"]
  /\ old = [t \in Tasks |-> 0] /\ nxt = [t \in Tasks |-> 0]
  /\ tries = [t \in Tasks |-> 0]
  /\ slice = [t \in Tasks |-> None] /\ oldTail = [t \in Tasks |-> 0]

At(t, l) == pc[t] = l
Goto(t, l) == pc' = [pc EXCEPT ![t] = l]

-----------------------------------------------------------------------------
(* pop *)
LoadHead(t) ==
  /\ At(t, "idle") /\ Goto(t, "take")
  /\ old' = [old EXCEPT ![t] = head] /\ tries' = [tries EXCEPT ![t] = Retries]
  /\ UNCHANGED <<role, size, head, tail, next, hasNext, holders, nxt, pushVars>>

TakeSize(t) ==
  /\ At(t, "take") /\ size' = size - 1
  /\ Goto(t, IF size <= 1 THEN "undo" ELSE "look")
  /\ UNCHANGED <<role, head, tail, next, hasNext, holders, popVars, pushVars>>

Look(t) ==
  /\ At(t, "look")
  /\ Goto(t, IF tries[t] = 0 THEN "undo" ELSE IF hasNext[old[t]] THEN "next" ELSE "last")
  /\ UNCHANGED <<role, size, head, tail, next, hasNext, holders, popVars, pushVars>>

ReadNext(t) ==
  /\ At(t, "next") /\ Goto(t, "cas") /\ nxt' = [nxt EXCEPT ![t] = next[old[t]]]
  /\ UNCHANGED <<role, size, head, tail, next, hasNext, holders, old, tries, pushVars>>

CasHead(t) ==
  /\ At(t, "cas")
  /\ IF head = old[t]
     THEN /\ head' = nxt[t] /\ Goto(t, "clear")
          /\ holders' = [holders EXCEPT ![old[t]] = @ + 1]
     ELSE Goto(t, "reload") /\ UNCHANGED <<head, holders>>
  /\ UNCHANGED <<role, size, tail, next, hasNext, popVars, pushVars>>

CheckLast(t) ==
  /\ At(t, "last") /\ Goto(t, IF size <= 1 THEN "undo" ELSE "reload")
  /\ UNCHANGED <<role, size, head, tail, next, hasNext, holders, popVars, pushVars>>

Reload(t) ==
  /\ At(t, "reload") /\ Goto(t, "look")
  /\ old' = [old EXCEPT ![t] = head] /\ tries' = [tries EXCEPT ![t] = @ - 1]
  /\ UNCHANGED <<role, size, head, tail, next, hasNext, holders, nxt, pushVars>>

(* NoMoreBuffer. *)
Undo(t) ==
  /\ At(t, "undo") /\ size' = size + 1 /\ Goto(t, "idle")
  /\ UNCHANGED <<role, head, tail, next, hasNext, holders, popVars, pushVars>>

(* clear_flag and set_in_used, and the slice is returned. *)
ClearFlag(t) ==
  /\ At(t, "clear") /\ Goto(t, "idle") /\ hasNext' = [hasNext EXCEPT ![old[t]] = FALSE]
  /\ UNCHANGED <<role, size, head, tail, next, holders, popVars, pushVars>>

Popper(t) ==
  \/ LoadHead(t) \/ TakeSize(t) \/ Look(t) \/ ReadNext(t) \/ CasHead(t)
  \/ CheckLast(t) \/ Reload(t) \/ Undo(t) \/ ClearFlag(t)

-----------------------------------------------------------------------------
(* push, by whoever owns the slice now: its header is reset first.  Only a *)
(* pop that has returned hands a slice out.                                *)
Owned(b) ==
  holders[b] - Cardinality({t \in Poppers : At(t, "clear") /\ old[t] = b})
             - Cardinality({t \in Pushers : pc[t] \in {"tail", "swap"} /\ slice[t] = b})

Push(t, b) ==
  /\ At(t, "idle") /\ Owned(b) > 0
  /\ slice' = [slice EXCEPT ![t] = b] /\ Goto(t, "tail")
  /\ next' = [next EXCEPT ![b] = 0] /\ hasNext' = [hasNext EXCEPT ![b] = FALSE]
  /\ UNCHANGED <<role, size, head, tail, holders, popVars, oldTail>>

LoadTail(t) ==
  /\ At(t, "tail") /\ Goto(t, "swap") /\ oldTail' = [oldTail EXCEPT ![t] = tail]
  /\ UNCHANGED <<role, size, head, tail, next, hasNext, holders, popVars, slice>>

(* Mutant: the tail is stored without comparing it. *)
SwapTailBlindly(t) ==
  /\ At(t, "swap") /\ tail' = slice[t] /\ Goto(t, "link")
  /\ holders' = [holders EXCEPT ![slice[t]] = @ - 1]
  /\ UNCHANGED <<role, size, head, next, hasNext, popVars, pushVars>>

CasTail(t) ==
  /\ At(t, "swap")
  /\ IF tail = oldTail[t]
     THEN /\ tail' = slice[t] /\ Goto(t, "link")
          /\ holders' = [holders EXCEPT ![slice[t]] = @ - 1]
     ELSE Goto(t, "tail") /\ UNCHANGED <<tail, holders>>
  /\ UNCHANGED <<role, size, head, next, hasNext, popVars, pushVars>>

(* link_next: the offset, then the flag. *)
LinkNext(t) ==
  /\ At(t, "link") /\ Goto(t, "flag") /\ next' = [next EXCEPT ![oldTail[t]] = slice[t]]
  /\ UNCHANGED <<role, size, head, tail, hasNext, holders, popVars, pushVars>>

LinkFlag(t) ==
  /\ At(t, "flag") /\ Goto(t, "add") /\ hasNext' = [hasNext EXCEPT ![oldTail[t]] = TRUE]
  /\ UNCHANGED <<role, size, head, tail, next, holders, popVars, pushVars>>

AddSize(t) ==
  /\ At(t, "add") /\ Goto(t, "idle") /\ size' = size + 1
  /\ slice' = [slice EXCEPT ![t] = None]
  /\ UNCHANGED <<role, head, tail, next, hasNext, holders, popVars, oldTail>>

Pusher(t) ==
  \/ \E b \in Slices : Push(t, b)
  \/ LoadTail(t) \/ CasTail(t) \/ LinkNext(t) \/ LinkFlag(t) \/ AddSize(t)

Next == (\E t \in Poppers : Popper(t)) \/ (\E t \in Pushers : Pusher(t))

Spec == Init /\ [][Next]_vars

-----------------------------------------------------------------------------
Idle == \A t \in Tasks : At(t, "idle")
Held == {b \in Slices : holders[b] > 0}

(* No slice has two owners: "Thread safe, lock free. Support push & pop    *)
(* concurrently even cross different process." (BufferList)  It does not   *)
(* hold once two tasks pop while another pushes: a slice may leave the     *)
(* list and come back between a pop's look at its header and its exchange. *)
Exclusive == \A b \in Slices : holders[b] <= 1

(* Whenever nobody is inside pop or push, following next from head visits  *)
(* exactly the slices not handed out and ends at tail: no slice is lost to *)
(* the pool, none is reachable while it is in use.  And size is their      *)
(* number, whatever pops failed or retried: remain and                     *)
(* check_buffer_returned rely on it.                                       *)
ChainIsWhole ==
  Idle =>
    LET free == N - Cardinality(Held)
        walk[i \in 0..N] == IF i = 0 THEN head ELSE next[walk[i - 1]]
    IN /\ {walk[i] : i \in 0..(free - 1)} = Slices \ Held
       /\ walk[free - 1] = tail
       /\ size = free
       /\ \A b \in Slices \ Held : hasNext[b] <=> b # tail

=============================================================================
