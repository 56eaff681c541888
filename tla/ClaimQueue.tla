----------------------------- MODULE ClaimQueue -----------------------------
(***************************************************************************)
(* What the V5 ring promises: a bounded queue in which a producer first    *)
(* claims the last position and later publishes it, and from which the     *)
(* consumer removes the first position once it is published.  A claimed    *)
(* position counts as occupied and holds back everything behind it.        *)
(*                                                                         *)
(* Mpsc (v5/mpsc.rs) implements this specification; SessionV5 builds the   *)
(* V5 data path on it.                                                     *)
(***************************************************************************)
EXTENDS Naturals, Sequences

CONSTANTS Producers, Values, Cap, None

VARIABLES
  claims,   \* the claimed positions, oldest first: [val, by]; by is the producer
            \* still filling the position, None once published
  out       \* the value the consumer took last

queueVars == <<claims, out>>

HeadReady(q) == q # <<>> /\ Head(q).by = None

Claim(p, v) ==
  /\ Len(claims) < Cap
  /\ \A i \in 1..Len(claims) : claims[i].by # p
  /\ claims' = Append(claims, [val |-> v, by |-> p])
  /\ out' = out

Publish(p) ==
  \E i \in 1..Len(claims) :
    /\ claims[i].by = p
    /\ claims' = [claims EXCEPT ![i].by = None]
    /\ out' = out

Pop ==
  /\ HeadReady(claims)
  /\ claims' = Tail(claims)
  /\ out' = Head(claims).val

QInit == claims = <<>> /\ out = None

QNext ==
  \/ \E p \in Producers : \E v \in Values : Claim(p, v)
  \/ \E p \in Producers : Publish(p)
  \/ Pop

QSpec == QInit /\ [][QNext]_queueVars
=============================================================================
