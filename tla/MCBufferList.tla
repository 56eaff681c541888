---------------------------- MODULE MCBufferList ----------------------------
(* BufferList for model checking: two tasks that allocate and one that     *)
(* recycles, as the tasks of two processes over one pool do.               *)
EXTENDS BufferList

TwoPop == {<<"pop", "pop", "push">>}
=============================================================================
