---------------------------- MODULE MCSessionV5 -----------------------------
(* SessionV5 for model checking: the configurations of the runs.  Streams  *)
(* are 1, 2, ...; a quota gives each stream in use its number of messages. *)
EXTENDS SessionV5

Conf(mode, is_client, events, quota) ==
  [mode |-> mode, is_client |-> is_client, events |-> events, quota |-> quota]

AllKinds ==
  {Conf("socket", TRUE, {"pinned", "timeout", "cancel"}, <<2, 0>>),
   Conf("eventfd", FALSE, {"close"}, <<2, 0>>),
   Conf("eventfd", FALSE, {"pinned"}, <<1, 1>>),
   Conf("eventfd", TRUE, {"reuse", "close"}, <<2>>),
   Conf("polling", TRUE, {"reuse", "crash"}, <<2>>)}

Short ==
  {Conf("socket", TRUE, {}, <<1, 0>>),
   Conf("eventfd", FALSE, {"crash", "timeout"}, <<0, 0>>),
   Conf("polling", FALSE, {"pinned", "crash"}, <<1>>)}
=============================================================================
