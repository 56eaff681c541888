---------------------------- MODULE MCSessionV4 -----------------------------
(* SessionV4 for model checking: the configurations of the runs.  Streams  *)
(* are 1, 2, ...; a quota gives each stream in use its number of messages. *)
EXTENDS SessionV4

Conf(mode, is_client, fallback, closes, quota) ==
  [mode |-> mode, is_client |-> is_client, fallback |-> fallback,
   closes |-> closes, quota |-> quota]

AllKinds ==
  {Conf("socket", TRUE, FALSE, FALSE, <<2, 1>>)}
  \union {Conf(mode, is_client, TRUE, TRUE, <<2>>) :
             mode \in {"socket", "eventfd", "polling"}, is_client \in BOOLEAN}

BothRoutes == {Conf("socket", TRUE, TRUE, FALSE, <<2, 1>>)}
=============================================================================
