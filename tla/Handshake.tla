------------------------------ MODULE Handshake ------------------------------
(* One SessionManager opening one session: Session::client connects,        *)
(* negotiates a version, creates what the version shares and exchanges it   *)
(* with the Session::server of the listener, and connects a second time as  *)
(* a legacy client when the first negotiation failed on the network.        *)
(*                                                                          *)
(* A handler is one side of one connection: the blocking thread of          *)
(* spawn_blocking and the async task that waits for it with a timeout.  An  *)
(* action is one blocking read with the writes that follow it.  Message     *)
(* bodies are records; paths, encodings and traces are left out.            *)
EXTENDS Layout, FiniteSets

CONSTANTS
  Confs,    \* the configurations: the client's Config and the peer's kind
  Shapes    \* the sizes a Config may ask for, and the architecture

VARIABLES
  conf,     \* the configuration of this behaviour
  wire,     \* wire[k]: the socket of connection k
  h         \* h[k][s]: the handler of side s on connection k

vars == <<conf, wire, h>>

Conns == 1..2
Sides == {"client", "server"}
Other(s) == IF s = "client" THEN "server" ELSE "client"
None == <<>>
NoFeature == <<"none", 0>>

Idle == [pc |-> "idle", late |-> FALSE, err |-> "none", ver |-> 0,
         feature |-> NoFeature, refs |-> 0, answered |-> FALSE,
         queue |-> None, bufs |-> None, wake_send |-> None, wake_recv |-> None]

Init ==
  /\ conf \in Confs
  /\ wire = [k \in Conns |-> [up |-> FALSE, to |-> [s \in Sides |-> <<>>]]]
  /\ h = [k \in Conns |-> [s \in Sides |-> Idle]]

------------------------------------------------------------------------------
(* Config: what the client asks for on connection k.  The second            *)
(* connection is made with ProtocolConfig::default().                       *)

Mode(k) == IF k = 1 THEN conf.mode ELSE "legacy"
Wakeup(k) == IF k = 1 THEN conf.wakeup ELSE "default"

Verify(k) ==
  /\ Mode(k) = "legacy" => Wakeup(k) = "default"
  /\ Wakeup(k) = "polling" => conf.interval > 0
  /\ Wakeup(k) = "eventfd" => conf.mem = "memfd"
  /\ Mode(k) = "v5" => conf.mem = "memfd"

\* EventQueuePollingSettings: nanoseconds in, microseconds on the wire.
Micros(ns) == ns \div 1000

Request(k) ==
  [type      |-> "negotiation",
   protocols |-> IF Mode(k) = "v5" THEN {5, 4} ELSE {4},
   features  |-> CASE Wakeup(k) = "polling" -> {<<"polling", Micros(conf.interval)>>}
                   [] Wakeup(k) = "eventfd" -> {<<"eventfd", 0>>}
                   [] OTHER -> {}]

SelectProtocol(req) ==
  CASE 5 \in req.protocols -> 5
    [] 4 \in req.protocols -> 4
    [] OTHER -> 0

SelectFeature(req) ==
  IF \E f \in req.features : f[1] = "polling" /\ f[2] > 0
  THEN CHOOSE f \in req.features : f[1] = "polling" /\ f[2] > 0
  ELSE IF <<"eventfd", 0>> \in req.features THEN <<"eventfd", 0>> ELSE NoFeature

\* What other implementations select: one that speaks V4 only, one that
\* rejects every request, and one that selects a version nobody offered.
PeerSelects(req) ==
  CASE conf.peer = "v4"      -> 4
    [] conf.peer = "rejects" -> 0
    [] conf.peer = "v6"      -> 6
    [] OTHER                 -> SelectProtocol(req)

\* The version a server answers an exchange of versions with.
PeerVersions == IF conf.peer = "legacy" THEN 1..3 ELSE {3}

------------------------------------------------------------------------------
(* Outcomes.  A session that is not made drops its socket, and a client     *)
(* gives back the buffer manager it took in init_manager; a result that     *)
(* comes after the timer fired is thrown away.                              *)

Waiting == {"first", "response", "version", "ack_fd", "ack_shm", "peer_meta", "peer_fds"}
Running(k, s) == h[k][s].pc \notin {"idle", "ok", "failed"}

\* Mutant: the error path of Session::new keeps the buffer manager.
FailKeepsPool(k, s, new, e) ==
  /\ wire' = [wire EXCEPT ![k].up = FALSE, ![k].to[s] = <<>>]
  /\ h' = [h EXCEPT ![k][s] =
             [new EXCEPT !.pc = "failed", !.err = IF new.late THEN "timeout" ELSE e]]

Fail(k, s, new, e) ==
  /\ wire' = [wire EXCEPT ![k].up = FALSE, ![k].to[s] = <<>>]
  /\ h' = [h EXCEPT ![k][s] =
             [new EXCEPT !.pc = "failed",
                         !.err = IF new.late THEN "timeout" ELSE e,
                         !.refs = IF s = "client" THEN 0 ELSE @]]

\* A blocking step: take the message the handler waits for, if it waits for
\* one, write the messages ms, and go on as new ("pool" and "ok" return).
Advance(k, s, new, ms, e) ==
  IF \/ ms # <<>> /\ ~wire[k].up
     \/ new.late /\ new.pc \in {"pool", "ok"}
  THEN Fail(k, s, new, e)
  ELSE /\ wire' = [wire EXCEPT ![k].to[Other(s)] = @ \o ms,
                               ![k].to[s] = IF h[k][s].pc \in Waiting THEN Tail(@) ELSE @]
       /\ h' = [h EXCEPT ![k][s] = new]

Msg(t) == [type |-> t]
Fds(fds) == [type |-> "fds", fds |-> fds]

------------------------------------------------------------------------------
(* The client's negotiation.                                                *)

\* Session::client connects, first with its own configuration.  A connection
\* may be refused.
Connect(k) ==
  /\ h[k]["client"].pc = "idle"
  /\ \/ k = 1
     \/ /\ k = 2 /\ conf.fallback /\ conf.mode # "legacy"
        /\ h[1]["client"].err = "network"
  /\ \/ /\ Verify(k)
        /\ h' = [h EXCEPT ![k]["client"].pc = "negotiate"]
        /\ wire' = [wire EXCEPT ![k].up = TRUE]
     \/ /\ h' = [h EXCEPT ![k]["client"].pc = "failed",
                          ![k]["client"].err = IF Verify(k) THEN "refused" ELSE "config"]
        /\ UNCHANGED wire
  /\ UNCHANGED conf

Negotiate(k) ==
  LET me == h[k]["client"]
      to(pc) == [me EXCEPT !.pc = pc]
  IN
  /\ me.pc = "negotiate"
  /\ CASE Mode(k) # "legacy" /\ Wakeup(k) = "polling" /\ Micros(conf.interval) = 0 ->
            Fail(k, "client", me, "config")
       [] Mode(k) # "legacy" /\ (Wakeup(k) = "polling" => Micros(conf.interval) > 0) ->
            Advance(k, "client", to("response"), <<Request(k)>>, "network")
       [] Mode(k) = "legacy" /\ conf.mem = "file" ->
            Advance(k, "client", [to("pool") EXCEPT !.ver = 2], <<>>, "io")
       [] OTHER ->
            Advance(k, "client", to("version"), <<[type |-> "version", version |-> 3]>>, "io")
  /\ UNCHANGED conf

ReadVersion(k, m) ==
  LET me  == h[k]["client"]
      ver == IF m.version < 3 THEN m.version ELSE 3
  IN
  /\ me.pc = "version" /\ m.type = "version"
  /\ IF ver \in {2, 3}
     THEN Advance(k, "client", [me EXCEPT !.pc = "pool", !.ver = ver], <<>>, "io")
     ELSE Fail(k, "client", me, "version")

\* Mutant: a rejection counts as a network failure.
RejectedIsNetwork(k, m) ==
  LET me == [h[k]["client"] EXCEPT !.answered = TRUE]
  IN
  /\ me.pc = "response" /\ m.type = "negotiation"
  /\ IF m.selected \in Request(k).protocols
     THEN Advance(k, "client", [me EXCEPT !.pc = "pool", !.ver = m.selected,
                                          !.feature = m.feature], <<>>, "io")
     ELSE Fail(k, "client", me, "network")

ReadResponse(k, m) ==
  LET me == [h[k]["client"] EXCEPT !.answered = TRUE]
  IN
  /\ me.pc = "response" /\ m.type = "negotiation"
  /\ IF m.selected \in Request(k).protocols
     THEN Advance(k, "client", [me EXCEPT !.pc = "pool", !.ver = m.selected,
                                          !.feature = m.feature], <<>>, "io")
     ELSE Fail(k, "client", me, "rejected")

\* Mutant: a V5 client maps the peer's memory before it publishes its own.
MapsFirst(k) ==
  LET me == h[k]["client"]
  IN
  /\ me.pc = "pool"
  /\ Advance(k, "client", [me EXCEPT !.pc = IF me.ver = 5 THEN "peer_meta" ELSE "meta"],
             <<>>, "io")
  /\ UNCHANGED conf

\* init_manager: the buffer manager or, once that is taken, the queue manager
\* may fail to be made.
InitManager(k, me) ==
  \/ Advance(k, "client", [me EXCEPT !.pc = "meta", !.refs = 1], <<>>, "io")
  \/ Fail(k, "client", me, "buffers")
  \/ /\ h' = [h EXCEPT ![k]["client"] =
                [me EXCEPT !.pc = "failed", !.err = "queue", !.refs = 1]]
     /\ wire' = [wire EXCEPT ![k].up = FALSE, ![k].to["client"] = <<>>]

\* Session::new between the two phases: the shared pool, if the version has
\* one, and what is left of the budget.
MakePool(k) ==
  LET me == h[k]["client"]
  IN
  /\ me.pc = "pool"
  /\ \/ me.ver # 5 /\ InitManager(k, me)
     \/ me.ver = 5 /\ Advance(k, "client", [me EXCEPT !.pc = "meta"], <<>>, "io")
  /\ UNCHANGED conf

NoBudget(k) ==
  /\ h[k]["client"].pc = "meta" /\ ~h[k]["client"].late
  /\ Fail(k, "client", h[k]["client"], "timeout")
  /\ UNCHANGED conf

------------------------------------------------------------------------------
(* Publishing shared memory: the client of V2 to V4, both sides of V5.      *)

\* The client's initializer: how it hands its memory over and what it waits
\* for then.  V2 waits for nothing.
Initializer(me) ==
  CASE me.ver = 2 -> <<"path", "ok">>
    [] me.ver \in {3, 4} /\ conf.mem = "file" -> <<"path", "ack_shm">>
    [] OTHER -> <<"memfd", "ack_fd">>

\* The eventfds this side creates: V4 both, V5 the one this side waits on.
WithEventFd(s, me) ==
  CASE me.feature[1] # "eventfd" -> me
    [] me.ver = 5 -> [me EXCEPT !.wake_recv = <<s, "eventfd">>]
    [] OTHER -> [me EXCEPT !.wake_send = <<s, "eventfd">>, !.wake_recv = <<s, "eventfd2">>]

SendMeta(k, s) ==
  LET me == WithEventFd(s, h[k][s])
  IN
  /\ me.pc = "meta"
  /\ \/ Advance(k, s, [me EXCEPT !.pc = Initializer(me)[2]], <<Msg(Initializer(me)[1])>>, "io")
     \/ /\ me.ver = 5 \/ me.feature[1] = "eventfd"
        /\ Fail(k, s, h[k][s], "create")
  /\ UNCHANGED conf

\* Mutant: the two eventfds of V4 in the order the server waits and signals.
SwappedFds(s, me) ==
  LET wake == IF me.feature[1] # "eventfd" THEN <<>>
              ELSE IF me.ver = 5 THEN <<me.wake_recv>>
              ELSE <<me.wake_recv, me.wake_send>>
  IN  IF me.ver = 5 THEN <<<<s, "queue">>, <<s, "segment">>>> \o wake
      ELSE <<<<s, "buffer">>, <<s, "queue">>>> \o wake

\* The descriptors in the order they are sent.
OwnFds(s, me) ==
  LET wake == IF me.feature[1] # "eventfd" THEN <<>>
              ELSE IF me.ver = 5 THEN <<me.wake_recv>>
              ELSE <<me.wake_send, me.wake_recv>>
  IN  IF me.ver = 5 THEN <<<<s, "queue">>, <<s, "segment">>>> \o wake
      ELSE <<<<s, "buffer">>, <<s, "queue">>>> \o wake

\* What follows the descriptors: V5 goes on to the peer's on the client and is
\* done on the server.
AfterSending(s, me) ==
  CASE me.ver # 5 -> "ack_shm"
    [] me.ver = 5 /\ s = "client" -> "peer_meta"
    [] OTHER -> "ok"

AckFd(k, s, m) ==
  LET me == h[k][s]
  IN
  /\ me.pc = "ack_fd" /\ m.type = "ack_fd"
  /\ Advance(k, s, [me EXCEPT !.pc = AfterSending(s, me)], <<Fds(OwnFds(s, me))>>, "io")

AckShm(k, m) ==
  /\ h[k]["client"].pc = "ack_shm" /\ m.type = "ack_shm"
  /\ Advance(k, "client", [h[k]["client"] EXCEPT !.pc = "ok"], <<>>, "io")

------------------------------------------------------------------------------
(* The listener and its Session::server.  accept_loop awaits each handshake *)
(* before it accepts the next connection.                                   *)

Accept(k) ==
  /\ conf.peer # "mute"
  /\ h[k]["server"].pc = "idle"
  /\ h[k]["client"].pc # "idle" /\ h[k]["client"].err # "refused"
  /\ \A j \in Conns : ~Running(j, "server")
  /\ h' = [h EXCEPT ![k]["server"].pc = "first"]
  /\ UNCHANGED <<conf, wire>>

\* negotiate_server, and what other implementations do in its place: one that
\* predates the negotiation drops the connection.
Answer(k, m) ==
  LET me == h[k]["server"]
      v  == PeerSelects(m)
      f  == SelectFeature(m)
      r  == [type |-> "negotiation", selected |-> v,
             feature |-> IF v = 0 THEN NoFeature ELSE f]
  IN
  /\ me.pc = "first" /\ m.type = "negotiation"
  /\ CASE conf.peer = "legacy" -> Fail(k, "server", me, "version")
       [] conf.peer # "legacy" /\ v \in {4, 5} ->
            Advance(k, "server", [me EXCEPT !.pc = "peer_meta", !.ver = v, !.feature = f],
                    <<r>>, "io")
       [] OTHER ->
            /\ wire' = [wire EXCEPT ![k].to["client"] = IF wire[k].up THEN Append(@, r) ELSE @,
                                    ![k].to["server"] = <<>>, ![k].up = FALSE]
            /\ h' = [h EXCEPT ![k]["server"].pc = "failed", ![k]["server"].err = "version"]

\* handle_exchange_version of the V3 server.
ExchangeVersion(k, m) ==
  /\ h[k]["server"].pc = "first" /\ m.type = "version"
  /\ \E v \in PeerVersions :
       Advance(k, "server", [h[k]["server"] EXCEPT !.pc = "peer_meta", !.ver = 3],
               <<[type |-> "version", version |-> v]>>, "io")

\* Mapping the client's pool: the buffer manager and the queue pair, and the
\* eventfds of V4, which change roles on the way.
MapPool(me, fds) ==
  LET evt == me.feature[1] = "eventfd"
  IN  [me EXCEPT !.bufs = fds[1], !.queue = fds[2], !.refs = 1,
                 !.wake_recv = IF evt THEN fds[3] ELSE @,
                 !.wake_send = IF evt THEN fds[4] ELSE @]

\* Mapping the peer's V5 endpoint: its queue, its segment, and the eventfd it
\* waits on.
MapEndpoint(me, fds) ==
  [me EXCEPT !.queue = fds[1], !.bufs = fds[2],
             !.wake_send = IF me.feature[1] = "eventfd" THEN fds[3] ELSE @]

ClientFiles == <<<<"client", "buffer">>, <<"client", "queue">>>>

\* handle_share_memory_by_file_path: open the two files by name and, but for
\* V2, acknowledge.  There is no such file when the client used memfds.
MapPath(k, me) ==
  LET ack == IF me.ver = 2 THEN <<>> ELSE <<Msg("ack_shm")>>
  IN
  \/ /\ conf.mem = "file"
     /\ Advance(k, "server", MapPool([me EXCEPT !.pc = "ok"], ClientFiles), ack, "io")
  \/ Fail(k, "server", me, "map")

FirstIsPath(k, m) ==
  /\ h[k]["server"].pc = "first" /\ m.type = "path"
  /\ MapPath(k, [h[k]["server"] EXCEPT !.ver = 2])

------------------------------------------------------------------------------
(* Taking shared memory: the server of V2 to V4, both sides of V5.          *)

PeerMeta(k, s, m) ==
  LET me == h[k][s]
  IN
  /\ me.pc = "peer_meta" /\ m.type \in {"path", "memfd"}
  /\ CASE m.type = "memfd" ->
            Advance(k, s, [me EXCEPT !.pc = "peer_fds"], <<Msg("ack_fd")>>, "io")
       [] m.type = "path" /\ me.ver # 5 /\ me.feature[1] # "eventfd" -> MapPath(k, me)
       [] OTHER -> Fail(k, s, me, "meta")

ExpectedFds(me) ==
  IF me.feature[1] # "eventfd" THEN 2 ELSE IF me.ver = 5 THEN 3 ELSE 4

\* V5: a server goes on to publish its own memory.
AfterMapping(s) == IF s = "client" THEN "ok" ELSE "meta"

PeerFds(k, s, m) ==
  LET me == h[k][s]
  IN
  /\ me.pc = "peer_fds" /\ m.type = "fds"
  /\ \/ /\ Len(m.fds) >= ExpectedFds(me)
        /\ IF me.ver = 5
           THEN Advance(k, s, [MapEndpoint(me, m.fds) EXCEPT !.pc = AfterMapping(s)], <<>>, "io")
           ELSE Advance(k, s, [MapPool(me, m.fds) EXCEPT !.pc = "ok"], <<Msg("ack_shm")>>, "io")
     \/ Fail(k, s, me, "map")

------------------------------------------------------------------------------
(* What ends a read otherwise.                                              *)

Expected(me) ==
  CASE me.pc = "first"     -> {"path", "version", "negotiation"}
    [] me.pc = "response"  -> {"negotiation"}
    [] me.pc = "version"   -> {"version"}
    [] me.pc = "ack_fd"    -> {"ack_fd"}
    [] me.pc = "ack_shm"   -> {"ack_shm"}
    [] me.pc = "peer_meta" -> {"path", "memfd"}
    [] OTHER               -> {"fds"}

\* The end of the stream, or an event of another type.  Only a negotiation
\* that fails here is a NetworkOrProtocol error.
ReadFails(k, s) ==
  LET me == h[k][s]
      in == wire[k].to[s]
  IN
  /\ me.pc \in Waiting
  /\ \/ in = <<>> /\ ~wire[k].up
     \/ in # <<>> /\ Head(in).type \notin Expected(me)
  /\ Fail(k, s, me, IF me.pc = "response" THEN "network" ELSE "io")
  /\ UNCHANGED conf

Receive(k, s) ==
  /\ h[k][s].pc \in Waiting /\ wire[k].to[s] # <<>>
  /\ LET m == Head(wire[k].to[s])
     IN  \/ s = "client" /\ (ReadVersion(k, m) \/ ReadResponse(k, m) \/ AckShm(k, m))
         \/ s = "server" /\ (Answer(k, m) \/ ExchangeVersion(k, m) \/ FirstIsPath(k, m))
         \/ AckFd(k, s, m) \/ PeerMeta(k, s, m) \/ PeerFds(k, s, m)
  /\ UNCHANGED conf

\* Mutant: the timer only marks the handler, which goes on reading.
TimerWithoutShutdown(k, s) ==
  /\ Running(k, s) /\ h[k][s].pc # "pool" /\ ~h[k][s].late
  /\ h' = [h EXCEPT ![k][s].late = TRUE]
  /\ UNCHANGED <<conf, wire>>

\* initialize_timeout runs out: shutdown(2) ends the reads of the blocking
\* thread, which is then awaited.
Timer(k, s) ==
  /\ Running(k, s) /\ h[k][s].pc # "pool" /\ ~h[k][s].late
  /\ h' = [h EXCEPT ![k][s].late = TRUE]
  /\ wire' = [wire EXCEPT ![k].up = FALSE]
  /\ UNCHANGED conf

\* The connection breaks.
Reset(k) ==
  /\ wire[k].up /\ \E s \in Sides : Running(k, s)
  /\ wire' = [wire EXCEPT ![k].up = FALSE]
  /\ UNCHANGED <<conf, h>>

------------------------------------------------------------------------------
ClientStep(k) == Connect(k) \/ Negotiate(k) \/ MakePool(k) \/ NoBudget(k)
HandlerStep(k, s) == SendMeta(k, s) \/ Receive(k, s) \/ ReadFails(k, s)

Next ==
  \E k \in Conns :
    \/ ClientStep(k)
    \/ Accept(k)
    \/ Reset(k)
    \/ \E s \in Sides : HandlerStep(k, s) \/ Timer(k, s)

Spec == Init /\ [][Next]_vars

\* Blocking threads and the listener's task are scheduled, and time passes.
FairSpec ==
  /\ Spec
  /\ \A k \in Conns :
       /\ WF_vars(ClientStep(k)) /\ WF_vars(Accept(k))
       /\ \A s \in Sides : WF_vars(HandlerStep(k, s)) /\ WF_vars(Timer(k, s))

------------------------------------------------------------------------------
Ok(k, s) == h[k][s].pc = "ok"

(* Two ends that both made their session agree and are wired to each other: *)
(* they have one version and one wakeup feature with its interval, each     *)
(* reads the memory and the queue the other publishes under that name, and  *)
(* the eventfd one signals is the one the other waits on.  From V3 on, a    *)
(* client that made its session knows that the server has mapped its        *)
(* memory, whatever becomes of the server's handler: the last message it    *)
(* waits for is sent after the mapping.                                     *)
Wired ==
  \A k \in Conns :
    /\ Ok(k, "client") /\ h[k]["client"].ver >= 3 => h[k]["server"].bufs # None
    /\ Ok(k, "client") /\ Ok(k, "server") =>
         /\ h[k]["client"].ver = h[k]["server"].ver
         /\ h[k]["client"].feature = h[k]["server"].feature
         /\ \A s \in Sides :
              /\ h[k][s].wake_send = h[k][Other(s)].wake_recv
              /\ h[k][s].wake_send # None <=> h[k][s].feature[1] = "eventfd"
              /\ h[k][s].ver = 5 =>
                   /\ h[k][s].queue = <<Other(s), "queue">>
                   /\ h[k][s].bufs = <<Other(s), "segment">>
         /\ h[k]["server"].ver # 5 =>
              /\ h[k]["server"].queue = <<"client", "queue">>
              /\ h[k]["server"].bufs = <<"client", "buffer">>

\* What the end with version vc creates for sizes c is what the end with
\* version vs maps.
SameMemory ==
  [vc \in 2..5, vs \in 2..5, c \in Shapes |->
    \A v \in Verified(c) :
      IF vc = 5
      THEN /\ \E ours \in EventQueueCreate(v.queue_cap) :
                \E theirs \in EventQueueMap(ours.size) : SameRing(v.queue_cap, ours, theirs)
           /\ \E ours \in SegmentCreate :
                \E theirs \in SegmentMap(ours.pages, ADVERTISED_DYNSHM_SIZE) :
                  SameSegment(ours, theirs)
      ELSE /\ LET layout == QueueLayout(vs, v.arm)
                  ours   == QueueCreate(v.queue_cap, QueueLayout(vc, v.arm))
              IN  \E theirs \in QueueMapping(ours.file, layout) : SameQueues(ours, theirs, layout)
           /\ \A ours \in PoolFile(TRUE, v.mem, v.pairs, None) :
                \E theirs \in PoolFile(FALSE, v.mem, v.pairs, ours.file) : SameLists(ours, theirs)]

(* Two ends that both made their session find the same words in the memory  *)
(* they share, for every configuration that verify lets through: each       *)
(* derives where things are from the version it settled on and what the     *)
(* file says, and nobody's parts overlap or leave the file.                 *)
SameWords ==
  \A k \in Conns :
    Ok(k, "client") /\ Ok(k, "server") =>
      \A c \in Shapes : SameMemory[h[k]["client"].ver, h[k]["server"].ver, c]

(* The two sides never wait for each other: while the connection is up and  *)
(* somebody serves it, one of them has a message to read or one to write.   *)
NoMutualWait ==
  \A k \in Conns :
    ~ /\ wire[k].up
      /\ \A s \in Sides : h[k][s].pc \in Waiting /\ wire[k].to[s] = <<>>

(* A peer that answered the negotiation is never asked again as a legacy    *)
(* peer, and a client that ends up with a legacy session although it wanted *)
(* another never heard an answer.                                           *)
NoSilentDowngrade ==
  h[2]["client"].pc # "idle" => ~h[1]["client"].answered /\ h[1]["client"].ver = 0

(* A client that fails to make its session keeps no reference to the shared *)
(* buffer manager, except when it was the queue manager that could not be   *)
(* made.                                                                    *)
PoolGivenBack ==
  \A k \in Conns :
    h[k]["client"].pc = "failed" /\ h[k]["client"].err # "queue" => h[k]["client"].refs = 0

(* Every handshake that starts ends on both sides, with a peer that hangs,  *)
(* a connection that breaks, or a timer that fires in any phase.            *)
EveryHandshakeReturns ==
  \A k \in Conns, s \in Sides : Running(k, s) ~> ~Running(k, s)
==============================================================================
