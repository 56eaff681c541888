--------------------------- MODULE HandshakeProofs ---------------------------
(* Proofs about the client of Handshake, against every configuration and    *)
(* whatever the peer sends: an answered negotiation is not repeated as a     *)
(* legacy one, and a failed handshake gives the buffer manager back.        *)
EXTENDS Handshake, TLAPS

Fields == {"pc", "late", "err", "ver", "refs", "answered"}
Early == {"idle", "negotiate", "response", "version"}

(* What holds of the client's handler: nothing is decided or taken before   *)
(* the negotiation is over; a network error is one of a client that heard   *)
(* no answer; and a failed one has no reference.                            *)
ClientInv(c) ==
  /\ Fields \subseteq DOMAIN c
  /\ c.pc \in Early => ~c.answered /\ c.ver = 0 /\ c.refs = 0
  /\ c.err = "network" => c.pc = "failed" /\ ~c.answered /\ c.ver = 0
  /\ c.pc = "failed" /\ c.err # "queue" => c.refs = 0

IndInv ==
  /\ Conns \subseteq DOMAIN h
  /\ \A k \in Conns : Sides \subseteq DOMAIN h[k] /\ ClientInv(h[k]["client"])
  /\ h[2]["client"].pc # "idle" => h[1]["client"].err = "network"

(* Nobody has connected yet. *)
LEMMA InitInd == Init => IndInv
<1> SUFFICES ASSUME Init PROVE IndInv
  OBVIOUS
<1>1. ClientInv(Idle)
  BY DEF ClientInv, Idle, Fields, Early
<1>2. \A k \in Conns : h[k]["client"] = Idle /\ Sides \subseteq DOMAIN h[k]
  BY DEF Init, Conns, Sides
<1>3. h[2]["client"].pc = "idle"
  BY <1>2 DEF Idle, Conns
<1> QED BY <1>1, <1>2, <1>3 DEF IndInv, Init

(* What the server's handler does leaves the client's alone. *)
LEMMA ServerWrite ==
  ASSUME IndInv, NEW k \in Conns, NEW new, h' = [h EXCEPT ![k]["server"] = new]
  PROVE  IndInv'
<1>1. \A j \in Conns : h'[j]["client"] = h[j]["client"] /\ DOMAIN h'[j] = DOMAIN h[j]
  BY DEF IndInv, Sides
<1>2. DOMAIN h' = DOMAIN h
  OBVIOUS
<1> QED BY <1>1, <1>2 DEF IndInv, Conns

(* A client that has connected goes on as another one that is right: the    *)
(* other connection is not concerned, since a second one exists only when   *)
(* the first has failed.                                                    *)
LEMMA ClientWrite ==
  ASSUME IndInv, NEW k \in Conns, h[k]["client"].pc \notin {"idle", "failed"},
         NEW new, ClientInv(new), h' = [h EXCEPT ![k]["client"] = new]
  PROVE  IndInv'
<1>1. /\ DOMAIN h' = DOMAIN h
      /\ \A j \in Conns : DOMAIN h'[j] = DOMAIN h[j]
      /\ \A j \in Conns : h'[j]["client"] = IF j = k THEN new ELSE h[j]["client"]
  BY DEF IndInv, Sides
<1>2. ASSUME h'[2]["client"].pc # "idle" PROVE h'[1]["client"].err = "network"
  <2>1. CASE k = 1
    BY <1>1, <1>2, <2>1 DEF IndInv, Conns, ClientInv
  <2>2. CASE k = 2
    BY <1>1, <2>2 DEF IndInv, Conns
  <2> QED BY <2>1, <2>2 DEF Conns
<1> QED BY <1>1, <1>2 DEF IndInv, Conns

(* Fail: the reference goes back, and a network error is only reported by   *)
(* a client without an answer.                                              *)
LEMMA ClientFails ==
  ASSUME IndInv, NEW k \in Conns, h[k]["client"].pc \notin {"idle", "failed"},
         NEW new, Fields \subseteq DOMAIN new, NEW e,
         e = "network" => ~new.answered /\ new.ver = 0,
         Fail(k, "client", new, e)
  PROVE  IndInv'
<1> DEFINE gone == [new EXCEPT !.pc = "failed", !.err = IF new.late THEN "timeout" ELSE e,
                               !.refs = 0]
<1>1. h' = [h EXCEPT ![k]["client"] = gone]
  BY DEF Fail
<1>2. ClientInv(gone)
  BY DEF ClientInv, Fields, Early
<1> QED BY <1>1, <1>2, ClientWrite

(* Advance: the step, or the failure, of the client. *)
LEMMA ClientAdvances ==
  ASSUME IndInv, NEW k \in Conns, h[k]["client"].pc \notin {"idle", "failed"},
         NEW new, ClientInv(new), NEW ms, NEW e,
         e = "network" => ~new.answered /\ new.ver = 0,
         Advance(k, "client", new, ms, e)
  PROVE  IndInv'
<1>1. Fail(k, "client", new, e) \/ h' = [h EXCEPT ![k]["client"] = new]
  BY DEF Advance
<1>2. Fields \subseteq DOMAIN new
  BY DEF ClientInv
<1> QED BY <1>1, <1>2, ClientFails, ClientWrite

(* Fail and Advance of the server. *)
LEMMA ServerAdvances ==
  ASSUME IndInv, NEW k \in Conns, NEW new, NEW ms, NEW e,
         Fail(k, "server", new, e) \/ Advance(k, "server", new, ms, e)
  PROVE  IndInv'
<1>1. \E r : h' = [h EXCEPT ![k]["server"] = r]
  BY DEF Fail, Advance
<1> QED BY <1>1, ServerWrite

(* What each step of the client leads to: Onward is a client that has       *)
(* neither failed nor is still negotiating.                                 *)
LEMMA Onward ==
  ASSUME NEW c, Fields \subseteq DOMAIN c, c.err # "network",
         c.pc \notin Early \union {"failed"}
  PROVE  ClientInv(c)
BY DEF ClientInv

(* Connect: the second connection follows a network error of the first. *)
LEMMA ConnectKeeps ==
  ASSUME IndInv, NEW k \in Conns, Connect(k)
  PROVE  IndInv'
<1> DEFINE me == h[k]["client"]
<1>1. me.pc = "idle" /\ ClientInv(me)
  BY DEF Connect, IndInv
<1> DEFINE new == h'[k]["client"]
<1>2. /\ k \in DOMAIN h /\ "client" \in DOMAIN h[k]
      /\ {"pc", "err"} \subseteq DOMAIN me
  BY <1>1 DEF IndInv, Sides, ClientInv, Fields
<1>3. ClientInv(new)
  <2>1. CASE h' = [h EXCEPT ![k]["client"].pc = "negotiate"]
    <3>1. new = [me EXCEPT !.pc = "negotiate"]
      BY <1>2, <2>1
    <3> QED BY <1>1, <3>1 DEF ClientInv, Fields, Early
  <2>2. ASSUME NEW e \in {"refused", "config"},
               h' = [h EXCEPT ![k]["client"].pc = "failed", ![k]["client"].err = e]
        PROVE  ClientInv(new)
    <3>1. new = [[me EXCEPT !.pc = "failed"] EXCEPT !.err = e]
      BY <1>2, <2>2
    <3> QED BY <1>1, <2>2, <3>1 DEF ClientInv, Fields, Early
  <2> QED BY <2>1, <2>2 DEF Connect
<1>4. /\ DOMAIN h' = DOMAIN h
      /\ \A j \in Conns : DOMAIN h'[j] = DOMAIN h[j]
      /\ \A j \in Conns : h'[j]["client"] = IF j = k THEN new ELSE h[j]["client"]
  BY DEF Connect, IndInv, Sides
<1>5. ASSUME h'[2]["client"].pc # "idle" PROVE h'[1]["client"].err = "network"
  <2>1. CASE k = 1
    BY <1>1, <1>4, <1>5, <2>1 DEF IndInv, Conns, ClientInv, Early
  <2>2. CASE k = 2
    BY <1>4, <2>2 DEF Connect, Conns
  <2> QED BY <2>1, <2>2 DEF Conns
<1> QED BY <1>3, <1>4, <1>5 DEF IndInv, Conns

(* Negotiate: only its first message can fail as a network error. *)
LEMMA NegotiateKeeps ==
  ASSUME IndInv, NEW k \in Conns, Negotiate(k)
  PROVE  IndInv'
<1> DEFINE me == h[k]["client"]
<1>1. me.pc = "negotiate" /\ ClientInv(me)
  BY DEF Negotiate, IndInv
<1>2. \/ Fail(k, "client", me, "config")
      \/ Advance(k, "client", [me EXCEPT !.pc = "response"], <<Request(k)>>, "network")
      \/ Advance(k, "client", [[me EXCEPT !.pc = "pool"] EXCEPT !.ver = 2], <<>>, "io")
      \/ Advance(k, "client", [me EXCEPT !.pc = "version"],
                 <<[type |-> "version", version |-> 3]>>, "io")
  BY Zenon DEF Negotiate
<1>3. /\ ClientInv([me EXCEPT !.pc = "response"])
      /\ ClientInv([me EXCEPT !.pc = "version"])
      /\ ClientInv([[me EXCEPT !.pc = "pool"] EXCEPT !.ver = 2])
  BY <1>1 DEF ClientInv, Fields, Early
<1>4. ~[me EXCEPT !.pc = "response"].answered /\ [me EXCEPT !.pc = "response"].ver = 0
  BY <1>1 DEF ClientInv, Fields, Early
<1>5. me.pc \notin {"idle", "failed"} /\ Fields \subseteq DOMAIN me
  BY <1>1 DEF ClientInv
<1>6. CASE Fail(k, "client", me, "config")
  BY <1>5, <1>6, ClientFails
<1>7. CASE Advance(k, "client", [me EXCEPT !.pc = "response"], <<Request(k)>>, "network")
  BY <1>3, <1>4, <1>5, <1>7, ClientAdvances
<1>8. CASE Advance(k, "client", [[me EXCEPT !.pc = "pool"] EXCEPT !.ver = 2], <<>>, "io")
  BY <1>3, <1>5, <1>8, ClientAdvances
<1>9. CASE Advance(k, "client", [me EXCEPT !.pc = "version"],
                   <<[type |-> "version", version |-> 3]>>, "io")
  BY <1>3, <1>5, <1>9, ClientAdvances
<1> QED BY <1>2, <1>6, <1>7, <1>8, <1>9

(* The answers to the negotiation: one that is rejected is no network error. *)
LEMMA AnswerKeeps ==
  ASSUME IndInv, NEW k \in Conns, NEW m, ReadVersion(k, m) \/ ReadResponse(k, m)
  PROVE  IndInv'
<1> DEFINE me == h[k]["client"]
           ans == [me EXCEPT !.answered = TRUE]
<1>1. ClientInv(me)
  BY DEF IndInv
<1>2. Fields \subseteq DOMAIN ans /\ ans.pc = me.pc /\ ans.err = me.err
  BY <1>1 DEF ClientInv, Fields
<1>3. CASE ReadVersion(k, m)
  <2>1. me.pc = "version"
    BY <1>3 DEF ReadVersion
  <2>2. \/ \E v : Advance(k, "client", [me EXCEPT !.pc = "pool", !.ver = v], <<>>, "io")
        \/ Fail(k, "client", me, "version")
    BY <1>3, Zenon DEF ReadVersion
  <2>3. \A v : ClientInv([me EXCEPT !.pc = "pool", !.ver = v])
    BY <1>1, <2>1 DEF ClientInv, Fields, Early
  <2>4. CASE Fail(k, "client", me, "version")
    BY <1>1, <2>1, <2>4, ClientFails DEF ClientInv
  <2> QED BY <2>1, <2>2, <2>3, <2>4, ClientAdvances
<1>4. CASE ReadResponse(k, m)
  <2>1. me.pc = "response"
    BY <1>2, <1>4 DEF ReadResponse
  <2>2. \/ \E v, f : Advance(k, "client", [ans EXCEPT !.pc = "pool", !.ver = v, !.feature = f],
                             <<>>, "io")
        \/ Fail(k, "client", ans, "rejected")
    BY <1>4, Zenon DEF ReadResponse
  <2>3. \A v, f : ClientInv([ans EXCEPT !.pc = "pool", !.ver = v, !.feature = f])
    BY <1>1, <1>2, <2>1 DEF ClientInv, Fields, Early
  <2>4. CASE Fail(k, "client", ans, "rejected")
    BY <1>2, <2>1, <2>4, ClientFails
  <2> QED BY <2>1, <2>2, <2>3, <2>4, ClientAdvances
<1> QED BY <1>3, <1>4

(* A step of either handler after the negotiation. *)
LEMMA PastNegotiation ==
  ASSUME IndInv, NEW k \in Conns, NEW s \in Sides,
         h[k][s].pc \notin Early \union {"failed"},
         NEW new, NEW ms, NEW e, e # "network",
         s = "client" => /\ Fields \subseteq DOMAIN new /\ new.err = h[k][s].err
                         /\ new.pc \notin Early \union {"failed"},
         Advance(k, s, new, ms, e) \/ Fail(k, s, new, e)
  PROVE  IndInv'
<1>1. CASE s = "server"
  BY <1>1, ServerAdvances
<1>2. CASE s = "client"
  <2>1. ClientInv(h[k]["client"]) /\ h[k]["client"].pc \notin {"idle", "failed"}
    BY <1>2 DEF IndInv, Early
  <2>2. ClientInv(new)
    BY <1>2, <2>1, Onward DEF ClientInv
  <2> QED BY <1>2, <2>1, <2>2, ClientAdvances, ClientFails
<1> QED BY <1>1, <1>2 DEF Sides

(* MakePool and NoBudget: the reference is taken here. *)
LEMMA PoolKeeps ==
  ASSUME IndInv, NEW k \in Conns, MakePool(k) \/ NoBudget(k)
  PROVE  IndInv'
<1> DEFINE me == h[k]["client"]
           taken == [me EXCEPT !.pc = "meta", !.refs = 1]
           broken == [me EXCEPT !.pc = "failed", !.err = "queue", !.refs = 1]
<1>1. me.pc \in {"pool", "meta"} /\ ClientInv(me) /\ "client" \in Sides
  BY DEF MakePool, NoBudget, IndInv, Sides
<1>2. \/ Advance(k, "client", taken, <<>>, "io")
      \/ Advance(k, "client", [me EXCEPT !.pc = "meta"], <<>>, "io")
      \/ Fail(k, "client", me, "buffers") \/ Fail(k, "client", me, "timeout")
      \/ h' = [h EXCEPT ![k]["client"] = broken]
  BY Zenon DEF MakePool, InitManager, NoBudget
<1>3. /\ Fields \subseteq DOMAIN taken /\ taken.err = me.err /\ taken.pc = "meta"
      /\ Fields \subseteq DOMAIN [me EXCEPT !.pc = "meta"]
      /\ [me EXCEPT !.pc = "meta"].err = me.err /\ [me EXCEPT !.pc = "meta"].pc = "meta"
      /\ Fields \subseteq DOMAIN me /\ ClientInv(broken)
  BY <1>1 DEF ClientInv, Fields, Early
<1>4. me.pc \notin Early \union {"failed"} /\ me.pc \notin {"idle", "failed"}
  BY <1>1 DEF Early
<1>5. CASE Advance(k, "client", taken, <<>>, "io")
  BY <1>1, <1>3, <1>4, <1>5, PastNegotiation DEF Early
<1>6. CASE Advance(k, "client", [me EXCEPT !.pc = "meta"], <<>>, "io")
  BY <1>1, <1>3, <1>4, <1>6, PastNegotiation DEF Early
<1>7. CASE Fail(k, "client", me, "buffers") \/ Fail(k, "client", me, "timeout")
  BY <1>1, <1>3, <1>4, <1>7, ClientFails
<1>8. CASE h' = [h EXCEPT ![k]["client"] = broken]
  BY <1>3, <1>4, <1>8, ClientWrite
<1> QED BY <1>2, <1>5, <1>6, <1>7, <1>8

(* SendMeta: the memory is created and described. *)
LEMMA SendKeeps ==
  ASSUME IndInv, NEW k \in Conns, NEW s \in Sides, SendMeta(k, s)
  PROVE  IndInv'
<1> DEFINE me == WithEventFd(s, h[k][s])
           new == [me EXCEPT !.pc = Initializer(me)[2]]
<1>1. Initializer(me)[2] \in {"ok", "ack_shm", "ack_fd"}
  BY DEF Initializer
<1>2. \/ Advance(k, s, new, <<Msg(Initializer(me)[1])>>, "io")
      \/ Fail(k, s, h[k][s], "create")
  BY Zenon DEF SendMeta
<1>3. CASE s = "server"
  BY <1>2, <1>3, ServerAdvances
<1>4. CASE s = "client"
  <2>1. ClientInv(h[k][s])
    BY <1>4 DEF IndInv
  <2>2. Fields \subseteq DOMAIN me /\ me.err = h[k][s].err /\ me.pc = h[k][s].pc
    BY <2>1 DEF WithEventFd, ClientInv, Fields
  <2>3. Fields \subseteq DOMAIN new /\ new.err = h[k][s].err /\ new.pc = Initializer(me)[2]
    BY <2>2 DEF Fields
  <2>4. h[k][s].pc = "meta"
    BY <2>2 DEF SendMeta
  <2> HIDE DEF me, new
  <2>5. CASE Advance(k, s, new, <<Msg(Initializer(me)[1])>>, "io")
    BY <1>1, <2>3, <2>4, <2>5, PastNegotiation DEF Early
  <2>6. CASE Fail(k, s, h[k][s], "create")
    BY <1>4, <2>1, <2>4, <2>6, ClientFails DEF ClientInv
  <2> QED BY <1>2, <2>5, <2>6 DEF new
<1> QED BY <1>3, <1>4 DEF Sides

(* The exchange of descriptors, on either side. *)
LEMMA ExchangeKeeps ==
  ASSUME IndInv, NEW k \in Conns, NEW s \in Sides, NEW m,
         AckFd(k, s, m) \/ PeerMeta(k, s, m) \/ PeerFds(k, s, m)
  PROVE  IndInv'
<1> DEFINE me == h[k][s]
           Grown(new) == s = "client" => /\ Fields \subseteq DOMAIN new /\ new.err = me.err
                                         /\ new.pc \notin Early \union {"failed"}
<1>1. me.pc \notin Early \union {"failed"} /\ Grown(me)
  BY DEF AckFd, PeerMeta, PeerFds, Early, IndInv, ClientInv
<1>2. ASSUME NEW r, Fields \subseteq DOMAIN r, r.err = me.err,
             NEW p \in {"ack_shm", "peer_meta", "peer_fds", "ok", "meta"}
      PROVE  Grown([r EXCEPT !.pc = p])
  BY <1>2 DEF Fields, Early
<1>3. s = "client" => Fields \subseteq DOMAIN me
  BY <1>1
<1>4. ASSUME NEW new, Grown(new), NEW ms, NEW e, e # "network",
             Advance(k, s, new, ms, e) \/ Fail(k, s, new, e)
      PROVE  IndInv'
  BY <1>1, <1>4, PastNegotiation
<1>5. CASE AckFd(k, s, m)
  <2>1. Advance(k, s, [me EXCEPT !.pc = AfterSending(s, me)], <<Fds(OwnFds(s, me))>>, "io")
    BY <1>5, Zenon DEF AckFd
  <2>2. AfterSending(s, me) \in {"ack_shm", "peer_meta", "ok"}
    BY DEF AfterSending
  <2>3. Grown([me EXCEPT !.pc = AfterSending(s, me)])
    BY <1>2, <1>3, <2>2
  <2> QED BY <1>4, <2>1, <2>3
<1>6. CASE PeerMeta(k, s, m)
  <2>1. \/ Advance(k, s, [me EXCEPT !.pc = "peer_fds"], <<Msg("ack_fd")>>, "io")
        \/ MapPath(k, me) \/ Fail(k, s, me, "meta")
    BY <1>6, Zenon DEF PeerMeta
  <2>2. Grown([me EXCEPT !.pc = "peer_fds"])
    BY <1>2, <1>3
  <2>3. CASE MapPath(k, me)
    BY <2>3, ServerAdvances DEF MapPath
  <2> QED BY <1>1, <1>4, <2>1, <2>2, <2>3
<1>7. CASE PeerFds(k, s, m)
  <2> DEFINE ends == [MapEndpoint(me, m.fds) EXCEPT !.pc = AfterMapping(s)]
             pool == [MapPool(me, m.fds) EXCEPT !.pc = "ok"]
  <2>1. \/ Advance(k, s, ends, <<>>, "io") \/ Advance(k, s, pool, <<Msg("ack_shm")>>, "io")
        \/ Fail(k, s, me, "map")
    BY <1>7, Zenon DEF PeerFds
  <2>2. s = "client" => /\ Fields \subseteq DOMAIN MapEndpoint(me, m.fds)
                        /\ MapEndpoint(me, m.fds).err = me.err
    BY <1>3 DEF MapEndpoint, Fields
  <2>3. s = "client" => /\ Fields \subseteq DOMAIN MapPool(me, m.fds)
                        /\ MapPool(me, m.fds).err = me.err
    BY <1>3 DEF MapPool, Fields
  <2>4. AfterMapping(s) \in {"ok", "meta"}
    BY DEF AfterMapping
  <2>5. Grown(ends) /\ Grown(pool)
    BY <1>2, <2>2, <2>3, <2>4
  <2> HIDE DEF ends, pool, Grown
  <2> QED BY <1>1, <1>4, <2>1, <2>5 DEF ends, pool
<1> QED BY <1>5, <1>6, <1>7

(* A message is read. *)
LEMMA ReceiveKeeps ==
  ASSUME IndInv, NEW k \in Conns, NEW s \in Sides, Receive(k, s)
  PROVE  IndInv'
<1> DEFINE m == Head(wire[k].to[s])
<1>1. \/ ReadVersion(k, m) \/ ReadResponse(k, m) \/ AckShm(k, m)
      \/ Answer(k, m) \/ ExchangeVersion(k, m) \/ FirstIsPath(k, m)
      \/ AckFd(k, s, m) \/ PeerMeta(k, s, m) \/ PeerFds(k, s, m)
  BY Zenon DEF Receive
<1> HIDE DEF m
<1>2. CASE AckShm(k, m)
  <2> DEFINE me == h[k]["client"]
             new == [me EXCEPT !.pc = "ok"]
  <2>1. me.pc = "ack_shm" /\ ClientInv(me) /\ Advance(k, "client", new, <<>>, "io")
    BY <1>2 DEF AckShm, IndInv
  <2>2. ClientInv(new)
    BY <2>1 DEF ClientInv, Fields, Early
  <2> QED BY <2>1, <2>2, ClientAdvances
<1>3. CASE Answer(k, m) \/ ExchangeVersion(k, m) \/ FirstIsPath(k, m)
  <2>1. \/ \E new, ms, e : Fail(k, "server", new, e) \/ Advance(k, "server", new, ms, e)
        \/ h' = [h EXCEPT ![k]["server"].pc = "failed", ![k]["server"].err = "version"]
    BY <1>3, Zenon DEF Answer, ExchangeVersion, FirstIsPath, MapPath
  <2>2. CASE h' = [h EXCEPT ![k]["server"].pc = "failed", ![k]["server"].err = "version"]
    <3>1. /\ DOMAIN h' = DOMAIN h
          /\ \A j \in Conns : h'[j]["client"] = h[j]["client"] /\ DOMAIN h'[j] = DOMAIN h[j]
      BY <2>2 DEF IndInv, Sides
    <3> QED BY <3>1 DEF IndInv, Conns
  <2> QED BY <2>1, <2>2, ServerAdvances
<1> QED BY <1>1, <1>2, <1>3, AnswerKeeps, ExchangeKeeps

(* A read ends without its message: a network error if it was the answer to *)
(* the negotiation.                                                         *)
LEMMA ReadFailsKeeps ==
  ASSUME IndInv, NEW k \in Conns, NEW s \in Sides, ReadFails(k, s)
  PROVE  IndInv'
<1> DEFINE me == h[k][s]
           e == IF me.pc = "response" THEN "network" ELSE "io"
<1>1. me.pc \in Waiting /\ Fail(k, s, me, e)
  BY Zenon DEF ReadFails
<1>2. CASE s = "server"
  BY <1>1, <1>2, ServerAdvances
<1>3. CASE s = "client"
  <2>1. ClientInv(me) /\ me.pc \notin {"idle", "failed"}
    BY <1>1, <1>3 DEF IndInv, Waiting
  <2>2. e = "network" => ~me.answered /\ me.ver = 0
    BY <2>1 DEF ClientInv, Early
  <2>3. Fields \subseteq DOMAIN me
    BY <2>1 DEF ClientInv
  <2> HIDE DEF e
  <2> QED BY <1>1, <1>3, <2>1, <2>2, <2>3, ClientFails
<1> QED BY <1>2, <1>3 DEF Sides

(* The timer marks its handler; accept starts the server's. *)
LEMMA TimerKeeps ==
  ASSUME IndInv, NEW k \in Conns, NEW s \in Sides, Timer(k, s)
  PROVE  IndInv'
<1> DEFINE new == [h[k][s] EXCEPT !.late = TRUE]
<1>1. h' = [h EXCEPT ![k][s] = new] /\ h[k][s].pc \notin {"idle", "failed"}
  BY DEF Timer, Running
<1>2. CASE s = "server"
  BY <1>1, <1>2, ServerWrite
<1>3. CASE s = "client"
  <2>1. ClientInv(new)
    BY <1>3 DEF IndInv, ClientInv, Fields
  <2> QED BY <1>1, <1>3, <2>1, ClientWrite
<1> QED BY <1>2, <1>3 DEF Sides

(* Every step keeps the invariant. *)
LEMMA StepInd ==
  ASSUME IndInv, [Next]_vars
  PROVE  IndInv'
<1>1. CASE UNCHANGED h
  BY <1>1 DEF IndInv
<1>2. ASSUME NEW k \in Conns, Accept(k) PROVE IndInv'
  <2>1. h' = [h EXCEPT ![k]["server"] = [h[k]["server"] EXCEPT !.pc = "first"]]
    BY <1>2 DEF Accept
  <2> QED BY <2>1, ServerWrite
<1>3. ASSUME NEW k \in Conns, ClientStep(k) PROVE IndInv'
  BY <1>3, ConnectKeeps, NegotiateKeeps, PoolKeeps DEF ClientStep
<1>4. ASSUME NEW k \in Conns, NEW s \in Sides, HandlerStep(k, s) \/ Timer(k, s)
      PROVE  IndInv'
  BY <1>4, SendKeeps, ReceiveKeeps, ReadFailsKeeps, TimerKeeps DEF HandlerStep
<1>5. ASSUME NEW k \in Conns, Reset(k) PROVE UNCHANGED h
  BY <1>5 DEF Reset
<1> QED BY <1>1, <1>2, <1>3, <1>4, <1>5 DEF Next, vars

(* The invariant always holds. *)
LEMMA AlwaysInd == Spec => []IndInv
BY InitInd, StepInd, PTL DEF Spec

(* Whatever the configuration and the peer, a peer that answered the        *)
(* negotiation is never asked again as a legacy peer.                       *)
THEOREM NeverDowngraded == Spec => []NoSilentDowngrade
<1>1. IndInv => NoSilentDowngrade
  BY DEF IndInv, NoSilentDowngrade, ClientInv, Conns
<1> QED BY <1>1, AlwaysInd, PTL

(* Whatever the configuration and the peer, and at whichever step it fails, *)
(* a client's handshake gives the buffer manager back.                      *)
THEOREM PoolIsGivenBack == Spec => []PoolGivenBack
<1>1. IndInv => PoolGivenBack
  BY DEF IndInv, PoolGivenBack, ClientInv
<1> QED BY <1>1, AlwaysInd, PTL
=============================================================================
