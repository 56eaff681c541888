------------------------------ MODULE SessionV4 ------------------------------
(***************************************************************************)
(* One direction of a V2 to V4 session: the sender's streams, the event    *)
(* queue, the unix socket, and the receiver's tasks and streams.  Queue    *)
(* shows that put and pop are a FIFO with a sound wakeup, so each is one   *)
(* step here.  Unlike V5, what arrives over the socket is handled without  *)
(* draining the queue, and no lock is held while a message is delivered.   *)
(* A message is its number in its stream.  An id the server closed and     *)
(* sees again gets a new stream object: a new life of the id.              *)
(***************************************************************************)
EXTENDS Naturals, Sequences, SequencesExt, FiniteSets

CONSTANTS
  Streams,   \* the stream ids, one sending task each
  Cap,       \* elements of the queue
  MaxMsgs,   \* the most messages a stream flushes
  Confs,     \* the session configurations considered, see conf
  None

ASSUME ParameterAssumption == MaxMsgs \in Nat \ {0} /\ Cap \in Nat \ {0}
ASSUME ConfsAssumption ==
  \A c \in Confs :
    /\ c.mode \in {"socket", "eventfd", "polling"} /\ c.is_client \in BOOLEAN
    /\ {c.fallback, c.closes} \subseteq BOOLEAN
    /\ DOMAIN c.quota \subseteq Streams /\ c.quota \in [DOMAIN c.quota -> 0..MaxMsgs]

Lives == 1..MaxMsgs          \* every life after a client's first takes a message to create
Tasks == {"drain", "read"}   \* in socket mode the read loop does both, one at a time

VARIABLES
  conf,           \* how this session is set up, fixed when it starts
  queue, working_flag, sock, eventfd,  \* what the two processes share
  spc,            \* each stream's task: "idle", "put", "mark", "wake", "closed"
  nxt, closing,   \* its next message; whether it is closing
  in_fallback,    \* StreamShared.in_fallback of the sending stream
  queued,         \* ghost: the messages put on the queue
  dpc,            \* drain_recv_queue_v4: "off", "pop", "clear", "size", "set"
  job,            \* the delivery each receiving task is in the middle of
  map, born,      \* session.streams: the life each id names, 0 if none; lives created
  st, pending,    \* state and pending list of each life
  read,           \* ghost: what its reader has taken, in order
  recycled        \* ghost: the queued messages whose slices went back unread

Mode == conf.mode            \* how the receiver is woken
IsClient == conf.is_client   \* whether the receiver is the client
Fallback == conf.fallback    \* whether the buffer pool may run dry
Closes == conf.closes        \* whether the receiving application may close streams
Quota == conf.quota          \* how many messages each stream in use flushes
Used == DOMAIN Quota

wires == <<queue, working_flag, sock, eventfd>>
sender == <<spc, nxt, closing, in_fallback, queued>>
loops == <<dpc, job>>
streams == <<map, born, st, pending, read, recycled>>
vars == <<conf, wires, sender, loops, streams>>

PerLife(v) == [s \in Streams |-> [l \in Lives |-> v]]

Init ==
  /\ conf \in Confs /\ queue = <<>> /\ working_flag = 0 /\ sock = <<>> /\ eventfd = FALSE
  /\ spc = [s \in Streams |-> IF s \in Used THEN "idle" ELSE "closed"] /\ nxt = [s \in Streams |-> 1]
  /\ closing = [s \in Streams |-> FALSE] /\ in_fallback = [s \in Streams |-> FALSE]
  /\ queued = {} /\ dpc = "off" /\ job = [t \in Tasks |-> None]
  /\ map = [s \in Streams |-> IF IsClient /\ s \in Used THEN 1 ELSE 0] /\ born = map
  /\ st = PerLife("open") /\ pending = PerLife(<<>>) /\ read = PerLife(<<>>)
  /\ recycled = {}

-----------------------------------------------------------------------------
(* The sender. *)
Go(s, l) == spc' = [spc EXCEPT ![s] = l]
Done(s) == Go(s, IF closing[s] THEN "closed" ELSE "idle")
Event(op, s, m) == [op |-> op, stream |-> s, msg |-> m]
Advance(s) == nxt' = [nxt EXCEPT ![s] = @ + 1]

(* flush_v4 of a message wholly in shared memory. *)
Flush(s) ==
  /\ spc[s] = "idle" /\ nxt[s] <= Quota[s] /\ ~in_fallback[s]
  /\ Go(s, "put")
  /\ UNCHANGED <<conf, nxt, closing, in_fallback, queued, wires, loops, streams>>

(* flush_v4 of a message that is not, and of every later one. *)
FlushFallback(s) ==
  /\ spc[s] = "idle" /\ nxt[s] <= Quota[s] /\ (Fallback \/ in_fallback[s])
  /\ in_fallback' = [in_fallback EXCEPT ![s] = TRUE]
  /\ sock' = Append(sock, Event("fallback", s, nxt[s]))
  /\ Advance(s)
  /\ UNCHANGED <<conf, spc, closing, queued, queue, working_flag, eventfd, loops, streams>>

(* The stream's reader meets a fallback slice of the peer's. *)
Pinned(s) ==
  /\ Fallback /\ spc[s] = "idle" /\ ~in_fallback[s]
  /\ in_fallback' = [in_fallback EXCEPT ![s] = TRUE]
  /\ UNCHANGED <<conf, spc, nxt, closing, queued, wires, loops, streams>>

CloseStream(s) ==
  /\ spc[s] = "idle" /\ closing' = [closing EXCEPT ![s] = TRUE]
  /\ IF in_fallback[s]
     THEN Go(s, "closed") /\ sock' = Append(sock, Event("close", s, 0))
     ELSE Go(s, "put") /\ sock' = sock
  /\ UNCHANGED <<conf, nxt, in_fallback, queued, queue, working_flag, eventfd, loops, streams>>

Put(s) ==
  /\ spc[s] = "put" /\ Len(queue) < Cap
  /\ Go(s, IF Mode = "polling" THEN IF closing[s] THEN "closed" ELSE "idle" ELSE "mark")
  /\ IF closing[s]
     THEN queue' = Append(queue, Event("close", s, 0)) /\ UNCHANGED <<queued, nxt>>
     ELSE /\ queue' = Append(queue, Event("data", s, nxt[s]))
          /\ queued' = queued \union {<<s, nxt[s]>>}
          /\ Advance(s)
  /\ UNCHANGED <<conf, closing, in_fallback, working_flag, sock, eventfd, loops, streams>>

(* Mutant: data that finds the queue full goes over the socket at once. *)
PutFullOvertakes(s) ==
  /\ spc[s] = "put" /\ Len(queue) = Cap /\ Done(s)
  /\ sock' = Append(sock, IF closing[s] THEN Event("close", s, 0) ELSE Event("fallback", s, nxt[s]))
  /\ IF closing[s] THEN nxt' = nxt ELSE Advance(s)
  /\ UNCHANGED <<conf, closing, in_fallback, queued, queue, working_flag, eventfd, loops, streams>>

(* QueueFull.  A close goes over the socket instead.  Data is put again by *)
(* retry_queue_put (Put, once there is room) until it gives up: the flush  *)
(* fails and the message goes back to the sender's pool.                   *)
PutFull(s) ==
  /\ spc[s] = "put" /\ Len(queue) = Cap /\ Done(s)
  /\ IF closing[s]
     THEN sock' = Append(sock, Event("close", s, 0)) /\ nxt' = nxt
     ELSE sock' = sock /\ Advance(s)
  /\ UNCHANGED <<conf, closing, in_fallback, queued, queue, working_flag, eventfd, loops, streams>>

(* wake_up_peer: mark_working, and the event of whoever set the flag. *)
MarkWorking(s) ==
  /\ spc[s] = "mark" /\ working_flag' = 1
  /\ IF working_flag = 0 THEN Go(s, "wake") ELSE Done(s)
  /\ UNCHANGED <<conf, nxt, closing, in_fallback, queued, queue, sock, eventfd, loops, streams>>

SendEvent(s) ==
  /\ spc[s] = "wake" /\ Done(s)
  /\ IF Mode = "eventfd" THEN eventfd' = TRUE /\ sock' = sock
     ELSE sock' = Append(sock, Event("polling", None, 0)) /\ eventfd' = eventfd
  /\ UNCHANGED <<conf, nxt, closing, in_fallback, queued, queue, working_flag, loops, streams>>

SenderStep(s) == Put(s) \/ PutFull(s) \/ MarkWorking(s) \/ SendEvent(s)
Sender(s) == Flush(s) \/ FlushFallback(s) \/ Pinned(s) \/ CloseStream(s) \/ SenderStep(s)

-----------------------------------------------------------------------------
(* The receiver's tasks. *)
Reading == job["read"] = None /\ ~(Mode = "socket" /\ dpc # "off")
Take(t, ev) == job' = [job EXCEPT ![t] = [ev |-> ev, at |-> "lookup", life |-> 0]]
Move(t, at, l) == job' = [job EXCEPT ![t].at = at, ![t].life = l]
Finish(t) == job' = [job EXCEPT ![t] = None]
HalfClose(s, l) == st' = [st EXCEPT ![s][l] = IF @ = "open" THEN "half" ELSE @]
Recycle(s, msgs) == recycled' = recycled \union {<<s, m>> : m \in {x \in msgs : <<s, x>> \in queued}}

ReadPolling ==
  /\ Reading /\ sock # <<>> /\ Head(sock).op = "polling"
  /\ sock' = Tail(sock) /\ dpc' = "pop"
  /\ UNCHANGED <<conf, queue, working_flag, eventfd, sender, job, streams>>

(* handle_fallback_payload: no look at the queue. *)
ReadFallback ==
  /\ Reading /\ sock # <<>> /\ Head(sock).op = "fallback"
  /\ sock' = Tail(sock) /\ Take("read", Head(sock))
  /\ UNCHANGED <<conf, queue, working_flag, eventfd, sender, dpc, streams>>

(* handle_stream_close: none either. *)
ReadClose ==
  /\ Reading /\ sock # <<>> /\ Head(sock).op = "close" /\ sock' = Tail(sock)
  /\ LET s == Head(sock).stream IN
       /\ map' = [map EXCEPT ![s] = 0]
       /\ IF map[s] # 0 THEN HalfClose(s, map[s]) ELSE st' = st
  /\ UNCHANGED <<conf, queue, working_flag, eventfd, sender, loops, born, pending, read, recycled>>

(* eventfd_loop takes the count; polling_loop's tick needs none. *)
Woken ==
  /\ dpc = "off" /\ dpc' = "pop"
  /\ Mode = "polling" \/ (Mode = "eventfd" /\ eventfd)
  /\ eventfd' = FALSE
  /\ UNCHANGED <<conf, queue, working_flag, sock, sender, job, streams>>

Pop ==
  /\ dpc = "pop" /\ job["drain"] = None
  /\ IF queue = <<>> THEN dpc' = "clear" /\ UNCHANGED <<queue, job>>
     ELSE Take("drain", Head(queue)) /\ queue' = Tail(queue) /\ dpc' = dpc
  /\ UNCHANGED <<conf, working_flag, sock, eventfd, sender, streams>>

(* mark_not_working: clear the flag, look again, set it and go on. *)
ClearFlag ==
  /\ dpc = "clear" /\ dpc' = "size" /\ working_flag' = 0
  /\ UNCHANGED <<conf, queue, sock, eventfd, sender, job, streams>>

(* Mutant: the drain ends without looking at the queue again. *)
SizeIgnored ==
  /\ dpc = "size" /\ dpc' = "off"
  /\ UNCHANGED <<conf, wires, sender, job, streams>>

CheckSize ==
  /\ dpc = "size" /\ dpc' = (IF queue = <<>> THEN "off" ELSE "set")
  /\ UNCHANGED <<conf, wires, sender, job, streams>>

SetFlag ==
  /\ dpc = "set" /\ dpc' = "pop" /\ working_flag' = 1
  /\ UNCHANGED <<conf, queue, sock, eventfd, sender, job, streams>>

-----------------------------------------------------------------------------
(* Mutant: an element of a stream that is gone keeps its slices. *)
LookupLeaks(t) ==
  /\ job[t] # None /\ job[t].at = "lookup"
  /\ LET s == job[t].ev.stream IN
       IF map[s] # 0 THEN Move(t, "push", map[s])
       ELSE IF ~IsClient /\ job[t].ev.op # "close" THEN Move(t, "insert", 0)
       ELSE Finish(t)
  /\ UNCHANGED <<conf, wires, sender, dpc, streams>>

(* get_stream under the read lock.  An element of a stream that is gone    *)
(* still owns its slices, which are recycled.                              *)
Lookup(t) ==
  /\ job[t] # None /\ job[t].at = "lookup"
  /\ LET s == job[t].ev.stream IN
       \/ map[s] # 0 /\ Move(t, "push", map[s]) /\ recycled' = recycled
       \/ /\ map[s] = 0 /\ ~IsClient /\ job[t].ev.op # "close"
          /\ Move(t, "insert", 0) /\ recycled' = recycled
       \/ /\ map[s] = 0 /\ (IsClient \/ job[t].ev.op = "close")
          /\ Finish(t) /\ Recycle(s, {job[t].ev.msg})
  /\ UNCHANGED <<conf, wires, sender, dpc, map, born, st, pending, read>>

(* The new stream is inserted under the write lock, whatever the other     *)
(* task inserted since, and goes to accept.                                *)
Insert(t) ==
  /\ job[t] # None /\ job[t].at = "insert"
  /\ LET s == job[t].ev.stream IN
       /\ born' = [born EXCEPT ![s] = @ + 1]
       /\ map' = [map EXCEPT ![s] = born[s] + 1]
       /\ Move(t, "push", born[s] + 1)
  /\ UNCHANGED <<conf, wires, sender, dpc, st, pending, read, recycled>>

(* handle_stream_message: half_close, or the push of                       *)
(* fill_data_to_read_buffer, which then looks at the state.                *)
Push(t) ==
  /\ job[t] # None /\ job[t].at = "push"
  /\ LET s == job[t].ev.stream  l == job[t].life IN
       IF job[t].ev.op = "close"
       THEN HalfClose(s, l) /\ Finish(t) /\ pending' = pending
       ELSE /\ pending' = [pending EXCEPT ![s][l] = Append(@, job[t].ev.msg)]
            /\ Move(t, "check", l) /\ st' = st
  /\ UNCHANGED <<conf, wires, sender, dpc, map, born, read, recycled>>

Closed(s, l) == st[s][l] \in {"closing", "cleaning", "closed"}

CleanPending(s, l) ==
  /\ pending' = [pending EXCEPT ![s][l] = <<>>]
  /\ Recycle(s, ToSet(pending[s][l]))

(* Mutant: the state is not looked at after the push. *)
CheckSkipped(t) ==
  /\ job[t] # None /\ job[t].at = "check" /\ Finish(t)
  /\ UNCHANGED <<conf, wires, sender, dpc, streams>>

Check(t) ==
  /\ job[t] # None /\ job[t].at = "check" /\ Finish(t)
  /\ IF Closed(job[t].ev.stream, job[t].life)
     THEN CleanPending(job[t].ev.stream, job[t].life)
     ELSE UNCHANGED <<pending, recycled>>
  /\ UNCHANGED <<conf, wires, sender, dpc, map, born, st, read>>

Drain ==
  \/ Woken \/ Pop \/ ClearFlag \/ CheckSize \/ SetFlag
  \/ Lookup("drain") \/ Insert("drain") \/ Push("drain") \/ Check("drain")
ReadLoop ==
  \/ ReadPolling \/ ReadFallback \/ ReadClose
  \/ Lookup("read") \/ Insert("read") \/ Push("read") \/ Check("read")

-----------------------------------------------------------------------------
(* The receiving application. *)
AppRead(s, l) ==
  /\ l <= born[s] /\ ~Closed(s, l) /\ pending[s][l] # <<>>
  /\ read' = [read EXCEPT ![s][l] = @ \o pending[s][l]]
  /\ pending' = [pending EXCEPT ![s][l] = <<>>]
  /\ UNCHANGED <<conf, wires, sender, loops, map, born, st, recycled>>

(* close: the state, then the map entry of the id, then the pending data. *)
AppClose(s, l) ==
  /\ Closes /\ l <= born[s] /\ ~Closed(s, l)
  /\ st' = [st EXCEPT ![s][l] = "closing"]
  /\ UNCHANGED <<conf, wires, sender, loops, map, born, pending, read, recycled>>

AppRemove(s, l) ==
  /\ st[s][l] = "closing" /\ st' = [st EXCEPT ![s][l] = "cleaning"]
  /\ map' = [map EXCEPT ![s] = 0]
  /\ UNCHANGED <<conf, wires, sender, loops, born, pending, read, recycled>>

AppClean(s, l) ==
  /\ st[s][l] = "cleaning" /\ st' = [st EXCEPT ![s][l] = "closed"]
  /\ CleanPending(s, l)
  /\ UNCHANGED <<conf, wires, sender, loops, map, born, read>>

App(s, l) == AppRead(s, l) \/ AppClose(s, l) \/ AppRemove(s, l) \/ AppClean(s, l)

Next ==
  \/ \E s \in Streams : Sender(s) \/ \E l \in Lives : App(s, l)
  \/ Drain \/ ReadLoop

Spec == Init /\ [][Next]_vars

(* Calls in progress go on and both receiving tasks are scheduled; nobody  *)
(* has to flush, read or close.                                            *)
FairSpec ==
  /\ Spec /\ WF_vars(Drain) /\ WF_vars(ReadLoop)
  /\ \A s \in Streams : WF_vars(SenderStep(s))

-----------------------------------------------------------------------------
Increasing(q) == \A i, j \in DOMAIN q : i < j => q[i] < q[j]

(* Readers get a stream's messages in the order of its flushes, as long as *)
(* none of them takes the socket; and those that came through the queue are *)
(* in order among themselves whatever else the stream sends and whichever   *)
(* life of the id gets them (flush_v4, retry_queue_put, the drain).         *)
InOrder ==
  \A s \in Streams : \A l \in Lives :
    LET got == read[s][l] \o pending[s][l]
        fromQueue(m) == <<s, m>> \in queued
    IN Increasing(SelectSeq(got, fromQueue)) /\ (Fallback \/ Increasing(got))

(* Order over both routes: "Once we send data using uds, for this stream   *)
(* we will always use uds later to avoid unordering" (flush_v4).           *)
InOrderWithFallback ==
  \A s \in Streams : \A l \in Lives : Increasing(read[s][l] \o pending[s][l])

(* The slices of a message that was put on the queue have one owner from   *)
(* then on: the queue, the drain before its push, one life's pending list  *)
(* or reader, or the pool (drain_recv_queue_v4 recycles what is for nobody,*)
(* clean_pending_data what nobody read), never two and never none.         *)
OneOwner ==
  \A <<s, m>> \in queued :
    LET drain == job["drain"]
        owners ==
          {<<"queue", i>> : i \in {k \in DOMAIN queue : queue[k] = Event("data", s, m)}}
          \union {<<"drain", 0>> : k \in {x \in {1} : drain # None /\ drain.at # "check"
                                                      /\ drain.ev = Event("data", s, m)}}
          \union {<<"pending", l>> : l \in {k \in Lives : Contains(pending[s][k], m)}}
          \union {<<"read", l>> : l \in {k \in Lives : Contains(read[s][k], m)}}
          \union {<<"pool", 0>> : k \in {x \in {1} : <<s, m>> \in recycled}}
    IN Cardinality(owners) = 1

(* A closed stream holds no data once close has cleaned it and no delivery *)
(* into it is under way: close (state, then clean) and                     *)
(* fill_data_to_read_buffer (push, then state) never both look away.       *)
ClosedIsClean ==
  \A s \in Streams : \A l \in Lives :
    /\ st[s][l] = "closed"
    /\ \A t \in Tasks : job[t] # None => ~(job[t].ev.stream = s /\ job[t].life = l)
    => pending[s][l] = <<>>

(* Whatever was put on the queue reaches a stream or the pool: the wakeup  *)
(* protocol leaves nothing behind, whoever else is sending.                *)
EveryMessageSettles ==
  \A s \in Streams : \A m \in 1..MaxMsgs :
    <<s, m>> \in queued ~>
      \/ <<s, m>> \in recycled
      \/ \E l \in Lives : Contains(read[s][l] \o pending[s][l], m)
=============================================================================
