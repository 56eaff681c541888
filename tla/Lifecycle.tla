------------------------------ MODULE Lifecycle ------------------------------
(***************************************************************************)
(* The life of a session around its data path: the socket writer its tasks *)
(* share, the loops it spawns, its shutdown, the streams it pools, the     *)
(* process-wide registry of buffer managers it takes part in, and the      *)
(* session manager that replaces it when it dies.                          *)
(*                                                                         *)
(* Source: session/mod.rs, session/manager.rs, session/pool.rs,            *)
(* buffer/manager.rs, util/buf_reader.rs.                                  *)
(*                                                                         *)
(* A frame is a sequence of <<frame, k>> bytes.  A polling event is a bare *)
(* header of HeaderSize bytes; a fallback frame has one byte more for its  *)
(* stream id and status, and one of payload.                               *)
(*                                                                         *)
(* tokio's notify_waiters reaches the Notified futures that exist when it  *)
(* is called and no later one, so a task has to be past the line that      *)
(* creates its future to be told.                                          *)
(***************************************************************************)
EXTENDS Naturals, Sequences, SequencesExt, FiniteSets

CONSTANTS
  Sessions,    \* session identities, each connected once
  Managers,    \* buffer manager identities, taken again once nothing holds them
  Tasks,       \* application tasks that write on session 1
  ChanCap,     \* slots of the send channel (4096 in the code)
  SockCap,     \* bytes the socket takes before a write has to wait
  BufCap,      \* bytes of the peer's BufReader
  PoolCap,     \* max_stream_num: streams the pool keeps
  MaxStreams,  \* streams a session opens, a bound on next_stream_id
  Confs,       \* the configurations to explore
  None

ASSUME NoneAssumption == None \notin Managers

VARIABLES
  conf,      \* the configuration of this run
  wire,      \* per session: channel, writer, socket and the peer's reader
  task,      \* per task: what it is doing, the bytes it still has to queue
  loops,     \* per session: where its read loop and its write loop are
  told,      \* per session: the loops its shutdown_notify has reached
  cl,        \* per session: how far Session::close has got
  bm,        \* per session: the buffer manager it holds
  BUFFER_MANAGERS,  \* the registry entry of the path all sessions share
  ref_count, \* per buffer manager
  unmapped,  \* the buffer managers whose descriptor or file is gone
  hand,      \* per holder: a manager taken out of the registry, to put back
  sessions,  \* per slot of the session manager: the session it serves
  rebuild,   \* per slot: its rebuild task
  shutdown_tx, \* how far SessionManager::close has got
  streams,   \* per session: the state of the streams it has opened: "open", "half", "closed"
  mapped,    \* per session: the streams in its map
  pool,      \* per session: its StreamPool
  unhealthy, \* the sessions whose circuit breaker is open
  user       \* per user: the stream it opens, holds or releases, and by which call

wireVars == <<wire, task>>
closeVars == <<loops, told, cl>>
registryVars == <<bm, BUFFER_MANAGERS, ref_count, unmapped, hand>>
managerVars == <<sessions, rebuild, shutdown_tx>>
streamVars == <<streams, mapped, pool, unhealthy, user>>
vars == <<conf, wireVars, closeVars, registryVars, managerVars, streamVars>>

Slots == {1, 2}
Users == {1, 2}
ASSUME ConfsAssumption == \A c \in Confs : c.slots \subseteq Slots
Me(s) == <<"session", s>>
Task(i) == <<"rebuild", i>>
Holders == {Me(s) : s \in Sessions} \cup {Task(i) : i \in Slots}
-----------------------------------------------------------------------------
(* Frames.                                                                 *)

HeaderSize == 2
FallbackHeader == 3
Frame(f, n) == [k \in 1..n |-> <<f, k>>]
PollingEvent == Frame("polling", HeaderSize)
FallbackFrame(t) == Frame(t, FallbackHeader + 1)

Least(a, b) == IF a < b THEN a ELSE b

(* A connection just handed to Session::new: nothing queued, nothing read. *)
NewWire ==
  [chan |-> <<>>, writer |-> "free", carry |-> <<>>, out |-> <<>>, tx |-> None,
   sock |-> <<>>, buf |-> <<>>, pos |-> 0, want |-> HeaderSize,
   working |-> FALSE, up |-> TRUE]
NewLoops ==
  [which \in {"read", "write"} |-> IF which \in conf.loops THEN "spawned" ELSE "ended"]

Shutdown(s) == cl[s] \notin {"none", "open"}
Idle == [pc |-> "idle", body |-> <<>>]

(* exit_err and Session::close: whoever moves shutdown from 0 to 1 runs    *)
(* the close, and everybody else returns at once.                          *)
Closing(s) == [cl EXCEPT ![s] = IF @ = "open" THEN "pool" ELSE @]
-----------------------------------------------------------------------------
(* wake_up_peer: claim the peer's consumer, try the socket, and fall back  *)
(* to the write loop.                                                      *)

Claim(t) ==
  /\ t \in conf.wakers /\ task[t].pc = "idle"
  /\ ~wire[1].working
  /\ wire' = [wire EXCEPT ![1].working = TRUE]
  /\ task' = [task EXCEPT ![t] = [pc |-> "try", body |-> PollingEvent]]
  /\ UNCHANGED <<conf, closeVars, registryVars, managerVars, streamVars>>

(* Mutant: what the socket did not take is left for whoever writes next.   *)
TryWriteWakeupForgets(t) ==
  LET w == wire[1]
      n == Least(HeaderSize, SockCap - Len(w.sock))
  IN /\ task[t].pc = "try"
     /\ \/ /\ w.writer # "free" \/ w.carry # <<>> \/ n = 0
           /\ task' = [task EXCEPT ![t].pc = "queue"]
           /\ UNCHANGED wire
        \/ /\ w.writer = "free" /\ w.carry = <<>> /\ n > 0
           /\ wire' = [wire EXCEPT ![1].sock = @ \o SubSeq(PollingEvent, 1, n),
                                  ![1].carry = SubSeq(PollingEvent, n + 1, HeaderSize)]
           /\ task' = [task EXCEPT ![t] = Idle]
     /\ UNCHANGED <<conf, closeVars, registryVars, managerVars, streamVars>>

(* try_write_wakeup never waits: with the lock taken, the writer gone or a *)
(* carry pending it writes nothing.  What the socket does not take becomes *)
(* the carry, and the write loop is sent an empty body to flush it.        *)
TryWriteWakeup(t) ==
  LET w == wire[1]
      free == w.writer = "free" /\ w.carry = <<>>
      n == Least(HeaderSize, SockCap - Len(w.sock))
      written == SubSeq(task[t].body, 1, n)
      rest == SubSeq(task[t].body, n + 1, HeaderSize)
  IN /\ task[t].pc = "try"
     /\ \/ /\ ~free \/ (w.up /\ n = 0)
           /\ task' = [task EXCEPT ![t].pc = "queue"]
           /\ UNCHANGED <<wire, cl>>
        \/ /\ free /\ w.up /\ n > 0
           /\ wire' = [wire EXCEPT ![1].sock = @ \o written, ![1].carry = rest]
           /\ task' = [task EXCEPT ![t] =
                IF rest = <<>> THEN Idle ELSE [pc |-> "queue", body |-> <<>>]]
           /\ UNCHANGED cl
        \/ /\ free /\ ~w.up
           /\ cl' = Closing(1)
           /\ task' = [task EXCEPT ![t] = Idle]
           /\ UNCHANGED wire
     /\ UNCHANGED <<conf, loops, told, registryVars, managerVars, streamVars>>

Received(s) == loops[s].write # "ended"

(* The send of the wakeup on the channel, whose result is ignored.         *)
QueueWakeup(t) ==
  /\ task[t].pc = "queue"
  /\ \/ /\ Received(1) /\ Len(wire[1].chan) < ChanCap
        /\ wire' = [wire EXCEPT ![1].chan = Append(@, [body |-> task[t].body, tx |-> None])]
     \/ /\ ~Received(1)
        /\ UNCHANGED wire
  /\ task' = [task EXCEPT ![t] = Idle]
  /\ UNCHANGED <<conf, closeVars, registryVars, managerVars, streamVars>>
-----------------------------------------------------------------------------
(* wait_for_send: queue a frame within the write timeout, then wait for    *)
(* the write loop to answer on the oneshot it carries.                     *)

WaitForSend(t) ==
  /\ t \in conf.senders /\ task[t].pc = "idle"
  /\ task' = [task EXCEPT ![t] = [pc |-> "send", body |-> FallbackFrame(t)]]
  /\ UNCHANGED <<conf, wire, closeVars, registryVars, managerVars, streamVars>>

(* When the channel is closed the refused SendReady, oneshot included, is  *)
(* the value being matched, and stays alive while its receiver is awaited. *)
Send(t) ==
  /\ task[t].pc = "send"
  /\ \/ /\ Received(1) /\ Len(wire[1].chan) < ChanCap
        /\ wire' = [wire EXCEPT ![1].chan = Append(@, [body |-> task[t].body, tx |-> t])]
        /\ task' = [task EXCEPT ![t] = [pc |-> "wait", body |-> <<>>]]
     \/ /\ ~Received(1)
        /\ task' = [task EXCEPT ![t] = [pc |-> "refused", body |-> <<>>]]
        /\ UNCHANGED wire
  /\ UNCHANGED <<conf, closeVars, registryVars, managerVars, streamVars>>

SendTimeout(t) ==
  /\ task[t].pc = "send" /\ Received(1) /\ Len(wire[1].chan) = ChanCap
  /\ task' = [task EXCEPT ![t] = Idle]
  /\ UNCHANGED <<conf, wire, closeVars, registryVars, managerVars, streamVars>>

(* The oneshots in `txs` are answered or dropped: their tasks return.      *)
Answered(txs) == [t \in Tasks |-> IF t \in txs THEN Idle ELSE task[t]]
-----------------------------------------------------------------------------
(* write_loop.                                                             *)

Loop(s, which, pc) == [loops EXCEPT ![s][which] = pc]

(* A loop runs up to the line that creates its Notified future.            *)
StartLoop(s, which) ==
  /\ loops[s][which] = "spawned"
  /\ loops' = Loop(s, which, "run")
  /\ UNCHANGED <<conf, wireVars, told, cl, registryVars, managerVars, streamVars>>

(* Mutant: the frame goes ahead of the carry.                              *)
WriteLoopTakeFirst(s) ==
  /\ loops[s].write = "run" /\ wire[s].chan # <<>> /\ wire[s].writer = "free"
  /\ wire' = [wire EXCEPT ![s] = [@ EXCEPT
       !.chan = Tail(@), !.writer = "loop", !.tx = Head(wire[s].chan).tx,
       !.out = Head(wire[s].chan).body \o wire[s].carry, !.carry = <<>>]]
  /\ loops' = Loop(s, "write", "write")
  /\ UNCHANGED <<conf, task, told, cl, registryVars, managerVars, streamVars>>

(* The receive comes first in the select: the loop stops only once the     *)
(* channel is empty.  The frame waits for the lock, and the carry of a     *)
(* wakeup goes out ahead of it.                                            *)
WriteLoopTake(s) ==
  /\ loops[s].write = "run" /\ wire[s].chan # <<>> /\ wire[s].writer = "free"
  /\ LET ready == Head(wire[s].chan)
     IN wire' = [wire EXCEPT ![s] = [@ EXCEPT
          !.chan = Tail(@), !.writer = "loop", !.tx = ready.tx,
          !.out = wire[s].carry \o ready.body, !.carry = <<>>]]
  /\ loops' = Loop(s, "write", "write")
  /\ UNCHANGED <<conf, task, told, cl, registryVars, managerVars, streamVars>>

WriteLoopWrite(s) ==
  /\ loops[s].write = "write" /\ wire[s].up /\ wire[s].out # <<>>
  /\ Len(wire[s].sock) < SockCap
  /\ wire' = [wire EXCEPT ![s].sock = Append(@, Head(wire[s].out)), ![s].out = Tail(@)]
  /\ UNCHANGED <<conf, task, closeVars, registryVars, managerVars, streamVars>>

WriteLoopSent(s) ==
  /\ loops[s].write = "write" /\ wire[s].out = <<>>
  /\ wire' = [wire EXCEPT ![s].writer = "free", ![s].tx = None]
  /\ task' = Answered({wire[s].tx})
  /\ loops' = Loop(s, "write", "run")
  /\ UNCHANGED <<conf, told, cl, registryVars, managerVars, streamVars>>

WriteLoopFail(s) ==
  /\ loops[s].write = "write" /\ ~wire[s].up /\ wire[s].out # <<>>
  /\ wire' = [wire EXCEPT ![s].writer = "free", ![s].out = <<>>, ![s].tx = None]
  /\ task' = Answered({wire[s].tx})
  /\ cl' = Closing(s)
  /\ loops' = Loop(s, "write", "break")
  /\ UNCHANGED <<conf, told, registryVars, managerVars, streamVars>>

WriteLoopStop(s) ==
  /\ loops[s].write = "run" /\ wire[s].chan = <<>> /\ "write" \in told[s]
  /\ loops' = Loop(s, "write", "break")
  /\ UNCHANGED <<conf, wireVars, told, cl, registryVars, managerVars, streamVars>>

(* Mutant: the loop ends without dropping what is queued.                  *)
WriteLoopEndKeeps(s) ==
  /\ loops[s].write = "break" /\ wire[s].writer = "free"
  /\ wire' = [wire EXCEPT ![s].writer = "gone"]
  /\ loops' = Loop(s, "write", "ended")
  /\ UNCHANGED <<conf, task, told, cl, registryVars, managerVars, streamVars>>

(* The loop takes the writer, which closes the sending half, and drops its *)
(* receiver with whatever is still queued.                                 *)
WriteLoopEnd(s) ==
  /\ loops[s].write = "break" /\ wire[s].writer = "free"
  /\ wire' = [wire EXCEPT ![s].writer = "gone", ![s].chan = <<>>]
  /\ task' = Answered({ready.tx : ready \in ToSet(wire[s].chan)})
  /\ loops' = Loop(s, "write", "ended")
  /\ UNCHANGED <<conf, told, cl, registryVars, managerVars, streamVars>>
-----------------------------------------------------------------------------
(* The peer's end of the connection: its read_loop over a BufReader.       *)

(* Where fill_buf_at_least has the data start before it reads.             *)
Compact(w) ==
  IF w.buf = <<>> \/ w.want > BufCap - w.pos THEN 0 ELSE w.pos

(* poll_fill_buf, behind read_exact, only starts over at the very end.     *)
Rewind(w) == IF w.pos >= BufCap THEN 0 ELSE w.pos

(* Bytes a read of the socket may bring in.                                *)
ReadRoom(w, pos) == BufCap - (pos + Len(w.buf))

Fill(w, pos) ==
  LET n == Least(ReadRoom(w, pos), Len(w.sock))
  IN [w EXCEPT !.pos = pos, !.buf = @ \o SubSeq(w.sock, 1, n),
               !.sock = SubSeq(@, n + 1, Len(@))]

Consume(w, n, want) ==
  [w EXCEPT !.pos = @ + n, !.buf = SubSeq(@, n + 1, Len(@)), !.want = want]

Starved(w) == Len(w.buf) < w.want \/ (w.want = 0 /\ w.buf = <<>>)

PeerFill(s) ==
  LET w == wire[s]
      pos == IF w.want = 0 THEN Rewind(w) ELSE Compact(w)
  IN /\ w.up /\ Starved(w) /\ w.sock # <<>> /\ ReadRoom(w, pos) > 0
     /\ wire' = [wire EXCEPT ![s] = Fill(w, pos)]
     /\ UNCHANGED <<conf, task, closeVars, registryVars, managerVars, streamVars>>

(* One event of handle_events.  A polling event drains the queue and gives *)
(* the claim back; a fallback frame asks for its own header first and then *)
(* for a payload that is read past the buffer.                             *)
PeerHandle(s) ==
  LET w == wire[s]
      polling == Head(w.buf)[1] = "polling"
  IN /\ w.up /\ w.want > 0 /\ ~Starved(w)
     /\ wire' = [wire EXCEPT ![s] =
          IF polling THEN [Consume(w, HeaderSize, HeaderSize) EXCEPT !.working = FALSE]
          ELSE IF Len(w.buf) < FallbackHeader THEN [w EXCEPT !.want = FallbackHeader]
          ELSE Consume(w, FallbackHeader, 0)]
     /\ UNCHANGED <<conf, task, closeVars, registryVars, managerVars, streamVars>>

PeerPayload(s) ==
  LET w == wire[s]
  IN /\ w.up /\ w.want = 0 /\ ~Starved(w)
     /\ wire' = [wire EXCEPT ![s] = Consume(w, 1, HeaderSize)]
     /\ UNCHANGED <<conf, task, closeVars, registryVars, managerVars, streamVars>>

(* The peer closes, or dies, or reads the end of a stream whose writer has *)
(* been taken.                                                             *)
LinkDown(s) ==
  /\ wire[s].up /\ cl[s] # "none"
  /\ conf.faults \/ wire[s].writer = "gone"
  /\ wire' = [wire EXCEPT ![s] = [@ EXCEPT !.up = FALSE, !.sock = <<>>, !.buf = <<>>]]
  /\ UNCHANGED <<conf, task, closeVars, registryVars, managerVars, streamVars>>
-----------------------------------------------------------------------------
(* The session's own read_loop: the end of the connection closes the       *)
(* session, and a told loop returns.                                       *)

ReadLoopEof(s) ==
  /\ loops[s].read = "run" /\ ~wire[s].up
  /\ cl' = Closing(s)
  /\ loops' = Loop(s, "read", "ended")
  /\ UNCHANGED <<conf, wireVars, told, registryVars, managerVars, streamVars>>

ReadLoopStop(s) ==
  /\ loops[s].read = "run" /\ "read" \in told[s]
  /\ loops' = Loop(s, "read", "ended")
  /\ UNCHANGED <<conf, wireVars, told, cl, registryVars, managerVars, streamVars>>
-----------------------------------------------------------------------------
(* Session::close, after the exchange on shutdown.                         *)

(* The owner of a session no manager keeps closes it.                      *)
CloseSession(s) ==
  /\ conf.close /\ conf.slots = {} /\ cl[s] = "open"
  /\ cl' = Closing(s)
  /\ UNCHANGED <<conf, wireVars, loops, told, registryVars, managerVars, streamVars>>

(* Stream::close on each of `xs`: with shutdown set it tells nobody.  A    *)
(* stream leaves the map of its own session.                               *)
Closed(xs) ==
  /\ streams' = [s \in Sessions |-> [k \in 1..MaxStreams |->
       IF <<s, k>> \in xs THEN "closed" ELSE streams[s][k]]]
  /\ mapped' = [s \in Sessions |-> {k \in mapped[s] : <<s, k>> \notin xs}]

(* StreamPool::close pops and closes until the pool is empty.              *)
ClosePool(s) ==
  /\ cl[s] = "pool"
  /\ Closed(ToSet(pool[s]))
  /\ pool' = [pool EXCEPT ![s] = <<>>]
  /\ cl' = [cl EXCEPT ![s] = "notify"]
  /\ UNCHANGED <<conf, wireVars, loops, told, registryVars, managerVars, unhealthy, user>>

(* notify_waiters reaches the loops that are running and the rebuild task  *)
(* that is watching this session.                                          *)
NotifyClosed(s) ==
  /\ cl[s] = "notify"
  /\ told' = [told EXCEPT ![s] =
       {which \in {"read", "write"} : loops[s][which] # "spawned"}]
  /\ rebuild' = [i \in Slots |->
       IF rebuild[i].pc = "watch" /\ sessions[i] = s
       THEN [rebuild[i] EXCEPT !.pc = "sleep"] ELSE rebuild[i]]
  /\ cl' = [cl EXCEPT ![s] = "streams"]
  /\ UNCHANGED <<conf, wireVars, loops, registryVars, sessions, shutdown_tx, streamVars>>

CloseStreams(s) ==
  /\ cl[s] = "streams"
  /\ Closed({s} \X mapped[s])
  /\ cl' = [cl EXCEPT ![s] = IF bm[Me(s)] = None THEN "done" ELSE "unref"]
  /\ UNCHANGED <<conf, wireVars, loops, told, registryVars, managerVars, pool, unhealthy, user>>
-----------------------------------------------------------------------------
(* The registry of buffer managers, one entry for the path the sessions of *)
(* a process share.                                                        *)

(* A manager that is created is none that anybody still has.               *)
Fresh == {q \in Managers : \A o \in Holders : bm[o] # q /\ hand[o] # q}

(* get_with_memfd, get_with_file: under the lock, count in on the entry or *)
(* create one.                                                             *)
GetManager(p) ==
  IF BUFFER_MANAGERS # None
  THEN /\ p = BUFFER_MANAGERS
       /\ ref_count' = [ref_count EXCEPT ![p] = @ + 1]
       /\ UNCHANGED <<BUFFER_MANAGERS, unmapped>>
  ELSE /\ Fresh # {} /\ p = CHOOSE q \in Fresh : TRUE
       /\ BUFFER_MANAGERS' = p
       /\ ref_count' = [ref_count EXCEPT ![p] = 1]
       /\ unmapped' = unmapped \ {p}

(* add_global_buffer_manager_ref_count(path, -1): the entry is taken out   *)
(* under one lock and put back under another, and one nobody counts on is  *)
(* unmapped instead.                                                       *)
TakeOut(h) ==
  /\ hand' = [hand EXCEPT ![h] = BUFFER_MANAGERS]
  /\ BUFFER_MANAGERS' = None
  /\ ref_count' = IF BUFFER_MANAGERS = None THEN ref_count
                  ELSE [ref_count EXCEPT ![BUFFER_MANAGERS] = @ - 1]
  /\ UNCHANGED <<bm, unmapped>>

(* Mutant: the entry goes back before its count is looked at.              *)
PutBackAlways(h) ==
  /\ IF hand[h] = None THEN UNCHANGED <<BUFFER_MANAGERS, unmapped>>
     ELSE /\ BUFFER_MANAGERS' = hand[h]
          /\ unmapped' = IF ref_count[hand[h]] = 0 THEN unmapped \cup {hand[h]} ELSE unmapped
  /\ hand' = [hand EXCEPT ![h] = None]
  /\ bm' = [bm EXCEPT ![h] = None]
  /\ UNCHANGED ref_count

PutBack(h) ==
  /\ IF hand[h] = None THEN UNCHANGED <<BUFFER_MANAGERS, unmapped>>
     ELSE IF ref_count[hand[h]] = 0
     THEN unmapped' = unmapped \cup {hand[h]} /\ UNCHANGED BUFFER_MANAGERS
     ELSE BUFFER_MANAGERS' = hand[h] /\ UNCHANGED unmapped
  /\ hand' = [hand EXCEPT ![h] = None]
  /\ bm' = [bm EXCEPT ![h] = None]
  /\ UNCHANGED ref_count

CloseTakeOut(s) ==
  /\ cl[s] = "unref"
  /\ TakeOut(Me(s))
  /\ cl' = [cl EXCEPT ![s] = "insert"]
  /\ UNCHANGED <<conf, wireVars, loops, told, managerVars, streamVars>>

ClosePutBack(s) ==
  /\ cl[s] = "insert"
  /\ PutBack(Me(s))
  /\ cl' = [cl EXCEPT ![s] = "done"]
  /\ UNCHANGED <<conf, wireVars, loops, told, managerVars, streamVars>>
-----------------------------------------------------------------------------
(* SessionManager: one rebuild task a slot.                                *)

(* The task starts and creates the one future that SessionManager::close   *)
(* can reach it through.                                                   *)
RebuildStart(i) ==
  /\ rebuild[i].pc = "spawned"
  /\ rebuild' = [rebuild EXCEPT ![i].pc = "load", ![i].listens = TRUE]
  /\ UNCHANGED <<conf, wireVars, closeVars, registryVars, sessions, shutdown_tx, streamVars>>

(* Nobody but this task replaces the session of its slot, so the load and  *)
(* the future on its shutdown are one step.                                *)
RebuildWatch(i) ==
  /\ rebuild[i].pc = "load"
  /\ rebuild' = [rebuild EXCEPT ![i].pc = "watch"]
  /\ UNCHANGED <<conf, wireVars, closeVars, registryVars, sessions, shutdown_tx, streamVars>>

RebuildStop(i) ==
  /\ rebuild[i].pc \in {"watch", "sleep"} /\ rebuild[i].stop
  /\ rebuild' = [rebuild EXCEPT ![i].pc = "ended"]
  /\ UNCHANGED <<conf, wireVars, closeVars, registryVars, sessions, shutdown_tx, streamVars>>

(* Session::client: the interval is over, the connection is made and the   *)
(* buffer manager taken before the handshake.                              *)
RebuildConnect(i) ==
  /\ rebuild[i].pc = "sleep"
  /\ \E p \in Managers :
       /\ GetManager(p)
       /\ bm' = [bm EXCEPT ![Task(i)] = p]
  /\ rebuild' = [rebuild EXCEPT ![i].pc = "init"]
  /\ UNCHANGED <<conf, wireVars, closeVars, hand, sessions, shutdown_tx, streamVars>>

(* A handshake that fails gives the manager back and sleeps again.         *)
RebuildFail(i) ==
  /\ rebuild[i].pc = "init" /\ rebuild[i].refused < conf.refusals
  /\ TakeOut(Task(i))
  /\ rebuild' = [rebuild EXCEPT ![i].pc = "undo", ![i].refused = @ + 1]
  /\ UNCHANGED <<conf, wireVars, closeVars, sessions, shutdown_tx, streamVars>>

(* Mutant: a refused attempt goes back to watching the slot.               *)
RebuildUndoWatches(i) ==
  /\ rebuild[i].pc = "undo"
  /\ PutBack(Task(i))
  /\ rebuild' = [rebuild EXCEPT ![i].pc = "load"]
  /\ UNCHANGED <<conf, wireVars, closeVars, sessions, shutdown_tx, streamVars>>

RebuildUndo(i) ==
  /\ rebuild[i].pc = "undo"
  /\ PutBack(Task(i))
  /\ rebuild' = [rebuild EXCEPT ![i].pc = "sleep"]
  /\ UNCHANGED <<conf, wireVars, closeVars, sessions, shutdown_tx, streamVars>>

(* The sessions the model has left to connect.                             *)
Spare == {s \in conf.lives : cl[s] = "none"}

(* Session::new spawns the loops, and the slot takes the new session.      *)
RebuildDone(i) ==
  /\ rebuild[i].pc = "init" /\ Spare # {}
  /\ LET s == CHOOSE s \in Spare : TRUE
     IN /\ cl' = [cl EXCEPT ![s] = "open"]
        /\ loops' = [loops EXCEPT ![s] = NewLoops]
        /\ bm' = [bm EXCEPT ![Me(s)] = bm[Task(i)], ![Task(i)] = None]
        /\ sessions' = [sessions EXCEPT ![i] = s]
  /\ rebuild' = [rebuild EXCEPT ![i].pc = "load"]
  /\ UNCHANGED <<conf, wireVars, told, BUFFER_MANAGERS, ref_count, unmapped, hand,
                 shutdown_tx, streamVars>>

(* SessionManager::close tells the rebuild tasks that listen, and closes   *)
(* the session it finds in each slot, waiting for one before the next.     *)
ManagerClose ==
  /\ conf.close /\ conf.slots # {} /\ shutdown_tx.next = 0
  /\ rebuild' = [i \in Slots |-> [rebuild[i] EXCEPT !.stop = rebuild[i].listens]]
  /\ shutdown_tx' = [shutdown_tx EXCEPT !.next = 1]
  /\ UNCHANGED <<conf, wireVars, closeVars, registryVars, sessions, streamVars>>

ManagerCloseSlot ==
  LET s == sessions[shutdown_tx.next]
  IN /\ shutdown_tx.next \in conf.slots
     /\ shutdown_tx.busy = None
     /\ cl' = Closing(s)
     /\ shutdown_tx' = [next |-> shutdown_tx.next + 1,
                        busy |-> IF cl[s] = "open" THEN s ELSE None]
     /\ UNCHANGED <<conf, wireVars, loops, told, registryVars, sessions, rebuild, streamVars>>

ManagerClosed ==
  /\ shutdown_tx.busy # None /\ cl[shutdown_tx.busy] = "done"
  /\ shutdown_tx' = [shutdown_tx EXCEPT !.busy = None]
  /\ UNCHANGED <<conf, wireVars, closeVars, registryVars, sessions, rebuild, streamVars>>
-----------------------------------------------------------------------------
(* Streams: get_stream of the manager or get_or_open_stream of a session,  *)
(* and their release.  put_back takes the caller's handle and goes to the  *)
(* session its slot now has; Stream::reuse lends it and goes to the        *)
(* stream's own session, so whoever drops the future still has the handle  *)
(* and may call it again.  A released stream is not used any more, which   *)
(* is the caller's part: a handle that reuse has pushed still works.       *)

Served == IF conf.slots = {} THEN {1} ELSE {sessions[i] : i \in conf.slots}
NoUse == [pc |-> "idle", at |-> None, id |-> 0, to |-> None, by |-> None]
IsOpen(x) == streams[x[1]][x[2]] = "open"
Using(s, k) == [NoUse EXCEPT !.pc = "held", !.at = s, !.id = k]

(* get_or_open_stream of a healthy session: what is popped and no longer   *)
(* open is dropped, and with the pool empty open_stream goes on to test    *)
(* shutdown.                                                               *)
GetOrOpenStream(u, s) ==
  LET opens == {n \in 1..Len(pool[s]) : IsOpen(pool[s][n])}
      first == CHOOSE n \in opens : \A m \in opens : n <= m
  IN /\ u \in conf.users /\ user[u].pc = "idle"
     /\ s \in Served /\ s \notin unhealthy
     /\ \/ /\ opens # {}
           /\ user' = [user EXCEPT ![u] = Using(pool[s][first][1], pool[s][first][2])]
           /\ pool' = [pool EXCEPT ![s] = SubSeq(@, first + 1, Len(@))]
        \/ /\ opens = {} /\ ~Shutdown(s)
           /\ user' = [user EXCEPT ![u] = [NoUse EXCEPT !.pc = "open", !.at = s]]
           /\ pool' = [pool EXCEPT ![s] = <<>>]
        \/ /\ opens = {} /\ Shutdown(s)
           /\ pool' = [pool EXCEPT ![s] = <<>>]
           /\ UNCHANGED user
     /\ UNCHANGED <<conf, wireVars, closeVars, registryVars, managerVars,
                    streams, mapped, unhealthy>>

(* The rest of open_stream, past the test of shutdown: a fresh id, unless  *)
(* the breaker opened, inserted in the map.                                *)
OpenStream(u) ==
  LET s == user[u].at
      k == 1 + Cardinality({n \in 1..MaxStreams : streams[s][n] # "none"})
  IN /\ user[u].pc = "open"
     /\ IF s \in unhealthy \/ k > MaxStreams
        THEN /\ user' = [user EXCEPT ![u] = NoUse]
             /\ UNCHANGED <<streams, mapped>>
        ELSE /\ streams' = [streams EXCEPT ![s][k] = "open"]
             /\ mapped' = [mapped EXCEPT ![s] = @ \cup {k}]
             /\ user' = [user EXCEPT ![u] = Using(s, k)]
     /\ UNCHANGED <<conf, wireVars, closeVars, registryVars, managerVars, pool, unhealthy>>

(* Stream::close of the stream `u` releases: it is closed and out of the   *)
(* map before the call waits, which it does to tell the peer.              *)
CloseReleased(u, by) ==
  LET x == <<user[u].at, user[u].id>>
      tells == IsOpen(x) /\ ~Shutdown(x[1])
  IN /\ Closed({x})
     /\ user' = [user EXCEPT ![u] =
          IF tells THEN [Using(x[1], x[2]) EXCEPT !.pc = "closing", !.by = by] ELSE NoUse]

(* put_or_close_stream: a stream that is in fallback, or that reset        *)
(* refuses (not open, or with data unread), is closed.                     *)
PutOrCloseStream(u, by, s) ==
  /\ user[u].pc = "held"
  /\ s \in IF by = "reuse" THEN {user[u].at} ELSE Served
  /\ \/ /\ IsOpen(<<user[u].at, user[u].id>>)
        /\ user' = [user EXCEPT ![u] = [@ EXCEPT !.pc = "push", !.to = s, !.by = by]]
        /\ UNCHANGED <<streams, mapped>>
     \/ CloseReleased(u, by)
  /\ UNCHANGED <<conf, wireVars, closeVars, registryVars, managerVars, pool, unhealthy>>

(* Mutant: push waits once more after the stream is in the pool.           *)
PushStreamWaits(u) ==
  LET s == user[u].to
  IN /\ user[u].pc = "push" /\ Len(pool[s]) < PoolCap
     /\ pool' = [pool EXCEPT ![s] = Append(@, <<user[u].at, user[u].id>>)]
     /\ user' = [user EXCEPT ![u].pc = "closing"]
     /\ UNCHANGED <<conf, wireVars, closeVars, registryVars, managerVars,
                    streams, mapped, unhealthy>>

(* StreamPool::push ends the call, or finds the pool full and closes.      *)
PushStream(u) ==
  LET s == user[u].to
  IN /\ user[u].pc = "push"
     /\ \/ /\ Len(pool[s]) < PoolCap
           /\ pool' = [pool EXCEPT ![s] = Append(@, <<user[u].at, user[u].id>>)]
           /\ user' = [user EXCEPT ![u] = NoUse]
           /\ UNCHANGED <<streams, mapped>>
        \/ Len(pool[s]) = PoolCap /\ CloseReleased(u, user[u].by) /\ UNCHANGED pool
     /\ UNCHANGED <<conf, wireVars, closeVars, registryVars, managerVars, unhealthy>>

(* The peer has been told, or could not be. *)
FinishRelease(u) ==
  /\ user[u].pc = "closing"
  /\ user' = [user EXCEPT ![u] = NoUse]
  /\ UNCHANGED <<conf, wireVars, closeVars, registryVars, managerVars,
                 streams, mapped, pool, unhealthy>>

(* The caller drops the release where it waits: a timeout, a select. *)
CancelRelease(u) ==
  /\ user[u].pc = "closing"
  /\ user' = [user EXCEPT ![u] =
       IF user[u].by = "reuse" THEN Using(user[u].at, user[u].id) ELSE NoUse]
  /\ UNCHANGED <<conf, wireVars, closeVars, registryVars, managerVars,
                 streams, mapped, pool, unhealthy>>

(* half_close by the read loop, whoever has the stream: handle_v5_close    *)
(* and handle_stream_message leave it in the map, handle_stream_close      *)
(* takes it out first.                                                     *)
PeerCloses(s, k) ==
  /\ conf.peer /\ loops[s].read = "run" /\ k \in mapped[s]
  /\ streams' = [streams EXCEPT ![s][k] = IF @ = "open" THEN "half" ELSE @]
  /\ mapped' \in {mapped, [mapped EXCEPT ![s] = @ \ {k}]}
  /\ UNCHANGED <<conf, wireVars, closeVars, registryVars, managerVars, pool, unhealthy, user>>

(* The circuit breaker opens on a failed allocation, and a task spawned    *)
(* with it closes it again.                                                *)
OpenCircuitBreaker(s) ==
  /\ conf.breaks /\ cl[s] = "open" /\ s \notin unhealthy
  /\ unhealthy' = unhealthy \cup {s}
  /\ UNCHANGED <<conf, wireVars, closeVars, registryVars, managerVars,
                 streams, mapped, pool, user>>

CloseCircuitBreaker(s) ==
  /\ s \in unhealthy
  /\ unhealthy' = unhealthy \ {s}
  /\ UNCHANGED <<conf, wireVars, closeVars, registryVars, managerVars,
                 streams, mapped, pool, user>>
-----------------------------------------------------------------------------
(* A session of a bare connection, or one for each slot of a manager that  *)
(* has just been built; the rebuild tasks are spawned, not started.        *)
Born(c) == IF c.slots = {} THEN {1} ELSE c.slots

Init ==
  /\ conf \in Confs
  /\ wire = [s \in Sessions |-> NewWire]
  /\ task = [t \in Tasks |-> Idle]
  /\ loops = [s \in Sessions |->
       IF s \in Born(conf) THEN NewLoops ELSE [read |-> "none", write |-> "none"]]
  /\ told = [s \in Sessions |-> {}]
  /\ cl = [s \in Sessions |-> IF s \in Born(conf) THEN "open" ELSE "none"]
  /\ \E p \in Managers :
       /\ \A q \in Managers : p <= q
       /\ bm = [h \in Holders |->
            IF conf.slots # {} /\ h \in {Me(s) : s \in Born(conf)} THEN p ELSE None]
       /\ BUFFER_MANAGERS = IF conf.slots # {} THEN p ELSE None
       /\ ref_count = [q \in Managers |-> IF q = p THEN Cardinality(conf.slots) ELSE 0]
  /\ unmapped = {}
  /\ hand = [h \in Holders |-> None]
  /\ sessions = [i \in Slots |-> i]
  /\ rebuild = [i \in Slots |->
       [pc |-> IF i \in conf.slots THEN "spawned" ELSE "ended",
        stop |-> FALSE, listens |-> FALSE, refused |-> 0]]
  /\ shutdown_tx = [next |-> 0, busy |-> None]
  /\ streams = [s \in Sessions |-> [k \in 1..MaxStreams |-> "none"]]
  /\ mapped = [s \in Sessions |-> {}]
  /\ pool = [s \in Sessions |-> <<>>]
  /\ unhealthy = {}
  /\ user = [u \in Users |-> NoUse]

TaskStep(t) ==
  TryWriteWakeup(t) \/ QueueWakeup(t) \/ Send(t)

WriteLoop(s) ==
  \/ StartLoop(s, "write") \/ WriteLoopTake(s) \/ WriteLoopWrite(s)
  \/ WriteLoopSent(s) \/ WriteLoopFail(s) \/ WriteLoopStop(s) \/ WriteLoopEnd(s)

ReadLoop(s) == StartLoop(s, "read") \/ ReadLoopEof(s) \/ ReadLoopStop(s)

PeerReads(s) == PeerFill(s) \/ PeerHandle(s) \/ PeerPayload(s)

CloseStep(s) ==
  \/ ClosePool(s) \/ NotifyClosed(s) \/ CloseStreams(s)
  \/ CloseTakeOut(s) \/ ClosePutBack(s)

RebuildStep(i) ==
  \/ RebuildStart(i) \/ RebuildWatch(i) \/ RebuildStop(i) \/ RebuildConnect(i)
  \/ RebuildFail(i) \/ RebuildUndo(i) \/ RebuildDone(i)

Next ==
  \/ \E t \in Tasks : Claim(t) \/ WaitForSend(t) \/ SendTimeout(t) \/ TaskStep(t)
  \/ \E s \in Sessions :
       \/ WriteLoop(s) \/ ReadLoop(s) \/ PeerReads(s) \/ LinkDown(s)
       \/ CloseSession(s) \/ CloseStep(s)
       \/ OpenCircuitBreaker(s) \/ CloseCircuitBreaker(s)
  \/ \E i \in conf.slots : RebuildStep(i)
  \/ ManagerClose \/ ManagerCloseSlot \/ ManagerClosed
  \/ \E s \in Sessions, k \in 1..MaxStreams : PeerCloses(s, k)
  \/ \E u \in Users :
       \/ OpenStream(u) \/ PushStream(u) \/ FinishRelease(u) \/ CancelRelease(u)
       \/ \E s \in Sessions :
            \/ GetOrOpenStream(u, s)
            \/ PutOrCloseStream(u, "put_back", s) \/ PutOrCloseStream(u, "reuse", s)

(* Every task of the runtime is polled again, and the permits of the       *)
(* channel are handed out in order, so no sender is passed over for ever.  *)
(* Nothing obliges an application call, a fault or a close.                *)
Fairness ==
  /\ \A t \in Tasks :
       WF_vars(TryWriteWakeup(t)) /\ SF_vars(QueueWakeup(t))
  /\ \A s \in Sessions :
       /\ WF_vars(WriteLoop(s)) /\ WF_vars(ReadLoop(s))
       /\ WF_vars(PeerReads(s)) /\ WF_vars(CloseStep(s))
  /\ \A i \in Slots : WF_vars(RebuildStep(i))

Spec == Init /\ [][Next]_vars /\ Fairness
-----------------------------------------------------------------------------
(* What the peer has buffered of the connection, and what is on its way.   *)
Stream(s) == wire[s].buf \o wire[s].sock
Pending(s) == Stream(s) \o IF wire[s].out # <<>> THEN wire[s].out ELSE wire[s].carry

FrameLen(f) == IF f = "polling" THEN HeaderSize ELSE FallbackHeader + 1

(* The socket is written by the write loop and, without it, by every task  *)
(* that wakes the peer: frames never interleave.  Byte k of a frame is     *)
(* followed by byte k + 1 of the same frame or, after its last, by the     *)
(* first of another; the tail of a wakeup the socket took part of is       *)
(* always still to come.  And a reader that waits for bytes has room for   *)
(* them: fill_buf_at_least takes a read of nothing for the end of the      *)
(* connection, so compacting too little would close a healthy session.     *)
FramesAreWhole ==
  \A s \in Sessions :
    /\ LET q == Pending(s)
       IN wire[s].up => \A n \in 1..Len(q) - 1 :
            q[n + 1] = IF q[n][2] < FrameLen(q[n][1]) THEN <<q[n][1], q[n][2] + 1>>
                       ELSE <<q[n + 1][1], 1>>
    /\ Starved(wire[s]) =>
         ReadRoom(wire[s], IF wire[s].want = 0 THEN Rewind(wire[s]) ELSE Compact(wire[s])) > 0

(* The buffer manager the registry would hand to the next session has not  *)
(* been unmapped: an entry nobody counts on is out before its descriptor   *)
(* is closed, and is not put back.                                         *)
NoDeadManager == BUFFER_MANAGERS \notin unmapped

(* Every open stream is in one place: with the user that got it and has    *)
(* not released it, or once in one pool.  So it never has two users, and   *)
(* none is left open with nobody to release it (get_stream warns of that   *)
(* "resource leak"): whoever closes meanwhile, whether a release finds the *)
(* pool full, is dropped while it waits, or is then called again.  This is *)
(* so because put_or_close_stream pushes without waiting afterwards, and   *)
(* closes the stream before it waits.                                      *)
Places(x) ==
  Cardinality({u \in Users : user[u].pc \in {"held", "push"} /\ <<user[u].at, user[u].id>> = x})
  + Cardinality({n \in Sessions \X (1..PoolCap) :
                   n[2] <= Len(pool[n[1]]) /\ pool[n[1]][n[2]] = x})
OneUser ==
  \A x \in Sessions \X (1..MaxStreams) : Places(x) <= 1 /\ (IsOpen(x) => Places(x) = 1)

(* A claimed wakeup reaches the peer, which gives the claim back, however  *)
(* much of it the socket took at first: until it does, nobody else wakes   *)
(* the peer.  The session or the connection may go down instead.           *)
WakeupArrives ==
  wire[1].working ~> (~wire[1].working \/ Shutdown(1) \/ ~wire[1].up)

(* A send the channel accepted returns, sent or failed: the write loop     *)
(* answers it, or drops it when it ends.                                   *)
QueuedSendReturns ==
  \A t \in Tasks : (task[t].pc = "wait") ~> (task[t].pc # "wait")

(* A session that shuts down under the eyes of its rebuild task is         *)
(* replaced in its slot, however often the server refuses first, or the    *)
(* manager is closed and the task ends, also in the middle of an attempt.  *)
(* (Spare = {} only says that the model has no identity left.)             *)
DeadIsReplaced ==
  \A i \in Slots :
    (rebuild[i].pc = "watch" /\ cl[sessions[i]] = "pool")
      ~> (cl[sessions[i]] = "open" \/ rebuild[i].pc = "ended" \/ Spare = {})
=============================================================================
