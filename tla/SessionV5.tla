------------------------------ MODULE SessionV5 ------------------------------
(***************************************************************************)
(* One direction of a V5 session: the streams of the sending process, the  *)
(* shared queue, the unix socket, and the receiving process's read loop,   *)
(* wakeup task and stream inboxes.                                         *)
(*                                                                         *)
(* Each stream of the sender is one task.  A message is its number within  *)
(* its stream; it travels as a chain of shared blocks through the queue,   *)
(* or as a frame through the socket.  The queue is the ClaimQueue that     *)
(* Mpsc is proved to implement.  Any put may find the queue full: try_push *)
(* reports Full spuriously when its copy of tail is stale.                 *)
(***************************************************************************)
EXTENDS Naturals, Sequences, FiniteSets, SequencesExt

CONSTANTS
  Streams,   \* the stream ids, one sending task each
  Cap,       \* slots of the queue
  Confs,     \* the session configurations considered, see conf
  None

(* "pinned": the sender's stream is pinned to the socket by a frame of its *)
(* peer; "close": a receiving application closes a stream; "reuse": it     *)
(* hands one back to its pool; "crash": the sending process dies;          *)
(* "timeout": a claim stays unpublished for v5_queue_publish_timeout;      *)
(* "cancel": a flush future is dropped at its last await.                  *)
OptionalEvents == {"pinned", "close", "reuse", "crash", "timeout", "cancel"}

ASSUME ConfsAssumption ==
  \A c \in Confs :
    /\ c.mode \in {"socket", "eventfd", "polling"} /\ c.is_client \in BOOLEAN
    /\ c.events \subseteq OptionalEvents
    /\ DOMAIN c.quota \subseteq Streams /\ c.quota \in [DOMAIN c.quota -> Nat]

VARIABLES
  conf,            \* how this session is set up, fixed when it starts
  claims,          \* the shared queue, see ClaimQueue
  working_flag,    \* QueueHeader.working_flag, set while the receiver need not be woken
  sock,            \* the unix socket's bytes: frames in flight
  eventfd,         \* whether the eventfd is readable
  spc,             \* where each stream's task is: see the sender's actions
  nxt,             \* the number of its next message
  el,              \* the element it is putting
  in_fallback,     \* StreamShared.in_fallback of the sending stream
  alive,           \* whether the sending process runs
  sent,            \* ghost: the messages each stream handed over, in order
  chains,          \* ghost: the messages that travel as a chain of blocks
  rpc, frame,      \* the read loop: where it is, and the frame it is handling
  wpc,             \* the eventfd or polling task
  lock,            \* who holds the recv_queue mutex
  dpc, barrier,    \* the drain the lock's holder runs, and its wait_for_claimed
  cur,             \* the element it popped
  batches,         \* V5DrainScratch.batches: [stream, generation, msgs]
  st,              \* receiving streams: "none", "open", "half" or "closed"
  inMap,           \* whether the session's map holds the stream
  generation,      \* V5Inbox.generation; a new Stream for the id starts a new one
  recv_fallback,   \* StreamShared.in_fallback of the receiving stream
  handing,         \* streams between the two halves of put_or_close_stream
  inbox,           \* V5Inbox.pending
  closed,          \* the receiving session's shutdown flag
  delivered,       \* ghost: the messages that reached an inbox of this id
  freed,           \* ghost: the chains given back to the sender's segment
  touched          \* ghost: streams the receiver's application closed or reset

Mode == conf.mode            \* how the receiver is woken
IsClient == conf.is_client   \* the receiver is the client, whose streams are opened locally
Events == conf.events        \* which of the optional events may happen
Quota == conf.quota          \* how many messages each stream in use flushes
Used == DOMAIN Quota

Elements == [op : {"data", "close"}, stream : Streams, msg : Nat]

Q == INSTANCE ClaimQueue WITH
       Producers <- Streams,
       Values <- Elements,
       out <- cur

senderVars == <<spc, nxt, el, in_fallback, alive, sent, chains>>
drainVars == <<dpc, barrier, cur, batches>>
loopVars == <<rpc, frame, wpc, lock>>
streamVars == <<st, inMap, generation, recv_fallback, handing, inbox, closed,
                delivered, freed, touched>>
receiverVars == <<loopVars, drainVars, streamVars>>
wires == <<claims, working_flag, sock, eventfd>>
vars == <<conf, wires, senderVars, receiverVars>>

Data(s, m) == [op |-> "data", stream |-> s, msg |-> m]
Close(s) == [op |-> "close", stream |-> s, msg |-> 0]

Init ==
  /\ conf \in Confs /\ Q!QInit /\ working_flag = 0 /\ sock = <<>> /\ eventfd = FALSE
  /\ spc = [s \in Streams |-> IF s \in Used THEN "idle" ELSE "closed"] /\ nxt = [s \in Streams |-> 1]
  /\ el = [s \in Streams |-> None] /\ in_fallback = [s \in Streams |-> FALSE]
  /\ alive = TRUE /\ sent = [s \in Streams |-> <<>>] /\ chains = {}
  /\ rpc = "recv" /\ frame = None /\ wpc = "wait" /\ lock = None
  /\ dpc = "off" /\ barrier = FALSE /\ batches = <<>>
  /\ st = [s \in Streams |-> IF IsClient /\ s \in Used THEN "open" ELSE "none"]
  /\ inMap = [s \in Streams |-> IsClient /\ s \in Used]
  /\ recv_fallback = [s \in Streams |-> FALSE] /\ handing = {}
  /\ generation = [s \in Streams |-> 0] /\ inbox = [s \in Streams |-> <<>>]
  /\ closed = FALSE /\ delivered = [s \in Streams |-> <<>>]
  /\ freed = {} /\ touched = {}

-----------------------------------------------------------------------------
(* The sender.  A stream's task is "idle" between calls; "put" is an       *)
(* attempt to put el[s]; "publish" a claimed slot not yet published;       *)
(* "wake" and "notify" the two halves of wake_up_peer after a put, and     *)
(* "wakefull" and "notifyfull" after an attempt that found the queue full; *)
(* "retry" the wait between attempts; "closed" the end.                    *)

At(s, from) == alive /\ spc[s] = from
Go(s, to) == spc' = [spc EXCEPT ![s] = to]

(* The end of a call: a closed stream makes no other. *)
Done(s) ==
  /\ Go(s, IF el[s] = Close(s) THEN "closed" ELSE "idle")
  /\ el' = [el EXCEPT ![s] = None]

Accepted(s) == sent' = [sent EXCEPT ![s] = Append(@, nxt[s])]

(* flush of a message that reserve placed in the segment. *)
Flush(s) ==
  /\ At(s, "idle") /\ nxt[s] <= Quota[s] /\ ~in_fallback[s]
  /\ el' = [el EXCEPT ![s] = Data(s, nxt[s])]
  /\ Go(s, "put")
  /\ UNCHANGED <<conf, nxt, in_fallback, alive, sent, chains, wires, receiverVars>>

(* flush of a message that reserve placed on the heap: always once the     *)
(* stream is in fallback, otherwise when the segment had no block for it.  *)
FlushFallback(s) ==
  /\ At(s, "idle") /\ nxt[s] <= Quota[s]
  /\ in_fallback' = [in_fallback EXCEPT ![s] = TRUE]
  /\ sock' = Append(sock, [op |-> "fallback", stream |-> s, msg |-> nxt[s]])
  /\ Accepted(s)
  /\ nxt' = [nxt EXCEPT ![s] = @ + 1]
  /\ UNCHANGED <<conf, spc, el, alive, chains, claims, working_flag, eventfd, receiverVars>>

(* A received fallback frame pins this stream's writes to the socket. *)
Pinned(s) ==
  /\ "pinned" \in Events /\ alive /\ ~in_fallback[s]
  /\ in_fallback' = [in_fallback EXCEPT ![s] = TRUE]
  /\ UNCHANGED <<conf, spc, nxt, el, alive, sent, chains, wires, receiverVars>>

SendClose(s) ==
  /\ sock' = Append(sock, [op |-> "close", stream |-> s, msg |-> 0])
  /\ UNCHANGED <<claims, working_flag, eventfd>>

(* Stream::close: through the queue unless the stream is in fallback. *)
CloseStream(s) ==
  /\ At(s, "idle")
  /\ IF in_fallback[s]
     THEN SendClose(s) /\ Go(s, "closed") /\ el' = el
     ELSE UNCHANGED wires /\ Go(s, "put") /\ el' = [el EXCEPT ![s] = Close(s)]
  /\ UNCHANGED <<conf, nxt, in_fallback, alive, sent, chains, receiverVars>>

PutClaim(s) ==
  /\ At(s, "put") /\ Q!Claim(s, el[s])
  /\ IF el[s] = Close(s) THEN UNCHANGED <<sent, chains>>
     ELSE Accepted(s) /\ chains' = chains \union {<<s, el[s].msg>>}
  /\ Go(s, "publish")
  /\ UNCHANGED <<conf, nxt, el, in_fallback, alive, working_flag, sock, eventfd, receiverVars>>

PutPublish(s) ==
  /\ At(s, "publish") /\ Q!Publish(s)
  /\ nxt' = IF el[s] = Close(s) THEN nxt ELSE [nxt EXCEPT ![s] = @ + 1]
  /\ Go(s, "wake")
  /\ UNCHANGED <<conf, el, in_fallback, alive, sent, chains, working_flag, sock, eventfd, receiverVars>>

(* A put that reports Full: a close goes to the socket instead, and data   *)
(* wakes the peer before it tries again.                                   *)
PutFull(s) ==
  /\ At(s, "put")
  /\ IF el[s] = Close(s) THEN SendClose(s) /\ Done(s)
                         ELSE UNCHANGED <<wires, el>> /\ Go(s, "wakefull")
  /\ UNCHANGED <<conf, nxt, in_fallback, alive, sent, chains, receiverVars>>

Retry(s) ==
  /\ At(s, "retry") /\ Go(s, "put")
  /\ UNCHANGED <<conf, nxt, el, in_fallback, alive, sent, chains, wires, receiverVars>>

(* The last attempt failed, or the future was dropped while it waited: the *)
(* V5Outgoing frees its blocks and the message is not sent.                *)
GiveUp(s) ==
  /\ At(s, "retry") /\ Done(s)
  /\ nxt' = [nxt EXCEPT ![s] = @ + 1]
  /\ UNCHANGED <<conf, in_fallback, alive, sent, chains, wires, receiverVars>>

(* wake_up_peer returns to the retry loop, or to the end of the call. *)
Return(s, full) == IF full THEN Go(s, "retry") /\ el' = el ELSE Done(s)

(* wake_up_peer: claim_peer_consumer, then the eventfd or a polling event. *)
WakeClaim(s) ==
  \E full \in BOOLEAN :
    /\ At(s, IF full THEN "wakefull" ELSE "wake")
    /\ IF Mode # "polling" /\ working_flag = 0
       THEN /\ working_flag' = 1 /\ el' = el
            /\ Go(s, IF full THEN "notifyfull" ELSE "notify")
       ELSE working_flag' = working_flag /\ Return(s, full)
    /\ UNCHANGED <<conf, nxt, in_fallback, alive, sent, chains, claims, sock, eventfd, receiverVars>>

Notify(s) ==
  \E full \in BOOLEAN :
    /\ At(s, IF full THEN "notifyfull" ELSE "notify")
    /\ Return(s, full)
    /\ IF Mode = "eventfd"
       THEN eventfd' = TRUE /\ sock' = sock
       ELSE eventfd' = eventfd /\ sock' = Append(sock, [op |-> "polling", stream |-> None, msg |-> 0])
    /\ UNCHANGED <<conf, nxt, in_fallback, alive, sent, chains, claims, working_flag, receiverVars>>

(* The flush future is dropped while it waits for room in send_tx. *)
Cancel(s) ==
  /\ "cancel" \in Events /\ Mode = "socket" /\ At(s, "notify")
  /\ Done(s)
  /\ UNCHANGED <<conf, nxt, in_fallback, alive, sent, chains, wires, receiverVars>>

Crash ==
  /\ "crash" \in Events /\ alive /\ alive' = FALSE
  /\ UNCHANGED <<conf, spc, nxt, el, in_fallback, sent, chains, wires, receiverVars>>

SenderStep(s) ==
  \/ PutClaim(s) \/ PutPublish(s) \/ PutFull(s) \/ Retry(s) \/ GiveUp(s)
  \/ WakeClaim(s) \/ Notify(s)

Sender(s) ==
  \/ Flush(s) \/ FlushFallback(s) \/ Pinned(s) \/ CloseStream(s) \/ Cancel(s)
  \/ SenderStep(s)

-----------------------------------------------------------------------------
(* The receiver's streams. *)

Deliver(s, msgs) ==
  /\ inbox' = [inbox EXCEPT ![s] = @ \o msgs]
  /\ delivered' = [delivered EXCEPT ![s] = @ \o msgs]

ChainsOf(s, msgs) == {<<s, msgs[i]>> : i \in DOMAIN msgs} \intersect chains

(* get_stream with STREAM_OPENED: a server makes a Stream for an id it     *)
(* does not know; a client has none.                                       *)
Found(s) == inMap[s] \/ ~IsClient

GetStream(s) ==
  IF inMap[s] \/ IsClient
  THEN UNCHANGED <<st, inMap, generation>>
  ELSE /\ st' = [st EXCEPT ![s] = "open"]
       /\ inMap' = [inMap EXCEPT ![s] = TRUE]
       /\ generation' = [generation EXCEPT ![s] = @ + 1]

half_close(s) ==
  st' = [st EXCEPT ![s] = IF @ = "open" THEN "half" ELSE @]

(* Mutant: the inbox checks only that the stream is open. *)
TakesAnyGeneration(b) == st[b.stream] = "open"

(* add_pending_batch_if_generation: whether the inbox takes the batch. *)
Takes(b) == b.generation = generation[b.stream] /\ st[b.stream] = "open"

(* The messages the batches of scratch hold for s, in order, taken or not. *)
Batched(s, taken) ==
  LET mine(b) == b.stream = s /\ Takes(b) = taken
      bs == SelectSeq(batches, mine)
  IN FoldLeft(LAMBDA acc, b : acc \o b.msgs, <<>>, bs)

(* Mutant: the chains of a refused batch are forgotten. *)
FlushBatchesLeaks ==
  /\ inbox' = [s \in Streams |-> inbox[s] \o Batched(s, TRUE)]
  /\ delivered' = [s \in Streams |-> delivered[s] \o Batched(s, TRUE)]
  /\ freed' = freed /\ batches' = <<>>

(* flush_v5_batches: deliver what the inboxes take, free the rest. *)
FlushBatches ==
  /\ inbox' = [s \in Streams |-> inbox[s] \o Batched(s, TRUE)]
  /\ delivered' = [s \in Streams |-> delivered[s] \o Batched(s, TRUE)]
  /\ freed' = freed \union UNION {ChainsOf(s, Batched(s, FALSE)) : s \in Streams}
  /\ batches' = <<>>

(* batch_v5_data, once get_stream has answered with generation g. *)
AddToBatch(s, m, g) ==
  IF \E i \in DOMAIN batches : batches[i].stream = s /\ batches[i].generation = g
  THEN batches' = [i \in DOMAIN batches |->
         IF batches[i].stream = s /\ batches[i].generation = g
         THEN [batches[i] EXCEPT !.msgs = Append(@, m)] ELSE batches[i]]
  ELSE batches' = Append(batches, [stream |-> s, generation |-> g, msgs |-> <<m>>])

-----------------------------------------------------------------------------
(* The drain, run by the holder of the recv_queue lock. *)

DrainGo(to) == dpc' = to

(* try_pop finds the head published, or goes on to compare with tail. *)
DrainLook ==
  /\ dpc = "look"
  /\ IF closed
     THEN DrainGo(IF barrier THEN "failed" ELSE "done") /\ FlushBatches
          /\ UNCHANGED <<claims, cur>>
     ELSE /\ IF Q!HeadReady(claims)
             THEN Q!Pop /\ DrainGo("handle")
             ELSE DrainGo("tail") /\ UNCHANGED <<claims, cur>>
          /\ UNCHANGED <<batches, inbox, delivered, freed>>
  /\ UNCHANGED <<conf, barrier, working_flag, sock, eventfd, senderVars, loopVars,
                 st, inMap, generation, recv_fallback, handing, closed, touched>>

(* Empty, or a claimed head an ordinary drain does not wait for: flush and *)
(* go on to finish_draining.  A barrier looks again.                       *)
DrainTail ==
  /\ dpc = "tail"
  /\ IF claims # <<>> /\ barrier
     THEN DrainGo("look") /\ UNCHANGED <<batches, inbox, delivered, freed>>
     ELSE DrainGo("clear") /\ FlushBatches
  /\ UNCHANGED <<conf, barrier, cur, wires, senderVars, loopVars,
                 st, inMap, generation, recv_fallback, handing, closed, touched>>

(* Mutant: a barrier without a timeout. *)
DrainNeverTimesOut == "timeout" \notin Events /\ DrainTail

(* The claimed head outlived publish_timeout. *)
DrainTimeout ==
  /\ "timeout" \in Events /\ dpc = "tail" /\ claims # <<>> /\ barrier
  /\ DrainGo("failed") /\ FlushBatches
  /\ UNCHANGED <<conf, barrier, cur, wires, senderVars, loopVars,
                 st, inMap, generation, recv_fallback, handing, closed, touched>>

DrainData ==
  /\ dpc = "handle" /\ cur.op = "data"
  /\ GetStream(cur.stream)
  /\ IF Found(cur.stream)
     THEN AddToBatch(cur.stream, cur.msg, generation'[cur.stream]) /\ freed' = freed
     ELSE freed' = freed \union {<<cur.stream, cur.msg>>} /\ batches' = batches
  /\ cur' = None /\ DrainGo("look")
  /\ UNCHANGED <<conf, barrier, wires, senderVars, loopVars, recv_fallback, handing, inbox,
                 closed, delivered, touched>>

DrainClose ==
  /\ dpc = "handle" /\ cur.op = "close"
  /\ FlushBatches
  /\ IF inMap[cur.stream] THEN half_close(cur.stream) ELSE st' = st
  /\ cur' = None /\ DrainGo("look")
  /\ UNCHANGED <<conf, barrier, wires, senderVars, loopVars, inMap, generation,
                 recv_fallback, handing, closed, touched>>

(* mark_not_working: clear the flag, look at the head once more, and set   *)
(* the flag again if there is something to take.                           *)
ClearFlag ==
  /\ dpc = "clear"
  /\ IF closed THEN working_flag' = working_flag /\ DrainGo("done")
               ELSE working_flag' = 0 /\ DrainGo("recheck")
  /\ UNCHANGED <<conf, barrier, cur, batches, claims, sock, eventfd, senderVars,
                 loopVars, streamVars>>

(* Mutant: the consumer goes to sleep without looking again. *)
RecheckSkipped ==
  /\ dpc = "recheck" /\ DrainGo("done")
  /\ UNCHANGED <<conf, barrier, cur, batches, wires, senderVars, loopVars, streamVars>>

Recheck ==
  /\ dpc = "recheck"
  /\ DrainGo(IF Q!HeadReady(claims) THEN "setflag" ELSE "done")
  /\ UNCHANGED <<conf, barrier, cur, batches, wires, senderVars, loopVars, streamVars>>

SetFlag ==
  /\ dpc = "setflag" /\ working_flag' = 1 /\ DrainGo("look")
  /\ UNCHANGED <<conf, barrier, cur, batches, claims, sock, eventfd, senderVars,
                 loopVars, streamVars>>

Drain ==
  \/ DrainLook \/ DrainTail \/ DrainTimeout \/ DrainData \/ DrainClose
  \/ ClearFlag \/ Recheck \/ SetFlag

-----------------------------------------------------------------------------
(* The read loop, the eventfd or polling task, and the session's end. *)

(* Session::close, by exit_err: every stream of the map is closed.  Their  *)
(* inboxes keep their chains until the last handle is dropped.             *)
CloseSession ==
  /\ closed' = TRUE
  /\ st' = [s \in Streams |-> IF inMap[s] THEN "closed" ELSE st[s]]
  /\ inMap' = [s \in Streams |-> FALSE]

KeepSession == UNCHANGED <<closed, st, inMap>>

ReadFrame ==
  /\ rpc = "recv" /\ ~closed /\ sock # <<>>
  /\ frame' = Head(sock) /\ sock' = Tail(sock) /\ rpc' = "lock"
  /\ UNCHANGED <<conf, wpc, lock, claims, working_flag, eventfd, senderVars, drainVars,
                 streamVars>>

(* The peer's end of the socket is gone. *)
ReadEOF ==
  /\ rpc = "recv" /\ ~closed /\ ~alive /\ sock = <<>>
  /\ CloseSession
  /\ UNCHANGED <<conf, wires, senderVars, loopVars, drainVars, generation, recv_fallback,
                 handing, inbox, delivered, freed, touched>>

(* The eventfd is drained, or the polling interval elapses. *)
Woken ==
  /\ wpc = "wait" /\ ~closed
  /\ \/ Mode = "eventfd" /\ eventfd /\ eventfd' = FALSE
     \/ Mode = "polling" /\ eventfd' = eventfd
  /\ wpc' = "lock"
  /\ UNCHANGED <<conf, rpc, frame, lock, claims, working_flag, sock, senderVars,
                 drainVars, streamVars>>

(* Mutant: frames from the socket start an ordinary drain. *)
AcquireReadNoBarrier ==
  /\ rpc = "lock" /\ lock = None
  /\ lock' = "read" /\ rpc' = "drain" /\ dpc' = "look" /\ barrier' = FALSE
  /\ UNCHANGED <<conf, frame, wpc, cur, batches, wires, senderVars, streamVars>>

(* recv_queue.lock(), the start of a drain.  A frame that carries data or  *)
(* a close makes it a barrier.                                             *)
AcquireRead ==
  /\ rpc = "lock" /\ lock = None
  /\ lock' = "read" /\ rpc' = "drain" /\ dpc' = "look"
  /\ barrier' = (frame.op # "polling")
  /\ UNCHANGED <<conf, frame, wpc, cur, batches, wires, senderVars, streamVars>>

AcquireWoken ==
  /\ wpc = "lock" /\ lock = None
  /\ lock' = "woken" /\ wpc' = "drain" /\ dpc' = "look" /\ barrier' = FALSE
  /\ UNCHANGED <<conf, rpc, frame, cur, batches, wires, senderVars, streamVars>>

(* The drain is over: handle the frame, or leave with the drain's error. *)
ReadDrained ==
  /\ lock = "read" /\ rpc = "drain" /\ dpc \in {"done", "failed"}
  /\ dpc' = "off" /\ barrier' = FALSE
  /\ IF dpc = "failed" THEN CloseSession ELSE KeepSession
  /\ rpc' = CASE dpc = "failed" \/ frame.op = "polling" -> "recv"
              [] dpc = "done" /\ frame.op = "fallback" -> "get"
              [] dpc = "done" /\ frame.op = "close" -> "closing"
  /\ lock' = IF rpc' = "get" THEN lock ELSE None
  /\ frame' = IF rpc' = "recv" THEN None ELSE frame
  /\ UNCHANGED <<conf, wpc, cur, batches, wires, senderVars, generation, recv_fallback,
                 handing, inbox, delivered, freed, touched>>

WokenDrained ==
  /\ lock = "woken" /\ dpc \in {"done", "failed"}
  /\ dpc' = "off" /\ lock' = None /\ wpc' = "wait"
  /\ UNCHANGED <<conf, rpc, frame, barrier, cur, batches, wires, senderVars, streamVars>>

(* handle_fallback_payload after its barrier: get_stream and set_fallback. *)
FallbackGet ==
  /\ rpc = "get" /\ GetStream(frame.stream)
  /\ IF Found(frame.stream)
     THEN /\ recv_fallback' = [recv_fallback EXCEPT ![frame.stream] = TRUE]
          /\ rpc' = "fill" /\ UNCHANGED <<frame, lock>>
     ELSE recv_fallback' = recv_fallback /\ frame' = None /\ rpc' = "recv" /\ lock' = None
  /\ UNCHANGED <<conf, wpc, wires, senderVars, drainVars, handing, inbox, closed, delivered,
                 freed, touched>>

(* fill_fallback_to_read_buffer: the generation it hands to the inbox is   *)
(* the inbox's own, read on the spot, so only a closed stream refuses.     *)
FallbackFill ==
  /\ rpc = "fill"
  /\ IF st[frame.stream] = "open" THEN Deliver(frame.stream, <<frame.msg>>)
                                  ELSE UNCHANGED <<inbox, delivered>>
  /\ frame' = None /\ rpc' = "recv" /\ lock' = None
  /\ UNCHANGED <<conf, wpc, wires, senderVars, drainVars, st, inMap, generation, recv_fallback,
                 handing, closed, freed, touched>>

(* handle_stream_close after its barrier, the lock already released. *)
StreamClose ==
  /\ rpc = "closing"
  /\ IF inMap[frame.stream] THEN half_close(frame.stream) ELSE st' = st
  /\ inMap' = [inMap EXCEPT ![frame.stream] = FALSE]
  /\ frame' = None /\ rpc' = "recv"
  /\ UNCHANGED <<conf, wpc, lock, wires, senderVars, drainVars, generation, recv_fallback,
                 handing, inbox, closed, delivered, freed, touched>>

-----------------------------------------------------------------------------
(* The receiving application. *)

(* A reader takes everything delivered and releases it. *)
AppRead(s) ==
  /\ inbox[s] # <<>> /\ st[s] \in {"open", "half"}
  /\ inbox' = [inbox EXCEPT ![s] = <<>>]
  /\ freed' = freed \union ChainsOf(s, inbox[s])
  /\ UNCHANGED <<conf, wires, senderVars, loopVars, drainVars, st, inMap, generation,
                 recv_fallback, handing, closed, delivered, touched>>

CloseLocally(s) ==
  /\ st' = [st EXCEPT ![s] = "closed"] /\ inMap' = [inMap EXCEPT ![s] = FALSE]
  /\ inbox' = [inbox EXCEPT ![s] = <<>>]
  /\ freed' = freed \union ChainsOf(s, inbox[s])
  /\ recv_fallback' = [recv_fallback EXCEPT ![s] = FALSE]

AppClose(s) ==
  /\ "close" \in Events /\ ~closed /\ st[s] \in {"open", "half"} /\ s \notin touched
  /\ CloseLocally(s) /\ touched' = touched \union {s}
  /\ UNCHANGED <<conf, wires, senderVars, loopVars, drainVars, generation, handing, closed,
                 delivered>>

(* put_or_close_stream: a stream in fallback is closed; another is reset,  *)
(* or closed when it has unread data.  At most once per stream.            *)
HandBack(s) ==
  /\ "reuse" \in Events /\ ~closed /\ st[s] \in {"open", "half"} /\ s \notin touched
  /\ touched' = touched \union {s}
  /\ IF recv_fallback[s] THEN CloseLocally(s) /\ handing' = handing
     ELSE handing' = handing \union {s} /\ UNCHANGED <<st, inMap, inbox, freed, recv_fallback>>
  /\ UNCHANGED <<conf, wires, senderVars, loopVars, drainVars, generation, closed, delivered>>

Reset(s) ==
  /\ s \in handing /\ handing' = handing \ {s}
  /\ IF st[s] = "open" /\ inbox[s] = <<>>
     THEN /\ generation' = [generation EXCEPT ![s] = @ + 1]
          /\ recv_fallback' = [recv_fallback EXCEPT ![s] = FALSE]
          /\ UNCHANGED <<st, inMap, inbox, freed>>
     ELSE CloseLocally(s) /\ generation' = generation
  /\ UNCHANGED <<conf, wires, senderVars, loopVars, drainVars, closed, delivered, touched>>

App(s) == AppRead(s) \/ AppClose(s) \/ HandBack(s) \/ Reset(s)

ReadLoop ==
  \/ ReadFrame \/ ReadEOF \/ AcquireRead \/ ReadDrained
  \/ FallbackGet \/ FallbackFill \/ StreamClose

WakeTask == Woken \/ AcquireWoken \/ WokenDrained

Next ==
  \/ \E s \in Streams : Sender(s)
  \/ Crash
  \/ ReadLoop \/ WakeTask \/ Drain
  \/ \E s \in Streams : App(s)

Spec == Init /\ [][Next]_vars

-----------------------------------------------------------------------------
(* Fairness: a call in progress goes on while its process runs, a Full put *)
(* is retried a bounded number of times, the receiving tasks are scheduled *)
(* (the recv_queue mutex is a fair one), and time passes.                  *)
Fairness ==
  /\ \A s \in Streams : WF_vars(SenderStep(s)) /\ SF_vars(GiveUp(s))
  /\ WF_vars(ReadFrame \/ ReadEOF \/ ReadDrained \/ FallbackGet \/ FallbackFill \/ StreamClose)
  /\ SF_vars(AcquireRead) /\ SF_vars(AcquireWoken)
  /\ WF_vars(Woken \/ WokenDrained)
  /\ WF_vars(Drain) /\ SF_vars(DrainTimeout)

FairSpec == Spec /\ Fairness

-----------------------------------------------------------------------------
(* A stream's messages reach its inbox in the order they were flushed and  *)
(* none twice, whichever of queue and socket each took.  Until the         *)
(* receiving application closes or reuses the stream, none is skipped, and *)
(* the close takes effect after all the data flushed before it, by         *)
(* whichever route it comes.                                               *)
InOrder ==
  \A s \in Streams :
    /\ \A i, j \in DOMAIN delivered[s] : i < j => delivered[s][i] < delivered[s][j]
    /\ s \notin touched =>
         /\ IsPrefix(delivered[s], sent[s])
         /\ st[s] = "half" => delivered[s] = sent[s]

(* Where a chain of blocks can be. *)
Places(c) ==
  <<\E i \in DOMAIN claims : claims[i].val = Data(c[1], c[2]),
    cur = Data(c[1], c[2]),
    \E i \in DOMAIN batches : batches[i].stream = c[1] /\ Contains(batches[i].msgs, c[2]),
    Contains(inbox[c[1]], c[2]),
    c \in freed>>

(* Every chain put on the queue has exactly one owner at any time (queue,  *)
(* drain, batch, inbox) or has been given back once: no leak, no double    *)
(* release, through closes, reuses, refused batches and session shutdown.  *)
OneOwner ==
  \A c \in chains : \E i \in 1..5 : Places(c)[i] /\ \A j \in 1..5 \ {i} : ~Places(c)[j]

(* A batch collected for one life of a stream never reaches the inbox of   *)
(* the next, although the stream may be reused while the drain carries it. *)
BatchStaysInItsLife ==
  [][\A i \in DOMAIN batches :
       LET b == batches[i] IN
         b.generation # generation[b.stream] =>
           \A j \in DOMAIN b.msgs : ~Contains(delivered'[b.stream], b.msgs[j])]_vars

Msgs == UNION {UNION {1..c.quota[s] : s \in DOMAIN c.quota} : c \in Confs}

(* What a stream hands over is delivered, without a lost wakeup, unless    *)
(* the receiving application gives the stream up or the session ends; and  *)
(* a stream the sender closed is eventually closed for its reader.         *)
EveryMessageArrives ==
  \A s \in Streams :
    /\ \A m \in Msgs :
         Contains(sent[s], m) ~> Contains(delivered[s], m) \/ s \in touched \/ closed
    /\ spc[s] = "closed" /\ s \in Used ~> st[s] # "open" \/ closed

(* Nobody holds the receive queue forever, even when a sender died holding *)
(* a claimed slot; and a session whose peer died ends.                     *)
DrainEnds == (lock # None ~> lock = None) /\ (~alive ~> closed)
=============================================================================
