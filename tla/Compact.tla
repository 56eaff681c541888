------------------------------ MODULE Compact ------------------------------
(***************************************************************************)
(* StreamExt (compact.rs): a stream behind AsyncRead and AsyncWrite.  Each *)
(* poll function keeps the future of a stream call between polls; the read *)
(* future is the reader of StreamRead, the write futures are flush and     *)
(* close.  The application polls any of them in any order, or takes the    *)
(* stream out with inner_mut and calls it directly.                        *)
(***************************************************************************)
EXTENDS StreamRead

VARIABLES
  read_state,   \* "idle", "reading", "eof"
  write_state,  \* "idle", "flushing", "closing"
  flush,        \* the flush future: "none", "new", "retry" (the queue is full), or its result
  close,        \* the close future: "none", "new", "sent", "Ok"
  unflushed,    \* units in the write buffer
  begun,        \* ghost: units a flush has taken
  settled       \* ghost: units of those that were sent, or whose flush has failed

writeVars == <<write_state, flush, close, unflushed, begun, settled>>
adapterVars == <<read_state, writeVars>>
allVars == <<vars, adapterVars>>

InitExt ==
  /\ Init /\ read_state = "idle" /\ write_state = "idle" /\ flush = "none" /\ close = "none"
  /\ unflushed = 0 /\ begun = 0 /\ settled = 0

-----------------------------------------------------------------------------
(* poll_read.  A poll that finds the state idle makes the future of        *)
(* wait_readable.                                                          *)
PollRead ==
  /\ read_state = "idle" /\ ReadMore(1) /\ read_state' = "reading"
  /\ UNCHANGED writeVars

Returned(rs) ==
  /\ rpc' = "idle" /\ min' = 0 /\ read_state' = rs
  /\ UNCHANGED <<left, pending, state, permit, recvW, closeW, epc, cpc, writeVars>>

(* The wait failed. *)
WaitFailed ==
  /\ read_state = "reading" /\ rpc \in {"EndOfStream", "StreamClosed"}
  /\ Returned(IF rpc = "EndOfStream" THEN "eof" ELSE "idle") /\ buf' = buf

(* Mutant: data that another handle has taken reads as the end. *)
ReadNothing ==
  /\ read_state = "reading" /\ rpc = "Ok" /\ Outcome = "wait"
  /\ Returned("eof") /\ buf' = buf

(* The wait is over, and another handle has taken the data: wait again.    *)
NotEnoughData ==
  /\ read_state = "reading" /\ rpc = "Ok" /\ Outcome = "wait"
  /\ rpc' = "take"
  /\ UNCHANGED <<left, pending, buf, state, permit, recvW, closeW, min, epc, cpc, adapterVars>>

(* read_available_into checks once more and copies what it can. *)
ReadAvailable ==
  /\ read_state = "reading" /\ rpc = "Ok" /\ Outcome # "wait"
  /\ Returned(IF Outcome = "EndOfStream" THEN "eof" ELSE "idle")
  /\ IF Outcome = "Ok" THEN \E n \in 1..buf : buf' = buf - n ELSE buf' = buf

(* inner_mut drops a wait and forgets an end. *)
InnerMut ==
  /\ \/ read_state = "reading" /\ Cancel
     \/ read_state = "eof" /\ UNCHANGED vars
  /\ read_state' = "idle" /\ UNCHANGED writeVars

(* Calls on the stream inner_mut has returned. *)
DirectRead(n) == read_state = "idle" /\ ReadMore(n) /\ UNCHANGED adapterVars
DirectReadReturns == read_state = "idle" /\ Consume /\ UNCHANGED adapterVars
DirectReadDropped == read_state = "idle" /\ Cancel /\ UNCHANGED adapterVars

-----------------------------------------------------------------------------
(* The write side.  The future of a flush is polled by whichever of        *)
(* poll_write, poll_flush and poll_shutdown comes next.                    *)
PollWrite ==
  /\ write_state = "idle" /\ begun + unflushed < Units
  /\ unflushed' = unflushed + 1
  /\ UNCHANGED <<vars, read_state, write_state, flush, close, begun, settled>>

PollFlush ==
  /\ write_state = "idle" /\ write_state' = "flushing" /\ flush' = "new"
  /\ UNCHANGED <<vars, read_state, close, unflushed, begun, settled>>

(* flush: a stream no longer open discards, an empty buffer has nothing to *)
(* do, and a full queue is tried again.                                    *)
FlushBegin ==
  /\ flush = "new" /\ unflushed' = 0
  /\ \/ state # "opened" /\ flush' = "StreamClosed" /\ UNCHANGED begun
     \/ state = "opened" /\ unflushed = 0 /\ flush' = "Ok" /\ UNCHANGED begun
     \/ state = "opened" /\ unflushed > 0 /\ flush' = "retry" /\ begun' = begun + unflushed
  /\ UNCHANGED <<vars, read_state, write_state, close, settled>>

FlushPut ==
  /\ flush = "retry" /\ flush' \in {"Ok", "QueueFull"} /\ settled' = begun
  /\ UNCHANGED <<vars, read_state, write_state, close, unflushed, begun>>

FlushClosed ==
  /\ flush = "retry" /\ state # "opened" /\ flush' = "StreamClosed" /\ settled' = begun
  /\ UNCHANGED <<vars, read_state, write_state, close, unflushed, begun>>

(* The poll that sees the result.  poll_flush takes a closed stream for    *)
(* flushed; poll_write and poll_shutdown report it.                        *)
Flushed ==
  /\ flush \in {"Ok", "QueueFull", "StreamClosed"}
  /\ flush' = "none" /\ write_state' = "idle"
  /\ UNCHANGED <<vars, read_state, close, unflushed, begun, settled>>

(* poll_shutdown waits for a flush (Flushed) before it closes. *)
PollShutdown ==
  /\ write_state = "idle" /\ write_state' = "closing" /\ close' = "new"
  /\ UNCHANGED <<vars, read_state, flush, unflushed, begun, settled>>

(* Stream::close: the first to close discards what is not flushed, and     *)
(* tells the peer.                                                         *)
CloseBegin ==
  /\ close = "new"
  /\ \/ state = "closed" /\ close' = "Ok" /\ UNCHANGED <<vars, unflushed>>
     \/ Close /\ close' = "sent" /\ unflushed' = 0
  /\ UNCHANGED <<read_state, write_state, flush, begun, settled>>

CloseReturns ==
  /\ close = "Ok" \/ (close = "sent" /\ cpc = "idle")
  /\ close' = "none" /\ write_state' = "idle"
  /\ UNCHANGED <<vars, read_state, flush, unflushed, begun, settled>>

-----------------------------------------------------------------------------
(* Another handle, or the session, closes the stream. *)
OtherCloses == Close /\ unflushed' = 0
  /\ UNCHANGED <<read_state, write_state, flush, close, begun, settled>>

ReaderStep ==
  \/ (TakeDelivered \/ CheckReady \/ EnableRecv \/ EnableClose \/ Woken) /\ UNCHANGED adapterVars
  \/ WaitFailed \/ NotEnoughData \/ ReadAvailable \/ DirectReadReturns

WriterStep == FlushBegin \/ FlushPut \/ FlushClosed \/ Flushed \/ CloseBegin \/ CloseReturns

Announce == (NotifyReadable \/ DropLate \/ NotifyHalfClosed) /\ UNCHANGED adapterVars
AnnounceClose == NotifyClosed /\ UNCHANGED adapterVars

NextExt ==
  \/ PollRead \/ InnerMut \/ ReaderStep
  \/ (\E n \in 1..Units : DirectRead(n)) \/ DirectReadDropped
  \/ PollWrite \/ PollFlush \/ PollShutdown \/ WriterStep
  \/ (AddPending \/ HalfClose) /\ UNCHANGED adapterVars
  \/ (\E n \in 1..Units : OtherReads(n)) /\ UNCHANGED adapterVars
  \/ Announce \/ AnnounceClose \/ OtherCloses

(* The task that polls is woken and polls again, and whoever owes a        *)
(* notification sends it; nobody has to deliver, close or call.            *)
SpecExt ==
  /\ InitExt /\ [][NextExt]_allVars
  /\ WF_allVars(ReaderStep) /\ WF_allVars(WriterStep)
  /\ WF_allVars(Announce) /\ WF_allVars(AnnounceClose)

-----------------------------------------------------------------------------
(* The adapter makes up no end.  poll_read reports the end of a stream     *)
(* only when the stream is no longer open, however the data another handle *)
(* reads and the waits that were dropped interleave with its own; and      *)
(* poll_shutdown closes the stream only when every unit a flush had taken  *)
(* has been sent or its failure reported.                                  *)
NoFalseEnd ==
  /\ read_state = "eof" => state # "opened"
  /\ close # "none" => settled = begun
=============================================================================
