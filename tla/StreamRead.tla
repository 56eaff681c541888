----------------------------- MODULE StreamRead -----------------------------
(***************************************************************************)
(* A reader of one stream, Stream::read_more, against the event loop that  *)
(* delivers to the stream and half-closes it, and a close by another       *)
(* handle.  The reader sleeps on two tokio Notify objects: recv_notify     *)
(* keeps one permit when nobody waits (notify_one), close_notify wakes     *)
(* only who is registered (notify_waiters).  Data is counted in units.     *)
(***************************************************************************)
EXTENDS Integers

CONSTANTS
  Units,    \* units the event loop delivers, at most
  LateData  \* whether data may follow a half-close, as a close over the socket lets it on V4

ASSUME UnitsAssumption == Units \in Nat

VARIABLES
  left,      \* units not delivered yet
  pending,   \* units in the inbox (V5) or pending list (V4)
  buf,       \* units in the read buffer: recv_len
  state,     \* StreamShared.state
  permit,    \* the permit recv_notify keeps
  recvW,     \* the reader's recv_notified: "off", "on", "hit" (notified), "done" (took the permit)
  closeW,    \* its close_notified: "off", "on", "hit"
  rpc, min,  \* the reader: where it is, and min_size
  epc, cpc   \* the event loop, the closing task: which notification they owe

vars == <<left, pending, buf, state, permit, recvW, closeW, rpc, min, epc, cpc>>
readerVars == <<recvW, rpc, min>>

Init ==
  /\ left = Units /\ pending = 0 /\ buf = 0 /\ state = "opened"
  /\ permit = FALSE /\ recvW = "off" /\ closeW = "off"
  /\ rpc = "idle" /\ min = 0 /\ epc = "idle" /\ cpc = "idle"

-----------------------------------------------------------------------------
(* notify_one wakes the registered waiter or keeps the permit. *)
notify_one ==
  IF recvW = "on" THEN recvW' = "hit" /\ permit' = permit
                  ELSE recvW' = recvW /\ permit' = TRUE

notify_waiters == closeW' = IF closeW = "on" THEN "hit" ELSE closeW

(* The event loop adds to the inbox, then notifies; what it would add to a *)
(* closed stream is released at once and changes nothing here.             *)
AddPending ==
  /\ epc = "idle" /\ left > 0
  /\ state = "opened" \/ (LateData /\ state = "half_closed")
  /\ left' = left - 1 /\ pending' = pending + 1 /\ epc' = "readable"
  /\ UNCHANGED <<buf, state, permit, closeW, readerVars, cpc>>

NotifyReadable ==
  /\ epc = "readable" /\ notify_one /\ epc' = "idle"
  /\ UNCHANGED <<left, pending, buf, state, closeW, rpc, min, cpc>>

(* V4, whose fill_data_to_read_buffer finds the stream closed meanwhile. *)
DropLate ==
  /\ epc = "readable" /\ state = "closed" /\ epc' = "idle"
  /\ pending' = 0 /\ buf' = 0
  /\ UNCHANGED <<left, state, permit, closeW, readerVars, cpc>>

HalfClose ==
  /\ epc = "idle" /\ state = "opened"
  /\ state' = "half_closed" /\ epc' = "closed"
  /\ UNCHANGED <<left, pending, buf, permit, closeW, readerVars, cpc>>

NotifyHalfClosed ==
  /\ epc = "closed" /\ notify_waiters /\ epc' = "idle"
  /\ UNCHANGED <<left, pending, buf, state, permit, readerVars, cpc>>

(* close by another handle, or by the session: it discards what is unread, *)
(* and notifies only if the stream was still open.                         *)
Close ==
  /\ cpc = "idle" /\ state # "closed"
  /\ cpc' = IF state = "opened" THEN "closed" ELSE "idle"
  /\ state' = "closed" /\ pending' = 0 /\ buf' = 0
  /\ UNCHANGED <<left, permit, closeW, readerVars, epc>>

NotifyClosed ==
  /\ cpc = "closed" /\ notify_waiters /\ cpc' = "idle"
  /\ UNCHANGED <<left, pending, buf, state, permit, readerVars, epc>>

-----------------------------------------------------------------------------
(* The reader. *)

(* read_chunk, read_exact_bytes, peek, discard and wait_readable begin     *)
(* alike: a closed stream is an error, and what is buffered needs no wait. *)
ReadMore(n) ==
  /\ rpc = "idle" /\ min' = n
  /\ rpc' = IF state = "closed" THEN "StreamClosed" ELSE IF buf >= n THEN "Ok" ELSE "take"
  /\ UNCHANGED <<left, pending, buf, state, permit, recvW, closeW, epc, cpc>>

TakeDelivered ==
  /\ rpc \in {"take", "retake"}
  /\ buf' = buf + pending /\ pending' = 0
  /\ rpc' = IF rpc = "take" THEN "check" ELSE "recheck"
  /\ UNCHANGED <<left, state, permit, recvW, closeW, min, epc, cpc>>

(* Dropping the futures: a notification nobody consumed is passed on. *)
DropFutures ==
  /\ permit' = (permit \/ recvW = "hit")
  /\ recvW' = "off" /\ closeW' = "off"

(* Mutant: a read of all there is waits for more. *)
OutcomeOffByOne ==
  CASE state = "closed" -> "StreamClosed"
    [] state # "closed" /\ buf > min -> "Ok"
    [] state = "half_closed" /\ buf <= min -> "EndOfStream"
    [] OTHER -> "wait"

(* check_read_ready, whose answer ends the call or lets it wait. *)
Outcome ==
  CASE state = "closed" -> "StreamClosed"
    [] state # "closed" /\ buf >= min -> "Ok"
    [] state = "half_closed" /\ buf < min -> "EndOfStream"
    [] OTHER -> "wait"

CheckReady ==
  /\ rpc \in {"check", "recheck"}
  /\ IF Outcome # "wait"
     THEN rpc' = Outcome /\ DropFutures
     ELSE /\ rpc' = IF rpc = "check" THEN "enable" ELSE "await"
          /\ UNCHANGED <<permit, recvW, closeW>>
  /\ UNCHANGED <<left, pending, buf, state, min, epc, cpc>>

EnableRecv ==
  /\ rpc = "enable" /\ rpc' = "enableclose"
  /\ recvW' = (IF permit THEN "done" ELSE "on") /\ permit' = FALSE
  /\ UNCHANGED <<left, pending, buf, state, closeW, min, epc, cpc>>

(* Mutant: the reader goes to sleep without checking again. *)
EnableCloseAndSleep ==
  /\ rpc = "enableclose" /\ rpc' = "await" /\ closeW' = "on"
  /\ UNCHANGED <<left, pending, buf, state, permit, recvW, min, epc, cpc>>

EnableClose ==
  /\ rpc = "enableclose" /\ rpc' = "retake" /\ closeW' = "on"
  /\ UNCHANGED <<left, pending, buf, state, permit, recvW, min, epc, cpc>>

(* select over both futures: the first notified one ends the wait. *)
Woken ==
  /\ rpc = "await" /\ (recvW \in {"hit", "done"} \/ closeW = "hit")
  /\ rpc' = "take" /\ recvW' = "off" /\ closeW' = "off"
  /\ UNCHANGED <<left, pending, buf, state, permit, min, epc, cpc>>

(* The future is dropped where it waits: a deadline of the caller, or a    *)
(* StreamExt asked for its stream.                                         *)
Cancel ==
  /\ rpc = "await" /\ rpc' = "idle" /\ min' = 0 /\ DropFutures
  /\ UNCHANGED <<left, pending, buf, state, epc, cpc>>

(* Another handle of the stream reads what is there, without waiting, while *)
(* this one waits or has been told that there is data.                     *)
OtherReads(n) ==
  /\ rpc \in {"idle", "await", "Ok"} /\ state # "closed" /\ buf + pending >= n
  /\ IF buf >= n THEN buf' = buf - n /\ pending' = pending
                 ELSE buf' = buf + pending - n /\ pending' = 0
  /\ UNCHANGED <<left, state, permit, recvW, closeW, rpc, min, epc, cpc>>

Results == {"Ok", "EndOfStream", "StreamClosed"}

(* The caller consumes what it asked for. *)
Consume ==
  /\ rpc \in Results /\ rpc' = "idle" /\ min' = 0
  /\ buf' = IF rpc = "Ok" /\ buf >= min THEN buf - min ELSE buf
  /\ UNCHANGED <<left, pending, state, permit, recvW, closeW, epc, cpc>>

Reader ==
  \/ TakeDelivered \/ CheckReady \/ EnableRecv \/ EnableClose \/ Woken \/ Consume

EventLoop == AddPending \/ NotifyReadable \/ DropLate \/ HalfClose \/ NotifyHalfClosed

Next ==
  \/ \E n \in 1..Units : ReadMore(n) \/ OtherReads(n)
  \/ Reader \/ Cancel \/ EventLoop \/ Close \/ NotifyClosed

Spec == Init /\ [][Next]_vars

(* The reader's task and the notifications the others owe are scheduled;   *)
(* nobody has to deliver, close or call.                                   *)
FairSpec ==
  Spec /\ WF_vars(Reader) /\ WF_vars(NotifyReadable \/ DropLate \/ NotifyHalfClosed) /\ WF_vars(NotifyClosed)

-----------------------------------------------------------------------------
(* Type correctness of the reader, its futures and the stream's state. *)
TypeOK ==
  /\ left \in Nat /\ pending \in Nat /\ buf \in Nat /\ min \in Nat
  /\ state \in {"opened", "half_closed", "closed"} /\ permit \in BOOLEAN
  /\ recvW \in {"off", "on", "hit", "done"} /\ closeW \in {"off", "on", "hit"}
  /\ rpc \in Results \union {"idle", "take", "check", "enable", "enableclose",
                             "retake", "recheck", "await"}
  /\ epc \in {"idle", "readable", "closed"} /\ cpc \in {"idle", "closed"}

(* A reader asleep in read_more on an inbox with data, or on a stream no   *)
(* longer open, is about to be woken: no interleaving of the registrations *)
(* with delivery, half-close and close loses the notification.             *)
NoSleepOverNews ==
  rpc = "await" /\ (pending > 0 \/ state # "opened") =>
    \/ recvW \in {"hit", "done"} \/ closeW = "hit"
    \/ epc # "idle" \/ cpc # "idle"

(* The inductive invariant behind NoSleepOverNews: the futures are          *)
(* registered exactly between their enabling and the wait's end, and each  *)
(* kind of news is matched by the notification of its own kind.            *)
Registered ==
  /\ recvW # "off" <=> rpc \in {"enableclose", "retake", "recheck", "await"}
  /\ closeW # "off" <=> rpc \in {"retake", "recheck", "await"}

DataIsAnnounced ==
  rpc \in {"recheck", "await"} /\ pending > 0 => recvW \in {"hit", "done"} \/ epc = "readable"

CloseIsAnnounced ==
  rpc = "await" /\ state # "opened" => closeW = "hit" \/ epc = "closed" \/ cpc = "closed"

IndInv == TypeOK /\ Registered /\ DataIsAnnounced /\ CloseIsAnnounced

(* A read_more call that can be answered returns, unless it is dropped or  *)
(* another handle takes the data.                                          *)
Answerable == buf + pending >= min \/ state # "opened"
AnswerableReturns ==
  (rpc \notin Results \union {"idle"} /\ Answerable)
    ~> (rpc \in Results \union {"idle"} \/ ~Answerable)

(* EndOfStream means that the half-closed stream will never reach min_size. *)
EndOfStreamIsFinal == rpc = "EndOfStream" /\ state = "half_closed" => buf + pending < min
=============================================================================
