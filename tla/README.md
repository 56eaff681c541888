# A TLA+ model of shmipc-rs

shmipc moves messages between two processes through shared memory. A *session*
is a unix socket plus shared queues and buffers; it carries many *streams*. A
flush writes a message into shared memory, puts its offset on the peer's queue
and, if the peer's consumer is asleep (`working_flag` is 0), wakes it: by a
polling event on the socket, by an eventfd, or not at all when the peer polls.
A stream that gets no shared memory *falls back* to sending bytes over the
socket. V2 to V4 share one pool of fixed slices and a pair of queues guarded by
a mutex; V5 gives each side a lock-free ring and a growing segment.

## Parts and modules

| Part | State | What is hard | Modules |
| --- | --- | --- | --- |
| V5 ring (`v5/mpsc.rs`) | head, tail, turn per slot, head_cache | lock-free producers, a stale cache | `Mpsc`, `ClaimQueue`, `MpscProofs`, `MpscRefinement` |
| V5 queue and data path (`v5/queue.rs`, `session/mod.rs`, `stream.rs`) | ring, flag, stream map, inboxes, generations, socket | lost wakeups, two routes, reuse during a drain, peer crash | `SessionV5` |
| V5 segment and allocators (`v5/dynshm.rs`, `region.rs`, `buddy.rs`, `fixed.rs`, `release_queue.rs`) | regions, free lists, headers, release queue | lazy merging, a thread that takes pages back, a peer that frees | `Allocators`, `Segment` |
| V5 buffers (`buffer/buf_v5.rs`) | pending, outgoing, inbox, ready, pins | who owns a block, cancelled flushes | `BuffersV5` |
| V2-V4 queue (`queue.rs`) | head, tail, cells, flag, mutex | lost wakeups, torn elements | `Queue`, `QueueProofs` |
| V2-V4 data path (`session/mod.rs`, `stream.rs`) | stream map, pending lists, socket | no barrier and no lock | `SessionV4` |
| V2-V4 free list (`buffer/list.rs`) | size, head, tail, links | lock-free across processes | `BufferList` |
| V2-V4 buffers (`buffer/linked.rs`, `slice.rs`, `manager.rs`) | slice lists, size classes, pins | zero-copy reads that outlive their buffer, reuse of a read slice for writing | `LinkedBuffer` |
| Stream reads (`stream.rs`) | inbox, state, two `Notify` objects | notification races | `StreamRead`, `StreamReadProofs` |
| AsyncRead and AsyncWrite (`compact.rs`) | the futures kept between polls | another handle in between, shutdown after flush | `Compact` |
| Handshake (`protocol/`, `session/mod.rs`, `listener.rs`) | two handlers, a socket | four versions, timers against late results, waiting for each other | `Handshake`, `HandshakeProofs` |
| Layouts (`config.rs`, `queue.rs`, `buffer/`, `v5/`) | words in files | each end derives the offsets for itself | `Layout`, `LayoutProofs` |
| Session, writer, manager, stream pool, registry (`session/`, `buffer/manager.rs`, `util/buf_reader.rs`) | channel, carry, loops, slots, reference counts | partial writes, shutdown against everything, rebuild against close | `Lifecycle`, `LifecycleProofs` |

`PROJECT.json` lists every component with what is left out of it, the hazards
at their lines, and for each definition the lines it models. Definitions keep
the names of the functions they model. Those commented `Mutant` are the
plausible bugs each property was tried against; no specification uses them.

How the modules hang together:

* `Mpsc` has one action per atomic access, and implements `ClaimQueue`. That
  abstract queue, with claim and publication as separate steps, is the queue of
  `SessionV5`. In the same way `Queue` justifies the single-step put and pop of
  `SessionV4`, and `BufferList` the free lists of `LinkedBuffer`, up to the case
  that `buffer_list_aba` shows.
* `SessionV5` and `SessionV4` are one direction of a session: flush, fallback,
  close, drain and delivery. Delivery on V4 is four steps (look up, insert,
  push, look at the state) and close three, as they interleave in the code.
  A stream id that is opened again is a new *life*.
* `Segment` puts regions, the release queue, the cleanup thread and the two
  managers on top of the operators of `Allocators`; an allocation tries one
  region per step, since it takes one lock per region. `BuffersV5` EXTENDS it:
  every place a block can be in is a variable.
* `LinkedBuffer` has both ends of one V2-V4 stream over one pool. A byte is its
  number in the stream, so what a reader sees can be told from what was there
  before.
* `StreamRead` is `read_more` against the tasks that deliver and close, and
  `Compact` EXTENDS it with the adapter that keeps such a read, a flush or a
  close as a pending future. tokio's `Notify` is modelled from its use.
* `Handshake` is the client's and the server's handler on up to two connections
  (the second is the legacy retry), one action per message. Other
  implementations appear as kinds of peer and are external. It EXTENDS
  `Layout`, so that two ends which settle on a version can be asked whether
  they then find the same words in memory.
* `Lifecycle` is what surrounds the data path: the socket writer with the part
  of a wakeup it could not write (`carry`), the loops and their shutdown, the
  pooled streams, the rebuild tasks, and the registry of buffer managers.

The `MC` modules hold the instances. A run covers several configurations at
once: `conf` (`role` in `BufferList`) is chosen in `Init` from the constant
`Confs` (`Roles`) and never changes.

## Runs

| Run | What it shows |
| --- | --- |
| `mpsc` | payload accesses never race; the ring implements `ClaimQueue`; claims are popped |
| `v5` | order of a stream's messages over both routes and the close after them, one owner per chain, no batch in another life; with fallback, full queues, cancelled flushes, reuse, closing and crashing peers |
| `v5_live` | what is handed over arrives, closes arrive, and a peer that died with a claimed slot does not block the drain |
| `queue` | FIFO, no torn element, no lost wakeup, everything put is popped |
| `stream_read` | a reader never sleeps through news and returns when it can be answered; `poll_read` makes up no end, and `poll_shutdown` overtakes no flush |
| `v4` | order without fallback, one owner per message, closed streams end up empty, every message settles |
| `pool_v4` | the free list: exact size and chain, with one allocating task or with several while nobody recycles; the buffers over it: each slice in one place and none left in a closed stream; what a zero-copy read shows does not change under it; bytes are read once and in order |
| `buffers_v5` | each block in one hand, live while referred to; free lists and blocks tile the regions; lazy merging refuses nothing that fits; what the peer released is reclaimed |
| `handshake` | two ends that are up agree, are wired to each other and find the same words; nobody waits for somebody who waits; no legacy retry after an answer; the pool is given back; every handshake ends |
| `lifecycle` | frames are never torn; no unmapped manager is handed out; an open stream has one user or one place in a pool; a claimed wakeup arrives; queued sends return; a dead session is replaced |
| `v4_order` | *violation*: a fallback message overtakes one of its stream still on the queue, against `stream.rs:1106-1107` |
| `buffer_list_aba` | *violation*: with two tasks that pop and one that recycles, a slice is handed out twice, against `list.rs:35` |

### Behaviour the models have because the code has it

No passing run excludes these; the first can be reproduced.

* `read_more` may return EndOfStream although the inbox holds the data asked
  for, when data and a half-close arrive between `take_delivered` and the load
  at `stream.rs:343`: add `EndOfStreamIsFinal` to the invariants of `Compact.cfg`.
* A flush dropped between claiming the flag and handing its event to the write
  loop (`session/mod.rs:779`) leaves the flag set, and the queue is not drained
  again. `v5_live` therefore has no cancelled flushes; `v5` has them.
* A fallback payload is checked against a generation read at the delivery
  (`stream.rs:644`), so it may land in the next life of a reused stream.
* `try_push` may report a full ring that is not: it decides from a cached head.
* What a full release queue refused is offered again only by a later read
  (`stream.rs:622`).
* `init_manager` keeps the buffer manager when the queues cannot be made, and a
  server whose last acknowledgement fails keeps its reference as well;
  `PoolGivenBack` is stated for clients and excepts the first case. So does an
  end whose socket cannot be made nonblocking again after the handshake
  (`session/mod.rs:447-456`); that system call does not fail in the model.
* A negotiation that times out is not retried as a legacy one. A server never
  looks at its own `mem_map_type`, although `config.rs:41-43` speaks of a server
  that rejects; a client with file mapping falls back to V2 where
  `config.rs:115` says V3.
* Changing a reference count takes the manager out of the registry for a moment
  (`buffer/manager.rs:363-375`). A session that opens then creates a second
  pool, and one that closes then loses its decrement.
* A session that dies before its rebuild task has registered is not rebuilt,
  and one that is connected while the manager closes may stay open, although
  `manager.rs:148` says that `close` closes all sessions: each `notify_waiters`
  reaches only the futures that exist, and `close` looks at a slot once.
* A send that the closed channel refuses does not return (`refused` in
  `Lifecycle`): `Ok(_)` at `session/mod.rs:703` takes the refusal for success and
  keeps the unsent frame, with the other end of `rx`, alive while it awaits
  `rx`. `QueuedSendReturns` is about the sends the channel accepted.
* `Stream::reuse` borrows (`stream.rs:715`): the caller keeps a handle that works.
  One that uses it, or calls `reuse` again, after `reuse` has returned shares the
  stream with its next user. `OneUser` takes a released stream as not used.
* A stream that `open_stream` inserts after `Session::close` has emptied the map
  stays open on a closed session, and can be released to a pool and handed out
  again: `get_or_open_stream` looks at the stream's own state only. A stream the
  peer has closed while it was pooled is dropped there without being closed, and
  stays in the map until the session closes.
* `poll_shutdown` drops what `poll_write` wrote and nobody flushed.

### Bounds

Two streams suffice for one to hold the flag while the other relies on it; two
messages for one to be on each route. Queues of one or two elements get full and
wrap; `Mpsc` and `Queue` run for two laps (`MaxPos`). In `v4` only the
configuration without fallback and closing has two streams. `Retries` in
`BufferList` stands for the 200 attempts of `pop`, its four slices let two
recyclers and the popper meet at either end of the chain.

`buffers_v5` has one writer, which meets the cleanup thread in the allocators
and at the drain lock, and the peer everywhere else. Its five segments are a
buddy tree of three orders, three regions of which one may be punched, a chain
of two blocks with two leases and closing managers, dedicated regions of several
sizes, and the fixed allocator. The release queue and the session's queue hold
one entry, so both get full. `Watched` is one offset of the arena, since
liveness of each costs a run.

`pool_v4` explores one of two parts, the free list or the buffers, and leaves the
other at rest. The second has five slices of two sizes, two of the small kind, so that a request
gets the next size and then the heap; four bytes in one direction cross three
slices. Four configurations share out the calls: zero-copy reads, copying
reads, closing on both ends, and an echo that reuses what it read.

`handshake` enumerates all client configurations with three polling intervals
(zero, less than a microsecond, and one that loses its fraction) and six peers:
this server, one that speaks V4 only, a legacy one, one that rejects, one that
selects a version nobody offered, and one that never answers. `Shapes` are
capacities on both sides of their rounding, three lengths around the least
memory, and slice sizes that are default, unsorted, too large, and refused.

`lifecycle` has a channel of one frame, a socket that takes part of a wakeup,
and a read buffer smaller than a frame, so each is at its limit. Its seven
configurations are writers on one connection that breaks or closes, a slot that
is rebuilt after two refusals, with a user, or while the manager closes, two
slots that share a buffer manager, and two users of one pool of one place whose
peer closes streams and whose session is closed. Three sessions are
two lives of one slot and one of the other; four managers are one more than any
holder can keep from being made anew.

All passing runs but `mpsc` and `stream_read`, which check for deadlock, come to
rest when everything is done, or hold a part that does.

### Fairness

Weak fairness of each started call, of each receiving task and of the cleanup
and blocking threads: tokio polls tasks that were woken, and the operating
system runs threads. In `Handshake` timers fire in the end. In `BuffersV5` who
holds the drain lock goes on. In `Lifecycle` a sender waiting for room in the
channel has strong fairness, because tokio hands out the permits in order; the
peer reads what arrives. In `Compact` a task whose future was woken polls it
again, until it drops the future, which it may do at any time. Nobody is obliged
to flush, read or close, to break a connection, or to retry a full release
queue.

## Proofs

For every capacity, number of participants, configuration and amount of data:

* `MpscProofs`: types, bounds, a claimed slot is free, no payload race.
  The inductive invariant ties each slot's turn to the positions in flight.
* `MpscRefinement`: the ring implements `ClaimQueue`.
* `QueueProofs`: types, FIFO, no lost wakeup. FIFO needs that the cells between
  head and tail are the last puts (`CellsMatch`) and that only the lock holder
  writes; the wakeup needs that a set flag has an event or a working consumer
  (`FlagIsHonest`) and that a producer meeting a cleared flag acts on it.
* `StreamReadProofs`: no sleep over news, from matching each kind of news with
  its own notification. It is about `StreamRead` alone; that the adapter keeps
  it is model-checked.
* `LayoutProofs`: `QueuesAgree`, for every capacity, version and architecture.
  What has to be shown is that the rounding of `verify` makes half of the file
  a multiple of eight, so that the mapping end, which halves the length, finds
  the second queue where the creator wrote its capacity. Both ends are taken to
  use one layout, which `SameWords` shows of the handshakes of the instance.
* `LifecycleProofs`: `NoDeadManager`. By itself it is not inductive, since a
  holder could put back what another has unmapped. `RegistryInv` adds that a
  manager taken out is in the hands of one holder, is not in the registry, and
  is still mapped. The proof has one lemma for each of the three operations on
  the registry (get, take out, put back) and shows that nothing else touches it.
* `HandshakeProofs`: `NoSilentDowngrade` and `PoolGivenBack`, for every
  configuration and whatever the peer sends. `IndInv` is about the client's
  record only: nothing is decided or taken while it negotiates (`Early`), a
  network error is one of a client that heard no answer, a failed client has no
  reference unless its queues failed, and the second connection exists only
  after a network error of the first.

Assumptions on constants: a capacity is a positive number; `None` is no
producer, value or manager; a configuration of `Lifecycle` uses the two slots
there are; the classes of a pool have ascending sizes; a free list has slices, and a task of
it allocates or recycles.

Only model-checked: `SessionV5`, `SessionV4`, `BufferList`, `LinkedBuffer`,
`BuffersV5` with `Segment` and `Allocators`, `Compact`, the other properties of
`Handshake` and `Lifecycle`, and all liveness, which is beyond this prover.

## Assumptions and limits

* Atomic accesses interleave sequentially; weak memory is not modelled.
  `Queue` is the aligned layout of V4: positions of V2 and V3 are plain
  unaligned accesses.
* One direction at a time in `SessionV5` and `SessionV4`: a sender's reaction to
  the peer closing is left out. `SessionV5`: closing the session is one step; a
  full accept channel is not modelled; a stream is reused once. `SessionV4`: no
  reuse, no shutdown, no cancelled flush; giving up on a full queue may come at
  any attempt.
* `LinkedBuffer`: a buffer operation is one step, as its one owner makes it; the
  queue and the socket are one sequence, since their order is the subject of
  `SessionV4`; a stream is not closed in the middle of its own flush, against
  which `flush_v4` has no protection. Nor is `discard` called with zero, which
  does not return on an empty buffer.
* `Segment`: the age of an idle region is nondeterministic; flushing releases
  to the queue is one step, under its lock; the header of a freed block is a
  zero header, standing for the cleared magic; the offset of the dedicated area
  is derived from the regions. The error branches of `walk_chain` and
  `free_chain` do not occur, which `ReferredIsLive` shows.
* `StreamRead` and `Compact`: a close by another handle and what it does to the
  read buffer are one step, although nothing in the code keeps a reader out.
* `Handshake`: JSON, trace context and path lengths are left out. Mapping may
  fail at any time. A broken connection loses nothing already written.
* `Layout`: lengths that overflow 32 bits are excluded by the sizes tried; the
  V5 segment is counted in pages.
* `Lifecycle`: all sessions share one path of the registry; a manager nobody
  holds may be made anew under its old identity. Frames are two to four bytes.
  The reader fills its buffer when it has too little: the reads of
  `buf_reader.rs` that go past an empty buffer for a large request (193-197) or
  ask the socket for more while some is buffered (220-233) are left out. They
  change how bytes are cut into reads, not their order.

## Not modelled

* `check_buffer_returned` and the wait of up to five seconds before a pool is
  unmapped: its counter is a diagnostic, written at another offset by the
  creator of a list than by the end that maps it, so nothing can be relied on.
* Typed readers and writers of a buffer (`buffer/buf.rs`): the same bytes as the
  calls that are modelled.
* JSON of the negotiation, event encoding and header parsing
  (`protocol/event.rs`, `header.rs`), and the system calls behind memfds, files,
  eventfds and sockets (`v5/memfile.rs`, `protocol/event_fd.rs`, `transport.rs`):
  input and output without a state of their own.
* Closing the listener: it closes the sessions it has made so far, as
  `Lifecycle` closes one, and then aborts the accept loop.
* Statistics, error types, constants that only name sizes, and `examples/`:
  plain data, and programs that use the crate.
* Tests, which make up about a third of the source, are read for what they
  expect and not modelled.
