# TLA+ verification of hmbdc

hmbdc is a header-only C++ library that passes messages between threads, processes
and hosts. Its core is a family of buffers (lock-free rings and blocking queues), the
Contexts that run client threads on them, and TIPS, which connects Contexts over
reliable multicast, TCP or UDP. This directory holds TLA+ models of the parts that
carry protocol state, the TLC configurations that check them and machine-checked
proofs about the rings, the blocking queues, the Contexts, the reliable multicast and
smaller services.
`PROJECT.json` is the machine-readable index: components,
runs, mutants, the source lines behind every definition, findings, hazards, theorems.

How to run: `tlc -workers 2 -config MCRing_safe.cfg MCMemRingBuffer` (module and
configuration of each run are in the table of section 4) and
`tlapm MemRingBuffer_proofs.tla`.

## 1. Inventory

| Component | State | Operations | Interacts with | What is hard | Correct when |
|---|---|---|---|---|---|
| Broadcast ring (`pattern/MemRingBuffer.hpp`) | claim counter, slots with a number in their header, one cursor per consumer, cursors at the last purge | `put`, `tryPut`, `killPut`, `claim`, `tryClaim`, `killClaim` (one or n), `commit`, `peek`, `wasteAfterPeek`, `take`, `markDead`, `reset`, `purge`, `catchUpTo` | senders call it through Context; client loops read it; the purger marks cursors | lock-free; many senders; clients join, die and are purged meanwhile | every live client gets every message once, in order, whole; nobody writes a slot in use; a full ring drains |
| Partition ring (`pattern/MemRingBuffer2.hpp`) | claim counter, one shared cursor, slots whose header is a number or free | `put`, `tryPut`, `claim`, `tryClaim`, `commit`, `peek`, `take`, `tryTake`, `wasteAfterPeek`, `reset` | partition Context, pools, udpcast, tcpcast | cursor moves before the message is handled; reset under others | each message to one client only, none lost |
| Overwriting ring (`pattern/MemRingBufferRt.hpp`) | as the broadcast ring | never-blocking `put`; `take`, `tryTake` | latest-value feeds | torn reads, laps | a reader never accepts a torn item, and misses only what was overwritten |
| Blocking queue (`pattern/BlockingBuffer.hpp`) | ring, `size_`, `seq_`, mutex, two condition variables, set of exclusively peeked numbers | `put`, `tryPut`, batches, `peek`, `peekExclusive`, the two wastes, `waitItem` | BlockingContext | notify only on full/empty transitions; out-of-order exclusive wastes | no lost wakeup; no slot reused while being handled |
| Overwriting queue (`pattern/BlockingBufferRt.hpp`) and BlockingContextRt | as above, with receipts of those who started | put that drops the oldest | senders, clients | room for batches, stop under senders | never blocks, keeps the newest, drops nothing else |
| Context (`app/Context.hpp`, `ContextDetail.hpp`) | the ring, used and free client indexes, a file lock, `stopped_`, threads, pool | `send`, `trySend`, `start`, `stop`, `join`, `purge`, destruction | everything above | indexes are recycled while others start, leave, crash; drain at exit | each index has one owner, senders are released by clients that leave, threads end |
| StuckClientPurger | period | calls `purge` | broadcast ring of an ipc Context | must hit stuck clients only | the ring does not stay full |
| Dispatch and stash (`app/Message*.hpp`, `Client*.hpp`) | the attachment being assembled, sorted interests, stash | `handleRangeImpl`, dispatch, `batchDone`, `openStash` | client loops | exceptions and skips inside a batch that continues an attachment | each callback gets its messages, whole and in order |
| BlockingContext (`app/BlockingContext.hpp`) | one queue per client or per load-sharing group, `stopped_` | `send`, `trySend`, range `send`, `start`, `stop`, `join` | blocking queue, timers | exceptions, stop while senders sleep, several clients draining | each message once per queue; senders released |
| Thread pool (`pattern/PoolT.*`, `PoolConsumer`, `PoolMinus*`) | per consumer `nextSeq_` with sentinel values used as a lock, queues per thread | `addConsumer`, `runOnce`, `stop` | Context | lock built from sentinels; several threads drop one consumer | one thread at a time runs a consumer; dropped once |
| Sequence arbiter (`pattern/SeqArb.hpp`) | expected number, last number per participant | `operator()` | rmcast receiver, user feeds | plain entries read while written | each number passed on once, in order; a gap is a real one |
| Reliable multicast (`tips/rmcast`, `tips/reliable`) | send ring with a trailing cursor, backup TCP sessions, gap reports, receive buffers | send, replay, gap report, heartbeat, session open and close | TIPS Domain | loss, reordering, reconnect, slow receivers | no gap in what a connected receiver delivers |
| tcpcast (`tips/tcpcast`) | ring, batches of pointers, sessions at their own pace, subscriptions | queue, serve, release, cull, connect, refresh | TIPS Domain | release by the slowest; a session in the middle of a batch | complete and in order per session; attachments freed once |
| udpcast (`tips/udpcast`) | ring, packed datagrams of pointers | queue, pack, send to every destination, cut | TIPS Domain | destinations share datagrams that point into the ring; a refused send is not repeated | whole messages, in order, the same for all |
| Epoll wrapper (`app/utils/EpollTask.hpp`) | a flag per socket, a shared wish to poll | `isFdReady`, `checkErr`, `poll` | transports | edge triggered; several pollers | no socket with data is forgotten |
| TIPS domain and nodes (`tips/Domain.hpp`, `Node.hpp`, `TypeTagSet.hpp`) | subscription counters, some in shared memory, pumps, reference counts | subscribe, publish, route, stop | transports, Contexts | counters shared by processes; attachments in shared memory | a message reaches exactly the subscribers; what travelled is given back |
| Shared memory (`os/Allocators.hpp`) | names, sizes, the attachments' pool | create, attach, construct, unlink | ipc Context | any order of processes, leftovers | whoever is up uses constructed memory of one owner |
| Timers and rate limiter (`time/`) | ordered timers; token bucket | schedule, cancel, fire; check, commit | client loops, transports | callbacks change the set while it is walked; negative credit | a timer fires once per period, cancelled ones never; the rate holds |
| Bags, console, simulation (`tips/Bag.hpp`, `ConsoleNode.hpp`, `simulation.hpp`) | file, play position | record, play | nodes | crash of the recorder, filters, ranges | records come back once, in order, not early |
| Ping-pong tool (`tools/tips-ping-pong.cpp`) | counts, statistics | ping, pong, stop | TIPS | pinger and ponger publish to each other | answered once, ends |
| Child process I/O (`os/AsyncExecutionIo.hpp`) | buffers, pipes | `runOneFor`, destructor | user callbacks | two streams, full pipes, SIGINT | all lines, in order, the end last |
| Histograms (`numeric/StatHistogram.hpp`) | buckets | `add`, `+=`, `report` | tools | several percentiles in one bucket | percentiles right |
| Configuration, logging, text, other OS helpers, POTS facade, examples | none shared | conversion and I/O | | | not protocol state |

### The hard behaviours

* Threads interleave on shared memory without locks in the rings, the pool, the arbiter
  and the epoll wrapper; those models take one access to shared memory (or one critical
  section) as one step.
* Values are read, compared and used in separate steps: `peek` reads its cursor twice,
  `reset` loads and then stores, `tryClaim` tests before its compare-and-swap,
  `killClaim` finds its victim before it marks it, the drain counts before it takes out.
* Clients and processes join, leave, throw, crash, get stuck and are purged while
  others run; indexes, names and slots are recycled.
* Queues are used at their limits: batches as large as the ring, wakeups only on the
  transitions from full and from empty, cursors parked near the end of a 64-bit range.
* Memory is pointed to from elsewhere: batches and datagrams hold pointers into rings,
  attachments have reference counts that several processes raise and lower.

`PROJECT.json` lists each hazard at its line, with the properties that would catch it.

## 2. Plan

| Order | Module | State |
|---|---|---|
| 1 | `MemRingBuffer` with `BroadcastLog` as its abstract specification | modelled, checked; types, inductive invariant, safety and refinement proved |
| 2 | `PartitionRing`, `BlockingContext` (with the blocking queue) | modelled, checked; safety proved |
| 3 | `ReliableMulticast` with loss and reconnection | modelled, checked; safety proved; next: two receivers at once, attachments in segments, changing subscriptions |
| 4 | `ContextLife`, `ThreadPool`, `Dispatch`, `RtContext`, `OverwritingRing` | modelled, checked; all but `Dispatch` proved |
| 5 | `Tcpcast`, `Udpcast`, `TipsDomain`, `ShmTransport`, `Epoll` | modelled, checked; `ShmTransport` and `Epoll` proved |
| 6 | `SeqArb`, `Timers`, `Rater`, `Bag`, `PingPong`, `ChildIo`, `Histogram` | modelled, checked; `SeqArb` and `PingPong` proved |

Theorems next: `Dispatch`, `Timers` and the transports `Tcpcast` and `Udpcast`. No module of the project uses RECURSIVE, so all of them can be proved about.

## 3. Modules

### MemRingBuffer and BroadcastLog

`MemRingBuffer` models the ring together with the sending side of a Context and the
client loop (`runOnceImpl` of `ContextDetail.hpp`) and the stuck-client purger. A message
is identified with the number claimed for it. The claimed prefix, the headers and the
cursors are the variables of the class with their names; `slotData` says which message's
bytes a slot holds, TORN while its sender may be writing them.

* A sender is `idle`, in the scan of the cursors for one of the three varieties of call
  (`claim`, `try`, `kill`), about to mark a victim (`slay`), or at work on its slots
  (`fill`, `commit`). `readSeqLow` reads the cursors one at a time, so the scan is one
  step per cursor (`ScanPass`): a condition on the minimum holds when it holds of every
  value read, and those values come from different moments.
* `put` and `claim(n)` take numbers first (`FetchAdd`) and then scan; `tryPut` and
  `tryClaim(n)` scan first and then compare-and-swap (`TryGranted`, `TryReload`);
  `killPut` and `killClaim(n)` scan, look for the slowest cursor, again one cursor per step
  (`KillFind`, `KillCompare`), and mark it dead (`Slay`), where it may be by then.
* `Commit` publishes one slot per step, in the order of the loop in `commit`.
* A client's thread is `off`, in `reset` (load, `ResetStore`, and the check that makes
  it load again), `idle`, in `peek` (one slot per step; the count is computed from a
  second read of the cursor in `PeekEnd`), or handing messages to the client.
* `purge` visits one cursor per step (`PurgeVisit`), its header included; for one that has
  not moved it looks for the slowest cursor like the senders (`PurgeCompare`, `PurgeFound`).
* Sequence numbers are unsigned: `Wrap` is one addition or subtraction modulo
  SEQ_MAX + 1. SEQ_MAX is a constant; READ_SEQ_MAX keeps the code's distance from it.

`intact` is a history variable. A client that joins while senders hold unpublished
numbers, or whose reset is overtaken by a lap, starts from a cursor nobody has reserved;
the ring promises such a client nothing, and the code does not claim that it does. The
promise is made to *members*: clients present before the first claim, or whose reset saw
no claim in flight and was stored within one lap, and who were not marked dead since.

`BroadcastLog` is that promise: a log of announced and published messages from which
every member receives each message from where it joined on exactly once, in order and
unaltered. The refinement mapping at the end of `MemRingBuffer` takes the claim counter,
the set of published numbers, and each member's position from the state of the ring.

### PartitionRing

`MemRingBuffer<0>`: consumers share a cursor and take a range by compare-and-swap after
looking at the headers, and free the slots afterwards (`markAsToWriteOver`), so a sender
waits for the cursor (`Room`) and for each slot (`Ready`). `tryClaim(n)` is modelled as
written: it tests its first slot n times. Clients run `peek`, handle, `wasteAfterPeek`;
`take` and `tryTake` are other readers of the same ring. A callback may throw (`Throw`):
the client leaves, which resets the ring slot by slot and then moves the cursor
(`ResetSlot`, `ResetLoad`, `ResetStore`), or `droppedCb` puts it back into its loop.
Clients may also be started later. `times` counts how often each message was given to a
client; `thrown` records whether an exception happened and whether others were running.
`PartInv`, at the end of the module, is the inductive invariant of section 5.

### BlockingContext

Senders, client threads and their queues. One action is one critical section of
`BlockingBuffer`; waiting, being notified, and notifying after the mutex was released
(`NotifyItem`) are separate steps. A sender visits the queues of the clients interested
in its message one after the other (JustBytes receivers first in the code, then the
typed ones; the model takes any fixed order) and sleeps at a full one; `trySend` gives up
at once or when its time is over, leaving what it has put; the range send polls. A client
peeks, handles and wastes all there is (own queue), or peeks exclusively one message
(shared queue). `wasteAfterPeekExclusive` takes out everything before the oldest
outstanding message (`reduction`). Exceptions skip the waste. `Stop` sets `stopped_`;
threads then leave their loop and drain. `size` is a `size_t`: additions and subtractions
(`Back`) wrap. The histories `given` and `again` hold, for each queue, the messages a client
was given and those a client was given once more. `PeekAssertion` is the `assert` of
`peekExclusive`. `BlockingInv`, at the end, is the inductive invariant of section 5.

### ReliableMulticast

The sending engine of `tips/rmcast` with its backup server and sessions (`tips/reliable`),
and the receiving engines. Messages are numbered by their place in the sender's ring;
`readSeq[0]` and `readSeq[1]` are its two cursors.

* One round of the sending engine (`runOnce`) is a sequence of steps, `spc` says where it
  is: `BeginRun` (start of sending, `doAccept`), then `Serve` for each session (`doRead`,
  the rest of a partial write, then request after request with `Progress` or `Resend`),
  `Trail` (the backup cursor follows the slowest session, attachments are given back),
  and `resumeSend` (`ComposeFirst`, `Transmit` until nothing is left or the socket is not
  ready). Producers (`queue`) and the network interleave with these steps. `cullSlow`, a
  timer, comes between rounds. That the flush timer fired is the choice `due` in the
  first datagram of a round.
* `tx[c]` is a session: `next` is `bufItNext_`, `reqs` is `toSendQueue_`, `relic` and
  `after` are the unsent rest of a batch and `bufIt_`. A batch holds pointers into the
  ring, so what is written is what the slot holds at that time (`InSlotOf`).
* `rx[c]` is the receiver's side: `min` and `expecting` (the arbiter's number), the last
  message of the pending gap, and `out`, the messages handed over. `held` is the datagram
  a receiver has to come back to (`resumeRead` returns on 0 and keeps its buffer).
* The network: a datagram in `sent` may reach a receiver at any later time, any number of
  times, in any order or never. `up` and `down` are the two directions of a connection,
  which keep order until the connection is `cut`; writes may be partial. `Break` cuts a
  connection, `Hang` stops a receiver whose kernel keeps its connection open.

`MulticastInv`, near the end, is the inductive invariant of section 5.
* Advertisements carry no state of their own: `HandleAd` may happen whenever a receiver
  has no session. The gap function of `SeqArb` cannot be reached here, as the code says:
  the backup line only ever presents the expected number. A receiver's subscriptions are
  those of the moment it connects. `initializeConn` comes before the first read: both
  become ready in the same poll at the latest.
* A memory attachment is one message here, not a train of segments. Because a segment
  takes two entries of a `sendmsg`, a batch may hold fewer messages than fit otherwise;
  `Resend` therefore takes any number up to ReplyBatch.

### ContextLife

`start()` of a broadcast Context reserves an index of the ring per client and kicks off
its thread; the thread runs rounds of `runOnceImpl` until its client throws or the
Context stops, then drains, calls `droppedCb` and gives its index back. All of this, for
two Contexts that share a ring, is one record per user thread (`cxUser`) and per client
(`cxC`), with the point in the code each has reached. The file lock is held as the
code holds it: around the reservation, not around the exit of clients. A start that runs
out of indexes gives back what it had reserved. The ring is the number of messages in it
and the cursors; `MemRingBuffer` has the steps inside `peek`, `reset` and `purge`.

Assumed, because the code requires it or goes wrong without it (section 6): the user
joins a Context before the creator of the transport is destroyed; the purge period is
longer than a `start()` or a round of a client that is not slow; the index of a slow
client that was purged is not given to a later one; threads are run by the Context.

### RtContext and OverwritingRing

`RtContext` is `BlockingContextRt` over `BlockingBufferRt`: one step per critical section,
the notification after the mutex was released being a step of its own. A full queue pushes
its oldest out. `rtStore`, `rtSize` and `rtSeq` are the ring; the histories `rtLog`,
`rtTaken` and `rtPushed` account for every item: taken, pushed out, or still there. The
transports a message visits are sets put in the order of registration (`RtInOrder`).

`OverwritingRing` is `MemRingBufferRt` with readers that copy an item word by word, and
look at its number before and after; writers mark a slot UPDATING, copy, and publish.
Two writers that are a whole round apart work on the same slot at once and may tear an
item without a trace (`ovLapped`); `OvNoTornItem` is stated for the others. `OvInv`, at the end of the module, is
the inductive invariant of section 5.

### ThreadPool

Each pool thread has a cursor of the broadcast ring and a queue of the consumers it
serves; several threads may offer a consumer the same message, and `nextSeq_`, with two
sentinels, decides. A round of a thread (`PoThreadStep`) is one step per access to that
word. Exceptions, `droppedCb` by the last thread that gives a consumer up, consumers put
back, tasks without interest in messages (`PoolMinusImpl`), the start of the threads on
fresh or used slots, and stop are modelled. `poLate` marks a consumer added or resumed
while the pool stops, whose `droppedCb` the code does not call. `PoSafety` is proved
(section 5).

### Dispatch

Senders put a message into one slot or, with an in-band attachment, into a head and
segments; the client's thread hands each slot of a batch to the dispatcher, which finds the
interest by walking the sorted list or, above 16 interests, by binary search; attachments
are put together across batches; `batchDone`, exceptions and the stash cut in between.

### Tcpcast and Udpcast

`Tcpcast` has the sending engine (`queue`, grouping by type into batches of pointers,
serving sessions, releasing what the slowest has passed, culling), and the receiving ones
(connect on advertisement, send subscriptions, refresh). A message travels as units, head
with payload and attachment, and a send may stop between them. `tcLostSub` marks a
subscription that was made between a refresh and the clearing of its flag, which the code
loses.

`Udpcast` packs peeked messages into datagrams of iovecs and sends them to every destination
once: what a destination refuses, wholly or in part, is not sent again. Only while the socket
is not writable does the engine keep what it has packed for a later call; a refusal of the
rate limiter sends what is packed so far and puts off packing the rest. The receiver cuts datagrams and has to come back when its output buffer is
full.

### TipsDomain and ShmTransport

`TipsDomain` composes what the other modules promise: nodes publish by tag; copies go to
the nodes of the process, to the ring of the host, and to the network; pumps read the
ring and hand over to their process's nodes; subscription counts (`tiOut`) live in shared
memory and decide the reference count of an attachment there. A process may leave, which
takes two steps (`TiStop`: its pumps drain the ring and read no more; `TiLeave`: their
`droppedCb` takes the counts back and they leave the ring), or crash. `ShmTransport` is how processes get at the shared memory at all, one system call
per step, with failures retried after a second, owners that leave or crash, and the
attachments' pool as the sign that the ring is ready.

### Epoll, SeqArb

`Epoll` is one step per access to the shared wish to poll and to a socket's flag, with
two pollers. `SeqArb` is one step per access to the expected number and to the other
participants' entries; `SingleThreadSeqArb` is the setting in which calls do not overlap.

### Timers, Rater, Histogram

`Timers` is `TimerManager::checkTimers` with callbacks that schedule, cancel or throw, one
callback per step, and the time a BlockingContext waits. `Rater` is the token bucket with
its callers. `Histogram` computes `report()` in one pass as the code does and compares it
with percentiles counted from the samples.

### Bag, PingPong, ChildIo

`Bag` records pieces into a file, which a crash may cut off anywhere, and plays them in a
console or a simulation. `PingPong` is the latency tool with its nodes' threads and main
threads. `ChildIo` is a child whose two streams are read line by line.

### MC modules

`MCMemRingBuffer`, `MCPartitionRing`, `MCBlockingContext` and `MCReliableMulticast` add
only what TLC needs: permutation sets for symmetry, the two deployments of
BlockingContext's clients, the connections of the multicast receiver with their
subscriptions, the constraint `Undisturbed`, and the ring without its purger
(`ThreadsSpec`; `MCQueues` has the one with it). Symmetry is used in safety runs only, over
sender or consumer threads that the modules treat alike.

`MCQueues`, `MCContexts`, `MCServices` and `MCTransports` are sums: `queue` or `running`
names the one component a behaviour is about, the others stay at rest. Components that
are parameterised by a setting choose it in `Init` from the settings written out in the MC
module, each with the case it is there for. The properties of one component are gathered in
a conjunction of named parts (`CxSafety` and so on); what a component leads to in the end
is `XxSettled`, and the sums assert `<>[]` of it for all, next to the parts that are
properties of steps.

## 4. Runs

| Run | Module, configuration | Shows |
|---|---|---|
| ring_safe | `MCMemRingBuffer`, `MCRing_safe` | With `put`, `tryPut`, `killPut` and their batch forms racing, one client reading and one joining: types, `RingInv`, `NothingLost`, `NoDataRace`, and the refinement of `BroadcastLog` |
| part_safe | `MCPartitionRing`, `MCPart_safe` | All ways of reading and writing, exceptions and late starts: `NothingLost`, `NoneTwice`, `SlotsExclusive`, and the inductive invariant `PartInv` |
| blk_safe | `MCBlockingContext`, `MCBlk_safe` | Own and shared queues, exceptions, stop: `QueueInv` (what was peeked stays put, nothing is skipped), `OneAndOnlyOne`, `NobodySleepsInVain`, and the inductive invariant `BlockingInv` |
| queues | `MCQueues`, `MCQueues` | Liveness of the three queues: everything sent is handled, every call returns; a ring with a purger and clients that may stop anywhere implements `BroadcastLog` and does not stay full |
| rm_safe | `MCReliableMulticast`, `MCRm_safe` | Loss, repetition, reordering, partial writes and a reconnection with fewer subscriptions: `InOrderOnce`, `NeverBadData`, `Recoverable`, `AttachmentKept` |
| rm_live | `MCReliableMulticast`, `MCRm_live` | Both settings of `waitForSlowReceivers`, a receiver that may hang or be cut off: `GapInv` (the inductive invariant `MulticastInv`, and no gap request forgotten); what was multicast arrives and the ring does not stay full (`CatchUpAndRoom`) |
| contexts | `MCContexts`, `MCContexts` | `CxSafety`: a client is alone on its index, every index is free or accounted for, messages are handled consecutively, none is overwritten while live clients need it. `RtSafety`: every item accounted for, one delivery per queue, no sleeper forgotten, a client dropped once. `DiSafety`: the right callback, none passed over, in order. `ContextGuarantees`: a client that left stays gone, the latest message is kept, calls of send and join return, clients are served |
| services | `MCServices`, `MCServices` | `PoSafety`, `OvSafety`, `TmSafety`, `RaSafety`, `EpSafety`, `SaSafety`, `HiSafety`, `BgSafety`, `PpSafety`, `IoSafety`, each described in its module, and `ServiceGuarantees`: readers of the overwriting ring go forward and miss only what was overwritten, timers fire as owed, and every component gets done |
| transports | `MCTransports`, `MCTransports` | `TcSafety`, `UdSafety`, `TiSafety`, `ShSafety`: order, whole messages, counts of subscribers and references, memory constructed before use; `TransportGuarantees`: what was sent arrives where it can, what travelled is given back, all processes get up |
| ring_purgedead, part_trybatch, part_reset | `MCRing_purgedead`, `MCPart_trybatch`, `MCPart_reset` of their rings | disagreements between the code and its documentation, section 6 |

**Bounds.** A ring or queue of two slots is the smallest in which a batch fills it, a
batch is half published, and a second lap overwrites a slot. MaxSeq (3 or 4) lets the
numbers go once round the ring and on into the second lap. Two senders and two clients
give every pairwise race; for the safety of the components of section 5 the proofs remove
all these bounds. SEQ_MAX of 2000 keeps the dead range (CAPACITY + 1000 wide) apart from
the live one. SIZE_MAX of 15 leaves room for a wrapped `size_` to be told from a real one.
`part_safe` calls `tryClaim` with n = 1 (MaxTryBatch): larger n is the subject of
part_trybatch.

In rm_safe three messages pass through a ring of two slots, one of which holds replay
history, so a slot is rewritten while an old session, a new one and late datagrams still
refer to earlier messages. Only the first connection breaks (MayBreak), which bounds the
reconnections; the first message has the tag that the second connection does not
subscribe to (Script), which forces a flush in its place. At most one report of the timer
is on a connection at a time (UpCap), with a gap request behind it. rm_live has one
message and a ring of one slot: a lost message is a gap nothing follows, the ring is full
until the receiver reports, and two requests overflow the queue of a session.

The sums work on settings, listed in the MC modules: contexts has two Contexts with up to
three clients on a ring of two indexes (one start must fail), four messages on two slots,
and the purger in four of seven settings; queues of one and two items for RtContext, which
overflow; dispatch with attachments of up to six segments on a ring of four slots, and one
client of 17 interests, past the limit of the linear search. services has two pool threads
with two consumers and a task on three slots; two writers and a reader on two slots of the
overwriting ring, up to four items; three timers of all kinds over two days; two sockets and
two pollers; two or three feeds with holes; bags of four messages with and without
attachments; up to three ping-pong processes. transports has one or two receivers with one
or two connections on a ring of two; up to five messages in datagrams of up to three units;
up to three processes on one or two hosts with one or two tags; three processes at the
shared memory. A setting is there for a case: each is introduced by a comment.

**Where checking stops.** `Undisturbed` in part_safe stops following states after a reset
under running clients, which part_reset is about. TLC's deadlock check is off where the
system may stop: the numbers are used up and clients are off, dead or left (ring runs), a
`take` waits for a number another client has taken (part_safe), the Context is stopped
(blk_safe), or everything has been sent and all threads have ended (the sums).
`PurgedNext` treats a client that is marked dead between the two reads of one peek as
crashed there; the other outcome is ring_purgedead. Clients on the rings are assumed not to
call `batchDone()`, which asks for the rest of a batch to be skipped; Dispatch has it.

**Fairness.** Sender and client threads are spinning or polling loops that the operating
system keeps running: weak fairness on each thread's steps. In the partition ring a
consumer's compare-and-swap may fail because the other consumer succeeded, and may fail
spuriously; it gets strong fairness, for one that is tried again and again while the
cursor stands still succeeds. In the BlockingContext sleepers in `waitItem` wake up
after `maxBlockingTime` at the latest; sleepers in `put` have no timeout and get no
fairness beyond a notification. With a purger only the senders and the purger are fair:
clients may stop anywhere. Nobody is ever obliged to call send, to join, throw, leave or
stop. In the multicast, the sending engine and a receiver that does not hang are polling
loops (weak fairness on `SenderStep` and `RecvWork`). What depends on the network or a
timer gets strong fairness on the attempt: a socket tried again and again takes something,
an alert multicast again and again arrives at last, a timer that is due between rounds
fires, the rate limiter, refilled by time, lets a message pass. No datagram with messages
is assumed to arrive. In the other modules the threads and loops of the code get weak
fairness, time passes (Timers, Rater, Bag), and the timer of the tcpcast engine, which is
only looked at between rounds, strong fairness. Where one weak fairness stands for all
threads together (ContextLife, TipsDomain, ShmTransport, Bag) less is assumed than fairness
to each of them: only that the system does not stop while one of them can go on. Users are
not obliged to subscribe, stop or leave. A stuck receiver of tcpcast or a slow client of a Context owes nothing.

**Mutants.** For every property of every passing run `PROJECT.json` names a plausible
slip in the code (a plain store for a compare-and-swap, `if` for `while`, a test after
the update, `commit(it)` for `commit(it, n)`) as an operator next to the original, under
which TLC finds the property violated.

## 5. Proofs

Proved by TLAPS, for any numbers of senders, clients, Contexts, pool threads, receivers,
connections, sockets, pollers and participants, any capacity and any mix of calls:

| Theorem | Module | Says |
|---|---|---|
| `TypeCorrect` | `MemRingBuffer_proofs` | `Spec => []TypeOK`: also that cursors and counts stay in their unsigned range |
| `RingCorrect` | `MemRingBuffer_proofs` | `Spec => []RingInv` |
| `MessagesKept` | `MemRingBuffer_proofs` | `Spec => []NothingLost` |
| `SlotsExclusive` | `MemRingBuffer_proofs` | `Spec => []NoDataRace` |
| `RingImplementsLog` | `MemRingBuffer_proofs` | `Spec => ImplementsBroadcastLog` |
| `PartTypeCorrect` | `PartitionRing_proofs` | `Spec => []TypeOK` |
| `PartInductive` | `PartitionRing_proofs` | `Spec => [](TypeOK /\ PartInv)` (here and below: `MaxTryBatch <= 1`) |
| `PartNothingLost` | `PartitionRing_proofs` | `Spec => []NothingLost` |
| `PartNoneTwice` | `PartitionRing_proofs` | `Spec => []NoneTwice` |
| `PartSlotsExclusive` | `PartitionRing_proofs` | `Spec => []SlotsExclusive` |
| `BlockingInductive` | `BlockingContext_proofs` | `Spec => []BlockingInv` |
| `QueuesKeep` | `BlockingContext_proofs` | `Spec => []QueueInv` |
| `SharedOnce` | `BlockingContext_proofs` | `Spec => []OneAndOnlyOne` |
| `NoLostWakeup` | `BlockingContext_proofs` | `Spec => []NobodySleepsInVain` |
| `PeekAsserted` | `BlockingContext_proofs` | `Spec => []PeekAssertion` |
| `CxBase` | `Contexts_proofs` | `CxSpec => []CxBaseInv` |
| `CxDropsOnce` | `Contexts_proofs` | `CxSpec => CxGoneForGood`, a property of steps |
| `CxSafe` | `Contexts_proofs` | `CxSpec /\ CxOrderly => []CxSafety` |
| `PoServes` | `Contexts_proofs` | `PoSpec => []PoSafety` |
| `MulticastInductive` | `ReliableMulticast_proofs` | `Spec => []MulticastInv` |
| `HandsOverInOrder` | `ReliableMulticast_proofs` | `Spec => []InOrderOnce` |
| `NobodyThrownOut` | `ReliableMulticast_proofs` | `Spec => []NeverBadData` |
| `NothingOverwritten` | `ReliableMulticast_proofs` | `Spec => []Recoverable` |
| `AttachmentsKept` | `ReliableMulticast_proofs` | `Spec => []AttachmentKept` |
| `GapsAreCovered` | `ReliableMulticast_proofs` | `Spec => []GapInv` |
| `OvInductive` | `Overwriting_proofs` | the inductive invariant `OvInv` |
| `OvItemsWhole` | `Overwriting_proofs` | `OvSpec => []OvSafety` |
| `OvInOrder` | `Overwriting_proofs` | `OvSpec => OvReads`, a property of steps |
| `RtAccounts` | `Overwriting_proofs` | `RtSpec => []RtSafety` |
| `RtKeepsLatest` | `Overwriting_proofs` | `RtSpec => RtLatestKept`, a property of steps |
| `EpNeverForgets` | `Services_proofs` | `EpSpec => []EpSafety` |
| `SaArbitrates` | `Services_proofs` | `SaSpec => []SaSafety` |
| `PpMeasures` | `Services_proofs` | `PpSpec => []PpSafety` |
| `ShConstructed` | `Services_proofs` | `ShSpec => []ShSafety` |

**Assumptions.** Those of the modules (`RingAssumption`, `PartitionAssumption`,
`BlockingAssumption`, `CxAssumption`, `PoAssumption`, `MulticastAssumption`, `OvAssumption`, `RtAssumption`, `EpAssumption`,
`SaAssumption`, `PpAssumption`, `ShAssumption`): sizes and
batches are positive, queues and clients of a BlockingContext are finitely many, counters
have room for the numbers in use, a connection subscribes to something (a receiver
connects to a sender only for a type both have, `RecvTransportEngine`), a client is given to
one `start()` of one Context, a ring that is not in shared memory has one Context, one
process of the ping-pong tool pings, the threads of a pool have different slots of the ring,
a consumer of the pool that wants messages has a thread of its affinity (only one if its
start callback throws), and the consumers fill at most half a queue (`addConsumer`
throws beyond that).

Theorems of the partition ring assume that `tryClaim` is asked for one slot at a
time. That is necessary: run part_trybatch shows what happens otherwise. `CxSafe` assumes
`CxOrderly`: no client takes longer than a purge period for a round and the transport's
creator is not destroyed while others use it. Otherwise the purger marks an index whose
client still has messages in its hands; the next `start()` takes that index, and when the
slow client returns, its `wasteAfterPeek` moves the new client's cursor (section 6).
`CxBase` and `CxDropsOnce` need no such assumption. The numbers of
messages (`MaxSeq`) and of slots are arbitrary, not fixed. `RingArithmetic` has the two
facts about remainders that all rings need.

None of the safety properties is inductive: what makes a step safe is a check that the
thread made some steps before, under a state that has changed since. The inductive
invariants say what such a check is still worth. TLC checks `RingInv`, `PartInv`,
`BlockingInv` and `MulticastInv` in the runs ring_safe, part_safe, blk_safe and rm_live. It
also finds `MulticastInv` true on the larger instance of rm_safe, which takes half as long
again as that run and is not one of the runs.

**Broadcast ring.** That a sender may write depends on a check it made cursor by cursor, and
that its numbers are free on what all other senders have claimed. `RingInv` adds

* `ClaimInv`, `DisjointInv`: claims are non-empty ranges of at most CAPACITY numbers
  below the counter, and no number is claimed twice;
* `HeaderInv`: a header holds a number of its own slot which was claimed and published;
* `GuardInv(c)`, for a cursor that holds the ring back (`Guards`, which includes a cursor
  between the load and the store of its reset): unpublished numbers are at or above it;
  senders past their check of it are within one lap of it; published numbers above it
  are whole in their slots and within that lap;
* `RangeInv(c)`: the range a client peeked starts at its cursor and is published.

The arithmetic core is `IdxApart`: two numbers less than one lap apart share no slot. It
turns "within one lap" into "another slot" in the steps that write (`GrantedInv`,
`FillInv`, `CommitInv`). Steps are proved by groups with the same effect: steps that only
move a sender's own position (`ScanPassInv`, `PrivateInv`), claims (`ClaimStepInv`),
marking a cursor dead (`MarkDeadInv`, for leaving clients, killers and the purger), steps
within a peeked range (`PeekInv`) and steps that move a cursor (`CursorInv`).

**Refinement of `BroadcastLog`.** With `RingInv` at hand every step of the ring is matched
with one of the log: a claim announces its numbers, the step of `commit` that stores a
header publishes one, the end of a reset joins if the promise covers it, marking a member
dead leaves, handing a message over receives it, and all other steps change nothing the
mapping looks at (`LogStep`). That what a member receives is the next published message, unaltered, is
where `GuardInv` and `RangeInv` are used.

**Partition ring.** `PartInv` has three layers, because exceptions take promises away.
`ClaimInv` always holds. `CoreInv` holds unless a client threw while others were running
(then part_reset's disagreement is reachable): whoever resets is alone (`ResetInv`); headers
are published numbers of their slot (`HeaderInv`); what stands ahead of the cursor is within
a lap of it (`StandInv`); slots promised to a sender, standing, or in a consumer's hand are
different slots (`BusyInv`); what a consumer found stands as long as the cursor has not moved,
which is what its compare-and-swap tests (`RangeInv`); and what may still be read was not yet
given to anyone (`DataInv`). `WholeInv`, as long as nobody threw, adds that each slot holds
the message of its number.

**BlockingContext.** `BlockingInv` adds to types, `NothingSkipped` and `NobodySleepsInVain`:
each queue holds its last messages, each in its slot (`StoreInv`); the one client of its
own queue has peeked the oldest (`OwnInv`); of a shared queue the peeked messages are
outstanding or were given, and the oldest is outstanding (`OutstandingInv`), so that
`wasteAfterPeekExclusive` takes out what was given and no more; a client of a shared queue
has one outstanding message that no other has (`HandInv`). `DrainInv` separates the life
before the stop, for which shared queues keep all this, from the drain. For
`NobodySleepsInVain` a notification on the transitions from full and from empty alone is
enough only because it wakes all of a queue's sleepers; a client may still sleep at a queue
that is not empty as long as a sender has the notification of that transition before it.

**Reliable multicast.** Each of the four safety properties depends on what is in flight on a
connection and on how the two ends read it: a receiver counts what it reads from a
connection without looking at numbers, a session counts what the kernel took as received.
`MulticastInv` follows the data of one connection from the receiver back to the ring:

* `StreamInv`: what was handed over is what was subscribed to from the starting number up
  to the expected one; what is on the connection continues it without a hole, each message
  in its place or a flush where it is not subscribed to, and goes no further than the gap
  that is pending;
* `LinkInv`: what the session kept of a partial write continues that, and the last request
  continues the relic, up to the end of the gap;
* `AskedInv`: requests, queued or on their way, come in the order of their numbers and none
  lies behind the session's; only the last asks for messages, and the ring has them;
* `StartInv`, `StageInv`: what there is before the starting number was read, and when an
  end is not there yet or no more.

`SenderInv`, `LoopInv` and `SessInv` bound the cursors, the engine's round and the
receiver's choice of session. There is a lemma per action; they rest on lemmas that say what
a change at one end leaves alone (`ConnKept`, `Served`, `Received`, `Closed`). Only the
last request asks for messages: that is why the overflow of the circular queue, which drops
the oldest, loses nothing (`GapsAreCovered`), and why the sender's check for bad data
accepts all (`NobodyThrownOut`). `Among`, the selection of what is subscribed to, is a
recursive function; its facts (`AmongAppend`, `AmongSame`) are proved by induction over sets
of naturals (`NatSet`), from the well-foundedness of their order.

**Contexts.** `CxBaseInv` always holds: the ranges of the variables; that each thread has an
index (`CxIndexed`); that a client has no thread before the `start()` it is given to
creates it (`CxFresh`), which is why a client has one life; and that a client whose loop
still runs was not dropped (`CxOnce`). `CxOrderInv` is about the order of things:

* `CxOneStart`: as the file lock is held from the search for a dead cursor to the last
  thread's start, or a Context is alone on its ring, there is one `start()` at a time;
* `CxRunners`, `CxReserved`: the indexes of running clients and those a `start()` has
  reserved have living cursors and are all different, the one it is about to reset is dead.
  The check for a dead cursor and the reset are two steps: only that all others who could
  reset it are locked out, and that leaving clients only make cursors dead, connects them;
* `CxCursors`, `CxInHand`: living cursors are within a ring's length of the log, and what a
  client has in hand starts at its cursor;
* `CxHistory`: what a client has handled ends before its cursor, or with the message at which
  it threw and stayed, from which `CxConsecutive` follows.

**Thread pool.** What a consumer may rely on is decided by two words that its threads share,
`nextSeq_` and `droppedCount`, and by where it stands in as many queues as it has threads.
`PoInv` connects them:

* `PoPlaces`: a thread that serves a consumer has it still to come, in its queue, or in its
  hands, in one place and once, or has given it up; who was dropped is nowhere;
* `PoCounts`: `droppedCount` is the number of threads that gave the consumer up, and
  smaller than the number of its threads until it is dropped. So the thread that brings it
  to that number is the last one that had it (`PoLastAlone`), and `droppedCb` comes once and
  when nobody can touch the consumer any more;
* `PoNumbers`: `nextSeq_` is one more than the last message handled, IGNORE while exactly one
  thread handles messages, and STOP once a thread is about to give the consumer up. What
  makes the claim safe is that all three are values of one word with one compare-and-swap;
* `PoTasksOnce`: a task stands in the tasks' queue once or is in the hands of one thread;
* `PoEnds`: a thread that ends leaves nobody in its queue but consumers added while the pool
  stopped, so all others were dropped when the threads are joined.

Steps that change the same things share a lemma: taking a consumer up or putting it
back (`PoMoveKeeps`), giving it up (`PoGiveUpKeeps`), adding one (`PoFreshKeeps`), steps on
the ring's cursors (`PoSideKeeps`) and on tasks (`PoTaskStepKeeps`).

**Sequence arbiter.** `SaArbInv` ties the expected number to what is decided: all numbers
below it are hit or reported, each once (`SaProgress`), and who runs a hit or gap function,
with `SaBusy` in `seq_`, is alone and goes on from the number it took out. That a gap is a
real one depends on entries read one after the other while they and `seq_` move: `SaEntries`
says that an entry, once written, is a number its participant has come to, so a minimum
taken over entries of any age is below all that is still to be presented (`SaLows`).

**Ping-pong tool.** `PpToolInv` follows the answers of one ponger backwards. What waits at
it is in the order of publication (`PpPongersInOrder`); all its answers, those counted and
those still in the pinger's queue, are older than what it still has to answer
(`PpAnswersInOrder`); so the pinger's queue continues what was counted
(`PpRepliesInOrder`). Full queues and nodes that leave drop entries, which keeps all three.

**Overwriting ring.** `OvInv` separates what always holds (numbers are claimed once, a slot's
number was published, a reader only goes forward) from what holds unless two writers were a
round apart: one writer per slot, published slots whole, and a reader's copy is the item's
as long as the slot has kept its number, else the reader is a whole round late.

**Overwriting BlockingContext.** `RtInv` says of each transport that its log is numbered by
`seq_`, and that the newest `size_` messages of it stand in their slots (`RtLogs`); that what
is gone was taken in order or pushed out, never both (`RtOuts`); and that a call under way
visits each transport once with messages that are new there and that no other call has
(`RtCalls`). For the last the entries of a type are those under "JustBytes" and those under
the type itself, which `RealInterests` keeps apart (`RtEntriesApart`); that the lists have
no repetition follows from the order of registration (`RtInOrderLists`). `RtPushOutsAre` is
the arithmetic core: the loop of `putBatchInPlace` pushes out no more than there is and
`size_` does not wrap, as long as a range is shorter than the queue, which is what the guard
of `RtSendRange` asks (section 6 has what happens otherwise). The CHOOSE in `RtPushOuts`
has a value because a queue that is emptied takes such a range. The invariant of the sleepers
is inductive by itself, because a put that ends with exactly its own items in the queue
notifies, also when it emptied the queue by pushing out. `RtDrops` says that a thread
whose `stillIn` is false is on its way out, and that one that is not let go counts no drop.

**Epoll.** `EpSafety` with full types needs two facts more to be inductive: a reader about to
fetch the shared flag has none of its own, and a poller that has not waited has no edges.

**Shared memory.** What always holds, crashes included: who is past opening has a segment
open, and an owner has constructed its own before it goes on to the pool (`ShOwn`). The rest
of `ShSafety` is promised unless a process crashed or creates the memory afresh. Then while
an owner is there the names stand for what it created (`ShOwners`), so there is one owner at
a time; only owners created something, and a pool that can be opened is of an owner that is
up (`ShCreators`); who has attached has the pool of the owner of its segment, unless that
has left since (`ShAttached`). That an attacher finds a constructed ring follows because the
pool's name appears last and belongs to the same owner.

**Only model-checked.** The safety of the other modules, and all liveness, that of the
proved modules included: liveness and ENABLED are beyond the prover, as is induction over
data where it cannot be put as a set of naturals. That every multicast message arrives
(`CatchUpAndRoom`) is therefore checked only; `GapsAreCovered` is the safety half of it.

## 6. Findings

* **ring_purgedead**: `peek` computes its count from a second read of the cursor. Marked
  dead in between, a client gets a wrapped count and its `wasteAfterPeek` brings the dead
  cursor back into the live range.
* **part_trybatch**: `readyToWriteOver(seq, n)` tests its first slot n times, so
  `tryClaim(n)` may overwrite a slot that is being handled; the handler then frees the
  new message unread.
* **part_reset**: a client of a partition Context that ends resets the ring under the
  others; a message is handled twice.

Weaknesses met while reading, that no run is about. The models exclude them by an
assumption, by their settings or by a ghost variable that marks the case:

Rings and queues
* `reset` of the broadcast ring loads and stores in two steps. Overtaken by a lap in
  between, the cursor points at a number that no slot will hold again: the client never
  reads, the purger never takes it for stuck, and the ring is full for good.
* Load-sharing clients of a stopped BlockingContext drain their queue in two critical
  sections each; two that count the same messages take them out twice, `size_` wraps, and
  a sleeping sender is never released. Three such clients can wrap `size_` again and again.
  The properties leave these queues out (`Ours`). The assertion in `peekExclusive` fails
  when a client peeks while another has drained; `PeekAssertion` holds until the stop.
* `BlockingBufferRt`: a batch of the capacity or more underflows `size_`; the drain at exit
  does not end while senders keep sending. `start` spins for good when a thread fails before
  it has counted itself.
* `MemRingBufferRt`: an item too big for its slot leaves the slot UPDATING; `tryTake` returns
  nothing when the slot it is at is being overwritten, although newer items are there.

Contexts
* `ContextDetail` and `Context`: with queueing timestamps the iterator is advanced before
  `commit(it)` (Context.hpp:302, 429-431); `commitForSend` commits only the first of n;
  `trySend` gives an attachment back when there is no room, though its caller keeps it.
* A process that is purged or crashes while its creator's purger stops leaves its index
  reserved for good. A purged client that is only slow disturbs, when it ends, the client that
  has its index by then. The creator's destructor between another's reset and kick-off lets one
  index be reserved twice.
* `ShmAttAllocator::allocate` spins when its memory is exhausted.
* Dispatch: interests are sorted by the lower 8 bits of their tag but searched by the whole
  one, so with more than 16 interests of several blocks of 256 some are never found; a
  callback that throws on an attachment leaves the assembly open; a skipped batch cuts an
  attachment that is being assembled; the stash keeps pointers to attachments released since.
* Pool: `nextSeq_` is set before `messageDispatchingStartedCb`, so another thread may run the
  consumer's handler meanwhile; a consumer added while the pool stops is never dropped; the
  queues of threads that are not running fill up.

Transports
* Multicast: messages the engine skips because no session is left are not announced by
  alerts, so a newcomer whose replay history includes them learns of them only with the next
  message; and their attachments are never given back. `CatchUpAndRoom` speaks of messages
  that were multicast, `AttachmentKept` of too early a cleanup only.
* tcpcast: with several types the position queued for release includes the first message of
  the next batch (SendTransportEngine.hpp:302), so its slot may be reused too early;
  a subscription made while subscriptions are being refreshed is lost
  (RecvTransportEngine.hpp:161-165); `queueJustBytes` ignores that the ring is full
  (SendTransportEngine.hpp:105): the message is dropped without a word and its attachment
  never released. A dropped message changes nothing else, so in `Tcpcast`, where `TcPut`
  waits for room, it is a stuttering step. A message larger than the mtu without attachment
  blocks the queue; a closed connection is not noticed by reading.
* udpcast: slots are given back while datagrams that could not be sent point to them
  (:249); an error of `sendmmsg` advances an erased iterator (:298); `eraseDest` erases nothing.
* TIPS: the subscribers of an attachment are counted when it is sent but release it by what
  they subscribe to when they read it; one published after a stopping process has drained the
  ring is counted for it until its counts are taken back, and then never given back; counts of a process that crashed are never taken back;
  `tryPublish` of an attachment in shared memory uses it after giving it up when the ring
  is full (Domain.hpp:971-976).
* Shared memory: without an attachments' pool an attacher may use a ring that is not
  constructed yet; a stale pool has the same effect; a forced owner (ownership 1) unlinks
  the names of one that is alive.

The rest
* Timers: a timer that puts itself back for the very instant being checked moves the second
  loop past the end; scheduling a linked timer corrupts the set; a callback that throws
  leaves the fired timers unarmed until the next check. A request larger than the burst never
  passes the rate limiter. A socket destroyed while another thread polls is written to.
* SeqArb: a silent feed holds back the gaps of all. Bags: a recorded attachment is never
  released; a cut-off file may play part of a record in a simulation; the record bag is shared
  by two threads without a lock. Child I/O: a callback that throws leaves its stream unread;
  the destructor waits for good for a child that handles SIGINT and blocks on a full pipe.
  Histograms: a width that is no multiple of the count writes past the last bucket.

## 7. Not modelled

Memory ordering: accesses are sequentially consistent, which is weaker evidence than the
code's fences would need on non-x86 hardware.

Of the modelled classes: `take`, `takeReentrant` and `waste` of the broadcast ring,
`peekAll` of the partition ring, `take` and the variadic `put` of the blocking queues; the
batch call of the arbiter, which nothing uses; clients run by hand (`registerToRun`,
`runOnce`), and pool and direct clients in one `start`; pool cursors marked dead by a purger;
the segments of a multicast attachment and changes of subscription on an open multicast
connection; `stop` of the transports and the text format of requests; the manual and embedded
pumping of a Domain and `TickNode`; processes that ask for shared memory of different sizes;
console commands that publish; writing to a child's stdin. `PROJECT.json` says it for each
component.

Left out for good: forwarding wrappers, the single-threaded ring (a sequence in the
models of its users), compile-time helpers and layouts, configuration, logging, text,
clock arithmetic and OS helpers, which hold no protocol state; the command line around
the console node, the POTS facade and the examples, which add none of their own.
