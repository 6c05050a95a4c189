----------------------------- MODULE RtContext -----------------------------
(***************************************************************************)
(* hmbdc/app/BlockingContextRt.hpp over hmbdc/pattern/BlockingBufferRt.hpp:*)
(* a Context for receivers that want the latest messages.  A full queue    *)
(* never makes a sender wait: the oldest message is pushed out.            *)
(*                                                                         *)
(* One action is one critical section of a queue's mutex.  A sender visits *)
(* the conduits of its message one after the other, and the notification   *)
(* it sends once the mutex is released is a step of its own.  The names of *)
(* this module start with Rt so that it can be composed with others.       *)
(***************************************************************************)
EXTENDS Integers, Sequences, FiniteSets, SequencesExt

CONSTANTS
  RtSenders,     \* sender threads
  RtClients,     \* clients, each with a thread
  RtQueues,      \* transports, in the order of their registration (1 .. n)
  RtDeployments, \* the ways the clients may be started: the transport of each client
  RtTypes,       \* message types
  RtTrivial,     \* the trivially destructible ones among them
  RtInterests,   \* what the clients of each transport list, types or "JustBytes"
  RtPred,        \* the types each transport's DeliverPred lets through
  RtFits,        \* the types that fit into each transport's items
  RtCapacity,    \* capacity of each transport
  RtWord,        \* size_t counts modulo RtWord
  RtBatches,     \* lengths of the ranges sent
  RtMaxMsg,      \* bound: messages ever sent
  RtMayFail      \* clients whose thread may fail before it dispatches anything

ASSUME RtAssumption ==
  /\ IsFiniteSet(RtQueues) /\ RtQueues = 1 .. Cardinality(RtQueues)
  /\ RtDeployments \subseteq [RtClients -> RtQueues]
  /\ RtTrivial \subseteq RtTypes /\ "JustBytes" \notin RtTypes
  /\ RtInterests \in [RtQueues -> SUBSET (RtTypes \cup {"JustBytes"})]
  /\ RtPred \in [RtQueues -> SUBSET RtTypes]
  /\ RtFits \in [RtQueues -> SUBSET RtTypes]
  /\ RtCapacity \in [RtQueues -> Nat \ {0}]
  /\ RtBatches \subseteq Nat \ {0}
  /\ RtMaxMsg \in Nat
  /\ RtWord \in Nat /\ \A q \in RtQueues : RtWord > RtCapacity[q] + RtMaxMsg
  /\ RtMayFail \subseteq RtClients

VARIABLES
  rtServes,    \* the transport of each client; clients of one start(begin, end) share it
  rtStore,     \* the message in each slot of each transport, 0 for none
  rtSize,      \* size_ of each transport
  rtSeq,       \* seq_ of each transport
  rtLog,       \* history: every message put into the transport, in order
  rtTaken,     \* history: the messages taken from it, in order
  rtPushed,    \* history: the messages pushed out of it
  rtSender,    \* the call each sender is in
  rtSent,      \* messages sent so far
  rtSleeping,  \* clients in hasItem_.wait_for that nobody has notified
  rtThread,    \* what each client's thread is doing
  rtStillIn,   \* stillIn of each thread
  rtDropped,   \* history: droppedCb calls that let the client go
  rtStopped,   \* stopped_
  rtCounted,   \* the threads in dispStartCount_
  rtInStart    \* the threads the caller of start waits for

rtQueueVars == <<rtStore, rtSize, rtSeq, rtLog, rtTaken, rtPushed>>
rtSendVars == <<rtServes, rtQueueVars, rtSender, rtSent>>
rtCtxVars == <<rtStopped, rtCounted, rtInStart>>
rtDropVars == <<rtStillIn, rtDropped>>
rtThreadVars == <<rtSleeping, rtThread, rtDropVars, rtCtxVars>>
rtVars == <<rtSendVars, rtThreadVars>>

\* Transports of registerToRun that the user runs with runOnce.
RtManual == RtQueues \ {rtServes[c] : c \in RtClients}

RtIdle == [pc |-> "idle", todo |-> <<>>, msgs |-> <<>>, how |-> "put"]

-----------------------------------------------------------------------------
(***************************************************************************)
(* Conduits: where a message goes.                                         *)
(***************************************************************************)
\* RealInterests: with JustBytes on the list only the types that cannot travel as
\* bytes are registered besides it.
RtRealInterests(q) ==
  IF "JustBytes" \in RtInterests[q]
  THEN {"JustBytes"} \cup (RtInterests[q] \ RtTrivial)
  ELSE RtInterests[q]

\* registerToRun has set up the conduits, by itself or in a start.
RtRegistered(q) == q \in RtManual \/ \E c \in RtClients : rtServes[c] = q /\ rtThread[c] # "new"

\* setupConduit: the transports a type has an entry for.
RtEntries(t) == {q \in RtQueues : RtRegistered(q) /\ t \in RtRealInterests(q)}

\* The entries of a type are visited in the order of registration.
RtInOrder(entries) ==
  CHOOSE s \in [1 .. Cardinality(entries) -> entries] : \A i, j \in DOMAIN s : i < j => s[i] < s[j]

\* send, trySend and the range send ask DeliverPred, the in-place ones do not.
RtFiltered(entries, t, pred) == RtInOrder({q \in entries : pred => t \in RtPred[q]})

\* justBytesSend throws at the first transport whose items are too small.
RtUntilTooSmall(entries, t) == {q \in entries : \A p \in entries : p <= q => t \in RtFits[p]}

RtThrows(t) == t \in RtTrivial /\ \E q \in RtEntries("JustBytes") : t \notin RtFits[q]

\* The transports a message of type t visits: JustBytes conduits first, then its own;
\* an exception of the former keeps it from the latter.
RtTargets(t, pred) ==
  LET asBytes == IF t \in RtTrivial THEN RtUntilTooSmall(RtEntries("JustBytes"), t) ELSE {}
      typed == IF RtThrows(t) THEN {} ELSE RtEntries(t)
  IN RtFiltered(asBytes, t, pred) \o RtFiltered(typed, t, pred)

\* sendJustBytesInPlace: applyJustBytes of every conduit whose type tag matches; bytes
\* that do not fit are cut.
RtBytesTargets(t) ==
  RtFiltered(RtEntries("JustBytes"), t, TRUE)
    \o RtFiltered(IF t \in RtTrivial THEN RtEntries(t) ELSE {}, t, TRUE)

-----------------------------------------------------------------------------
(***************************************************************************)
(* Senders.                                                                *)
(***************************************************************************)
RtCall(s, n, targets, how) ==
  /\ rtSender[s].pc = "idle"
  /\ rtSent + n <= RtMaxMsg
  /\ rtSent' = rtSent + n
  /\ rtSender' = [rtSender EXCEPT ![s] =
       IF targets = <<>> THEN RtIdle
       ELSE [pc |-> "put", todo |-> targets, msgs |-> [i \in 1 .. n |-> rtSent + i], how |-> how]]
  /\ UNCHANGED <<rtServes, rtQueueVars, rtThreadVars>>

RtSend(s, t) == RtCall(s, 1, RtTargets(t, TRUE), "put")
RtSendInPlace(s, t) == RtCall(s, 1, RtTargets(t, FALSE), "put")
RtTrySend(s, t) == RtCall(s, 1, RtTargets(t, TRUE), "try")
RtTrySendInPlace(s, t) == RtCall(s, 1, RtTargets(t, FALSE), "try")

\* The range is shorter than the queues it goes to: a longer one wraps size_.
RtSendRange(s, t, n) ==
  /\ \A i \in DOMAIN RtTargets(t, TRUE) : n < RtCapacity[RtTargets(t, TRUE)[i]]
  /\ RtCall(s, n, RtTargets(t, TRUE), "batch")
RtSendJustBytes(s, t) == RtCall(s, 1, RtBytesTargets(t), "put")

\* How many messages are pushed out.  tryPut and tryPutInPlace push none; putInPlace pushes
\* one out of a full queue; putBatchInPlace goes on while capacity_ <= size_ + n, which
\* leaves one slot unused.
RtPushOuts(q, n, how) ==
  LET Full(k) == RtCapacity[q] <= (rtSize[q] - k + n) % RtWord
  IN CASE how = "try" -> 0
       [] how = "put" -> IF RtCapacity[q] <= rtSize[q] THEN 1 ELSE 0
       [] how = "batch" -> CHOOSE k \in 0 .. RtWord : ~Full(k) /\ \A j \in 0 .. k - 1 : Full(j)

\* getItem
RtItem(q, seq) == rtStore[q][seq % RtCapacity[q]]

\* The slots of a transport once the messages were copied into the ones that are next.
RtFilled(q, msgs) ==
  [i \in 0 .. RtCapacity[q] - 1 |->
     LET here == {j \in DOMAIN msgs : (rtSeq[q] + j - 1) % RtCapacity[q] = i}
     IN IF here = {} THEN rtStore[q][i] ELSE msgs[CHOOSE j \in here : TRUE]]

\* The sender goes on to its next transport, or returns.
RtOnward(s) ==
  IF Len(rtSender[s].todo) = 1 THEN RtIdle
  ELSE [rtSender[s] EXCEPT !.pc = "put", !.todo = Tail(@)]

\* The queue was empty, or has become so by pushing out.
RtNotifies(size, n) == size = n

\* putInPlace, putBatchInPlace, tryPut and tryPutInPlace under the mutex.
RtPut(s) ==
  LET q == Head(rtSender[s].todo)
      n == Len(rtSender[s].msgs)
      k == RtPushOuts(q, n, rtSender[s].how)
      size == (rtSize[q] - k + n) % RtWord
  IN /\ rtSender[s].pc = "put"
     /\ rtSender[s].how = "try" => rtSize[q] < RtCapacity[q]
     /\ rtPushed' = [rtPushed EXCEPT ![q] = @ \cup {RtItem(q, rtSeq[q] - rtSize[q] + j) : j \in 0 .. k - 1}]
     /\ rtStore' = [rtStore EXCEPT ![q] = RtFilled(q, rtSender[s].msgs)]
     /\ rtSeq' = [rtSeq EXCEPT ![q] = @ + n]
     /\ rtSize' = [rtSize EXCEPT ![q] = size]
     /\ rtLog' = [rtLog EXCEPT ![q] = @ \o rtSender[s].msgs]
     /\ rtSender' = [rtSender EXCEPT ![s] =
          IF RtNotifies(size, n) THEN [@ EXCEPT !.pc = "notify"] ELSE RtOnward(s)]
     /\ UNCHANGED <<rtServes, rtTaken, rtSent, rtThreadVars>>

\* tryPut finds the queue full: trySend returns false, the transports it has not visited
\* go without the message.
RtTryFails(s) ==
  /\ rtSender[s].pc = "put"
  /\ rtSender[s].how = "try"
  /\ rtSize[Head(rtSender[s].todo)] >= RtCapacity[Head(rtSender[s].todo)]
  /\ rtSender' = [rtSender EXCEPT ![s] = RtIdle]
  /\ UNCHANGED <<rtServes, rtQueueVars, rtSent, rtThreadVars>>

\* hasItem_.notify_all, after the mutex was released.
RtNotify(s) ==
  /\ rtSender[s].pc = "notify"
  /\ rtSleeping' = {c \in rtSleeping : rtServes[c] # Head(rtSender[s].todo)}
  /\ rtSender' = [rtSender EXCEPT ![s] = RtOnward(s)]
  /\ UNCHANGED <<rtServes, rtQueueVars, rtSent, rtThread, rtDropVars, rtCtxVars>>

-----------------------------------------------------------------------------
(***************************************************************************)
(* Client threads.                                                         *)
(***************************************************************************)
RtGo(c, pc) == rtThread' = [rtThread EXCEPT ![c] = pc]

\* After start(c) the caller spins until dispStartCount_ has reached the number of
\* threads; start(begin, end) does not wait.
RtAwaited(group, started) == IF Cardinality(group) = 1 THEN started \cup group ELSE {}

\* start: register the transport and create a thread for each of its clients.
RtStart(q) ==
  LET group == {c \in RtClients : rtServes[c] = q}
      started == {c \in RtClients : rtThread[c] # "new"}
  IN /\ group # {} /\ group \cap started = {}
     /\ rtInStart \subseteq rtCounted
     /\ \A s \in RtSenders : rtSender[s].pc = "idle"
     /\ rtThread' = [c \in RtClients |-> IF c \in group THEN "created" ELSE rtThread[c]]
     /\ rtInStart' = RtAwaited(group, started)
     /\ UNCHANGED <<rtSendVars, rtSleeping, rtDropVars, rtStopped, rtCounted>>

\* The thread is configured and counted, and messageDispatchingStartedCb is called.
RtBegin(c) ==
  /\ rtThread[c] = "created"
  /\ rtCounted' = rtCounted \cup {c}
  /\ RtGo(c, "loop")
  /\ UNCHANGED <<rtSendVars, rtSleeping, rtDropVars, rtStopped, rtInStart>>

\* messageDispatchingStartedCb throws: the thread ends, and stays counted.
RtBeginThrows(c) ==
  /\ c \in RtMayFail
  /\ rtThread[c] = "created"
  /\ rtCounted' = rtCounted \cup {c}
  /\ RtGo(c, "done")
  /\ UNCHANGED <<rtSendVars, rtSleeping, rtDropVars, rtStopped, rtInStart>>

\* schedSpec or configureCurrentThread throws: the thread ends and is not counted.
RtBeginFails(c) ==
  /\ c \in RtMayFail
  /\ rtThread[c] = "created"
  /\ RtGo(c, "done")
  /\ UNCHANGED <<rtSendVars, rtSleeping, rtDropVars, rtCtxVars>>

\* while (!stopped_ && ...)
RtLoop(c) ==
  /\ rtThread[c] = "loop"
  /\ RtGo(c, IF rtStopped THEN "drain" ELSE "take")
  /\ UNCHANGED <<rtSendVars, rtSleeping, rtDropVars, rtCtxVars>>

\* tryTake with an item: copy it out.
RtTakeFrom(q) ==
  /\ rtSize[q] > 0
  /\ rtTaken' = [rtTaken EXCEPT ![q] = Append(@, RtItem(q, rtSeq[q] - rtSize[q]))]
  /\ rtSize' = [rtSize EXCEPT ![q] = @ - 1]
  /\ UNCHANGED <<rtServes, rtStore, rtSeq, rtLog, rtPushed, rtSender, rtSent>>

RtTakeInto(c, pc) ==
  /\ RtTakeFrom(rtServes[c])
  /\ RtGo(c, pc)
  /\ UNCHANGED <<rtServes, rtDropVars, rtCtxVars>>

\* runOnce for a transport of registerToRun: its stopped is a local that is never set.
RtRunOnce(q) ==
  /\ q \in RtManual
  /\ RtTakeFrom(q)
  /\ UNCHANGED rtThreadVars

\* The predicate holds on entry, or when the sleeper is notified or its time is over.
RtTryTake(c) ==
  /\ rtThread[c] \in {"take", "asleep"}
  /\ rtSleeping' = rtSleeping \ {c}
  /\ RtTakeInto(c, "handle")

\* hasItem_.wait_for with an empty queue: on entry, or notified for an item somebody
\* else has taken.
RtSleep(c) ==
  /\ rtThread[c] \in {"take", "asleep"}
  /\ c \notin rtSleeping
  /\ rtSize[rtServes[c]] = 0
  /\ rtSleeping' = rtSleeping \cup {c}
  /\ RtGo(c, "asleep")
  /\ UNCHANGED <<rtSendVars, rtDropVars, rtCtxVars>>

\* maxBlockingTime or the next timer ends the wait; invokedCb(0).
RtTimeout(c) ==
  /\ rtThread[c] = "asleep"
  /\ rtSize[rtServes[c]] = 0
  /\ rtSleeping' = rtSleeping \ {c}
  /\ RtGo(c, "loop")
  /\ UNCHANGED <<rtSendVars, rtDropVars, rtCtxVars>>

\* The handler and invokedCb return.
RtHandle(c) ==
  /\ rtThread[c] = "handle"
  /\ RtGo(c, "loop")
  /\ UNCHANGED <<rtSendVars, rtSleeping, rtDropVars, rtCtxVars>>

\* A callback throws.  Once the Context is stopped the exception is swallowed and the
\* loop ends by itself; before that stoppedCb and droppedCb decide.
RtThrow(c, goes) ==
  /\ rtThread[c] = "handle"
  /\ ~rtStopped
  /\ rtStillIn' = [rtStillIn EXCEPT ![c] = ~goes]
  /\ rtDropped' = [rtDropped EXCEPT ![c] = IF goes THEN @ + 1 ELSE @]
  /\ RtGo(c, IF goes THEN "out" ELSE "loop")
  /\ UNCHANGED <<rtSendVars, rtSleeping, rtCtxVars>>

\* The loop has ended with stillIn false: only a stop that has come meanwhile drains.
RtOut(c) ==
  /\ rtThread[c] = "out"
  /\ RtGo(c, IF rtStopped THEN "drain" ELSE "done")
  /\ UNCHANGED <<rtSendVars, rtSleeping, rtDropVars, rtCtxVars>>

\* do { tryTake } while (more)
RtDrain(c) ==
  /\ rtThread[c] = "drain"
  /\ UNCHANGED rtSleeping
  /\ RtTakeInto(c, "drain")

\* Mutant of RtLastDrop: droppedCb whatever stillIn says.
RtLastDropAlways(c) == 1

\* if (stillIn) c.dropped(): here the answer does not matter.
RtLastDrop(c) == IF rtStillIn[c] THEN 1 ELSE 0

RtDrained(c) ==
  /\ rtThread[c] = "drain"
  /\ rtSize[rtServes[c]] = 0
  /\ rtDropped' = [rtDropped EXCEPT ![c] = @ + RtLastDrop(c)]
  /\ RtGo(c, "done")
  /\ UNCHANGED <<rtSendVars, rtSleeping, rtStillIn, rtCtxVars>>

\* stop, called when every start has been; senders may go on.
RtStop ==
  /\ ~rtStopped
  /\ \A c \in RtClients : rtThread[c] # "new"
  /\ rtStopped' = TRUE
  /\ UNCHANGED <<rtSendVars, rtSleeping, rtThread, rtDropVars, rtCounted, rtInStart>>

-----------------------------------------------------------------------------
RtInit ==
  /\ rtServes \in RtDeployments
  /\ rtStore = [q \in RtQueues |-> [i \in 0 .. RtCapacity[q] - 1 |-> 0]]
  /\ rtSize = [q \in RtQueues |-> 0]
  /\ rtSeq = [q \in RtQueues |-> 0]
  /\ rtLog = [q \in RtQueues |-> <<>>]
  /\ rtTaken = [q \in RtQueues |-> <<>>]
  /\ rtPushed = [q \in RtQueues |-> {}]
  /\ rtSender = [s \in RtSenders |-> RtIdle]
  /\ rtSent = 0
  /\ rtSleeping = {}
  /\ rtThread = [c \in RtClients |-> "new"]
  /\ rtStillIn = [c \in RtClients |-> TRUE]
  /\ rtDropped = [c \in RtClients |-> 0]
  /\ rtStopped = FALSE
  /\ rtCounted = {}
  /\ rtInStart = {}

RtSenderStep(s) == RtPut(s) \/ RtTryFails(s) \/ RtNotify(s)

RtAnyCall(s) ==
  \/ \E t \in RtTypes : \/ RtSend(s, t) \/ RtSendInPlace(s, t)
                        \/ RtTrySend(s, t) \/ RtTrySendInPlace(s, t)
                        \/ RtSendJustBytes(s, t)
  \/ \E t \in RtTypes, n \in RtBatches : RtSendRange(s, t, n)

\* Steps a client's thread takes by itself.
RtClientStep(c) ==
  \/ RtBegin(c) \/ RtBeginThrows(c) \/ RtBeginFails(c)
  \/ RtLoop(c) \/ RtTryTake(c) \/ RtSleep(c)
  \/ RtHandle(c) \/ RtOut(c) \/ RtDrain(c) \/ RtDrained(c)

RtNext ==
  \/ \E s \in RtSenders : RtAnyCall(s) \/ RtSenderStep(s)
  \/ \E c \in RtClients : RtClientStep(c) \/ RtTimeout(c)
  \/ \E c \in RtClients, goes \in BOOLEAN : RtThrow(c, goes)
  \/ \E q \in RtQueues : RtStart(q) \/ RtRunOnce(q)
  \/ RtStop

RtSpec == RtInit /\ [][RtNext]_rtVars

\* Threads are scheduled and waits end when their time is over.  Nobody owes a send, a
\* start, an exception or a stop.
RtFairness ==
  /\ \A s \in RtSenders : WF_rtVars(RtSenderStep(s))
  /\ \A c \in RtClients : WF_rtVars(RtClientStep(c)) /\ WF_rtVars(RtTimeout(c))

-----------------------------------------------------------------------------
(***************************************************************************)
(* Properties.                                                             *)
(***************************************************************************)
\* Types of the variables.
RtTypeOK ==
  /\ \A q \in RtQueues : /\ rtStore[q] \in [0 .. RtCapacity[q] - 1 -> 0 .. RtMaxMsg]
                          /\ rtSize[q] \in 0 .. RtCapacity[q]
  /\ rtSeq \in [RtQueues -> 0 .. RtMaxMsg]
  /\ rtSent \in 0 .. RtMaxMsg
  /\ rtSleeping \subseteq RtClients
  /\ rtThread \in [RtClients ->
       {"new", "created", "loop", "take", "asleep", "handle", "out", "drain", "done"}]
  /\ rtStillIn \in [RtClients -> BOOLEAN]
  /\ rtStopped \in BOOLEAN
  /\ rtCounted \subseteq RtClients

RtQueued(q) == [i \in 1 .. rtSize[q] |-> RtItem(q, rtSeq[q] - rtSize[q] + i - 1)]

\* Every message put into a transport was taken by exactly one of its clients, in order,
\* or pushed out, or is still queued, and what is queued are the newest messages in their
\* order: the arithmetic of size_, seq_ and the slots never hands out a wrong item.
RtAccounted ==
  \A q \in RtQueues :
    LET log == rtLog[q]
        Pos(m) == CHOOSE i \in DOMAIN log : log[i] = m
    IN /\ RtQueued(q) = SubSeq(log, Len(log) - rtSize[q] + 1, Len(log))
       /\ ToSet(rtTaken[q]) \cup rtPushed[q] \cup ToSet(RtQueued(q)) = ToSet(log)
       /\ ToSet(rtTaken[q]) \cap (rtPushed[q] \cup ToSet(RtQueued(q))) = {}
       /\ \A i, j \in DOMAIN rtTaken[q] : i < j => Pos(rtTaken[q][i]) < Pos(rtTaken[q][j])

\* A receiver that only wants the latest messages gets them: a message is pushed out only
\* by a put after which capacity newer ones are there (one less for a range).
RtLatestKept ==
  [][\A s \in RtSenders : rtSender[s].pc = "put" /\ rtSender'[s] # rtSender[s] =>
       LET q == Head(rtSender[s].todo)
           spare == IF rtSender[s].how = "batch" THEN 1 ELSE 0
       IN \A i \in DOMAIN rtLog[q] :
            rtLog[q][i] \in rtPushed'[q] \ rtPushed[q] => i + RtCapacity[q] - spare <= Len(rtLog'[q])
    ]_rtVars

\* No transport gets a message twice, also when its clients list JustBytes next to the
\* message's own type.
RtNoDoubleDelivery ==
  \A q \in RtQueues : \A i, j \in DOMAIN rtLog[q] : rtLog[q][i] = rtLog[q][j] => i = j

\* A client sleeps at a transport that has messages only while the notification for them
\* is still to come.
RtNobodySleepsInVain ==
  \A c \in rtSleeping :
    rtSize[rtServes[c]] > 0 =>
      \E s \in RtSenders : rtSender[s].pc = "notify" /\ Head(rtSender[s].todo) = rtServes[c]

\* droppedCb lets a client go once, after which no callback of it is called, however a
\* stop and an exception meet: the client may have deleted itself.
RtDroppedOnce ==
  \A c \in RtClients :
    /\ rtDropped[c] <= 1
    /\ rtDropped[c] = 1 => rtThread[c] \in {"out", "drain", "done"}

\* Once the Context is stopped every thread that was started ends, so join returns.
RtStopEnds == rtStopped => \A c \in RtClients : rtThread[c] = "done"

\* Every message in a transport was taken or pushed out, unless the clients there have
\* ended or were never started.
RtServed ==
  \A q \in RtQueues \ RtManual :
    rtSize[q] > 0 => \A c \in RtClients : rtServes[c] = q => rtThread[c] \in {"new", "done"}

\* start returned: the threads it waits for were counted, unless one of them failed before
\* that, in which case start spins for ever.
RtStartReturns == rtInStart \subseteq rtCounted \/ rtInStart \cap RtMayFail # {}

\* What the queues and clients of a BlockingContextRt keep true: items accounted for and
\* sent once to a transport, sleepers woken, a dropped client left alone.
RtSafety == RtTypeOK /\ RtAccounted /\ RtNoDoubleDelivery /\ RtNobodySleepsInVain /\ RtDroppedOnce

\* Where start, send and stop of BlockingContextRt lead to in the end.
RtSettled == RtStopEnds /\ RtServed /\ RtStartReturns
====
