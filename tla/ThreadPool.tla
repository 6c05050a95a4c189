----------------------------- MODULE ThreadPool -----------------------------
(***************************************************************************)
(* The thread pool of a Context (pattern/PoolT.ipp, PoolConsumer.hpp and    *)
(* PoolMinusImpl.hpp).  Every pool thread reads the broadcast ring with a   *)
(* cursor of its own and has a queue of the consumers it serves.  A         *)
(* consumer is in the queue of each thread of its affinity, and all of them *)
(* offer it the messages they see; the number nextSeq_ of the consumer,     *)
(* changed by compare-and-swap, decides who delivers.  Consumers without    *)
(* interest in messages live in one queue shared by the threads             *)
(* (PoolMinusImpl).  A consumer that throws is given up by each of its      *)
(* threads; the last one calls droppedCb.                                   *)
(*                                                                          *)
(* The ring is abstracted to the numbers published so far and the cursors;  *)
(* the queues of consumers are sequences (both rings have modules of their  *)
(* own).  Assumed: no cursor of the pool is purged, and callbacks return.   *)
(***************************************************************************)
EXTENDS Integers, Sequences, FiniteSets, FiniteSetsExt, SequencesExt

CONSTANTS
  PoThreads,      \* serial numbers of the threads the pool is started with
  PoSlots,        \* slots of the ring, each with a queue of consumers
  PoConsumers,    \* consumers interested in messages
  PoTasks,        \* consumers without interest in messages
  PoSettings,     \* who is added with which affinity, whose start callback may
                  \* throw, and how the pool is started; bound: clients added late or not
  PoMayThrow,     \* consumers and tasks whose callbacks may throw
  PoQueueCap,     \* capacity of a queue of consumers
  PoRingCap,      \* capacity of the ring
  PoMaxSeq,       \* bound: messages published (a setting has a bound of its own)
  PoMaxResume     \* bound: how often droppedCb puts a consumer back

\* start() uses the slots 0, 1, ...; startAt() the ones it is given, all different,
\* in order.  A consumer is either interested in messages or not; if it is, the
\* pool has a thread of its affinity.  One whose start callback throws is served by
\* one thread only, and the pool never holds more than half a queue's capacity.
ASSUME PoAssumption ==
  /\ PoThreads \subseteq PoSlots /\ PoSlots \subseteq Nat
  /\ IsFiniteSet(PoThreads) /\ PoThreads # {}
  /\ PoConsumers \cap PoTasks = {}
  /\ PoSettings \subseteq [affinity : [PoConsumers \cup PoTasks -> SUBSET PoSlots],
                           startThrows : SUBSET PoConsumers,
                           added : SUBSET (PoConsumers \cup PoTasks),
                           slot : [PoThreads -> PoSlots], recycled : BOOLEAN,
                           maxSeq : 0..PoMaxSeq, lateAdd : BOOLEAN]
  /\ \A s \in PoSettings : \A t, u \in PoThreads : s.slot[t] = s.slot[u] => t = u
  /\ \A s \in PoSettings : \A t \in PoThreads : s.recycled \/ s.slot[t] = t
  /\ \A s \in PoSettings : \A c \in s.added \cap PoConsumers : s.affinity[c] \cap PoThreads # {}
  /\ \A s \in PoSettings : \A c \in s.startThrows :
        Cardinality(s.affinity[c] \cap PoThreads) = 1
  /\ \A s \in PoSettings : 2 * Cardinality(s.added \cap PoConsumers) <= PoQueueCap
  /\ PoMaxSeq \in Nat /\ PoRingCap \in Nat \ {0} /\ PoQueueCap \in Nat /\ PoMaxResume \in Nat

VARIABLES
  poSet,      \* the setting explored, chosen once
  poPhase,    \* "created", "resetting" the cursors, "running"
  poSeq,      \* messages published in the ring
  poCur,      \* cursor of each slot of the ring
  poT,        \* local state of each pool thread
  poQ,        \* consumers in the queue of each slot's thread, oldest first
  poAdding,   \* queues that addConsumer has still to put a consumer in
  poNext,     \* nextSeq_
  poDropCount,\* droppedCount
  poStarted,  \* messageDispatchingStarted_
  poIn,       \* consumers and tasks counted in consumerCount_
  poMQ,       \* consumerQ_ of PoolMinusImpl
  poStop,     \* stopped_
  poLog,      \* messages delivered to a consumer since it was added
  poDrops,    \* calls of droppedCb since it was added
  poResumed,  \* times it was put back
  poLate      \* consumers that were being added when the pool stopped

poVars == <<poSet, poPhase, poSeq, poCur, poT, poQ, poAdding, poNext, poDropCount,
            poStarted, poIn, poMQ, poStop, poLog, poDrops, poResumed, poLate>>
poLife == <<poSet, poPhase>>
poRing == <<poSeq, poCur>>
poCallbacks == <<poLog, poDrops, poResumed, poLate>>
poTasksVars == <<poMQ>>

PoAll == PoConsumers \cup PoTasks
PoDead == -1
PoNone == -1        \* nextSeq_ of a consumer that no thread has seen
PoSTOP == -2
PoIGNORE == -3

PoIdleThread == [pc |-> "off", b |-> 0, e |-> 0, n |-> 0, left |-> 0, seen |-> PoNone,
                 ok |-> TRUE, c |-> "none"]

PoAffinity(c) == poSet.affinity[c]
\* The threads that must give a consumer up before it is dropped.
PoServers(c) == PoAffinity(c) \cap PoThreads

-----------------------------------------------------------------------------
(* Senders and the ring.                                                    *)

PoPut ==
  /\ poSeq < poSet.maxSeq
  /\ \A s \in PoSlots : poCur[s] # PoDead => poSeq - poCur[s] < PoRingCap
  /\ poSeq' = poSeq + 1
  /\ UNCHANGED <<poLife, poCur, poT, poQ, poAdding, poNext, poDropCount, poStarted,
                 poIn, poTasksVars, poStop, poCallbacks>>

-----------------------------------------------------------------------------
(* start, startAt, startThruRecycling.                                      *)

\* start(): the slots of the pool are alive since the ring was made and the
\* others are marked dead.  startAt(): all are dead, and the ones given to the
\* pool are reset to the sequence of the moment, one after the other.
PoStart ==
  /\ poPhase = "created"
  /\ IF poSet.recycled
     THEN poPhase' = "resetting" /\ UNCHANGED <<poCur, poT>>
     ELSE /\ poPhase' = "running"
          /\ poCur' = [s \in PoSlots |-> IF s \in PoThreads THEN poCur[s] ELSE PoDead]
          /\ poT' = [t \in PoThreads |-> [poT[t] EXCEPT !.pc = "shuffle"]]
  /\ UNCHANGED <<poSet, poSeq, poQ, poAdding, poNext, poDropCount, poStarted, poIn,
                 poTasksVars, poStop, poCallbacks>>

PoResetSlot ==
  /\ poPhase = "resetting"
  /\ \E t \in PoThreads :
       /\ poCur[poSet.slot[t]] = PoDead
       /\ \A u \in PoThreads : u < t => poCur[poSet.slot[u]] # PoDead
       /\ poCur' = [poCur EXCEPT ![poSet.slot[t]] = poSeq]
  /\ UNCHANGED <<poLife, poSeq, poT, poQ, poAdding, poNext, poDropCount, poStarted,
                 poIn, poTasksVars, poStop, poCallbacks>>

PoLaunch ==
  /\ poPhase = "resetting"
  /\ \A t \in PoThreads : poCur[poSet.slot[t]] # PoDead
  /\ poPhase' = "running"
  /\ poT' = [t \in PoThreads |-> [poT[t] EXCEPT !.pc = "shuffle"]]
  /\ UNCHANGED <<poSet, poRing, poQ, poAdding, poNext, poDropCount, poStarted, poIn,
                 poTasksVars, poStop, poCallbacks>>

-----------------------------------------------------------------------------
(* addConsumer.  A consumer counts from the moment it is added; it is put    *)
(* in the queues of its threads one by one.                                 *)

PoFresh(c, queues) ==
  /\ poNext' = [poNext EXCEPT ![c] = PoNone]
  /\ poDropCount' = [poDropCount EXCEPT ![c] = 0]
  /\ poAdding' = [poAdding EXCEPT ![c] = queues]
  /\ poIn' = poIn \cup {c}

PoAdd(c) ==
  /\ c \in poSet.added \ poIn /\ poDrops[c] = 0 /\ ~poStop
  /\ poSet.lateAdd \/ poPhase = "created"
  /\ PoFresh(c, PoAffinity(c))
  /\ UNCHANGED <<poLife, poRing, poT, poQ, poStarted, poTasksVars, poStop, poCallbacks>>

\* Slots a thread holds in its queue: the consumers it has not seen in this
\* round, the ones put since, and the seen ones until wasteAfterPeek.
PoHolds(i) == Len(poQ[i]) + (IF i \in PoThreads THEN poT[i].n - poT[i].left ELSE 0)

PoRoom(i) == PoHolds(i) < PoQueueCap

PoPutInQueue(c) ==
  /\ poAdding[c] # {}
  /\ LET i == Min(poAdding[c])
     IN  /\ PoRoom(i)
         /\ poQ' = [poQ EXCEPT ![i] = Append(@, c)]
         /\ poAdding' = [poAdding EXCEPT ![c] = @ \ {i}]
  /\ UNCHANGED <<poLife, poRing, poT, poNext, poDropCount, poStarted, poIn,
                 poTasksVars, poStop, poCallbacks>>

PoAddTask(m) ==
  /\ m \in poSet.added \ poIn /\ poDrops[m] = 0 /\ ~poStop
  /\ poSet.lateAdd \/ poPhase = "created"
  /\ poIn' = poIn \cup {m}
  /\ poMQ' = Append(poMQ, m)
  /\ UNCHANGED <<poLife, poRing, poT, poQ, poAdding, poNext, poDropCount, poStarted,
                 poStop, poCallbacks>>

-----------------------------------------------------------------------------
(* One round of a pool thread (threadEntry, runOnceImpl).                   *)

PoCursor(t) == poCur[poSet.slot[t]]
PoGoes(t, pc) == poT' = [poT EXCEPT ![t].pc = pc]
PoNextVisit(t) == poT' = [poT EXCEPT ![t] = [@ EXCEPT !.pc = "visit", !.c = "none",
                                                       !.seen = PoNone, !.ok = TRUE]]

\* The initial consumers are put back in a random order.
PoShuffle(t) ==
  /\ poT[t].pc = "shuffle"
  /\ \E f \in [1..Len(poQ[t]) -> 1..Len(poQ[t])] :
       /\ \A i, j \in DOMAIN f : f[i] = f[j] => i = j
       /\ poQ' = [poQ EXCEPT ![t] = [i \in DOMAIN f |-> poQ[t][f[i]]]]
  /\ PoGoes(t, "loop")
  /\ UNCHANGED <<poLife, poRing, poAdding, poNext, poDropCount, poStarted, poIn,
                 poTasksVars, poStop, poCallbacks>>

\* peek the ring, unless stopped look at all consumers in the queue.
PoPeek(t) ==
  /\ poT[t].pc = "loop" /\ ~poStop
  /\ poT' = [poT EXCEPT ![t] = [@ EXCEPT !.pc = "visit", !.b = PoCursor(t), !.e = poSeq,
                                         !.n = Len(poQ[t]), !.left = Len(poQ[t])]]
  /\ UNCHANGED <<poLife, poRing, poQ, poAdding, poNext, poDropCount, poStarted, poIn,
                 poTasksVars, poStop, poCallbacks>>

PoStartingOk(t) ==
  /\ poT[t].pc = "starting"
  /\ poStarted' = [poStarted EXCEPT ![poT[t].c] = TRUE]
  /\ PoGoes(t, "look")
  /\ UNCHANGED <<poLife, poRing, poQ, poAdding, poNext, poDropCount, poIn, poTasksVars,
                 poStop, poCallbacks>>

PoStartingThrows(t) ==
  /\ poT[t].pc = "starting" /\ poT[t].c \in poSet.startThrows
  /\ poNext' = [poNext EXCEPT ![poT[t].c] = PoSTOP]
  /\ poT' = [poT EXCEPT ![t].pc = "look", ![t].ok = FALSE]
  /\ UNCHANGED <<poLife, poRing, poQ, poAdding, poDropCount, poStarted, poIn,
                 poTasksVars, poStop, poCallbacks>>

\* Mutant of PoDecision: the range is not compared with nextSeq_ from below.
PoDecisionUnbounded(s, b, e) ==
  IF s = PoSTOP THEN "drop" ELSE IF s = PoIGNORE THEN "keep" ELSE "claim"

\* What a thread with the range [b, e) does with a consumer at number s.
PoDecision(s, b, e) ==
  IF s = PoSTOP THEN "drop"
  ELSE IF s = PoIGNORE \/ b > s THEN "keep"
  ELSE IF e > s \/ (e = s /\ b = s) THEN "claim"
  ELSE "keep"

\* The consumer is put back in the queue the thread took it from.
PoPutBack(t) == PoRoom(t) /\ poQ' = [poQ EXCEPT ![t] = Append(@, poT[t].c)]

\* What follows from the number s that handleRange reads: a claim remembers it.
PoReads(t, th, s) ==
  LET d == PoDecision(s, th.b, th.e)
  IN  CASE d = "claim" -> [th EXCEPT !.pc = "claim", !.seen = s]
        [] d = "drop" \/ (d = "keep" /\ ~th.ok) -> [th EXCEPT !.pc = "drop"]
        [] OTHER -> [th EXCEPT !.pc = "keep"]

\* handleRange: the thread that finds nextSeq_ unset sets it to the begin of its
\* own range and calls messageDispatchingStartedCb - with nextSeq_ set already.
PoVisit(t) ==
  /\ poT[t].pc = "visit" /\ poT[t].left > 0
  /\ LET c == Head(poQ[t])
         first == poNext[c] = PoNone
         th == [poT[t] EXCEPT !.c = c, !.ok = TRUE, !.left = @ - 1]
     IN  /\ poNext' = IF first THEN [poNext EXCEPT ![c] = poT[t].b] ELSE poNext
         /\ poT' = [poT EXCEPT ![t] = IF first /\ ~poStarted[c] THEN [th EXCEPT !.pc = "starting"]
                                      ELSE PoReads(t, th, poNext'[c])]
  /\ poQ' = [poQ EXCEPT ![t] = Tail(@)]
  /\ UNCHANGED <<poLife, poRing, poAdding, poDropCount, poStarted, poIn, poTasksVars,
                 poStop, poCallbacks>>

\* After the start callback, with or without an exception, nextSeq_ is read again.
PoLook(t) ==
  /\ poT[t].pc = "look"
  /\ poT' = [poT EXCEPT ![t] = PoReads(t, @, poNext[poT[t].c])]
  /\ UNCHANGED <<poLife, poRing, poQ, poAdding, poNext, poDropCount, poStarted, poIn,
                 poTasksVars, poStop, poCallbacks>>

PoKeep(t) ==
  /\ poT[t].pc = "keep"
  /\ PoNextVisit(t) /\ PoPutBack(t)
  /\ UNCHANGED <<poLife, poRing, poAdding, poNext, poDropCount, poStarted, poIn,
                 poTasksVars, poStop, poCallbacks>>

\* The compare-and-swap from the number read to IGNORE.
PoClaims(t) == poNext[poT[t].c] = poT[t].seen

PoClaim(t) ==
  /\ poT[t].pc = "claim"
  /\ IF PoClaims(t)
     THEN /\ poNext' = [poNext EXCEPT ![poT[t].c] = PoIGNORE]
          /\ PoGoes(t, "handle")
     ELSE PoGoes(t, "keep") /\ UNCHANGED poNext
  /\ UNCHANGED <<poLife, poRing, poQ, poAdding, poDropCount, poStarted, poIn,
                 poTasksVars, poStop, poCallbacks>>

PoNumberAfter(t) == poT[t].e

\* handleRangeImpl from nextSeq_ to the end of the range, then invoked; only
\* when nothing was thrown does nextSeq_ leave IGNORE for the end of the range.
PoHandle(t) ==
  /\ poT[t].pc = "handle" /\ poT[t].ok
  /\ LET c == poT[t].c
     IN  /\ poLog' = [poLog EXCEPT ![c] = @ \o [i \in 1..(poT[t].e - poT[t].seen) |->
                                                  poT[t].seen + i - 1]]
         /\ poNext' = [poNext EXCEPT ![c] = PoNumberAfter(t)]
  /\ PoNextVisit(t) /\ PoPutBack(t)
  /\ UNCHANGED <<poLife, poRing, poAdding, poDropCount, poStarted, poIn, poTasksVars,
                 poStop, poDrops, poResumed, poLate>>

PoHandleThrows(t) ==
  /\ poT[t].pc = "handle" /\ poT[t].c \in PoMayThrow
  /\ LET c == poT[t].c
     IN  /\ \E k \in 0..(poT[t].e - poT[t].seen) :
              poLog' = [poLog EXCEPT ![c] = @ \o [i \in 1..k |-> poT[t].seen + i - 1]]
         /\ poNext' = [poNext EXCEPT ![c] = PoSTOP]
  /\ PoGoes(t, "drop")
  /\ UNCHANGED <<poLife, poRing, poQ, poAdding, poDropCount, poStarted, poIn,
                 poTasksVars, poStop, poDrops, poResumed, poLate>>

\* ++droppedCount reaches the number of active threads of the affinity.
PoLastToDrop(c) == poDropCount[c] + 1 = Cardinality(PoServers(c))

\* droppedCb may ask for the consumer to be put back (it is not yet deleted);
\* the thread that called it adds the consumer again before it goes on.
PoMayResume(c) == poResumed[c] < PoMaxResume
PoCalled(c) == poDrops' = [poDrops EXCEPT ![c] = @ + 1]

PoDrop(t) ==
  LET c == poT[t].c IN
  /\ poT[t].pc = "drop"
  /\ IF ~PoLastToDrop(c)
     THEN /\ poDropCount' = [poDropCount EXCEPT ![c] = @ + 1]
          /\ PoNextVisit(t)
          /\ UNCHANGED <<poNext, poAdding, poIn, poCallbacks>>
     ELSE \/ /\ poDropCount' = [poDropCount EXCEPT ![c] = @ + 1]
             /\ PoCalled(c)
             /\ poIn' = poIn \ {c}
             /\ PoNextVisit(t)
             /\ UNCHANGED <<poNext, poAdding, poLog, poResumed, poLate>>
          \/ /\ PoMayResume(c)
             /\ PoFresh(c, PoServers(c))
             /\ poLog' = [poLog EXCEPT ![c] = <<>>]
             /\ poResumed' = [poResumed EXCEPT ![c] = @ + 1]
             /\ poLate' = IF poStop THEN poLate \cup {c} ELSE poLate
             /\ PoGoes(t, "resuming")
             /\ UNCHANGED poDrops
  /\ UNCHANGED <<poLife, poRing, poQ, poStarted, poTasksVars, poStop>>

PoResumedAll(t) ==
  /\ poT[t].pc = "resuming" /\ poAdding[poT[t].c] = {}
  /\ PoNextVisit(t)
  /\ UNCHANGED <<poLife, poRing, poQ, poAdding, poNext, poDropCount, poStarted, poIn,
                 poTasksVars, poStop, poCallbacks>>

PoWastedTo(t) == poT[t].e

\* wasteAfterPeek on the queue and on the ring, when all consumers were visited.
PoWaste(t) ==
  /\ poT[t].pc = "visit" /\ poT[t].left = 0
  /\ poCur' = [poCur EXCEPT ![poSet.slot[t]] = PoWastedTo(t)]
  /\ poT' = [poT EXCEPT ![t] = [PoIdleThread EXCEPT
                !.pc = IF poMQ = <<>> \/ poStop THEN "loop" ELSE "task"]]
  /\ UNCHANGED <<poLife, poSeq, poQ, poAdding, poNext, poDropCount, poStarted, poIn,
                 poTasksVars, poStop, poCallbacks>>

-----------------------------------------------------------------------------
(* Consumers without interest in messages (PoolMinusImpl::runOnceImpl).     *)

PoTake(t) ==
  /\ poT[t].pc = "task"
  /\ IF poStop \/ poMQ = <<>> THEN PoGoes(t, "loop") /\ UNCHANGED poMQ
     ELSE IF t \in PoAffinity(Head(poMQ))
     THEN /\ poT' = [poT EXCEPT ![t].pc = "invoke", ![t].c = Head(poMQ)]
          /\ poMQ' = Tail(poMQ)
     ELSE poMQ' = Append(Tail(poMQ), Head(poMQ)) /\ PoGoes(t, "loop")
  /\ UNCHANGED <<poLife, poRing, poQ, poAdding, poNext, poDropCount, poStarted, poIn,
                 poStop, poCallbacks>>

\* The thread stays with a task while it has nothing else to do.
PoHogs(t) == poCur[poSet.slot[t]] = poSeq /\ poQ[t] = <<>> /\ poMQ = <<>> /\ ~poStop

PoInvoke(t) ==
  /\ poT[t].pc = "invoke"
  /\ poStarted' = [poStarted EXCEPT ![poT[t].c] = TRUE]
  /\ IF PoHogs(t) THEN UNCHANGED <<poT, poMQ>>
     ELSE poMQ' = Append(poMQ, poT[t].c) /\ poT' = [poT EXCEPT ![t] = [PoIdleThread EXCEPT !.pc = "loop"]]
  /\ UNCHANGED <<poLife, poRing, poQ, poAdding, poNext, poDropCount, poIn, poStop,
                 poCallbacks>>

PoInvokeThrows(t) ==
  LET m == poT[t].c IN
  /\ poT[t].pc = "invoke" /\ m \in PoMayThrow
  /\ poStarted' = [poStarted EXCEPT ![m] = TRUE]
  /\ \/ /\ poIn' = poIn \ {m}
        /\ PoCalled(m)
        /\ UNCHANGED <<poMQ, poResumed, poLate>>
     \/ /\ PoMayResume(m)
        /\ poResumed' = [poResumed EXCEPT ![m] = @ + 1]
        /\ poMQ' = Append(poMQ, m)
        /\ UNCHANGED <<poIn, poDrops, poLate>>
  /\ poT' = [poT EXCEPT ![t] = [PoIdleThread EXCEPT !.pc = "loop"]]
  /\ UNCHANGED <<poLife, poRing, poQ, poAdding, poNext, poDropCount, poStop, poLog>>

-----------------------------------------------------------------------------
(* stop and the end of a thread.                                            *)

PoStopAll ==
  /\ poPhase = "running" /\ ~poStop
  /\ poStop' = TRUE
  /\ poLate' = poLate \cup {c \in PoConsumers : poAdding[c] # {}}
  /\ UNCHANGED <<poLife, poRing, poT, poQ, poAdding, poNext, poDropCount, poStarted,
                 poIn, poTasksVars, poLog, poDrops, poResumed>>

PoLeave(t) ==
  /\ poT[t].pc = "loop" /\ poStop
  /\ poT' = [poT EXCEPT ![t] = [PoIdleThread EXCEPT !.pc = "leaving", !.n = Len(poQ[t]), !.left = Len(poQ[t])]]
  /\ UNCHANGED <<poLife, poRing, poQ, poAdding, poNext, poDropCount, poStarted, poIn,
                 poTasksVars, poStop, poCallbacks>>

\* Each consumer in the queue is given up; what droppedCb answers is not used.
PoLeaveOne(t) ==
  /\ poT[t].pc = "leaving" /\ poT[t].left > 0
  /\ LET c == Head(poQ[t])
     IN  /\ poDropCount' = [poDropCount EXCEPT ![c] = @ + 1]
         /\ IF PoLastToDrop(c) THEN poIn' = poIn \ {c} /\ PoCalled(c)
            ELSE UNCHANGED <<poIn, poDrops>>
  /\ poT' = [poT EXCEPT ![t].left = @ - 1]
  /\ poQ' = [poQ EXCEPT ![t] = Tail(@)]
  /\ UNCHANGED <<poLife, poRing, poAdding, poNext, poStarted, poTasksVars, poStop,
                 poLog, poResumed, poLate>>

PoMarkDead(t) ==
  /\ poT[t].pc = "leaving" /\ poT[t].left = 0
  /\ poCur' = [poCur EXCEPT ![poSet.slot[t]] = PoDead]
  /\ PoGoes(t, "cleanup")
  /\ UNCHANGED <<poLife, poSeq, poQ, poAdding, poNext, poDropCount, poStarted, poIn,
                 poTasksVars, poStop, poCallbacks>>

PoCleanupKey(t) == poSet.slot[t]
\* cleanup is called with the number of the slot, not of the thread.
PoCleanup(t) ==
  /\ poT[t].pc = "cleanup"
  /\ IF poIn \cap PoTasks = {} THEN PoGoes(t, "done") /\ UNCHANGED <<poMQ, poIn, poDrops>>
     ELSE /\ poMQ # <<>>
          /\ UNCHANGED poT
          /\ LET m == Head(poMQ)
             IN  IF PoCleanupKey(t) \in PoAffinity(m)
                 THEN poMQ' = Tail(poMQ) /\ poIn' = poIn \ {m} /\ PoCalled(m)
                 ELSE poMQ' = Append(Tail(poMQ), m) /\ UNCHANGED <<poIn, poDrops>>
  /\ UNCHANGED <<poLife, poRing, poQ, poAdding, poNext, poDropCount, poStarted, poStop,
                 poLog, poResumed, poLate>>

-----------------------------------------------------------------------------
PoInit ==
  /\ poSet \in PoSettings
  /\ poPhase = "created"
  /\ poSeq = 0
  /\ poCur = [s \in PoSlots |-> IF poSet.recycled THEN PoDead ELSE 0]
  /\ poT = [t \in PoThreads |-> PoIdleThread]
  /\ poQ = [s \in PoSlots |-> <<>>]
  /\ poAdding = [c \in PoConsumers |-> {}]
  /\ poNext = [c \in PoConsumers |-> PoNone]
  /\ poDropCount = [c \in PoConsumers |-> 0]
  /\ poStarted = [c \in PoAll |-> FALSE]
  /\ poIn = {}
  /\ poMQ = <<>>
  /\ poStop = FALSE
  /\ poLog = [c \in PoConsumers |-> <<>>]
  /\ poDrops = [c \in PoAll |-> 0]
  /\ poResumed = [c \in PoAll |-> 0]
  /\ poLate = {}

PoThreadStep(t) ==
  \/ PoShuffle(t) \/ PoPeek(t) \/ PoVisit(t) \/ PoStartingOk(t) \/ PoStartingThrows(t)
  \/ PoLook(t) \/ PoKeep(t) \/ PoClaim(t) \/ PoHandle(t) \/ PoHandleThrows(t) \/ PoDrop(t)
  \/ PoResumedAll(t) \/ PoWaste(t) \/ PoTake(t) \/ PoInvoke(t) \/ PoInvokeThrows(t)
  \/ PoLeave(t) \/ PoLeaveOne(t) \/ PoMarkDead(t) \/ PoCleanup(t)

PoNextStep ==
  \/ PoPut \/ PoStart \/ PoResetSlot \/ PoLaunch \/ PoStopAll
  \/ \E c \in PoConsumers : PoAdd(c) \/ PoPutInQueue(c)
  \/ \E m \in PoTasks : PoAddTask(m)
  \/ \E t \in PoThreads : PoThreadStep(t)

\* The threads of the pool and a call of addConsumer go on; nobody has to send,
\* to add a consumer or to stop the pool.
PoFairness ==
  /\ \A t \in PoThreads : WF_poVars(PoThreadStep(t))
  /\ \A c \in PoConsumers : WF_poVars(PoPutInQueue(c))
  /\ WF_poVars(PoResetSlot) /\ WF_poVars(PoLaunch)

PoSpec == PoInit /\ [][PoNextStep]_poVars /\ PoFairness

-----------------------------------------------------------------------------
(* What the pool promises.                                                  *)

PoTypeOK ==
  /\ poPhase \in {"created", "resetting", "running"}
  /\ poSeq \in 0..PoMaxSeq
  /\ poCur \in [PoSlots -> PoDead..PoMaxSeq]
  /\ \A t \in PoThreads : poT[t].b <= poT[t].e /\ poT[t].left <= poT[t].n
  /\ \A s \in PoSlots : Len(poQ[s]) <= PoQueueCap
  /\ \A c \in PoConsumers : poNext[c] \in PoIGNORE..PoMaxSeq /\ poAdding[c] \subseteq PoSlots
  /\ poIn \subseteq PoAll

\* A consumer gets every message from the first one it was offered, in order and
\* once, whichever threads deliver them (nextSeq_ in PoolConsumer::handleRange).
PoInOrderOnce ==
  \A c \in PoConsumers :
    /\ \A i \in 1..(Len(poLog[c]) - 1) : poLog[c][i + 1] = poLog[c][i] + 1
    /\ poLog[c] # <<>> /\ poNext[c] >= 0 => Last(poLog[c]) = poNext[c] - 1

PoInCallback(t, c) == poT[t].c = c /\ poT[t].pc \in {"handle", "invoke"}

\* Two threads never run the message, timer or invoked callbacks of a consumer at
\* the same time (Client.hpp: no 2 callbacks of a Client are called concurrently).
PoOneThreadAtATime ==
  \A c \in PoAll : \A t, u \in PoThreads :
    PoInCallback(t, c) /\ PoInCallback(u, c) => t = u

\* droppedCb that returns true deletes the consumer: it is called at most once,
\* only after the consumer threw or the pool stopped, and when no thread that
\* serves the consumer still has it in its queue or in its hands.
PoGoneForGood ==
  \A c \in PoConsumers : poDrops[c] > 0 =>
    /\ poDrops[c] = 1
    /\ poNext[c] = PoSTOP \/ poStop
    /\ \A t \in PoServers(c) :
         /\ c \notin Range(poQ[t])
         /\ ~(poT[t].c = c /\ poT[t].pc \in {"starting", "look", "claim", "keep", "handle", "drop"})

\* Everyone added before the pool stopped is dropped by the time all threads are
\* gone, so join leaves no stub behind (threadEntry, PoolMinusImpl::cleanup).
PoAllDropped ==
  (\A t \in PoThreads : poT[t].pc = "done") => poIn \subseteq poLate

\* A consumer that never throws and has started is in the end past every number that
\* is published, by delivery or because it joined later, unless the pool stops: its
\* nextSeq_ says so, or the thread that has it claimed is about to say so.
PoPast(c) == \/ poNext[c] >= poSeq
             \/ \E t \in PoThreads : PoInCallback(t, c) /\ poNext[c] = PoIGNORE /\ poT[t].e >= poSeq
PoServed == poStop \/ \A c \in PoConsumers \ PoMayThrow : poStarted[c] => PoPast(c)

\* A pool that is stopped can be joined: the hand-over of tasks in cleanup ends.
PoJoins == poStop => \A t \in PoThreads : poT[t].pc = "done"

\* addToPool returns: there is always room for a consumer in the queues of the
\* threads, also while they hold the ones they have seen.
PoAddReturns == \A c \in PoConsumers : poAdding[c] = {}

\* What the pool keeps true of its consumers: messages in order and once, one callback at a
\* time, and nobody touched after droppedCb.
PoSafety == PoTypeOK /\ PoInOrderOnce /\ PoOneThreadAtATime /\ PoGoneForGood /\ PoAllDropped

\* Where sending, addConsumer and stop lead to in the end.
PoSettled == PoServed /\ PoJoins /\ PoAddReturns
=============================================================================
