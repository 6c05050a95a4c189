------------------------------ MODULE TipsDomain ------------------------------
(***************************************************************************)
(* A TIPS domain: nodes publish messages by type tag and receive the tags   *)
(* they subscribe to (tips/Domain.hpp, Node.hpp, SingleNodeDomain.hpp,      *)
(* Messages.hpp).  A message reaches the nodes of its own process through   *)
(* the thread context, other processes of the host through a ring in shared *)
(* memory that the pumps read, and other hosts through the network engines  *)
(* the pumps run.  Tags are divided among the pumps by tag % pumps.  An     *)
(* attachment crosses the ring in segments, or stays in shared memory where *)
(* a reference count, raised by the number of processes that subscribe,     *)
(* decides when it is deallocated.                                          *)
(*                                                                          *)
(* The ring is the broadcast ring of MemRingBuffer and the queues of the    *)
(* nodes are those of BlockingContext, both reduced to their contracts; the *)
(* network engines (Tcpcast, ReliableMulticast, Udpcast) are a queue out of *)
(* and into each process.                                                   *)
(***************************************************************************)
EXTENDS Integers, Sequences, FiniteSets, FiniteSetsExt, SequencesExt

CONSTANTS
  TiProcs,     \* processes with a Domain
  TiNodes,     \* nodes, numbered
  TiTags,      \* type tags, numbers
  TiSettings,  \* domains explored
  TiRing,      \* slots of the shared ring
  TiQueue,     \* capacity of a node's queue
  TiMaxMsg,    \* bound: messages published
  TiMaxPumps   \* bound: pumps of a Domain

\* procs: those that take part; remote: those on hosts of their own; home, subs: the process of
\* a node and the tags it asks for; on: nodes added before; delayed: processes
\* whose pumps are started later; kind: how an attachment travels; via: the ways a
\* message is not barred from (do_not_send_via); try: publishers use tryPublish;
\* leave, crash: processes that may stop or die; single: SingleNodeDomains; say,
\* pubs: the tags published, and how many messages by each.
ASSUME TiAssumption ==
  /\ TiNodes \subseteq Nat /\ TiTags \subseteq Nat
  /\ TiSettings \subseteq
       [procs : SUBSET TiProcs, remote : SUBSET TiProcs, home : [TiNodes -> TiProcs],
        subs : [TiNodes -> SUBSET TiTags], on : SUBSET TiNodes, delayed : SUBSET TiProcs,
        ipc : BOOLEAN, net : BOOLEAN, pumps : 1..TiMaxPumps,
        kind : [TiTags -> {"plain", "seg", "shm"}], via : [TiTags -> SUBSET {"thread", "ipc", "net"}],
        try : BOOLEAN, leave : SUBSET TiProcs, crash : SUBSET TiProcs, single : SUBSET TiProcs,
        say : SUBSET TiTags, pubs : [TiProcs -> 0..TiMaxMsg]]
  /\ TiRing \in Nat \ {0, 1} /\ TiQueue \in Nat \ {0} /\ TiMaxMsg \in Nat

VARIABLES
  tiSet,     \* the setting explored, chosen once
  tiUp,      \* process: "up", "stopping", "gone" or "crashed"
  tiMsg,     \* messages published so far: publisher, tag and who must get it
  tiPub,     \* the publishing thread of a process
  tiOut,     \* *pOutboundSubscriptions_, in shared memory
  tiIn,      \* inboundSubscriptions_ of the pumps of a process
  tiNetSub,  \* subscriptions of the receiving engines of a process
  tiNode,    \* step of adding a node: "out", "marked", "counted", "on", "gone"
  tiNew,     \* tags a node marked and has not counted yet
  tiQ,       \* queue of a node
  tiGot,     \* messages a node handled
  tiRing,    \* entries put in the ring
  tiCur,     \* entries a pump has read; -1 when it does not read
  tiPump,    \* pump: the message it hands out and the attachment it assembles
  tiNetOut,  \* messages in the sending engines of a process
  tiNetIn,   \* messages on their way to a process over the network
  tiCopies,  \* shared_ptr copies of a message's attachment in a process
  tiRef,     \* reference count of an attachment in shared memory
  tiFreed,   \* how often it was deallocated
  tiOdd      \* messages whose subscribers changed while they were on their way

tiVars == <<tiSet, tiUp, tiMsg, tiPub, tiOut, tiIn, tiNetSub, tiNode, tiNew, tiQ, tiGot, tiRing,
            tiCur, tiPump, tiNetOut, tiNetIn, tiCopies, tiRef, tiFreed, tiOdd>>
tiAtt == <<tiCopies, tiRef, tiFreed>>
tiSubs == <<tiOut, tiIn, tiNetSub, tiNode, tiNew>>
tiRest == <<tiSet, tiUp>>

TiPumps == 0..(TiMaxPumps - 1)
TiIdlePub == [pc |-> "idle", m |-> 0, todo |-> {}, diff |-> 0, ok |-> TRUE]
TiIdlePump == [m |-> 0, todo |-> {}, net |-> FALSE, att |-> 0, left |-> 0]
TiTagOf(m) == tiMsg[m].t
TiKind(m) == tiSet.kind[TiTagOf(m)]
\* mod and res of a pump
TiPumpOf(t) == t % tiSet.pumps
\* is_threadable, is_ipcable, is_netable
TiMay(t, way) == way \in tiSet.via[t]
\* subscription of a Node, and typeTagMatch for its Interests
TiListens(n, t) == t \in tiSet.subs[n]

\* Nodes of a process that a send of the thread context reaches: those started
\* whose interests, and whose filter for ranged tags, hold the tag (ifDeliverCfg).
TiLocal(p, t) == {n \in TiNodes : tiSet.home[n] = p /\ tiNode[n] = "on" /\ TiListens(n, t)}

-----------------------------------------------------------------------------
(* Attachments: copies of a shared_ptr, and the count in shared memory.     *)

\* Mutant of TiLastCopy: the count is not looked at when the last copy of a process goes.
TiLastCopyFrees(m, ref) == ref > 0
\* The deleters of allocateInShm and of fromHmbdcIpcable take one reference and
\* deallocate when it was the last.
TiLastCopy(m, ref) == ref = 1

\* d more copies of m in p, and r more references.
TiShift(m, p, d, r) ==
  LET n == tiCopies[m][p] + d
      last == tiCopies[m][p] > 0 /\ n = 0 /\ TiKind(m) = "shm"
  IN  IF TiKind(m) = "plain" THEN UNCHANGED tiAtt
      ELSE /\ tiCopies' = [tiCopies EXCEPT ![m][p] = n]
           /\ tiRef' = [tiRef EXCEPT ![m] = @ + r - (IF last THEN 1 ELSE 0)]
           /\ tiFreed' = [tiFreed EXCEPT ![m] = IF last /\ TiLastCopy(m, tiRef[m] + r) THEN @ + 1 ELSE @]

-----------------------------------------------------------------------------
(* Domain::publish and tryPublish.                                          *)

\* The domain runs pumps on the ring of its host; the ring here is that of the one
\* host with several processes.
TiShared(p) == tiSet.ipc /\ p \notin tiSet.remote
TiReading(q) == TiShared(q) /\ tiUp[q] = "up" /\ \A k \in 0..(tiSet.pumps - 1) : tiCur[q][k] >= 0

\* Processes whose pump will take an entry with the tag that p puts now.
TiTakers(p, t) ==
  {q \in tiSet.procs \ {p} : TiShared(p) /\ TiReading(q) /\ t \in tiIn[q]}
\* Over the network the own host is reached only when there is no ring (loopback).
TiNetTakers(p, t) ==
  {q \in tiSet.procs \ {p} : /\ tiSet.ipc => {p, q} \cap tiSet.remote # {}
                              /\ t \in tiNetSub[q] /\ tiUp[q] = "up"}

\* Nodes that are started and counted when m is published.
TiNeed(p, t) ==
  (IF TiMay(t, "thread") THEN TiLocal(p, t) ELSE {})
    \cup UNION {TiLocal(q, t) : q \in IF TiMay(t, "ipc") THEN TiTakers(p, t) ELSE {}}
    \cup UNION {TiLocal(q, t) : q \in IF tiSet.net /\ TiMay(t, "net") THEN TiNetTakers(p, t) ELSE {}}

\* allocateInShmFor0cpy: an attachment in shared memory starts with one reference.
TiFirstRef(t) == IF tiSet.kind[t] = "shm" THEN 1 ELSE 0

\* The caller's message.
TiPublish(p, t) ==
  LET m == Len(tiMsg) + 1
      todo == IF TiMay(t, "thread") THEN TiLocal(p, t) ELSE {}
  IN  /\ tiUp[p] = "up" /\ tiPub[p].pc = "idle" /\ m <= TiMaxMsg
      /\ Cardinality({i \in DOMAIN tiMsg : tiMsg[i].p = p}) < tiSet.pubs[p]
      /\ tiMsg' = Append(tiMsg, [p |-> p, t |-> t, need |-> TiNeed(p, t)])
      /\ tiPub' = [tiPub EXCEPT ![p] = [TiIdlePub EXCEPT !.m = m, !.todo = todo,
                                          !.pc = IF todo = {} THEN "ipc" ELSE "thread"]]
      /\ tiCopies' = [tiCopies EXCEPT ![m][p] = IF tiSet.kind[t] = "plain" THEN 0 ELSE 1]
      /\ tiRef' = [tiRef EXCEPT ![m] = TiFirstRef(t)]
      /\ UNCHANGED <<tiRest, tiSubs, tiQ, tiGot, tiRing, tiCur, tiPump, tiNetOut, tiNetIn, tiFreed, tiOdd>>

\* A message in shared memory is an ordinary copy once it crossed the network.
TiCopied(m, p) == TiKind(m) # "shm" \/ {p, tiMsg[m].p} \cap tiSet.remote = {}

\* A queue of the thread context, or, in a SingleNodeDomain, the node's handler
\* itself (ContextCallForwarder).
TiAccepts(n) == tiSet.home[n] \in tiSet.single \/ Len(tiQ[n]) < TiQueue
TiDeliver(n, m) ==
  IF tiSet.home[n] \in tiSet.single
  THEN tiGot' = [tiGot EXCEPT ![n] = Append(@, m)] /\ UNCHANGED <<tiQ, tiAtt>>
  ELSE /\ tiQ' = [tiQ EXCEPT ![n] = Append(@, m)]
       /\ IF TiCopied(m, tiSet.home[n]) THEN TiShift(m, tiSet.home[n], 1, 0) ELSE UNCHANGED tiAtt
       /\ UNCHANGED tiGot

\* threadCtx_.send puts a copy in one queue after the other and waits for room;
\* trySend gives up at the first queue that is full.
TiHand(p) ==
  LET w == tiPub[p] n == Min(w.todo)
      room == TiAccepts(n)
      todo == IF room THEN w.todo \ {n} ELSE {}
  IN  /\ w.pc = "thread" /\ (room \/ tiSet.try)
      /\ IF room THEN TiDeliver(n, w.m) ELSE UNCHANGED <<tiQ, tiGot, tiAtt>>
      /\ tiPub' = [tiPub EXCEPT ![p].todo = todo, ![p].pc = IF todo = {} THEN "ipc" ELSE @,
                                ![p].ok = @ /\ room]
      /\ UNCHANGED <<tiRest, tiMsg, tiSubs, tiRing, tiCur, tiPump, tiNetOut, tiNetIn, tiOdd>>

\* intDiff: subscribing pumps of other processes, as far as the counts tell.
TiDiff(p, t) == (tiOut[t] % 256) - (IF t \in tiIn[p] THEN 1 ELSE 0)

\* The counts do not tell who reads: a node is being added, pumps were not started
\* yet, or a process left without taking its counts back.
TiStale(t) ==
  \/ \E n \in TiNodes : t \in tiNew[n]
  \/ tiOut[t] # Cardinality({q \in TiProcs : TiReading(q) /\ t \in tiIn[q]})

\* PumpInIpcPortal::send: when others are interested the message is converted, which
\* copies the shared_ptr, and the references of the receivers are added beforehand.
TiCount(p) ==
  LET w == tiPub[p] t == TiTagOf(w.m)
      d == IF TiShared(p) /\ TiMay(t, "ipc") THEN TiDiff(p, t) ELSE 0
  IN  /\ w.pc = "ipc"
      /\ tiPub' = [tiPub EXCEPT ![p].diff = d, ![p].pc = IF d # 0 THEN "claim" ELSE "net"]
      /\ IF d = 0 THEN UNCHANGED tiAtt
         ELSE TiShift(w.m, p, 1, IF TiKind(w.m) = "shm" THEN d ELSE 0)
      /\ tiOdd' = IF TiStale(t) THEN tiOdd \cup {w.m} ELSE tiOdd
      /\ UNCHANGED <<tiRest, tiMsg, tiSubs, tiQ, tiGot, tiRing, tiCur, tiPump, tiNetOut, tiNetIn>>

\* MessageWrap of an ipc_from
TiEntry(m, p, part) == [m |-> m, from |-> p, part |-> part]
\* Context::send of a message: one slot, or one more than its segments.
TiEntries(m, p) ==
  <<TiEntry(m, p, "head")>> \o (IF TiKind(m) = "seg" THEN <<TiEntry(m, p, "seg")>> ELSE <<>>)

TiSlowest == Min({Len(tiRing)} \cup {tiCur[q][k] : q \in {r \in TiProcs : tiCur[r][0] >= 0},
                                                      k \in 0..(tiSet.pumps - 1)})
TiRoom(m, p) == Len(tiRing) + Len(TiEntries(m, p)) - TiSlowest <= TiRing

\* With a network engine the converted message is kept for it, else the send
\* releases it.
TiKept(m) == tiSet.net /\ TiMay(TiTagOf(m), "net")

TiClaim(p) ==
  LET w == tiPub[p] IN
  /\ w.pc = "claim" /\ TiRoom(w.m, p)
  /\ tiRing' = tiRing \o TiEntries(w.m, p)
  /\ TiShift(w.m, p, IF TiKept(w.m) THEN 0 ELSE -1, 0)
  /\ tiPub' = [tiPub EXCEPT ![p].pc = "net"]
  /\ UNCHANGED <<tiRest, tiMsg, tiSubs, tiQ, tiGot, tiCur, tiPump, tiNetOut, tiNetIn, tiOdd>>

\* trySend without room takes the references back.
TiTakenBack(w) == IF TiKind(w.m) = "shm" THEN -w.diff ELSE 0

\* Only where a network engine keeps the message: without one trySend has cleared
\* the pointer that leads to the count.
TiClaimFails(p) ==
  LET w == tiPub[p] IN
  /\ w.pc = "claim" /\ tiSet.try /\ ~TiRoom(w.m, p)
  /\ TiKept(w.m) \/ TiKind(w.m) # "shm"
  /\ TiShift(w.m, p, IF TiKept(w.m) THEN 0 ELSE -1, TiTakenBack(w))
  /\ tiPub' = [tiPub EXCEPT ![p].pc = "net", ![p].ok = FALSE]
  /\ UNCHANGED <<tiRest, tiMsg, tiSubs, tiQ, tiGot, tiRing, tiCur, tiPump, tiNetOut, tiNetIn, tiOdd>>

\* queue and tryQueue of the sending engine
TiNetSent(m, p) == TiKept(m) /\ TiNetTakers(p, TiTagOf(m)) # {}

\* The engine takes the message when a remote party subscribes, and releases it at
\* once when none does; then publish returns and the caller's message goes.
TiNetQueue(p) ==
  LET w == tiPub[p]
      sent == TiNetSent(w.m, p)
      held == IF w.diff # 0 /\ TiKept(w.m) THEN 1 ELSE 0
  IN  /\ w.pc = "net"
      /\ tiNetOut' = IF sent THEN [tiNetOut EXCEPT ![p] = Append(@, w.m)] ELSE tiNetOut
      /\ TiShift(w.m, p, (IF sent THEN 1 ELSE 0) - held - 1, 0)
      /\ tiPub' = [tiPub EXCEPT ![p] = TiIdlePub]
      /\ UNCHANGED <<tiRest, tiMsg, tiSubs, tiQ, tiGot, tiRing, tiCur, tiPump, tiNetIn, tiOdd>>

\* The engines of both ends (external): in order, to every host that subscribes.
TiTransfer(p) ==
  /\ tiNetOut[p] # <<>>
  /\ LET m == Head(tiNetOut[p]) to == TiNetTakers(p, TiTagOf(m)) IN
     /\ tiNetIn' = [q \in TiProcs |-> IF q \in to THEN Append(tiNetIn[q], m) ELSE tiNetIn[q]]
     /\ tiNetOut' = [tiNetOut EXCEPT ![p] = Tail(@)]
     /\ TiShift(m, p, -1, 0)
  /\ UNCHANGED <<tiRest, tiMsg, tiPub, tiSubs, tiQ, tiGot, tiRing, tiCur, tiPump, tiOdd>>

-----------------------------------------------------------------------------
(* The pumps.                                                               *)

TiPumpIdle(p, k) == tiPump[p][k].m = 0
TiWanted(p, k, t) == t \in tiIn[p] /\ TiPumpOf(t) = k

\* hmbdcAvoidIpcFrom
TiOwn(p, e) == e.from = p

\* The processor of attachments in the ring: the head of one in segments is cached,
\* a message is complete with its last segment, or at once when it has none.
TiBegins(p, k, e) ==
  TiWanted(p, k, TiTagOf(e.m)) /\ ~TiOwn(p, e) /\ e.part = "head" /\ TiKind(e.m) = "seg"
TiEnds(p, k, e) == e.part = "seg" /\ tiPump[p][k].att # 0
TiWhole(p, k, e) ==
  \/ TiWanted(p, k, TiTagOf(e.m)) /\ ~TiOwn(p, e) /\ e.part = "head" /\ TiKind(e.m) # "seg"
  \/ TiEnds(p, k, e)

\* handleRangeImpl and the dispatcher for one entry: own messages, tags not asked
\* for and segments that follow neither are stepped over; the head of an attachment
\* in segments is cached; a whole message is handed to the nodes.
TiPeek(p, k) ==
  /\ TiPumpIdle(p, k) /\ tiUp[p] = "up" /\ tiCur[p][k] >= 0 /\ tiCur[p][k] < Len(tiRing)
  /\ LET e == tiRing[tiCur[p][k] + 1]
         w == tiPump[p][k]
         whole == TiWhole(p, k, e)
     IN  /\ tiPump' = [tiPump EXCEPT ![p][k] =
              IF TiBegins(p, k, e) THEN [w EXCEPT !.att = e.m]
              ELSE IF whole THEN [w EXCEPT !.m = e.m, !.att = 0, !.todo = TiLocal(p, TiTagOf(e.m))]
              ELSE w]
         /\ tiCur' = IF whole THEN tiCur ELSE [tiCur EXCEPT ![p][k] = @ + 1]
         /\ IF whole THEN TiShift(e.m, p, 1, 0) ELSE UNCHANGED tiAtt
  /\ UNCHANGED <<tiRest, tiMsg, tiPub, tiSubs, tiQ, tiGot, tiRing, tiNetOut, tiNetIn, tiOdd>>

\* The receiving engine hands a message to OneBuffer, which sends it to the nodes.
TiNetPut(p) ==
  /\ tiNetIn[p] # <<>> /\ tiUp[p] = "up"
  /\ LET m == Head(tiNetIn[p]) k == TiPumpOf(TiTagOf(m)) IN
     /\ TiPumpIdle(p, k) /\ tiPump[p][k].att = 0
     /\ tiPump' = [tiPump EXCEPT ![p][k] = [@ EXCEPT !.m = m, !.net = TRUE, !.todo = TiLocal(p, TiTagOf(m))]]
     /\ IF TiKind(m) = "shm" THEN UNCHANGED tiAtt ELSE TiShift(m, p, 1, 0)
  /\ UNCHANGED <<tiRest, tiMsg, tiPub, tiSubs, tiQ, tiGot, tiRing, tiCur, tiNetOut, tiNetIn, tiOdd>>

\* handleMessageCb of the pump, or of OneBuffer: send to the thread context.
TiForward(p, k) ==
  LET w == tiPump[p][k] n == Min(w.todo) IN
  /\ w.m # 0 /\ w.todo # {} /\ TiAccepts(n) /\ TiDeliver(n, w.m)
  /\ tiPump' = [tiPump EXCEPT ![p][k].todo = @ \ {n}]
  /\ UNCHANGED <<tiRest, tiMsg, tiPub, tiSubs, tiRing, tiCur, tiNetOut, tiNetIn, tiOdd>>

\* The pump's own copy goes and the entry is passed.
TiPassed(p, k) ==
  LET w == tiPump[p][k] IN
  /\ w.m # 0 /\ w.todo = {}
  /\ IF TiCopied(w.m, p) THEN TiShift(w.m, p, -1, 0) ELSE UNCHANGED tiAtt
  /\ tiPump' = [tiPump EXCEPT ![p][k] = [TiIdlePump EXCEPT !.att = w.att]]
  /\ IF w.net THEN tiNetIn' = [tiNetIn EXCEPT ![p] = Tail(@)] /\ UNCHANGED tiCur
     ELSE tiCur' = [tiCur EXCEPT ![p][k] = @ + 1] /\ UNCHANGED tiNetIn
  /\ UNCHANGED <<tiRest, tiMsg, tiPub, tiSubs, tiQ, tiGot, tiRing, tiNetOut, tiOdd>>

\* startPumping, in "delayed" mode: the pumps read from where the ring is now.
TiStartPumping(p) ==
  /\ p \in tiSet.procs /\ TiShared(p) /\ tiUp[p] = "up" /\ tiCur[p][0] < 0
  /\ tiCur' = [tiCur EXCEPT ![p] = [k \in TiPumps |-> Len(tiRing)]]
  /\ UNCHANGED <<tiRest, tiMsg, tiPub, tiSubs, tiQ, tiGot, tiRing, tiPump, tiNetOut, tiNetIn, tiAtt, tiOdd>>

-----------------------------------------------------------------------------
(* Nodes come, handle messages and go; processes stop or crash.             *)

\* Messages of a tag that somebody has still to read.
TiUnderWay(ts) == {m \in DOMAIN tiMsg : tiMsg[m].t \in ts /\
                     \/ \E q \in TiProcs : tiPub[q].m = m
                     \/ \E q \in TiProcs, k \in TiPumps : tiPump[q][k].m = m \/ tiPump[q][k].att = m
                     \/ \E q \in TiProcs, k \in TiPumps, i \in DOMAIN tiRing :
                          tiRing[i].m = m /\ tiCur[q][k] >= 0 /\ tiCur[q][k] < i
                     \/ \E q \in TiProcs : m \in Range(tiNetOut[q]) \cup Range(tiNetIn[q])}

\* addPubSubFor: set marks a tag in the pump's own set first ...
TiMark(n) ==
  LET p == tiSet.home[n] ts == tiSet.subs[n] \ tiIn[p] IN
  /\ tiNode[n] = "out" /\ p \in tiSet.procs /\ tiUp[p] = "up"
  /\ tiIn' = [tiIn EXCEPT ![p] = @ \cup ts]
  /\ tiNew' = [tiNew EXCEPT ![n] = ts]
  /\ tiNode' = [tiNode EXCEPT ![n] = "marked"]
  /\ tiOdd' = tiOdd \cup TiUnderWay(ts)
  /\ UNCHANGED <<tiRest, tiMsg, tiPub, tiOut, tiNetSub, tiQ, tiGot, tiRing, tiCur, tiPump, tiNetOut, tiNetIn, tiAtt>>

TiCounted(n) == tiNew[n]

\* ... and afterAddTag then counts the ones that are new; the engines follow.
TiAddCount(n) ==
  LET p == tiSet.home[n] IN
  /\ tiNode[n] = "marked"
  /\ tiOut' = [t \in TiTags |-> IF TiShared(p) /\ t \in TiCounted(n) THEN tiOut[t] + 1 ELSE tiOut[t]]
  /\ tiNetSub' = [tiNetSub EXCEPT ![p] = @ \cup tiSet.subs[n]]
  /\ tiNew' = [tiNew EXCEPT ![n] = {}]
  /\ tiNode' = [tiNode EXCEPT ![n] = "counted"]
  /\ tiOdd' = tiOdd \cup TiUnderWay(tiSet.subs[n])
  /\ UNCHANGED <<tiRest, tiMsg, tiPub, tiIn, tiQ, tiGot, tiRing, tiCur, tiPump, tiNetOut, tiNetIn, tiAtt>>

\* threadCtx_.start
TiStartNode(n) ==
  /\ tiNode[n] = "counted" /\ tiUp[tiSet.home[n]] = "up"
  /\ tiNode' = [tiNode EXCEPT ![n] = "on"]
  /\ UNCHANGED <<tiRest, tiMsg, tiPub, tiOut, tiIn, tiNetSub, tiNew, tiQ, tiGot, tiRing, tiCur, tiPump,
                 tiNetOut, tiNetIn, tiAtt, tiOdd>>

\* The node's thread handles a message and destroys its copy.
TiHandle(n) ==
  LET p == tiSet.home[n] m == Head(tiQ[n]) IN
  /\ tiNode[n] = "on" /\ tiQ[n] # <<>> /\ tiUp[p] \notin {"crashed"}
  /\ tiQ' = [tiQ EXCEPT ![n] = Tail(@)]
  /\ tiGot' = [tiGot EXCEPT ![n] = Append(@, m)]
  /\ IF TiCopied(m, p) THEN TiShift(m, p, -1, 0) ELSE UNCHANGED tiAtt
  /\ UNCHANGED <<tiRest, tiMsg, tiPub, tiSubs, tiRing, tiCur, tiPump, tiNetOut, tiNetIn, tiOdd>>

\* The context of a SingleNodeDomain has a droppedCb, its node's, which the pump's
\* calls instead of taking back what it subscribed.
TiForwardsDrop(p) == p \in tiSet.single
TiOutAfter(p) ==
  IF TiForwardsDrop(p) THEN tiOut
  ELSE [t \in TiTags |-> IF t \in tiIn[p] THEN tiOut[t] - 1 ELSE tiOut[t]]

\* Domain::stop and join with no publisher at work: the pumps end their loops with
\* nothing in hand and drain the ring; the nodes finish their queues (BlockingContext).
TiStop(p) ==
  /\ p \in tiSet.leave /\ tiUp[p] = "up" /\ tiPub[p].pc = "idle" /\ tiNetOut[p] = <<>>
  /\ \A k \in TiPumps : tiPump[p][k] = TiIdlePump
  /\ \A n \in TiNodes : tiSet.home[n] = p => tiNode[n] \in {"out", "on"}
  /\ tiUp' = [tiUp EXCEPT ![p] = "stopping"]
  /\ tiCur' = [tiCur EXCEPT ![p] = [k \in TiPumps |-> IF @[k] >= 0 THEN Len(tiRing) ELSE @[k]]]
  /\ tiNetIn' = [tiNetIn EXCEPT ![p] = <<>>]
  /\ tiOdd' = tiOdd \cup TiUnderWay(tiIn[p])
  /\ UNCHANGED <<tiSet, tiMsg, tiPub, tiSubs, tiQ, tiGot, tiRing, tiPump, tiNetOut, tiAtt>>

\* Their droppedCb takes the counts back, and they leave the ring; what was published
\* since they drained it has been counted for readers that never take it.
TiLeave(p) ==
  /\ tiUp[p] = "stopping"
  /\ tiUp' = [tiUp EXCEPT ![p] = "gone"]
  /\ tiOut' = IF TiShared(p) THEN TiOutAfter(p) ELSE tiOut
  /\ tiCur' = [tiCur EXCEPT ![p] = [k \in TiPumps |-> -1]]
  /\ tiOdd' = tiOdd \cup TiUnderWay(tiIn[p])
  /\ UNCHANGED <<tiSet, tiMsg, tiPub, tiIn, tiNetSub, tiNode, tiNew, tiQ, tiGot, tiRing, tiPump,
                 tiNetOut, tiNetIn, tiAtt>>

\* A process dies: what it held and what it subscribed stays in shared memory; its
\* place in the ring is taken from it later (the purger of Context).
TiCrash(p) ==
  /\ p \in tiSet.crash /\ tiUp[p] = "up"
  /\ tiUp' = [tiUp EXCEPT ![p] = "crashed"]
  /\ tiPub' = [tiPub EXCEPT ![p] = TiIdlePub]
  /\ tiPump' = [tiPump EXCEPT ![p] = [k \in TiPumps |-> TiIdlePump]]
  /\ tiNetOut' = [tiNetOut EXCEPT ![p] = <<>>]
  /\ tiNetIn' = [tiNetIn EXCEPT ![p] = <<>>]
  /\ tiOdd' = DOMAIN tiMsg
  /\ UNCHANGED <<tiSet, tiMsg, tiSubs, tiQ, tiGot, tiRing, tiCur, tiAtt>>

TiPurge(p) ==
  /\ tiUp[p] = "crashed" /\ tiCur[p][0] >= 0
  /\ tiCur' = [tiCur EXCEPT ![p] = [k \in TiPumps |-> -1]]
  /\ UNCHANGED <<tiRest, tiMsg, tiPub, tiSubs, tiQ, tiGot, tiRing, tiPump, tiNetOut, tiNetIn, tiAtt, tiOdd>>

-----------------------------------------------------------------------------
TiInit ==
  /\ tiSet \in TiSettings
  /\ tiUp = [p \in TiProcs |-> IF p \in tiSet.procs THEN "up" ELSE "gone"]
  /\ tiMsg = <<>> /\ tiPub = [p \in TiProcs |-> TiIdlePub]
  /\ tiIn = [p \in TiProcs |-> UNION {tiSet.subs[n] : n \in {x \in tiSet.on : tiSet.home[x] = p}}]
  /\ tiOut = [t \in TiTags |-> Cardinality({p \in TiProcs : TiShared(p) /\ t \in tiIn[p]})]
  /\ tiNetSub = tiIn
  /\ tiNode = [n \in TiNodes |-> IF n \in tiSet.on THEN "on" ELSE "out"]
  /\ tiNew = [n \in TiNodes |-> {}]
  /\ tiQ = [n \in TiNodes |-> <<>>] /\ tiGot = [n \in TiNodes |-> <<>>]
  /\ tiRing = <<>>
  /\ tiCur = [p \in TiProcs |-> [k \in TiPumps |->
                IF p \in tiSet.procs \ tiSet.delayed /\ TiShared(p) THEN 0 ELSE -1]]
  /\ tiPump = [p \in TiProcs |-> [k \in TiPumps |-> TiIdlePump]]
  /\ tiNetOut = [p \in TiProcs |-> <<>>] /\ tiNetIn = [p \in TiProcs |-> <<>>]
  /\ tiCopies = [m \in 1..TiMaxMsg |-> [p \in TiProcs |-> 0]]
  /\ tiRef = [m \in 1..TiMaxMsg |-> 0] /\ tiFreed = [m \in 1..TiMaxMsg |-> 0]
  /\ tiOdd = {}

TiPublisher(p) == TiHand(p) \/ TiCount(p) \/ TiClaim(p) \/ TiClaimFails(p) \/ TiNetQueue(p)
TiRunPump(p, k) == TiPeek(p, k) \/ TiForward(p, k) \/ TiPassed(p, k)
TiAdding(n) == TiAddCount(n) \/ TiStartNode(n)

\* Publishing threads, pumps, engines and nodes have threads of their own and the
\* purger runs in every process that is up: while one of them can go on, one does.
\* What is published and who comes, stops or dies is left to the program.
TiRunning ==
  \/ \E p \in TiProcs : \/ TiPublisher(p) \/ TiTransfer(p) \/ TiNetPut(p)
                        \/ TiLeave(p) \/ TiPurge(p)
                        \/ \E k \in 0..(tiSet.pumps - 1) : TiRunPump(p, k)
  \/ \E n \in TiNodes : TiAdding(n) \/ TiHandle(n)
TiNext ==
  \/ TiRunning
  \/ \E p \in TiProcs : \/ \E t \in tiSet.say : TiPublish(p, t)
                        \/ TiStartPumping(p) \/ TiStop(p) \/ TiCrash(p)
  \/ \E n \in TiNodes : TiMark(n)

TiFairness == WF_tiVars(TiRunning)

TiSpec == TiInit /\ [][TiNext]_tiVars /\ TiFairness

-----------------------------------------------------------------------------
TiTypeOK ==
  /\ \A n \in TiNodes : Len(tiQ[n]) <= TiQueue
  /\ \A p \in TiProcs : /\ tiPub[p].m \in 0..Len(tiMsg)
                        /\ \A k \in TiPumps : tiCur[p][k] \in -1..Len(tiRing)
  /\ \A t \in TiTags : tiOut[t] \in 0..Cardinality(tiSet.procs)
  /\ \A m \in 1..TiMaxMsg, p \in TiProcs : tiCopies[m][p] \in Nat

\* The count a publisher reads from shared memory is the number of processes that
\* subscribe, whatever nodes come and Domains stop: none is counted twice for two
\* nodes that want the same tag, none stays behind.  It fails to hold for processes
\* that died or ran a SingleNodeDomain, whose counts nobody takes back.
TiCountsMatch ==
  tiSet.ipc /\ tiSet.single = {} /\ (\A p \in TiProcs : tiUp[p] # "crashed") =>
    \A t \in TiTags : tiOut[t] =
      Cardinality({p \in TiProcs : TiShared(p) /\ tiUp[p] # "gone" /\ t \in tiIn[p] /\
                     \A n \in TiNodes : tiSet.home[n] = p => t \notin tiNew[n]})

\* Messages with one tag from one process reach a node in the order published and
\* none twice: not from its own process and again from the ring or the network
\* (hmbdcAvoidIpcFrom), nor through two pumps.
TiInOrder ==
  \A n \in TiNodes : LET s == tiGot[n] \o tiQ[n] IN
    \A i, j \in DOMAIN s :
      i < j /\ tiMsg[s[i]].p = tiMsg[s[j]].p /\ tiMsg[s[i]].t = tiMsg[s[j]].t => s[i] < s[j]

\* An attachment in shared memory is deallocated once, and never while a process
\* holds it or has still to take it from the ring, as long as the subscribers do
\* not change under it (hmbdc0cpyShmRefCount).
TiSharedAlive ==
  \A m \in DOMAIN tiMsg : TiKind(m) = "shm" /\ m \notin tiOdd =>
    /\ tiFreed[m] <= 1
    /\ tiFreed[m] = 1 => /\ \A p \in TiProcs : tiCopies[m][p] = 0
                         /\ \A p \in TiProcs : ~(\E i \in DOMAIN tiRing :
                              /\ tiRing[i].m = m /\ TiReading(p) /\ tiRing[i].from # p
                              /\ tiMsg[m].t \in tiIn[p] /\ tiCur[p][TiPumpOf(tiMsg[m].t)] < i)

\* And it is deallocated in the end, also when trySend gave up.
TiReclaimed ==
  \A m \in 1..Len(tiMsg) : TiKind(m) = "shm" => m \in tiOdd \/ tiFreed[m] = 1

\* A published message reaches every node that was added and counted before, in
\* this process, on this host and on the others.
TiReaches ==
  \A m \in 1..Len(tiMsg) : \A n \in tiMsg[m].need :
    m \in Range(tiGot[n]) \/ m \in tiOdd \/ tiSet.try

\* What a TIPS domain keeps true: subscription counts, the order of one publisher's messages,
\* and shared attachments that live while somebody may read them.
TiSafety == TiTypeOK /\ TiCountsMatch /\ TiInOrder /\ TiSharedAlive

\* Where publishing leads to in the end.
TiSettled == TiReclaimed /\ TiReaches
=============================================================================
