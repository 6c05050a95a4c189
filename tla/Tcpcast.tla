------------------------------- MODULE Tcpcast -------------------------------
(***************************************************************************)
(* tcpcast: one sending engine (tips/tcpcast/SendTransportEngine.hpp,       *)
(* SendServer.hpp, SendSession.hpp) and receiving engines                   *)
(* (RecvTransportEngine.hpp, RecvSession.hpp) joined by TCP connections.    *)
(* Messages wait in a ring; the engine groups the ones of one type into     *)
(* batches of pointers into the ring, every session works through the       *)
(* queue of batches at its own pace, and what the slowest has passed is     *)
(* released.  A receiver connects when an advertisement names a type it     *)
(* subscribes to and tells the sender its subscriptions over the            *)
(* connection.                                                              *)
(*                                                                          *)
(* A message crosses a connection as units: its head with the payload and,  *)
(* when it has one, its attachment; a send may stop between any two.  TCP,  *)
(* and the multicast of advertisements, are external.                       *)
(***************************************************************************)
EXTENDS Integers, Sequences, FiniteSets, FiniteSetsExt, SequencesExt

CONSTANTS
  TcReceivers,   \* receiving engines
  TcTags,        \* type tags
  TcSettings,    \* receivers that take part, those of them that stop reading and
                 \* those that subscribed at once; tags sent, minRecvToStart,
                 \* waitForSlowReceivers; bounds on messages, connections, failures
  TcAttached,    \* tags of messages with a memory attachment
  TcRing,        \* capacity of the ring, and of the queue of batches
  TcBatchMax,    \* maxSendBatch
  TcSocket,      \* units a connection holds
  TcMaxMsg,      \* bound: messages sent
  TcMaxConn      \* bound: connections ever made

ASSUME TcAssumption ==
  /\ TcAttached \subseteq TcTags
  /\ TcSettings \subseteq [tags : SUBSET TcTags, minRecv : Nat, wait : BOOLEAN,
                           rcv : SUBSET TcReceivers, stuck : SUBSET TcReceivers,
                           early : SUBSET TcReceivers, msgs : 0..TcMaxMsg,
                           conns : 0..TcMaxConn, drops : Nat]
  /\ TcRing \in Nat \ {0} /\ TcBatchMax \in Nat \ {0} /\ TcSocket \in Nat \ {0}
  /\ TcMaxMsg \in Nat /\ TcMaxConn \in Nat

VARIABLES
  tcSet,     \* the setting explored, chosen once
  tcMsgs,    \* tags of the messages put in the ring, in order
  tcRel,     \* messages released from the ring
  tcBegin,   \* begin_: messages already grouped into batches
  tcStarted, \* minRecvToStart_ is 0
  tcQueue,   \* toSendQueue_
  tcPc,      \* step of the engine: "idle", "sessions", "release"
  tcPeek,    \* end of the messages peeked in this round
  tcTodo,    \* sessions that have not run in this round
  tcMin,     \* minIndex of the round
  tcLast,    \* lastSeq_ of cullSlow
  tcOut,     \* outboundSubscriptions_
  tcC,       \* connections: both ends and what is on the wire
  tcSub,     \* subscriptions_ of a receiver
  tcDirty,   \* subscriptionsDirty_
  tcRefreshed,\* the receiver has refreshed its sessions and not yet cleared the mark
  tcGot,     \* messages delivered through each connection
  tcFreed,   \* attachments released by the sender, with how often
  tcDrops,   \* connections that failed so far
  tcLostSub  \* subscriptions made between a refresh and the clearing of the mark

tcVars == <<tcSet, tcMsgs, tcRel, tcBegin, tcStarted, tcQueue, tcPc, tcPeek, tcTodo, tcMin,
            tcLast, tcOut, tcC, tcSub, tcDirty, tcRefreshed, tcGot, tcFreed, tcDrops, tcLostSub>>
tcEngine == <<tcRel, tcBegin, tcStarted, tcQueue, tcPc, tcPeek, tcTodo, tcMin, tcFreed>>
tcReceiver == <<tcSub, tcDirty, tcRefreshed, tcGot, tcLostSub>>

TcConns == 1..TcMaxConn

\* A connection: who connected, the states of the two ends, what each end wrote.
\* snd: "none", "wanted" (in the accept queue), "up" (a SendSession), "gone".
\* rcv: "none", "connecting", "up" (initialized_), "gone".  due is a ghost: the messages
\* grouped while the sender knew that the receiver wants them.
TcNoConn == [r |-> "none", snd |-> "none", rcv |-> "none", up |-> {}, down |-> <<>>,
             idx |-> 0, sent |-> 0, subs |-> {}, ready |-> FALSE, half |-> 0, due |-> {}]

TcSessions == {i \in TcConns : tcC[i].snd = "up"}
TcOf(r) == {i \in TcConns : tcC[i].r = r /\ tcC[i].rcv \in {"connecting", "up"}}
TcReady == {i \in TcSessions : tcC[i].ready}

\* TypeTagSet::check returns the low byte of the count.
TcCheck(t) == tcOut[t] % 256

-----------------------------------------------------------------------------
(* queue, tryQueue, queueJustBytes, called by publishing threads.           *)

TcWanted(t) == ~tcStarted \/ TcCheck(t) > 0

\* A message nobody subscribes to is dropped before it takes a slot of the ring.  When
\* the ring is full, queue waits, tryQueue gives up and queueJustBytes drops the message
\* without releasing its attachment: the latter two leave every variable as it is.
TcPut(t) ==
  /\ t \in tcSet.tags /\ Len(tcMsgs) < tcSet.msgs
  /\ TcWanted(t)
  /\ Len(tcMsgs) - tcRel < TcRing
  /\ tcMsgs' = Append(tcMsgs, t)
  /\ UNCHANGED <<tcSet, tcEngine, tcLast, tcOut, tcC, tcReceiver, tcDrops>>

-----------------------------------------------------------------------------
(* SendTransportEngine::runOnce, first half: batches of one type.           *)

\* The iterator stored with a batch is taken after the first message of the next
\* batch has been stepped over, so it lies one message behind the batch.
TcEndOfBatch(next) == next

TcBatches(from, to) ==
  LET s == SelectSeq([k \in 1..(to - from) |-> from + k],
                     LAMBDA i : i = from + 1 \/ tcMsgs[i] # tcMsgs[i - 1])
  IN  [k \in 1..Len(s) |->
         [tag |-> tcMsgs[s[k]], first |-> s[k],
          last |-> IF k < Len(s) THEN s[k + 1] - 1 ELSE to,
          end |-> IF k < Len(s) THEN TcEndOfBatch(s[k + 1]) ELSE to]]

TcSmaller(a, b) == IF a < b THEN a ELSE b
TcMayStart == tcStarted \/ Cardinality(TcReady) >= tcSet.minRecv

\* doAccept takes the oldest connection that waits; it starts at the head of the
\* queue with no subscriptions.
TcAccepted ==
  LET w == {i \in TcConns : tcC[i].snd = "wanted"}
  IN  IF w = {} THEN tcC ELSE [tcC EXCEPT ![Min(w)].snd = "up"]

TcNewlyDue(i, n) == IF i \in TcSessions THEN {m \in (tcBegin + 1)..n : tcMsgs[m] \in tcC[i].subs} ELSE {}

\* Rate limit and mtu may end the loop before all that was peeked is grouped.
TcBatch ==
  /\ tcPc = "idle"
  /\ tcStarted' = TcMayStart
  /\ LET e == IF tcStarted' THEN TcSmaller(Len(tcMsgs), tcRel + TcBatchMax) ELSE tcRel
         lo == IF e > tcBegin THEN tcBegin + 1 ELSE tcBegin
         up == {i \in TcConns : TcAccepted[i].snd = "up"}
     IN  /\ e > tcBegin \/ tcQueue # <<>> \/ tcC # TcAccepted
            \/ (\E i \in TcSessions : tcC[i].up # {}) \/ tcStarted # tcStarted'
         /\ tcPeek' = e
         /\ \E n \in lo..(IF e > tcBegin THEN e ELSE tcBegin) :
              /\ tcBegin' = n
              /\ tcC' = [i \in TcConns |-> [TcAccepted[i] EXCEPT !.due = @ \cup TcNewlyDue(i, n)]]
              /\ IF up = {}
                 THEN /\ tcQueue' = <<>> /\ tcTodo' = {} /\ tcMin' = 0
                 ELSE /\ tcQueue' = tcQueue \o TcBatches(tcBegin, n)
                      /\ tcTodo' = up
                      /\ tcMin' = Min({Len(tcQueue')} \cup {tcC[i].idx : i \in up})
         /\ tcPc' = IF up = {} THEN "clear" ELSE "sessions"
  /\ UNCHANGED <<tcSet, tcMsgs, tcRel, tcFreed, tcLast, tcOut, tcReceiver, tcDrops>>

-----------------------------------------------------------------------------
(* SendServer::runOnce and SendSession::runOnce.                            *)

TcUnits(b) == (b.last - b.first + 1) * (IF b.tag \in TcAttached THEN 2 ELSE 1)
TcMsgOf(b, u) == b.first + (IF b.tag \in TcAttached THEN (u - 1) \div 2 ELSE u - 1)

\* (batch, unit) pairs a session has still to send.  A batch on the wire is finished
\* even when its tag is no longer subscribed.
TcPending(c, queue) ==
  LET w == 2 * TcRing IN
  SelectSeq([k \in 1..(Len(queue) * w) |-> <<((k - 1) \div w) + 1, ((k - 1) % w) + 1>>],
            LAMBDA p : /\ p[1] > c.idx /\ p[2] <= TcUnits(queue[p[1]])
                       /\ queue[p[1]].tag \in c.subs \/ (p[1] = c.idx + 1 /\ c.sent > 0)
                       /\ p[1] = c.idx + 1 => p[2] > c.sent)

\* What sendmsg puts on the wire: pointers into the ring, good only while the
\* message has not been released.
TcUnit(p, queue) ==
  LET b == queue[p[1]] m == TcMsgOf(b, p[2])
  IN  [m |-> m, tag |-> b.tag, good |-> m > tcRel,
       att |-> b.tag \in TcAttached /\ p[2] % 2 = 0]

\* Session after sendmsg took k units.
TcSent(c, queue, pend, k) ==
  LET next == IF k < Len(pend) THEN pend[k + 1] ELSE <<Len(queue) + 1, 1>>
  IN  [c EXCEPT !.idx = next[1] - 1, !.sent = next[2] - 1,
                !.down = @ \o [j \in 1..k |-> TcUnit(pend[j], queue)]]

\* doRead: "+tag" adds a subscription, "+" alone says that all were sent.
TcRead(c) == [c EXCEPT !.subs = @ \cup (c.up \ {"all"}), !.up = {},
                       !.ready = @ \/ "all" \in c.up]

\* ~SendSession takes its subscriptions back.
TcOutWithout(c) == [t \in TcTags |-> IF t \in c.subs THEN tcOut[t] - 1 ELSE tcOut[t]]
TcOutWith(c) == [t \in TcTags |-> IF t \in TcRead(c).subs \ c.subs THEN tcOut[t] + 1 ELSE tcOut[t]]

\* The peer's end is only noticed when something is sent to it.
TcRunSession ==
  /\ tcPc = "sessions" /\ tcTodo # {}
  /\ LET i == Min(tcTodo)
         c == TcRead(tcC[i])
         pend == TcPending(c, tcQueue)
     IN  /\ tcTodo' = tcTodo \ {i}
         /\ IF c.rcv = "gone" /\ pend # <<>>
            THEN /\ tcC' = [tcC EXCEPT ![i] = [c EXCEPT !.snd = "gone", !.down = <<>>]]
                 /\ tcOut' = TcOutWithout(tcC[i])
            ELSE /\ tcC' = [tcC EXCEPT ![i] =
                              TcSent(c, tcQueue, pend, TcSmaller(Len(pend), TcSocket - Len(c.down)))]
                 /\ tcOut' = TcOutWith(tcC[i])
  /\ UNCHANGED <<tcSet, tcMsgs, tcRel, tcBegin, tcStarted, tcQueue, tcPc, tcPeek, tcMin,
                 tcFreed, tcLast, tcReceiver, tcDrops>>

\* Messages up to n leave the ring; their attachments are released.
TcReleaseTo(n) ==
  /\ tcRel' = n
  /\ tcFreed' = [m \in 1..TcMaxMsg |->
       IF m \in (tcRel + 1)..n /\ tcMsgs[m] \in TcAttached THEN tcFreed[m] + 1 ELSE tcFreed[m]]

\* Mutant of TcPassed: the batches that some session has passed are released.
TcPassedBySome == Max({tcMin} \cup {tcC[i].idx : i \in TcSessions})
\* minIndex, taken before the sessions run, bounds what is released.
TcPassed == tcMin

TcRelease ==
  /\ tcPc = "sessions" /\ tcTodo = {}
  /\ IF TcPassed = 0 THEN UNCHANGED <<tcRel, tcFreed, tcQueue, tcC>>
     ELSE /\ IF tcPeek > tcRel THEN TcReleaseTo(tcQueue[TcPassed].end) ELSE UNCHANGED <<tcRel, tcFreed>>
          /\ tcQueue' = SubSeq(tcQueue, TcPassed + 1, Len(tcQueue))
          /\ tcC' = [i \in TcConns |-> IF tcC[i].snd = "up"
                                       THEN [tcC[i] EXCEPT !.idx = IF @ > TcPassed THEN @ - TcPassed ELSE 0]
                                       ELSE tcC[i]]
  /\ tcPc' = "idle" /\ tcMin' = 0 /\ tcPeek' = 0
  /\ UNCHANGED <<tcSet, tcMsgs, tcBegin, tcStarted, tcTodo, tcLast, tcOut, tcReceiver, tcDrops>>

\* Without a session everything that was grouped is released.
TcReleaseAll ==
  /\ tcPc = "clear"
  /\ IF tcPeek > tcRel THEN TcReleaseTo(tcBegin) ELSE UNCHANGED <<tcRel, tcFreed>>
  /\ tcPc' = "idle" /\ tcPeek' = 0
  /\ UNCHANGED <<tcSet, tcMsgs, tcBegin, tcStarted, tcQueue, tcTodo, tcMin, tcLast, tcOut,
                 tcC, tcReceiver, tcDrops>>

TcFull == Len(tcMsgs) - tcRel = TcRing

\* killSlowestSession: a session that has not finished the oldest batch.
TcSlowest == {i \in TcSessions : tcC[i].idx = 0}

\* The timer: unless it waits for slow receivers, a ring that is full and did not
\* move since the last time costs a session.
TcTimer ==
  /\ tcPc = "idle" /\ ~tcSet.wait
  /\ tcLast' = tcRel
  /\ IF tcLast = tcRel /\ TcFull /\ TcSlowest # {}
     THEN LET i == Min(TcSlowest)
          IN  tcC' = [tcC EXCEPT ![i].snd = "gone"] /\ tcOut' = TcOutWithout(tcC[i])
     ELSE tcLast # tcRel /\ UNCHANGED <<tcC, tcOut>>
  /\ UNCHANGED <<tcSet, tcMsgs, tcEngine, tcReceiver, tcDrops>>

-----------------------------------------------------------------------------
(* Receivers.                                                               *)

\* subscribeFor, from a thread of the node: the tags first, then the mark.
TcSubscribe(r, t) ==
  /\ r \in tcSet.rcv /\ t \in tcSet.tags \ tcSub[r]
  /\ tcSub' = [tcSub EXCEPT ![r] = @ \cup {t}]
  /\ tcDirty' = [tcDirty EXCEPT ![r] = TRUE]
  /\ tcLostSub' = IF tcRefreshed[r] THEN tcLostSub \cup {r} ELSE tcLostSub
  /\ UNCHANGED <<tcSet, tcMsgs, tcEngine, tcLast, tcOut, tcC, tcRefreshed, tcGot, tcDrops>>

\* sendSubscriptions: commands only ever add, so what is under way is a set.
TcCommands(r) == tcSub[r] \cup {"all"}

\* handleMessageCb of an advertisement, first part: when the mark is set every
\* session sends all subscriptions; on one still connecting the send fails and
\* the session is dropped.
TcRefresh(r) ==
  /\ tcDirty[r] /\ ~tcRefreshed[r]
  /\ tcC' = [i \in TcConns |->
       IF i \notin TcOf(r) THEN tcC[i]
       ELSE IF tcC[i].rcv = "up" THEN [tcC[i] EXCEPT !.up = @ \cup TcCommands(r)]
       ELSE [tcC[i] EXCEPT !.rcv = "gone"]]
  /\ tcRefreshed' = [tcRefreshed EXCEPT ![r] = TRUE]
  /\ UNCHANGED <<tcSet, tcMsgs, tcEngine, tcLast, tcOut, tcSub, tcDirty, tcGot, tcDrops, tcLostSub>>

\* Then the mark is cleared.
TcClearDirty(r) ==
  /\ tcRefreshed[r]
  /\ tcDirty' = [tcDirty EXCEPT ![r] = FALSE]
  /\ tcRefreshed' = [tcRefreshed EXCEPT ![r] = FALSE]
  /\ UNCHANGED <<tcSet, tcMsgs, tcEngine, tcLast, tcOut, tcC, tcSub, tcGot, tcDrops, tcLostSub>>

\* advertisingMessages: the tags marked for publishing, 64 to a message.
TcAdvertised == tcSet.tags

\* RecvSession::start: a connect that does not wait.
TcStarting(r) == [TcNoConn EXCEPT !.r = r, !.snd = "wanted", !.rcv = "connecting"]

\* And a source that is not connected and has something of interest is.
TcConnect(r) ==
  /\ ~tcDirty[r] /\ TcOf(r) = {} /\ tcSub[r] \cap TcAdvertised # {}
  /\ LET new == {i \in 1..tcSet.conns : tcC[i] = TcNoConn}
     IN  new # {} /\ tcC' = [tcC EXCEPT ![Min(new)] = TcStarting(r)]
  /\ UNCHANGED <<tcSet, tcMsgs, tcEngine, tcLast, tcOut, tcReceiver, tcDrops>>

\* initializeConn, once the socket is writable.
TcInitialize(i) ==
  /\ tcC[i].rcv = "connecting" /\ tcC[i].snd = "up"
  /\ tcC' = [tcC EXCEPT ![i].rcv = "up", ![i].up = @ \cup TcCommands(tcC[i].r)]
  /\ UNCHANGED <<tcSet, tcMsgs, tcEngine, tcLast, tcOut, tcReceiver, tcDrops>>

\* RecvSession::doRead takes a unit.  A head is complete by itself or announces an
\* attachment, which is downloaded before the message is handed on; a message
\* without subscription is skipped by the length of its head alone.
TcReceive(i) ==
  LET c == tcC[i] u == Head(c.down) IN
  /\ c.rcv = "up" /\ c.down # <<>> /\ c.r \notin tcSet.stuck
  /\ IF u.tag \in TcAttached /\ u.tag \in tcSub[c.r] /\ c.half = 0
     THEN /\ tcC' = [tcC EXCEPT ![i].down = Tail(@), ![i].half = u.m]
          /\ UNCHANGED tcGot
     ELSE /\ tcC' = [tcC EXCEPT ![i].down = Tail(@), ![i].half = 0]
          /\ tcGot' = [tcGot EXCEPT ![i] = IF u.tag \in tcSub[c.r]
                         THEN Append(@, [m |-> u.m, head |-> c.half, good |-> u.good]) ELSE @]
  /\ UNCHANGED <<tcSet, tcMsgs, tcEngine, tcLast, tcOut, tcSub, tcDirty, tcRefreshed, tcDrops, tcLostSub>>

\* recv returns 0 after the last byte: the peer has gone.
TcPeerGone(i) ==
  /\ tcC[i].rcv \in {"connecting", "up"} /\ tcC[i].snd = "gone" /\ tcC[i].down = <<>>
  /\ tcC' = [tcC EXCEPT ![i].rcv = "gone"]
  /\ UNCHANGED <<tcSet, tcMsgs, tcEngine, tcLast, tcOut, tcReceiver, tcDrops>>

\* The connection fails under the receiver (a heartbeat or a recv that fails).
TcFail(i) ==
  /\ tcC[i].rcv \in {"connecting", "up"} /\ tcDrops < tcSet.drops
  /\ tcC' = [tcC EXCEPT ![i].rcv = "gone", ![i].up = {}]
  /\ tcDrops' = tcDrops + 1
  /\ UNCHANGED <<tcSet, tcMsgs, tcEngine, tcLast, tcOut, tcReceiver>>

-----------------------------------------------------------------------------
\* RecvTransportEngine's constructor; a node may have subscribed before it runs.
TcRecvInit ==
  /\ tcSub = [r \in TcReceivers |-> IF r \in tcSet.early THEN tcSet.tags ELSE {}]
  /\ tcDirty = [r \in TcReceivers |-> r \in tcSet.early]
  /\ tcRefreshed = [r \in TcReceivers |-> FALSE]
  /\ tcGot = [i \in TcConns |-> <<>>]
  /\ tcLostSub = {}

TcInit ==
  /\ tcSet \in TcSettings
  /\ TcRecvInit
  /\ tcMsgs = <<>> /\ tcRel = 0 /\ tcBegin = 0
  /\ tcStarted = (tcSet.minRecv = 0)
  /\ tcQueue = <<>> /\ tcPc = "idle" /\ tcPeek = 0 /\ tcTodo = {} /\ tcMin = 0 /\ tcLast = 0
  /\ tcOut = [t \in TcTags |-> 0]
  /\ tcC = [i \in TcConns |-> TcNoConn]
  /\ tcFreed = [m \in 1..TcMaxMsg |-> 0]
  /\ tcDrops = 0

TcSendEngine == TcBatch \/ TcRunSession \/ TcRelease \/ TcReleaseAll
TcRecvEngine(r) ==
  \/ TcRefresh(r) \/ TcClearDirty(r) \/ TcConnect(r)
  \/ \E i \in TcConns : tcC[i].r = r /\ (TcInitialize(i) \/ TcReceive(i) \/ TcPeerGone(i))

TcNext ==
  \/ \E t \in TcTags : TcPut(t)
  \/ TcSendEngine \/ TcTimer
  \/ \E r \in TcReceivers : TcRecvEngine(r) \/ \E t \in TcTags : TcSubscribe(r, t)
  \/ \E i \in TcConns : TcFail(i)

\* The engines are polled for ever by their threads; the timers are looked at before
\* every round, so one that is due again and again fires (SF);
\* sockets become ready, and advertisements, repeated for ever, arrive now and then.
TcFairness ==
  /\ WF_tcVars(TcSendEngine) /\ SF_tcVars(TcTimer)
  /\ \A r \in TcReceivers :
       /\ WF_tcVars(TcRefresh(r)) /\ WF_tcVars(TcClearDirty(r)) /\ WF_tcVars(TcConnect(r))
       /\ WF_tcVars(\E i \in TcConns : tcC[i].r = r /\ (TcInitialize(i) \/ TcReceive(i) \/ TcPeerGone(i)))

TcSpec == TcInit /\ [][TcNext]_tcVars /\ TcFairness

-----------------------------------------------------------------------------
TcTypeOK ==
  /\ tcRel \in 0..Len(tcMsgs) /\ tcBegin \in 0..Len(tcMsgs)
  /\ Len(tcMsgs) - tcRel <= TcRing
  /\ Len(tcQueue) <= TcRing
  /\ \A i \in TcConns : Len(tcC[i].down) <= TcSocket /\ tcC[i].idx \in 0..Len(tcQueue) + TcRing
  /\ \A t \in TcTags : tcOut[t] \in 0..TcMaxConn

\* The engine counts a tag once for every live session that asked for it, whatever
\* the order of repeated subscriptions, refreshes and dying sessions: queue() drops
\* a message exactly when no session wants it (outboundSubscriptions_).
TcOutMatches == \A t \in TcTags : tcOut[t] = Cardinality({i \in TcSessions : t \in tcC[i].subs})

\* Messages of one type reach a receiver in order, at most once, never after the
\* sender has released their slot, and an attachment follows its own message
\* (the queue of batches and the release of the slowest, the parser of doRead).
TcFaithful ==
  Cardinality(tcSet.tags) = 1 =>
    \A i \in TcConns : \A j \in DOMAIN tcGot[i] :
      /\ tcGot[i][j].good
      /\ tcGot[i][j].head \in {0, tcGot[i][j].m}
      /\ j > 1 => tcGot[i][j].m = tcGot[i][j - 1].m + 1

\* With several types too, a receiver sees each message at most once and in order.
TcInOrder ==
  \A i \in TcConns : \A j \in 2..Len(tcGot[i]) : tcGot[i][j].m > tcGot[i][j - 1].m

\* Every attachment is released once, when its message leaves the ring.
TcFreedOnce ==
  \A m \in 1..Len(tcMsgs) : tcFreed[m] = IF m <= tcRel /\ tcMsgs[m] \in TcAttached THEN 1 ELSE 0

\* Nothing is sent before minRecvToStart receivers are ready.
TcWaitsForReceivers ==
  (\E i \in TcConns : tcC[i].down # <<>> \/ tcGot[i] # <<>>) =>
     Cardinality({i \in TcConns : tcC[i].ready}) >= tcSet.minRecv

\* A receiver that reads gets what the sender knows it wants, unless the
\* connection ends: nothing stays behind in the queue of batches.
TcDelivered ==
  \A i \in TcConns :
    \/ tcC[i].due \subseteq {tcGot[i][j].m : j \in DOMAIN tcGot[i]}
    \/ "gone" \in {tcC[i].snd, tcC[i].rcv}
    \/ tcC[i].r \in tcSet.stuck

\* Without waitForSlowReceivers a receiver that stopped reading cannot keep the
\* ring full for ever (cullSlow, killSlowestSession).
TcNotHeldBack == ~tcSet.wait /\ tcStarted => ~TcFull

\* A tag a receiver subscribes to reaches the sender, over the connection there is
\* or over a new one, unless it was marked between a refresh and its clearing.
TcSubscriptionArrives ==
  \A r \in TcReceivers : \A t \in tcSub[r] \cap tcSet.tags :
    \/ r \in tcLostSub \/ \A i \in 1..tcSet.conns : tcC[i] # TcNoConn
    \/ \E i \in TcSessions : tcC[i].r = r /\ t \in tcC[i].subs

\* What the tcpcast engines keep true: each receiver gets what it subscribed to in order,
\* attachments are given back once, and nothing is sent before the wanted receivers are there.
TcSafety == TcTypeOK /\ TcOutMatches /\ TcFaithful /\ TcInOrder /\ TcFreedOnce /\ TcWaitsForReceivers

\* Where queueing and subscribing lead to in the end.
TcSettled == TcDelivered /\ TcNotHeldBack /\ TcSubscriptionArrives
=============================================================================
